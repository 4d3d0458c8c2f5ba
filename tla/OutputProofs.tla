---------------------------- MODULE OutputProofs -----------------------------
(***************************************************************************)
(* Proofs for OutputStream: for any block, buffer and limit sizes that the *)
(* assumption admits, and any file an earlier run left.                    *)
(***************************************************************************)
EXTENDS OutputStream, Division, SequenceTheorems, TLAPS

-----------------------------------------------------------------------------
(* The inductive invariant behind the properties, in parts. *)

\* Places where out_fd is the file of the round.
InRound == {"loop", "write", "tail", "post"}

\* How the mode, the descriptor and the end go with the program counter.
Control ==
    /\ fate = "open" <=> pc # "done"
    /\ pc \in {"write", "post", "rest", "end", "last"} => compress
    /\ ~compress => buf = <<>>
    /\ pc \in InRound => fd \in {"direct", "bad"}
    /\ pc \in {"rest", "end", "last"} => fd = "append"
    /\ pc = "end" => buf = <<>>

\* The offset counts what was written in this round, in whole blocks.
Offsets ==
    /\ pc \in InRound => off = IF fd = "bad" THEN 0 ELSE data_written
    /\ pc \in {"loop", "write", "post"} => data_written < WrapAt
    /\ pc = "tail" => data_written < WrapAt + Capacity
    /\ pc \in InRound /\ fd = "bad" => data_written = 0
    /\ pc \in {"rest", "end", "last"} => off = Len(file)

\* out_buffer is the end of the stream.
BufferIsLast ==
    pc \notin {"close", "done"} =>
        /\ Len(buf) <= Len(stream)
        /\ \A i \in 1..Len(buf) : buf[i] = stream[Len(stream) - Len(buf) + i]

\* The file up to the offset is the round without out_buffer.
RoundInFile ==
    pc \in InRound /\ fd # "bad" =>
        /\ base + off + Len(buf) = Len(stream)
        /\ off <= Len(file)
        /\ \A i \in 1..off : file[i] = stream[base + i]

\* A clean file is the stream without out_buffer.
CleanFile ==
    Clean =>
        /\ fd # "bad"
        /\ Len(file) <= Len(stream)
        /\ \A i \in 1..Len(file) : file[i] = stream[i]
        /\ pc \notin {"close", "done"} =>
             off = Len(file) /\ Len(file) + Len(buf) = Len(stream)
        /\ pc \in {"post", "rest"} => flushed = Len(stream)
        /\ pc \in {"end", "last"} => Len(file) >= flushed
        /\ pc = "close" \/ fate = "finished" => Len(file) >= flushed

IndInv ==
    /\ TypeOK
    /\ Control
    /\ NothingLeft
    /\ Offsets
    /\ DirectAligned
    /\ FileBounded
    /\ BufferIsLast
    /\ RoundInFile
    /\ CleanFile

-----------------------------------------------------------------------------
(* The operators. *)

\* A function on 1..n is a sequence of length n.
LEMMA FunIsSeq ==
    ASSUME NEW S, NEW n \in Nat, NEW f \in [1..n -> S]
    PROVE  f \in Seq(S) /\ Len(f) = n
<1>1. f \in Seq(S)
  BY SeqDef
<1>2. DOMAIN f = 1..n /\ DOMAIN f = 1..Len(f) /\ Len(f) \in Nat
  BY <1>1, LenProperties
<1> QED BY <1>1, <1>2

\* The sizes, without the alignment of BufSize.
LEMMA Sizes ==
    /\ Block \in Nat /\ Block > 0
    /\ BufSize \in Nat /\ BufSize > 0
    /\ Overhead \in Nat
    /\ WrapAt \in Nat /\ WrapAt > 0
    /\ Capacity \in Nat
    /\ BufSize <= Capacity
    /\ BufSize + Overhead + Block <= Capacity + 1
    /\ Capacity' = Capacity
BY OutputAssumption DEF Capacity

LEMMA UnitsProps ==
    ASSUME stream \in Seq(Nat), NEW k \in Nat
    PROVE  /\ Units(k) \in Seq(Nat)
           /\ Len(Units(k)) = k
<1>1. Len(stream) \in Nat
  BY LenProperties
<1>2. Units(k) \in [1..k -> Nat]
  BY <1>1 DEF Units
<1> QED BY <1>2, FunIsSeq

LEMMA PaddedProps ==
    ASSUME stream \in Seq(Nat), NEW n \in Nat
    PROVE  /\ Padded(n) \in Seq(Nat)
           /\ Len(Padded(n)) = BufSize
<1>1. Len(stream) \in Nat
  BY LenProperties
<1>2. Padded(n) \in [1..BufSize -> Nat]
  BY <1>1, OutputAssumption DEF Padded, Zero
<1> QED BY <1>2, FunIsSeq, OutputAssumption

\* Whole blocks of out_buffer: all but less than a block.
LEMMA WholeBlocksProps ==
    ASSUME buf \in Seq(Nat)
    PROVE  /\ WholeBlocks \in 0..Len(buf)
           /\ Len(buf) - WholeBlocks < Block
           /\ WholeBlocks % Block = 0
<1> DEFINE n == Len(buf)
           q == n \div Block
<1>1. n \in Nat
  BY LenProperties
<1>2. Block \in Nat \ {0}
  BY OutputAssumption
<1>3. q \in Nat /\ n % Block \in 0..(Block - 1) /\ n = Block * q + (n % Block)
  BY <1>1, <1>2, DivMod
<1>4. Block * q \in Nat /\ (Block * q) % Block = 0
  BY <1>2, <1>3, ModZero
<1>5. WholeBlocks = Block * q
  BY <1>2, <1>3, Z3 DEF WholeBlocks
<1> QED BY <1>1, <1>2, <1>3, <1>4, <1>5

\* The length after a write at the end of a file.
LEMMA AtEnd ==
    ASSUME NEW a \in Nat, NEW k \in Nat
    PROVE  (IF a + k > a THEN a + k ELSE a) = a + k
OBVIOUS

\* A write inside the file or at its end.
LEMMA OverlayProps ==
    ASSUME NEW f \in Seq(Int), NEW chunk \in Seq(Int), NEW o \in 0..Len(f),
           NEW g, g = Overlay(f, o, chunk)
    PROVE  /\ g \in Seq(Int)
           /\ Len(g) = IF o + Len(chunk) > Len(f) THEN o + Len(chunk) ELSE Len(f)
           /\ \A i \in 1..o : g[i] = f[i]
           /\ \A i \in 1..Len(chunk) : g[o + i] = chunk[i]
<1> DEFINE m == IF o + Len(chunk) > Len(f) THEN o + Len(chunk) ELSE Len(f)
<1>1. Len(f) \in Nat /\ Len(chunk) \in Nat
  BY LenProperties
<1>2. m \in Nat
  BY <1>1
<1>3. g \in [1..m -> Int]
  BY <1>1, ElementOfSeq DEF Overlay
<1>4. g \in Seq(Int) /\ Len(g) = m
  BY <1>2, <1>3, FunIsSeq
<1>5. \A i \in 1..m :
         g[i] = IF i \in (o + 1)..(o + Len(chunk)) THEN chunk[i - o] ELSE f[i]
  BY DEF Overlay
<1>6. ASSUME NEW i \in 1..o PROVE g[i] = f[i]
  <2>1. i \in 1..m /\ i \notin (o + 1)..(o + Len(chunk))
    BY <1>1
  <2> QED BY <1>5, <2>1
<1>7. ASSUME NEW i \in 1..Len(chunk) PROVE g[o + i] = chunk[i]
  <2>1. o + i \in 1..m /\ o + i \in (o + 1)..(o + Len(chunk)) /\ (o + i) - o = i
    BY <1>1
  <2> QED BY <1>5, <2>1
<1> QED BY <1>4, <1>6, <1>7

\* The first part and the rest of out_buffer.
LEMMA SplitProps ==
    ASSUME NEW s \in Seq(Nat), NEW k \in 0..Len(s)
    PROVE  /\ SubSeq(s, 1, k) \in Seq(Nat)
           /\ SubSeq(s, 1, k) \in Seq(Int)
           /\ Len(SubSeq(s, 1, k)) = k
           /\ \A i \in 1..k : SubSeq(s, 1, k)[i] = s[i]
           /\ SubSeq(s, k + 1, Len(s)) \in Seq(Nat)
           /\ Len(SubSeq(s, k + 1, Len(s))) = Len(s) - k
           /\ \A i \in 1..(Len(s) - k) : SubSeq(s, k + 1, Len(s))[i] = s[k + i]
<1>1. Len(s) \in Nat /\ \A i \in 1..Len(s) : s[i] \in Nat
  BY LenProperties, ElementOfSeq
<1>2. \A i \in 1..k : s[i] \in Nat
  BY <1>1
<1>3. \A i \in (k + 1)..Len(s) : s[i] \in Nat
  BY <1>1
<1>4. /\ SubSeq(s, 1, k) \in Seq(Nat)
      /\ Len(SubSeq(s, 1, k)) = k
      /\ \A i \in 1..k : SubSeq(s, 1, k)[i] = s[i]
  BY <1>1, <1>2, SubSeqProperties
<1>5. SubSeq(s, 1, k) \in Seq(Int)
  BY <1>4, SeqMonotonic
<1>6. /\ SubSeq(s, k + 1, Len(s)) \in Seq(Nat)
      /\ Len(SubSeq(s, k + 1, Len(s))) = Len(s) - k
      /\ \A i \in 1..(Len(s) - k) : SubSeq(s, k + 1, Len(s))[i] = s[k + i]
  BY <1>1, <1>3, SubSeqProperties
<1> QED BY <1>4, <1>5, <1>6

\* What write(2) does to the file when all is written.
LEMMA WrittenProps ==
    ASSUME file \in Seq(Int), off \in 0..Len(file), NEW chunk \in Seq(Int),
           Written(chunk)
    PROVE  /\ file' \in Seq(Int)
           /\ off' = off + Len(chunk) /\ off' \in Nat /\ off' <= Len(file')
           /\ Len(file') = IF off' > Len(file) THEN off' ELSE Len(file)
           /\ \A i \in 1..off : file'[i] = file[i]
           /\ \A i \in 1..Len(chunk) : file'[off + i] = chunk[i]
<1>1. Len(file) \in Nat /\ Len(chunk) \in Nat
  BY LenProperties
<1>2. file' = Overlay(file, off, chunk) /\ off' = off + Len(chunk)
  BY DEF Written
<1>3. /\ file' \in Seq(Int)
      /\ Len(file') = IF off + Len(chunk) > Len(file) THEN off + Len(chunk) ELSE Len(file)
      /\ \A i \in 1..off : file'[i] = file[i]
      /\ \A i \in 1..Len(chunk) : file'[off + i] = chunk[i]
  BY <1>2, OverlayProps
<1>4. Len(file') = IF off' > Len(file) THEN off' ELSE Len(file)
  BY <1>2, <1>3
<1>5. off' \in Nat /\ off' <= Len(file')
  BY <1>1, <1>2, <1>4
<1> QED BY <1>2, <1>3, <1>4, <1>5

\* What it does when k units are written.
LEMMA ShortWriteProps ==
    ASSUME file \in Seq(Int), off \in 0..Len(file), NEW chunk \in Seq(Nat),
           ShortWrite(chunk)
    PROVE  \E k \in 0..(Len(chunk) - 1) :
             /\ fd = "bad" => k = 0
             /\ file' \in Seq(Int)
             /\ off' = off + k /\ off' \in Nat
             /\ Len(file') = IF off + k > Len(file) THEN off + k ELSE Len(file)
             /\ \A i \in 1..off : file'[i] = file[i]
             /\ \A i \in 1..k : file'[off + i] = chunk[i]
<1>1. Len(file) \in Nat /\ Len(chunk) \in Nat
  BY LenProperties
<1>2. PICK k \in 0..(Len(chunk) - 1) :
        /\ fd = "bad" => k = 0
        /\ file' = Overlay(file, off, SubSeq(chunk, 1, k))
        /\ off' = off + k
  BY DEF ShortWrite
<1> DEFINE part == SubSeq(chunk, 1, k)
<1>3. part \in Seq(Int) /\ Len(part) = k /\ \A i \in 1..k : part[i] = chunk[i]
  BY <1>1, SplitProps
<1> HIDE DEF part
<1>4. file' = Overlay(file, off, part)
  BY <1>2 DEF part
<1>5. /\ file' \in Seq(Int)
      /\ Len(file') = IF off + Len(part) > Len(file) THEN off + Len(part) ELSE Len(file)
      /\ \A i \in 1..off : file'[i] = file[i]
      /\ \A i \in 1..Len(part) : file'[off + i] = part[i]
  <2>1. part \in Seq(Int)
    BY <1>3
  <2> QED BY <1>4, <2>1, OverlayProps
<1>6. off + k \in Nat
  BY <1>1
<1> QED BY <1>2, <1>3, <1>5, <1>6

\* The stream only grows.
LEMMA GrowProps ==
    ASSUME stream \in Seq(Nat), NEW u \in Seq(Nat), stream' = stream \o u
    PROVE  /\ stream' \in Seq(Nat)
           /\ Len(stream') = Len(stream) + Len(u)
           /\ \A i \in 1..Len(stream) : stream'[i] = stream[i]
           /\ \A i \in 1..Len(u) : stream'[Len(stream) + i] = u[i]
<1>1. Len(stream) \in Nat /\ Len(u) \in Nat
  BY LenProperties
<1>2. /\ stream \o u \in Seq(Nat)
      /\ Len(stream \o u) = Len(stream) + Len(u)
      /\ \A i \in 1..(Len(stream) + Len(u)) : (stream \o u)[i] =
            IF i <= Len(stream) THEN stream[i] ELSE u[i - Len(stream)]
  BY ConcatProperties
<1> QED BY <1>1, <1>2

-----------------------------------------------------------------------------
(* The invariant. *)

LEMMA InitInv == Init => IndInv
<1> SUFFICES ASSUME Init PROVE IndInv
  OBVIOUS
<1> USE Sizes
<1>1. buf = <<>> /\ stream = <<>> /\ Len(buf) = 0 /\ Len(stream) = 0
      /\ buf \in Seq(Nat) /\ stream \in Seq(Nat)
  BY EmptySeq DEF Init
<1>2. old \in Nat /\ file \in Seq(Int) /\ Len(file) = old
  <2>1. old \in Nat
    BY OutputAssumption DEF Init
  <2>2. file \in [1..old -> Int]
    BY <2>1 DEF Init, Old
  <2> QED BY <2>1, <2>2, FunIsSeq
<1>3. TypeOK
  BY <1>1, <1>2 DEF Init, TypeOK, OutPC
<1>4. 0 % Block = 0
  BY ModZero
<1>5. Control /\ NothingLeft /\ Offsets /\ DirectAligned /\ FileBounded
  BY <1>1, <1>2, <1>4 DEF Init, Control, NothingLeft, Offsets, DirectAligned,
     FileBounded, InRound
<1>6. BufferIsLast /\ RoundInFile /\ CleanFile
  BY <1>1, <1>2 DEF Init, BufferIsLast, RoundInFile, CleanFile, Clean, InRound
<1> QED BY <1>3, <1>5, <1>6 DEF IndInv

\* Steps that change neither file nor buffers.
LEMMA QuietStep ==
    ASSUME IndInv, EndIteration \/ LeaveLoop \/ LoopFails \/ PostFails \/ Close
    PROVE  IndInv'
<1> USE Sizes DEF IndInv
<1>1. UNCHANGED <<compress, file, fd, off, buf, left, data_written, buffers, old,
                  stream, base>>
  BY DEF EndIteration, LeaveLoop, LoopFails, PostFails, Close, history
<1>2. Len(stream) \in Nat /\ Len(buf) \in Nat /\ Len(file) \in Nat /\ Capacity \in Nat
  BY LenProperties DEF TypeOK
<1> USE <1>1, <1>2 DEF EndIteration, LeaveLoop, LoopFails, PostFails, Close, history,
      GiveUp, InRound
<1>3. TypeOK'
  BY DEF TypeOK, OutPC
<1>4. Control'
  BY DEF Control
<1>5. Offsets'
  BY DEF Offsets, TypeOK
<1>6. NothingLeft' /\ DirectAligned' /\ FileBounded'
  BY DEF NothingLeft, DirectAligned, FileBounded, Control
<1>7. BufferIsLast'
  BY DEF BufferIsLast
<1>8. RoundInFile'
  BY DEF RoundInFile
<1>9. CleanFile'
  BY DEF CleanFile, Clean, Control
<1> QED BY <1>3, <1>4, <1>5, <1>6, <1>7, <1>8, <1>9

\* Lengths are numbers, and the descriptor points into the file.
LEMMA Places ==
    ASSUME IndInv
    PROVE  /\ Len(stream) \in Nat /\ Len(buf) \in Nat /\ Len(file) \in Nat
           /\ pc \in InRound \union {"rest", "last"} => off \in 0..Len(file)
<1>1. Len(stream) \in Nat /\ Len(buf) \in Nat /\ Len(file) \in Nat
  BY LenProperties DEF IndInv, TypeOK
<1>2. CASE pc \in InRound /\ fd = "bad"
  BY <1>1, <1>2 DEF IndInv, Offsets, InRound
<1>3. CASE pc \in InRound /\ fd # "bad"
  BY <1>1, <1>3 DEF IndInv, RoundInFile, TypeOK, InRound
<1>4. CASE pc \in {"rest", "last"}
  BY <1>1, <1>4 DEF IndInv, Offsets
<1> QED BY <1>1, <1>2, <1>3, <1>4

\* The bound of the file.
LEMMA MostProps ==
    ASSUME IndInv, fd # "append",
           NEW n, n = Len(file) \/ n <= WrapAt + Capacity, n \in Nat
    PROVE  n <= IF old > WrapAt + Capacity THEN old ELSE WrapAt + Capacity
<1>1. old \in Nat /\ Len(file) \in Nat
  BY Places DEF IndInv, TypeOK
<1>2. Len(file) <= IF old > WrapAt + Capacity THEN old ELSE WrapAt + Capacity
  BY DEF IndInv, FileBounded
<1> QED BY <1>1, <1>2, Sizes

\* Compressed output goes to the end of out_buffer.  It always fits.
LEMMA CompressStep ==
    ASSUME IndInv, Compress
    PROVE  IndInv'
<1> USE Sizes DEF IndInv
<1>1. Len(buf) < Block /\ buf \in Seq(Nat) /\ stream \in Seq(Nat) /\ pc = "loop" /\ compress
  BY DEF Compress, TypeOK
<1>len. Len(stream) \in Nat /\ Len(buf) \in Nat /\ Len(file) \in Nat
  BY Places
<1>2. PICK n \in 1..(BufSize + Overhead) :
        LET room == Capacity - Len(buf)
            k == IF n <= room THEN n ELSE room
        IN /\ buf' = buf \o Units(k)
           /\ stream' = stream \o Units(k)
           /\ left' = left + (n - k)
           /\ pc' = IF Len(buf) + k >= Block THEN "write" ELSE "tail"
  BY DEF Compress
<1>3. n \in Nat /\ n <= Capacity - Len(buf)
  BY <1>1, <1>len
<1> DEFINE u == Units(n)
<1>4. /\ buf' = buf \o u /\ stream' = stream \o u
      /\ left' = left + (n - n)
      /\ pc' = IF Len(buf) + n >= Block THEN "write" ELSE "tail"
  BY <1>2, <1>3
<1>5. u \in Seq(Nat) /\ Len(u) = n
  BY <1>1, <1>3, UnitsProps
<1> HIDE DEF u
<1>6. UNCHANGED <<compress, file, fd, off, data_written, old, base, flushed, fate>>
      /\ buffers' = buffers + 1
  BY DEF Compress
<1>7. /\ stream' \in Seq(Nat) /\ Len(stream') = Len(stream) + n
      /\ \A i \in 1..Len(stream) : stream'[i] = stream[i]
      /\ \A i \in 1..n : stream'[Len(stream) + i] = u[i]
  BY <1>1, <1>4, <1>5, GrowProps
<1>8. /\ buf' \in Seq(Nat) /\ Len(buf') = Len(buf) + n
      /\ \A i \in 1..(Len(buf) + n) : buf'[i] =
           IF i <= Len(buf) THEN buf[i] ELSE u[i - Len(buf)]
  BY <1>1, <1>4, <1>5, ConcatProperties
<1>9. TypeOK' /\ NothingLeft'
  BY <1>1, <1>len, <1>3, <1>4, <1>6, <1>7, <1>8 DEF TypeOK, NothingLeft, OutPC
<1>10. Control' /\ Offsets' /\ DirectAligned' /\ FileBounded'
  BY <1>1, <1>4, <1>6 DEF Control, Offsets, DirectAligned, FileBounded, InRound, TypeOK
<1>11. BufferIsLast'
  <2>1. Len(buf) <= Len(stream) /\ \A i \in 1..Len(buf) : buf[i] = stream[Len(stream) - Len(buf) + i]
    BY <1>1 DEF BufferIsLast
  <2>2. ASSUME NEW i \in 1..Len(buf') PROVE buf'[i] = stream'[Len(stream') - Len(buf') + i]
    <3>1. Len(stream') - Len(buf') + i = Len(stream) - Len(buf) + i
      BY <1>len, <1>3, <1>7, <1>8
    <3>2. CASE i <= Len(buf)
      <4>1. Len(stream) - Len(buf) + i \in 1..Len(stream) /\ i \in 1..Len(buf)
        BY <1>len, <2>1, <3>2
      <4> QED BY <1>3, <1>7, <1>8, <2>1, <3>1, <3>2, <4>1
    <3>3. CASE i > Len(buf)
      <4> DEFINE j == i - Len(buf)
      <4>1. j \in 1..n /\ Len(stream) - Len(buf) + i = Len(stream) + j /\ i \in 1..(Len(buf) + n)
        <5>1. i \in 1..(Len(buf) + n)
          BY <1>8
        <5> QED BY <1>len, <1>3, <3>3, <5>1
      <4>2. ~(i <= Len(buf))
        BY <1>len, <3>3
      <4>3. buf'[i] = u[j]
        BY <1>8, <4>1, <4>2
      <4>4. stream'[Len(stream) + j] = u[j]
        BY <1>7, <4>1
      <4> QED BY <3>1, <4>1, <4>3, <4>4
    <3> QED BY <1>len, <1>3, <1>8, <3>2, <3>3
  <2>3. Len(buf') <= Len(stream')
    BY <1>len, <1>3, <1>7, <1>8, <2>1
  <2> QED BY <2>2, <2>3 DEF BufferIsLast
<1>12. RoundInFile'
  <2> SUFFICES ASSUME fd # "bad"
               PROVE  /\ base + off + Len(buf') = Len(stream')
                      /\ off <= Len(file)
                      /\ \A i \in 1..off : file[i] = stream'[base + i]
    BY <1>6 DEF RoundInFile
  <2>1. /\ base + off + Len(buf) = Len(stream)
        /\ off <= Len(file)
        /\ \A i \in 1..off : file[i] = stream[base + i]
    BY <1>1 DEF RoundInFile, InRound
  <2>2. base \in Nat /\ off \in Nat /\ base + off + Len(buf) = Len(stream)
    BY <2>1 DEF TypeOK
  <2>3. base + off + (Len(buf) + n) = Len(stream) + n
    BY <1>len, <1>3, <2>2
  <2>4. \A i \in 1..off : base + i \in 1..Len(stream)
    BY <1>len, <2>2
  <2> QED BY <1>7, <1>8, <2>1, <2>3, <2>4
<1>13. CleanFile'
  <2> SUFFICES ASSUME Clean PROVE CleanFile'
    BY <1>6 DEF CleanFile, Clean
  <2>1. /\ fd # "bad" /\ Len(file) <= Len(stream)
        /\ \A i \in 1..Len(file) : file[i] = stream[i]
        /\ off = Len(file) /\ Len(file) + Len(buf) = Len(stream)
    BY <1>1 DEF CleanFile
  <2>2. Len(file) + (Len(buf) + n) = Len(stream) + n /\ Len(file) <= Len(stream) + n
    <3>1. Len(file) + Len(buf) = Len(stream)
      BY <2>1
    <3> QED BY <1>len, <1>3, <3>1
  <2>3. \A i \in 1..Len(file) : file[i] = stream'[i]
    <3>1. \A i \in 1..Len(file) : i \in 1..Len(stream)
      BY <1>len, <2>1
    <3> QED BY <1>7, <2>1, <3>1
  <2>4. fate' = "open" /\ pc' \in {"write", "tail"}
    BY <1>1, <1>4, <1>6 DEF Control
  <2> QED BY <1>6, <1>7, <1>8, <2>1, <2>2, <2>3, <2>4 DEF CleanFile
<1> QED BY <1>9, <1>10, <1>11, <1>12, <1>13

\* The whole blocks go to the file, the rest stays.
LEMMA WriteBlocksStep ==
    ASSUME IndInv, WriteBlocks
    PROVE  IndInv'
<1> USE Sizes DEF IndInv
<1> DEFINE w == WholeBlocks
           chunk == SubSeq(buf, 1, w)
<1>1. buf \in Seq(Nat) /\ file \in Seq(Int) /\ pc = "write" /\ fate = "open" /\ compress
  BY DEF WriteBlocks, TypeOK, Control
<1>len. Len(stream) \in Nat /\ Len(buf) \in Nat /\ Len(file) \in Nat
        /\ off \in 0..Len(file) /\ off \in Nat /\ data_written \in Nat
  BY <1>1, Places DEF InRound, TypeOK
<1>2. w \in 0..Len(buf) /\ Len(buf) - w < Block
  BY <1>1, WholeBlocksProps
<1>mod. w % Block = 0
  BY <1>1, WholeBlocksProps
<1>3. Written(chunk) /\ data_written' = data_written + w
      /\ buf' = SubSeq(buf, w + 1, Len(buf)) /\ pc' = "tail"
      /\ UNCHANGED <<compress, fd, left, buffers, old, stream, base, flushed, fate>>
  BY DEF WriteBlocks, history
<1> HIDE DEF w
<1>4. /\ chunk \in Seq(Int) /\ Len(chunk) = w
      /\ \A i \in 1..w : chunk[i] = buf[i]
      /\ buf' \in Seq(Nat) /\ Len(buf') = Len(buf) - w
      /\ \A i \in 1..(Len(buf) - w) : buf'[i] = buf[w + i]
  BY <1>1, <1>2, <1>3, SplitProps
<1> HIDE DEF chunk
<1>5. /\ file' \in Seq(Int) /\ off' = off + w /\ off' \in Nat /\ off' <= Len(file')
      /\ Len(file') = IF off' > Len(file) THEN off' ELSE Len(file)
      /\ \A i \in 1..off : file'[i] = file[i]
      /\ \A i \in 1..w : file'[off + i] = buf[i]
  BY <1>1, <1>len, <1>3, <1>4, WrittenProps
<1>6. fd = "direct" /\ off = data_written /\ data_written < WrapAt /\ w <= Capacity
  BY <1>1, <1>len, <1>2, <1>3 DEF Written, Control, Offsets, InRound, TypeOK
<1>7. TypeOK'
  <2>1. Len(buf') <= Capacity /\ Len(buf') < Block /\ data_written + w \in Nat
    <3>1. Len(buf) <= Capacity
      BY DEF TypeOK
    <3> QED BY <1>len, <1>2, <1>4, <3>1
  <2> QED BY <1>3, <1>4, <1>5, <2>1 DEF TypeOK, OutPC
<1>8. Control' /\ NothingLeft'
  BY <1>1, <1>3, <1>6 DEF Control, InRound, NothingLeft
<1>9. Offsets'
  <2>1. data_written + w < WrapAt + Capacity
    BY <1>len, <1>2, <1>6
  <2> QED BY <1>3, <1>5, <1>6, <2>1 DEF Offsets, InRound
<1>10. DirectAligned'
  <2>1. off % Block = 0 /\ data_written % Block = 0
    BY <1>1, <1>6 DEF DirectAligned
  <2>2. w \in Nat /\ Block \in Nat \ {0}
    BY <1>len, <1>2
  <2>3. (off + w) % Block = 0 /\ (data_written + w) % Block = 0
    BY <1>len, <1>mod, <2>1, <2>2, ModSum
  <2> QED BY <1>3, <1>5, <2>3 DEF DirectAligned
<1>11. FileBounded'
  <2>1. off + w <= WrapAt + Capacity
    BY <1>len, <1>2, <1>6
  <2>2. Len(file') = off + w \/ Len(file') = Len(file)
    BY <1>5
  <2> QED BY <1>3, <1>6, <2>1, <2>2, MostProps DEF FileBounded
<1>12. BufferIsLast'
  <2>1. Len(buf) <= Len(stream) /\ \A i \in 1..Len(buf) : buf[i] = stream[Len(stream) - Len(buf) + i]
    BY <1>1 DEF BufferIsLast
  <2>2. ASSUME NEW i \in 1..Len(buf') PROVE buf'[i] = stream'[Len(stream') - Len(buf') + i]
    <3>0. i \in 1..(Len(buf) - w)
      BY <1>4
    <3>1. w + i \in 1..Len(buf)
          /\ Len(stream) - Len(buf) + (w + i) = Len(stream) - (Len(buf) - w) + i
      BY <1>len, <1>2, <3>0
    <3>2. buf'[i] = buf[w + i]
      BY <1>4, <3>0
    <3>3. buf[w + i] = stream[Len(stream) - (Len(buf) - w) + i]
      BY <2>1, <3>1
    <3>4. stream' = stream /\ Len(buf') = Len(buf) - w
      BY <1>3, <1>4
    <3> QED BY <3>2, <3>3, <3>4
  <2>3. Len(buf') <= Len(stream')
    <3>1. Len(buf') = Len(buf) - w /\ stream' = stream /\ Len(buf) <= Len(stream)
      BY <1>3, <1>4, <2>1
    <3> QED BY <1>len, <1>2, <3>1
  <2> QED BY <2>2, <2>3 DEF BufferIsLast
<1>13. \A i \in 1..off : file[i] = stream[base + i]
  BY <1>1, <1>6 DEF RoundInFile, InRound
<1>sum. base + off + Len(buf) = Len(stream) /\ base \in Nat
  BY <1>1, <1>6 DEF RoundInFile, InRound, TypeOK
<1>14. \A i \in 1..off' : file'[i] = stream[base + i]
  <2> SUFFICES ASSUME NEW i \in 1..off' PROVE file'[i] = stream[base + i]
    OBVIOUS
  <2>1. CASE i <= off
    <3>1. i \in 1..off
      BY <1>len, <2>1
    <3> QED BY <1>5, <1>13, <3>1
  <2>2. CASE i > off
    <3> DEFINE j == i - off
    <3>0. i \in 1..(off + w) /\ base \in Nat
      BY <1>5 DEF TypeOK
    <3>1. j \in 1..w /\ j \in 1..Len(buf) /\ off + j = i
          /\ Len(stream) - Len(buf) + j = base + i
      BY <1>len, <1>2, <1>sum, <2>2, <3>0
    <3>2. file'[off + j] = buf[j] /\ buf[j] = stream[Len(stream) - Len(buf) + j]
      BY <1>1, <1>5, <3>1 DEF BufferIsLast
    <3> QED BY <3>1, <3>2
  <2> QED BY <1>len, <1>5, <2>1, <2>2
<1>15. RoundInFile'
  <2>1. base + (off + w) + (Len(buf) - w) = Len(stream)
    BY <1>len, <1>2, <1>sum
  <2> QED BY <1>3, <1>4, <1>5, <1>14, <2>1 DEF RoundInFile
<1>16. CleanFile'
  <2> SUFFICES ASSUME Clean PROVE CleanFile'
    BY <1>3 DEF CleanFile, Clean
  <2>1. off = Len(file) /\ Len(file) + Len(buf) = Len(stream) /\ base = 0
    BY <1>1 DEF CleanFile, Clean
  <2>2. Len(file') = off' /\ Len(file') + Len(buf') = Len(stream)
    <3>1. off + w >= Len(file) /\ (off + w) + (Len(buf) - w) = Len(stream) /\ w \in Nat
      BY <1>len, <1>2, <2>1
    <3>2. Len(file') = off + w
      BY <1>len, <1>5, <3>1
    <3> QED BY <1>4, <1>5, <3>1, <3>2
  <2>3. Len(file') <= Len(stream)
    <3>1. Len(buf') \in Nat /\ Len(file') \in Nat
      BY <1>4, <1>5, LenProperties
    <3> QED BY <1>len, <2>2, <3>1
  <2>4. \A i \in 1..Len(file') : file'[i] = stream[i]
    BY <1>5, <1>14, <2>1, <2>2
  <2> QED BY <1>1, <1>3, <1>6, <2>2, <2>3, <2>4 DEF CleanFile
<1> QED BY <1>7, <1>8, <1>9, <1>10, <1>11, <1>12, <1>15, <1>16

\* A file that is a prefix of the stream stays one when the next units are
\* written behind it.
LEMMA PrefixGrows ==
    ASSUME NEW f \in Seq(Int), NEW g \in Seq(Int), NEW s \in Seq(Nat), NEW k \in Nat,
           Len(g) = Len(f) + k,
           \A i \in 1..Len(f) : g[i] = s[i],
           \A i \in 1..k : g[Len(f) + i] = s[Len(f) + i]
    PROVE  \A i \in 1..Len(g) : g[i] = s[i]
<1>1. Len(f) \in Nat
  BY LenProperties
<1> SUFFICES ASSUME NEW i \in 1..Len(g) PROVE g[i] = s[i]
  OBVIOUS
<1>2. CASE i <= Len(f)
  BY <1>1, <1>2
<1>3. CASE i > Len(f)
  <2>1. i - Len(f) \in 1..k /\ Len(f) + (i - Len(f)) = i
    BY <1>1, <1>3
  <2> QED BY <2>1
<1> QED BY <1>1, <1>2, <1>3

\* A write that fails ends the listener; what it wrote is part of the stream.
LEMMA AbortStep ==
    ASSUME IndInv, pc \in {"loop", "write", "rest"},
           NEW c \in Seq(Nat), Len(c) <= Capacity, ShortWrite(c), GiveUp,
           UNCHANGED <<compress, fd, buf, left, data_written, old, base, flushed>>,
           buffers' \in Nat, stream' \in Seq(Nat), Len(stream) <= Len(stream'),
           \A i \in 1..Len(stream) : stream'[i] = stream[i],
           Clean => /\ Len(file) + Len(c) <= Len(stream')
                    /\ \A i \in 1..Len(c) : c[i] = stream'[Len(file) + i]
    PROVE  IndInv'
<1> USE Sizes DEF IndInv
<1>1. Len(stream) \in Nat /\ Len(buf) \in Nat /\ Len(file) \in Nat /\ off \in 0..Len(file)
      /\ file \in Seq(Int)
  BY Places DEF TypeOK, InRound
<1>2. Len(c) \in Nat /\ Len(stream') \in Nat
  BY LenProperties
<1>3. PICK k \in 0..(Len(c) - 1) :
        /\ fd = "bad" => k = 0
        /\ file' \in Seq(Int)
        /\ off' = off + k /\ off' \in Nat
        /\ Len(file') = IF off + k > Len(file) THEN off + k ELSE Len(file)
        /\ \A i \in 1..off : file'[i] = file[i]
        /\ \A i \in 1..k : file'[off + i] = c[i]
  BY <1>1, ShortWriteProps
<1>4. pc' = "done" /\ fate' = "aborted"
  BY DEF GiveUp
<1>5. TypeOK'
  BY <1>3, <1>4 DEF TypeOK, OutPC
<1>6. Control' /\ NothingLeft' /\ Offsets' /\ DirectAligned' /\ BufferIsLast' /\ RoundInFile'
  BY <1>4 DEF Control, NothingLeft, Offsets, DirectAligned, BufferIsLast, RoundInFile, InRound
<1>7. FileBounded'
  <2> SUFFICES ASSUME fd # "append" PROVE FileBounded'
    BY DEF FileBounded
  <2>1. off < WrapAt
    BY DEF Control, Offsets, InRound
  <2>2. off + k < WrapAt + Capacity
    BY <1>1, <1>2, <2>1
  <2> DEFINE most == IF old > WrapAt + Capacity THEN old ELSE WrapAt + Capacity
  <2>3. most \in Nat /\ WrapAt + Capacity <= most /\ Len(file) <= most
    BY DEF FileBounded, TypeOK
  <2>4. Len(file') <= most
    <3> HIDE DEF most
    <3>1. off + k \in Nat /\ off + k <= most
      BY <1>1, <1>2, <2>2, <2>3
    <3>2. Len(file') = off + k \/ Len(file') = Len(file)
      BY <1>3
    <3> QED BY <2>3, <3>1, <3>2
  <2> QED BY <2>4 DEF FileBounded
<1>8. CleanFile'
  <2> SUFFICES ASSUME Clean PROVE CleanFile'
    BY DEF CleanFile, Clean
  <2>1. fd # "bad" /\ off = Len(file) /\ Len(file) <= Len(stream)
        /\ \A i \in 1..Len(file) : file[i] = stream[i]
    BY DEF CleanFile
  <2>2. k \in Nat /\ Len(file') = Len(file) + k /\ Len(file) + k <= Len(stream')
    <3>1. k \in Nat /\ k <= Len(c) /\ Len(c) \in Nat /\ Len(file) \in Nat
      BY <1>1, <1>2
    <3>2. Len(file') = Len(file) + k
      BY <1>3, <2>1, <3>1, AtEnd
    <3>3. Len(file) + Len(c) <= Len(stream')
      OBVIOUS
    <3> QED BY <1>2, <3>1, <3>2, <3>3
  <2>3. \A i \in 1..Len(file) : i \in 1..Len(stream)
    BY <1>1, <2>1
  <2>4. \A i \in 1..Len(file) : file'[i] = stream'[i]
    BY <1>3, <2>1, <2>3
  <2>5. \A i \in 1..k : i \in 1..Len(c)
    BY <1>2
  <2>6. \A i \in 1..k : file'[Len(file) + i] = stream'[Len(file) + i]
    BY <1>3, <2>1, <2>5
  <2>7. \A i \in 1..Len(file') : file'[i] = stream'[i]
    BY <1>1, <1>3, <2>2, <2>4, <2>6, PrefixGrows
  <2> QED BY <1>4, <2>1, <2>2, <2>7 DEF CleanFile
<1> QED BY <1>5, <1>6, <1>7, <1>8

\* The file in the clean case, and what is next in out_buffer.
LEMMA CleanBuffer ==
    ASSUME IndInv, Clean, pc \notin {"close", "done"}
    PROVE  /\ Len(file) + Len(buf) = Len(stream)
           /\ \A i \in 1..Len(buf) : buf[i] = stream[Len(file) + i]
<1>1. Len(stream) \in Nat /\ Len(buf) \in Nat /\ Len(file) \in Nat
  BY Places
<1>2. Len(file) + Len(buf) = Len(stream)
  BY DEF IndInv, CleanFile
<1>3. \A i \in 1..Len(buf) : buf[i] = stream[Len(stream) - Len(buf) + i]
  BY DEF IndInv, BufferIsLast
<1>4. Len(stream) - Len(buf) = Len(file)
  BY <1>1, <1>2
<1> QED BY <1>2, <1>3, <1>4

LEMMA WriteBlocksFailsStep ==
    ASSUME IndInv, WriteBlocksFails
    PROVE  IndInv'
<1> DEFINE c == SubSeq(buf, 1, WholeBlocks)
<1>1. Len(stream) \in Nat /\ Len(buf) \in Nat /\ Len(file) \in Nat
      /\ buf \in Seq(Nat) /\ stream \in Seq(Nat) /\ pc = "write" /\ Len(buf) <= Capacity
      /\ buffers \in Nat
  BY Places DEF IndInv, WriteBlocksFails, TypeOK
<1>2. WholeBlocks \in 0..Len(buf)
  BY <1>1, WholeBlocksProps
<1>3. c \in Seq(Nat) /\ Len(c) = WholeBlocks /\ \A i \in 1..WholeBlocks : c[i] = buf[i]
  BY <1>1, <1>2, SplitProps
<1>4. ShortWrite(c) /\ GiveUp
      /\ UNCHANGED <<compress, fd, buf, left, data_written, buffers, old, stream, base, flushed>>
  BY DEF WriteBlocksFails, history
<1> HIDE DEF c
<1>5. Len(c) <= Capacity
  BY <1>1, <1>2, <1>3, Sizes
<1>6. ASSUME Clean
      PROVE  /\ Len(file) + Len(c) <= Len(stream)
             /\ \A i \in 1..Len(c) : c[i] = stream[Len(file) + i]
  <2>1. Len(file) + Len(buf) = Len(stream) /\ \A i \in 1..Len(buf) : buf[i] = stream[Len(file) + i]
    BY <1>1, <1>6, CleanBuffer
  <2>2. Len(file) + WholeBlocks <= Len(stream) /\ \A i \in 1..WholeBlocks : i \in 1..Len(buf)
    BY <1>1, <1>2, <2>1
  <2> QED BY <1>3, <2>1, <2>2
<1>7. stream' = stream /\ stream' \in Seq(Nat) /\ Len(stream) <= Len(stream') /\ buffers' \in Nat
  BY <1>1, <1>4
<1> QED BY <1>1, <1>3, <1>4, <1>5, <1>6, <1>7, AbortStep

LEMMA WriteRestFailsStep ==
    ASSUME IndInv, WriteRestFails
    PROVE  IndInv'
<1>1. Len(stream) \in Nat /\ Len(buf) \in Nat /\ Len(file) \in Nat
      /\ buf \in Seq(Nat) /\ stream \in Seq(Nat) /\ pc = "rest" /\ Len(buf) <= Capacity
      /\ buffers \in Nat
  BY Places DEF IndInv, WriteRestFails, TypeOK
<1>2. ShortWrite(buf) /\ GiveUp
      /\ UNCHANGED <<compress, fd, buf, left, data_written, buffers, old, stream, base, flushed>>
  BY DEF WriteRestFails, history
<1>3. ASSUME Clean
      PROVE  /\ Len(file) + Len(buf) <= Len(stream)
             /\ \A i \in 1..Len(buf) : buf[i] = stream[Len(file) + i]
  <2>1. Len(file) + Len(buf) = Len(stream) /\ \A i \in 1..Len(buf) : buf[i] = stream[Len(file) + i]
    BY <1>1, <1>3, CleanBuffer
  <2>2. Len(file) + Len(buf) <= Len(stream)
    BY <1>1, <2>1
  <2> QED BY <2>1, <2>2
<1>4. stream' = stream /\ stream' \in Seq(Nat) /\ Len(stream) <= Len(stream') /\ buffers' \in Nat
  BY <1>1, <1>2
<1> QED BY <1>1, <1>2, <1>3, <1>4, AbortStep

LEMMA WriteRawFailsStep ==
    ASSUME IndInv, WriteRawFails
    PROVE  IndInv'
<1>1. Len(stream) \in Nat /\ Len(file) \in Nat /\ Len(buf) = 0
      /\ stream \in Seq(Nat) /\ pc = "loop" /\ buffers \in Nat
  BY Places, EmptySeq DEF IndInv, WriteRawFails, TypeOK, Control
<1>2. PICK n \in 1..BufSize : ShortWrite(Padded(n)) /\ stream' = stream \o Padded(n)
  BY DEF WriteRawFails
<1> DEFINE c == Padded(n)
<1>3. c \in Seq(Nat) /\ Len(c) = BufSize /\ ShortWrite(c) /\ stream' = stream \o c
  BY <1>1, <1>2, PaddedProps, Sizes
<1> HIDE DEF c
<1>4. /\ stream' \in Seq(Nat) /\ Len(stream') = Len(stream) + BufSize
      /\ \A i \in 1..Len(stream) : stream'[i] = stream[i]
      /\ \A i \in 1..Len(c) : stream'[Len(stream) + i] = c[i]
  BY <1>1, <1>3, GrowProps
<1>5. GiveUp /\ UNCHANGED <<compress, fd, buf, left, data_written, old, base, flushed>>
      /\ buffers' = buffers + 1
  BY DEF WriteRawFails
<1>6. buffers' \in Nat /\ Len(stream) <= Len(stream') /\ Len(c) <= Capacity
  BY <1>1, <1>3, <1>4, <1>5, Sizes
<1>7. ASSUME Clean
      PROVE  /\ Len(file) + Len(c) <= Len(stream')
             /\ \A i \in 1..Len(c) : c[i] = stream'[Len(file) + i]
  <2>1. Len(file) = Len(stream)
    BY <1>1, <1>7, CleanBuffer
  <2> QED BY <1>1, <1>3, <1>4, <2>1, Sizes
<1> QED BY <1>1, <1>3, <1>4, <1>5, <1>6, <1>7, AbortStep

\* A raw buffer goes to the file at once.
LEMMA WriteRawStep ==
    ASSUME IndInv, WriteRaw
    PROVE  IndInv'
<1> USE Sizes DEF IndInv
<1>1. Len(stream) \in Nat /\ Len(file) \in Nat /\ off \in 0..Len(file) /\ Len(buf) = 0
      /\ stream \in Seq(Nat) /\ file \in Seq(Int) /\ pc = "loop" /\ ~compress
      /\ buf = <<>> /\ fate = "open" /\ data_written \in Nat
  BY Places, EmptySeq DEF WriteRaw, TypeOK, Control, InRound
<1>2. PICK n \in 1..BufSize : Written(Padded(n)) /\ stream' = stream \o Padded(n)
  BY DEF WriteRaw
<1> DEFINE c == Padded(n)
<1>3. c \in Seq(Nat) /\ Len(c) = BufSize /\ Written(c) /\ stream' = stream \o c
  BY <1>1, <1>2, PaddedProps
<1> HIDE DEF c
<1>4. c \in Seq(Int)
  BY <1>3, SeqMonotonic
<1>5. /\ stream' \in Seq(Nat) /\ Len(stream') = Len(stream) + BufSize
      /\ \A i \in 1..Len(stream) : stream'[i] = stream[i]
      /\ \A i \in 1..BufSize : stream'[Len(stream) + i] = c[i]
  BY <1>1, <1>3, GrowProps
<1>6. /\ file' \in Seq(Int) /\ off' = off + BufSize /\ off' \in Nat /\ off' <= Len(file')
      /\ Len(file') = IF off' > Len(file) THEN off' ELSE Len(file)
      /\ \A i \in 1..off : file'[i] = file[i]
      /\ \A i \in 1..BufSize : file'[off + i] = c[i]
  BY <1>1, <1>3, <1>4, WrittenProps
<1>7. data_written' = data_written + BufSize /\ buffers' = buffers + 1 /\ pc' = "tail"
      /\ UNCHANGED <<compress, fd, buf, left, old, base, flushed, fate>>
  BY DEF WriteRaw
<1>8. fd = "direct" /\ off = data_written /\ data_written < WrapAt
  BY <1>1, <1>3 DEF Written, Control, Offsets, InRound
<1>9. \A i \in 1..off : file[i] = stream[base + i]
  BY <1>1, <1>8 DEF RoundInFile, InRound
<1>sum. base + off = Len(stream) /\ base \in Nat /\ off \in Nat
  <2>1. base + off + Len(buf) = Len(stream) /\ base \in Nat /\ off \in Nat
    BY <1>1, <1>8 DEF RoundInFile, InRound, TypeOK
  <2> QED BY <1>1, <2>1
<1>10. TypeOK'
  <2>1. data_written + BufSize \in Nat
    BY <1>1
  <2>2. buffers \in Nat /\ buffers + 1 \in Nat
    BY DEF TypeOK
  <2> QED BY <1>1, <1>5, <1>6, <1>7, <2>1, <2>2 DEF TypeOK, OutPC
<1>11. Control' /\ NothingLeft'
  BY <1>1, <1>7, <1>8 DEF Control, InRound, NothingLeft
<1>12. Offsets'
  BY <1>1, <1>6, <1>7, <1>8 DEF Offsets, InRound
<1>13. DirectAligned'
  <2>1. off % Block = 0 /\ data_written % Block = 0
    BY <1>1, <1>8 DEF DirectAligned
  <2>2. off \in Nat /\ Block \in Nat \ {0} /\ BufSize % Block = 0
    BY <1>1, OutputAssumption
  <2>3. (off + BufSize) % Block = 0 /\ (data_written + BufSize) % Block = 0
    BY <1>1, <2>1, <2>2, ModSum
  <2> QED BY <1>6, <1>7, <2>3 DEF DirectAligned
<1>14. FileBounded'
  BY <1>1, <1>6, <1>7, <1>8 DEF FileBounded, TypeOK
<1>15. BufferIsLast'
  BY <1>1, <1>5, <1>7 DEF BufferIsLast
<1>16. \A i \in 1..off' : file'[i] = stream'[base + i]
  <2> SUFFICES ASSUME NEW i \in 1..off' PROVE file'[i] = stream'[base + i]
    OBVIOUS
  <2>1. CASE i <= off
    <3>1. i \in 1..off /\ base + i \in 1..Len(stream)
      BY <1>1, <1>sum, <2>1
    <3> QED BY <1>5, <1>6, <1>9, <3>1
  <2>2. CASE i > off
    <3> DEFINE j == i - off
    <3>0. i \in 1..(off + BufSize)
      BY <1>6
    <3>1. j \in 1..BufSize /\ off + j = i /\ Len(stream) + j = base + i
      BY <1>sum, <2>2, <3>0
    <3>2. file'[off + j] = c[j] /\ stream'[Len(stream) + j] = c[j]
      BY <1>5, <1>6, <3>1
    <3> QED BY <3>1, <3>2
  <2> QED BY <1>1, <1>6, <2>1, <2>2
<1>17. RoundInFile'
  <2>1. base + (off + BufSize) + 0 = Len(stream) + BufSize
    BY <1>sum
  <2> QED BY <1>1, <1>5, <1>6, <1>7, <1>16, <2>1 DEF RoundInFile
<1>18. CleanFile'
  <2> SUFFICES ASSUME Clean PROVE CleanFile'
    BY <1>7 DEF CleanFile, Clean
  <2>1. off = Len(file) /\ base = 0
    BY <1>1 DEF CleanFile, Clean
  <2>2. Len(file') = off'
    BY <1>1, <1>6, <2>1
  <2>3. Len(file') = Len(stream') /\ Len(file') + 0 = Len(stream')
    <3>1. off \in Nat /\ off = Len(stream)
      BY <1>1, <1>sum, <2>1
    <3>2. Len(file') = Len(stream) + BufSize
      BY <1>6, <2>2, <3>1
    <3> QED BY <1>1, <1>5, <3>2
  <2>4. \A i \in 1..Len(file') : file'[i] = stream'[i]
    BY <1>6, <1>16, <2>1, <2>2
  <2> QED BY <1>1, <1>7, <1>8, <2>2, <2>3, <2>4 DEF CleanFile
<1> QED BY <1>10, <1>11, <1>12, <1>13, <1>14, <1>15, <1>17, <1>18

\* The next round starts with what is in out_buffer.
LEMMA WrapStep ==
    ASSUME IndInv, Wrap
    PROVE  IndInv'
<1> USE Sizes DEF IndInv
<1>1. Len(stream) \in Nat /\ Len(file) \in Nat /\ Len(buf) \in Nat
      /\ pc = "tail" /\ data_written >= WrapAt /\ fate = "open" /\ data_written \in Nat
  BY Places DEF Wrap, TypeOK, Control
<1>2. fd' \in {"direct", "bad"} /\ off' = 0 /\ data_written' = 0 /\ pc' = "loop"
      /\ base' = Len(stream) - Len(buf)
      /\ UNCHANGED <<compress, file, buf, left, buffers, old, stream, flushed, fate>>
  BY DEF Wrap
<1>3. fd = "direct" /\ off = data_written
  BY <1>1 DEF Control, Offsets, InRound
<1>4. base + off + Len(buf) = Len(stream) /\ base \in Nat /\ off \in Nat
  BY <1>1, <1>3 DEF RoundInFile, InRound, TypeOK
<1>5. base' \in Nat /\ base' > 0 /\ base' + Len(buf) = Len(stream)
  BY <1>1, <1>2, <1>3, <1>4
<1>6. TypeOK'
  BY <1>1, <1>2, <1>5 DEF TypeOK, OutPC
<1>7. Control' /\ NothingLeft' /\ Offsets'
  BY <1>1, <1>2 DEF Control, NothingLeft, Offsets, InRound
<1>8. DirectAligned'
  <2>1. 0 % Block = 0
    BY OutputAssumption, ModZero
  <2> QED BY <1>2, <2>1 DEF DirectAligned
<1>9. FileBounded'
  BY <1>2, <1>3 DEF FileBounded
<1>10. BufferIsLast'
  BY <1>1, <1>2 DEF BufferIsLast
<1>11. RoundInFile'
  BY <1>1, <1>2, <1>5 DEF RoundInFile
<1>12. CleanFile'
  BY <1>5 DEF CleanFile, Clean
<1> QED BY <1>6, <1>7, <1>8, <1>9, <1>10, <1>11, <1>12

LEMMA ReopenStep ==
    ASSUME IndInv, Reopen
    PROVE  IndInv'
<1> USE Sizes DEF IndInv
<1>1. Len(stream) \in Nat /\ Len(file) \in Nat /\ Len(buf) \in Nat
      /\ pc = "post" /\ fate = "open" /\ compress
  BY Places DEF Reopen, Control
<1>2. fd' = "append" /\ off' = Len(file) /\ pc' = "rest"
      /\ UNCHANGED <<compress, file, buf, left, data_written, buffers, old, stream, base,
                     flushed, fate>>
  BY DEF Reopen, history
<1>3. TypeOK'
  BY <1>1, <1>2 DEF TypeOK, OutPC
<1>4. Control' /\ NothingLeft' /\ Offsets' /\ DirectAligned' /\ FileBounded'
  BY <1>1, <1>2 DEF Control, NothingLeft, Offsets, DirectAligned, FileBounded, InRound
<1>5. BufferIsLast' /\ RoundInFile'
  BY <1>1, <1>2 DEF BufferIsLast, RoundInFile, InRound
<1>6. CleanFile'
  BY <1>1, <1>2 DEF CleanFile, Clean
<1> QED BY <1>3, <1>4, <1>5, <1>6

\* What is in out_buffer after the loop goes behind the file.
LEMMA WriteRestStep ==
    ASSUME IndInv, WriteRest
    PROVE  IndInv'
<1> USE Sizes DEF IndInv
<1>1. Len(stream) \in Nat /\ Len(file) \in Nat /\ Len(buf) \in Nat /\ off = Len(file)
      /\ buf \in Seq(Nat) /\ stream \in Seq(Nat) /\ file \in Seq(Int)
      /\ pc = "rest" /\ fate = "open" /\ compress /\ fd = "append"
  BY Places DEF WriteRest, Control, Offsets, TypeOK
<1>2. Written(buf) /\ buf' = <<>> /\ pc' = "end"
      /\ UNCHANGED <<compress, fd, left, data_written, buffers, old, stream, base, flushed, fate>>
  BY DEF WriteRest, history
<1>3. buf \in Seq(Int) /\ off \in 0..Len(file)
  BY <1>1, SeqMonotonic
<1>4. /\ file' \in Seq(Int) /\ off' = off + Len(buf) /\ off' \in Nat
      /\ Len(file') = IF off' > Len(file) THEN off' ELSE Len(file)
      /\ \A i \in 1..off : file'[i] = file[i]
      /\ \A i \in 1..Len(buf) : file'[off + i] = buf[i]
  BY <1>1, <1>2, <1>3, WrittenProps
<1>5. Len(file') = Len(file) + Len(buf) /\ off' = Len(file')
  BY <1>1, <1>4
<1>6. buf' \in Seq(Nat) /\ Len(buf') = 0
  BY <1>2, EmptySeq
<1>7. TypeOK'
  BY <1>1, <1>2, <1>4, <1>6 DEF TypeOK, OutPC
<1>8. Control' /\ NothingLeft' /\ Offsets' /\ DirectAligned' /\ FileBounded'
  BY <1>1, <1>2, <1>5 DEF Control, NothingLeft, Offsets, DirectAligned, FileBounded, InRound
<1>9. BufferIsLast' /\ RoundInFile'
  BY <1>1, <1>2, <1>6 DEF BufferIsLast, RoundInFile, InRound
<1>10. CleanFile'
  <2> SUFFICES ASSUME Clean PROVE CleanFile'
    BY <1>2 DEF CleanFile, Clean
  <2>1. Len(file) + Len(buf) = Len(stream) /\ \A i \in 1..Len(buf) : buf[i] = stream[Len(file) + i]
    BY <1>1, CleanBuffer
  <2>2. flushed = Len(stream) /\ \A i \in 1..Len(file) : file[i] = stream[i]
    BY <1>1 DEF CleanFile
  <2>3. \A i \in 1..Len(file) : file'[i] = stream[i]
    BY <1>1, <1>4, <2>2
  <2>4. \A i \in 1..Len(buf) : file'[Len(file) + i] = stream[Len(file) + i]
    BY <1>1, <1>4, <2>1
  <2>5. \A i \in 1..Len(file') : file'[i] = stream[i]
    BY <1>1, <1>4, <1>5, <2>3, <2>4, PrefixGrows
  <2>6. Len(file') = Len(stream) /\ Len(file') + 0 = Len(stream) /\ Len(file') >= flushed
    BY <1>1, <1>5, <2>1, <2>2
  <2> QED BY <1>1, <1>2, <1>5, <1>6, <2>5, <2>6 DEF CleanFile
<1> QED BY <1>7, <1>8, <1>9, <1>10

\* The end of the frame.
LEMMA EndFrameStep ==
    ASSUME IndInv, EndFrame
    PROVE  IndInv'
<1> USE Sizes DEF IndInv
<1>1. Len(stream) \in Nat /\ Len(file) \in Nat /\ Len(buf) = 0 /\ off = Len(file)
      /\ stream \in Seq(Nat) /\ file \in Seq(Int)
      /\ pc = "end" /\ fate = "open" /\ compress /\ fd = "append"
  BY Places, EmptySeq DEF EndFrame, Control, Offsets, TypeOK
<1>2. PICK n \in 1..Capacity : buf' = Units(n) /\ stream' = stream \o Units(n)
  BY DEF EndFrame
<1> DEFINE u == Units(n)
<1>3. u \in Seq(Nat) /\ Len(u) = n /\ n \in Nat /\ buf' = u /\ stream' = stream \o u
  BY <1>1, <1>2, UnitsProps
<1> HIDE DEF u
<1>4. /\ stream' \in Seq(Nat) /\ Len(stream') = Len(stream) + n
      /\ \A i \in 1..Len(stream) : stream'[i] = stream[i]
      /\ \A i \in 1..n : stream'[Len(stream) + i] = u[i]
  BY <1>1, <1>3, GrowProps
<1>5. pc' = "last"
      /\ UNCHANGED <<compress, file, fd, off, left, data_written, buffers, old, base,
                     flushed, fate>>
  BY DEF EndFrame
<1>6. TypeOK'
  BY <1>1, <1>3, <1>4, <1>5 DEF TypeOK, OutPC
<1>7. Control' /\ NothingLeft' /\ Offsets' /\ DirectAligned' /\ FileBounded' /\ RoundInFile'
  BY <1>1, <1>5 DEF Control, NothingLeft, Offsets, DirectAligned, FileBounded,
     RoundInFile, InRound
<1>8. BufferIsLast'
  <2>1. Len(stream') - Len(buf') = Len(stream) /\ Len(buf') <= Len(stream')
    BY <1>1, <1>3, <1>4
  <2> QED BY <1>3, <1>4, <2>1 DEF BufferIsLast
<1>9. CleanFile'
  <2> SUFFICES ASSUME Clean PROVE CleanFile'
    BY <1>5 DEF CleanFile, Clean
  <2>1. Len(file) = Len(stream) /\ Len(file) >= flushed
        /\ \A i \in 1..Len(file) : file[i] = stream[i]
    BY <1>1 DEF CleanFile
  <2>2. \A i \in 1..Len(file) : file[i] = stream'[i]
    BY <1>4, <2>1
  <2>3. Len(file) + n = Len(stream) + n /\ Len(file) <= Len(stream) + n
    BY <1>1, <1>3, <2>1
  <2> QED BY <1>1, <1>3, <1>4, <1>5, <2>1, <2>2, <2>3 DEF CleanFile
<1> QED BY <1>6, <1>7, <1>8, <1>9

\* The last write, whole or in part.
LEMMA WriteLastStep ==
    ASSUME IndInv, WriteLast
    PROVE  IndInv'
<1> USE Sizes DEF IndInv
<1>1. Len(stream) \in Nat /\ Len(file) \in Nat /\ Len(buf) \in Nat /\ off = Len(file)
      /\ buf \in Seq(Nat) /\ stream \in Seq(Nat) /\ file \in Seq(Int)
      /\ pc = "last" /\ fate = "open" /\ compress /\ fd = "append"
  BY Places DEF WriteLast, Control, Offsets, TypeOK
<1>2. pc' = "close" /\ UNCHANGED <<compress, fd, buf, left, data_written, buffers, old,
                                   stream, base, flushed, fate>>
  BY DEF WriteLast, history
<1>3. buf \in Seq(Int) /\ off \in 0..Len(file)
  BY <1>1, SeqMonotonic
<1>4. \E k \in 0..Len(buf) :
        /\ file' \in Seq(Int) /\ off' \in Nat
        /\ Len(file') = Len(file) + k
        /\ \A i \in 1..Len(file) : file'[i] = file[i]
        /\ \A i \in 1..k : file'[Len(file) + i] = buf[i]
  <2>1. CASE Written(buf)
    <3>1. /\ file' \in Seq(Int) /\ off' = off + Len(buf) /\ off' \in Nat
          /\ Len(file') = IF off' > Len(file) THEN off' ELSE Len(file)
          /\ \A i \in 1..off : file'[i] = file[i]
          /\ \A i \in 1..Len(buf) : file'[off + i] = buf[i]
      BY <1>1, <1>3, <2>1, WrittenProps
    <3>2. Len(file') = Len(file) + Len(buf) /\ Len(buf) \in 0..Len(buf)
      BY <1>1, <3>1
    <3> QED BY <1>1, <3>1, <3>2
  <2>2. CASE ShortWrite(buf)
    <3>1. PICK k \in 0..(Len(buf) - 1) :
            /\ file' \in Seq(Int)
            /\ off' = off + k /\ off' \in Nat
            /\ Len(file') = IF off + k > Len(file) THEN off + k ELSE Len(file)
            /\ \A i \in 1..off : file'[i] = file[i]
            /\ \A i \in 1..k : file'[off + i] = buf[i]
      BY <1>1, <1>3, <2>2, ShortWriteProps
    <3>2. k \in 0..Len(buf) /\ k \in Nat
      BY <1>1
    <3>3. Len(file') = Len(file) + k
      BY <1>1, <3>1, <3>2, AtEnd
    <3> QED BY <1>1, <3>1, <3>2, <3>3
  <2> QED BY <2>1, <2>2 DEF WriteLast
<1>5. PICK k \in 0..Len(buf) :
        /\ file' \in Seq(Int) /\ off' \in Nat
        /\ Len(file') = Len(file) + k
        /\ \A i \in 1..Len(file) : file'[i] = file[i]
        /\ \A i \in 1..k : file'[Len(file) + i] = buf[i]
  BY <1>4
<1>6. TypeOK'
  BY <1>1, <1>2, <1>5 DEF TypeOK, OutPC
<1>7. Control' /\ NothingLeft' /\ Offsets' /\ DirectAligned' /\ FileBounded'
      /\ BufferIsLast' /\ RoundInFile'
  BY <1>1, <1>2 DEF Control, NothingLeft, Offsets, DirectAligned, FileBounded,
     BufferIsLast, RoundInFile, InRound
<1>8. CleanFile'
  <2> SUFFICES ASSUME Clean PROVE CleanFile'
    BY <1>2 DEF CleanFile, Clean
  <2>1. Len(file) + Len(buf) = Len(stream) /\ \A i \in 1..Len(buf) : buf[i] = stream[Len(file) + i]
    BY <1>1, CleanBuffer
  <2>2. flushed \in Nat /\ Len(file) >= flushed /\ \A i \in 1..Len(file) : file[i] = stream[i]
    BY <1>1 DEF CleanFile, TypeOK
  <2>3. \A i \in 1..Len(file) : file'[i] = stream[i]
    BY <1>5, <2>2
  <2>4. \A i \in 1..k : i \in 1..Len(buf)
    BY <1>1
  <2>5. \A i \in 1..k : file'[Len(file) + i] = stream[Len(file) + i]
    BY <1>5, <2>1, <2>4
  <2>6. k \in Nat
    BY <1>1
  <2>7. \A i \in 1..Len(file') : file'[i] = stream[i]
    BY <1>1, <1>5, <2>3, <2>5, <2>6, PrefixGrows
  <2>8. Len(file') <= Len(stream) /\ Len(file') >= flushed
    BY <1>1, <1>5, <2>1, <2>2, <2>6
  <2> QED BY <1>1, <1>2, <2>7, <2>8 DEF CleanFile
<1> QED BY <1>6, <1>7, <1>8

LEMMA StutterStep ==
    ASSUME IndInv, UNCHANGED vars
    PROVE  IndInv'
BY DEF IndInv, TypeOK, Control, NothingLeft, Offsets, DirectAligned, FileBounded,
       BufferIsLast, RoundInFile, CleanFile, Clean, Capacity, vars

\* The invariant of descriptor, offset, out_buffer and file holds in every
\* reachable state of Listen, failing writes and the overwrite included.
THEOREM OutputInductive == Spec => []IndInv
<1>1. ASSUME IndInv, [Next]_vars PROVE IndInv'
  <2>1. CASE UNCHANGED vars
    BY <1>1, <2>1, StutterStep
  <2>2. CASE Loop
    BY <1>1, <2>2, CompressStep, WriteBlocksStep, WriteBlocksFailsStep, WriteRawStep,
       WriteRawFailsStep, QuietStep, WrapStep DEF Loop
  <2>3. CASE Post
    BY <1>1, <2>3, ReopenStep, WriteRestStep, WriteRestFailsStep, EndFrameStep,
       QuietStep, WriteLastStep DEF Post
  <2> QED BY <1>1, <2>1, <2>2, <2>3 DEF Next
<1> QED BY <1>1, InitInv, PTL DEF Spec

-----------------------------------------------------------------------------
(* What follows from it. *)

\* The variables keep their types, and out_buffer is below its capacity.
THEOREM OutputTypes == Spec => []TypeOK
<1>1. IndInv => TypeOK
  BY DEF IndInv
<1> QED BY <1>1, OutputInductive, PTL

\* Ignoring what ZSTD_compressStream2 returns is sound: out_buffer is never full.
THEOREM CompressorEmpty == Spec => []NothingLeft
<1>1. IndInv => NothingLeft
  BY DEF IndInv
<1> QED BY <1>1, OutputInductive, PTL

\* Every write with O_DIRECT starts and ends on a block.
THEOREM WritesAligned == Spec => []DirectAligned
<1>1. IndInv => DirectAligned
  BY DEF IndInv
<1> QED BY <1>1, OutputInductive, PTL

\* The overwrite at the limit bounds the file.
THEOREM SizeBounded == Spec => []FileBounded
<1>1. IndInv => FileBounded
  BY DEF IndInv
<1> QED BY <1>1, OutputInductive, PTL

\* In the loop the round is the file up to the offset and out_buffer.
THEOREM NothingMissing == Spec => []RoundIntact
<1>1. ASSUME IndInv PROVE RoundIntact
  <2> SUFFICES ASSUME pc \in InRound, fd # "bad"
               PROVE  SubSeq(file, 1, off) \o buf = SubSeq(stream, base + 1, Len(stream))
    BY DEF RoundIntact, InRound
  <2>1. Len(stream) \in Nat /\ Len(buf) \in Nat /\ Len(file) \in Nat
        /\ buf \in Seq(Nat) /\ stream \in Seq(Nat) /\ file \in Seq(Int)
    BY <1>1, Places DEF IndInv, TypeOK
  <2>2. off \in Nat /\ base \in Nat /\ base + off + Len(buf) = Len(stream) /\ off <= Len(file)
    BY <1>1 DEF IndInv, TypeOK, RoundInFile
  <2>3. \A i \in 1..off : file[i] = stream[base + i]
    BY <1>1 DEF IndInv, RoundInFile
  <2>4. \A i \in 1..Len(buf) : buf[i] = stream[Len(stream) - Len(buf) + i]
    BY <1>1 DEF IndInv, BufferIsLast, InRound
  <2> DEFINE a == SubSeq(file, 1, off)
             r == SubSeq(stream, base + 1, Len(stream))
  <2>5. a \in Seq(Int) /\ Len(a) = off /\ \A i \in 1..off : a[i] = file[i]
    <3>1. \A i \in 1..off : file[i] \in Int
      BY <2>1, <2>2, ElementOfSeq
    <3> QED BY <2>2, <3>1, SubSeqProperties
  <2>6. r \in Seq(Nat) /\ Len(r) = Len(stream) - base
        /\ \A i \in 1..(Len(stream) - base) : r[i] = stream[base + i]
    <3>1. base \in 0..Len(stream)
      BY <2>1, <2>2
    <3> QED BY <2>1, <3>1, SplitProps
  <2>7. r \in Seq(Int) /\ buf \in Seq(Int)
    BY <2>1, <2>6, SeqMonotonic
  <2> HIDE DEF a, r
  <2>8. /\ a \o buf \in Seq(Int) /\ Len(a \o buf) = off + Len(buf)
        /\ \A i \in 1..(off + Len(buf)) : (a \o buf)[i] = IF i <= off THEN a[i] ELSE buf[i - off]
    BY <2>5, <2>7, ConcatProperties
  <2>9. off + Len(buf) = Len(stream) - base
    BY <2>1, <2>2
  <2>10. ASSUME NEW i \in 1..(off + Len(buf)) PROVE (a \o buf)[i] = r[i]
    <3>1. r[i] = stream[base + i]
      BY <2>6, <2>9
    <3>2. CASE i <= off
      <4>1. i \in 1..off
        BY <2>1, <2>2, <3>2
      <4> QED BY <2>3, <2>5, <2>8, <3>1, <3>2, <4>1
    <3>3. CASE ~(i <= off)
      <4>0. Len(stream) \in Int /\ Len(buf) \in Nat /\ off \in Nat /\ base \in Nat
            /\ base + off + Len(buf) = Len(stream)
        BY <2>1, <2>2
      <4>1. i - off \in 1..Len(buf) /\ Len(stream) - Len(buf) + (i - off) = base + i
        BY <3>3, <4>0
      <4> QED BY <2>4, <2>8, <3>1, <3>3, <4>1
    <3> QED BY <3>2, <3>3
  <2>11. a \o buf = r
    BY <2>6, <2>7, <2>8, <2>9, <2>10, SeqEqual
  <2> QED BY <2>11 DEF a, r
<1> QED BY <1>1, OutputInductive, PTL

\* At any time, so also after a kill, a clean file is a prefix of the stream, and
\* a finished one lacks at most the end of the frame.
THEOREM PrefixAlways == Spec => []FilePrefix
<1>1. ASSUME IndInv PROVE FilePrefix
  <2> SUFFICES ASSUME Clean
               PROVE  IsPrefix(file, stream) /\ (fate = "finished" => Len(file) >= flushed)
    BY DEF FilePrefix
  <2>1. Len(stream) \in Nat /\ Len(file) \in Nat /\ stream \in Seq(Nat) /\ file \in Seq(Int)
    BY <1>1, Places DEF IndInv, TypeOK
  <2>2. Len(file) <= Len(stream) /\ \A i \in 1..Len(file) : file[i] = stream[i]
    BY <1>1 DEF IndInv, CleanFile
  <2> DEFINE p == SubSeq(stream, 1, Len(file))
  <2>3. p \in Seq(Int) /\ Len(p) = Len(file) /\ \A i \in 1..Len(file) : p[i] = stream[i]
    <3>1. Len(file) \in 0..Len(stream)
      BY <2>1, <2>2
    <3> QED BY <2>1, <3>1, SplitProps
  <2>4. file = p
    <3> HIDE DEF p
    <3> QED BY <2>1, <2>2, <2>3, SeqEqual
  <2>5. SubSeq(file, 1, Len(file)) = file
    BY <2>1, SubSeqFull
  <2>6. IsPrefix(file, stream)
    BY <2>2, <2>4, <2>5 DEF IsPrefix
  <2>7. fate = "finished" => Len(file) >= flushed
    BY <1>1 DEF IndInv, CleanFile
  <2> QED BY <2>6, <2>7
<1> QED BY <1>1, OutputInductive, PTL
=============================================================================
