---------------------------- MODULE OutputStream -----------------------------
(***************************************************************************)
(* What one listener of the consumer leaves in its output file             *)
(* (src/src/consumer/consumer.cpp, Listen and the open in ReceiverThread): *)
(* compression into out_buffer, writes of whole blocks with O_DIRECT, the  *)
(* overwrite of a file that has reached its limit, and the end of the      *)
(* frame; in raw mode, padded buffers.  Module Handoff has the order in    *)
(* which buffers get here; there a buffer is persisted in one step.        *)
(*                                                                         *)
(* Data.  Sizes are in units, a Block (4096 bytes) being a few of them.    *)
(* A unit of compressed or raw output is its position in the sequence the  *)
(* listener produces; Zero is padding, Old is a byte of an earlier run.    *)
(***************************************************************************)
EXTENDS Integers, Sequences, SequencesExt

CONSTANTS
    Block,      \* 4096
    BufSize,    \* CONSUMER_BUFFER_SIZE
    BufMin,     \* CONSUMER_BUFFER_MIN
    Overhead,   \* by how much compressed output may exceed its input
    WrapAt,     \* 64 GB, where the file is overwritten from its beginning
    MaxBuffers, \* bound: buffers persisted
    MaxOld      \* bound: length of the file an earlier run left behind

ASSUME OutputAssumption ==
    /\ Block \in Nat \ {0} /\ BufSize \in Nat \ {0} /\ BufSize % Block = 0
    /\ BufMin \in Nat /\ Overhead \in Nat
    /\ BufSize + Overhead + Block <= BufMin + 1
    /\ WrapAt \in Nat \ {0} /\ MaxBuffers \in Nat /\ MaxOld \in Nat

VARIABLES
    compress,   \* use_compression
    pc,         \* where Listen is
    file,       \* content of the output file
    fd,         \* out_fd: "direct" (O_DIRECT unless switched off), "append", or
                \*   "bad" (open failed and nobody looked)
    off,        \* file offset of out_fd
    buf,        \* out_buffer up to z_out.pos
    left,       \* input or output the compressor was left with
    data_written,
    buffers,    \* buffers persisted (only bounds the model)
    old,        \* history: length of the file when it was opened
    stream,     \* history: everything produced so far
    base,       \* history: units in the stream before the round being written
    flushed,    \* history: units produced when the loop was left
    fate        \* "open", "finished" or "aborted"

vars == <<compress, pc, file, fd, off, buf, left, data_written, buffers, old,
          stream, base, flushed, fate>>
history == <<old, stream, base, flushed>>

Zero == 0
Old == -1

\* "loop": waiting for a buffer; "write": new_size > 0; "tail": end of the
\* iteration; "post" to "close": after the loop.
OutPC == {"loop", "write", "tail", "post", "rest", "end", "last", "close", "done"}

\* Mutant of Capacity: the output buffer is as large as a trace buffer.
CapacityTight == BufSize

\* ZSTD_BUFFER_SIZE, which is ALLOCATION_SIZE.
Capacity == IF BufSize > BufMin THEN BufSize ELSE BufMin

\* The next k units of output.
Units(k) == [i \in 1..k |-> Len(stream) + i]

\* The file after a write of chunk at offset o.
Overlay(f, o, chunk) ==
    [i \in 1..(IF o + Len(chunk) > Len(f) THEN o + Len(chunk) ELSE Len(f)) |->
        IF i \in (o + 1)..(o + Len(chunk)) THEN chunk[i - o] ELSE f[i]]

\* ReceiverThread opens the file with O_CREAT and without O_TRUNC.
Init ==
    /\ compress \in BOOLEAN
    /\ pc = "loop" /\ fate = "open"
    /\ old \in 0..MaxOld
    /\ file = [i \in 1..old |-> Old]
    /\ fd = "direct" /\ off = 0
    /\ buf = <<>> /\ left = 0
    /\ data_written = 0 /\ buffers = 0
    /\ stream = <<>> /\ base = 0 /\ flushed = 0

-----------------------------------------------------------------------------
(* write(2) and the error returns. *)

\* All of chunk is written where the descriptor points.
Written(chunk) ==
    /\ fd # "bad"
    /\ file' = Overlay(file, off, chunk)
    /\ off' = off + Len(chunk)

\* Only part of chunk is written, or none: disk full, error, bad descriptor.
ShortWrite(chunk) ==
    \E k \in 0..(Len(chunk) - 1) :
        /\ fd = "bad" => k = 0
        /\ file' = Overlay(file, off, SubSeq(chunk, 1, k))
        /\ off' = off + k

\* Listen returns early.
GiveUp ==
    /\ pc' = "done"
    /\ fate' = "aborted"

-----------------------------------------------------------------------------
(* The loop. *)

\* ZSTD_compressStream2(e_flush) of a buffer gives some output; what does not
\* fit into out_buffer stays behind, which the code does not look at.
Compress ==
    /\ pc = "loop" /\ compress
    /\ buffers < MaxBuffers
    /\ \E n \in 1..(BufSize + Overhead) :
         LET room == Capacity - Len(buf)
             k == IF n <= room THEN n ELSE room
         IN /\ buf' = buf \o Units(k)
            /\ stream' = stream \o Units(k)
            /\ left' = left + (n - k)
            /\ pc' = IF Len(buf) + k >= Block THEN "write" ELSE "tail"
    /\ buffers' = buffers + 1
    /\ UNCHANGED <<compress, file, fd, off, data_written, old, base, flushed,
                   fate>>

\* Mutant of WholeBlocks: all of the output is written at once.
WholeUnits == Len(buf)

\* Output position rounded down to a block.
WholeBlocks == (Len(buf) \div Block) * Block

\* Mutant of WriteBlocks: z_out.pos stays where it is.
WriteBlocksKeeps ==
    /\ pc = "write"
    /\ Written(SubSeq(buf, 1, WholeBlocks))
    /\ data_written' = data_written + WholeBlocks
    /\ pc' = "tail"
    /\ UNCHANGED <<compress, fd, buf, left, buffers, history, fate>>

\* Mutant of WriteBlocks: the rest is not moved to the front of out_buffer.
WriteBlocksForgets ==
    /\ pc = "write"
    /\ Written(SubSeq(buf, 1, WholeBlocks))
    /\ data_written' = data_written + WholeBlocks
    /\ buf' = <<>>
    /\ pc' = "tail"
    /\ UNCHANGED <<compress, fd, left, buffers, history, fate>>

\* write(out_fd, out_buffer, new_size); the rest moves to the front.
WriteBlocks ==
    /\ pc = "write"
    /\ Written(SubSeq(buf, 1, WholeBlocks))
    /\ data_written' = data_written + WholeBlocks
    /\ buf' = SubSeq(buf, WholeBlocks + 1, Len(buf))
    /\ pc' = "tail"
    /\ UNCHANGED <<compress, fd, left, buffers, history, fate>>

WriteBlocksFails ==
    /\ pc = "write"
    /\ ShortWrite(SubSeq(buf, 1, WholeBlocks))
    /\ GiveUp
    /\ UNCHANGED <<compress, fd, buf, left, data_written, buffers, history>>

\* A buffer of n units padded with zeroes to BufSize.
Padded(n) == [i \in 1..BufSize |-> IF i <= n THEN Len(stream) + i ELSE Zero]

\* Raw mode: write of a whole buffer.
WriteRaw ==
    /\ pc = "loop" /\ ~compress
    /\ buffers < MaxBuffers
    /\ \E n \in 1..BufSize :
         /\ Written(Padded(n))
         /\ stream' = stream \o Padded(n)
    /\ data_written' = data_written + BufSize
    /\ buffers' = buffers + 1
    /\ pc' = "tail"
    /\ UNCHANGED <<compress, fd, buf, left, old, base, flushed, fate>>

WriteRawFails ==
    /\ pc = "loop" /\ ~compress
    /\ buffers < MaxBuffers
    /\ \E n \in 1..BufSize :
         /\ ShortWrite(Padded(n))
         /\ stream' = stream \o Padded(n)
    /\ buffers' = buffers + 1
    /\ GiveUp
    /\ UNCHANGED <<compress, fd, buf, left, data_written, old, base, flushed>>

EndIteration ==
    /\ pc = "tail"
    /\ data_written < WrapAt
    /\ pc' = "loop"
    /\ UNCHANGED <<compress, file, fd, off, buf, left, data_written, buffers,
                   history, fate>>

\* Mutant of Wrap: the count starts again but the descriptor stays.
WrapInPlace ==
    /\ pc = "tail"
    /\ data_written >= WrapAt
    /\ data_written' = 0
    /\ pc' = "loop"
    /\ UNCHANGED <<compress, file, fd, off, buf, left, buffers, history, fate>>

\* "Overwrite if exceeding 64GB": close, open at offset 0 without truncation.
\* The result of open is not tested.
Wrap ==
    /\ pc = "tail"
    /\ data_written >= WrapAt
    /\ fd' \in {"direct", "bad"}
    /\ off' = 0
    /\ data_written' = 0
    /\ base' = Len(stream) - Len(buf)
    /\ pc' = "loop"
    /\ UNCHANGED <<compress, file, buf, left, buffers, old, stream, flushed,
                   fate>>

\* The loop is left (stop, no data, thread gone, EPIPE).
LeaveLoop ==
    /\ pc = "loop"
    /\ flushed' = Len(stream)
    /\ pc' = IF compress THEN "post" ELSE "close"
    /\ UNCHANGED <<compress, file, fd, off, buf, left, data_written, buffers,
                   old, stream, base, fate>>

\* A socket error in the loop.
LoopFails ==
    /\ pc = "loop"
    /\ GiveUp
    /\ UNCHANGED <<compress, file, fd, off, buf, left, data_written, buffers,
                   history>>

-----------------------------------------------------------------------------
(* After the loop. *)

\* Mutant of Reopen: opened without O_APPEND.
ReopenAtStart ==
    /\ pc = "post"
    /\ fd' = "append"
    /\ off' = 0
    /\ pc' = "rest"
    /\ UNCHANGED <<compress, file, buf, left, data_written, buffers, history,
                   fate>>

\* close, open with O_APPEND and without O_DIRECT: writes go to the end of the
\* file, wherever the last round had got to.
Reopen ==
    /\ pc = "post"
    /\ fd' = "append"
    /\ off' = Len(file)
    /\ pc' = "rest"
    /\ UNCHANGED <<compress, file, buf, left, data_written, buffers, history,
                   fate>>

\* write of what is in out_buffer.
WriteRest ==
    /\ pc = "rest"
    /\ Written(buf)
    /\ buf' = <<>>
    /\ pc' = "end"
    /\ UNCHANGED <<compress, fd, left, data_written, buffers, history, fate>>

WriteRestFails ==
    /\ pc = "rest"
    /\ ShortWrite(buf)
    /\ GiveUp
    /\ UNCHANGED <<compress, fd, buf, left, data_written, buffers, history>>

\* ZSTD_compressStream2(e_end) closes the frame.
EndFrame ==
    /\ pc = "end"
    /\ \E n \in 1..Capacity :
         /\ buf' = Units(n)
         /\ stream' = stream \o Units(n)
    /\ pc' = "last"
    /\ UNCHANGED <<compress, file, fd, off, left, data_written, buffers, old,
                   base, flushed, fate>>

\* The open for append or e_end fails.
PostFails ==
    /\ pc \in {"post", "end"}
    /\ GiveUp
    /\ UNCHANGED <<compress, file, fd, off, buf, left, data_written, buffers,
                   history>>

\* The last write, whose result is not tested.
WriteLast ==
    /\ pc = "last"
    /\ Written(buf) \/ ShortWrite(buf)
    /\ pc' = "close"
    /\ UNCHANGED <<compress, fd, buf, left, data_written, buffers, history,
                   fate>>

\* close and, for a compressed file, rename.
Close ==
    /\ pc = "close"
    /\ pc' = "done"
    /\ fate' = "finished"
    /\ UNCHANGED <<compress, file, fd, off, buf, left, data_written, buffers,
                   history>>

Loop ==
    \/ Compress \/ WriteBlocks \/ WriteBlocksFails
    \/ WriteRaw \/ WriteRawFails
    \/ EndIteration \/ Wrap \/ LeaveLoop \/ LoopFails

Post ==
    \/ Reopen \/ WriteRest \/ WriteRestFails \/ EndFrame \/ PostFails
    \/ WriteLast \/ Close

Next == Loop \/ Post

Spec == Init /\ [][Next]_vars

-----------------------------------------------------------------------------
(* Properties. *)

\* Type invariant: the values the variables range over; between two buffers
\* less than a block is in out_buffer.
TypeOK ==
    /\ compress \in BOOLEAN
    /\ pc \in OutPC
    /\ file \in Seq(Int) /\ buf \in Seq(Nat) /\ stream \in Seq(Nat)
    /\ fd \in {"direct", "append", "bad"}
    /\ off \in Nat /\ left \in Nat /\ data_written \in Nat /\ buffers \in Nat
    /\ old \in Nat /\ base \in Nat /\ flushed \in Nat
    /\ Len(buf) <= Capacity
    /\ pc \in {"loop", "tail"} => Len(buf) < Block
    /\ fate \in {"open", "finished", "aborted"}

\* No input and no output is ever left in the compressor: the rest of a block
\* and all a buffer can give always fit into out_buffer.  The code relies on it
\* when it does not look at what ZSTD_compressStream2 returns.
NothingLeft == left = 0

\* Up to the end of the loop, every unit of the round is in the file, in order
\* from offset 0, or in out_buffer: whatever was in the file before, and also
\* after an overwrite.
RoundIntact ==
    pc \in {"loop", "write", "tail", "post"} /\ fd # "bad" =>
        SubSeq(file, 1, off) \o buf = SubSeq(stream, base + 1, Len(stream))

\* No round was overwritten and no earlier run left a file.
Clean == old = 0 /\ base = 0

\* A file that was new and never overwritten is a prefix of the stream at any
\* time, so also when the consumer is killed or gives up; and when it is
\* finished it holds everything but perhaps the end of the frame.
FilePrefix ==
    Clean => /\ IsPrefix(file, stream)
             /\ fate = "finished" => Len(file) >= flushed

\* Direct I/O needs offsets and lengths in whole blocks.
DirectAligned ==
    fd = "direct" /\ fate = "open" => off % Block = 0 /\ data_written % Block = 0

\* The overwrite bounds the file, however long the trace is: up to the end of the
\* frame it is not longer than the limit and one write.
FileBounded ==
    fd # "append" =>
        Len(file) <= IF old > WrapAt + Capacity THEN old ELSE WrapAt + Capacity

=============================================================================
