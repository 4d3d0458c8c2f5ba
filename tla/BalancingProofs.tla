--------------------------- MODULE BalancingProofs ---------------------------
(***************************************************************************)
(* Proofs for Balancing: for any number of receivers, any work per buffer  *)
(* and any number of buffers and periods.                                  *)
(***************************************************************************)
EXTENDS Balancing, TLAPS

-----------------------------------------------------------------------------
(* The inductive invariant, in parts. *)

\* Ratios that can be compared.
Positive == Nat \X (Nat \ {0})

\* The ratio r is 0, or it was reached by the receiver o, which has buffers.
Held(r, o) ==
    \/ r[1] = 0
    \/ /\ o \in 1..totalLen
       /\ buffers[o] > 0
       /\ ~Higher(r, best[o])

\* Only a spawned receiver has buffers, and what it counted is in its best ratio;
\* while it counts nothing in a period, its work is what the last scan left.
Counters(i) ==
    /\ lpc[i] # "none" => i <= totalLen
    /\ buffers[i] > 0 => lpc[i] # "none"
    /\ nBuffers[i] > 0 => buffers[i] > 0
    /\ best[i] \in Positive
    /\ nWork[i] > 0 => ~Higher(<<nBuffers[i], nWork[i]>>, best[i])
    /\ i \notin busy => nWork[i] = lastWork[i]

\* The snapshots of a receiver are a maximum there once was, with its owner, and
\* its own ratio is one it really had.
Locals(i) ==
    /\ loc[i].max \in Positive
    /\ Held(loc[i].max, loc[i].owner)
    /\ lpc[i] \in {"counted", "totalled"} /\ Finite(loc[i].ratio) =>
          buffers[i] > 0 /\ ~Higher(loc[i].ratio, best[i])
    /\ lpc[i] = "totalled" => Finite(loc[i].ratio)
    /\ lpc[i] = "sleep" => loc[i].max[1] > 0

IndInv ==
    /\ TypeOK
    /\ totalLen <= peakLen
    /\ maxRatio \in Positive /\ Held(maxRatio, maxOwner)
    /\ \A i \in Receivers : Counters(i) /\ Locals(i)

-----------------------------------------------------------------------------
(* Ratios. *)

\* Multiplication by a positive number keeps the order, both ways.
LEMMA TimesLess ==
    ASSUME NEW k \in Nat \ {0}, NEW a \in Nat, NEW b \in Nat
    PROVE  k * a < k * b <=> a < b
<1>1. ASSUME NEW c \in Nat, NEW d \in Nat, c < d PROVE k * c < k * d
  <2>1. d - c \in Nat /\ d - c >= 1
    BY <1>1
  <2>2. k * (d - c) >= 1
    BY <2>1, Z3
  <2>3. k * d = k * c + k * (d - c) /\ k * c \in Nat /\ k * (d - c) \in Nat
    BY <2>1, Z3
  <2> QED BY <2>2, <2>3
<1>2. CASE a < b
  BY <1>1, <1>2
<1>3. CASE a = b
  <2>1. k * a \in Int
    BY Z3
  <2> QED BY <1>3, <2>1
<1>4. CASE b < a
  <2>1. k * b < k * a /\ k * a \in Int /\ k * b \in Int
    BY <1>1, <1>4, Z3
  <2> QED BY <1>4, <2>1
<1> QED BY <1>2, <1>3, <1>4

\* A ratio below b is below every c above b (Higher, the comparison of Listen).
LEMMA HigherUp ==
    ASSUME NEW r \in Positive, NEW b \in Positive, NEW c \in Positive,
           ~Higher(r, b), Higher(c, b)
    PROVE  ~Higher(r, c)
<1>0. PICK r1 \in Nat, r2 \in Nat \ {0} : r = <<r1, r2>>
  BY DEF Positive
<1>1. PICK b1 \in Nat, b2 \in Nat \ {0} : b = <<b1, b2>>
  BY DEF Positive
<1>2. PICK c1 \in Nat, c2 \in Nat \ {0} : c = <<c1, c2>>
  BY DEF Positive
<1>3. ~(r1 * b2 > b1 * r2) /\ c1 * b2 > b1 * c2
  BY <1>0, <1>1, <1>2 DEF Higher
<1>4. /\ r1 * b2 \in Nat /\ b1 * r2 \in Nat /\ c1 * b2 \in Nat /\ b1 * c2 \in Nat
      /\ r1 * c2 \in Nat /\ c1 * r2 \in Nat
  BY Z3
<1>5. c2 * (r1 * b2) <= c2 * (b1 * r2)
  <2>1. ~(b1 * r2 < r1 * b2)
    BY <1>3, <1>4
  <2>2. ~(c2 * (b1 * r2) < c2 * (r1 * b2))
    BY <2>1, <1>4, TimesLess
  <2>3. c2 * (b1 * r2) \in Nat /\ c2 * (r1 * b2) \in Nat
    BY Z3
  <2> QED BY <2>2, <2>3
<1>6. r2 * (b1 * c2) < r2 * (c1 * b2)
  BY <1>3, <1>4, TimesLess
<1>7. /\ c2 * (r1 * b2) = b2 * (r1 * c2)
      /\ c2 * (b1 * r2) = r2 * (b1 * c2)
      /\ r2 * (c1 * b2) = b2 * (c1 * r2)
  BY Z3
<1>8. b2 * (r1 * c2) \in Nat /\ b2 * (c1 * r2) \in Nat /\ r2 * (b1 * c2) \in Nat
  BY Z3
<1>9. b2 * (r1 * c2) < b2 * (c1 * r2)
  BY <1>5, <1>6, <1>7, <1>8
<1>10. r1 * c2 < c1 * r2
  BY <1>9, <1>4, TimesLess
<1> QED
  BY <1>10, <1>0, <1>2, <1>4 DEF Higher

\* No ratio is above itself, and of two ratios at most one is above the other.
LEMMA HigherOrder ==
    ASSUME NEW r \in Positive, NEW s \in Positive
    PROVE  ~Higher(r, r) /\ ~(Higher(r, s) /\ Higher(s, r))
<1>0. PICK r1 \in Nat, r2 \in Nat \ {0} : r = <<r1, r2>>
  BY DEF Positive
<1>1. PICK s1 \in Nat, s2 \in Nat \ {0} : s = <<s1, s2>>
  BY DEF Positive
<1>2. r1 * s2 \in Nat /\ s1 * r2 \in Nat /\ r1 * r2 \in Nat
  BY Z3
<1> QED
  BY <1>0, <1>1, <1>2 DEF Higher

\* 0 is above no ratio.
LEMMA ZeroLow ==
    ASSUME NEW b \in Positive
    PROVE  Zero \in Positive /\ Finite(Zero) /\ ~Higher(Zero, b)
<1>1. PICK b1 \in Nat, b2 \in Nat \ {0} : b = <<b1, b2>>
  BY DEF Positive
<1>2. 0 * b2 = 0 /\ b1 * 1 = b1
  BY Z3
<1> QED
  BY <1>1, <1>2 DEF Zero, Positive, Finite, Higher

\* A receiver is only delayed against a maximum above 0.
LEMMA DelaysAbove ==
    ASSUME NEW r \in Positive, NEW m \in Positive, Delays(r, m)
    PROVE  m[1] > 0
<1>0. PICK r1 \in Nat, r2 \in Nat \ {0} : r = <<r1, r2>>
  BY DEF Positive
<1>1. PICK m1 \in Nat, m2 \in Nat \ {0} : m = <<m1, m2>>
  BY DEF Positive
<1>2. 4 * m1 * r2 > 5 * r1 * m2
  BY <1>0, <1>1 DEF Delays
<1>3. ASSUME m1 = 0 PROVE FALSE
  <2>1. 4 * m1 * r2 = 0 /\ 5 * r1 * m2 >= 0
    BY <1>3, Z3
  <2> QED BY <1>2, <2>1
<1> QED
  BY <1>1, <1>3

\* The sum of counters is a counter.
LEMMA AddType ==
    ASSUME NEW x \in Nat \cup {NaN, Inf}, NEW y \in Nat \cup {NaN, Inf}
    PROVE  Add(x, y) \in Nat \cup {NaN, Inf}
  BY DEF Add, NaN, Inf

-----------------------------------------------------------------------------
(* The start, and the types. *)

LEMMA BalancingInit == Init => IndInv
<1> SUFFICES ASSUME Init PROVE IndInv
  OBVIOUS
<1> USE BalancingAssumption
<1>1. TypeOK
  BY DEF Init, TypeOK, ReceiverPC, NoLocals, Zero, RatioType, Receivers
<1>2. Zero \in Positive /\ Zero[1] = 0 /\ ~Higher(<<0, 0>>, Zero)
  BY DEF Zero, Positive, Higher
<1>3. \A i \in Receivers : Counters(i) /\ Locals(i)
  BY <1>2 DEF Init, Counters, Locals, Held, NoLocals
<1> QED
  BY <1>1, <1>2, <1>3 DEF IndInv, Init, Held

\* What Count does, whatever the work of the buffer.
LEMMA CountFacts ==
    ASSUME TypeOK, NEW i \in Receivers, Count(i)
    PROVE  \E nb \in Nat \ {0}, nw \in Nat \cup {NaN, Inf} :
             /\ nBuffers' = [nBuffers EXCEPT ![i] = nb]
             /\ nWork' = [nWork EXCEPT ![i] = nw]
             /\ loc' = [loc EXCEPT ![i] =
                  [ratio |-> Ratio(nb, nw), max |-> maxRatio, owner |-> maxOwner]]
             /\ best' = IF nw > 0 /\ Higher(<<nb, nw>>, best[i])
                        THEN [best EXCEPT ![i] = <<nb, nw>>] ELSE best
<1>1. \A u \in Works : u * unit \in Nat
  <2> SUFFICES ASSUME NEW u \in Nat, unit \in Nat PROVE u * unit \in Nat
    BY BalancingAssumption DEF TypeOK
  <2> QED BY Z3
<1>2. PICK w \in {u * unit : u \in Works} \cup {NaN, Inf} :
         LET nb == nBuffers[i] + unit
             nw == Add(nWork[i], w)
         IN  /\ nBuffers' = [nBuffers EXCEPT ![i] = nb]
             /\ nWork' = [nWork EXCEPT ![i] = nw]
             /\ loc' = [loc EXCEPT ![i] =
                  [ratio |-> Ratio(nb, nw), max |-> maxRatio, owner |-> maxOwner]]
             /\ best' = IF nw > 0 /\ Higher(<<nb, nw>>, best[i])
                        THEN [best EXCEPT ![i] = <<nb, nw>>] ELSE best
  BY Zenon DEF Count
<1>3. w \in Nat \cup {NaN, Inf}
  BY <1>1
<1>4. Add(nWork[i], w) \in Nat \cup {NaN, Inf}
  BY <1>3, AddType DEF TypeOK
<1>5. nBuffers[i] + unit \in Nat \ {0}
  BY DEF TypeOK
<1> QED
  BY <1>2, <1>4, <1>5, Zenon

\* A ratio of counters is a ratio, 0 when the work is infinite.
LEMMA RatioTypes ==
    ASSUME NEW nb \in Nat, NEW nw \in Nat \cup {NaN, Inf}
    PROVE  /\ Ratio(nb, nw) \in RatioType
           /\ Finite(Ratio(nb, nw)) => Ratio(nb, nw) \in Positive
           /\ nw > 0 => Ratio(nb, nw) = <<nb, nw>>
           /\ Finite(Ratio(nb, nw)) => nw > 0 \/ Ratio(nb, nw) = Zero
  BY DEF Ratio, RatioType, Finite, Positive, Zero, NaN, Inf

\* The receivers FindMax chooses among.
LEMMA TopFacts ==
    ASSUME TypeOK, NEW i \in Top
    PROVE  /\ i \in Receivers /\ i <= peakLen
           /\ nBuffers[i] > 0 /\ nWork[i] > 0
           /\ RatioOf(i) = <<nBuffers[i], nWork[i]>> /\ RatioOf(i) \in Positive
<1>1. i \in 1..peakLen /\ Finite(RatioOf(i)) /\ Higher(RatioOf(i), Zero)
  BY DEF Top, Eligible, Skip
<1>2. i \in Receivers
  BY <1>1, BalancingAssumption DEF TypeOK, Receivers
<1>3. nBuffers[i] \in Nat /\ nWork[i] \in Nat \cup {NaN, Inf}
  BY <1>2 DEF TypeOK
<1>4. RatioOf(i) \in Positive
  BY <1>1, <1>3, RatioTypes DEF RatioOf
<1>5. RatioOf(i) # Zero
  BY <1>1, <1>4, HigherOrder
<1>6. nWork[i] > 0 /\ RatioOf(i) = <<nBuffers[i], nWork[i]>>
  BY <1>1, <1>3, <1>5, RatioTypes DEF RatioOf
<1>7. nBuffers[i] > 0
  <2>1. nBuffers[i] * 1 > 0 * nWork[i]
    BY <1>1, <1>6 DEF Higher, Zero
  <2>2. nBuffers[i] * 1 = nBuffers[i] /\ 0 * nWork[i] = 0
    BY <1>3, <1>6 DEF NaN, Inf
  <2> QED BY <2>1, <2>2
<1> QED
  BY <1>1, <1>2, <1>4, <1>6, <1>7

LEMMA BalancingTypeStep == TypeOK /\ [Next]_vars => TypeOK'
<1> SUFFICES ASSUME TypeOK, [Next]_vars PROVE TypeOK'
  OBVIOUS
<1> USE BalancingAssumption DEF TypeOK, ReceiverPC
<1>0. NoLocals \in [ratio : RatioType, max : RatioType, owner : 0..N]
  BY DEF NoLocals, RatioType, Zero
<1>1. CASE PushPeak
  BY <1>1 DEF PushPeak, recvVars, peakVars
<1>2. CASE PushTotal
  BY <1>2 DEF PushTotal, recvVars, peakVars
<1>3. CASE Spawn
  BY <1>3 DEF Spawn, peakVars, Receivers
<1>4. ASSUME NEW i \in Receivers, ReceiverStep(i) PROVE TypeOK'
  <2>1. CASE Alone(i)
    BY <2>1 DEF Alone, peakVars
  <2>2. CASE Count(i)
    <3>1. PICK nb \in Nat \ {0}, nw \in Nat \cup {NaN, Inf} :
             /\ nBuffers' = [nBuffers EXCEPT ![i] = nb]
             /\ nWork' = [nWork EXCEPT ![i] = nw]
             /\ loc' = [loc EXCEPT ![i] =
                  [ratio |-> Ratio(nb, nw), max |-> maxRatio, owner |-> maxOwner]]
             /\ best' = IF nw > 0 /\ Higher(<<nb, nw>>, best[i])
                        THEN [best EXCEPT ![i] = <<nb, nw>>] ELSE best
      BY <2>2, CountFacts
    <3>2. Ratio(nb, nw) \in RatioType /\ <<nb, nw>> \in RatioType
      BY RatioTypes DEF RatioType
    <3>3. best' \in [Receivers -> RatioType]
      BY <3>1, <3>2
    <3>4. loc' \in [Receivers -> [ratio : RatioType, max : RatioType, owner : 0..N]]
      BY <3>1, <3>2
    <3> QED
      BY <2>2, <3>1, <3>3, <3>4 DEF Count
  <2>3. CASE Totals(i)
    <3>1. /\ called' \in [Receivers -> BOOLEAN]
          /\ \/ NextBuffer(i)
             \/ lpc' = [lpc EXCEPT ![i] = "totalled"] /\ UNCHANGED loc
      BY <2>3 DEF Totals
    <3> QED
      BY <2>3, <3>1, <1>0 DEF Totals, NextBuffer, peakVars
  <2>4. ASSUME NEW max \in RatioType, NEW owner \in 0..N, Decide(i, max, owner)
        PROVE  /\ lpc' \in [Receivers -> ReceiverPC]
               /\ loc' \in [Receivers -> [ratio : RatioType, max : RatioType, owner : 0..N]]
    <3>1. loc[i].ratio \in RatioType
      OBVIOUS
    <3>2. CASE NextBuffer(i)
      BY <3>2, <1>0 DEF NextBuffer
    <3>3. CASE /\ lpc' = [lpc EXCEPT ![i] = "sleep"]
               /\ loc' = [loc EXCEPT ![i] =
                    [ratio |-> @.ratio, max |-> max, owner |-> owner]]
      BY <3>1, <3>3
    <3> QED
      BY <2>4, <3>2, <3>3 DEF Decide
  <2>5. CASE Raise(i)
    <3>1. maxRatio' \in RatioType /\ maxOwner' \in 0..N
      BY <2>5 DEF Raise, Receivers
    <3>2. Decide(i, maxRatio', maxOwner')
      BY <2>5 DEF Raise
    <3> QED
      BY <2>5, <3>1, <3>2, <2>4 DEF Raise
  <2>6. CASE Keep(i)
    <3>1. Decide(i, loc[i].max, loc[i].owner)
      BY <2>6 DEF Keep
    <3> QED
      BY <2>6, <3>1, <2>4 DEF Keep, peakVars
  <2>7. CASE Wake(i)
    BY <2>7, <1>0 DEF Wake, NextBuffer, peakVars
  <2> QED
    BY <1>4, <2>1, <2>2, <2>3, <2>5, <2>6, <2>7 DEF ReceiverStep
<1>5. CASE ControlScan
  <2>1. maxRatio' \in RatioType /\ maxOwner' \in 0..N
    <3>1. CASE Top = {}
      BY <3>1, <1>5 DEF ControlScan, FindMax, Zero, RatioType
    <3>2. CASE Top # {}
      <4>1. PICK i \in Top : i = CHOOSE j \in Top : TRUE
        BY <3>2
      <4>2. i \in Receivers /\ RatioOf(i) \in Positive
        BY <4>1, TopFacts
      <4>3. i \in 0..N /\ RatioOf(i) \in RatioType
        BY <4>2 DEF Positive, RatioType, Receivers
      <4> QED
        BY <4>1, <4>3, <3>2, <1>5 DEF ControlScan, FindMax
    <3> QED BY <3>1, <3>2
  <2>2. /\ nBuffers' \in [Receivers -> Nat]
        /\ nWork' \in [Receivers -> Nat \cup {NaN, Inf}]
        /\ lastWork' \in [Receivers -> Nat \cup {NaN, Inf}]
    BY <1>5 DEF ControlScan, Aged
  <2>3. unit' \in Nat \ {0}
    BY <1>5 DEF ControlScan, Decay
  <2> QED
    BY <2>1, <2>2, <2>3, <1>5 DEF ControlScan, recvVars
<1>6. CASE ControlLog
  BY <1>6 DEF ControlLog, recvVars, peakVars
<1>7. CASE UNCHANGED vars
  BY <1>7 DEF vars
<1> QED
  BY <1>1, <1>2, <1>3, <1>4, <1>5, <1>6, <1>7 DEF Next

-----------------------------------------------------------------------------
(* The parts of the invariant. *)

\* The best ratio of a receiver only grows, in Count.
LEMMA BestGrows ==
    ASSUME IndInv, [Next]_vars, NEW o \in Receivers
    PROVE  /\ best[o] \in Positive /\ best'[o] \in Positive
           /\ best'[o] = best[o] \/ Higher(best'[o], best[o])
<1>0. TypeOK /\ best[o] \in Positive
  BY DEF IndInv, Counters
<1>1. CASE UNCHANGED best
  BY <1>0, <1>1
<1>2. ASSUME NEW i \in Receivers, Count(i)
      PROVE  best'[o] \in Positive /\ (best'[o] = best[o] \/ Higher(best'[o], best[o]))
  <2>1. PICK nb \in Nat \ {0}, nw \in Nat \cup {NaN, Inf} :
           best' = IF nw > 0 /\ Higher(<<nb, nw>>, best[i])
                   THEN [best EXCEPT ![i] = <<nb, nw>>] ELSE best
    BY <1>0, <1>2, CountFacts
  <2>2. CASE nw > 0 /\ Higher(<<nb, nw>>, best[i])
    <3>1. best' = [best EXCEPT ![i] = <<nb, nw>>]
      BY <2>1, <2>2
    <3>2. <<nb, nw>> \in Positive
      BY <2>2 DEF Positive, NaN, Inf
    <3>3. CASE o = i
      BY <3>1, <3>2, <3>3, <2>2, <1>0 DEF TypeOK
    <3>4. CASE o # i
      BY <3>1, <3>4, <1>0 DEF TypeOK
    <3> QED BY <3>3, <3>4
  <2>3. CASE ~(nw > 0 /\ Higher(<<nb, nw>>, best[i]))
    BY <2>1, <2>3, <1>0
  <2> QED BY <2>2, <2>3
<1>3. UNCHANGED best \/ \E i \in Receivers : Count(i)
  <2>1. ASSUME NEW i \in Receivers, ReceiverStep(i) PROVE UNCHANGED best \/ Count(i)
    BY <2>1 DEF ReceiverStep, Alone, Totals, Raise, Keep, Wake, peakVars
  <2> QED
    BY <2>1 DEF Next, PushPeak, PushTotal, Spawn, ControlScan, ControlLog, peakVars, vars
<1> QED BY <1>0, <1>1, <1>2, <1>3

\* Neither the vectors nor the number of buffers of a receiver shrink.
LEMMA LengthsGrow ==
    ASSUME IndInv, [Next]_vars, NEW o \in Receivers
    PROVE  totalLen <= totalLen' /\ buffers[o] <= buffers'[o]
<1> USE DEF IndInv, TypeOK
<1>1. ASSUME NEW i \in Receivers, ReceiverStep(i)
      PROVE  totalLen <= totalLen' /\ buffers[o] <= buffers'[o]
  <2>1. /\ totalLen' = totalLen
        /\ UNCHANGED buffers \/ buffers' = [buffers EXCEPT ![i] = @ + 1]
    BY <1>1 DEF ReceiverStep, Alone, Count, Totals, Raise, Keep, Wake
  <2> QED BY <2>1
<1>2. CASE PushPeak \/ PushTotal \/ Spawn \/ ControlScan \/ ControlLog \/ UNCHANGED vars
  BY <1>2 DEF PushPeak, PushTotal, Spawn, ControlScan, ControlLog, recvVars, vars
<1> QED BY <1>1, <1>2 DEF Next

\* What a receiver once reached stays reached: no step takes back a receiver, its
\* buffers or its best ratio.
LEMMA HeldKept ==
    ASSUME IndInv, [Next]_vars, NEW r \in Positive, NEW o \in 0..N,
           Held(r, o)
    PROVE  \/ r[1] = 0
           \/ o \in 1..totalLen' /\ buffers'[o] > 0 /\ ~Higher(r, best'[o])
<1> SUFFICES ASSUME r[1] # 0
             PROVE  o \in 1..totalLen' /\ buffers'[o] > 0 /\ ~Higher(r, best'[o])
  OBVIOUS
<1>0. TypeOK /\ TypeOK'
  BY BalancingTypeStep DEF IndInv
<1>1. o \in 1..totalLen /\ buffers[o] > 0 /\ ~Higher(r, best[o])
  BY DEF Held
<1>2. o \in Receivers
  BY <1>0, <1>1, BalancingAssumption DEF TypeOK, Receivers
<1>3. ~Higher(r, best'[o])
  BY <1>1, <1>2, BestGrows, HigherUp
<1>4. totalLen <= totalLen' /\ buffers[o] <= buffers'[o]
  BY <1>2, LengthsGrow
<1>5. o \in 1..totalLen' /\ buffers'[o] > 0
  BY <1>0, <1>1, <1>2, <1>4, BalancingAssumption DEF TypeOK
<1> QED BY <1>3, <1>5

\* The counters of each receiver.
LEMMA CountersStep ==
    ASSUME IndInv, [Next]_vars, NEW j \in Receivers
    PROVE  Counters(j)'
<1>0. TypeOK /\ TypeOK' /\ Counters(j) /\ totalLen <= peakLen
  BY BalancingTypeStep DEF IndInv
<1>1. CASE PushPeak
  BY <1>0, <1>1, BalancingAssumption DEF PushPeak, Counters, recvVars, peakVars, TypeOK
<1>2. CASE PushTotal
  BY <1>0, <1>2, BalancingAssumption
     DEF PushTotal, Counters, recvVars, peakVars, TypeOK, Receivers
<1>3. CASE Spawn
  BY <1>0, <1>3, BalancingAssumption DEF Spawn, Counters, peakVars, TypeOK, Receivers
<1>4. ASSUME NEW i \in Receivers, ReceiverStep(i)
      PROVE  Counters(j)'
  <2>1. CASE Alone(i)
    BY <1>0, <2>1 DEF Alone, Counters, peakVars, TypeOK
  <2>2. CASE Count(i)
    <3>1. PICK nb \in Nat \ {0}, nw \in Nat \cup {NaN, Inf} :
             /\ nBuffers' = [nBuffers EXCEPT ![i] = nb]
             /\ nWork' = [nWork EXCEPT ![i] = nw]
             /\ best' = IF nw > 0 /\ Higher(<<nb, nw>>, best[i])
                        THEN [best EXCEPT ![i] = <<nb, nw>>] ELSE best
      BY <1>0, <2>2, CountFacts
    <3>2. /\ lpc'[j] # "none" => j <= totalLen'
          /\ buffers'[j] > 0 => lpc'[j] # "none"
          /\ nBuffers'[j] > 0 => buffers'[j] > 0
      BY <1>0, <2>2, <3>1 DEF Count, Counters, TypeOK
    <3>3. best'[j] \in Positive
      BY BestGrows
    <3>4. nWork'[j] > 0 => ~Higher(<<nBuffers'[j], nWork'[j]>>, best'[j])
      <4>1. CASE j # i
        BY <1>0, <3>1, <4>1 DEF Counters, TypeOK
      <4>2. CASE j = i /\ nw > 0 /\ Higher(<<nb, nw>>, best[i])
        <5>1. best'[j] = <<nb, nw>> /\ nBuffers'[j] = nb /\ nWork'[j] = nw
          BY <1>0, <3>1, <4>2 DEF TypeOK
        <5> QED BY <5>1, <3>3, HigherOrder
      <4>3. CASE j = i /\ ~(nw > 0 /\ Higher(<<nb, nw>>, best[i]))
        <5>1. best'[j] = best[i] /\ nBuffers'[j] = nb /\ nWork'[j] = nw
          BY <1>0, <3>1, <4>3 DEF TypeOK
        <5> QED BY <5>1, <4>3
      <4> QED BY <4>1, <4>2, <4>3
    <3>5. j \notin busy' => nWork'[j] = lastWork'[j]
      BY <1>0, <2>2, <3>1 DEF Count, Counters, TypeOK
    <3> QED
      BY <1>0, <2>2, <3>2, <3>3, <3>4, <3>5 DEF Counters, Count
  <2>3. CASE Totals(i)
    <3>1. lpc' = [lpc EXCEPT ![i] = "recv"] \/ lpc' = [lpc EXCEPT ![i] = "totalled"]
      BY <2>3 DEF Totals, NextBuffer
    <3> QED
      BY <1>0, <2>3, <3>1 DEF Totals, Counters, peakVars, TypeOK
  <2>4. CASE Raise(i)
    BY <1>0, <2>4 DEF Raise, Decide, NextBuffer, Counters, TypeOK
  <2>5. CASE Keep(i)
    BY <1>0, <2>5 DEF Keep, Decide, NextBuffer, Counters, peakVars, TypeOK
  <2>6. CASE Wake(i)
    BY <1>0, <2>6 DEF Wake, NextBuffer, Counters, peakVars, TypeOK
  <2> QED
    BY <1>4, <2>1, <2>2, <2>3, <2>4, <2>5, <2>6 DEF ReceiverStep
<1>5. CASE ControlScan
  BY <1>0, <1>5 DEF ControlScan, Aged, Counters, recvVars, TypeOK
<1>6. CASE ControlLog
  BY <1>0, <1>6 DEF ControlLog, Counters, recvVars, peakVars
<1>7. CASE UNCHANGED vars
  BY <1>0, <1>7 DEF vars, Counters
<1> QED
  BY <1>1, <1>2, <1>3, <1>4, <1>5, <1>6, <1>7 DEF Next

\* The maximum and its owner: the last Raise or FindMax set both together.
LEMMA MaxStep ==
    ASSUME IndInv, [Next]_vars
    PROVE  maxRatio' \in Positive /\ Held(maxRatio, maxOwner)'
<1>0. /\ TypeOK /\ TypeOK'
      /\ maxRatio \in Positive /\ Held(maxRatio, maxOwner)
      /\ \A i \in Receivers : Counters(i) /\ Locals(i)
  BY BalancingTypeStep DEF IndInv
<1>1. ASSUME UNCHANGED <<maxRatio, maxOwner>>
      PROVE  maxRatio' \in Positive /\ Held(maxRatio, maxOwner)'
  <2>1. maxOwner \in 0..N
    BY <1>0 DEF TypeOK
  <2>2. \/ maxRatio[1] = 0
        \/ maxOwner \in 1..totalLen' /\ buffers'[maxOwner] > 0
              /\ ~Higher(maxRatio, best'[maxOwner])
    BY <1>0, <2>1, HeldKept
  <2> QED
    BY <1>0, <1>1, <2>2 DEF Held
<1>2. ASSUME NEW i \in Receivers, Raise(i)
      PROVE  maxRatio' \in Positive /\ Held(maxRatio, maxOwner)'
  <2>1. CASE ~Higher(loc[i].ratio, maxRatio)
    BY <1>1, <1>2, <2>1 DEF Raise
  <2>2. CASE Higher(loc[i].ratio, maxRatio)
    <3>1. maxRatio' = loc[i].ratio /\ maxOwner' = i
      BY <1>2, <2>2 DEF Raise
    <3>2. /\ Finite(loc[i].ratio) /\ buffers[i] > 0 /\ ~Higher(loc[i].ratio, best[i])
          /\ lpc[i] = "totalled" /\ i <= totalLen
      BY <1>0, <1>2 DEF Raise, Locals, Counters
    <3>3. loc[i].ratio \in Positive
      <4>1. loc[i].ratio \in RatioType
        BY <1>0 DEF TypeOK
      <4> QED BY <3>2, <4>1 DEF RatioType, Positive, Finite, NaN, Inf
    <3>4. UNCHANGED <<totalLen, buffers, best>>
      BY <1>2 DEF Raise
    <3>5. i \in 1..totalLen
      BY <1>0, <3>2 DEF TypeOK, Receivers
    <3> QED
      BY <3>1, <3>2, <3>3, <3>4, <3>5 DEF Held
  <2> QED BY <2>1, <2>2
<1>3. CASE ControlScan
  <2>1. CASE Top = {}
    <3>1. maxRatio' = Zero
      BY <1>3, <2>1 DEF ControlScan, FindMax
    <3> QED BY <3>1 DEF Zero, Positive, Held
  <2>2. CASE Top # {}
    <3>1. PICK i \in Top : maxRatio' = RatioOf(i) /\ maxOwner' = i
      BY <1>3, <2>2 DEF ControlScan, FindMax
    <3>2. /\ i \in Receivers /\ nBuffers[i] > 0 /\ nWork[i] > 0
          /\ RatioOf(i) = <<nBuffers[i], nWork[i]>> /\ RatioOf(i) \in Positive
      BY <1>0, TopFacts
    <3>3. buffers[i] > 0 /\ i <= totalLen /\ ~Higher(RatioOf(i), best[i])
      BY <1>0, <3>2 DEF Counters
    <3>4. UNCHANGED <<totalLen, buffers, best>>
      BY <1>3 DEF ControlScan, recvVars
    <3>5. i \in 1..totalLen
      BY <1>0, <3>2, <3>3 DEF TypeOK, Receivers
    <3> QED
      BY <3>1, <3>2, <3>3, <3>4, <3>5 DEF Held
  <2> QED BY <2>1, <2>2
<1>4. \/ UNCHANGED <<maxRatio, maxOwner>>
      \/ \E i \in Receivers : Raise(i)
      \/ ControlScan
  <2>1. ASSUME NEW i \in Receivers, ReceiverStep(i)
        PROVE  UNCHANGED <<maxRatio, maxOwner>> \/ Raise(i)
    BY <2>1 DEF ReceiverStep, Alone, Count, Totals, Keep, Wake, peakVars
  <2> QED
    BY <2>1 DEF Next, PushPeak, PushTotal, Spawn, ControlLog, peakVars, vars
<1> QED
  BY <1>1, <1>2, <1>3, <1>4

\* The snapshots and the ratio of each receiver.
LEMMA LocalsStep ==
    ASSUME IndInv, [Next]_vars, NEW j \in Receivers
    PROVE  Locals(j)'
<1>0. /\ TypeOK /\ TypeOK' /\ Counters(j) /\ Locals(j)
      /\ maxRatio \in Positive /\ Held(maxRatio, maxOwner)
  BY BalancingTypeStep DEF IndInv
<1> DEFINE Then(r, o) == \/ r[1] = 0
                         \/ o \in 1..totalLen' /\ buffers'[o] > 0
                              /\ ~Higher(r, best'[o])
<1>1. ASSUME NEW m \in Positive, NEW o \in 0..N, Held(m, o) PROVE Then(m, o)
  BY <1>1, HeldKept
<1>2. Then(loc[j].max, loc[j].owner) /\ Then(maxRatio, maxOwner)
  <2>1. loc[j].owner \in 0..N /\ maxOwner \in 0..N
    BY <1>0 DEF TypeOK
  <2> QED
    BY <1>0, <1>1, <2>1 DEF Locals
<1>3. ASSUME Then(loc'[j].max, loc'[j].owner) PROVE Held(loc[j].max, loc[j].owner)'
  BY <1>3 DEF Held
<1> HIDE DEF Then
\* A step that leaves the receiver's own state alone.
<1>4. ASSUME UNCHANGED <<loc[j], lpc[j]>>
      PROVE  Locals(j)'
  <2>1. Held(loc[j].max, loc[j].owner)'
    BY <1>2, <1>3, <1>4
  <2>2. ASSUME lpc[j] \in {"counted", "totalled"}, Finite(loc[j].ratio)
        PROVE  buffers'[j] > 0 /\ ~Higher(loc[j].ratio, best'[j])
    <3>1. buffers[j] > 0 /\ ~Higher(loc[j].ratio, best[j]) /\ j <= totalLen
      BY <1>0, <2>2 DEF Locals, Counters
    <3>2. loc[j].ratio \in Positive
      <4>1. loc[j].ratio \in RatioType
        BY <1>0 DEF TypeOK
      <4> QED BY <2>2, <4>1 DEF RatioType, Positive, Finite, NaN, Inf
    <3>3. ~Higher(loc[j].ratio, best'[j])
      BY <3>1, <3>2, BestGrows, HigherUp
    <3>4. buffers'[j] > 0
      BY <1>0, <3>1, LengthsGrow DEF TypeOK
    <3> QED BY <3>3, <3>4
  <2> QED
    BY <1>0, <1>4, <2>1, <2>2 DEF Locals
\* The receiver's locals are new.
<1>5. ASSUME loc'[j] = NoLocals, lpc'[j] = "recv"
      PROVE  Locals(j)'
  BY <1>5 DEF Locals, NoLocals, Zero, Positive, Held
\* The receiver goes to sleep, or not.
<1>6. ASSUME NEW max \in Positive, NEW owner, Decide(j, max, owner), Then(max, owner),
             Finite(loc[j].ratio)
      PROVE  Locals(j)'
  <2>1. CASE NextBuffer(j)
    BY <1>0, <2>1, <1>5 DEF NextBuffer, TypeOK
  <2>2. CASE ~NextBuffer(j)
    <3>1. Delays(loc[j].ratio, max) /\ lpc' = [lpc EXCEPT ![j] = "sleep"]
            /\ loc' = [loc EXCEPT ![j] =
                 [ratio |-> @.ratio, max |-> max, owner |-> owner]]
      BY <1>6, <2>2 DEF Decide
    <3>2. lpc'[j] = "sleep" /\ loc'[j].max = max /\ loc'[j].owner = owner
      BY <1>0, <3>1 DEF TypeOK
    <3>3. loc[j].ratio \in Positive
      <4>1. loc[j].ratio \in RatioType
        BY <1>0 DEF TypeOK
      <4> QED BY <1>6, <4>1 DEF RatioType, Positive, Finite, NaN, Inf
    <3>4. max[1] > 0
      BY <1>6, <3>1, <3>3, DelaysAbove
    <3>5. Held(loc[j].max, loc[j].owner)'
      BY <1>3, <1>6, <3>2
    <3> QED
      BY <3>2, <3>4, <3>5 DEF Locals
  <2> QED BY <2>1, <2>2
<1>7. CASE PushPeak \/ PushTotal \/ ControlScan \/ ControlLog \/ UNCHANGED vars
  BY <1>4, <1>7
     DEF PushPeak, PushTotal, ControlScan, ControlLog, recvVars, vars
<1>8. CASE Spawn
  <2>1. CASE j = totalLen
    <3>1. lpc'[j] = "recv" /\ loc' = loc
      BY <1>0, <1>8, <2>1 DEF Spawn, TypeOK
    <3>2. Held(loc[j].max, loc[j].owner)'
      BY <1>2, <1>3, <3>1
    <3> QED
      BY <1>0, <3>1, <3>2 DEF Locals
  <2>2. CASE j # totalLen
    BY <1>0, <1>4, <1>8, <2>2 DEF Spawn, TypeOK
  <2> QED BY <2>1, <2>2
<1>9. ASSUME NEW i \in Receivers, ReceiverStep(i) PROVE Locals(j)'
  <2>1. CASE i # j
    <3>1. lpc'[j] = lpc[j] /\ loc'[j] = loc[j]
      <4>1. CASE Count(i)
        BY <1>0, <2>1, <4>1, CountFacts DEF Count, TypeOK
      <4>2. CASE Alone(i) \/ Totals(i) \/ Wake(i)
        BY <1>0, <2>1, <4>2 DEF Alone, Totals, Wake, NextBuffer, TypeOK
      <4>3. CASE Raise(i) \/ Keep(i)
        BY <1>0, <2>1, <4>3 DEF Raise, Keep, Decide, NextBuffer, TypeOK
      <4> QED BY <1>9, <4>1, <4>2, <4>3 DEF ReceiverStep
    <3> QED BY <1>4, <3>1
  <2>2. CASE i = j
    <3>1. CASE Alone(j)
      BY <1>4, <3>1 DEF Alone
    <3>2. CASE Count(j)
      <4>1. PICK nb \in Nat \ {0}, nw \in Nat \cup {NaN, Inf} :
               /\ nBuffers' = [nBuffers EXCEPT ![j] = nb]
               /\ nWork' = [nWork EXCEPT ![j] = nw]
               /\ loc' = [loc EXCEPT ![j] =
                    [ratio |-> Ratio(nb, nw), max |-> maxRatio, owner |-> maxOwner]]
        BY <1>0, <3>2, CountFacts
      <4>2. /\ lpc'[j] = "counted" /\ loc'[j].ratio = Ratio(nb, nw)
            /\ loc'[j].max = maxRatio /\ loc'[j].owner = maxOwner
            /\ nBuffers'[j] = nb /\ nWork'[j] = nw /\ buffers'[j] > 0
        BY <1>0, <3>2, <4>1 DEF Count, TypeOK
      <4>3. Held(loc[j].max, loc[j].owner)'
        BY <1>2, <1>3, <4>2
      <4>4. ASSUME Finite(Ratio(nb, nw)) PROVE ~Higher(Ratio(nb, nw), best'[j])
        <5>1. CASE nw > 0
          <6>1. ~Higher(<<nb, nw>>, best'[j])
            BY <5>1, <4>2, CountersStep DEF Counters
          <6> QED BY <5>1, <6>1, RatioTypes
        <5>2. CASE Ratio(nb, nw) = Zero
          BY <5>2, BestGrows, ZeroLow
        <5> QED BY <4>4, <5>1, <5>2, RatioTypes
      <4> QED
        BY <1>0, <4>2, <4>3, <4>4 DEF Locals
    <3>3. CASE Totals(j)
      <4>1. CASE NextBuffer(j)
        BY <1>0, <4>1, <1>5 DEF NextBuffer, TypeOK
      <4>2. CASE ~NextBuffer(j)
        <5>1. /\ lpc' = [lpc EXCEPT ![j] = "totalled"] /\ UNCHANGED <<loc, buffers, best>>
              /\ Finite(loc[j].ratio) /\ lpc[j] = "counted"
          BY <3>3, <4>2 DEF Totals, Skip, peakVars
        <5>2. lpc'[j] = "totalled"
          BY <1>0, <5>1 DEF TypeOK
        <5>3. Held(loc[j].max, loc[j].owner)'
          BY <1>2, <1>3, <5>1
        <5> QED
          BY <1>0, <5>1, <5>2, <5>3 DEF Locals
      <4> QED BY <4>1, <4>2
    <3>4. CASE Raise(j)
      <4>1. maxRatio' \in Positive /\ Held(maxRatio, maxOwner)'
        BY MaxStep
      <4>2. Then(maxRatio', maxOwner')
        BY <4>1 DEF Held, Then
      <4>3. Decide(j, maxRatio', maxOwner') /\ Finite(loc[j].ratio)
        BY <1>0, <3>4 DEF Raise, Locals
      <4> QED BY <1>6, <4>1, <4>2, <4>3
    <3>5. CASE Keep(j)
      <4>1. Decide(j, loc[j].max, loc[j].owner) /\ Finite(loc[j].ratio)
        BY <1>0, <3>5 DEF Keep, Locals
      <4> QED BY <1>0, <1>2, <1>6, <4>1 DEF Locals
    <3>6. CASE Wake(j)
      BY <1>0, <1>5, <3>6 DEF Wake, NextBuffer, TypeOK
    <3> QED
      BY <1>9, <2>2, <3>1, <3>2, <3>3, <3>4, <3>5, <3>6 DEF ReceiverStep
  <2> QED BY <2>1, <2>2
<1> QED
  BY <1>7, <1>8, <1>9 DEF Next

-----------------------------------------------------------------------------
(* The theorems. *)

\* The invariant of balancing holds in every reachable state.
THEOREM BalancingInductive == Spec => []IndInv
<1>1. IndInv /\ [Next]_vars => IndInv'
  <2> SUFFICES ASSUME IndInv, [Next]_vars PROVE IndInv'
    OBVIOUS
  <2>1. TypeOK' /\ maxRatio' \in Positive /\ Held(maxRatio, maxOwner)'
    BY BalancingTypeStep, MaxStep DEF IndInv
  <2>2. \A i \in Receivers : Counters(i)' /\ Locals(i)'
    BY CountersStep, LocalsStep
  <2>3. totalLen' <= peakLen'
    <3>1. ASSUME NEW i \in Receivers, ReceiverStep(i) PROVE UNCHANGED <<totalLen, peakLen>>
      BY <3>1 DEF ReceiverStep, Alone, Count, Totals, Raise, Keep, Wake
    <3>2. CASE PushPeak \/ PushTotal
      BY <3>2 DEF IndInv, TypeOK, PushPeak, PushTotal
    <3>3. CASE UNCHANGED <<totalLen, peakLen>>
      BY <3>3 DEF IndInv
    <3> QED
      BY <3>1, <3>2, <3>3 DEF Next, Spawn, ControlScan, ControlLog, vars
  <2> QED
    BY <2>1, <2>2, <2>3 DEF IndInv
<1> QED
  BY BalancingInit, <1>1, PTL DEF Spec

\* Type correctness of balancing.
THEOREM BalancingTypes == Spec => []TypeOK
<1>1. IndInv => TypeOK
  BY DEF IndInv
<1> QED
  BY BalancingInductive, <1>1, PTL

\* A receiver that Listen sends to sleep was compared with a maximum that its
\* owner, a receiver with buffers, really reached, whatever Raise, InitThreadData
\* and ControlThread did between the snapshot and the sleep.
THEOREM DelaysJustified == Spec => []DelayJustified
<1>1. IndInv => DelayJustified
  <2> SUFFICES ASSUME IndInv, NEW i \in Receivers, lpc[i] = "sleep"
               PROVE  /\ loc[i].owner \in 1..totalLen
                      /\ buffers[loc[i].owner] > 0
                      /\ ~Higher(loc[i].max, best[loc[i].owner])
    BY DEF DelayJustified
  <2>1. loc[i].max \in Positive /\ loc[i].max[1] > 0 /\ Held(loc[i].max, loc[i].owner)
    BY DEF IndInv, Locals
  <2> QED
    BY <2>1 DEF Held
<1> QED
  BY BalancingInductive, <1>1, PTL

\* Only ControlThread lowers max_buffer_work_ratio: Raise compares again under
\* peak_lock before it writes.
THEOREM MaxKept == Spec => MaxNeverDrops
<1>1. IndInv /\ [Next]_vars => [Higher(maxRatio, maxRatio') => cpc' = "log"]_vars
  <2> SUFFICES ASSUME IndInv, Next, Higher(maxRatio, maxRatio') PROVE cpc' = "log"
    OBVIOUS
  <2>0. maxRatio \in Positive /\ maxRatio' \in Positive
    BY MaxStep DEF IndInv
  <2>1. maxRatio' # maxRatio
    BY <2>0, HigherOrder
  <2>2. ASSUME NEW i \in Receivers, ReceiverStep(i) PROVE FALSE
    <3>1. Raise(i)
      BY <2>1, <2>2 DEF ReceiverStep, Alone, Count, Totals, Keep, Wake, peakVars
    <3>2. maxRatio' = loc[i].ratio /\ Higher(loc[i].ratio, maxRatio)
      BY <2>1, <3>1 DEF Raise
    <3> QED
      BY <2>0, <3>2, HigherOrder
  <2> QED
    BY <2>1, <2>2 DEF Next, PushPeak, PushTotal, Spawn, ControlLog, ControlScan, peakVars
<1> QED
  BY BalancingInductive, <1>1, PTL DEF Spec, MaxNeverDrops

\* ControlThread resets a receiver that counted nothing since the last scan,
\* unless its work is NaN.
THEOREM IdleIsReset == Spec => IdleReset
<1> DEFINE A == cpc = "sleep" /\ cpc' = "log" =>
                  \A i \in Receivers : i \notin busy =>
                     nWork'[i] = IF nWork[i] = NaN THEN NaN ELSE 0
<1>1. IndInv /\ [Next]_vars => [A]_vars
  <2> SUFFICES ASSUME IndInv, Next, cpc = "sleep", cpc' = "log",
                      NEW i \in Receivers, i \notin busy
               PROVE  nWork'[i] = IF nWork[i] = NaN THEN NaN ELSE 0
    OBVIOUS
  <2>1. ControlScan
    BY DEF Next, PushPeak, PushTotal, Spawn, ControlLog, ReceiverStep, Alone, Count,
       Totals, Raise, Keep, Wake
  <2>2. nWork[i] = lastWork[i]
    BY DEF IndInv, Counters
  <2> QED
    BY <2>1, <2>2 DEF ControlScan, Aged, Idle
<1> QED
  BY BalancingInductive, <1>1, PTL DEF Spec, IdleReset
=============================================================================
