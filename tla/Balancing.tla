------------------------------ MODULE Balancing ------------------------------
(***************************************************************************)
(* Overhead balancing in the consumer (src/src/consumer/consumer.cpp): the *)
(* part of the Listen loop between the write of a buffer and the next      *)
(* ready signal, ControlThread, and the growth of the vectors both work on *)
(* in InitThreadData, while tracing goes on.                               *)
(*                                                                         *)
(* Each receiver counts its buffers and the work they stand for; the       *)
(* highest ratio of buffers to work belongs to the thread that tracing     *)
(* slows most, and a receiver with a lower one delays its thread.  Every   *)
(* period the control thread ages the counters and finds the maximum anew. *)
(*                                                                         *)
(* Data.  The work of a buffer is a natural number, NaN when a perf counter*)
(* gives 0 cycles, or infinite when it gives cycles and no instructions.   *)
(* A ratio is a pair <<buffers, work>>, compared by multiplication.        *)
(* Counters are whole numbers of a unit.  To divide them all by four, as   *)
(* happens once per period, the code's 1.0 becomes four times as many      *)
(* units as before.                                                        *)
(***************************************************************************)
EXTENDS Integers

CONSTANTS
    N,            \* receivers that are spawned, with indices 1 to N
    MaxBuffers,   \* bound: buffers per receiver
    MaxPeriods,   \* bound: periods of the control thread
    Works,        \* the work a buffer can stand for
    TrackFcalls   \* knob -fcalls of the tool

ASSUME BalancingAssumption ==
    /\ N \in Nat /\ MaxBuffers \in Nat /\ MaxPeriods \in Nat
    /\ Works \subseteq Nat
    /\ TrackFcalls \in BOOLEAN

VARIABLES
    peakLen,    \* length of the vectors under peak_lock
    totalLen,   \* length of the vectors under total_lock
    lpc,        \* where each receiver is
    nBuffers,   \* n_buffers, in units
    nWork,      \* n_work, in units, or NaN or infinite
    lastWork,   \* last_work
    called,     \* is total_fcalls of the receiver above 0
    loc,        \* locals of a receiver: its ratio, max_ratio_snapshot and
                \*   ratio_owner_snapshot
    maxRatio,   \* max_buffer_work_ratio
    maxOwner,   \* max_ratio_owner; 0 stands for -1
    cpc,        \* where the control thread is
    periods,    \* control_periods
    unit,       \* how many units make 1.0
    buffers,    \* history: buffers each receiver counted
    busy,       \* history: receivers that counted a buffer since the last scan
    best        \* history: the highest ratio each receiver ever had

recvVars == <<lpc, loc, buffers>>
peakVars == <<nBuffers, nWork, lastWork, maxRatio, maxOwner, unit, busy, best>>
vars == <<peakLen, totalLen, lpc, nBuffers, nWork, lastWork, called, loc,
          maxRatio, maxOwner, cpc, periods, unit, buffers, busy, best>>

Receivers == 1..N

\* "none": not spawned; "recv": at the hand-off; "counted": past the block under
\* peak_lock; "totalled": past the one under total_lock; "sleep": in WriteDummy.
ReceiverPC == {"none", "recv", "counted", "totalled", "sleep"}

NaN == -1
Inf == -2
Zero == <<0, 1>>
NoLocals == [ratio |-> Zero, max |-> Zero, owner |-> 0]

\* The sum of counters.
Add(x, y) ==
    IF NaN \in {x, y} THEN NaN ELSE IF Inf \in {x, y} THEN Inf ELSE x + y

\* Comparisons of ratios with work above 0.
Higher(r, s) == r[1] * s[2] > s[1] * r[2]
Finite(r) == r[2] > 0

\* skip_overhead_balancing: the ratio is NaN or infinite, or no call was counted.
Skip(r, c) == ~Finite(r) \/ ~c

\* extra_buffers = max / ratio - 1 exceeds a quarter.
Delays(r, max) == 4 * max[1] * r[2] > 5 * r[1] * max[2]

\* Buffers per work, which is 0 when the work is infinite.
Ratio(nb, nw) == IF nw = Inf THEN Zero ELSE <<nb, nw>>
RatioOf(i) == Ratio(nBuffers[i], nWork[i])

Init ==
    /\ peakLen = 0
    /\ totalLen = 0
    /\ lpc = [i \in Receivers |-> "none"]
    /\ nBuffers = [i \in Receivers |-> 0]
    /\ nWork = [i \in Receivers |-> 0]
    /\ lastWork = [i \in Receivers |-> 0]
    /\ called = [i \in Receivers |-> FALSE]
    /\ loc = [i \in Receivers |-> NoLocals]
    /\ maxRatio = Zero
    /\ maxOwner = 0
    /\ cpc = "sleep"
    /\ periods = 0
    /\ unit = 1
    /\ buffers = [i \in Receivers |-> 0]
    /\ busy = {}
    /\ best = [i \in Receivers |-> Zero]

-----------------------------------------------------------------------------
(* main: InitThreadData, then the receiver. *)

\* The vectors under insertion_lock and then those under peak_lock get an entry.
PushPeak ==
    /\ peakLen < N
    /\ peakLen = totalLen
    /\ peakLen > 0 => lpc[peakLen] # "none"
    /\ cpc # "log"
    /\ peakLen' = peakLen + 1
    /\ UNCHANGED <<totalLen, called, recvVars, peakVars, cpc, periods>>

\* The vectors under total_lock get theirs.
PushTotal ==
    /\ totalLen < peakLen
    /\ totalLen' = totalLen + 1
    /\ UNCHANGED <<peakLen, called, recvVars, peakVars, cpc, periods>>

Spawn ==
    /\ totalLen > 0
    /\ totalLen = peakLen
    /\ lpc[totalLen] = "none"
    /\ lpc' = [lpc EXCEPT ![totalLen] = "recv"]
    /\ UNCHANGED <<peakLen, totalLen, called, loc, buffers, peakVars, cpc, periods>>

-----------------------------------------------------------------------------
(* Listen, after the write of a buffer. *)

\* A buffer of the only receiver is not counted.
Alone(i) ==
    /\ lpc[i] = "recv"
    /\ buffers[i] < MaxBuffers
    /\ peakLen = 1
    /\ buffers' = [buffers EXCEPT ![i] = @ + 1]
    /\ UNCHANGED <<peakLen, totalLen, called, lpc, loc, peakVars, cpc, periods>>

\* Under peak_lock, shared: the counters of the receiver, its ratio, snapshots.
Count(i) ==
    /\ lpc[i] = "recv"
    /\ buffers[i] < MaxBuffers
    /\ peakLen > 1
    /\ cpc # "log"
    /\ \E w \in {u * unit : u \in Works} \cup {NaN, Inf} :
         LET nb == nBuffers[i] + unit
             nw == Add(nWork[i], w)
         IN  /\ nBuffers' = [nBuffers EXCEPT ![i] = nb]
             /\ nWork' = [nWork EXCEPT ![i] = nw]
             /\ loc' = [loc EXCEPT ![i] =
                  [ratio |-> Ratio(nb, nw), max |-> maxRatio, owner |-> maxOwner]]
             /\ best' = IF nw > 0 /\ Higher(<<nb, nw>>, best[i])
                        THEN [best EXCEPT ![i] = <<nb, nw>>] ELSE best
    /\ lpc' = [lpc EXCEPT ![i] = "counted"]
    /\ buffers' = [buffers EXCEPT ![i] = @ + 1]
    /\ busy' = busy \cup {i}
    /\ UNCHANGED <<peakLen, totalLen, called, lastWork, maxRatio, maxOwner,
                   unit, cpc, periods>>

\* Back to the top of the loop, whose locals are new.
NextBuffer(i) ==
    /\ lpc' = [lpc EXCEPT ![i] = "recv"]
    /\ loc' = [loc EXCEPT ![i] = NoLocals]

\* Under total_lock, shared: the totals.  The tool sends 0 calls for a buffer
\* when it does not count any.  Then the test of skip_overhead_balancing.
Totals(i) ==
    /\ lpc[i] = "counted"
    /\ \E c \in (IF TrackFcalls THEN BOOLEAN ELSE {FALSE}) :
         LET now == called[i] \/ c
         IN  /\ called' = [called EXCEPT ![i] = now]
             /\ IF Skip(loc[i].ratio, now)
                THEN NextBuffer(i)
                ELSE lpc' = [lpc EXCEPT ![i] = "totalled"] /\ UNCHANGED loc
    /\ UNCHANGED <<peakLen, totalLen, buffers, peakVars, cpc, periods>>

\* The receiver sleeps when the maximum it knows of is far enough above its ratio.
Decide(i, max, owner) ==
    IF Delays(loc[i].ratio, max)
    THEN /\ lpc' = [lpc EXCEPT ![i] = "sleep"]
         /\ loc' = [loc EXCEPT ![i] =
              [ratio |-> @.ratio, max |-> max, owner |-> owner]]
    ELSE NextBuffer(i)

\* Mutant of Raise: the maximum is not compared again under the lock.
RaiseUnchecked(i) ==
    /\ lpc[i] = "totalled"
    /\ Higher(loc[i].ratio, loc[i].max)
    /\ cpc # "log"
    /\ maxRatio' = loc[i].ratio
    /\ maxOwner' = i
    /\ Decide(i, maxRatio', maxOwner')
    /\ UNCHANGED <<peakLen, totalLen, called, nBuffers, nWork, lastWork,
                   unit, busy, best, buffers, cpc, periods>>

\* Mutant of Raise: the snapshot of the owner is not taken again.
RaiseOldOwner(i) ==
    /\ lpc[i] = "totalled"
    /\ Higher(loc[i].ratio, loc[i].max)
    /\ cpc # "log"
    /\ LET higher == Higher(loc[i].ratio, maxRatio)
       IN  /\ maxRatio' = IF higher THEN loc[i].ratio ELSE maxRatio
           /\ maxOwner' = IF higher THEN i ELSE maxOwner
    /\ Decide(i, maxRatio', loc[i].owner)
    /\ UNCHANGED <<peakLen, totalLen, called, nBuffers, nWork, lastWork,
                   unit, busy, best, buffers, cpc, periods>>

\* The ratio is above the snapshot: take peak_lock, compare again, and take the
\* snapshots again.
Raise(i) ==
    /\ lpc[i] = "totalled"
    /\ Higher(loc[i].ratio, loc[i].max)
    /\ cpc # "log"
    /\ LET higher == Higher(loc[i].ratio, maxRatio)
       IN  /\ maxRatio' = IF higher THEN loc[i].ratio ELSE maxRatio
           /\ maxOwner' = IF higher THEN i ELSE maxOwner
    /\ Decide(i, maxRatio', maxOwner')
    /\ UNCHANGED <<peakLen, totalLen, called, nBuffers, nWork, lastWork,
                   unit, busy, best, buffers, cpc, periods>>

\* It is not: the snapshots are used as they are.
Keep(i) ==
    /\ lpc[i] = "totalled"
    /\ ~Higher(loc[i].ratio, loc[i].max)
    /\ Decide(i, loc[i].max, loc[i].owner)
    /\ UNCHANGED <<peakLen, totalLen, called, peakVars, buffers, cpc, periods>>

\* WriteDummy returns; the injected time is counted under peak_lock.
Wake(i) ==
    /\ lpc[i] = "sleep"
    /\ cpc # "log"
    /\ NextBuffer(i)
    /\ UNCHANGED <<peakLen, totalLen, called, buffers, peakVars, cpc, periods>>

-----------------------------------------------------------------------------
(* ControlThread. *)

\* n_work == last_work, which NaN never is.
Idle(i) == nWork[i] # NaN /\ nWork[i] = lastWork[i]

\* Receivers whose ratio the loop considers, and the first among the highest.
Eligible == {i \in 1..peakLen :
    ~Idle(i) /\ ~Skip(RatioOf(i), called[i]) /\ Higher(RatioOf(i), Zero)}
Top == {i \in Eligible : \A j \in Eligible :
          ~Higher(RatioOf(j), RatioOf(i)) /\ (j < i => Higher(RatioOf(i), RatioOf(j)))}

\* The counters of an idle receiver are reset; all others are scaled by 0.25.
Aged(i) == IF Idle(i) THEN 0 ELSE nWork[i]
Decay == unit' = 4 * unit

\* Mutant of FindMax: the owner is set after the loop, to the loop variable.
FindMaxAfter ==
    /\ maxRatio' = IF Top = {} THEN Zero ELSE RatioOf(CHOOSE i \in Top : TRUE)
    /\ maxOwner' = IF Top = {} THEN maxOwner ELSE peakLen + 1

\* The new maximum is found; its owner stays when no receiver counts.
FindMax ==
    /\ maxRatio' = IF Top = {} THEN Zero ELSE RatioOf(CHOOSE i \in Top : TRUE)
    /\ maxOwner' = IF Top = {} THEN maxOwner ELSE CHOOSE i \in Top : TRUE

\* Mutant of ControlScan: last_work is the value before the decay.
ControlScanEarly ==
    /\ cpc = "sleep"
    /\ periods < MaxPeriods
    /\ FindMax
    /\ nBuffers' = [i \in Receivers |-> IF Idle(i) THEN 0 ELSE nBuffers[i]]
    /\ nWork' = [i \in Receivers |-> Aged(i)]
    /\ lastWork' = [i \in Receivers |->
                     IF nWork[i] \in {NaN, Inf} THEN nWork[i] ELSE 4 * nWork[i]]
    /\ Decay
    /\ busy' = {}
    /\ cpc' = "log"
    /\ UNCHANGED <<peakLen, totalLen, called, recvVars, best, periods>>

\* After the sleep: peak_lock is taken and all counters are aged, those of a
\* receiver that did nothing in the period set to 0.
ControlScan ==
    /\ cpc = "sleep"
    /\ periods < MaxPeriods
    /\ FindMax
    /\ nBuffers' = [i \in Receivers |-> IF Idle(i) THEN 0 ELSE nBuffers[i]]
    /\ nWork' = [i \in Receivers |-> Aged(i)]
    /\ lastWork' = [i \in Receivers |-> Aged(i)]
    /\ Decay
    /\ busy' = {}
    /\ cpc' = "log"
    /\ UNCHANGED <<peakLen, totalLen, called, recvVars, best, periods>>

\* Still under peak_lock: the log of all entries, wait times of total_lock's
\* vectors included.  Then the lock is released and the kernel knob written.
ControlLog ==
    /\ cpc = "log"
    /\ cpc' = "sleep"
    /\ periods' = periods + 1
    /\ UNCHANGED <<peakLen, totalLen, called, recvVars, peakVars>>

-----------------------------------------------------------------------------
ReceiverStep(i) ==
    \/ Alone(i) \/ Count(i) \/ Totals(i) \/ Raise(i) \/ Keep(i) \/ Wake(i)

Next ==
    \/ PushPeak \/ PushTotal \/ Spawn
    \/ \E i \in Receivers : ReceiverStep(i)
    \/ ControlScan \/ ControlLog

Spec == Init /\ [][Next]_vars

-----------------------------------------------------------------------------
(* Properties. *)

RatioType == Nat \X (Nat \cup {NaN, Inf})

\* Type invariant.
TypeOK ==
    /\ peakLen \in 0..N
    /\ totalLen \in 0..N
    /\ lpc \in [Receivers -> ReceiverPC]
    /\ nBuffers \in [Receivers -> Nat]
    /\ nWork \in [Receivers -> Nat \cup {NaN, Inf}]
    /\ lastWork \in [Receivers -> Nat \cup {NaN, Inf}]
    /\ called \in [Receivers -> BOOLEAN]
    /\ loc \in [Receivers ->
                 [ratio : RatioType, max : RatioType, owner : 0..N]]
    /\ maxRatio \in RatioType
    /\ maxOwner \in 0..N
    /\ cpc \in {"sleep", "log"}
    /\ periods \in Nat
    /\ unit \in Nat \ {0}
    /\ buffers \in [Receivers -> Nat]
    /\ busy \subseteq Receivers
    /\ best \in [Receivers -> RatioType]

\* Only the control thread lowers the maximum: however many receivers found the
\* snapshot too low at once, the one with the highest ratio stays the owner.
MaxNeverDrops == [][Higher(maxRatio, maxRatio') => cpc' = "log"]_vars

\* A delay is always measured against a receiver that exists, has written
\* buffers (WriteDummy divides by its latency), and really had that ratio: the
\* maximum and its owner belong together through races, resets and decay.
DelayJustified ==
    \A i \in Receivers : lpc[i] = "sleep" =>
        /\ loc[i].owner \in 1..totalLen
        /\ buffers[loc[i].owner] > 0
        /\ ~Higher(loc[i].max, best[loc[i].owner])

\* A receiver that counted no buffer for a whole period starts from 0 again,
\* unless its work is NaN: NaN differs from last_work, and a single such buffer
\* takes the receiver out of the reset, and out of balancing, for good.
IdleReset ==
    [][cpc = "sleep" /\ cpc' = "log" =>
         \A i \in Receivers : i \notin busy =>
             nWork'[i] = IF nWork[i] = NaN THEN NaN ELSE 0]_vars
=============================================================================
