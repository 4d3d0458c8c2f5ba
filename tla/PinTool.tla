------------------------------- MODULE PinTool -------------------------------
(***************************************************************************)
(* What the threads of a traced process share inside the Pin tool: the     *)
(* start and the limit of a trace (CheckSkip, EndTrace), the overall       *)
(* statistics, and each thread's pool of buffers, from ThreadStart to the  *)
(* Dump in Fini (src/src/pintool).                                         *)
(*                                                                         *)
(* The hand-off to the consumer is one step here; it ends because module   *)
(* Handoff says that a blocked thread is released.                         *)
(*                                                                         *)
(* Data.  A full buffer holds one unit of memory accesses.  Counts of      *)
(* accesses saturate at Cap, at or above the limit, so that a trace may    *)
(* have any number of buffers: the code only compares them with the limit. *)
(* A register is 0 while the code does not use it.                         *)
(* A clock is what the number in _progTime stands for.                     *)
(***************************************************************************)
EXTENDS Integers, FiniteSets

CONSTANTS
    Threads,    \* application threads under Pin
    Limit,      \* profileLimit, in units; KnobProfile is positive
    Cap,        \* bound: where counts of accesses saturate
    AppBuffers  \* APP_BUFFERS, the size of a thread's pool

ASSUME PinToolAssumption ==
    /\ Limit \in Nat \ {0}
    /\ Cap \in Nat /\ Limit <= Cap
    /\ AppBuffers \in Nat \ {0}
    /\ IsFiniteSet(Threads)
    /\ "free" \notin Threads /\ "limited" \notin Threads

VARIABLES
    pc,         \* where each application thread is
    num,        \* numElements of the callback in progress
    exiting,    \* is the callback in progress the flush at thread exit
    loaded,     \* profiledAccesses as the thread read it for its +=
    elements,   \* _numElementsProcessed of the thread's statistics
    made,       \* history: accesses passed to the callbacks
    profiledAccesses, trace_started,
    trace_mutex,     \* who holds it: Free, a thread, or Limited for good
    progTime,   \* _progTime: "start" (a time of day), "elapsed" or "garbage"
    timeSet,    \* _timeSet
    endTrace,   \* where the internal thread is that runs EndTrace
    endTraces,  \* history: how many of them were spawned
    phase,      \* the process: "up", "prepare", "preparing", "fini", "dumped"
    appExit,    \* history: the application asked for the exit itself
    pool,       \* buffers on the thread's free list
    bufferSem,  \* _bufferSem of that list
    owned,      \* trace buffers Pin has allocated for the thread
    statMutex,  \* who holds the mutex of the overall statistics
    sum,        \* _numElementsProcessed as the thread read it for its +=
    total       \* _numElementsProcessed of the overall statistics

limitVars == <<profiledAccesses, trace_started, trace_mutex, endTrace, endTraces>>
clockVars == <<progTime, timeSet>>
endVars == <<progTime, timeSet, phase, appExit>>
poolVars == <<pool, bufferSem, owned>>
statVars == <<statMutex, sum, total>>
threadVars == <<num, exiting, loaded, elements, made>>
vars == <<pc, num, exiting, loaded, elements, made, profiledAccesses,
          trace_started, trace_mutex, progTime, timeSet, endTrace, endTraces,
          phase, appExit, pool, bufferSem, owned, statMutex, sum, total>>

Free == "free"          \* no thread holds the mutex
Limited == "limited"    \* locked by the first thread past the limit, for good

\* "new": not started; "run": application code; "check" to "store": CheckSkip;
\* "handoff": EnqueueFullAndGetNextToFill; "fini": AllBuffersProcessed; "lock" to
\* "add": AccumulateAppThreadStatistics.
ThreadPC == {"new", "run", "check", "trystart", "starting", "limit",
             "trylimit", "load", "store", "handoff", "fini", "lock", "read",
             "add", "dead"}

\* a + b, saturated.
Plus(a, b) == IF a + b > Cap THEN Cap ELSE a + b

Goto(t, to) == pc' = [pc EXCEPT ![t] = to]

Init ==
    /\ pc = [t \in Threads |-> "new"]
    /\ num = [t \in Threads |-> 0] /\ exiting = [t \in Threads |-> FALSE]
    /\ loaded = [t \in Threads |-> 0]
    /\ elements = [t \in Threads |-> 0] /\ made = 0
    /\ profiledAccesses = 0 /\ trace_started = FALSE /\ trace_mutex = Free
    /\ progTime = "start" /\ timeSet = FALSE
    /\ endTrace = "none" /\ endTraces = 0
    /\ phase = "up" /\ appExit = FALSE
    /\ pool = [t \in Threads |-> 0] /\ bufferSem = [t \in Threads |-> FALSE]
    /\ owned = [t \in Threads |-> 0]
    /\ statMutex = Free /\ sum = [t \in Threads |-> 0] /\ total = 0

-----------------------------------------------------------------------------
(* ThreadStart and the pool, a buffer list with a semaphore per thread. *)

\* n calls of PutBufferOnList by the owner of the list.
PutBufferOnList(t, n) ==
    /\ pool' = [pool EXCEPT ![t] = @ + n]
    /\ bufferSem' = [bufferSem EXCEPT ![t] = TRUE]

\* GetBufferFromList: wait for the semaphore, take a buffer and clear the
\* semaphore with the last one.
GetBufferFromList(t) ==
    /\ bufferSem[t]
    /\ pool' = [pool EXCEPT ![t] = @ - 1]
    /\ bufferSem' = [bufferSem EXCEPT ![t] = pool[t] > 1]

\* AllocateBuffers, after Pin gave the thread the first of its buffers.
AllocateBuffers(t) ==
    /\ PutBufferOnList(t, AppBuffers)
    /\ owned' = [owned EXCEPT ![t] = AppBuffers + 1]

\* The new representative gets the current buffer and its pool.
ThreadStart(t) ==
    /\ pc[t] = "new"
    /\ phase \notin {"fini", "dumped"}
    /\ Goto(t, "run")
    /\ AllocateBuffers(t)
    /\ UNCHANGED <<threadVars, limitVars, endVars, statVars>>

-----------------------------------------------------------------------------
(* BufferFull_PC: CheckSkip, then the hand-off. *)

Callback(t, n) ==
    /\ pc[t] = "run"
    /\ Goto(t, "check")
    /\ num' = [num EXCEPT ![t] = n]
    /\ made' = Plus(made, n)
    /\ UNCHANGED <<loaded, elements, limitVars, endVars, poolVars, statVars>>

\* The buffer is full.  A thread that Pin has not stopped runs on.
BufferFull(t) ==
    /\ phase \notin {"fini", "dumped"}
    /\ Callback(t, 1)
    /\ UNCHANGED exiting

\* External: the thread ends, or Pin stops it because the process exits, and
\* what is in its buffer is flushed before ThreadFini.
ExitFlush(t) ==
    /\ \E n \in 0..1 : Callback(t, n)
    /\ exiting' = [exiting EXCEPT ![t] = TRUE]

\* if (!trace_started)
CheckStarted(t) ==
    /\ pc[t] = "check"
    /\ Goto(t, IF trace_started THEN "limit" ELSE "trystart")
    /\ UNCHANGED <<threadVars, limitVars, endVars, poolVars, statVars>>

\* PIN_MutexTryLock for the start of the trace.
TryStart(t) ==
    /\ pc[t] = "trystart"
    /\ \/ /\ trace_mutex = Free
          /\ trace_mutex' = t
          /\ Goto(t, "starting")
       \/ /\ trace_mutex # Free
          /\ Goto(t, "limit")
          /\ UNCHANGED trace_mutex
    /\ UNCHANGED <<threadVars, profiledAccesses, trace_started, endTrace,
                   endTraces, endVars, poolVars, statVars>>

\* OVERALL_STATISTICS::StartTime
StartTime == progTime' = "start"

\* Mutant of StartTrace: PIN_MutexUnlock is missing.
StartTraceLocked(t) ==
    /\ pc[t] = "starting"
    /\ StartTime
    /\ trace_started' = TRUE
    /\ Goto(t, "limit")
    /\ UNCHANGED <<threadVars, profiledAccesses, trace_mutex, endTrace,
                   endTraces, timeSet, phase, appExit, poolVars, statVars>>

\* StartTime, trace_started = TRUE, PIN_MutexUnlock.
StartTrace(t) ==
    /\ pc[t] = "starting"
    /\ StartTime
    /\ trace_started' = TRUE
    /\ trace_mutex' = Free
    /\ Goto(t, "limit")
    /\ UNCHANGED <<threadVars, profiledAccesses, endTrace, endTraces, timeSet,
                   phase, appExit, poolVars, statVars>>

\* Mutant of CheckLimit: a full buffer is counted before it is there.
CheckLimitAhead(t) ==
    /\ pc[t] = "limit"
    /\ Goto(t, IF profiledAccesses + 1 >= Limit THEN "trylimit" ELSE "load")
    /\ UNCHANGED <<threadVars, limitVars, endVars, poolVars, statVars>>

\* if (profiledAccesses >= profileLimit)
CheckLimit(t) ==
    /\ pc[t] = "limit"
    /\ Goto(t, IF profiledAccesses >= Limit THEN "trylimit" ELSE "load")
    /\ UNCHANGED <<threadVars, limitVars, endVars, poolVars, statVars>>

\* Mutant of TryLimit: the mutex is unlocked again.
TryLimitUnlocks(t) ==
    /\ pc[t] = "trylimit"
    /\ \/ /\ trace_mutex = Free
          /\ endTraces < 2
          /\ endTraces' = endTraces + 1
          /\ endTrace' = "check"
       \/ /\ trace_mutex # Free
          /\ UNCHANGED <<endTrace, endTraces>>
    /\ Goto(t, "load")
    /\ UNCHANGED <<threadVars, profiledAccesses, trace_started, trace_mutex,
                   endVars, poolVars, statVars>>

\* PIN_MutexTryLock for the end of the trace: the winner spawns EndTrace and
\* never unlocks.
TryLimit(t) ==
    /\ pc[t] = "trylimit"
    /\ \/ /\ trace_mutex = Free
          /\ trace_mutex' = Limited
          /\ endTraces' = endTraces + 1
          /\ endTrace' = "check"
       \/ /\ trace_mutex # Free
          /\ UNCHANGED <<trace_mutex, endTrace, endTraces>>
    /\ Goto(t, "load")
    /\ UNCHANGED <<threadVars, profiledAccesses, trace_started, endVars,
                   poolVars, statVars>>

\* profiledAccesses += numElements is a load and a store that nothing orders.
LoadAccesses(t) ==
    /\ pc[t] = "load"
    /\ loaded' = [loaded EXCEPT ![t] = profiledAccesses]
    /\ Goto(t, "store")
    /\ UNCHANGED <<num, exiting, elements, made, limitVars, endVars, poolVars,
                   statVars>>

StoreAccesses(t) ==
    /\ pc[t] = "store"
    /\ profiledAccesses' = Plus(loaded[t], num[t])
    /\ loaded' = [loaded EXCEPT ![t] = 0]
    /\ Goto(t, "handoff")
    /\ UNCHANGED <<num, exiting, elements, made, trace_started, trace_mutex,
                   endTrace, endTraces, endVars, poolVars, statVars>>

\* EnqueueFullAndGetNextToFill: statistics, then CopyToSharedMemory returns and
\* the same buffer is current again.
EnqueueFullAndGetNextToFill(t) ==
    /\ pc[t] = "handoff"
    /\ elements' = [elements EXCEPT ![t] = Plus(@, num[t])]
    /\ num' = [num EXCEPT ![t] = 0]
    /\ Goto(t, IF exiting[t] THEN "fini" ELSE "run")
    /\ UNCHANGED <<exiting, loaded, made, limitVars, endVars, poolVars,
                   statVars>>

-----------------------------------------------------------------------------
(* ThreadFini. *)

\* Mutant of ReclaimBuffer: GetBufferFromList clears the semaphore each time,
\* and waits for it with a time-out.
ReclaimBufferClears(t) ==
    /\ pc[t] = "fini"
    /\ owned[t] > 1
    /\ \/ /\ bufferSem[t]
          /\ pool' = [pool EXCEPT ![t] = @ - 1]
          /\ bufferSem' = [bufferSem EXCEPT ![t] = FALSE]
          /\ owned' = [owned EXCEPT ![t] = @ - 1]
       \/ /\ ~bufferSem[t]
          /\ UNCHANGED poolVars
    /\ UNCHANGED <<pc, threadVars, limitVars, endVars, statVars>>

\* AllBuffersProcessed: the buffers of the pool are deallocated one by one.
ReclaimBuffer(t) ==
    /\ pc[t] = "fini"
    /\ owned[t] > 1
    /\ GetBufferFromList(t)
    /\ owned' = [owned EXCEPT ![t] = @ - 1]
    /\ UNCHANGED <<pc, threadVars, limitVars, endVars, statVars>>

\* AllBuffersProcessed: the current buffer goes last.
ReclaimCurrent(t) ==
    /\ pc[t] = "fini"
    /\ owned[t] = 1
    /\ owned' = [owned EXCEPT ![t] = 0]
    /\ Goto(t, "lock")
    /\ UNCHANGED <<pool, bufferSem, threadVars, limitVars, endVars, statVars>>

\* Mutant of AccumulateLock: the statistics are added without the mutex.
AccumulateUnlocked(t) ==
    /\ pc[t] = "lock"
    /\ statMutex' = t
    /\ Goto(t, "read")
    /\ UNCHANGED <<sum, total, threadVars, limitVars, endVars, poolVars>>

\* AccumulateAppThreadStatistics: PIN_MutexLock, the +=, PIN_MutexUnlock.  Then
\* the representative is deleted.
AccumulateLock(t) ==
    /\ pc[t] = "lock"
    /\ statMutex = Free
    /\ statMutex' = t
    /\ Goto(t, "read")
    /\ UNCHANGED <<sum, total, threadVars, limitVars, endVars, poolVars>>

AccumulateRead(t) ==
    /\ pc[t] = "read"
    /\ sum' = [sum EXCEPT ![t] = total]
    /\ Goto(t, "add")
    /\ UNCHANGED <<statMutex, total, threadVars, limitVars, endVars, poolVars>>

AccumulateAdd(t) ==
    /\ pc[t] = "add"
    /\ total' = Plus(sum[t], elements[t])
    /\ sum' = [sum EXCEPT ![t] = 0]
    /\ elements' = [elements EXCEPT ![t] = 0]
    /\ statMutex' = Free
    /\ Goto(t, "dead")
    /\ UNCHANGED <<num, exiting, loaded, made, limitVars, endVars, poolVars>>

-----------------------------------------------------------------------------
(* The end of the process. *)

\* OVERALL_STATISTICS::EndTime past its test: the time of day minus _progTime.
EndTime ==
    /\ progTime' = IF progTime = "start" THEN "elapsed" ELSE "garbage"
    /\ timeSet' = TRUE

\* The internal thread runs EndTrace: EndTime tests _timeSet ...
EndTraceCheck ==
    /\ endTrace = "check"
    /\ phase # "dumped"
    /\ endTrace' = IF timeSet THEN "exit" ELSE "set"
    /\ UNCHANGED <<pc, threadVars, profiledAccesses, trace_started,
                   trace_mutex, endTraces, endVars, poolVars, statVars>>

\* ... and sets _progTime and _timeSet ...
EndTraceSet ==
    /\ endTrace = "set"
    /\ phase # "dumped"
    /\ EndTime
    /\ endTrace' = "exit"
    /\ UNCHANGED <<pc, threadVars, profiledAccesses, trace_started,
                   trace_mutex, endTraces, phase, appExit, poolVars, statVars>>

\* ... and PIN_ExitApplication, which does nothing to a process that exits.
ExitApplication ==
    /\ endTrace = "exit"
    /\ phase # "dumped"
    /\ phase' = IF phase = "up" THEN "prepare" ELSE phase
    /\ endTrace' = "none"
    /\ UNCHANGED <<pc, threadVars, profiledAccesses, trace_started,
                   trace_mutex, endTraces, clockVars, appExit, poolVars,
                   statVars>>

\* External: the application calls exit, or its main function returns.
AppExit ==
    /\ phase = "up"
    /\ phase' = "prepare"
    /\ appExit' = TRUE
    /\ UNCHANGED <<pc, threadVars, limitVars, clockVars, poolVars, statVars>>

\* Mutant of PrepareCheck: EndTime does not look at _timeSet.
PrepareUnchecked ==
    /\ phase = "prepare"
    /\ phase' = "preparing"
    /\ UNCHANGED <<pc, threadVars, limitVars, clockVars, appExit, poolVars,
                   statVars>>

\* Pin calls PrepareForFini with the threads still running: EndTime again.
PrepareCheck ==
    /\ phase = "prepare"
    /\ phase' = IF timeSet THEN "fini" ELSE "preparing"
    /\ UNCHANGED <<pc, threadVars, limitVars, clockVars, appExit, poolVars,
                   statVars>>

PrepareSet ==
    /\ phase = "preparing"
    /\ EndTime
    /\ phase' = "fini"
    /\ UNCHANGED <<pc, threadVars, limitVars, appExit, poolVars, statVars>>

\* Fini, after the last ThreadFini: Dump of the overall statistics.
Dump ==
    /\ phase = "fini"
    /\ \A t \in Threads : pc[t] \in {"new", "dead"}
    /\ phase' = "dumped"
    /\ UNCHANGED <<pc, threadVars, limitVars, clockVars, appExit, poolVars,
                   statVars>>

\* The tool has detached: nothing is left to do.
Terminated ==
    /\ phase = "dumped"
    /\ UNCHANGED vars

-----------------------------------------------------------------------------
\* Steps inside the callbacks of the tool.
ToolStep(t) ==
    \/ CheckStarted(t) \/ TryStart(t) \/ StartTrace(t)
    \/ CheckLimit(t) \/ TryLimit(t) \/ LoadAccesses(t) \/ StoreAccesses(t)
    \/ EnqueueFullAndGetNextToFill(t)
    \/ ReclaimBuffer(t) \/ ReclaimCurrent(t)
    \/ AccumulateLock(t) \/ AccumulateRead(t) \/ AccumulateAdd(t)

EndTrace == EndTraceCheck \/ EndTraceSet \/ ExitApplication
Fini == PrepareCheck \/ PrepareSet \/ Dump

Next ==
    \/ \E t \in Threads :
         ThreadStart(t) \/ BufferFull(t) \/ ExitFlush(t) \/ ToolStep(t)
    \/ EndTrace \/ AppExit \/ Fini \/ Terminated

Spec == Init /\ [][Next]_vars

\* Threads inside a callback are scheduled, the internal thread too, and Pin
\* stops the threads of a process that exits.  Nothing makes the application
\* start a thread, fill a buffer or exit.
Fairness ==
    /\ \A t \in Threads :
         /\ WF_vars(ToolStep(t))
         /\ WF_vars(phase = "fini" /\ ExitFlush(t))
    /\ WF_vars(EndTrace) /\ WF_vars(Fini)

FairSpec == Spec /\ Fairness

-----------------------------------------------------------------------------
(* Properties. *)

\* Type invariant: the values the variables range over.
TypeOK ==
    /\ pc \in [Threads -> ThreadPC]
    /\ num \in [Threads -> 0..1]
    /\ exiting \in [Threads -> BOOLEAN]
    /\ loaded \in [Threads -> 0..Cap]
    /\ elements \in [Threads -> 0..Cap]
    /\ made \in 0..Cap
    /\ profiledAccesses \in 0..Cap
    /\ trace_started \in BOOLEAN
    /\ trace_mutex \in Threads \union {Free, Limited}
    /\ progTime \in {"start", "elapsed", "garbage"}
    /\ timeSet \in BOOLEAN
    /\ endTrace \in {"none", "check", "set", "exit"}
    /\ endTraces \in 0..1
    /\ phase \in {"up", "prepare", "preparing", "fini", "dumped"}
    /\ appExit \in BOOLEAN
    /\ pool \in [Threads -> 0..AppBuffers]
    /\ bufferSem \in [Threads -> BOOLEAN]
    /\ owned \in [Threads -> 0..(AppBuffers + 1)]
    /\ statMutex \in Threads \union {Free}
    /\ sum \in [Threads -> 0..Cap]
    /\ total \in 0..Cap

\* "Profiling at least ... memory accesses": when the limit ended the trace, the
\* accesses the statistics report have reached it, whatever increments of
\* profiledAccesses the threads lost to each other.
AtLeastLimit == phase = "dumped" /\ endTraces > 0 => total >= Limit

\* A trace that the limit ends has a sane clock: no thread late in CheckSkip
\* restarts it, and EndTime, which both EndTrace and Pin call, counts once.
LimitClock ==
    phase = "dumped" /\ ~appExit => progTime = "elapsed"

\* Dump reports every access that was passed to a callback, that of threads
\* that ended long before and of those that Pin stopped, and each buffer of
\* every pool was given back to Pin.
DumpComplete ==
    phase = "dumped" =>
        /\ total = made
        /\ \A t \in Threads : owned[t] = 0 /\ pool[t] = 0

\* A trace with a limit does not go on for ever: callbacks come to an end even
\* though the counter may go back and either try-lock may fail.
LimitEnds == <>[][~ \E t \in Threads : BufferFull(t)]_vars

\* A process that exits gets through the reclaim of its pools, the statistics
\* and Fini.
ExitCompletes == phase # "up" ~> phase = "dumped"

=============================================================================
