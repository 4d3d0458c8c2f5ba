--------------------------- MODULE PinToolProofs -----------------------------
(***************************************************************************)
(* Proofs for PinTool: for any threads, limit and size of the pools.       *)
(***************************************************************************)
EXTENDS PinTool, TLAPS

-----------------------------------------------------------------------------
(* The inductive invariant behind TypeOK and LimitClock, in parts. *)

\* A thread has the buffers of its pool and the current one, and the semaphore
\* says whether the pool has any.
Pools ==
    \A t \in Threads :
        /\ bufferSem[t] <=> pool[t] > 0
        /\ pc[t] \in {"new", "lock", "read", "add", "dead"} => owned[t] = 0 /\ pool[t] = 0
        /\ pc[t] \notin {"new", "lock", "read", "add", "dead"} => owned[t] = pool[t] + 1

\* Who holds trace_mutex, and that only the one that keeps it spawns EndTrace.
Mutex ==
    /\ \A t \in Threads : pc[t] = "starting" => trace_mutex = t
    /\ endTraces = IF trace_mutex = Limited THEN 1 ELSE 0
    /\ endTrace # "none" => trace_mutex = Limited

\* The clock of a trace that the application does not end: it runs until the
\* limit, EndTrace stops it before the process begins to exit, and from then on
\* it is not touched.
Clock ==
    ~appExit =>
        /\ progTime = IF timeSet THEN "elapsed" ELSE "start"
        /\ timeSet => trace_mutex = Limited
        /\ endTrace \in {"check", "set"} => ~timeSet
        /\ endTrace = "exit" => timeSet
        /\ phase # "up" => timeSet /\ endTrace = "none"
        /\ phase = "up" /\ trace_mutex = Limited => endTrace # "none"
        /\ phase # "preparing"

IndInv == TypeOK /\ Pools /\ Mutex /\ Clock

\* The marks of the mutexes are no threads.
LEMMA Marks ==
    /\ Free \notin Threads /\ Limited \notin Threads /\ Free # Limited
    /\ Cap \in Nat /\ Limit \in Nat /\ Limit <= Cap /\ AppBuffers \in Nat /\ AppBuffers > 0
BY PinToolAssumption DEF Free, Limited

LEMMA PlusProps ==
    ASSUME NEW a \in 0..Cap, NEW b \in Nat
    PROVE  Plus(a, b) \in 0..Cap
BY Marks DEF Plus

LEMMA InitInv == Init => IndInv
<1> SUFFICES ASSUME Init PROVE IndInv
  OBVIOUS
<1>1. TypeOK
  <2>1. trace_started \in BOOLEAN /\ timeSet \in BOOLEAN /\ appExit \in BOOLEAN
    BY Zenon DEF Init
  <2>2. exiting \in [Threads -> BOOLEAN] /\ bufferSem \in [Threads -> BOOLEAN]
    BY Zenon DEF Init
  <2> QED BY <2>1, <2>2, Marks DEF Init, TypeOK, ThreadPC
<1>2. Pools /\ Mutex /\ Clock
  BY Marks DEF Init, Pools, Mutex, Clock
<1> QED BY <1>1, <1>2 DEF IndInv

\* Goto as a fact about each thread.
LEMMA GotoProps ==
    ASSUME TypeOK, NEW t \in Threads, NEW to \in ThreadPC, Goto(t, to)
    PROVE  /\ pc' \in [Threads -> ThreadPC]
           /\ pc'[t] = to
           /\ \A u \in Threads : u # t => pc'[u] = pc[u]
BY DEF TypeOK, Goto

-----------------------------------------------------------------------------
(* One lemma for each kind of step. *)

\* A step that leaves the pools, the mutex and the clock alone and moves one
\* thread from one place to another without entering or leaving the pool.
LEMMA QuietThread ==
    ASSUME IndInv, NEW t \in Threads, NEW to \in ThreadPC, Goto(t, to), TypeOK',
           UNCHANGED <<trace_mutex, endTrace, endTraces, endVars, poolVars>>,
           to # "starting",
           pc[t] \in {"new", "lock", "read", "add", "dead"} <=>
             to \in {"new", "lock", "read", "add", "dead"}
    PROVE  IndInv'
<1> USE DEF IndInv
<1>1. pc'[t] = to /\ \A u \in Threads : u # t => pc'[u] = pc[u]
  BY GotoProps
<1>2. UNCHANGED <<trace_mutex, endTrace, endTraces, progTime, timeSet, phase, appExit,
                  pool, bufferSem, owned>>
  BY DEF clockVars, endVars, poolVars
<1>3. Pools'
  BY <1>1, <1>2 DEF Pools
<1>4. Mutex'
  BY <1>1, <1>2 DEF Mutex
<1>5. Clock'
  BY <1>2 DEF Clock
<1> QED BY <1>3, <1>4, <1>5

\* Steps inside CheckSkip that leave the mutex alone, the hand-off and the
\* statistics.
LEMMA CallbackStep ==
    ASSUME IndInv, NEW t \in Threads,
           \/ BufferFull(t) \/ ExitFlush(t) \/ CheckStarted(t) \/ CheckLimit(t)
           \/ LoadAccesses(t) \/ StoreAccesses(t) \/ EnqueueFullAndGetNextToFill(t)
           \/ AccumulateLock(t) \/ AccumulateRead(t) \/ AccumulateAdd(t)
    PROVE  IndInv'
<1> USE Marks DEF IndInv
<1>1. CASE BufferFull(t) \/ ExitFlush(t)
  <2>1. PICK n \in 0..1 : Callback(t, n)
    BY <1>1 DEF BufferFull, ExitFlush
  <2>2. exiting' \in [Threads -> BOOLEAN]
    <3>1. CASE BufferFull(t)  BY <3>1, Zenon DEF BufferFull, TypeOK
    <3>2. CASE ExitFlush(t)   BY <3>2 DEF ExitFlush, TypeOK
    <3> QED BY <1>1, <3>1, <3>2
  <2>3. Plus(made, n) \in 0..Cap
    <3>1. made \in 0..Cap /\ n \in Nat
      BY DEF TypeOK
    <3> QED BY <3>1, PlusProps
  <2>4. "check" \in ThreadPC /\ Goto(t, "check")
    BY <2>1 DEF ThreadPC, Callback
  <2>5. pc' \in [Threads -> ThreadPC]
    BY <2>4, GotoProps
  <2>a. num' \in [Threads -> 0..1] /\ made' \in 0..Cap
    BY <2>1, <2>3 DEF Callback, TypeOK
  <2>b. UNCHANGED <<loaded, elements, profiledAccesses, trace_started, trace_mutex, endTrace,
                    endTraces, progTime, timeSet, phase, appExit, pool, bufferSem, owned,
                    statMutex, sum, total>>
    BY <2>1 DEF Callback, limitVars, clockVars, endVars, poolVars, statVars
  <2>6. TypeOK'
    BY <2>2, <2>5, <2>a, <2>b DEF TypeOK
  <2> QED BY <2>1, <2>4, <2>6, QuietThread DEF Callback, limitVars
<1>2. CASE CheckStarted(t)
  <2>1. PICK to \in {"limit", "trystart"} : Goto(t, to)
    BY <1>2 DEF CheckStarted
  <2>2. to \in ThreadPC
    BY DEF ThreadPC
  <2>3. TypeOK'
    BY <1>2, <2>1, <2>2, GotoProps
       DEF CheckStarted, TypeOK, threadVars, limitVars, clockVars, endVars, poolVars, statVars
  <2> QED BY <1>2, <2>1, <2>2, <2>3, QuietThread DEF CheckStarted, limitVars
<1>3. CASE CheckLimit(t)
  <2>1. PICK to \in {"trylimit", "load"} : Goto(t, to)
    BY <1>3 DEF CheckLimit
  <2>2. to \in ThreadPC
    BY DEF ThreadPC
  <2>3. TypeOK'
    BY <1>3, <2>1, <2>2, GotoProps
       DEF CheckLimit, TypeOK, threadVars, limitVars, clockVars, endVars, poolVars, statVars
  <2> QED BY <1>3, <2>1, <2>2, <2>3, QuietThread DEF CheckLimit, limitVars
<1>4. CASE LoadAccesses(t)
  <2>1. Goto(t, "store") /\ "store" \in ThreadPC
    BY <1>4 DEF LoadAccesses, ThreadPC
  <2>2. TypeOK'
    BY <1>4, <2>1, GotoProps
       DEF LoadAccesses, TypeOK, limitVars, clockVars, endVars, poolVars, statVars
  <2> QED BY <1>4, <2>1, <2>2, QuietThread DEF LoadAccesses, limitVars
<1>5. CASE StoreAccesses(t)
  <2>1. Goto(t, "handoff") /\ "handoff" \in ThreadPC
    BY <1>5 DEF StoreAccesses, ThreadPC
  <2>2. Plus(loaded[t], num[t]) \in 0..Cap
    <3>1. loaded[t] \in 0..Cap /\ num[t] \in Nat
      BY DEF TypeOK
    <3> QED BY <3>1, PlusProps
  <2>3. TypeOK'
    BY <1>5, <2>1, <2>2, GotoProps
       DEF StoreAccesses, TypeOK, clockVars, endVars, poolVars, statVars
  <2> QED BY <1>5, <2>1, <2>3, QuietThread DEF StoreAccesses
<1>6. CASE EnqueueFullAndGetNextToFill(t)
  <2>1. PICK to \in {"fini", "run"} : Goto(t, to)
    BY <1>6 DEF EnqueueFullAndGetNextToFill
  <2>2. to \in ThreadPC
    BY DEF ThreadPC
  <2>3. Plus(elements[t], num[t]) \in 0..Cap
    <3>1. elements[t] \in 0..Cap /\ num[t] \in Nat
      BY DEF TypeOK
    <3> QED BY <3>1, PlusProps
  <2>4. TypeOK'
    BY <1>6, <2>1, <2>2, <2>3, GotoProps
       DEF EnqueueFullAndGetNextToFill, TypeOK, limitVars, clockVars, endVars, poolVars, statVars
  <2> QED BY <1>6, <2>1, <2>2, <2>4, QuietThread DEF EnqueueFullAndGetNextToFill, limitVars
<1>7. CASE AccumulateLock(t)
  <2>1. Goto(t, "read") /\ "read" \in ThreadPC
    BY <1>7 DEF AccumulateLock, ThreadPC
  <2>2. TypeOK'
    BY <1>7, <2>1, GotoProps
       DEF AccumulateLock, TypeOK, threadVars, limitVars, clockVars, endVars, poolVars
  <2> QED BY <1>7, <2>1, <2>2, QuietThread DEF AccumulateLock, limitVars
<1>8. CASE AccumulateRead(t)
  <2>1. Goto(t, "add") /\ "add" \in ThreadPC
    BY <1>8 DEF AccumulateRead, ThreadPC
  <2>2. TypeOK'
    BY <1>8, <2>1, GotoProps
       DEF AccumulateRead, TypeOK, threadVars, limitVars, clockVars, endVars, poolVars
  <2> QED BY <1>8, <2>1, <2>2, QuietThread DEF AccumulateRead, limitVars
<1>9. CASE AccumulateAdd(t)
  <2>1. Goto(t, "dead") /\ "dead" \in ThreadPC
    BY <1>9 DEF AccumulateAdd, ThreadPC
  <2>2. Plus(sum[t], elements[t]) \in 0..Cap
    BY PlusProps DEF TypeOK
  <2>3. TypeOK'
    BY <1>9, <2>1, <2>2, GotoProps
       DEF AccumulateAdd, TypeOK, limitVars, clockVars, endVars, poolVars
  <2> QED BY <1>9, <2>1, <2>3, QuietThread DEF AccumulateAdd, limitVars
<1> QED BY <1>1, <1>2, <1>3, <1>4, <1>5, <1>6, <1>7, <1>8, <1>9

\* The two try-locks and the start of the trace.
LEMMA MutexStep ==
    ASSUME IndInv, NEW t \in Threads, TryStart(t) \/ StartTrace(t) \/ TryLimit(t)
    PROVE  IndInv'
<1> USE Marks DEF IndInv
<1>1. UNCHANGED <<num, exiting, loaded, elements, made, profiledAccesses, timeSet, phase,
                  appExit, pool, bufferSem, owned, statMutex, sum, total>>
  BY DEF TryStart, StartTrace, TryLimit, threadVars, clockVars, endVars, poolVars, statVars
<1>2. PICK to \in {"starting", "limit", "load"} : Goto(t, to)
  BY DEF TryStart, StartTrace, TryLimit
<1>3. /\ pc' \in [Threads -> ThreadPC] /\ pc'[t] = to
      /\ \A u \in Threads : u # t => pc'[u] = pc[u]
  BY <1>2, GotoProps DEF ThreadPC
<1>4. Pools'
  <2>1. pc[t] \in {"trystart", "starting", "trylimit"}
    BY DEF TryStart, StartTrace, TryLimit
  <2> QED BY <1>1, <1>3, <2>1 DEF Pools
<1>5. CASE TryStart(t)
  <2>1. UNCHANGED <<trace_started, endTrace, endTraces, progTime>>
    BY <1>5 DEF TryStart, clockVars, endVars
  <2>2. \/ trace_mutex = Free /\ trace_mutex' = t
        \/ trace_mutex' = trace_mutex /\ pc'[t] # "starting"
    BY <1>3, <1>5 DEF TryStart, Goto, TypeOK
  <2>3. TypeOK'
    BY <1>1, <1>3, <2>1, <2>2 DEF TypeOK
  <2>4. Mutex'
    BY <1>3, <2>1, <2>2 DEF Mutex
  <2>5. Clock'
    BY <1>1, <2>1, <2>2 DEF Clock, Mutex
  <2> QED BY <1>4, <2>3, <2>4, <2>5
<1>6. CASE StartTrace(t)
  <2>1. UNCHANGED <<endTrace, endTraces>> /\ progTime' = "start" /\ trace_mutex' = Free
        /\ pc[t] = "starting" /\ pc'[t] = "limit"
    BY <1>3, <1>6 DEF StartTrace, StartTime, Goto, TypeOK
  <2>2. trace_started' \in BOOLEAN
    BY <1>6, Zenon DEF StartTrace
  <2>3. trace_mutex = t /\ \A u \in Threads : u # t => pc[u] # "starting"
    BY <2>1 DEF Mutex
  <2>4. TypeOK'
    BY <1>1, <1>3, <2>1, <2>2 DEF TypeOK
  <2>5. Mutex'
    BY <1>3, <2>1, <2>3 DEF Mutex
  <2>6. Clock'
    BY <1>1, <2>1, <2>3 DEF Clock, Mutex
  <2> QED BY <1>4, <2>4, <2>5, <2>6
<1>7. CASE TryLimit(t)
  <2>1. UNCHANGED <<trace_started, progTime>> /\ pc'[t] = "load"
    BY <1>3, <1>7 DEF TryLimit, clockVars, endVars, Goto, TypeOK
  <2>2. CASE trace_mutex = Free
    <3>1. trace_mutex' = Limited /\ endTraces' = endTraces + 1 /\ endTrace' = "check"
      BY <1>7, <2>2 DEF TryLimit
    <3>2. TypeOK' /\ Mutex'
      BY <1>1, <1>3, <2>1, <2>2, <3>1 DEF TypeOK, Mutex
    <3>3. Clock'
      BY <1>1, <2>1, <2>2, <3>1 DEF Clock, Mutex
    <3> QED BY <1>4, <3>2, <3>3
  <2>3. CASE trace_mutex # Free
    <3>1. UNCHANGED <<trace_mutex, endTrace, endTraces>>
      BY <1>7, <2>3 DEF TryLimit
    <3>2. TypeOK'
      BY <1>1, <1>3, <2>1, <3>1 DEF TypeOK
    <3>3. Mutex' /\ Clock'
      BY <1>1, <1>3, <2>1, <3>1 DEF Mutex, Clock
    <3> QED BY <1>4, <3>2, <3>3
  <2> QED BY <2>2, <2>3
<1> QED BY <1>5, <1>6, <1>7

\* A pool is filled at the start of its thread and emptied at its end.
LEMMA PoolStep ==
    ASSUME IndInv, NEW t \in Threads,
           ThreadStart(t) \/ ReclaimBuffer(t) \/ ReclaimCurrent(t)
    PROVE  IndInv'
<1> USE Marks DEF IndInv
<1>1. UNCHANGED <<num, exiting, loaded, elements, made, profiledAccesses, trace_started,
                  trace_mutex, endTrace, endTraces, progTime, timeSet, phase, appExit,
                  statMutex, sum, total>>
  BY DEF ThreadStart, ReclaimBuffer, ReclaimCurrent, threadVars, limitVars, clockVars, endVars,
         statVars
<1>2. Clock'
  BY <1>1 DEF Clock
<1>3. CASE ThreadStart(t)
  <2>1. /\ pc' \in [Threads -> ThreadPC] /\ pc'[t] = "run" /\ pc[t] = "new"
        /\ \A u \in Threads : u # t => pc'[u] = pc[u]
    BY <1>3, GotoProps DEF ThreadStart, ThreadPC
  <2>2. pool[t] = 0
    BY <2>1 DEF Pools
  <2>3. /\ pool' = [pool EXCEPT ![t] = AppBuffers]
        /\ bufferSem' = [bufferSem EXCEPT ![t] = TRUE]
        /\ owned' = [owned EXCEPT ![t] = AppBuffers + 1]
    BY <1>3, <2>2 DEF ThreadStart, AllocateBuffers, PutBufferOnList
  <2>4. bufferSem' \in [Threads -> BOOLEAN]
    BY <2>3 DEF TypeOK
  <2>5. TypeOK'
    BY <1>1, <2>1, <2>3, <2>4 DEF TypeOK
  <2>6. Pools'
    BY <2>1, <2>3 DEF Pools, TypeOK
  <2>7. Mutex'
    BY <1>1, <2>1 DEF Mutex
  <2> QED BY <1>2, <2>5, <2>6, <2>7
<1>4. CASE ReclaimBuffer(t)
  <2>1. pc[t] = "fini" /\ bufferSem[t] /\ pc' = pc
    BY <1>4 DEF ReclaimBuffer, GetBufferFromList
  <2>2. pool[t] > 0 /\ owned[t] = pool[t] + 1 /\ pool[t] \in 0..AppBuffers
    BY <2>1 DEF Pools, TypeOK
  <2>3. /\ pool' = [pool EXCEPT ![t] = pool[t] - 1]
        /\ bufferSem' = [bufferSem EXCEPT ![t] = (pool[t] > 1)]
        /\ owned' = [owned EXCEPT ![t] = owned[t] - 1]
    BY <1>4 DEF ReclaimBuffer, GetBufferFromList
  <2>4. bufferSem' \in [Threads -> BOOLEAN]
    BY <2>3 DEF TypeOK
  <2>5. TypeOK'
    BY <1>1, <2>1, <2>2, <2>3, <2>4 DEF TypeOK
  <2>6. Pools'
    <3>1. /\ pool'[t] = pool[t] - 1 /\ owned'[t] = owned[t] - 1
          /\ \A u \in Threads : u # t => pool'[u] = pool[u] /\ owned'[u] = owned[u]
      BY <2>3 DEF TypeOK
    <3>2. bufferSem'[t] <=> pool[t] > 1
      BY <2>3 DEF TypeOK
    <3>3. \A u \in Threads : u # t => (bufferSem'[u] <=> bufferSem[u])
      BY <2>3 DEF TypeOK
    <3>4. bufferSem'[t] <=> pool'[t] > 0
      BY <2>2, <3>1, <3>2
    <3>5. owned'[t] = pool'[t] + 1
      BY <2>2, <3>1
    <3> QED BY <2>1, <3>1, <3>3, <3>4, <3>5 DEF Pools
  <2>7. Mutex'
    BY <1>1, <2>1 DEF Mutex
  <2> QED BY <1>2, <2>5, <2>6, <2>7
<1>5. CASE ReclaimCurrent(t)
  <2>1. /\ pc' \in [Threads -> ThreadPC] /\ pc'[t] = "lock" /\ pc[t] = "fini"
        /\ \A u \in Threads : u # t => pc'[u] = pc[u]
    BY <1>5, GotoProps DEF ReclaimCurrent, ThreadPC
  <2>2. owned[t] = 1 /\ pool[t] = 0
    BY <1>5, <2>1 DEF ReclaimCurrent, Pools, TypeOK
  <2>3. pool' = pool /\ bufferSem' = bufferSem /\ owned' = [owned EXCEPT ![t] = 0]
    BY <1>5 DEF ReclaimCurrent
  <2>4. TypeOK'
    BY <1>1, <2>1, <2>3 DEF TypeOK
  <2>5. Pools'
    BY <2>1, <2>2, <2>3 DEF Pools, TypeOK
  <2>6. Mutex'
    BY <1>1, <2>1 DEF Mutex
  <2> QED BY <1>2, <2>4, <2>5, <2>6
<1> QED BY <1>3, <1>4, <1>5

\* EndTrace, the exit of the application and Fini.
LEMMA EndStep ==
    ASSUME IndInv, EndTrace \/ AppExit \/ Fini
    PROVE  IndInv'
<1> USE Marks DEF IndInv
<1>1. UNCHANGED <<pc, num, exiting, loaded, elements, made, profiledAccesses, trace_started,
                  trace_mutex, endTraces, pool, bufferSem, owned, statMutex, sum, total>>
  BY DEF EndTrace, EndTraceCheck, EndTraceSet, ExitApplication, AppExit, Fini,
         PrepareCheck, PrepareSet, Dump, threadVars, limitVars, poolVars, statVars
<1>2. Pools'
  BY <1>1 DEF Pools
<1>3. CASE EndTraceCheck
  <2>1. UNCHANGED <<progTime, timeSet, phase, appExit>> /\ endTrace = "check"
        /\ endTrace' = IF timeSet THEN "exit" ELSE "set"
    BY <1>3 DEF EndTraceCheck, clockVars, endVars
  <2>2. TypeOK' /\ Mutex'
    BY <1>1, <2>1 DEF TypeOK, Mutex
  <2>3. Clock'
    BY <1>1, <2>1 DEF Clock
  <2> QED BY <1>2, <2>2, <2>3
<1>4. CASE EndTraceSet
  <2>1. UNCHANGED <<phase, appExit>> /\ endTrace = "set" /\ endTrace' = "exit"
        /\ progTime' = IF progTime = "start" THEN "elapsed" ELSE "garbage"
    BY <1>4 DEF EndTraceSet, EndTime
  <2>2. timeSet' = TRUE
    BY <1>4 DEF EndTraceSet, EndTime
  <2>3. timeSet' \in BOOLEAN
    BY <2>2, Zenon
  <2>4. TypeOK' /\ Mutex'
    BY <1>1, <2>1, <2>3 DEF TypeOK, Mutex
  <2>5. Clock'
    BY <1>1, <2>1, <2>2 DEF Clock, Mutex
  <2> QED BY <1>2, <2>4, <2>5
<1>5. CASE ExitApplication
  <2>1. UNCHANGED <<progTime, timeSet, appExit>> /\ endTrace = "exit" /\ endTrace' = "none"
        /\ phase' = IF phase = "up" THEN "prepare" ELSE phase
    BY <1>5 DEF ExitApplication, clockVars, endVars
  <2>2. TypeOK' /\ Mutex'
    BY <1>1, <2>1 DEF TypeOK, Mutex
  <2>3. Clock'
    BY <1>1, <2>1 DEF Clock
  <2> QED BY <1>2, <2>2, <2>3
<1>6. CASE AppExit
  <2>1. UNCHANGED <<progTime, timeSet, endTrace>> /\ phase' = "prepare"
    BY <1>6 DEF AppExit, clockVars, endVars, limitVars
  <2>2. appExit' = TRUE
    BY <1>6 DEF AppExit
  <2>3. appExit' \in BOOLEAN
    BY <2>2, Zenon
  <2>4. TypeOK' /\ Mutex'
    BY <1>1, <2>1, <2>3 DEF TypeOK, Mutex
  <2>5. Clock'
    BY <2>2 DEF Clock
  <2> QED BY <1>2, <2>4, <2>5
<1>7. CASE PrepareCheck
  <2>1. UNCHANGED <<progTime, timeSet, endTrace, appExit>> /\ phase = "prepare"
        /\ phase' = IF timeSet THEN "fini" ELSE "preparing"
    BY <1>7 DEF PrepareCheck, clockVars, endVars, limitVars
  <2>2. TypeOK' /\ Mutex'
    BY <1>1, <2>1 DEF TypeOK, Mutex
  <2>3. Clock'
    BY <1>1, <2>1 DEF Clock
  <2> QED BY <1>2, <2>2, <2>3
<1>8. CASE PrepareSet
  <2>1. UNCHANGED <<endTrace, appExit>> /\ phase = "preparing" /\ phase' = "fini"
        /\ progTime' = IF progTime = "start" THEN "elapsed" ELSE "garbage"
    BY <1>8 DEF PrepareSet, EndTime, limitVars
  <2>2. timeSet' \in BOOLEAN
    BY <1>8, Zenon DEF PrepareSet, EndTime
  <2>3. TypeOK' /\ Mutex'
    BY <1>1, <2>1, <2>2 DEF TypeOK, Mutex
  <2>4. Clock'
    BY <2>1 DEF Clock
  <2> QED BY <1>2, <2>3, <2>4
<1>9. CASE Dump
  <2>1. UNCHANGED <<progTime, timeSet, endTrace, appExit>> /\ phase = "fini"
        /\ phase' = "dumped"
    BY <1>9 DEF Dump, clockVars, endVars, limitVars
  <2>2. TypeOK' /\ Mutex'
    BY <1>1, <2>1 DEF TypeOK, Mutex
  <2>3. Clock'
    BY <1>1, <2>1 DEF Clock
  <2> QED BY <1>2, <2>2, <2>3
<1> QED BY <1>3, <1>4, <1>5, <1>6, <1>7, <1>8, <1>9 DEF EndTrace, Fini

LEMMA StutterStep ==
    ASSUME IndInv, UNCHANGED vars
    PROVE  IndInv'
BY DEF IndInv, TypeOK, Pools, Mutex, Clock, vars

-----------------------------------------------------------------------------
\* The invariant of pools, trace_mutex and clock holds in every reachable state of
\* the tool.
THEOREM PinToolInductive == Spec => []IndInv
<1>1. ASSUME IndInv, [Next]_vars PROVE IndInv'
  <2>1. CASE UNCHANGED vars
    BY <1>1, <2>1, StutterStep
  <2>2. ASSUME NEW t \in Threads,
               ThreadStart(t) \/ BufferFull(t) \/ ExitFlush(t) \/ ToolStep(t)
        PROVE  IndInv'
    BY <1>1, <2>2, CallbackStep, MutexStep, PoolStep DEF ToolStep
  <2>3. CASE EndTrace \/ AppExit \/ Fini
    BY <1>1, <2>3, EndStep
  <2>4. CASE Terminated
    BY <2>1, <2>4 DEF Terminated
  <2> QED BY <1>1, <2>1, <2>2, <2>3, <2>4 DEF Next
<1> QED BY <1>1, InitInv, PTL DEF Spec

\* The variables keep their types: EndTrace is spawned once, and no pool has more
\* buffers than it was given.
THEOREM PinToolTypes == Spec => []TypeOK
<1>1. IndInv => TypeOK
  BY DEF IndInv
<1> QED BY <1>1, PinToolInductive, PTL

\* The reported time of a trace that the limit ended is the time from the start
\* of the trace to EndTrace, however CheckSkip, EndTrace and Fini interleave.
THEOREM ClockSound == Spec => []LimitClock
<1>1. IndInv => LimitClock
  BY DEF IndInv, Clock, LimitClock
<1> QED BY <1>1, PinToolInductive, PTL
=============================================================================
