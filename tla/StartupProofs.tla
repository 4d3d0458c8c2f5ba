--------------------------- MODULE StartupProofs -----------------------------
(***************************************************************************)
(* Proofs for Startup: for any set of threads, any leftovers of an earlier *)
(* run, with and without faults.                                           *)
(***************************************************************************)
EXTENDS Startup, TLAPS

-----------------------------------------------------------------------------
(* The inductive invariant, in parts. *)

\* The watch exists from AddWatch on, and a file from before it is known as such.
Watched ==
    /\ cmain \in {"stat", "watch"} => ~watching
    /\ cmain \in {"read", "open", "scan", "join", "exited"} => watching
    /\ ~watching => files \subseteq early

\* While the readdir loop runs without a new event, what it has still to return
\* covers every file that is not accounted for otherwise.
Scanned == cmain = "scan" /\ ~event => files \subseteq early \cup seen \cup todo

\* A file that main has yet to handle belongs to a thread without a receiver.
Fresh(t) ==
    /\ tpc[t] = "unborn" => t \notin files \cup todo /\ spawned[t] = 0
    /\ t \in (files \cup todo) \ seen => spawned[t] = 0
    /\ spawned[t] <= 1

\* The shared memory is there from bind to the end of Listen, and a thread that
\* is about to open it keeps it there; no thread runs before StartProgram.
Mapped(t) ==
    /\ app = "load" => tpc[t] = "unborn"
    /\ rpc[t] \in {"bound", "half", "listen", "half_acc", "acc", "half_failed",
                   "acc_failed"} => t \in shmFile
    /\ app = "up" /\ tpc[t] = "map" => t \in shmFile

IndInv ==
    /\ TypeOK
    /\ Watched
    /\ NoLostWakeup
    /\ Scanned
    /\ \A t \in Threads : Fresh(t) /\ Mapped(t)

-----------------------------------------------------------------------------
(* Each part is kept by each step. *)

\* The start.
LEMMA StartupInit == Init => IndInv
<1> SUFFICES ASSUME Init PROVE IndInv
  OBVIOUS
<1>1. rdyConn \in [Threads -> BOOLEAN] /\ pidsDir \in BOOLEAN /\ watching \in BOOLEAN
        /\ event \in BOOLEAN
  BY Zenon DEF Init
<1>2. TypeOK
  BY <1>1 DEF Init, TypeOK, ThreadPC, MainPC, ReceiverPC
<1>3. Watched /\ NoLostWakeup /\ Scanned /\ \A t \in Threads : Fresh(t) /\ Mapped(t)
  BY DEF Init, Watched, NoLostWakeup, Scanned, Fresh, Mapped
<1> QED
  BY <1>2, <1>3 DEF IndInv

\* The variables keep their types.
LEMMA StartupTypeStep == IndInv /\ [Next]_vars => TypeOK'
<1> SUFFICES ASSUME IndInv, [Next]_vars PROVE TypeOK'
  OBVIOUS
<1> USE StartupAssumption DEF IndInv, TypeOK, ThreadPC, MainPC, ReceiverPC
<1>1. ASSUME NEW t \in Threads,
             PinStep(t) \/ AppStep(t) \/ ReceiverStep(t) \/ ReceiverFault(t)
                \/ Found(t) \/ SkipSeen(t)
      PROVE  TypeOK'
  <2>1. CASE ThreadStart(t)
    BY <2>1 DEF ThreadStart, ThreadGoto, CreateFile, mainVars
  <2>2. CASE ThreadFini(t)
    BY <2>2 DEF ThreadFini, ThreadGoto, dirVars, mainVars
  <2>3. CASE ConnectRdy(t)
    BY <2>3 DEF ConnectRdy, ThreadGoto, ListensRdy, ListensSize, dirVars,
       mainVars
  <2>4. CASE ConnectSize(t)
    BY <2>4 DEF ConnectSize, ThreadGoto, ListensSize, dirVars, mainVars
  <2>5. CASE MapShm(t)
    BY <2>5 DEF MapShm, ThreadGoto, dirVars, mainVars
  <2>6. CASE Setup(t)
    BY <2>6 DEF Setup, ReceiverGoto, pinVars, dirVars, mainVars
  <2>7. CASE ListenRdy(t)
    BY <2>7 DEF ListenRdy, ReceiverGoto, pinVars, dirVars, mainVars
  <2>8. CASE ListenSize(t)
    BY <2>8 DEF ListenSize, ReceiverGoto, pinVars, dirVars, mainVars
  <2>9. CASE AcceptRdy(t)
    BY <2>9 DEF AcceptRdy, ReceiverGoto, pinVars, dirVars, mainVars
  <2>10. CASE AcceptSize(t)
    BY <2>10 DEF AcceptSize, ReceiverGoto, pinVars, dirVars, mainVars
  <2>11. CASE ReceiverDone(t)
    BY <2>11 DEF ReceiverDone, ReceiverGoto, pinVars, dirVars, mainVars
  <2>12. CASE SetupFails(t)
    BY <2>12 DEF SetupFails, ReceiverGoto, pinVars, dirVars, mainVars
  <2>13. CASE ListenFails(t)
    BY <2>13 DEF ListenFails, ReceiverGoto, pinVars, dirVars, mainVars
  <2>14. CASE AcceptFails(t)
    BY <2>14 DEF AcceptFails, ReceiverGoto, pinVars, dirVars, mainVars
  <2>15. CASE Found(t)
    BY <2>15 DEF Found, ReceiverGoto, pinVars
  <2>16. CASE SkipSeen(t)
    BY <2>16 DEF SkipSeen, pinVars, mainVars
  <2> QED
    BY <1>1, <2>1, <2>2, <2>3, <2>4, <2>5, <2>6, <2>7, <2>8, <2>9, <2>10,
       <2>11, <2>12, <2>13, <2>14, <2>15, <2>16
       DEF PinStep, AppStep, ReceiverStep, ReceiverFault
<1>2. CASE StartProgram
  BY <1>2 DEF StartProgram, mainVars
<1>3. CASE Fini
  BY <1>3 DEF Fini, CreateFile, mainVars
<1>4. CASE AppDies
  BY <1>4 DEF AppDies, dirVars, mainVars
<1>5. CASE SeeDir
  BY <1>5 DEF SeeDir, pinVars, dirVars
<1>6. CASE AddWatch
  BY <1>6 DEF AddWatch, pinVars, dirVars
<1>7. CASE ReadEvent
  BY <1>7 DEF ReadEvent, pinVars
<1>8. CASE OpenDir
  BY <1>8 DEF OpenDir, pinVars
<1>9. CASE FoundStop
  BY <1>9 DEF FoundStop, pinVars
<1>10. CASE EndScan
  BY <1>10 DEF EndScan, pinVars, dirVars
<1>11. CASE MainExit
  BY <1>11 DEF MainExit, pinVars
<1>12. CASE MainFails
  BY <1>12 DEF MainFails, pinVars, dirVars
<1>13. CASE UNCHANGED vars
  BY <1>13 DEF vars
<1> QED
  BY <1>1, <1>2, <1>3, <1>4, <1>5, <1>6, <1>7, <1>8, <1>9, <1>10, <1>11, <1>12,
     <1>13
     DEF Next, MainStep, Terminated

\* The watch, the events and the scan.
LEMMA WatchStep == IndInv /\ [Next]_vars => (Watched /\ NoLostWakeup /\ Scanned)'
<1> SUFFICES ASSUME IndInv,
   [Next]_vars PROVE (Watched /\ NoLostWakeup /\ Scanned)'
  OBVIOUS
<1> USE DEF IndInv, TypeOK, Watched, NoLostWakeup, Scanned
<1>1. ASSUME NEW t \in Threads,
             PinStep(t) \/ AppStep(t) \/ ReceiverStep(t) \/ ReceiverFault(t)
                \/ Found(t) \/ SkipSeen(t)
      PROVE  (Watched /\ NoLostWakeup /\ Scanned)'
  <2>1. CASE ThreadStart(t)
    BY <2>1 DEF ThreadStart, ThreadGoto, CreateFile, mainVars
  <2>2. CASE ThreadFini(t)
    BY <2>2 DEF ThreadFini, ThreadGoto, dirVars, mainVars
  <2>3. CASE ConnectRdy(t)
    BY <2>3 DEF ConnectRdy, ThreadGoto, ListensRdy, ListensSize, dirVars,
       mainVars
  <2>4. CASE ConnectSize(t)
    BY <2>4 DEF ConnectSize, ThreadGoto, ListensSize, dirVars, mainVars
  <2>5. CASE MapShm(t)
    BY <2>5 DEF MapShm, ThreadGoto, dirVars, mainVars
  <2>6. CASE Setup(t)
    BY <2>6 DEF Setup, ReceiverGoto, pinVars, dirVars, mainVars
  <2>7. CASE ListenRdy(t)
    BY <2>7 DEF ListenRdy, ReceiverGoto, pinVars, dirVars, mainVars
  <2>8. CASE ListenSize(t)
    BY <2>8 DEF ListenSize, ReceiverGoto, pinVars, dirVars, mainVars
  <2>9. CASE AcceptRdy(t)
    BY <2>9 DEF AcceptRdy, ReceiverGoto, pinVars, dirVars, mainVars
  <2>10. CASE AcceptSize(t)
    BY <2>10 DEF AcceptSize, ReceiverGoto, pinVars, dirVars, mainVars
  <2>11. CASE ReceiverDone(t)
    BY <2>11 DEF ReceiverDone, ReceiverGoto, pinVars, dirVars, mainVars
  <2>12. CASE SetupFails(t)
    BY <2>12 DEF SetupFails, ReceiverGoto, pinVars, dirVars, mainVars
  <2>13. CASE ListenFails(t)
    BY <2>13 DEF ListenFails, ReceiverGoto, pinVars, dirVars, mainVars
  <2>14. CASE AcceptFails(t)
    BY <2>14 DEF AcceptFails, ReceiverGoto, pinVars, dirVars, mainVars
  <2>15. CASE Found(t)
    BY <2>15 DEF Found, ReceiverGoto, pinVars
  <2>16. CASE SkipSeen(t)
    BY <2>16 DEF SkipSeen, pinVars, mainVars
  <2> QED
    BY <1>1, <2>1, <2>2, <2>3, <2>4, <2>5, <2>6, <2>7, <2>8, <2>9, <2>10,
       <2>11, <2>12, <2>13, <2>14, <2>15, <2>16
       DEF PinStep, AppStep, ReceiverStep, ReceiverFault
<1>2. CASE StartProgram
  BY <1>2 DEF StartProgram, mainVars
<1>3. CASE Fini
  BY <1>3 DEF Fini, CreateFile, mainVars
<1>4. CASE AppDies
  BY <1>4 DEF AppDies, dirVars, mainVars
<1>5. CASE SeeDir
  BY <1>5 DEF SeeDir, pinVars, dirVars
<1>6. CASE AddWatch
  BY <1>6 DEF AddWatch, pinVars, dirVars
<1>7. CASE ReadEvent
  BY <1>7 DEF ReadEvent, pinVars
<1>8. CASE OpenDir
  BY <1>8 DEF OpenDir, pinVars
<1>9. CASE FoundStop
  BY <1>9 DEF FoundStop, pinVars
<1>10. CASE EndScan
  BY <1>10 DEF EndScan, pinVars, dirVars
<1>11. CASE MainExit
  BY <1>11 DEF MainExit, pinVars
<1>12. CASE MainFails
  BY <1>12 DEF MainFails, pinVars, dirVars
<1>13. CASE UNCHANGED vars
  BY <1>13 DEF vars
<1> QED
  BY <1>1, <1>2, <1>3, <1>4, <1>5, <1>6, <1>7, <1>8, <1>9, <1>10, <1>11, <1>12,
     <1>13
     DEF Next, MainStep, Terminated

\* One receiver for a file.
LEMMA FreshStep == IndInv /\ [Next]_vars => \A u \in Threads : Fresh(u)'
<1> SUFFICES ASSUME IndInv, [Next]_vars PROVE \A u \in Threads : Fresh(u)'
  OBVIOUS
<1> SUFFICES ASSUME NEW u \in Threads PROVE Fresh(u)'
  OBVIOUS
<1> USE StartupAssumption DEF IndInv, TypeOK, Fresh
<1>1. ASSUME NEW t \in Threads,
             PinStep(t) \/ AppStep(t) \/ ReceiverStep(t) \/ ReceiverFault(t)
                \/ Found(t) \/ SkipSeen(t)
      PROVE  Fresh(u)'
  <2>1. CASE ThreadStart(t)
    BY <2>1 DEF ThreadStart, ThreadGoto, CreateFile, mainVars
  <2>2. CASE ThreadFini(t)
    BY <2>2 DEF ThreadFini, ThreadGoto, dirVars, mainVars
  <2>3. CASE ConnectRdy(t)
    BY <2>3 DEF ConnectRdy, ThreadGoto, ListensRdy, ListensSize, dirVars,
       mainVars
  <2>4. CASE ConnectSize(t)
    BY <2>4 DEF ConnectSize, ThreadGoto, ListensSize, dirVars, mainVars
  <2>5. CASE MapShm(t)
    BY <2>5 DEF MapShm, ThreadGoto, dirVars, mainVars
  <2>6. CASE Setup(t)
    BY <2>6 DEF Setup, ReceiverGoto, pinVars, dirVars, mainVars
  <2>7. CASE ListenRdy(t)
    BY <2>7 DEF ListenRdy, ReceiverGoto, pinVars, dirVars, mainVars
  <2>8. CASE ListenSize(t)
    BY <2>8 DEF ListenSize, ReceiverGoto, pinVars, dirVars, mainVars
  <2>9. CASE AcceptRdy(t)
    BY <2>9 DEF AcceptRdy, ReceiverGoto, pinVars, dirVars, mainVars
  <2>10. CASE AcceptSize(t)
    BY <2>10 DEF AcceptSize, ReceiverGoto, pinVars, dirVars, mainVars
  <2>11. CASE ReceiverDone(t)
    BY <2>11 DEF ReceiverDone, ReceiverGoto, pinVars, dirVars, mainVars
  <2>12. CASE SetupFails(t)
    BY <2>12 DEF SetupFails, ReceiverGoto, pinVars, dirVars, mainVars
  <2>13. CASE ListenFails(t)
    BY <2>13 DEF ListenFails, ReceiverGoto, pinVars, dirVars, mainVars
  <2>14. CASE AcceptFails(t)
    BY <2>14 DEF AcceptFails, ReceiverGoto, pinVars, dirVars, mainVars
  <2>15. CASE Found(t)
    BY <2>15 DEF Found, ReceiverGoto, pinVars
  <2>16. CASE SkipSeen(t)
    BY <2>16 DEF SkipSeen, pinVars, mainVars
  <2> QED
    BY <1>1, <2>1, <2>2, <2>3, <2>4, <2>5, <2>6, <2>7, <2>8, <2>9, <2>10,
       <2>11, <2>12, <2>13, <2>14, <2>15, <2>16
       DEF PinStep, AppStep, ReceiverStep, ReceiverFault
<1>2. CASE StartProgram
  BY <1>2 DEF StartProgram, mainVars
<1>3. CASE Fini
  BY <1>3 DEF Fini, CreateFile, mainVars
<1>4. CASE AppDies
  BY <1>4 DEF AppDies, dirVars, mainVars
<1>5. CASE SeeDir
  BY <1>5 DEF SeeDir, pinVars, dirVars
<1>6. CASE AddWatch
  BY <1>6 DEF AddWatch, pinVars, dirVars
<1>7. CASE ReadEvent
  BY <1>7 DEF ReadEvent, pinVars
<1>8. CASE OpenDir
  BY <1>8 DEF OpenDir, pinVars
<1>9. CASE FoundStop
  BY <1>9 DEF FoundStop, pinVars
<1>10. CASE EndScan
  BY <1>10 DEF EndScan, pinVars, dirVars
<1>11. CASE MainExit
  BY <1>11 DEF MainExit, pinVars
<1>12. CASE MainFails
  BY <1>12 DEF MainFails, pinVars, dirVars
<1>13. CASE UNCHANGED vars
  BY <1>13 DEF vars
<1> QED
  BY <1>1, <1>2, <1>3, <1>4, <1>5, <1>6, <1>7, <1>8, <1>9, <1>10, <1>11, <1>12,
     <1>13
     DEF Next, MainStep, Terminated

\* The shared memory file.
LEMMA MappedStep == IndInv /\ [Next]_vars => \A u \in Threads : Mapped(u)'
<1> SUFFICES ASSUME IndInv, [Next]_vars PROVE \A u \in Threads : Mapped(u)'
  OBVIOUS
<1> SUFFICES ASSUME NEW u \in Threads PROVE Mapped(u)'
  OBVIOUS
<1> USE DEF IndInv, TypeOK, Mapped
<1>1. ASSUME NEW t \in Threads,
             PinStep(t) \/ AppStep(t) \/ ReceiverStep(t) \/ ReceiverFault(t)
                \/ Found(t) \/ SkipSeen(t)
      PROVE  Mapped(u)'
  <2>1. CASE ThreadStart(t)
    BY <2>1 DEF ThreadStart, ThreadGoto, CreateFile, mainVars
  <2>2. CASE ThreadFini(t)
    BY <2>2 DEF ThreadFini, ThreadGoto, dirVars, mainVars
  <2>3. CASE ConnectRdy(t)
    BY <2>3 DEF ConnectRdy, ThreadGoto, ListensRdy, ListensSize, dirVars,
       mainVars
  <2>4. CASE ConnectSize(t)
    BY <2>4 DEF ConnectSize, ThreadGoto, ListensSize, dirVars, mainVars
  <2>5. CASE MapShm(t)
    BY <2>5 DEF MapShm, ThreadGoto, dirVars, mainVars
  <2>6. CASE Setup(t)
    BY <2>6 DEF Setup, ReceiverGoto, pinVars, dirVars, mainVars
  <2>7. CASE ListenRdy(t)
    BY <2>7 DEF ListenRdy, ReceiverGoto, pinVars, dirVars, mainVars
  <2>8. CASE ListenSize(t)
    BY <2>8 DEF ListenSize, ReceiverGoto, pinVars, dirVars, mainVars
  <2>9. CASE AcceptRdy(t)
    BY <2>9 DEF AcceptRdy, ReceiverGoto, pinVars, dirVars, mainVars
  <2>10. CASE AcceptSize(t)
    BY <2>10 DEF AcceptSize, ReceiverGoto, pinVars, dirVars, mainVars
  <2>11. CASE ReceiverDone(t)
    BY <2>11 DEF ReceiverDone, ReceiverGoto, pinVars, dirVars, mainVars
  <2>12. CASE SetupFails(t)
    BY <2>12 DEF SetupFails, ReceiverGoto, pinVars, dirVars, mainVars
  <2>13. CASE ListenFails(t)
    BY <2>13 DEF ListenFails, ReceiverGoto, pinVars, dirVars, mainVars
  <2>14. CASE AcceptFails(t)
    BY <2>14 DEF AcceptFails, ReceiverGoto, pinVars, dirVars, mainVars
  <2>15. CASE Found(t)
    BY <2>15 DEF Found, ReceiverGoto, pinVars
  <2>16. CASE SkipSeen(t)
    BY <2>16 DEF SkipSeen, pinVars, mainVars
  <2> QED
    BY <1>1, <2>1, <2>2, <2>3, <2>4, <2>5, <2>6, <2>7, <2>8, <2>9, <2>10,
       <2>11, <2>12, <2>13, <2>14, <2>15, <2>16
       DEF PinStep, AppStep, ReceiverStep, ReceiverFault
<1>2. CASE StartProgram
  BY <1>2 DEF StartProgram, mainVars
<1>3. CASE Fini
  BY <1>3 DEF Fini, CreateFile, mainVars
<1>4. CASE AppDies
  BY <1>4 DEF AppDies, dirVars, mainVars
<1>5. CASE SeeDir
  BY <1>5 DEF SeeDir, pinVars, dirVars
<1>6. CASE AddWatch
  BY <1>6 DEF AddWatch, pinVars, dirVars
<1>7. CASE ReadEvent
  BY <1>7 DEF ReadEvent, pinVars
<1>8. CASE OpenDir
  BY <1>8 DEF OpenDir, pinVars
<1>9. CASE FoundStop
  BY <1>9 DEF FoundStop, pinVars
<1>10. CASE EndScan
  BY <1>10 DEF EndScan, pinVars, dirVars
<1>11. CASE MainExit
  BY <1>11 DEF MainExit, pinVars
<1>12. CASE MainFails
  BY <1>12 DEF MainFails, pinVars, dirVars
<1>13. CASE UNCHANGED vars
  BY <1>13 DEF vars
<1> QED
  BY <1>1, <1>2, <1>3, <1>4, <1>5, <1>6, <1>7, <1>8, <1>9, <1>10, <1>11, <1>12,
     <1>13
     DEF Next, MainStep, Terminated

-----------------------------------------------------------------------------
(* The theorems. *)

\* The invariant of the start-up holds in every reachable state.
THEOREM StartupInductive == Spec => []IndInv
<1>1. IndInv /\ [Next]_vars => IndInv'
  BY StartupTypeStep, WatchStep, FreshStep, MappedStep DEF IndInv
<1> QED
  BY StartupInit, <1>1, PTL DEF Spec

\* Type correctness of the start-up, with any files an earlier run left.
THEOREM StartupTypes == Spec => []TypeOK
<1>1. IndInv => TypeOK
  BY DEF IndInv
<1> QED
  BY StartupInductive, <1>1, PTL

\* main of the consumer never sleeps in read over a file that was created under
\* the watch and not handled (ReadEvent, OpenDir, EndScan against ThreadStart and
\* Fini).
THEOREM WakeupKept == Spec => []NoLostWakeup
<1>1. IndInv => NoLostWakeup
  BY DEF IndInv
<1> QED
  BY StartupInductive, <1>1, PTL

\* main spawns one ReceiverThread per pid file, also for one that it cannot
\* remove and meets again in every scan.
THEOREM ReceiverOnce == Spec => []OneReceiver
<1>1. IndInv => OneReceiver
  BY DEF IndInv, OneReceiver, Fresh
<1> QED
  BY StartupInductive, <1>1, PTL

\* ThreadStart finds the shared memory file of its receiver when it opens it.
THEOREM ShmThere == Spec => []ShmReady
<1>1. IndInv => ShmReady
  BY DEF IndInv, ShmReady, Mapped
<1> QED
  BY StartupInductive, <1>1, PTL
=============================================================================
