---------------------------- MODULE HandoffProofs ----------------------------
(* Proofs about Handoff, for any set of threads and any values of the bounds. *)
EXTENDS Handoff, TLAPS

\* Types at the start.
LEMMA TypeInit == Init => TypeOK
  <1> SUFFICES ASSUME Init PROVE TypeOK
    OBVIOUS
  <1>1. size \in [Threads -> Seq(0..1)] /\ out \in [Threads -> Seq(Int)]
    BY DEF Init
  <1>2. /\ flush \in [Threads -> BOOLEAN] /\ fresh \in [Threads -> BOOLEAN]
        /\ stopFile \in BOOLEAN /\ stop \in BOOLEAN
    BY Zenon DEF Init
  <1>3. /\ ppc \in [Threads -> PinPC] /\ lpc \in [Threads -> ListenPC]
        /\ fate \in [Threads -> {"open", "finished", "aborted"}]
        /\ app \in {"up", "killed", "exited"}
        /\ main \in {"scan", "join", "exited", "crashed"}
    BY DEF Init, PinPC, ListenPC
  <1>4. /\ filled \in [Threads -> Nat] /\ numBytes \in [Threads -> 0..1]
        /\ handed \in [Threads -> Nat] /\ rdy \in [Threads -> Nat]
        /\ shm \in [Threads -> Int] /\ recvData \in [Threads -> 0..1]
        /\ stale \in [Threads -> Nat]
    BY DEF Init
  <1> QED
    BY <1>1, <1>2, <1>3, <1>4 DEF TypeOK

\* Every step of either process keeps the types.
LEMMA TypeStep == TypeOK /\ [Next]_vars => TypeOK'
  <1> SUFFICES ASSUME TypeOK, [Next]_vars PROVE TypeOK'
    OBVIOUS
  <1> USE DEF TypeOK, PinPC, ListenPC
  <1>1. ASSUME NEW t \in Threads, PinStep(t) \/ AppStep(t) PROVE TypeOK'
    <2>1. CASE BufferFull(t)
      BY <2>1 DEF BufferFull, PinGoto, pinVars, chanVars, listenVars, mainVars
    <2>2. CASE ExitFlush(t)
      BY <2>2 DEF ExitFlush, PinGoto, pinVars, chanVars, listenVars, mainVars
    <2>3. CASE ExitNoFlush(t)
      BY <2>3 DEF ExitNoFlush, PinGoto, pinVars, chanVars, listenVars, mainVars
    <2>4. CASE ReadRdy(t)
      <3> USE <2>4 DEF ReadRdy
      <3>1. rdy' \in [Threads -> Nat]
        OBVIOUS
      <3>2. shm' \in [Threads -> Int]
        BY DEF Torn
      <3>3. ppc' \in [Threads -> PinPC]
        BY DEF PinGoto
      <3> QED
        BY <3>1, <3>2, <3>3 DEF listenVars, mainVars
    <2>5. CASE MemcpyDone(t)
      BY <2>5 DEF MemcpyDone, PinGoto, pinVars, chanVars, listenVars, mainVars
    <2>6. CASE SendSize(t)
      <3> USE <2>6 DEF SendSize
      <3>a. numBytes[t] \in 0..1 /\ handed[t] + numBytes[t] \in Nat
        OBVIOUS
      <3>b. Append(size[t], numBytes[t]) \in Seq(0..1)
        BY <3>a
      <3>1. size' \in [Threads -> Seq(0..1)]
        BY <3>b
      <3>2. handed' \in [Threads -> Nat]
        BY <3>a
      <3>3. ppc' \in [Threads -> PinPC]
        BY DEF Resume, PinGoto
      <3> QED
        BY <3>1, <3>2, <3>3 DEF listenVars, mainVars
    <2>7. CASE ShutdownSockets(t)
      BY <2>7 DEF ShutdownSockets, PinGoto, pinVars, chanVars, listenVars, mainVars
    <2>8. CASE CloseSockets(t)
      BY <2>8 DEF CloseSockets, PinGoto, pinVars, chanVars, listenVars, mainVars
    <2>9. CASE ThreadDead(t)
      BY <2>9 DEF ThreadDead, PinGoto, pinVars, chanVars, listenVars, mainVars
    <2> QED
      BY <1>1, <2>1, <2>2, <2>3, <2>4, <2>5, <2>6, <2>7, <2>8, <2>9 DEF PinStep, AppStep
  <1>2. ASSUME NEW t \in Threads, ListenStep(t) PROVE TypeOK'
    <2>1. CASE StartListen(t)
      BY <2>1 DEF StartListen, ListenGoto, pinVars, chanVars, listenVars, mainVars
    <2>2. CASE SendRdy(t)
      BY <2>2 DEF SendRdy, ListenGoto, pinVars, chanVars, listenVars, mainVars
    <2>3. CASE LeaveLoop(t)
      BY <2>3 DEF LeaveLoop, ListenGoto, pinVars, chanVars, listenVars, mainVars
    <2>4. CASE Recv(t)
      BY <2>4 DEF Recv, ListenGoto, pinVars, chanVars, listenVars, mainVars
    <2>5. CASE RecvEof(t)
      BY <2>5 DEF RecvEof, ListenGoto, pinVars, chanVars, listenVars, mainVars
    <2>6. CASE GetDeltas(t)
      BY <2>6 DEF GetDeltas, ListenGoto, pinVars, chanVars, listenVars, mainVars
    <2>7. CASE MonitorGone(t)
      BY <2>7 DEF MonitorGone, ListenGoto, pinVars, chanVars, listenVars, mainVars
    <2>8. CASE Persist(t)
      BY <2>8 DEF Persist, ListenGoto, pinVars, chanVars, listenVars, mainVars
    <2>9. CASE EndIteration(t)
      BY <2>9 DEF EndIteration, ListenGoto, pinVars, chanVars, listenVars, mainVars
    <2>10. CASE PostLoop(t)
      BY <2>10 DEF PostLoop, Return, ListenGoto, Residue, pinVars, chanVars, listenVars,
         mainVars
    <2>11. CASE CloseRdyFd(t)
      BY <2>11 DEF CloseRdyFd, ListenGoto, pinVars, chanVars, listenVars, mainVars
    <2>12. CASE Cleanup(t)
      BY <2>12 DEF Cleanup, ListenGoto, pinVars, chanVars, listenVars, mainVars
    <2> QED
      BY <1>2, <2>1, <2>2, <2>3, <2>4, <2>5, <2>6, <2>7, <2>8, <2>9, <2>10, <2>11,
         <2>12 DEF ListenStep
  <1>3. ASSUME NEW t \in Threads, FaultStep(t) PROVE TypeOK'
    <2>1. CASE ReadRdyFails(t)
      BY <2>1 DEF ReadRdyFails, Resume, PinGoto, pinVars, chanVars, listenVars, mainVars
    <2>2. CASE MonitorThrows(t)
      BY <2>2 DEF MonitorThrows, pinVars, chanVars, listenVars, mainVars
    <2>3. CASE SendRdyError(t)
      BY <2>3 DEF SendRdyError, GiveUp, Return, ListenGoto, pinVars, chanVars,
         listenVars, mainVars
    <2>4. CASE RecvError(t)
      BY <2>4 DEF RecvError, GiveUp, Return, ListenGoto, pinVars, chanVars, listenVars,
         mainVars
    <2>5. CASE PersistError(t)
      BY <2>5 DEF PersistError, GiveUp, Return, ListenGoto, pinVars, chanVars,
         listenVars, mainVars
    <2>6. CASE PostLoopError(t)
      BY <2>6 DEF PostLoopError, GiveUp, Return, ListenGoto, pinVars, chanVars,
         listenVars, mainVars
    <2> QED
      BY <1>3, <2>1, <2>2, <2>3, <2>4, <2>5, <2>6 DEF FaultStep
  <1>4. CASE AppKilled
    BY <1>4 DEF AppKilled, pinVars, chanVars, listenVars, mainVars
  <1>5. CASE Fini
    BY <1>5 DEF Fini, pinVars, chanVars, listenVars, mainVars
  <1>6. CASE SeeStop
    BY <1>6 DEF SeeStop, pinVars, chanVars, listenVars, mainVars
  <1>7. CASE MainExit
    BY <1>7 DEF MainExit, pinVars, chanVars, listenVars, mainVars
  <1>8. CASE Terminated \/ UNCHANGED vars
    BY <1>8 DEF Terminated, vars
  <1> QED
    BY <1>1, <1>2, <1>3, <1>4, <1>5, <1>6, <1>7, <1>8 DEF Next

\* Every variable of both processes keeps its type.
THEOREM TypeCorrect == Spec => []TypeOK
  BY TypeInit, TypeStep, PTL DEF Spec

\* Facts about a queue with at most one metadata message in it.
LEMMA OneMessage ==
    /\ \A n \in 0..1 : Append(<<>>, n) = <<n>>
    /\ \A n \in 0..1 : <<n>> # <<>> /\ Head(<<n>>) = n /\ Tail(<<n>>) = <<>>
    /\ <<0>> # <<1>> /\ <<>> # <<1>> /\ <<>> # <<0>>
  <1>1. \A n \in 0..1 : Append(<<>>, n) = <<n>>
    OBVIOUS
  <1>2. \A n \in 0..1 : <<n>> # <<>> /\ Head(<<n>>) = n
    OBVIOUS
  <1>3. \A n \in 0..1 : Tail(<<n>>) = <<>>
    OBVIOUS
  <1>4. <<0>> # <<1>> /\ <<>> # <<1>> /\ <<>> # <<0>>
    OBVIOUS
  <1> QED
    BY <1>1, <1>2, <1>3, <1>4

\* Every step keeps the baton where it is or passes it on.
LEMMA BatonStep == IndInv /\ [Next]_vars => \A u \in Threads : Baton(u)'
  <1> SUFFICES ASSUME NEW u \in Threads, TypeOK, Baton(u), Control(u), Content(u),
                      [Next]_vars
               PROVE  Baton(u)'
    BY DEF IndInv
  <1> USE DEF TypeOK, PinPC, ListenPC, SizeOpen, RdyOpen, Closed, Live, Baton,
     Control
  <1>1. ASSUME NEW t \in Threads, PinStep(t) \/ AppStep(t) PROVE Baton(u)'
    <2>1. CASE BufferFull(t)
      BY <2>1 DEF BufferFull, PinGoto, pinVars, chanVars, listenVars, mainVars
    <2>2. CASE ExitFlush(t)
      BY <2>2 DEF ExitFlush, PinGoto, pinVars, chanVars, listenVars, mainVars
    <2>3. CASE ExitNoFlush(t)
      BY <2>3 DEF ExitNoFlush, PinGoto, pinVars, chanVars, listenVars, mainVars
    <2>4. CASE ReadRdy(t)
      <3>1. CASE u # t
        BY <2>4, <3>1 DEF ReadRdy, PinGoto, listenVars
      <3>2. CASE u = t
        <4>1. /\ ppc[u] = "wait" /\ ppc'[u] = "copy"
              /\ lpc'[u] = lpc[u] /\ size'[u] = size[u]
          BY <2>4, <3>2 DEF ReadRdy, PinGoto, listenVars
        <4>2. CASE lpc[u] = "recv"
          <5>1. rdy[u] = 1 /\ size[u] = <<>>
            BY <2>4, <3>2, <4>1, <4>2 DEF ReadRdy
          <5>2. rdy'[u] = 0
            BY <2>4, <3>2, <5>1 DEF ReadRdy
          <5> QED
            BY <4>1, <4>2, <5>1, <5>2
        <4>3. lpc[u] \notin Live \ {"recv"}
          BY <2>4, <3>2, <4>1 DEF ReadRdy
        <4> QED
          BY <4>1, <4>2, <4>3
      <3> QED
        BY <3>1, <3>2
    <2>5. CASE MemcpyDone(t)
      BY <2>5 DEF MemcpyDone, PinGoto, pinVars, chanVars, listenVars, mainVars
    <2>6. CASE SendSize(t)
      <3>1. CASE u # t
        BY <2>6, <3>1 DEF SendSize, Resume, PinGoto, listenVars
      <3>2. CASE u = t
        <4>1. /\ ppc[u] = "send" /\ ppc'[u] \in {"run", "fini"}
              /\ lpc'[u] = lpc[u] /\ rdy'[u] = rdy[u]
          BY <2>6, <3>2 DEF SendSize, Resume, PinGoto, listenVars
        <4>2. CASE lpc[u] = "recv"
          <5>1. rdy[u] = 0 /\ size[u] = <<>>
            BY <4>1, <4>2
          <5>2. size'[u] = Append(<<>>, numBytes[u]) /\ numBytes[u] \in 0..1
            BY <2>6, <3>2, <4>2, <5>1 DEF SendSize
          <5>3. size'[u] \in {<<0>>, <<1>>}
            BY <5>2, OneMessage
          <5> QED
            BY <4>1, <4>2, <5>1, <5>3
        <4>3. lpc[u] \notin Live \ {"recv"}
          BY <4>1
        <4> QED
          BY <4>1, <4>2, <4>3
      <3> QED
        BY <3>1, <3>2
    <2>7. CASE ShutdownSockets(t)
      BY <2>7 DEF ShutdownSockets, PinGoto, pinVars, chanVars, listenVars, mainVars
    <2>8. CASE CloseSockets(t)
      BY <2>8 DEF CloseSockets, PinGoto, pinVars, chanVars, listenVars, mainVars
    <2>9. CASE ThreadDead(t)
      BY <2>9 DEF ThreadDead, PinGoto, pinVars, chanVars, listenVars, mainVars
    <2> QED
      BY <1>1, <2>1, <2>2, <2>3, <2>4, <2>5, <2>6, <2>7, <2>8, <2>9 DEF PinStep, AppStep
  <1>2. ASSUME NEW t \in Threads, ListenStep(t) PROVE Baton(u)'
    <2>1. CASE StartListen(t)
      BY <2>1 DEF StartListen, ListenGoto, pinVars, chanVars, listenVars, mainVars
    <2>2. CASE SendRdy(t)
      BY <2>2 DEF SendRdy, ListenGoto, pinVars, chanVars, listenVars, mainVars
    <2>3. CASE LeaveLoop(t)
      BY <2>3 DEF LeaveLoop, ListenGoto, pinVars, chanVars, listenVars, mainVars
    <2>4. CASE Recv(t)
      <3>1. UNCHANGED <<ppc, rdy>>
        BY <2>4 DEF Recv, pinVars
      <3>2. CASE u # t
        <4>1. lpc'[u] = lpc[u] /\ size'[u] = size[u]
          BY <2>4, <3>2 DEF Recv, ListenGoto
        <4> QED
          BY <3>1, <4>1
      <3>3. CASE u = t
        <4>1. /\ lpc[u] = "recv" /\ lpc'[u] = "got" /\ size[u] # <<>>
              /\ size'[u] = Tail(size[u])
          BY <2>4, <3>3 DEF Recv, ListenGoto
        <4>2. PICK n \in 0..1 : size[u] = <<n>>
          BY <4>1
        <4>3. size'[u] = <<>>
          <5>1. Tail(<<n>>) = <<>>
            BY OneMessage, Zenon
          <5> QED
            BY <4>1, <4>2, <5>1, Zenon
        <4> QED
          BY <3>1, <4>1, <4>3
      <3> QED
        BY <3>2, <3>3
    <2>5. CASE RecvEof(t)
      BY <2>5 DEF RecvEof, ListenGoto, pinVars, chanVars, listenVars, mainVars
    <2>6. CASE GetDeltas(t)
      BY <2>6 DEF GetDeltas, ListenGoto, pinVars, chanVars, listenVars, mainVars
    <2>7. CASE MonitorGone(t)
      BY <2>7 DEF MonitorGone, ListenGoto, pinVars, chanVars, listenVars, mainVars
    <2>8. CASE Persist(t)
      BY <2>8 DEF Persist, ListenGoto, pinVars, chanVars, listenVars, mainVars
    <2>9. CASE EndIteration(t)
      BY <2>9 DEF EndIteration, ListenGoto, pinVars, chanVars, listenVars, mainVars
    <2>10. CASE PostLoop(t)
      BY <2>10 DEF PostLoop, Return, ListenGoto, Residue, pinVars, chanVars, listenVars,
         mainVars
    <2>11. CASE CloseRdyFd(t)
      BY <2>11 DEF CloseRdyFd, ListenGoto, pinVars, chanVars, listenVars, mainVars
    <2>12. CASE Cleanup(t)
      BY <2>12 DEF Cleanup, ListenGoto, pinVars, chanVars, listenVars, mainVars
    <2> QED
      BY <1>2, <2>1, <2>2, <2>3, <2>4, <2>5, <2>6, <2>7, <2>8, <2>9, <2>10, <2>11,
         <2>12 DEF ListenStep
  <1>3. ASSUME NEW t \in Threads, FaultStep(t) PROVE Baton(u)'
    <2>1. CASE ReadRdyFails(t)
      BY <2>1 DEF ReadRdyFails, Resume, PinGoto, pinVars, chanVars, listenVars, mainVars
    <2>2. CASE MonitorThrows(t)
      BY <2>2 DEF MonitorThrows, pinVars, chanVars, listenVars, mainVars
    <2>3. CASE SendRdyError(t)
      BY <2>3 DEF SendRdyError, GiveUp, Return, ListenGoto, pinVars, chanVars,
         listenVars, mainVars
    <2>4. CASE RecvError(t)
      BY <2>4 DEF RecvError, GiveUp, Return, ListenGoto, pinVars, chanVars, listenVars,
         mainVars
    <2>5. CASE PersistError(t)
      BY <2>5 DEF PersistError, GiveUp, Return, ListenGoto, pinVars, chanVars,
         listenVars, mainVars
    <2>6. CASE PostLoopError(t)
      BY <2>6 DEF PostLoopError, GiveUp, Return, ListenGoto, pinVars, chanVars,
         listenVars, mainVars
    <2> QED
      BY <1>3, <2>1, <2>2, <2>3, <2>4, <2>5, <2>6 DEF FaultStep
  <1>4. CASE AppKilled
    BY <1>4 DEF AppKilled, pinVars, chanVars, listenVars, mainVars
  <1>5. CASE Fini
    BY <1>5 DEF Fini, pinVars, chanVars, listenVars, mainVars
  <1>6. CASE SeeStop
    BY <1>6 DEF SeeStop, pinVars, chanVars, listenVars, mainVars
  <1>7. CASE MainExit
    BY <1>7 DEF MainExit, pinVars, chanVars, listenVars, mainVars
  <1>8. CASE Terminated \/ UNCHANGED vars
    BY <1>8 DEF Terminated, vars
  <1> QED
    BY <1>1, <1>2, <1>3, <1>4, <1>5, <1>6, <1>7, <1>8 DEF Next

\* Every step keeps what control on one side says of the other side.
LEMMA ControlStep == IndInv /\ [Next]_vars => \A u \in Threads : Control(u)'
  <1> SUFFICES ASSUME NEW u \in Threads, TypeOK, Baton(u), Control(u), Content(u),
                      [Next]_vars
               PROVE  Control(u)'
    BY DEF IndInv
  <1> USE DEF TypeOK, PinPC, ListenPC, SizeOpen, RdyOpen, Closed, Live, Baton,
     Control
  <1>1. ASSUME NEW t \in Threads, PinStep(t) \/ AppStep(t) PROVE Control(u)'
    <2>1. CASE BufferFull(t)
      BY <2>1 DEF BufferFull, PinGoto, pinVars, chanVars, listenVars, mainVars
    <2>2. CASE ExitFlush(t)
      BY <2>2 DEF ExitFlush, PinGoto, pinVars, chanVars, listenVars, mainVars
    <2>3. CASE ExitNoFlush(t)
      BY <2>3 DEF ExitNoFlush, PinGoto, pinVars, chanVars, listenVars, mainVars
    <2>4. CASE ReadRdy(t)
      BY <2>4 DEF ReadRdy, PinGoto, Torn, pinVars, chanVars, listenVars, mainVars
    <2>5. CASE MemcpyDone(t)
      BY <2>5 DEF MemcpyDone, PinGoto, pinVars, chanVars, listenVars, mainVars
    <2>6. CASE SendSize(t)
      <3>1. CASE u # t
        BY <2>6, <3>1 DEF SendSize, Resume, PinGoto, listenVars, mainVars
      <3>2. CASE u = t
        <4>1. /\ ppc[u] = "send" /\ ppc'[u] = IF flush[u] THEN "fini" ELSE "run"
              /\ app' = app /\ flush' = flush /\ numBytes' = numBytes
          BY <2>6, <3>2 DEF SendSize, Resume, PinGoto
        <4>2. UNCHANGED <<lpc, recvData, fate, stopFile, stop>>
          BY <2>6 DEF SendSize, listenVars, mainVars
        <4>3. ASSUME lpc[u] = "recv", size'[u] = << 0 >> PROVE flush[u]
          <5>1. size[u] = <<>>
            BY <4>1, <4>3
          <5>2. size'[u] = Append(<<>>, numBytes[u]) /\ numBytes[u] \in 0..1
            BY <2>6, <3>2, <4>3, <5>1 DEF SendSize
          <5>3. numBytes[u] = 0
            BY <5>2, <4>3, OneMessage
          <5> QED
            BY <5>3, <4>1
        <4> QED
          BY <4>1, <4>2, <4>3
      <3> QED
        BY <3>1, <3>2
    <2>7. CASE ShutdownSockets(t)
      BY <2>7 DEF ShutdownSockets, PinGoto, pinVars, chanVars, listenVars, mainVars
    <2>8. CASE CloseSockets(t)
      BY <2>8 DEF CloseSockets, PinGoto, pinVars, chanVars, listenVars, mainVars
    <2>9. CASE ThreadDead(t)
      BY <2>9 DEF ThreadDead, PinGoto, pinVars, chanVars, listenVars, mainVars
    <2> QED
      BY <1>1, <2>1, <2>2, <2>3, <2>4, <2>5, <2>6, <2>7, <2>8, <2>9 DEF PinStep, AppStep
  <1>2. ASSUME NEW t \in Threads, ListenStep(t) PROVE Control(u)'
    <2>1. CASE StartListen(t)
      BY <2>1 DEF StartListen, ListenGoto, pinVars, chanVars, listenVars, mainVars
    <2>2. CASE SendRdy(t)
      <3>1. UNCHANGED <<ppc, numBytes, flush, app, size, recvData, fate, stopFile, stop>>
        BY <2>2 DEF SendRdy, pinVars, mainVars
      <3>2. CASE u # t
        BY <2>2, <3>1, <3>2 DEF SendRdy, ListenGoto
      <3>3. CASE u = t
        <4>1. lpc[u] = "top" /\ lpc'[u] = "recv" /\ size[u] = <<>>
          BY <2>2, <3>3 DEF SendRdy, ListenGoto
        <4> QED
          BY <3>1, <4>1, OneMessage
      <3> QED
        BY <3>2, <3>3
    <2>3. CASE LeaveLoop(t)
      BY <2>3 DEF LeaveLoop, ListenGoto, pinVars, chanVars, listenVars, mainVars
    <2>4. CASE Recv(t)
      <3>1. UNCHANGED <<ppc, numBytes, flush, app, fate, stopFile, stop>>
        BY <2>4 DEF Recv, pinVars, mainVars
      <3>2. CASE u # t
        BY <2>4, <3>1, <3>2 DEF Recv, ListenGoto
      <3>3. CASE u = t
        <4>1. /\ lpc[u] = "recv" /\ lpc'[u] = "got"
              /\ size[u] \in {<<0>>, <<1>>} /\ recvData'[u] = Head(size[u])
          BY <2>4, <3>3 DEF Recv, ListenGoto
        <4>2. recvData'[u] = 0 => size[u] = <<0>>
          BY <4>1, OneMessage
        <4> QED
          BY <3>1, <4>1, <4>2
      <3> QED
        BY <3>2, <3>3
    <2>5. CASE RecvEof(t)
      BY <2>5 DEF RecvEof, ListenGoto, pinVars, chanVars, listenVars, mainVars
    <2>6. CASE GetDeltas(t)
      BY <2>6 DEF GetDeltas, ListenGoto, pinVars, chanVars, listenVars, mainVars
    <2>7. CASE MonitorGone(t)
      BY <2>7 DEF MonitorGone, ListenGoto, pinVars, chanVars, listenVars, mainVars
    <2>8. CASE Persist(t)
      BY <2>8 DEF Persist, ListenGoto, pinVars, chanVars, listenVars, mainVars
    <2>9. CASE EndIteration(t)
      BY <2>9 DEF EndIteration, ListenGoto, pinVars, chanVars, listenVars, mainVars
    <2>10. CASE PostLoop(t)
      BY <2>10 DEF PostLoop, Return, ListenGoto, Residue, pinVars, chanVars, listenVars,
         mainVars
    <2>11. CASE CloseRdyFd(t)
      BY <2>11 DEF CloseRdyFd, ListenGoto, pinVars, chanVars, listenVars, mainVars
    <2>12. CASE Cleanup(t)
      BY <2>12 DEF Cleanup, ListenGoto, pinVars, chanVars, listenVars, mainVars
    <2> QED
      BY <1>2, <2>1, <2>2, <2>3, <2>4, <2>5, <2>6, <2>7, <2>8, <2>9, <2>10, <2>11,
         <2>12 DEF ListenStep
  <1>3. ASSUME NEW t \in Threads, FaultStep(t) PROVE Control(u)'
    <2>1. CASE ReadRdyFails(t)
      BY <2>1 DEF ReadRdyFails, Resume, PinGoto, pinVars, chanVars, listenVars, mainVars
    <2>2. CASE MonitorThrows(t)
      BY <2>2 DEF MonitorThrows, pinVars, chanVars, listenVars, mainVars
    <2>3. CASE SendRdyError(t)
      BY <2>3 DEF SendRdyError, GiveUp, Return, ListenGoto, pinVars, chanVars,
         listenVars, mainVars
    <2>4. CASE RecvError(t)
      BY <2>4 DEF RecvError, GiveUp, Return, ListenGoto, pinVars, chanVars, listenVars,
         mainVars
    <2>5. CASE PersistError(t)
      BY <2>5 DEF PersistError, GiveUp, Return, ListenGoto, pinVars, chanVars,
         listenVars, mainVars
    <2>6. CASE PostLoopError(t)
      BY <2>6 DEF PostLoopError, GiveUp, Return, ListenGoto, pinVars, chanVars,
         listenVars, mainVars
    <2> QED
      BY <1>3, <2>1, <2>2, <2>3, <2>4, <2>5, <2>6 DEF FaultStep
  <1>4. CASE AppKilled
    BY <1>4 DEF AppKilled, pinVars, chanVars, listenVars, mainVars
  <1>5. CASE Fini
    BY <1>5 DEF Fini, pinVars, chanVars, listenVars, mainVars
  <1>6. CASE SeeStop
    BY <1>6 DEF SeeStop, pinVars, chanVars, listenVars, mainVars
  <1>7. CASE MainExit
    BY <1>7 DEF MainExit, pinVars, chanVars, listenVars, mainVars
  <1>8. CASE Terminated \/ UNCHANGED vars
    <2>1. UNCHANGED <<ppc, numBytes, flush, app, size, lpc, recvData, fate, stopFile, stop>>
      BY <1>8 DEF Terminated, vars
    <2> QED
      BY <2>1
  <1> QED
    BY <1>1, <1>2, <1>3, <1>4, <1>5, <1>6, <1>7, <1>8 DEF Next

\* A step of Pin outside the mapping keeps what the mapping and the stream hold.
LEMMA ContentPin ==
    ASSUME NEW u \in Threads, Content(u),
           UNCHANGED <<app, handed, shm, size, lpc, recvData, fresh, out, fate>>,
           \/ ppc'[u] = ppc[u] /\ numBytes'[u] = numBytes[u]
           \/ ppc[u] \notin {"copy", "send"} /\ ppc'[u] \notin {"copy", "send"},
           Closed(u) => Closed(u)', ~SizeOpen(u) => ~SizeOpen(u)'
    PROVE  Content(u)'
  <1>1. Mapping(u) => Mapping(u)'
    BY DEF Mapping
  <1>2. CaughtUp(u) => CaughtUp(u)'
    BY DEF CaughtUp
  <1>3. Announced(u) => Announced(u)'
    BY DEF Announced
  <1> QED
    BY <1>1, <1>2, <1>3 DEF Content

\* So does a step that leaves everything of the thread alone.
LEMMA ContentOther ==
    ASSUME NEW u \in Threads, Content(u), UNCHANGED app,
           UNCHANGED <<ppc[u], handed[u], numBytes[u], shm[u], size[u], lpc[u], recvData[u],
                       fresh[u], out[u], fate[u]>>
    PROVE  Content(u)'
  BY DEF Content, Mapping, CaughtUp, Announced, Closed, SizeOpen

\* So do the steps of a listener outside recv and the write.
LEMMA ContentMove ==
    ASSUME NEW u \in Threads, Content(u),
           UNCHANGED <<app, ppc, handed, numBytes, shm, size, recvData, fresh, out>>,
           \/ lpc[u] \in {"init", "tail"} /\ lpc'[u] = "top" /\ fate'[u] = fate[u]
           \/ lpc[u] \in {"top", "got"} /\ lpc'[u] = "post" /\ fate'[u] = fate[u]
           \/ lpc[u] = "got" /\ recvData[u] # 0 /\ lpc'[u] = "proc" /\ fate'[u] = fate[u]
           \/ lpc'[u] \notin Live /\ (fate'[u] = fate[u] \/ fate'[u] = "aborted")
    PROVE  Content(u)'
  <1> USE DEF Live
  <1>1. CaughtUp(u) => CaughtUp(u)'
    BY DEF CaughtUp, Closed
  <1>2. Announced(u) => Announced(u)'
    BY DEF Announced
  <1>3. ~SizeOpen(u) => ~SizeOpen(u)'
    BY DEF SizeOpen
  <1>4. lpc'[u] \in Live => lpc[u] \in Live /\ Mapping(u)'
    BY DEF Content, Mapping
  <1> QED
    BY <1>1, <1>2, <1>3, <1>4 DEF Content

\* Persist puts the announced buffer in its place, or one more copy of the last.
LEMMA ContentPersist ==
    ASSUME NEW u \in Threads, TypeOK, Control(u), Content(u), Persist(u)
    PROVE  Content(u)'
  <1>1. /\ lpc[u] = "proc" /\ lpc'[u] = "tail" /\ out'[u] = Append(out[u], shm[u])
        /\ ~fresh'[u]
        /\ UNCHANGED <<app, ppc, handed, numBytes, shm, size, recvData, fate>>
    BY DEF Persist, ListenGoto, pinVars, chanVars, TypeOK
  <1>2. handed[u] \in Nat /\ Len(out[u]) \in Nat /\ Len(out'[u]) = Len(out[u]) + 1
    BY <1>1 DEF TypeOK
  <1>3. recvData[u] = 1 /\ Mapping(u) /\ (Announced(u) \/ (~SizeOpen(u) /\ CaughtUp(u)))
        /\ handed[u] > 0
    BY <1>1 DEF Control, Content, Live
  <1>4. CaughtUp(u)'
    BY <1>1, <1>2, <1>3 DEF CaughtUp, Announced, SizeOpen, Closed
  <1>5. Mapping(u)'
    BY <1>1, <1>3 DEF Mapping
  <1>6. handed[u] <= Len(out'[u]) + 1
    BY <1>2, <1>3 DEF Announced, CaughtUp
  <1> QED
    BY <1>1, <1>3, <1>4, <1>5, <1>6 DEF Content, Live

\* Every step keeps what the mapping and the stream hold.
LEMMA ContentStep == IndInv /\ [Next]_vars => \A u \in Threads : Content(u)'
  <1> SUFFICES ASSUME NEW u \in Threads, TypeOK, Baton(u), Control(u), Content(u),
                      [Next]_vars
               PROVE  Content(u)'
    BY DEF IndInv
  <1> USE DEF TypeOK, PinPC, ListenPC, SizeOpen, RdyOpen, Closed, Live, Baton,
     Control, Content, Mapping, Announced, CaughtUp, Torn
  <1>1. ASSUME NEW t \in Threads, PinStep(t) \/ AppStep(t) PROVE Content(u)'
    <2>1. CASE BufferFull(t)
      <3>1. UNCHANGED <<app, handed, shm, size, lpc, recvData, fresh, out, fate>>
        BY <2>1 DEF BufferFull, chanVars, listenVars
      <3>2. \/ ppc'[u] = ppc[u] /\ numBytes'[u] = numBytes[u]
            \/ ppc[u] = "run" /\ ppc'[u] = "wait"
        BY <2>1 DEF BufferFull, PinGoto
      <3> HIDE DEF TypeOK, Baton, Control, Content, Mapping, CaughtUp, Announced
      <3> QED
        BY <3>1, <3>2, ContentPin
    <2>2. CASE ExitFlush(t)
      <3>1. UNCHANGED <<app, handed, shm, size, lpc, recvData, fresh, out, fate>>
        BY <2>2 DEF ExitFlush, chanVars, listenVars
      <3>2. \/ ppc'[u] = ppc[u] /\ numBytes'[u] = numBytes[u]
            \/ ppc[u] = "run" /\ ppc'[u] = "wait"
        BY <2>2 DEF ExitFlush, PinGoto
      <3> HIDE DEF TypeOK, Baton, Control, Content, Mapping, CaughtUp, Announced
      <3> QED
        BY <3>1, <3>2, ContentPin
    <2>3. CASE ExitNoFlush(t)
      <3>1. UNCHANGED <<app, handed, shm, size, lpc, recvData, fresh, out, fate>>
        BY <2>3 DEF ExitNoFlush, chanVars, listenVars
      <3>2. \/ ppc'[u] = ppc[u] /\ numBytes'[u] = numBytes[u]
            \/ ppc[u] = "run" /\ ppc'[u] = "fini"
        BY <2>3 DEF ExitNoFlush, PinGoto
      <3> HIDE DEF TypeOK, Baton, Control, Content, Mapping, CaughtUp, Announced
      <3> QED
        BY <3>1, <3>2, ContentPin
    <2>4. CASE ReadRdy(t)
      <3>1. UNCHANGED <<app, handed, numBytes, size, lpc, recvData, fresh, out, fate>>
        BY <2>4 DEF ReadRdy, listenVars
      <3>2. CASE u # t
        BY <2>4, <3>1, <3>2 DEF ReadRdy, PinGoto
      <3>3. CASE u = t
        <4>1. /\ ppc[u] = "wait" /\ ppc'[u] = "copy"
              /\ shm'[u] = IF numBytes[u] > 0 THEN Torn ELSE shm[u]
          BY <2>4, <3>3 DEF ReadRdy, PinGoto
        <4>2. lpc[u] \in Live => lpc[u] = "recv" /\ size[u] = <<>> /\ app = "up"
          BY <2>4, <3>3, <4>1 DEF ReadRdy
        <4>3. lpc[u] = "recv" => CaughtUp(u)
          BY <4>2, OneMessage
        <4>4. CASE lpc[u] \in Live
          <5>1. size[u] # <<1>> /\ numBytes[u] \in 0..1
            BY <4>2, <4>4, OneMessage
          <5>2. Mapping(u)'
            BY <3>1, <4>1, <4>2, <4>4, <5>1
          <5> QED
            BY <3>1, <4>1, <4>2, <4>3, <4>4, <5>1, <5>2
        <4>5. CASE lpc[u] \notin Live
          BY <3>1, <4>5
        <4> QED
          BY <4>4, <4>5
      <3> QED
        BY <3>2, <3>3
    <2>5. CASE MemcpyDone(t)
      <3>1. UNCHANGED <<app, handed, numBytes, size, lpc, recvData, fresh, out, fate>>
        BY <2>5 DEF MemcpyDone, listenVars
      <3>2. CASE u # t
        BY <2>5, <3>1, <3>2 DEF MemcpyDone, PinGoto
      <3>3. CASE u = t
        <4>1. /\ ppc[u] = "copy" /\ ppc'[u] = "send"
              /\ shm'[u] = IF numBytes[u] > 0 THEN handed[u] + 1 ELSE shm[u]
          BY <2>5, <3>3 DEF MemcpyDone, PinGoto
        <4>2. lpc[u] \in Live => lpc[u] = "recv" /\ size[u] = <<>> /\ app = "up"
          BY <4>1
        <4>3. lpc[u] = "recv" => CaughtUp(u)
          BY <4>2, OneMessage
        <4>4. CASE lpc[u] \in Live
          <5>1. size[u] # <<1>> /\ numBytes[u] \in 0..1
            BY <4>2, <4>4, OneMessage
          <5>2. Mapping(u)'
            BY <3>1, <4>1, <4>2, <4>4, <5>1
          <5> QED
            BY <3>1, <4>1, <4>2, <4>3, <4>4, <5>1, <5>2
        <4>5. CASE lpc[u] \notin Live
          BY <3>1, <4>5
        <4> QED
          BY <4>4, <4>5
      <3> QED
        BY <3>2, <3>3
    <2>6. CASE SendSize(t)
      <3>1. UNCHANGED <<app, numBytes, flush, shm, lpc, recvData, fresh, out, fate>>
        BY <2>6 DEF SendSize, listenVars
      <3>2. CASE u # t
        <4>1. ppc'[u] = ppc[u] /\ size'[u] = size[u] /\ handed'[u] = handed[u]
          BY <2>6, <3>2 DEF SendSize, Resume, PinGoto
        <4> QED
          BY <3>1, <4>1
      <3>3. CASE u = t
        <4>1. /\ ppc[u] = "send" /\ ppc'[u] = IF flush[u] THEN "fini" ELSE "run"
          BY <2>6, <3>3 DEF SendSize, Resume, PinGoto
        <4>2. CASE lpc[u] \in Live
          <5>1. lpc[u] = "recv" /\ size[u] = <<>> /\ app = "up"
            BY <4>1, <4>2
          <5>2. handed[u] = Len(out[u]) /\ shm[u] = handed[u] + numBytes[u]
            BY <4>1, <5>1, OneMessage
          <5>3. /\ handed'[u] = handed[u] + numBytes[u]
                /\ size'[u] = Append(<<>>, numBytes[u])
            BY <2>6, <3>3, <5>1 DEF SendSize
          <5>4. numBytes[u] \in 0..1 /\ size'[u] = <<numBytes[u]>>
            BY <5>3, OneMessage
          <5>5. CASE numBytes[u] = 0
            BY <3>1, <4>1, <5>1, <5>2, <5>3, <5>4, <5>5, OneMessage
          <5>6. CASE numBytes[u] = 1
            BY <3>1, <4>1, <5>1, <5>2, <5>3, <5>4, <5>6, OneMessage
          <5> QED
            BY <5>4, <5>5, <5>6
        <4>3. CASE lpc[u] \notin Live
          <5>1. fate[u] = "aborted"
            BY <4>1, <4>3
          <5> QED
            BY <3>1, <4>3, <5>1
        <4> QED
          BY <4>2, <4>3
      <3> QED
        BY <3>2, <3>3
    <2>7. CASE ShutdownSockets(t)
      <3>1. UNCHANGED <<app, handed, shm, size, lpc, recvData, fresh, out, fate>>
        BY <2>7 DEF ShutdownSockets, chanVars, listenVars
      <3>2. \/ ppc'[u] = ppc[u] /\ numBytes'[u] = numBytes[u]
            \/ ppc[u] = "fini" /\ ppc'[u] = "shut"
        BY <2>7 DEF ShutdownSockets, PinGoto
      <3> HIDE DEF TypeOK, Baton, Control, Content, Mapping, CaughtUp, Announced
      <3> QED
        BY <3>1, <3>2, ContentPin
    <2>8. CASE CloseSockets(t)
      <3>1. UNCHANGED <<app, handed, shm, size, lpc, recvData, fresh, out, fate>>
        BY <2>8 DEF CloseSockets, chanVars, listenVars
      <3>2. \/ ppc'[u] = ppc[u] /\ numBytes'[u] = numBytes[u]
            \/ ppc[u] = "shut" /\ ppc'[u] = "closed"
        BY <2>8 DEF CloseSockets, PinGoto
      <3> HIDE DEF TypeOK, Baton, Control, Content, Mapping, CaughtUp, Announced
      <3> QED
        BY <3>1, <3>2, ContentPin
    <2>9. CASE ThreadDead(t)
      <3>1. UNCHANGED <<app, handed, shm, size, lpc, recvData, fresh, out, fate>>
        BY <2>9 DEF ThreadDead, chanVars, listenVars
      <3>2. \/ ppc'[u] = ppc[u] /\ numBytes'[u] = numBytes[u]
            \/ ppc[u] = "closed" /\ ppc'[u] = "dead"
        BY <2>9 DEF ThreadDead, PinGoto
      <3> HIDE DEF TypeOK, Baton, Control, Content, Mapping, CaughtUp, Announced
      <3> QED
        BY <3>1, <3>2, ContentPin
    <2> QED
      BY <1>1, <2>1, <2>2, <2>3, <2>4, <2>5, <2>6, <2>7, <2>8, <2>9 DEF PinStep, AppStep
  <1>2. ASSUME NEW t \in Threads, ListenStep(t) PROVE Content(u)'
    <2>1. CASE StartListen(t)
      <3>1. UNCHANGED <<app, ppc, handed, numBytes, shm, size, recvData, fresh, out>>
        BY <2>1 DEF StartListen, pinVars, chanVars
      <3>2. CASE u # t
        <4>1. lpc'[u] = lpc[u] /\ fate'[u] = fate[u]
          BY <2>1, <3>2 DEF StartListen, ListenGoto
        <4> QED
          BY <3>1, <4>1, ContentOther
      <3>3. CASE u = t
        <4>1. lpc[u] = "init" /\ lpc'[u] = "top" /\ fate'[u] = fate[u]
          BY <2>1, <3>3 DEF StartListen, ListenGoto
        <4> QED
          BY <3>1, <4>1, ContentMove
      <3> QED
        BY <3>2, <3>3
    <2>2. CASE SendRdy(t)
      <3>1. UNCHANGED <<app, ppc, handed, numBytes, shm, size, recvData, fresh, out, fate>>
        BY <2>2 DEF SendRdy, pinVars
      <3>2. CASE u # t
        BY <2>2, <3>1, <3>2 DEF SendRdy, ListenGoto
      <3>3. CASE u = t
        <4>1. lpc[u] = "top" /\ lpc'[u] = "recv" /\ size[u] = <<>>
          BY <2>2, <3>3 DEF SendRdy, ListenGoto
        <4>2. app # "killed" /\ size[u] # <<1>> /\ CaughtUp(u) /\ Mapping(u)
          BY <2>2, <3>3, <4>1, OneMessage DEF SendRdy
        <4>3. Mapping(u)' /\ CaughtUp(u)'
          BY <3>1, <4>2
        <4> QED
          BY <3>1, <4>1, <4>2, <4>3
      <3> QED
        BY <3>2, <3>3
    <2>3. CASE LeaveLoop(t)
      <3>1. UNCHANGED <<app, ppc, handed, numBytes, shm, size, recvData, fresh, out>>
        BY <2>3 DEF LeaveLoop, pinVars, chanVars
      <3>2. CASE u # t
        <4>1. lpc'[u] = lpc[u] /\ fate'[u] = fate[u]
          BY <2>3, <3>2 DEF LeaveLoop, ListenGoto
        <4> QED
          BY <3>1, <4>1, ContentOther
      <3>3. CASE u = t
        <4>1. lpc[u] = "top" /\ lpc'[u] = "post" /\ fate'[u] = fate[u]
          BY <2>3, <3>3 DEF LeaveLoop, ListenGoto
        <4> QED
          BY <3>1, <4>1, ContentMove
      <3> QED
        BY <3>2, <3>3
    <2>4. CASE Recv(t)
      <3>1. UNCHANGED <<app, ppc, handed, numBytes, shm, fresh, out, fate>>
        BY <2>4 DEF Recv, pinVars
      <3>2. CASE u # t
        BY <2>4, <3>1, <3>2 DEF Recv, ListenGoto
      <3>3. CASE u = t
        <4>1. /\ lpc[u] = "recv" /\ lpc'[u] = "got"
              /\ size[u] \in {<<0>>, <<1>>} /\ recvData'[u] = Head(size[u])
          BY <2>4, <3>3 DEF Recv, ListenGoto
        <4>2. CASE size[u] = <<0>>
          <5>1. recvData'[u] = 0 /\ CaughtUp(u)
            BY <4>1, <4>2, OneMessage
          <5> QED
            BY <3>1, <4>1, <5>1
        <4>3. CASE size[u] = <<1>>
          <5>1. recvData'[u] = 1 /\ Announced(u)
            BY <4>1, <4>3, OneMessage
          <5> QED
            BY <3>1, <4>1, <5>1
        <4> QED
          BY <4>1, <4>2, <4>3
      <3> QED
        BY <3>2, <3>3
    <2>5. CASE RecvEof(t)
      <3>1. UNCHANGED <<app, ppc, handed, numBytes, shm, size, recvData, fresh, out, fate>>
        BY <2>5 DEF RecvEof, pinVars, chanVars
      <3>2. CASE u # t
        <4>1. lpc'[u] = lpc[u]
          BY <2>5, <3>2 DEF RecvEof, ListenGoto
        <4> QED
          BY <3>1, <4>1
      <3>3. CASE u = t
        <4>1. lpc[u] = "recv" /\ lpc'[u] = "got" /\ size[u] = <<>> /\ ~SizeOpen(u)
          BY <2>5, <3>3 DEF RecvEof, ListenGoto
        <4>2. CaughtUp(u)
          BY <4>1, OneMessage
        <4> QED
          BY <3>1, <4>1, <4>2
      <3> QED
        BY <3>2, <3>3
    <2>6. CASE GetDeltas(t)
      <3>1. UNCHANGED <<app, ppc, handed, numBytes, shm, size, recvData, fresh, out>>
        BY <2>6 DEF GetDeltas, pinVars, chanVars
      <3>2. CASE u # t
        <4>1. lpc'[u] = lpc[u] /\ fate'[u] = fate[u]
          BY <2>6, <3>2 DEF GetDeltas, ListenGoto
        <4> QED
          BY <3>1, <4>1, ContentOther
      <3>3. CASE u = t
        <4>1. /\ lpc[u] = "got" /\ fate'[u] = fate[u]
              /\ lpc'[u] = IF recvData[u] = 0 THEN "post" ELSE "proc"
          BY <2>6, <3>3 DEF GetDeltas, ListenGoto
        <4> QED
          BY <3>1, <4>1, ContentMove
      <3> QED
        BY <3>2, <3>3
    <2>7. CASE MonitorGone(t)
      <3>1. UNCHANGED <<app, ppc, handed, numBytes, shm, size, recvData, fresh, out>>
        BY <2>7 DEF MonitorGone, pinVars, chanVars
      <3>2. CASE u # t
        <4>1. lpc'[u] = lpc[u] /\ fate'[u] = fate[u]
          BY <2>7, <3>2 DEF MonitorGone, ListenGoto
        <4> QED
          BY <3>1, <4>1, ContentOther
      <3>3. CASE u = t
        <4>1. lpc[u] = "got" /\ lpc'[u] = "post" /\ fate'[u] = fate[u]
          BY <2>7, <3>3 DEF MonitorGone, ListenGoto
        <4> QED
          BY <3>1, <4>1, ContentMove
      <3> QED
        BY <3>2, <3>3
    <2>8. CASE Persist(t)
      <3>1. CASE u = t
        <4> HIDE DEF TypeOK, Baton, Control, Content, Mapping, CaughtUp, Announced
        <4> QED
          BY <2>8, <3>1, ContentPersist
      <3>2. CASE u # t
        <4>1. /\ UNCHANGED <<app, ppc, handed, numBytes, shm, size, recvData, fate>>
              /\ lpc'[u] = lpc[u] /\ fresh'[u] = fresh[u] /\ out'[u] = out[u]
          BY <2>8, <3>2 DEF Persist, ListenGoto, pinVars, chanVars
        <4> QED
          BY <4>1, ContentOther
      <3> QED
        BY <3>1, <3>2
    <2>9. CASE EndIteration(t)
      <3>1. UNCHANGED <<app, ppc, handed, numBytes, shm, size, recvData, fresh, out>>
        BY <2>9 DEF EndIteration, pinVars, chanVars
      <3>2. CASE u # t
        <4>1. lpc'[u] = lpc[u] /\ fate'[u] = fate[u]
          BY <2>9, <3>2 DEF EndIteration, ListenGoto
        <4> QED
          BY <3>1, <4>1, ContentOther
      <3>3. CASE u = t
        <4>1. lpc[u] = "tail" /\ lpc'[u] = "top" /\ fate'[u] = fate[u]
          BY <2>9, <3>3 DEF EndIteration, ListenGoto
        <4> QED
          BY <3>1, <4>1, ContentMove
      <3> QED
        BY <3>2, <3>3
    <2>10. CASE PostLoop(t)
      <3>1. UNCHANGED <<app, ppc, handed, numBytes, shm, size, recvData, fresh>>
        BY <2>10 DEF PostLoop, pinVars, chanVars
      <3>2. CASE u # t
        <4>1. lpc'[u] = lpc[u] /\ fate'[u] = fate[u] /\ out'[u] = out[u]
          BY <2>10, <3>2 DEF PostLoop, Return, ListenGoto
        <4> QED
          BY <3>1, <4>1, ContentOther
      <3>3. CASE u = t
        <4>1. /\ lpc[u] = "post" /\ lpc'[u] = "ret"
              /\ out'[u] = out[u] \/ out'[u] = Append(out[u], Residue)
          BY <2>10, <3>3 DEF PostLoop, Return, ListenGoto
        <4>2. out[u] \in Seq(Int) /\ handed[u] \in Nat /\ handed[u] <= Len(out[u]) + 1
          BY <4>1
        <4>3. handed[u] <= Len(out'[u]) + 1
          BY <4>1, <4>2 DEF Residue
        <4> QED
          BY <3>1, <4>1, <4>3
      <3> QED
        BY <3>2, <3>3
    <2>11. CASE CloseRdyFd(t)
      <3>1. UNCHANGED <<app, ppc, handed, numBytes, shm, size, recvData, fresh, out>>
        BY <2>11 DEF CloseRdyFd, pinVars, chanVars
      <3>2. CASE u # t
        <4>1. lpc'[u] = lpc[u] /\ fate'[u] = fate[u]
          BY <2>11, <3>2 DEF CloseRdyFd, ListenGoto
        <4> QED
          BY <3>1, <4>1, ContentOther
      <3>3. CASE u = t
        <4>1. lpc'[u] = "closing" /\ fate'[u] = fate[u]
          BY <2>11, <3>3 DEF CloseRdyFd, ListenGoto
        <4> QED
          BY <3>1, <4>1, ContentMove
      <3> QED
        BY <3>2, <3>3
    <2>12. CASE Cleanup(t)
      <3>1. UNCHANGED <<app, ppc, handed, numBytes, shm, size, recvData, fresh, out>>
        BY <2>12 DEF Cleanup, pinVars, chanVars
      <3>2. CASE u # t
        <4>1. lpc'[u] = lpc[u] /\ fate'[u] = fate[u]
          BY <2>12, <3>2 DEF Cleanup, ListenGoto
        <4> QED
          BY <3>1, <4>1, ContentOther
      <3>3. CASE u = t
        <4>1. lpc'[u] = "done" /\ fate'[u] = fate[u]
          BY <2>12, <3>3 DEF Cleanup, ListenGoto
        <4> QED
          BY <3>1, <4>1, ContentMove
      <3> QED
        BY <3>2, <3>3
    <2> QED
      BY <1>2, <2>1, <2>2, <2>3, <2>4, <2>5, <2>6, <2>7, <2>8, <2>9, <2>10, <2>11,
         <2>12 DEF ListenStep
  <1>3. ASSUME NEW t \in Threads, FaultStep(t) PROVE Content(u)'
    <2>1. CASE ReadRdyFails(t)
      <3>1. UNCHANGED <<app, handed, shm, size, lpc, recvData, fresh, out, fate>>
        BY <2>1 DEF ReadRdyFails, chanVars, listenVars
      <3>2. \/ ppc'[u] = ppc[u] /\ numBytes'[u] = numBytes[u]
            \/ ppc[u] = "wait" /\ ppc'[u] \in {"fini", "run"}
        BY <2>1 DEF ReadRdyFails, PinGoto, Resume
      <3> HIDE DEF TypeOK, Baton, Control, Content, Mapping, CaughtUp, Announced
      <3> QED
        BY <3>1, <3>2, ContentPin
    <2>2. CASE MonitorThrows(t)
      <3>1. /\ UNCHANGED <<app, ppc, handed, numBytes, shm, size, recvData, fresh, out>>
            /\ lpc'[u] = "done"
            /\ fate'[u] = IF fate[u] = "open" THEN "aborted" ELSE fate[u]
        BY <2>2 DEF MonitorThrows, pinVars, chanVars
      <3> QED
        BY <3>1, ContentMove
    <2>3. CASE SendRdyError(t)
      <3>1. UNCHANGED <<app, ppc, handed, numBytes, shm, size, recvData, fresh, out>>
        BY <2>3 DEF SendRdyError, GiveUp, pinVars, chanVars
      <3>2. CASE u # t
        <4>1. lpc'[u] = lpc[u] /\ fate'[u] = fate[u]
          BY <2>3, <3>2 DEF SendRdyError, GiveUp, Return, ListenGoto
        <4> QED
          BY <3>1, <4>1, ContentOther
      <3>3. CASE u = t
        <4>1. lpc'[u] = "ret" /\ fate'[u] = "aborted"
          BY <2>3, <3>3 DEF SendRdyError, GiveUp, Return, ListenGoto
        <4> QED
          BY <3>1, <4>1, ContentMove
      <3> QED
        BY <3>2, <3>3
    <2>4. CASE RecvError(t)
      <3>1. UNCHANGED <<app, ppc, handed, numBytes, shm, size, recvData, fresh, out>>
        BY <2>4 DEF RecvError, GiveUp, pinVars, chanVars
      <3>2. CASE u # t
        <4>1. lpc'[u] = lpc[u] /\ fate'[u] = fate[u]
          BY <2>4, <3>2 DEF RecvError, GiveUp, Return, ListenGoto
        <4> QED
          BY <3>1, <4>1, ContentOther
      <3>3. CASE u = t
        <4>1. lpc'[u] = "ret" /\ fate'[u] = "aborted"
          BY <2>4, <3>3 DEF RecvError, GiveUp, Return, ListenGoto
        <4> QED
          BY <3>1, <4>1, ContentMove
      <3> QED
        BY <3>2, <3>3
    <2>5. CASE PersistError(t)
      <3>1. UNCHANGED <<app, ppc, handed, numBytes, shm, size, recvData, fresh, out>>
        BY <2>5 DEF PersistError, GiveUp, pinVars, chanVars
      <3>2. CASE u # t
        <4>1. lpc'[u] = lpc[u] /\ fate'[u] = fate[u]
          BY <2>5, <3>2 DEF PersistError, GiveUp, Return, ListenGoto
        <4> QED
          BY <3>1, <4>1, ContentOther
      <3>3. CASE u = t
        <4>1. lpc'[u] = "ret" /\ fate'[u] = "aborted"
          BY <2>5, <3>3 DEF PersistError, GiveUp, Return, ListenGoto
        <4> QED
          BY <3>1, <4>1, ContentMove
      <3> QED
        BY <3>2, <3>3
    <2>6. CASE PostLoopError(t)
      <3>1. UNCHANGED <<app, ppc, handed, numBytes, shm, size, recvData, fresh, out>>
        BY <2>6 DEF PostLoopError, GiveUp, pinVars, chanVars
      <3>2. CASE u # t
        <4>1. lpc'[u] = lpc[u] /\ fate'[u] = fate[u]
          BY <2>6, <3>2 DEF PostLoopError, GiveUp, Return, ListenGoto
        <4> QED
          BY <3>1, <4>1, ContentOther
      <3>3. CASE u = t
        <4>1. lpc'[u] = "ret" /\ fate'[u] = "aborted"
          BY <2>6, <3>3 DEF PostLoopError, GiveUp, Return, ListenGoto
        <4> QED
          BY <3>1, <4>1, ContentMove
      <3> QED
        BY <3>2, <3>3
    <2> QED
      BY <1>3, <2>1, <2>2, <2>3, <2>4, <2>5, <2>6 DEF FaultStep
  <1>4. CASE AppKilled
    <2>1. /\ UNCHANGED <<handed, shm, size, lpc, recvData, fresh, out, fate>>
          /\ app = "up" /\ app' = "killed" /\ ppc'[u] = "dead"
      BY <1>4 DEF AppKilled, chanVars, listenVars
    <2>2. numBytes[u] \in 0..1
      OBVIOUS
    <2>3. ASSUME lpc[u] \in Live PROVE Mapping(u)'
      <3>a. ppc[u] \in {"copy", "send"} => handed[u] = Len(out[u])
        BY <2>1, <2>3, OneMessage
      <3>1. CASE ppc[u] = "copy"
        BY <2>1, <2>2, <2>3, <3>a, <3>1
      <3>2. CASE ppc[u] = "send"
        BY <2>1, <2>2, <2>3, <3>a, <3>2
      <3>3. CASE ppc[u] \notin {"copy", "send"}
        BY <2>1, <2>3, <3>3
      <3> QED
        BY <3>1, <3>2, <3>3
    <2> QED
      BY <2>1, <2>3
  <1>5. CASE Fini
    BY <1>5 DEF Fini, pinVars, chanVars, listenVars, mainVars
  <1>6. CASE SeeStop
    BY <1>6 DEF SeeStop, pinVars, chanVars, listenVars, mainVars
  <1>7. CASE MainExit
    BY <1>7 DEF MainExit, pinVars, chanVars, listenVars, mainVars
  <1>8. CASE Terminated \/ UNCHANGED vars
    <2>1. UNCHANGED <<app, ppc, handed, numBytes, shm, size, lpc, recvData, fresh, out,
       fate>>
      BY <1>8 DEF Terminated, vars
    <2> QED
      BY <2>1
  <1> QED
    BY <1>1, <1>2, <1>3, <1>4, <1>5, <1>6, <1>7, <1>8 DEF Next

\* IndInv holds at the start: nothing is in flight and no stream has data.
LEMMA IndInit == Init => IndInv
  <1> SUFFICES ASSUME Init, NEW t \in Threads
               PROVE Baton(t) /\ Control(t) /\ Content(t)
    BY TypeInit DEF IndInv
  <1>1. /\ ppc[t] = "run" /\ lpc[t] = "init" /\ size[t] = <<>> /\ rdy[t] = 0
        /\ handed[t] = 0 /\ shm[t] = 0 /\ out[t] = <<>> /\ recvData[t] = 0
        /\ fate[t] = "open" /\ app = "up" /\ ~stopFile /\ ~stop
    BY DEF Init
  <1>2. Len(out[t]) = 0
    BY <1>1
  <1> QED
    BY <1>1, <1>2 DEF Baton, Control, Content, Mapping, CaughtUp, Closed, SizeOpen, Live

\* The inductive invariant: the baton between the two processes, what control
\* on one side says of the other, and what the mapping and the stream hold.
THEOREM Inductive == Spec => []IndInv
  <1>1. IndInv /\ [Next]_vars => IndInv'
    BY TypeStep, BatonStep, ControlStep, ContentStep DEF IndInv
  <1> QED
    BY IndInit, <1>1, PTL DEF Spec

\* Pin's memcpy never overlaps the consumer's use of the mapping.
THEOREM MappingExclusive == Spec => []ShmExclusion
  <1>1. IndInv => ShmExclusion
    BY DEF IndInv, Baton, ShmExclusion, SizeOpen, Live
  <1> QED
    BY <1>1, Inductive, PTL

\* A stream that was not given up is at most one buffer behind Pin.
THEOREM OneAhead == Spec => []AtMostOneAhead
  <1>1. IndInv => AtMostOneAhead
    BY DEF IndInv, Content, AtMostOneAhead
  <1> QED
    BY <1>1, Inductive, PTL

-----------------------------------------------------------------------------
(* Refinement of TraceStream. *)

\* The initial states are initial states of the abstract stream.
LEMMA StreamInit == Init => Stream!Init
  <1> SUFFICES ASSUME Init PROVE Stream!Init
    OBVIOUS
  <1>1. ASSUME NEW t \in Threads PROVE Closed(t) = FALSE
    <2>1. ppc[t] = "run"
      BY DEF Init
    <2>2. (ppc[t] \in {"fini", "shut", "closed", "dead"}) = FALSE
      BY <2>1
    <2> QED
      BY <2>2 DEF Closed
  <1>2. [t \in Threads |-> Closed(t)] = [t \in Threads |-> FALSE]
    BY <1>1
  <1>3. (app = "killed") = FALSE
    BY DEF Init
  <1> QED
    BY <1>2, <1>3 DEF Init, Stream!Init

\* Every step is a step of the abstract stream or leaves it alone.
LEMMA StreamStep == IndInv /\ [Next]_vars => [Stream!Next]_(Stream!vars)
  <1> SUFFICES ASSUME IndInv, [Next]_vars PROVE [Stream!Next]_(Stream!vars)
    OBVIOUS
  <1> USE DEF IndInv, TypeOK, PinPC, ListenPC, Closed, Stream!vars
  <1>1. ASSUME NEW t \in Threads, PinStep(t) \/ AppStep(t) PROVE [Stream!Next]_(Stream!vars)
    <2>1. CASE BufferFull(t)
      BY <2>1 DEF BufferFull, PinGoto, pinVars, chanVars, listenVars, mainVars
    <2>2. CASE ExitFlush(t)
      BY <2>2 DEF ExitFlush, PinGoto, pinVars, chanVars, listenVars, mainVars
    <2>3. CASE ExitNoFlush(t)
      <3>1. Stream!Close(t)
        BY <2>3 DEF ExitNoFlush, PinGoto, listenVars, Stream!Close
      <3> QED
        BY <3>1 DEF Stream!Next
    <2>4. CASE ReadRdy(t)
      BY <2>4 DEF ReadRdy, PinGoto, Torn, pinVars, chanVars, listenVars, mainVars
    <2>5. CASE MemcpyDone(t)
      BY <2>5 DEF MemcpyDone, PinGoto, pinVars, chanVars, listenVars, mainVars
    <2>6. CASE SendSize(t)
      <3>1. UNCHANGED <<app, out, fate, lpc>> /\ ppc[t] = "send"
        BY <2>6 DEF SendSize, listenVars
      <3>2. \A u \in Threads :
              Closed(u)' = IF u = t THEN flush[t] ELSE Closed(u)
        BY <2>6 DEF SendSize, Resume, PinGoto
      <3>3. CASE lpc[t] # "done" /\ numBytes[t] = 1
        <4>1. handed' = [handed EXCEPT ![t] = @ + 1]
          BY <2>6, <3>3 DEF SendSize
        <4>2. fate[t] = "aborted" \/ (fate[t] = "open" /\ handed[t] = Len(out[t]))
          BY <3>1, OneMessage
          DEF Baton, Control, Content, CaughtUp, SizeOpen, Live
        <4>3. Stream!HandOff(t)
          BY <3>1, <3>2, <4>1, <4>2 DEF Stream!HandOff
        <4> QED
          BY <4>3 DEF Stream!Next
      <3>4. CASE lpc[t] = "done" \/ numBytes[t] = 0
        <4>1. handed' = handed
          BY <2>6, <3>4 DEF SendSize
        <4>2. CASE flush[t]
          <5>1. Stream!Close(t)
            BY <3>1, <3>2, <4>1, <4>2 DEF Stream!Close
          <5> QED
            BY <5>1 DEF Stream!Next
        <4>3. CASE ~flush[t]
          BY <3>1, <3>2, <4>1, <4>3
        <4> QED
          BY <4>2, <4>3
      <3> QED
        BY <3>3, <3>4
    <2>7. CASE ShutdownSockets(t)
      BY <2>7 DEF ShutdownSockets, PinGoto, pinVars, chanVars, listenVars, mainVars
    <2>8. CASE CloseSockets(t)
      BY <2>8 DEF CloseSockets, PinGoto, pinVars, chanVars, listenVars, mainVars
    <2>9. CASE ThreadDead(t)
      BY <2>9 DEF ThreadDead, PinGoto, pinVars, chanVars, listenVars, mainVars
    <2> QED
      BY <1>1, <2>1, <2>2, <2>3, <2>4, <2>5, <2>6, <2>7, <2>8, <2>9 DEF PinStep, AppStep
  <1>2. ASSUME NEW t \in Threads, ListenStep(t) PROVE [Stream!Next]_(Stream!vars)
    <2>1. CASE StartListen(t)
      BY <2>1 DEF StartListen, ListenGoto, pinVars, chanVars, listenVars, mainVars
    <2>2. CASE SendRdy(t)
      BY <2>2 DEF SendRdy, ListenGoto, pinVars, chanVars, listenVars, mainVars
    <2>3. CASE LeaveLoop(t)
      BY <2>3 DEF LeaveLoop, ListenGoto, pinVars, chanVars, listenVars, mainVars
    <2>4. CASE Recv(t)
      BY <2>4 DEF Recv, ListenGoto, pinVars, chanVars, listenVars, mainVars
    <2>5. CASE RecvEof(t)
      BY <2>5 DEF RecvEof, ListenGoto, pinVars, chanVars, listenVars, mainVars
    <2>6. CASE GetDeltas(t)
      BY <2>6 DEF GetDeltas, ListenGoto, pinVars, chanVars, listenVars, mainVars
    <2>7. CASE MonitorGone(t)
      BY <2>7 DEF MonitorGone, ListenGoto, pinVars, chanVars, listenVars, mainVars
    <2>8. CASE Persist(t)
      <3>1. /\ lpc[t] = "proc" /\ fate[t] = "open" /\ recvData[t] = 1
            /\ UNCHANGED <<handed, ppc, app, fate>>
            /\ out' = [out EXCEPT ![t] = Append(@, shm[t])]
        BY <2>8 DEF Persist, pinVars, Control, Live
      <3>2. CASE Announced(t)
        <4>1. Stream!Persist(t)
          BY <3>1, <3>2 DEF Announced, Stream!Persist
        <4> QED
          BY <4>1 DEF Stream!Next
      <3>3. CASE ~SizeOpen(t) /\ CaughtUp(t)
        <4>1. Closed(t) /\ 0 < handed[t] /\ handed[t] <= Len(out[t])
          BY <3>1, <3>3 DEF Content, CaughtUp, SizeOpen, Live
        <4>2. shm[t] \in Stream!Leftover(t)
          BY <3>1, <3>3 DEF Content, Mapping, SizeOpen, Live, Stream!Leftover, Torn,
             Stream!Torn
        <4>3. Stream!Trail(t)
          BY <3>1, <4>1, <4>2 DEF Stream!Trail
        <4> QED
          BY <4>3 DEF Stream!Next
      <3> QED
        BY <3>1, <3>2, <3>3 DEF Content, Live
    <2>9. CASE EndIteration(t)
      BY <2>9 DEF EndIteration, ListenGoto, pinVars, chanVars, listenVars, mainVars
    <2>10. CASE PostLoop(t)
      <3>1. /\ lpc[t] = "post" /\ fate[t] = "open" /\ Closed(t)
            /\ UNCHANGED <<handed, ppc, app>>
            /\ fate' = [fate EXCEPT ![t] = "finished"]
        BY <2>10 DEF PostLoop, Return, pinVars, Control, Live
      <3>2. \/ UNCHANGED out
            \/ out[t] = <<>> /\ out' = [out EXCEPT ![t] = <<Stream!Residue>>]
        <4>1. CASE UseCompression /\ fresh[t]
          <5>a. Append(<<>>, 0) = <<0>>
            OBVIOUS
          <5>b. out[t] = <<>>
            BY <3>1, <4>1 DEF Content, Live
          <5>1. out[t] = <<>> /\ Append(out[t], Residue) = <<0>>
            BY <5>a, <5>b DEF Residue
          <5>2. out' = [out EXCEPT ![t] = Append(@, Residue)]
            BY <2>10, <4>1 DEF PostLoop
          <5>3. out' = [out EXCEPT ![t] = <<0>>]
            BY <5>1, <5>2
          <5> QED
            BY <5>1, <5>3 DEF Stream!Residue
        <4>2. CASE ~(UseCompression /\ fresh[t])
          BY <2>10, <4>2 DEF PostLoop
        <4> QED
          BY <4>1, <4>2
      <3>3. Stream!Finish(t)
        BY <3>1, <3>2 DEF Stream!Finish
      <3> QED
        BY <3>3 DEF Stream!Next
    <2>11. CASE CloseRdyFd(t)
      BY <2>11 DEF CloseRdyFd, ListenGoto, pinVars, chanVars, listenVars, mainVars
    <2>12. CASE Cleanup(t)
      BY <2>12 DEF Cleanup, ListenGoto, pinVars, chanVars, listenVars, mainVars
    <2> QED
      BY <1>2, <2>1, <2>2, <2>3, <2>4, <2>5, <2>6, <2>7, <2>8, <2>9, <2>10, <2>11,
         <2>12 DEF ListenStep
  <1>3. ASSUME NEW t \in Threads, FaultStep(t) PROVE [Stream!Next]_(Stream!vars)
    <2>1. CASE ReadRdyFails(t)
      <3>1. CASE flush[t]
        <4>1. Stream!Close(t)
          BY <2>1, <3>1 DEF ReadRdyFails, Resume, PinGoto, listenVars, Stream!Close
        <4> QED
          BY <4>1 DEF Stream!Next
      <3>2. CASE ~flush[t]
        BY <2>1, <3>2 DEF ReadRdyFails, Resume, PinGoto, listenVars
      <3> QED
        BY <3>1, <3>2
    <2>2. CASE MonitorThrows(t)
      <3>1. Stream!Abort(Threads)
        BY <2>2 DEF MonitorThrows, pinVars, Stream!Abort
      <3> QED
        BY <3>1 DEF Stream!Next
    <2>3. CASE SendRdyError(t)
      <3>1. fate[t] = "open"
        BY <2>3 DEF SendRdyError, Control, Live
      <3>2. Stream!Abort({t})
        BY <2>3, <3>1 DEF SendRdyError, GiveUp, Return, pinVars, Stream!Abort
      <3> QED
        BY <3>2 DEF Stream!Next
    <2>4. CASE RecvError(t)
      <3>1. fate[t] = "open"
        BY <2>4 DEF RecvError, Control, Live
      <3>2. Stream!Abort({t})
        BY <2>4, <3>1 DEF RecvError, GiveUp, Return, pinVars, Stream!Abort
      <3> QED
        BY <3>2 DEF Stream!Next
    <2>5. CASE PersistError(t)
      <3>1. fate[t] = "open"
        BY <2>5 DEF PersistError, Control, Live
      <3>2. Stream!Abort({t})
        BY <2>5, <3>1 DEF PersistError, GiveUp, Return, pinVars, Stream!Abort
      <3> QED
        BY <3>2 DEF Stream!Next
    <2>6. CASE PostLoopError(t)
      <3>1. fate[t] = "open"
        BY <2>6 DEF PostLoopError, Control, Live
      <3>2. Stream!Abort({t})
        BY <2>6, <3>1 DEF PostLoopError, GiveUp, Return, pinVars, Stream!Abort
      <3> QED
        BY <3>2 DEF Stream!Next
    <2> QED
      BY <1>3, <2>1, <2>2, <2>3, <2>4, <2>5, <2>6 DEF FaultStep
  <1>4. CASE AppKilled
    <2>1. Stream!Kill
      BY <1>4 DEF AppKilled, listenVars, Stream!Kill
    <2> QED
      BY <2>1 DEF Stream!Next
  <1>5. CASE Fini
    BY <1>5 DEF Fini, pinVars, chanVars, listenVars, mainVars
  <1>6. CASE SeeStop
    BY <1>6 DEF SeeStop, pinVars, chanVars, listenVars, mainVars
  <1>7. CASE MainExit
    BY <1>7 DEF MainExit, pinVars, chanVars, listenVars, mainVars
  <1>8. CASE Terminated \/ UNCHANGED vars
    BY <1>8 DEF Terminated, vars
  <1> QED
    BY <1>1, <1>2, <1>3, <1>4, <1>5, <1>6, <1>7, <1>8 DEF Next

\* The hand-off implements the abstract stream: every buffer reaches its place
\* before the next one is handed over, and only the end of a stream may differ.
THEOREM Refinement == Spec => ImplementsStream
  BY StreamInit, StreamStep, Inductive, PTL
  DEF Spec, ImplementsStream, Stream!Spec

-----------------------------------------------------------------------------
(* The order of the stream. *)

\* A torn buffer is the last thing a listener puts into its stream.
TornEnds(t) ==
    \A i \in DOMAIN out[t] :
        out[t][i] = Torn => app = "killed" /\ lpc[t] \notin {"init", "recv", "got", "proc"}

\* What InOrder says of one place of a stream.
Placed(t, i) ==
    \/ out[t][i] = i /\ (i <= handed[t] \/ app = "killed")
    \/ out[t][i] = handed[t] /\ i > handed[t] /\ ~SizeOpen(t)
    \/ out[t][i] = Residue /\ Len(out[t]) = 1 /\ fate[t] = "finished"
    \/ out[t][i] = Torn /\ i = Len(out[t]) /\ app = "killed"

OrderInv(t) == TornEnds(t) /\ \A i \in DOMAIN out[t] : Placed(t, i)

\* A step that leaves the stream of a thread alone: Pin hands nothing over after
\* its shutdown, and neither death nor completion is ever undone.
LeavesStream(t) ==
    /\ out'[t] = out[t]
    /\ handed'[t] \in Nat /\ handed'[t] >= handed[t]
    /\ ~SizeOpen(t) => handed'[t] = handed[t] /\ ~SizeOpen(t)'
    /\ app = "killed" => app' = "killed"
    /\ fate[t] = "finished" => fate'[t] = "finished"
    /\ app = "killed" /\ lpc'[t] \in {"init", "recv", "got", "proc"}
         => lpc[t] \in {"init", "recv", "got", "proc"}

\* Such a step keeps the order of the stream.
LEMMA OrderFrame ==
  ASSUME NEW t \in Threads, IndInv, OrderInv(t), LeavesStream(t)
  PROVE  OrderInv(t)'
  <1>1. handed[t] \in Nat /\ out[t] \in Seq(Int)
    BY DEF IndInv, TypeOK
  <1>2. TornEnds(t)'
    BY DEF OrderInv, TornEnds, LeavesStream
  <1>3. ASSUME NEW i \in DOMAIN out[t] PROVE Placed(t, i)'
    <2>1. Placed(t, i) /\ i \in Nat
      BY <1>1 DEF OrderInv
    <2> QED
      BY <1>1, <2>1 DEF Placed, LeavesStream
  <1> QED
    BY <1>2, <1>3 DEF OrderInv, LeavesStream

\* Persist appends what the mapping holds, which Content says belongs there.
LEMMA OrderPersist ==
  ASSUME NEW t \in Threads, IndInv, OrderInv(t), Persist(t)
  PROVE  OrderInv(t)'
  <1>1. /\ lpc[t] = "proc" /\ recvData[t] = 1 /\ lpc'[t] = "tail"
        /\ out'[t] = Append(out[t], shm[t])
        /\ UNCHANGED <<handed, ppc, app, fate>>
    BY DEF Persist, ListenGoto, pinVars, IndInv, TypeOK, Control
  <1>2. /\ handed[t] \in Nat /\ out[t] \in Seq(Int) /\ shm[t] \in Int
        /\ Mapping(t) /\ fate[t] = "open"
        /\ Announced(t) \/ (~SizeOpen(t) /\ CaughtUp(t))
    BY <1>1 DEF IndInv, TypeOK, Content, Control, Live
  <1>3. /\ Len(out'[t]) = Len(out[t]) + 1
        /\ DOMAIN out'[t] = 1..(Len(out[t]) + 1)
        /\ \A i \in DOMAIN out[t] : out'[t][i] = out[t][i]
        /\ out'[t][Len(out[t]) + 1] = shm[t]
        /\ DOMAIN out[t] = 1..Len(out[t])
    BY <1>1, <1>2
  <1>4. ASSUME NEW i \in DOMAIN out[t] PROVE out[t][i] # Torn /\ Placed(t, i)'
    <2>1. out[t][i] # Torn /\ Placed(t, i) /\ out'[t][i] = out[t][i]
      BY <1>1, <1>3 DEF OrderInv, TornEnds
    <2> QED
      BY <1>1, <1>2, <2>1 DEF Placed, SizeOpen
  <1>5. ASSUME NEW n \in Nat, n = Len(out[t]) + 1
        PROVE  Placed(t, n)' /\ (shm[t] = Torn => app = "killed")
    <2>a. out'[t][n] = shm[t] /\ Len(out'[t]) = n
      BY <1>3, <1>5
    <2>1. CASE Announced(t)
      BY <1>1, <1>2, <1>5, <2>a, <2>1 DEF Announced, Placed, Torn
    <2>2. CASE ~SizeOpen(t) /\ CaughtUp(t)
      <3>1. CASE shm[t] = handed[t]
        BY <1>1, <1>2, <1>5, <2>a, <2>2, <3>1 DEF CaughtUp, Placed, SizeOpen, Torn
      <3>2. CASE shm[t] # handed[t]
        <4>1. /\ app = "killed" /\ shm[t] \in {handed[t] + 1, Torn}
              /\ handed[t] = Len(out[t])
          BY <1>1, <1>2, <2>2, <3>2 DEF Mapping, SizeOpen
        <4> QED
          BY <1>1, <1>2, <1>5, <2>a, <4>1 DEF Placed
      <3> QED
        BY <3>1, <3>2
    <2> QED
      BY <1>2, <2>1, <2>2
  <1>6. TornEnds(t)'
    <2>1. Len(out[t]) + 1 \in Nat
      BY <1>2
    <2>2. shm[t] = Torn => app = "killed"
      BY <1>5, <2>1
    <2> QED
      BY <1>1, <1>2, <1>3, <1>4, <2>2 DEF TornEnds
  <1>7. ASSUME NEW i \in DOMAIN out'[t] PROVE Placed(t, i)'
    <2>1. i \in Nat /\ (i \in DOMAIN out[t] \/ i = Len(out[t]) + 1)
      BY <1>2, <1>3
    <2> QED
      BY <1>4, <1>5, <2>1
  <1> QED
    BY <1>6, <1>7 DEF OrderInv

\* The end of the frame adds the raw mapping to an empty stream, or nothing.
LEMMA OrderPostLoop ==
  ASSUME NEW t \in Threads, IndInv, OrderInv(t), PostLoop(t)
  PROVE  OrderInv(t)'
  <1>1. /\ lpc[t] = "post" /\ lpc'[t] = "ret" /\ fate[t] = "open"
        /\ fate'[t] = "finished" /\ UNCHANGED <<handed, ppc, app>>
        /\ fresh[t] => out[t] = <<>>
        /\ handed[t] \in Nat
    BY DEF PostLoop, Return, ListenGoto, pinVars, IndInv, TypeOK, Control, Content, Live
  <1>2. CASE UseCompression /\ fresh[t]
    <2>1. out[t] = <<>> /\ Append(<<>>, 0) = <<0>>
      BY <1>1, <1>2
    <2>2. out'[t] = <<0>>
      BY <1>2, <2>1 DEF PostLoop, IndInv, TypeOK, Residue
    <2>3. DOMAIN out'[t] = {1} /\ out'[t][1] = 0 /\ Len(out'[t]) = 1
      BY <2>2
    <2> QED
      BY <1>1, <2>3 DEF OrderInv, TornEnds, Placed, Residue, Torn
  <1>3. CASE ~(UseCompression /\ fresh[t])
    <2>1. out'[t] = out[t]
      BY <1>3 DEF PostLoop
    <2>2. LeavesStream(t)
      BY <1>1, <2>1 DEF LeavesStream, SizeOpen
    <2> QED
      BY <2>2, OrderFrame
  <1> QED
    BY <1>2, <1>3

\* Every step keeps the order of every stream.
LEMMA OrderStep ==
  ASSUME IndInv, [Next]_vars, NEW u \in Threads, OrderInv(u)
  PROVE  OrderInv(u)'
  <1> SUFFICES LeavesStream(u) \/ OrderInv(u)'
    BY OrderFrame
  <1> USE DEF IndInv, TypeOK, PinPC, ListenPC, LeavesStream, SizeOpen, RdyOpen
  <1>1. ASSUME NEW t \in Threads,
     PinStep(t) \/ AppStep(t) PROVE LeavesStream(u) \/ OrderInv(u)'
    <2>1. CASE BufferFull(t)
      BY <2>1 DEF BufferFull, PinGoto, pinVars, chanVars, listenVars, mainVars
    <2>2. CASE ExitFlush(t)
      BY <2>2 DEF ExitFlush, PinGoto, pinVars, chanVars, listenVars, mainVars
    <2>3. CASE ExitNoFlush(t)
      BY <2>3 DEF ExitNoFlush, PinGoto, pinVars, chanVars, listenVars, mainVars
    <2>4. CASE ReadRdy(t)
      BY <2>4 DEF ReadRdy, PinGoto, Torn, pinVars, chanVars, listenVars, mainVars
    <2>5. CASE MemcpyDone(t)
      BY <2>5 DEF MemcpyDone, PinGoto, pinVars, chanVars, listenVars, mainVars
    <2>6. CASE SendSize(t)
      <3>1. UNCHANGED <<app, out, lpc, fate>> /\ ppc[t] = "send"
        BY <2>6 DEF SendSize, listenVars
      <3>2. ppc'[u] = ppc[u] \/ SizeOpen(u)
        BY <2>6, <3>1 DEF SendSize, Resume, PinGoto
      <3>3. handed'[u] \in Nat /\ handed'[u] >= handed[u]
        <4>1. numBytes[t] \in 0..1 /\ handed[t] \in Nat /\ handed[u] \in Nat
          OBVIOUS
        <4> QED
          BY <2>6, <4>1 DEF SendSize
      <3>4. ~SizeOpen(u) => handed'[u] = handed[u]
        BY <2>6, <3>1 DEF SendSize
      <3> QED
        BY <3>1, <3>2, <3>3, <3>4
    <2>7. CASE ShutdownSockets(t)
      BY <2>7 DEF ShutdownSockets, PinGoto, pinVars, chanVars, listenVars, mainVars
    <2>8. CASE CloseSockets(t)
      BY <2>8 DEF CloseSockets, PinGoto, pinVars, chanVars, listenVars, mainVars
    <2>9. CASE ThreadDead(t)
      BY <2>9 DEF ThreadDead, PinGoto, pinVars, chanVars, listenVars, mainVars
    <2> QED
      BY <1>1, <2>1, <2>2, <2>3, <2>4, <2>5, <2>6, <2>7, <2>8, <2>9 DEF PinStep, AppStep
  <1>2. ASSUME NEW t \in Threads, ListenStep(t) PROVE LeavesStream(u) \/ OrderInv(u)'
    <2>1. CASE StartListen(t)
      BY <2>1 DEF StartListen, ListenGoto, pinVars, chanVars, listenVars, mainVars
    <2>2. CASE SendRdy(t)
      BY <2>2 DEF SendRdy, ListenGoto, pinVars, chanVars, listenVars, mainVars, Control,
         Live
    <2>3. CASE LeaveLoop(t)
      BY <2>3 DEF LeaveLoop, ListenGoto, pinVars, chanVars, listenVars, mainVars
    <2>4. CASE Recv(t)
      BY <2>4 DEF Recv, ListenGoto, pinVars, chanVars, listenVars, mainVars
    <2>5. CASE RecvEof(t)
      BY <2>5 DEF RecvEof, ListenGoto, pinVars, chanVars, listenVars, mainVars
    <2>6. CASE GetDeltas(t)
      BY <2>6 DEF GetDeltas, ListenGoto, pinVars, chanVars, listenVars, mainVars
    <2>7. CASE MonitorGone(t)
      BY <2>7 DEF MonitorGone, ListenGoto, pinVars, chanVars, listenVars, mainVars
    <2>8. CASE Persist(t)
      <3>1. CASE u = t
        BY <2>8, <3>1, OrderPersist
      <3>2. CASE u # t
        BY <2>8, <3>2 DEF Persist, ListenGoto, pinVars, chanVars, listenVars, mainVars
      <3> QED
        BY <3>1, <3>2
    <2>9. CASE EndIteration(t)
      BY <2>9 DEF EndIteration, ListenGoto, pinVars, chanVars, listenVars, mainVars
    <2>10. CASE PostLoop(t)
      <3>1. CASE u = t
        BY <2>10, <3>1, OrderPostLoop
      <3>2. CASE u # t
        BY <2>10, <3>2 DEF PostLoop, Return, ListenGoto, Residue, pinVars, chanVars,
           listenVars, mainVars
      <3> QED
        BY <3>1, <3>2
    <2>11. CASE CloseRdyFd(t)
      BY <2>11 DEF CloseRdyFd, ListenGoto, pinVars, chanVars, listenVars, mainVars
    <2>12. CASE Cleanup(t)
      BY <2>12 DEF Cleanup, ListenGoto, pinVars, chanVars, listenVars, mainVars
    <2> QED
      BY <1>2, <2>1, <2>2, <2>3, <2>4, <2>5, <2>6, <2>7, <2>8, <2>9, <2>10, <2>11,
         <2>12 DEF ListenStep
  <1>3. ASSUME NEW t \in Threads, FaultStep(t) PROVE LeavesStream(u) \/ OrderInv(u)'
    <2>1. CASE ReadRdyFails(t)
      BY <2>1 DEF ReadRdyFails, Resume, PinGoto, pinVars, chanVars, listenVars, mainVars
    <2>2. CASE MonitorThrows(t)
      BY <2>2 DEF MonitorThrows, pinVars, chanVars, listenVars, mainVars, Control, Live
    <2>3. CASE SendRdyError(t)
      BY <2>3 DEF SendRdyError, GiveUp, Return, ListenGoto, pinVars, chanVars,
         listenVars, mainVars, Control, Live
    <2>4. CASE RecvError(t)
      BY <2>4 DEF RecvError, GiveUp, Return, ListenGoto, pinVars, chanVars, listenVars,
         mainVars, Control, Live
    <2>5. CASE PersistError(t)
      BY <2>5 DEF PersistError, GiveUp, Return, ListenGoto, pinVars, chanVars,
         listenVars, mainVars, Control, Live
    <2>6. CASE PostLoopError(t)
      BY <2>6 DEF PostLoopError, GiveUp, Return, ListenGoto, pinVars, chanVars,
         listenVars, mainVars, Control, Live
    <2> QED
      BY <1>3, <2>1, <2>2, <2>3, <2>4, <2>5, <2>6 DEF FaultStep
  <1>4. CASE AppKilled
    BY <1>4 DEF AppKilled, pinVars, chanVars, listenVars, mainVars
  <1>5. CASE Fini
    BY <1>5 DEF Fini, pinVars, chanVars, listenVars, mainVars
  <1>6. CASE SeeStop
    BY <1>6 DEF SeeStop, pinVars, chanVars, listenVars, mainVars
  <1>7. CASE MainExit
    BY <1>7 DEF MainExit, pinVars, chanVars, listenVars, mainVars
  <1>8. CASE Terminated \/ UNCHANGED vars
    BY <1>8 DEF Terminated, vars
  <1> QED
    BY <1>1, <1>2, <1>3, <1>4, <1>5, <1>6, <1>7, <1>8 DEF Next

\* A stream holds the buffers of its thread in order; what may follow the last
\* one is a copy of it, the raw mapping, or a memcpy the death of Pin cut off.
THEOREM StreamInOrder == Spec => []InOrder
  <1> DEFINE Ord == \A t \in Threads : OrderInv(t)
  <1>1. ASSUME Init PROVE Ord
    <2>1. \A t \in Threads : out[t] = <<>>
      BY <1>1 DEF Init
    <2>2. ASSUME NEW t \in Threads, NEW i \in DOMAIN out[t] PROVE FALSE
      <3>1. out[t] \in Seq(Int) /\ Len(out[t]) = 0
        BY <2>1, <2>2
      <3> QED
        BY <3>1, <2>2
    <2> QED
      BY <2>2 DEF OrderInv, TornEnds
  <1>2. IndInv /\ Ord /\ [Next]_vars => Ord'
    BY OrderStep
  <1>3. Ord => InOrder
    BY DEF OrderInv, Placed, InOrder
  <1> QED
    BY <1>1, <1>2, <1>3, Inductive, PTL DEF Spec

-----------------------------------------------------------------------------
(* The end of the consumer. *)

\* The stop file comes from Fini alone, main leaves its scan for it alone and
\* returns only after every join; a listener that finished its stream left no
\* message behind, and its thread sends none any more.
Exits ==
    /\ stopFile \/ stop => app = "exited"
    /\ main \in {"join", "exited"} => stop
    /\ main = "exited" => \A t \in Threads : lpc[t] = "done"
    /\ \A t \in Threads : fate[t] = "finished" => size[t] = <<>>

\* Only Fini, AppKilled and SeeStop, MainExit and the crash touch these.
LEMMA ExitsControl ==
    ASSUME IndInv, Exits, [Next]_vars
    PROVE  /\ stopFile' \/ stop' => app' = "exited"
           /\ main' \in {"join", "exited"} => stop'
           /\ main' = "exited" => \A t \in Threads : lpc'[t] = "done"
  <1>1. ASSUME NEW t \in Threads, PinStep(t) \/ AppStep(t)
        PROVE  UNCHANGED <<stopFile, stop, app, main, lpc>>
    BY <1>1 DEF PinStep, AppStep, BufferFull, ExitFlush, ExitNoFlush, ReadRdy, MemcpyDone,
       SendSize, ShutdownSockets, CloseSockets, ThreadDead, listenVars, mainVars
  <1>2. ASSUME NEW t \in Threads, ListenStep(t)
        PROVE  UNCHANGED <<stopFile, stop, app, main>> /\ lpc[t] # "done"
    BY <1>2 DEF ListenStep, StartListen, SendRdy, LeaveLoop, Recv, RecvEof, GetDeltas,
       MonitorGone, Persist, EndIteration, PostLoop, CloseRdyFd, Cleanup, pinVars, mainVars
  <1>3. ASSUME NEW t \in Threads, FaultStep(t)
        PROVE  /\ UNCHANGED <<stopFile, stop, app>>
               /\ \/ UNCHANGED <<main, lpc>>
                  \/ UNCHANGED main /\ lpc[t] # "done"
                  \/ main' = "crashed"
    BY <1>3 DEF FaultStep, ReadRdyFails, MonitorThrows, SendRdyError, RecvError,
       PersistError, PostLoopError, GiveUp, pinVars, listenVars, mainVars
  <1>4. CASE AppKilled
    BY <1>4 DEF Exits, AppKilled, listenVars, mainVars
  <1>5. CASE Fini
    BY <1>5 DEF Exits, Fini, listenVars
  <1>6. CASE SeeStop
    BY <1>6 DEF Exits, SeeStop, pinVars, listenVars
  <1>7. CASE MainExit
    BY <1>7 DEF Exits, MainExit, pinVars, listenVars
  <1>8. CASE Terminated \/ UNCHANGED vars
    BY <1>8 DEF Exits, Terminated, vars
  <1> QED
    BY <1>1, <1>2, <1>3, <1>4, <1>5, <1>6, <1>7, <1>8 DEF Exits, Next

\* The end of a stream finds the queue empty, and Closed keeps it so.
LEMMA ExitsQueue ==
    ASSUME IndInv, Exits, [Next]_vars, NEW u \in Threads, fate'[u] = "finished"
    PROVE  size'[u] = <<>>
  <1>0. TypeOK /\ Baton(u) /\ Control(u) /\ (fate[u] = "finished" => size[u] = <<>>)
    BY DEF IndInv, Exits
  <1>1. ASSUME NEW t \in Threads, PinStep(t) \/ AppStep(t) PROVE size'[u] = <<>>
    <2>1. fate' = fate
      BY <1>1 DEF PinStep, AppStep, BufferFull, ExitFlush, ExitNoFlush, ReadRdy,
         MemcpyDone, SendSize, ShutdownSockets, CloseSockets, ThreadDead, listenVars
    <2>2. CASE SendSize(t)
      <3>1. t # u
        BY <1>0, <2>1, <2>2 DEF SendSize, Control, Closed
      <3> QED
        BY <1>0, <2>1, <2>2, <3>1 DEF SendSize, TypeOK
    <2>3. CASE ~SendSize(t)
      <3>1. size' = size
        BY <1>1, <2>3 DEF PinStep, AppStep, BufferFull, ExitFlush, ExitNoFlush, ReadRdy,
           MemcpyDone, ShutdownSockets, CloseSockets, ThreadDead, chanVars
      <3> QED
        BY <1>0, <2>1, <3>1
    <2> QED
      BY <2>2, <2>3
  <1>2. ASSUME NEW t \in Threads, ListenStep(t) PROVE size'[u] = <<>>
    <2>1. CASE PostLoop(t)
      <3>1. size' = size /\ lpc[t] = "post" /\ fate' = [fate EXCEPT ![t] = "finished"]
        BY <2>1 DEF PostLoop, Return, chanVars
      <3>2. CASE t = u
        BY <1>0, <3>1, <3>2 DEF Baton, Live
      <3>3. CASE t # u
        BY <1>0, <3>1, <3>3 DEF TypeOK
      <3> QED
        BY <3>2, <3>3
    <2>2. CASE Recv(t)
      <3>1. fate' = fate /\ lpc[t] = "recv" /\ size' = [size EXCEPT ![t] = Tail(@)]
        BY <2>2 DEF Recv
      <3>2. t # u
        BY <1>0, <3>1 DEF Control, Live
      <3> QED
        BY <1>0, <3>1, <3>2 DEF TypeOK
    <2>3. CASE ~PostLoop(t) /\ ~Recv(t)
      <3>1. fate' = fate /\ size' = size
        BY <1>2, <2>3 DEF ListenStep, StartListen, SendRdy, LeaveLoop, RecvEof, GetDeltas,
           MonitorGone, Persist, EndIteration, CloseRdyFd, Cleanup, chanVars
      <3> QED
        BY <1>0, <3>1
    <2> QED
      BY <2>1, <2>2, <2>3
  <1>3. ASSUME NEW t \in Threads, FaultStep(t) PROVE size'[u] = <<>>
    <2>1. size' = size
      BY <1>3 DEF FaultStep, ReadRdyFails, MonitorThrows, SendRdyError, RecvError,
         PersistError, PostLoopError, GiveUp, chanVars
    <2>2. fate[u] = "finished"
      BY <1>0, <1>3 DEF FaultStep, ReadRdyFails, MonitorThrows, SendRdyError, RecvError,
         PersistError, PostLoopError, GiveUp, Return, listenVars, TypeOK
    <2> QED
      BY <1>0, <2>1, <2>2
  <1>4. CASE AppKilled \/ Fini \/ SeeStop \/ MainExit \/ Terminated \/ UNCHANGED vars
    <2>1. fate' = fate /\ size' = size
      BY <1>4 DEF AppKilled, Fini, SeeStop, MainExit, Terminated, vars, chanVars, listenVars
    <2> QED
      BY <1>0, <2>1
  <1> QED
    BY <1>1, <1>2, <1>3, <1>4 DEF Next

\* main of the consumer returns only after Fini, with every thread gone, every
\* receiver joined, every output closed and no metadata unread in a finished
\* stream, whatever failed on the way.
THEOREM ExitClean == Spec => []ExitIsClean
  <1>1. Init => Exits
    BY DEF Init, Exits
  <1>2. IndInv /\ Exits /\ [Next]_vars => Exits'
    <2> SUFFICES ASSUME IndInv, Exits, [Next]_vars PROVE Exits'
      OBVIOUS
    <2>1. \A t \in Threads : fate'[t] = "finished" => size'[t] = <<>>
      BY ExitsQueue
    <2> QED
      BY <2>1, ExitsControl DEF Exits
  <1>3. IndInv /\ Exits => ExitIsClean
    BY DEF IndInv, Control, Live, Exits, ExitIsClean
  <1> QED
    BY <1>1, <1>2, <1>3, Inductive, PTL DEF Spec

-----------------------------------------------------------------------------
(* Nobody waits for somebody who waits. *)

\* A listener in recv has passed the turn to its thread: the ready signal is
\* under way, or the thread works on its answer, or the answer is under way.
Passed(t) ==
    lpc[t] = "recv" /\ SizeOpen(t) =>
        rdy[t] > 0 \/ ppc[t] \in {"copy", "send"} \/ size[t] # <<>>

\* The turn goes from the signal to the copy, from there to the message; the
\* message taken, the listener is no longer in recv.
LEMMA PassedStep ==
    ASSUME TypeOK, NEW u \in Threads, Passed(u), [Next]_vars
    PROVE  Passed(u)'
  <1>1. ASSUME NEW t \in Threads, PinStep(t) \/ AppStep(t) PROVE Passed(u)'
    <2>1. CASE ReadRdy(t)
      BY <2>1 DEF TypeOK, Passed, SizeOpen, ReadRdy, PinGoto, listenVars
    <2>2. CASE MemcpyDone(t)
      BY <2>2 DEF TypeOK, Passed, SizeOpen, MemcpyDone, PinGoto, listenVars
    <2>3. CASE SendSize(t)
      <3>1. size[t] \in Seq(0..1) /\ numBytes[t] \in 0..1
        BY DEF TypeOK
      <3>2. Len(Append(size[t], numBytes[t])) = Len(size[t]) + 1
        BY <3>1
      <3>3. Append(size[t], numBytes[t]) # <<>>
        BY <3>1, <3>2
      <3> QED
        BY <2>3, <3>3 DEF TypeOK, Passed, SizeOpen, SendSize, Resume, PinGoto, listenVars
    <2>4. CASE ShutdownSockets(t) \/ CloseSockets(t) \/ ThreadDead(t)
      BY <2>4 DEF TypeOK, Passed, SizeOpen, ShutdownSockets, CloseSockets, ThreadDead,
         PinGoto, chanVars, listenVars
    <2>5. CASE AppStep(t)
      BY <2>5 DEF TypeOK, Passed, SizeOpen, AppStep, BufferFull, ExitFlush, ExitNoFlush,
         PinGoto, chanVars, listenVars
    <2> QED
      BY <1>1, <2>1, <2>2, <2>3, <2>4, <2>5 DEF PinStep
  <1>2. ASSUME NEW t \in Threads, ListenStep(t) PROVE Passed(u)'
    <2>1. CASE SendRdy(t)
      BY <2>1 DEF TypeOK, Passed, SizeOpen, SendRdy, ListenGoto, pinVars
    <2>2. CASE Recv(t)
      BY <2>2 DEF TypeOK, Passed, SizeOpen, Recv, ListenGoto, pinVars
    <2>3. CASE ~SendRdy(t) /\ ~Recv(t)
      <3>1. UNCHANGED <<ppc, rdy, size>> /\ (lpc'[u] = lpc[u] \/ lpc'[u] # "recv")
        BY <1>2, <2>3 DEF ListenStep, StartListen, LeaveLoop, RecvEof, GetDeltas,
           MonitorGone, Persist, EndIteration, PostLoop, CloseRdyFd, Cleanup, Return,
           ListenGoto, TypeOK, pinVars, chanVars
      <3> QED
        BY <3>1 DEF Passed, SizeOpen
    <2> QED
      BY <2>1, <2>2, <2>3
  <1>3. ASSUME NEW t \in Threads, FaultStep(t) PROVE Passed(u)'
    <2>1. CASE ReadRdyFails(t)
      BY <2>1 DEF TypeOK, Passed, SizeOpen, ReadRdyFails, Resume, PinGoto, chanVars,
         listenVars
    <2>2. CASE ~ReadRdyFails(t)
      <3>1. UNCHANGED <<ppc, rdy, size>> /\ (lpc'[u] = lpc[u] \/ lpc'[u] # "recv")
        BY <1>3, <2>2 DEF FaultStep, MonitorThrows, SendRdyError, RecvError, PersistError,
           PostLoopError, GiveUp, Return, ListenGoto, TypeOK, pinVars, chanVars
      <3> QED
        BY <3>1 DEF Passed, SizeOpen
    <2> QED
      BY <2>1, <2>2
  <1>4. CASE AppKilled
    BY <1>4 DEF AppKilled, Passed, SizeOpen
  <1>5. CASE Fini \/ SeeStop \/ MainExit \/ Terminated \/ UNCHANGED vars
    <2>1. UNCHANGED <<ppc, rdy, size, lpc>>
      BY <1>5 DEF Fini, SeeStop, MainExit, Terminated, vars, pinVars, chanVars, listenVars
    <2> QED
      BY <2>1 DEF Passed, SizeOpen
  <1> QED
    BY <1>1, <1>2, <1>3, <1>4, <1>5 DEF Next

\* A thread in read(sock_rdy) and its listener in recv(size_fd) never wait for
\* each other, with any threads and whatever system calls fail.
THEOREM NoMutualWait == Spec => []NeverBothWait
  <1> DEFINE Turn == \A t \in Threads : Passed(t)
  <1>1. Init => Turn
    BY DEF Init, Passed
  <1>2. TypeOK /\ Turn /\ [Next]_vars => Turn'
    BY PassedStep
  <1>3. TypeOK /\ Turn => NeverBothWait
    <2> SUFFICES ASSUME NEW t \in Threads, Passed(t), ppc[t] = "wait", rdy[t] = 0,
                        lpc[t] = "recv", size[t] = <<>>
                 PROVE  FALSE
      BY DEF NeverBothWait
    <2> QED
      BY DEF Passed, SizeOpen
  <1> QED
    BY <1>1, <1>2, <1>3, TypeCorrect, PTL DEF Spec
=============================================================================
