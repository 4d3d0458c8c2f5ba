------------------------------- MODULE Handoff -------------------------------
(***************************************************************************)
(* The per-thread hand-off of trace buffers from the Pin tool to the       *)
(* consumer, from the first full buffer of a thread to the removal of its  *)
(* IPC files.                                                              *)
(*                                                                         *)
(* Pin side (src/src/pintool): the BufferFull callback, its body           *)
(* CopyToSharedMemory, the ThreadFini and Fini callbacks.                  *)
(* Consumer side (src/src/consumer/consumer.cpp): one Listen loop per      *)
(* application thread, the tail of ReceiverThread, and the part of main    *)
(* that sees the stop file and joins the receivers.                        *)
(*                                                                         *)
(* A thread and its listener share a memory mapping and two stream         *)
(* sockets: rdy (consumer to Pin) and size (Pin to consumer).  How they    *)
(* get connected is the subject of module Startup; here every thread       *)
(* starts connected.                                                       *)
(*                                                                         *)
(* Data.  A buffer is its position in the sequence of buffers the thread   *)
(* handed over (1, 2, ...); a length is 0 (no bytes) or 1 (some bytes).    *)
(***************************************************************************)
EXTENDS Integers, Sequences

CONSTANTS
    Threads,         \* application threads under Pin
    MaxBuffers,      \* bound: full buffers per thread, the exit flush not counted
    MaxStale,        \* bound: recv calls per thread that return 0 between Pin's
                     \*   shutdown of its sockets and their close
    UseCompression,  \* consumer flag use_compression
    Faults           \* do system calls fail, may the application be killed

ASSUME HandoffAssumption ==
    /\ MaxBuffers \in Nat
    /\ MaxStale \in Nat
    /\ UseCompression \in BOOLEAN
    /\ Faults \in BOOLEAN

VARIABLES
    ppc,        \* where each application thread is inside the Pin tool
    filled,     \* full buffers so far (only bounds the model)
    numBytes,   \* numBytes of the hand-off in progress
    flush,      \* is the hand-off in progress the flush at thread exit
    handed,     \* history: non-empty buffers whose metadata was sent
    app,        \* the traced process: "up", "killed" or "exited"
    rdy,        \* ready signals sent and not yet read
    size,       \* metadata messages sent and not yet received
    shm,        \* content of the shared mapping
    lpc,        \* where each listener is
    recvData,   \* recv_data[0] of each listener, kept across iterations
    fresh,      \* no input was given to the compressor since z_in was set up
    stale,      \* recv calls that returned 0 (only bounds the model)
    out,        \* buffers in the output stream of each thread
    fate,       \* of the output file: "open", "finished" or "aborted"
    stopFile,   \* does <dir>/pids/stop exist
    stop,       \* the consumer's global stop
    main        \* consumer main: "scan", "join", "exited" or "crashed"

pinVars == <<ppc, filled, numBytes, flush, handed, app>>
chanVars == <<rdy, size, shm>>
listenVars == <<lpc, recvData, fresh, stale, out, fate>>
mainVars == <<stopFile, stop, main>>
vars == <<ppc, filled, numBytes, flush, handed, app, rdy, size, shm,
          lpc, recvData, fresh, stale, out, fate, stopFile, stop, main>>

\* "run": in application code; "wait": read(sock_rdy); "copy": memcpy;
\* "send": send(sock_size); "fini": in ThreadFini; "shut": both sockets shut
\* down for writing; "closed": sockets closed; "dead": the OS thread is gone.
PinPC == {"run", "wait", "copy", "send", "fini", "shut", "closed", "dead"}

\* "init": before CPU_Monitor; "top": loop condition; "recv": recv(size_fd);
\* "got": metadata read; "proc": reading shared memory; "tail": balancing and
\* statistics; "post": after the loop; "ret": Listen returned; "closing":
\* rdy_fd closed; "done": size_fd closed too and the IPC files removed.
ListenPC == {"init", "top", "recv", "got", "proc", "tail", "post", "ret",
             "closing", "done"}

Torn == -1      \* a memcpy into the mapping has begun and not ended
Residue == 0    \* the whole 2 MB mapping, which no metadata message announced

\* What the consumer's ends of the sockets observe of the Pin side.
SizeOpen(t) == ppc[t] \notin {"shut", "closed", "dead"}
RdyOpen(t) == ppc[t] \notin {"closed", "dead"}

Init ==
    /\ ppc = [t \in Threads |-> "run"]
    /\ filled = [t \in Threads |-> 0]
    /\ numBytes = [t \in Threads |-> 0]
    /\ flush = [t \in Threads |-> FALSE]
    /\ handed = [t \in Threads |-> 0]
    /\ app = "up"
    /\ rdy = [t \in Threads |-> 0]
    /\ size = [t \in Threads |-> <<>>]
    /\ shm = [t \in Threads |-> 0]
    /\ lpc = [t \in Threads |-> "init"]
    /\ recvData = [t \in Threads |-> 0]
    /\ fresh = [t \in Threads |-> TRUE]
    /\ stale = [t \in Threads |-> 0]
    /\ out = [t \in Threads |-> <<>>]
    /\ fate = [t \in Threads |-> "open"]
    /\ stopFile = FALSE
    /\ stop = FALSE
    /\ main = "scan"

PinGoto(t, to) == ppc' = [ppc EXCEPT ![t] = to]
ListenGoto(t, to) == lpc' = [lpc EXCEPT ![t] = to]

-----------------------------------------------------------------------------
(* The Pin side. *)

\* Pin calls BufferFull_PC because the buffer is full.
BufferFull(t) ==
    /\ ppc[t] = "run"
    /\ filled[t] < MaxBuffers
    /\ PinGoto(t, "wait")
    /\ filled' = [filled EXCEPT ![t] = @ + 1]
    /\ numBytes' = [numBytes EXCEPT ![t] = 1]
    /\ flush' = [flush EXCEPT ![t] = FALSE]
    /\ UNCHANGED <<handed, app, chanVars, listenVars, mainVars>>

\* External: a thread that exits has its partly filled buffer passed to
\* BufferFull_PC before ThreadFini runs; it may hold no element at all.
ExitFlush(t) ==
    /\ ppc[t] = "run"
    /\ PinGoto(t, "wait")
    /\ \E n \in 0..1 : numBytes' = [numBytes EXCEPT ![t] = n]
    /\ flush' = [flush EXCEPT ![t] = TRUE]
    /\ UNCHANGED <<filled, handed, app, chanVars, listenVars, mainVars>>

\* External: a thread whose buffer is empty may also exit without the callback.
ExitNoFlush(t) ==
    /\ ppc[t] = "run"
    /\ PinGoto(t, "fini")
    /\ UNCHANGED <<filled, numBytes, flush, handed, app,
                   chanVars, listenVars, mainVars>>

\* Where control goes when CopyToSharedMemory returns.
Resume(t) == PinGoto(t, IF flush[t] THEN "fini" ELSE "run")

\* Mutant of ReadRdy: the socket is non-blocking and "no data" goes unnoticed.
ReadRdyPolls(t) ==
    /\ ppc[t] = "wait"
    /\ rdy' = [rdy EXCEPT ![t] = IF @ > 0 THEN @ - 1 ELSE 0]
    /\ shm' = [shm EXCEPT ![t] = IF numBytes[t] > 0 THEN Torn ELSE @]
    /\ PinGoto(t, "copy")
    /\ UNCHANGED <<filled, numBytes, flush, handed, app, size,
                   listenVars, mainVars>>

\* Mutant of ReadRdy: a signal is taken from the count before it is there.
ReadRdyBorrows(t) ==
    /\ ppc[t] = "wait"
    /\ rdy' = [rdy EXCEPT ![t] = @ - 1]
    /\ shm' = [shm EXCEPT ![t] = IF numBytes[t] > 0 THEN Torn ELSE @]
    /\ PinGoto(t, "copy")
    /\ UNCHANGED <<filled, numBytes, flush, handed, app, size,
                   listenVars, mainVars>>

\* Mutant of ReadRdy: a read that returns 0 is repeated.
ReadRdyRetries(t) ==
    /\ ppc[t] = "wait"
    /\ rdy[t] > 0
    /\ rdy' = [rdy EXCEPT ![t] = @ - 1]
    /\ shm' = [shm EXCEPT ![t] = IF numBytes[t] > 0 THEN Torn ELSE @]
    /\ PinGoto(t, "copy")
    /\ UNCHANGED <<filled, numBytes, flush, handed, app, size,
                   listenVars, mainVars>>

\* read(sock_rdy): a signal is there, or the consumer closed its end and read
\* returns 0, which the tool does not tell from a signal.  memcpy begins.
ReadRdy(t) ==
    /\ ppc[t] = "wait"
    /\ \/ /\ rdy[t] > 0
          /\ rdy' = [rdy EXCEPT ![t] = @ - 1]
       \/ /\ rdy[t] = 0
          /\ lpc[t] \in {"closing", "done"}
          /\ UNCHANGED rdy
    /\ shm' = [shm EXCEPT ![t] = IF numBytes[t] > 0 THEN Torn ELSE @]
    /\ PinGoto(t, "copy")
    /\ UNCHANGED <<filled, numBytes, flush, handed, app, size,
                   listenVars, mainVars>>

\* read(sock_rdy) returns -1: the buffer is dropped.
ReadRdyFails(t) ==
    /\ Faults
    /\ ppc[t] = "wait"
    /\ Resume(t)
    /\ UNCHANGED <<filled, numBytes, flush, handed, app,
                   chanVars, listenVars, mainVars>>

\* memcpy and the release fence are done.
MemcpyDone(t) ==
    /\ ppc[t] = "copy"
    /\ shm' = [shm EXCEPT ![t] = IF numBytes[t] > 0 THEN handed[t] + 1 ELSE @]
    /\ PinGoto(t, "send")
    /\ UNCHANGED <<filled, numBytes, flush, handed, app, rdy, size,
                   listenVars, mainVars>>

\* send(sock_size); on a closed socket it returns -1 and the tool goes on.
SendSize(t) ==
    /\ ppc[t] = "send"
    /\ \/ /\ lpc[t] # "done"
          /\ size' = [size EXCEPT ![t] = Append(@, numBytes[t])]
          /\ handed' = [handed EXCEPT ![t] = @ + numBytes[t]]
       \/ /\ lpc[t] = "done"
          /\ UNCHANGED <<size, handed>>
    /\ Resume(t)
    /\ UNCHANGED <<filled, numBytes, flush, app, rdy, shm, listenVars, mainVars>>

\* The traced process dies without running ThreadFini or Fini: all its threads
\* are gone and the kernel closes their sockets.  Either a signal from outside
\* or the SIGPIPE of a send on a closed socket (flags are 0).
AppKilled ==
    /\ app = "up"
    /\ \/ Faults
       \/ \E t \in Threads : ppc[t] = "send" /\ lpc[t] = "done"
    /\ app' = "killed"
    /\ ppc' = [t \in Threads |-> "dead"]
    /\ UNCHANGED <<filled, numBytes, flush, handed, chanVars, listenVars, mainVars>>

\* ThreadFini: shutdown of both sockets, which ends the size stream.
ShutdownSockets(t) ==
    /\ ppc[t] = "fini"
    /\ PinGoto(t, "shut")
    /\ UNCHANGED <<filled, numBytes, flush, handed, app,
                   chanVars, listenVars, mainVars>>

\* ThreadFini: close of both sockets; from now on send(rdy_fd) is EPIPE.
CloseSockets(t) ==
    /\ ppc[t] = "shut"
    /\ PinGoto(t, "closed")
    /\ UNCHANGED <<filled, numBytes, flush, handed, app,
                   chanVars, listenVars, mainVars>>

\* The rest of ThreadFini, and the end of the operating-system thread.
ThreadDead(t) ==
    /\ ppc[t] = "closed"
    /\ PinGoto(t, "dead")
    /\ UNCHANGED <<filled, numBytes, flush, handed, app,
                   chanVars, listenVars, mainVars>>

\* Fini runs after the last ThreadFini: it creates the stop file and detaches.
Fini ==
    /\ app = "up"
    /\ \A t \in Threads : ppc[t] = "dead"
    /\ app' = "exited"
    /\ stopFile' = TRUE
    /\ UNCHANGED <<ppc, filled, numBytes, flush, handed, stop, main,
                   chanVars, listenVars>>

-----------------------------------------------------------------------------
(* The consumer side. *)

\* Listen ends: with its output stream finished, or by an early return.
Return(t, how) ==
    /\ ListenGoto(t, "ret")
    /\ fate' = [fate EXCEPT ![t] = how]

\* A system call or the compressor reports an error: Listen returns at once,
\* the frame is not finished and the file not renamed.
GiveUp(t) ==
    /\ Faults
    /\ Return(t, "aborted")
    /\ UNCHANGED <<recvData, fresh, stale, out, pinVars, chanVars, mainVars>>

\* Mutant of StartListen: a first ready signal is sent ahead of the loop.
StartListenPrimes(t) ==
    /\ lpc[t] = "init"
    /\ ListenGoto(t, "top")
    /\ rdy' = [rdy EXCEPT ![t] = @ + 1]
    /\ UNCHANGED <<recvData, fresh, stale, out, fate, size, shm, pinVars, mainVars>>

\* The compressor context is set up and CPU_Monitor attaches to the thread.
StartListen(t) ==
    /\ lpc[t] = "init"
    /\ ListenGoto(t, "top")
    /\ UNCHANGED <<recvData, fresh, stale, out, fate, pinVars, chanVars, mainVars>>

\* perf_event_open fails (the thread may be gone already).  Nothing catches the
\* exception of the constructor: the whole consumer terminates.
MonitorThrows(t) ==
    /\ Faults
    /\ lpc[t] = "init"
    /\ main' = "crashed"
    /\ lpc' = [u \in Threads |-> "done"]
    /\ fate' = [u \in Threads |-> IF fate[u] = "open" THEN "aborted" ELSE fate[u]]
    /\ UNCHANGED <<recvData, fresh, stale, out, stopFile, stop, pinVars, chanVars>>

\* while (!stop): send(rdy_fd).  The bound only cuts the number of turns the
\* loop makes on a stream that is at its end.
SendRdy(t) ==
    /\ lpc[t] = "top"
    /\ ~stop
    /\ RdyOpen(t)
    /\ SizeOpen(t) \/ stale[t] < MaxStale
    /\ rdy' = [rdy EXCEPT ![t] = @ + 1]
    /\ ListenGoto(t, "recv")
    /\ UNCHANGED <<size, shm, recvData, fresh, stale, out, fate, pinVars, mainVars>>

\* The loop ends at its top: stop is set, or send(rdy_fd) is EPIPE.
LeaveLoop(t) ==
    /\ lpc[t] = "top"
    /\ stop \/ ~RdyOpen(t)
    /\ ListenGoto(t, "post")
    /\ UNCHANGED <<recvData, fresh, stale, out, fate, pinVars, chanVars, mainVars>>

\* send(rdy_fd) fails with another error.
SendRdyError(t) ==
    /\ lpc[t] = "top"
    /\ ~stop
    /\ GiveUp(t)

\* recv(size_fd) returns a metadata message.
Recv(t) ==
    /\ lpc[t] = "recv"
    /\ size[t] # <<>>
    /\ recvData' = [recvData EXCEPT ![t] = Head(size[t])]
    /\ size' = [size EXCEPT ![t] = Tail(@)]
    /\ ListenGoto(t, "got")
    /\ UNCHANGED <<rdy, shm, fresh, stale, out, fate, pinVars, mainVars>>

\* Mutant of RecvEof: recv does not block and "no data" goes unnoticed.
RecvPolls(t) ==
    /\ lpc[t] = "recv"
    /\ size[t] = <<>>
    /\ stale[t] < MaxStale
    /\ stale' = [stale EXCEPT ![t] = @ + 1]
    /\ ListenGoto(t, "got")
    /\ UNCHANGED <<recvData, fresh, out, fate, pinVars, chanVars, mainVars>>

\* Mutant of RecvEof: a recv that returns 0 is repeated.
RecvRetries(t) ==
    /\ lpc[t] = "recv"
    /\ size[t] = <<>>
    /\ ~SizeOpen(t)
    /\ UNCHANGED vars

\* recv(size_fd) returns 0 at the end of the stream.  Only a negative result is
\* tested, so recv_data keeps what the message before put there.
RecvEof(t) ==
    /\ lpc[t] = "recv"
    /\ size[t] = <<>>
    /\ ~SizeOpen(t)
    /\ stale' = [stale EXCEPT ![t] = @ + 1]
    /\ ListenGoto(t, "got")
    /\ UNCHANGED <<recvData, fresh, out, fate, pinVars, chanVars, mainVars>>

RecvError(t) ==
    /\ lpc[t] = "recv"
    /\ GiveUp(t)

\* Mutant of GetDeltas: data_size == 0 is not tested.
GetDeltasNoStop(t) ==
    /\ lpc[t] = "got"
    /\ ListenGoto(t, "proc")
    /\ UNCHANGED <<recvData, fresh, stale, out, fate, pinVars, chanVars, mainVars>>

\* get_deltas gives counts; then data_size == 0 ends the loop.
GetDeltas(t) ==
    /\ lpc[t] = "got"
    /\ ListenGoto(t, IF recvData[t] = 0 THEN "post" ELSE "proc")
    /\ UNCHANGED <<recvData, fresh, stale, out, fate, pinVars, chanVars, mainVars>>

\* Mutant of MonitorGone: every failing read gives nullopt, not only ESRCH.
MonitorFails(t) ==
    /\ lpc[t] = "got"
    /\ ListenGoto(t, "post")
    /\ UNCHANGED <<recvData, fresh, stale, out, fate, pinVars, chanVars, mainVars>>

\* get_deltas gives nullopt, which it may once the thread has terminated: the
\* loop ends before the message just received is looked at.
MonitorGone(t) ==
    /\ lpc[t] = "got"
    /\ ppc[t] = "dead"
    /\ ListenGoto(t, "post")
    /\ UNCHANGED <<recvData, fresh, stale, out, fate, pinVars, chanVars, mainVars>>

\* Compress or pad the data in the mapping and write it out.
Persist(t) ==
    /\ lpc[t] = "proc"
    /\ out' = [out EXCEPT ![t] = Append(@, shm[t])]
    /\ fresh' = [fresh EXCEPT ![t] = FALSE]
    /\ ListenGoto(t, "tail")
    /\ UNCHANGED <<recvData, stale, fate, pinVars, chanVars, mainVars>>

PersistError(t) ==
    /\ lpc[t] = "proc"
    /\ GiveUp(t)

\* Mutant of EndIteration: the ready signal is sent once, ahead of the loop.
EndIterationNoRdy(t) ==
    /\ lpc[t] = "tail"
    /\ ListenGoto(t, "recv")
    /\ UNCHANGED <<recvData, fresh, stale, out, fate, pinVars, chanVars, mainVars>>

\* Overhead balancing and statistics; nothing of it touches the mapping, the
\* sockets or the buffers already in the stream.
EndIteration(t) ==
    /\ lpc[t] = "tail"
    /\ ListenGoto(t, "top")
    /\ UNCHANGED <<recvData, fresh, stale, out, fate, pinVars, chanVars, mainVars>>

\* Mutant of PostLoop: z_in describes the whole mapping again at e_end.
PostLoopResets(t) ==
    /\ lpc[t] = "post"
    /\ out' = IF UseCompression
              THEN [out EXCEPT ![t] = Append(@, Residue)] ELSE out
    /\ Return(t, "finished")
    /\ UNCHANGED <<recvData, fresh, stale, pinVars, chanVars, mainVars>>

\* After the loop the frame is ended.  z_in starts out describing the whole
\* mapping, unread, so a listener that compressed nothing compresses that.
PostLoop(t) ==
    /\ lpc[t] = "post"
    /\ out' = IF UseCompression /\ fresh[t]
              THEN [out EXCEPT ![t] = Append(@, Residue)] ELSE out
    /\ Return(t, "finished")
    /\ UNCHANGED <<recvData, fresh, stale, pinVars, chanVars, mainVars>>

PostLoopError(t) ==
    /\ UseCompression
    /\ lpc[t] = "post"
    /\ GiveUp(t)

\* ReceiverThread after Listen: close(rdy_fd), then everything else.
CloseRdyFd(t) ==
    /\ lpc[t] = "ret"
    /\ ListenGoto(t, "closing")
    /\ UNCHANGED <<recvData, fresh, stale, out, fate, pinVars, chanVars, mainVars>>

Cleanup(t) ==
    /\ lpc[t] = "closing"
    /\ ListenGoto(t, "done")
    /\ UNCHANGED <<recvData, fresh, stale, out, fate, pinVars, chanVars, mainVars>>

-----------------------------------------------------------------------------
(* The main thread of the consumer. *)

\* A scan of the pids directory finds the stop file.
SeeStop ==
    /\ main = "scan"
    /\ stopFile
    /\ stop' = TRUE
    /\ stopFile' = FALSE
    /\ main' = "join"
    /\ UNCHANGED <<pinVars, chanVars, listenVars>>

\* Mutant of MainExit: the receivers are detached, not joined.
MainExitDetached ==
    /\ main = "join"
    /\ main' = "exited"
    /\ UNCHANGED <<stopFile, stop, pinVars, chanVars, listenVars>>

\* Every receiver is joined and main returns.
MainExit ==
    /\ main = "join"
    /\ \A t \in Threads : lpc[t] = "done"
    /\ main' = "exited"
    /\ UNCHANGED <<stopFile, stop, pinVars, chanVars, listenVars>>

\* Both processes ended: nothing is left to do.
Terminated ==
    /\ main = "exited"
    /\ UNCHANGED vars

-----------------------------------------------------------------------------
\* Steps of an application thread inside a callback of the tool.
PinStep(t) ==
    \/ ReadRdy(t) \/ MemcpyDone(t) \/ SendSize(t)
    \/ ShutdownSockets(t) \/ CloseSockets(t) \/ ThreadDead(t)

\* What the application decides.
AppStep(t) == BufferFull(t) \/ ExitFlush(t) \/ ExitNoFlush(t)

ListenStep(t) ==
    \/ StartListen(t) \/ SendRdy(t) \/ LeaveLoop(t)
    \/ Recv(t) \/ RecvEof(t) \/ GetDeltas(t) \/ MonitorGone(t)
    \/ Persist(t) \/ EndIteration(t) \/ PostLoop(t)
    \/ CloseRdyFd(t) \/ Cleanup(t)

FaultStep(t) ==
    \/ ReadRdyFails(t) \/ MonitorThrows(t) \/ SendRdyError(t)
    \/ RecvError(t) \/ PersistError(t) \/ PostLoopError(t)

Next ==
    \/ \E t \in Threads : PinStep(t) \/ AppStep(t) \/ ListenStep(t) \/ FaultStep(t)
    \/ AppKilled \/ Fini \/ SeeStop \/ MainExit \/ Terminated

Spec == Init /\ [][Next]_vars

\* Every thread of both processes is scheduled; the application need not ever
\* fill a buffer or exit, and no fault need ever happen.
Fairness ==
    /\ \A t \in Threads : WF_vars(PinStep(t)) /\ WF_vars(ListenStep(t))
    /\ WF_vars(Fini) /\ WF_vars(SeeStop) /\ WF_vars(MainExit)

FairSpec == Spec /\ Fairness

-----------------------------------------------------------------------------
(* Properties. *)

\* Type invariant: the values the variables range over.
TypeOK ==
    /\ ppc \in [Threads -> PinPC]
    /\ filled \in [Threads -> Nat]
    /\ numBytes \in [Threads -> 0..1]
    /\ flush \in [Threads -> BOOLEAN]
    /\ handed \in [Threads -> Nat]
    /\ app \in {"up", "killed", "exited"}
    /\ rdy \in [Threads -> Nat]
    /\ size \in [Threads -> Seq(0..1)]
    /\ shm \in [Threads -> Int]
    /\ lpc \in [Threads -> ListenPC]
    /\ recvData \in [Threads -> 0..1]
    /\ fresh \in [Threads -> BOOLEAN]
    /\ stale \in [Threads -> Nat]
    /\ out \in [Threads -> Seq(Int)]
    /\ fate \in [Threads -> {"open", "finished", "aborted"}]
    /\ stopFile \in BOOLEAN
    /\ stop \in BOOLEAN
    /\ main \in {"scan", "join", "exited", "crashed"}

\* The two processes never use the mapping at the same time: Pin's memcpy never
\* overlaps the compression, the padding or the write of the mapping by Listen,
\* nor the end of the frame.  Only the ready and metadata messages order them.
ShmExclusion ==
    \A t \in Threads : ~(ppc[t] = "copy" /\ lpc[t] \in {"proc", "post"})

\* The stream a thread's buffers are persisted to is those buffers, each in its
\* place, followed by nothing but copies of the last one, written when recv
\* returned 0 at the end of the size stream.  Two more things can stand there:
\* the raw mapping of a thread that never persisted a buffer, and, once the
\* traced process was killed, a buffer whose memcpy was cut off.
InOrder ==
    \A t \in Threads : \A i \in DOMAIN out[t] :
        \/ out[t][i] = i /\ (i <= handed[t] \/ app = "killed")
        \/ out[t][i] = handed[t] /\ i > handed[t] /\ ~SizeOpen(t)
        \/ out[t][i] = Residue /\ Len(out[t]) = 1 /\ fate[t] = "finished"
        \/ out[t][i] = Torn /\ i = Len(out[t]) /\ app = "killed"

\* Pin never runs more than one buffer ahead of the disk, and a listener that
\* ends in good order has lost at most the last buffer of its thread.
AtMostOneAhead ==
    \A t \in Threads : fate[t] # "aborted" => handed[t] <= Len(out[t]) + 1

\* The consumer's main returns only when the application has ended, no message
\* is left unread in a socket and no output file is left open.
ExitIsClean ==
    main = "exited" =>
        /\ app = "exited"
        /\ \A t \in Threads : ppc[t] = "dead" /\ fate[t] # "open"
        /\ \A t \in Threads : fate[t] = "finished" => size[t] = <<>>

\* The two ends never wait for each other: when the thread is blocked in
\* read(sock_rdy) with no signal under way, its listener is not blocked in
\* recv(size_fd) with no message under way.  Neither call has a timeout, so such
\* a pair would stay, whatever read calls failed and buffers were dropped before.
NeverBothWait ==
    \A t \in Threads :
        ~(ppc[t] = "wait" /\ rdy[t] = 0 /\ lpc[t] = "recv" /\ size[t] = <<>>)

\* A thread that waits for the ready signal inside BufferFull gets out of it,
\* whatever fails in its listener.
BlockedReleased ==
    \A t \in Threads : ppc[t] = "wait" ~> ppc[t] # "wait"

\* A buffer whose metadata was sent gets into the output stream, unless the
\* thread that sent it is gone.
HandedPersisted ==
    \A t \in Threads : \A k \in 1..(MaxBuffers + 1) :
        handed[t] >= k ~> (Len(out[t]) >= k \/ ppc[t] = "dead")

\* When the application has ended the consumer drains its streams and exits.
Drains == app = "exited" ~> main = "exited"

-----------------------------------------------------------------------------
(* The inductive invariant behind the properties, in four parts. *)

\* The thread hands nothing over once it is in ThreadFini.
Closed(t) == ppc[t] \in {"fini", "shut", "closed", "dead"}

Live == {"init", "top", "recv", "got", "proc", "tail", "post"}

\* One baton per thread goes round: as a ready signal, as Pin's right to write
\* the mapping, as a metadata message, as the listener's right to read it.
Baton(t) ==
    /\ lpc[t] \in Live \ {"recv"} =>
         /\ size[t] = <<>>
         /\ SizeOpen(t) => rdy[t] = 0 /\ ppc[t] \notin {"copy", "send"}
    /\ lpc[t] = "recv" =>
         /\ size[t] \in {<<>>, <<0>>, <<1>>}
         /\ SizeOpen(t) => rdy[t] <= 1
         /\ SizeOpen(t) /\ size[t] # <<>> => rdy[t] = 0
         /\ ppc[t] \in {"copy", "send"} => rdy[t] = 0 /\ size[t] = <<>>

\* What the control state of one side says about the other.
Control(t) ==
    /\ fate[t] = "open" <=> lpc[t] \in Live
    /\ fate[t] = "finished" => Closed(t)
    /\ lpc[t] = "post" => Closed(t)
    /\ ppc[t] \in {"wait", "copy", "send"} /\ numBytes[t] = 0 => flush[t]
    /\ lpc[t] = "recv" /\ size[t] = <<0>> => Closed(t)
    /\ lpc[t] = "got" /\ recvData[t] = 0 => Closed(t)
    /\ lpc[t] = "proc" => recvData[t] = 1
    /\ app # "up" \/ stopFile \/ stop => ppc[t] = "dead"

\* What the mapping holds while a listener may still read it.
Mapping(t) ==
    /\ app = "killed" =>
         \/ shm[t] = handed[t]
         \/ /\ shm[t] \in {handed[t] + 1, Torn}
            /\ lpc[t] \in {"recv", "got", "proc"} => handed[t] = Len(out[t])
    /\ app # "killed" =>
         /\ ppc[t] = "copy" => shm[t] = IF numBytes[t] = 0 THEN handed[t] ELSE Torn
         /\ ppc[t] = "send" => shm[t] = handed[t] + numBytes[t]
         /\ ppc[t] \notin {"copy", "send"} => shm[t] = handed[t]

\* The buffer announced last is the one after the stream, and it is in the mapping.
Announced(t) == handed[t] = Len(out[t]) + 1 /\ shm[t] = handed[t]

\* Every buffer handed over is in the stream.
CaughtUp(t) ==
    /\ handed[t] <= Len(out[t])
    /\ ~Closed(t) => handed[t] = Len(out[t])

Content(t) ==
    /\ fate[t] # "aborted" => handed[t] <= Len(out[t]) + 1
    /\ lpc[t] \in Live =>
         /\ Mapping(t)
         /\ recvData[t] = 1 => handed[t] > 0
         /\ fresh[t] => out[t] = <<>>
         /\ lpc[t] \in {"init", "top", "tail"} => CaughtUp(t)
         /\ lpc[t] = "recv" =>
              IF size[t] = <<1>> THEN Announced(t) ELSE CaughtUp(t)
         /\ lpc[t] = "got" /\ recvData[t] = 0 => CaughtUp(t)
         /\ lpc[t] \in {"got", "proc"} /\ recvData[t] = 1 =>
              Announced(t) \/ (~SizeOpen(t) /\ CaughtUp(t))

\* The order of messages and memory accesses that all properties of the hand-off
\* rest on: each step of either side keeps it.
IndInv ==
    /\ TypeOK
    /\ \A t \in Threads : Baton(t) /\ Control(t) /\ Content(t)

-----------------------------------------------------------------------------
(* Handoff implements TraceStream. *)

Stream == INSTANCE TraceStream WITH
    closed <- [t \in Threads |-> Closed(t)],
    killed <- (app = "killed")

\* Every step of the two processes is a step of the abstract stream or none.
ImplementsStream == Stream!Spec
=============================================================================
