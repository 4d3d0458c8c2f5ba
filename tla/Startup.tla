------------------------------- MODULE Startup -------------------------------
(***************************************************************************)
(* How an application thread and the consumer find each other.             *)
(*                                                                         *)
(* Pin side (src/src/pintool/bullettime.cpp): main creates <dir>/pids, each *)
(* ThreadStart creates a file there, connects to the two sockets of its    *)
(* receiver and maps the shared memory; Fini creates the stop file.        *)
(* Consumer side (src/src/consumer/consumer.cpp): main waits for the       *)
(* directory, watches it with inotify, scans it after every event, spawns  *)
(* a ReceiverThread per file and joins them after the stop file.           *)
(*                                                                         *)
(* What happens between the connection of a thread and its end is the      *)
(* subject of module Handoff: here a thread that is up just exits some day. *)
(***************************************************************************)
EXTENDS Integers, FiniteSets

CONSTANTS
    Threads,      \* application threads; the name of the pid file too
    First,        \* the initial thread: only a running thread creates others
    Stop,         \* the name of the stop file
    OldSockets,   \* threads whose number has a socket file of an earlier,
                  \*   killed run
    Faults        \* do system calls fail, may the application be killed

ASSUME StartupAssumption ==
    /\ First \in Threads
    /\ Stop \notin Threads
    /\ OldSockets \subseteq Threads
    /\ Faults \in BOOLEAN

VARIABLES
    tpc,       \* where each application thread is
    rdyConn,   \* its sock_rdy is connected
    app,       \* the traced process: "load", "up", "died" or "exited"
    pidsDir,   \* <dir>/pids exists
    files,     \* the files in it
    shmFile,   \* the threads whose shared_mem file exists
    cmain,     \* where the consumer's main is
    watching,  \* the inotify watch exists
    event,     \* inotify events are waiting to be read
    todo,      \* directory entries the current readdir loop has still to return
    seen,      \* files that were handled and could not be removed
    rpc,       \* where each receiver is
    spawned,   \* history: receivers spawned for each thread
    early      \* history: files created before the watch

pinVars == <<tpc, rdyConn, app>>
dirVars == <<pidsDir, files, event, todo, early>>
mainVars == <<cmain, watching, seen, spawned>>
vars == <<tpc, rdyConn, app, pidsDir, files, shmFile, cmain, watching,
          event, todo, seen, rpc, spawned, early>>

\* "unborn"; "rdy", "size": about to connect that socket; "map": about to open
\* the shared memory; "up": ThreadStart is over; "gone": ThreadFini is over.
ThreadPC == {"unborn", "rdy", "size", "map", "up", "gone"}

\* "none": not spawned; "setup": files and mappings; "bound": sockets bound;
\* "half": listening on rdy only; "listen": on both; "half_acc": accepted on
\* rdy; "acc": on both, in Listen; "done".  An early return closes nothing:
\* "failed": before listen; "half_failed": listening on rdy; "acc_failed": on both.
ReceiverPC == {"none", "setup", "bound", "half", "listen", "half_acc", "acc",
               "failed", "half_failed", "acc_failed", "done"}

\* "stat": waiting for the directory; "watch", "read", "open", "scan": the calls
\* of those names; "join": stop was seen; "exited"; "crashed": an early return.
MainPC == {"stat", "watch", "read", "open", "scan", "join", "exited", "crashed"}

\* Does connect to a socket of the receiver succeed.
ListensSize(t) == rpc[t] \in {"listen", "half_acc", "acc", "acc_failed"}
ListensRdy(t) == ListensSize(t) \/ rpc[t] \in {"half", "half_failed"}

Init ==
    /\ tpc = [t \in Threads |-> "unborn"]
    /\ rdyConn = [t \in Threads |-> FALSE]
    /\ app = "load"
    /\ pidsDir = FALSE
    /\ files = {}
    /\ shmFile = {}
    /\ cmain = "stat"
    /\ watching = FALSE
    /\ event = FALSE
    /\ todo = {}
    /\ seen = {}
    /\ rpc = [t \in Threads |-> "none"]
    /\ spawned = [t \in Threads |-> 0]
    /\ early = {}

ThreadGoto(t, to) == tpc' = [tpc EXCEPT ![t] = to]
ReceiverGoto(t, to) == rpc' = [rpc EXCEPT ![t] = to]

\* External: a file appears in the directory.  inotify reports it if the watch
\* exists; a readdir loop under way returns it or does not.
CreateFile(f) ==
    /\ files' = files \cup {f}
    /\ event' = (event \/ watching)
    /\ early' = IF watching THEN early ELSE early \cup {f}
    /\ \E seenByLoop \in BOOLEAN :
         todo' = IF cmain = "scan" /\ seenByLoop THEN todo \cup {f} ELSE todo
    /\ UNCHANGED pidsDir

-----------------------------------------------------------------------------
(* The Pin side. *)

\* main of the tool: make the directory, start the application.
StartProgram ==
    /\ app = "load"
    /\ app' = "up"
    /\ pidsDir' = TRUE
    /\ UNCHANGED <<tpc, rdyConn, files, event, todo, early,
                   shmFile, mainVars, rpc>>

\* ThreadStart up to the connect loop: the pid file is written.
ThreadStart(t) ==
    /\ app = "up"
    /\ tpc[t] = "unborn"
    /\ t = First \/ \E u \in Threads : tpc[u] = "up"
    /\ ThreadGoto(t, "rdy")
    /\ CreateFile(t)
    /\ UNCHANGED <<rdyConn, app, shmFile, mainVars, rpc>>

\* connect(sock_rdy) succeeds.  A second connect on the connected socket never
\* does (EISCONN), nor does one before listen: the loop spins.
ConnectRdy(t) ==
    /\ app = "up"
    /\ tpc[t] = "rdy"
    /\ ~rdyConn[t]
    /\ ListensRdy(t)
    /\ rdyConn' = [rdyConn EXCEPT ![t] = TRUE]
    /\ ThreadGoto(t, "size")
    /\ UNCHANGED <<app, dirVars, shmFile, mainVars, rpc>>

\* connect(sock_size); if it fails, the loop starts over with sock_rdy.
ConnectSize(t) ==
    /\ app = "up"
    /\ tpc[t] = "size"
    /\ ThreadGoto(t, IF ListensSize(t) THEN "map" ELSE "rdy")
    /\ UNCHANGED <<rdyConn, app, dirVars, shmFile, mainVars, rpc>>

\* The shared_mem file is opened and mapped, in /dev/hugepages or, failing that,
\* in /dev/shm; when there is neither, or the mapping fails, the tool calls exit.
MapShm(t) ==
    /\ app = "up"
    /\ tpc[t] = "map"
    /\ \/ /\ t \in shmFile
          /\ ThreadGoto(t, "up")
          /\ UNCHANGED app
       \/ /\ Faults \/ t \notin shmFile
          /\ app' = "died"
          /\ UNCHANGED tpc
    /\ UNCHANGED <<rdyConn, dirVars, shmFile, mainVars, rpc>>

\* The process is killed, or exits because the directory or a socket could not
\* be made.  Neither its threads nor Fini say anything to the consumer.
AppDies ==
    /\ Faults
    /\ app \in {"load", "up"}
    /\ app' = "died"
    /\ UNCHANGED <<tpc, rdyConn, dirVars, shmFile, mainVars, rpc>>

\* The thread runs, exits and closes its sockets.
ThreadFini(t) ==
    /\ app = "up"
    /\ tpc[t] = "up"
    /\ ThreadGoto(t, "gone")
    /\ UNCHANGED <<rdyConn, app, dirVars, shmFile, mainVars, rpc>>

\* Fini, after the last ThreadFini: the stop file is written.
Fini ==
    /\ app = "up"
    /\ tpc[First] = "gone"
    /\ \A t \in Threads : tpc[t] \in {"unborn", "gone"}
    /\ app' = "exited"
    /\ CreateFile(Stop)
    /\ UNCHANGED <<tpc, rdyConn, shmFile, mainVars, rpc>>

-----------------------------------------------------------------------------
(* The receivers. *)

\* Mutant of Setup: the shared memory file is made after the sockets.
SetupLate(t) ==
    /\ rpc[t] = "setup"
    /\ UNCHANGED shmFile
    /\ ReceiverGoto(t, IF t \in OldSockets THEN "failed" ELSE "bound")
    /\ UNCHANGED <<pinVars, dirVars, mainVars>>

\* Output file, shared memory file, mappings, sockets; bind fails on a socket
\* file that is already there, and every failure just returns.
Setup(t) ==
    /\ rpc[t] = "setup"
    /\ shmFile' = shmFile \cup {t}
    /\ ReceiverGoto(t, IF t \in OldSockets THEN "failed" ELSE "bound")
    /\ UNCHANGED <<pinVars, dirVars, mainVars>>

\* Another call of the set-up fails, before or after the file was made.
SetupFails(t) ==
    /\ Faults
    /\ rpc[t] = "setup"
    /\ \E made \in BOOLEAN :
         shmFile' = IF made THEN shmFile \cup {t} ELSE shmFile
    /\ ReceiverGoto(t, "failed")
    /\ UNCHANGED <<pinVars, dirVars, mainVars>>

\* listen(rdy_sock), then listen(size_sock).
ListenRdy(t) ==
    /\ rpc[t] = "bound"
    /\ ReceiverGoto(t, "half")
    /\ UNCHANGED <<pinVars, dirVars, mainVars, shmFile>>

ListenSize(t) ==
    /\ rpc[t] = "half"
    /\ ReceiverGoto(t, "listen")
    /\ UNCHANGED <<pinVars, dirVars, mainVars, shmFile>>

\* listen fails for one of the two.
ListenFails(t) ==
    /\ Faults
    /\ \/ rpc[t] = "bound" /\ ReceiverGoto(t, "failed")
       \/ rpc[t] = "half" /\ ReceiverGoto(t, "half_failed")
    /\ UNCHANGED <<pinVars, dirVars, mainVars, shmFile>>

\* Mutant of AcceptRdy: the listening sockets are gone by the time of accept.
AcceptRdyReturns(t) ==
    /\ rpc[t] = "listen"
    /\ rdyConn[t]
    /\ ReceiverGoto(t, "failed")
    /\ UNCHANGED <<pinVars, dirVars, mainVars, shmFile>>

\* accept(rdy_sock), then accept(size_sock): each blocks until Pin connects.
AcceptRdy(t) ==
    /\ rpc[t] = "listen"
    /\ rdyConn[t]
    /\ ReceiverGoto(t, "half_acc")
    /\ UNCHANGED <<pinVars, dirVars, mainVars, shmFile>>

AcceptSize(t) ==
    /\ rpc[t] = "half_acc"
    /\ tpc[t] \in {"map", "up", "gone"}
    /\ ReceiverGoto(t, "acc")
    /\ UNCHANGED <<pinVars, dirVars, mainVars, shmFile>>

\* One of the two accept calls failed; the test comes after both.
AcceptFails(t) ==
    /\ Faults
    /\ rpc[t] = "half_acc"
    /\ tpc[t] \in {"map", "up", "gone"}
    /\ ReceiverGoto(t, "acc_failed")
    /\ UNCHANGED <<pinVars, dirVars, mainVars, shmFile>>

\* Listen returns when the thread is gone; sockets and shared memory go too.
ReceiverDone(t) ==
    /\ rpc[t] = "acc"
    /\ tpc[t] = "gone" \/ app = "died"
    /\ ReceiverGoto(t, "done")
    /\ shmFile' = shmFile \ {t}
    /\ UNCHANGED <<pinVars, dirVars, mainVars>>

-----------------------------------------------------------------------------
(* The main thread of the consumer. *)

\* stat finds the directory.
SeeDir ==
    /\ cmain = "stat"
    /\ pidsDir
    /\ cmain' = "watch"
    /\ UNCHANGED <<pinVars, dirVars, watching, seen, spawned, shmFile, rpc>>

\* inotify_add_watch: only files created from now on make events.
AddWatch ==
    /\ cmain = "watch"
    /\ watching' = TRUE
    /\ cmain' = "read"
    /\ UNCHANGED <<pinVars, dirVars, seen, spawned, shmFile, rpc>>

\* read(inotify_fd) returns, with all events that are waiting.
ReadEvent ==
    /\ cmain = "read"
    /\ event
    /\ event' = FALSE
    /\ cmain' = "open"
    /\ UNCHANGED <<pinVars, pidsDir, files, todo, early, watching, seen,
                   spawned, shmFile, rpc>>

\* opendir: the readdir loop returns at least what is there now.
OpenDir ==
    /\ cmain = "open"
    /\ todo' = files
    /\ cmain' = "scan"
    /\ UNCHANGED <<pinVars, pidsDir, files, event, early, watching, seen,
                   spawned, shmFile, rpc>>

\* Mutant of Found: a file that could not be removed is not remembered.
FoundForgets(t) ==
    /\ cmain = "scan"
    /\ t \in todo \ seen
    /\ spawned' = [spawned EXCEPT ![t] = @ + 1]
    /\ ReceiverGoto(t, "setup")
    /\ todo' = todo \ {t}
    /\ \/ files' = files \ {t} /\ UNCHANGED seen
       \/ Faults /\ UNCHANGED <<seen, files>>
    /\ UNCHANGED <<pinVars, pidsDir, event, early, cmain, watching, shmFile>>

\* readdir returns the file of a thread: spawn its receiver, remove the file.
\* A file that cannot be removed is remembered.
Found(t) ==
    /\ cmain = "scan"
    /\ t \in todo \ seen
    /\ spawned' = [spawned EXCEPT ![t] = @ + 1]
    /\ ReceiverGoto(t, "setup")
    /\ todo' = todo \ {t}
    /\ \/ files' = files \ {t} /\ UNCHANGED seen
       \/ Faults /\ seen' = seen \cup {t} /\ UNCHANGED files
    /\ UNCHANGED <<pinVars, pidsDir, event, early, cmain, watching, shmFile>>

\* readdir returns a file that was handled before.
SkipSeen(t) ==
    /\ cmain = "scan"
    /\ t \in todo \cap seen
    /\ todo' = todo \ {t}
    /\ UNCHANGED <<pinVars, pidsDir, files, event, early, mainVars, shmFile, rpc>>

\* Mutant of FoundStop: the stop file is remembered like any other.
FoundStopSeen ==
    /\ cmain = "scan"
    /\ Stop \in todo
    /\ files' = files \ {Stop}
    /\ todo' = {}
    /\ cmain' = "join"
    /\ seen' = seen \cup {Stop}
    /\ UNCHANGED <<pinVars, pidsDir, event, early, watching, spawned,
                   shmFile, rpc>>

\* readdir returns the stop file: remove it, leave both loops, go and join.
FoundStop ==
    /\ cmain = "scan"
    /\ Stop \in todo
    /\ files' = files \ {Stop}
    /\ todo' = {}
    /\ cmain' = "join"
    /\ UNCHANGED <<pinVars, pidsDir, event, early, watching, seen, spawned,
                   shmFile, rpc>>

\* Mutant of EndScan: events that came during the scan count as handled by it.
EndScanDrains ==
    /\ cmain = "scan"
    /\ todo = {}
    /\ event' = FALSE
    /\ cmain' = "read"
    /\ UNCHANGED <<pinVars, pidsDir, files, todo, early, watching, seen,
                   spawned, shmFile, rpc>>

\* readdir returns NULL: back to read.
EndScan ==
    /\ cmain = "scan"
    /\ todo = {}
    /\ cmain' = "read"
    /\ UNCHANGED <<pinVars, dirVars, watching, seen, spawned, shmFile, rpc>>

\* inotify_init, inotify_add_watch, read or opendir fails: main returns and the
\* process ends with all its receivers.
MainFails ==
    /\ Faults
    /\ cmain \in {"watch", "read", "open"}
    /\ cmain' = "crashed"
    /\ rpc' = [t \in Threads |->
                 IF rpc[t] \in {"none", "done"} THEN rpc[t] ELSE "failed"]
    /\ UNCHANGED <<pinVars, dirVars, watching, seen, spawned, shmFile>>

\* All receivers are joined; the pids directory is removed.
MainExit ==
    /\ cmain = "join"
    /\ \A t \in Threads :
         rpc[t] \in {"none", "failed", "half_failed", "acc_failed", "done"}
    /\ cmain' = "exited"
    /\ pidsDir' = FALSE
    /\ files' = {}
    /\ UNCHANGED <<pinVars, event, todo, early, watching, seen, spawned,
                   shmFile, rpc>>

Terminated ==
    /\ cmain \in {"exited", "crashed"}
    /\ UNCHANGED vars

-----------------------------------------------------------------------------
\* Steps of the callbacks of the tool; the connect loop is one of them.
PinStep(t) == ConnectRdy(t) \/ ConnectSize(t) \/ MapShm(t)

AppStep(t) == ThreadStart(t) \/ ThreadFini(t)

ReceiverStep(t) ==
    \/ Setup(t) \/ ListenRdy(t) \/ ListenSize(t)
    \/ AcceptRdy(t) \/ AcceptSize(t) \/ ReceiverDone(t)

ReceiverFault(t) == SetupFails(t) \/ ListenFails(t) \/ AcceptFails(t)

MainStep ==
    \/ SeeDir \/ AddWatch \/ ReadEvent \/ OpenDir
    \/ (\E t \in Threads : Found(t) \/ SkipSeen(t))
    \/ FoundStop \/ EndScan \/ MainExit

Next ==
    \/ \E t \in Threads :
         PinStep(t) \/ AppStep(t) \/ ReceiverStep(t) \/ ReceiverFault(t)
    \/ StartProgram \/ Fini \/ AppDies \/ MainStep \/ MainFails \/ Terminated

Spec == Init /\ [][Next]_vars

\* Every thread of both processes is scheduled; the application need neither
\* create a thread nor end one.
Fairness ==
    /\ \A t \in Threads : WF_vars(PinStep(t)) /\ WF_vars(ReceiverStep(t))
    /\ WF_vars(StartProgram) /\ WF_vars(Fini) /\ WF_vars(MainStep)

FairSpec == Spec /\ Fairness

-----------------------------------------------------------------------------
(* Properties. *)

\* Type invariant.
TypeOK ==
    /\ tpc \in [Threads -> ThreadPC]
    /\ rdyConn \in [Threads -> BOOLEAN]
    /\ app \in {"load", "up", "died", "exited"}
    /\ pidsDir \in BOOLEAN
    /\ files \subseteq Threads \cup {Stop}
    /\ shmFile \subseteq Threads
    /\ cmain \in MainPC
    /\ watching \in BOOLEAN
    /\ event \in BOOLEAN
    /\ todo \subseteq Threads \cup {Stop}
    /\ seen \subseteq Threads
    /\ rpc \in [Threads -> ReceiverPC]
    /\ spawned \in [Threads -> Nat]
    /\ early \subseteq Threads \cup {Stop}

\* No wake-up is lost once the watch exists: when main is back in read with no
\* event waiting, only files from before the watch can still lie in the
\* directory, or ones already handled that could not be removed.
NoLostWakeup ==
    cmain = "read" /\ ~event => files \subseteq early \cup seen

\* A thread gets one receiver, however often its file shows up in a scan.
OneReceiver == \A t \in Threads : spawned[t] <= 1

\* A thread that got through the connect loop finds the file its receiver made:
\* the tool never exits for want of shared memory.
ShmReady ==
    \A t \in Threads : app = "up" /\ tpc[t] = "map" => t \in shmFile

\* A file that appears under the watch leads to a receiver, whatever happens to
\* the traced process or to other receivers, unless main itself fails.
LateFilesServed ==
    \A t \in Threads :
        (t \in files /\ watching /\ t \notin early)
            ~> (rpc[t] # "none" \/ cmain = "crashed")

\* A thread that got through the connect loop is served: its receiver gets past
\* both accept calls, unless the consumer's main fails.
ConnectedServed ==
    \A t \in Threads :
        tpc[t] = "map"
            ~> (rpc[t] \in {"acc", "acc_failed", "done"} \/ cmain = "crashed")
=============================================================================
