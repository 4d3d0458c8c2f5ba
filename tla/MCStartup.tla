------------------------------ MODULE MCStartup ------------------------------
(***************************************************************************)
(* Startup for TLC, with what the repository says of the start-up and the  *)
(* code does not keep.  Each claim is checked by a run of its own, which   *)
(* finds the counterexample.                                               *)
(***************************************************************************)
EXTENDS Startup

\* consumer.cpp uses inotify "to sleep until the directory is non-empty".  A
\* file created between stat and inotify_add_watch makes no event, and the
\* directory is not scanned before the first one.
SleepsOnlyWhileEmpty == cmain = "read" /\ ~event => files \subseteq seen

\* ThreadStart's comment has the thread connect to both sockets the consumer has
\* created.  A thread whose first connect came between the two listen calls
\* repeats connect on a connected socket for ever.
BothConnect ==
    \A t \in Threads : rdyConn[t] ~> (tpc[t] \in {"map", "up", "gone"})
=============================================================================
