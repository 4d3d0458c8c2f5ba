----------------------------- MODULE TraceStream -----------------------------
(***************************************************************************)
(* What the hand-off promises of the trace of one application thread, with *)
(* no mapping, no socket and no program counter: the thread hands buffers  *)
(* 1, 2, ... over, the output stream receives them, and the next one is    *)
(* only handed over when the one before is in the stream.                  *)
(*                                                                         *)
(* The promise is what the code keeps, not what one would wish for: after  *)
(* the thread has stopped handing over, the stream may get copies of its   *)
(* last buffer, and the last buffer may be missing.  Module Handoff        *)
(* implements this module.                                                 *)
(***************************************************************************)
EXTENDS Integers, Sequences

CONSTANT Threads

VARIABLES
    handed,   \* buffers handed over
    closed,   \* the thread hands nothing over any more
    killed,   \* the traced process was killed
    out,      \* the output stream
    fate      \* of the output file: "open", "finished" or "aborted"

vars == <<handed, closed, killed, out, fate>>

Torn == -1
Residue == 0

Init ==
    /\ handed = [t \in Threads |-> 0]
    /\ closed = [t \in Threads |-> FALSE]
    /\ killed = FALSE
    /\ out = [t \in Threads |-> <<>>]
    /\ fate = [t \in Threads |-> "open"]

\* A buffer is handed over, perhaps the last one.  Nobody holds the thread
\* back once its stream was given up.
HandOff(t) ==
    /\ ~closed[t]
    /\ fate[t] = "aborted" \/ (fate[t] = "open" /\ handed[t] = Len(out[t]))
    /\ handed' = [handed EXCEPT ![t] = @ + 1]
    /\ \E b \in BOOLEAN : closed' = [closed EXCEPT ![t] = b]
    /\ UNCHANGED <<killed, out, fate>>

\* The thread has handed over its last buffer.
Close(t) ==
    /\ closed' = [closed EXCEPT ![t] = TRUE]
    /\ UNCHANGED <<handed, killed, out, fate>>

\* The process is killed with all its threads.
Kill ==
    /\ killed' = TRUE
    /\ closed' = [t \in Threads |-> TRUE]
    /\ UNCHANGED <<handed, out, fate>>

\* The outstanding buffer reaches the stream.
Persist(t) ==
    /\ fate[t] = "open"
    /\ Len(out[t]) < handed[t]
    /\ out' = [out EXCEPT ![t] = Append(@, Len(@) + 1)]
    /\ UNCHANGED <<handed, closed, killed, fate>>

\* What may follow the last buffer: the mapping as the thread left it.
Leftover(t) == {handed[t]} \cup (IF killed THEN {Torn, handed[t] + 1} ELSE {})

Trail(t) ==
    /\ fate[t] = "open"
    /\ closed[t]
    /\ 0 < handed[t] /\ handed[t] <= Len(out[t])
    /\ \E x \in Leftover(t) : out' = [out EXCEPT ![t] = Append(@, x)]
    /\ UNCHANGED <<handed, closed, killed, fate>>

\* The file is completed; an empty stream may be completed with the raw mapping.
Finish(t) ==
    /\ fate[t] = "open"
    /\ closed[t]
    /\ fate' = [fate EXCEPT ![t] = "finished"]
    /\ \/ UNCHANGED out
       \/ out[t] = <<>> /\ out' = [out EXCEPT ![t] = <<Residue>>]
    /\ UNCHANGED <<handed, closed, killed>>

\* Streams are given up: one by an error, all by the end of the consumer.
Abort(S) ==
    /\ fate' = [t \in Threads |->
                  IF t \in S /\ fate[t] = "open" THEN "aborted" ELSE fate[t]]
    /\ UNCHANGED <<handed, closed, killed, out>>

Next ==
    \/ \E t \in Threads :
         HandOff(t) \/ Close(t) \/ Persist(t) \/ Trail(t) \/ Finish(t) \/ Abort({t})
    \/ Kill \/ Abort(Threads)

Spec == Init /\ [][Next]_vars
=============================================================================
