----------------------------- MODULE MCHandoff ------------------------------
(***************************************************************************)
(* Handoff for TLC, with what the repository says of the trace files and   *)
(* the code does not keep.  Each of these claims is checked by a run of    *)
(* its own, which finds the counterexample.                                *)
(***************************************************************************)
EXTENDS Handoff

\* README.md has one record per access, two for a read-modify-write; a buffer
\* persisted more than once repeats its records.  Listen's test of the result of recv breaks it.
SingleRecordPerAccess == \A t \in Threads : Len(out[t]) <= handed[t]

\* collect_trace.sh waits for the consumer to drain: a finished file should hold
\* every buffer whose metadata Pin sent.  The get_deltas test comes too early.
NothingLost ==
    \A t \in Threads : fate[t] = "finished" => handed[t] <= Len(out[t])
=============================================================================
