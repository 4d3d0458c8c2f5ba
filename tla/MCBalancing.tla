----------------------------- MODULE MCBalancing -----------------------------
(* Balancing for TLC. *)
EXTENDS Balancing
=============================================================================
