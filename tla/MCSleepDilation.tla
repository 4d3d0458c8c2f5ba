-------------------------- MODULE MCSleepDilation ---------------------------
(* SleepDilation for TLC. *)
EXTENDS SleepDilation
=============================================================================
