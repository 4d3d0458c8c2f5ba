--------------------------- MODULE MCOutputStream ---------------------------
(* OutputStream for TLC. *)
EXTENDS OutputStream
=============================================================================
