----------------------------- MODULE MCPinTool ------------------------------
(* PinTool for TLC. *)
EXTENDS PinTool
=============================================================================
