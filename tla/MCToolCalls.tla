------------------------------ MODULE MCToolCalls ------------------------------
(* Small instances of ToolCalls for TLC.  Liveness is checked: no symmetry. *)
EXTENDS ToolCalls
===============================================================================
