------------------------------ MODULE MCPrintf ------------------------------
(* Model checking instance of Printf. *)
EXTENDS Printf
=============================================================================
