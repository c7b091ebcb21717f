----------------------------- MODULE MCConsole -----------------------------
(* Model checking instance of Console: two rows of two columns. *)
EXTENDS Console
============================================================================
