----------------------------- MODULE MCPageList -----------------------------
(* Model checking instance of PageList. *)
EXTENDS PageList
============================================================================
