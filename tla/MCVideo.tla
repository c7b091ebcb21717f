------------------------------ MODULE MCVideo ------------------------------
(* Model checking instance of Video: three rows of two columns. *)
EXTENDS Video
============================================================================
