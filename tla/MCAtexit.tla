------------------------------ MODULE MCAtexit ------------------------------
(* Model checking instance of Atexit. *)
EXTENDS Atexit
============================================================================
