------------------------------ MODULE MCStartup ------------------------------
(* Model checking instance of Startup. *)
EXTENDS Startup
=============================================================================
