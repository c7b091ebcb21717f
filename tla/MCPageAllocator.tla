-------------------------- MODULE MCPageAllocator --------------------------
(* Model checking instance of PageAllocator. *)
EXTENDS PageAllocator
============================================================================
