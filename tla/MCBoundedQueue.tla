--------------------------- MODULE MCBoundedQueue ---------------------------
(* BoundedQueue with the constants of the code, or smaller, from the cfg. *)
EXTENDS BoundedQueue
=============================================================================
