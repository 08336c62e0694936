--------------------------- MODULE MCChildPrograms --------------------------
(* ChildPrograms: the bounds are in the cfg. *)
EXTENDS ChildPrograms
=============================================================================
