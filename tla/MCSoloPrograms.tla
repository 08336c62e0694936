---------------------------- MODULE MCSoloPrograms --------------------------
(* SoloPrograms: the bounds are in the cfg. *)
EXTENDS SoloPrograms
=============================================================================
