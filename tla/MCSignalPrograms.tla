-------------------------- MODULE MCSignalPrograms --------------------------
(* SignalPrograms: the bounds are in the cfg. *)
EXTENDS SignalPrograms
=============================================================================
