-------------------------- MODULE MCThreadSpecific --------------------------
(* ThreadSpecific with the workers of the code: the constant is in the cfg. *)
EXTENDS ThreadSpecific
=============================================================================
