-------------------------- MODULE MCSparseExtents ---------------------------
(* SparseExtents with all layouts of a small file. *)
EXTENDS SparseExtents
=============================================================================
