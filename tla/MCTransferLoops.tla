--------------------------- MODULE MCTransferLoops --------------------------
(* TransferLoops: the bounds are in the cfg. *)
EXTENDS TransferLoops
=============================================================================
