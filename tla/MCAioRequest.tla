---------------------------- MODULE MCAioRequest ----------------------------
(* AioRequest: the payload and what may fail are in the cfg. *)
EXTENDS AioRequest
=============================================================================
