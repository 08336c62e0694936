--------------------------- MODULE MCTcpExchange ---------------------------
(* TcpExchange: sizes and the number of strangers are in the cfg. *)
EXTENDS TcpExchange
=============================================================================
