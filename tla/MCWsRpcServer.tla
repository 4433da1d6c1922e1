--------------------------- MODULE MCWsRpcServer ----------------------------
(* Instances of WsRpcServer for TLC: a peer registers for an event.          *)
EXTENDS WsRpcServer

OnlyRegister == [method : {"register"}, event : Events, id : Ids]

NoBinds == {}

=============================================================================
