----------------------------- MODULE MCWsServer -----------------------------
(* TLC instances of WsServer.  OneUser: all connections are a reconnect or *)
(* a second login of one user.                                             *)
EXTENDS WsServer

CONSTANTS u1

ClientSet == Conns \union {Waiting}
OneUser == [c \in Conns |-> u1]
=============================================================================
