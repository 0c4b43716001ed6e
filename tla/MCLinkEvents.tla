---------------------------- MODULE MCLinkEvents ----------------------------
(* TLC instance of LinkEvents: a reconnect that overlaps with the end of    *)
(* the first connection, and a rate limiter that both of them use up.       *)
EXTENDS LinkEvents, TLC

CONSTANTS c1, c2, n1
SameNode == c1 :> n1 @@ c2 :> n1
=============================================================================
