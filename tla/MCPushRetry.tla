---------------------------- MODULE MCPushRetry -----------------------------
(* TLC instances of PushRetry: pushes with the same key on one link (the    *)
(* backend repeats a push).                                                *)
EXTENDS PushRetry

CONSTANTS p1, p2, k1, l1, id

SameKey == [p \in Pushes |-> k1]
OneLink == [p \in Pushes |-> l1]
OneID   == [l \in Links |-> id]
=============================================================================
