--------------------------- MODULE ConnectionPool ---------------------------
(***************************************************************************)
(* What the connection limiter promises to the gateway: a pool whose       *)
(* capacity only grows, never past MaxCapacity, and that never has more    *)
(* holders than capacity.  TokenLimiter is shown to implement it.          *)
(***************************************************************************)
EXTENDS Integers, FiniteSets

CONSTANTS Clients,          \* the goroutines that may hold one token each
          InitialCapacity,  \* capacity at start
          MaxCapacity       \* final capacity

VARIABLES holders,          \* the clients that hold a token
          capacity          \* how many tokens exist

Init == /\ holders = {}
        /\ capacity = InitialCapacity

Admit(c) == /\ c \in Clients \ holders
            /\ Cardinality(holders) < capacity
            /\ holders' = holders \union {c}
            /\ UNCHANGED capacity

Leave(c) == /\ c \in holders
            /\ holders' = holders \ {c}
            /\ UNCHANGED capacity

Grow == /\ capacity < MaxCapacity
        /\ capacity' = capacity + 1
        /\ UNCHANGED holders

Next == \/ \E c \in Clients : Admit(c) \/ Leave(c)
        \/ Grow

Spec == Init /\ [][Next]_<<holders, capacity>>
=============================================================================
