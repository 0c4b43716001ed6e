----------------------------- MODULE MCBalancer -----------------------------
(* TLC instances of Balancer.                                               *)
EXTENDS Balancer, TLC

\* Addresses, node IDs and calls are interchangeable.
Symmetry == Permutations(Addrs) \union Permutations(Ids) \union Permutations(Calls)
=============================================================================
