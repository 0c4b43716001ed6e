-------------------------- MODULE MCBatchUpstream ---------------------------
(* TLC instance of BatchUpstream: a message that is sent twice and one or   *)
(* two others of the same biz.                                              *)
EXTENDS BatchUpstream, TLC

CONSTANTS r1, r2, r3, z1, k1, k2

OneBiz == [r \in Reqs |-> z1]
Repeated == [r \in Reqs |-> IF r \in {r1, r2} THEN k1 ELSE k2]
=============================================================================
