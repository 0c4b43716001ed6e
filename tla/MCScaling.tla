----------------------------- MODULE MCScaling ------------------------------
(* TLC instance of Scaling: two alerts, on two of the running nodes.        *)
EXTENDS Scaling, TLC

CONSTANTS c1, c2
MCInitLinks == 1 :> 2 @@ 2 :> 3
MCHostOf == c1 :> 1 @@ c2 :> 2
=============================================================================
