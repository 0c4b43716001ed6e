----------------------------- MODULE MCSoloLink -----------------------------
(* TLC instance of SoloLink: channels of one slot, and as many messages as  *)
(* it takes to fill both of them while the loop and the handler hold one.   *)
EXTENDS SoloLink
=============================================================================
