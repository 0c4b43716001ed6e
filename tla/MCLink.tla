------------------------------- MODULE MCLink -------------------------------
(* TLC instances of Link: channels of one slot, so that every goroutine can *)
(* be blocked by a full channel.                                            *)
EXTENDS Link
=============================================================================
