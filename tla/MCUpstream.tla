----------------------------- MODULE MCUpstream -----------------------------
(* TLC instances of Upstream.                                              *)
EXTENDS Upstream
=============================================================================
