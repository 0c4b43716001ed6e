--------------------------- MODULE MCNodeRegistry ---------------------------
(* TLC instances of NodeRegistry.                                          *)
EXTENDS NodeRegistry
=============================================================================
