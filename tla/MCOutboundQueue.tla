--------------------------- MODULE MCOutboundQueue ---------------------------
(* Instances of OutboundQueue for TLC: the values are in the               *)
(* MCOutboundQueue_*.cfg files.                                            *)
EXTENDS OutboundQueue, TLC

Interchangeable == Permutations(Producers)
=============================================================================
