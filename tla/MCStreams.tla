------------------------------ MODULE MCStreams ------------------------------
(* Streams with two streams under two ids, and a broadcast channel that one *)
(* change fills.                                                            *)
EXTENDS Streams
==============================================================================
