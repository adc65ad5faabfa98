--------------------------- MODULE MCStdioBackend ---------------------------
(* Instances of StdioBackend.                                              *)
EXTENDS StdioBackend, TLC

CONSTANTS t1, t2

Two == {t1, t2}
Symmetry == Permutations(Two)
=============================================================================
