--------------------------- MODULE MCDirectTurns ---------------------------
(* Small instances of DirectTurns for TLC.                                 *)
EXTENDS DirectTurns, TLC

Incarnations == Permutations(Controller)

=============================================================================
