------------------------ MODULE MCSessionExecution ------------------------
(* Turns that differ in nothing.                                           *)
EXTENDS SessionExecution, TLC

MCSymmetry == Permutations(Turns)
=============================================================================
