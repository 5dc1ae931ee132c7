---------------------------- MODULE MCSessionFile ----------------------------
(* A small instance of SessionFile. *)
EXTENDS SessionFile, TLC

CONSTANTS t1, t2, t3

SecondIsAssistant == {2}
Symmetry == Permutations(Tasks)
=============================================================================
