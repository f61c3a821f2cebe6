------------------------------ MODULE MCMemory ------------------------------
(* Memory for TLC: the turns of a thread are interchangeable.               *)
EXTENDS Memory, TLC

TurnSymmetry == Permutations(Turns)
=============================================================================
