---------------------------- MODULE MCChatTurn ------------------------------
(* ChatTurn for TLC: the tool calls of a turn are interchangeable.          *)
EXTENDS ChatTurn, TLC

CallSymmetry == Permutations(Calls)
=============================================================================
