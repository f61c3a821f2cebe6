---------------------------- MODULE MCIngestion -----------------------------
(* Ingestion for TLC: attempts are interchangeable, and so are keys; a third *)
(* of the records of a run may be dropped.                                  *)
EXTENDS Ingestion, TLC

RunAndKeySymmetry == Permutations(Runs) \cup Permutations(Keys)
OneThird == [num |-> 1, den |-> 3]
=============================================================================
