--------------------------- MODULE MCDebateGraph ---------------------------
(* Instances of DebateGraph for TLC: the assignments are interchangeable.  *)
EXTENDS DebateGraphInvariant, TLC

AssignmentSymmetry == Permutations(Assignments)
=============================================================================
