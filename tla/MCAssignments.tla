--------------------------- MODULE MCAssignments ---------------------------
(* Small instances of delegated work.                                      *)
EXTENDS Assignments, TLC

Symmetric == Permutations(Assigns)
=============================================================================
