--------------------------- MODULE MCRevisionStore ---------------------------
(* RevisionStore for TLC.                                                  *)
EXTENDS RevisionStore, TLC

CONSTANTS c1, c2, main, p1, p2, f1, f2, i1, m1

Symmetry == Permutations(Commit) \cup Permutations(Path) \cup Permutations(Fetching)
=============================================================================
