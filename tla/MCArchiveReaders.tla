--------------------------- MODULE MCArchiveReaders ---------------------------
(* ArchiveReaders for TLC.                                                 *)
EXTENDS ArchiveReaders, TLC

CONSTANTS c1, c2, main, p1, p2, f1, f2, m1, r1

Symmetry == Permutations(Commit) \cup Permutations(Path) \cup Permutations(Writer)
=============================================================================
