--------------------------- MODULE MCFetchStaging ---------------------------
(* TLC instance of FetchStaging.                                           *)
EXTENDS FetchStaging, TLC

Symmetry == Permutations(Request)
=============================================================================
