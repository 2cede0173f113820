--------------------------- MODULE MCStagingListing ---------------------------
(* TLC instance of StagingListing.                                         *)
EXTENDS StagingListing, TLC

Symmetry == Permutations(Request)
=============================================================================
