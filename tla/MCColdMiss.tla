------------------------------ MODULE MCColdMiss ------------------------------
(* ColdMiss for TLC.                                                       *)
EXTENDS ColdMiss
=============================================================================
