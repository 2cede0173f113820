----------------------------- MODULE MCJobStore -----------------------------
(***************************************************************************)
(* Instances of JobStore for TLC.  Keys and principals are interchangeable *)
(* (a job is told apart by its number, a request by being an acquisition). *)
(***************************************************************************)
EXTENDS JobStore, TLC

Symmetry == Permutations(Principal) \cup Permutations(Key) \cup Permutations(Canceller)
=============================================================================
