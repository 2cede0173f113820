--------------------------- MODULE MCTransferGate ---------------------------
(***************************************************************************)
(* TLC instance of TransferGate.                                           *)
(***************************************************************************)
EXTENDS TransferGate
=============================================================================
