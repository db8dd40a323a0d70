---------------------------- MODULE MCOcaSlipTx ----------------------------
(* Instance of OcaSlipTx for TLC. *)
EXTENDS OcaSlipTx

OnePlain == {"x"}
=============================================================================
