---------------------------- MODULE MCOcaSlipRx ----------------------------
(* Instances of OcaSlipRx for TLC. *)
EXTENDS OcaSlipRx

NoPlain == {}
OnePlain == {"x"}
=============================================================================
