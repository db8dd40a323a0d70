---------------------------- MODULE MCOcaSerial ----------------------------
(* Two values: one ends a frame, which is where a refusal is raised. *)
EXTENDS OcaSerial

TwoValues == {"END", "x"}
=============================================================================
