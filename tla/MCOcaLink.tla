------------------------------ MODULE MCOcaLink ------------------------------
(* Which commands and which faults the run allows. *)
EXTENDS OcaLink

Single == {"seal", "stats"}
LineFaults == {"lost", "torn", "cut", "stray", "death"}
=============================================================================
