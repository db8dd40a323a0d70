----------------------------- MODULE MCOcaDual -----------------------------
(* Instances of OcaDual for TLC. *)
EXTENDS OcaDual

Load    == [op |-> "load", len |-> 2, good |-> TRUE]
BadLoad == [op |-> "load", len |-> 1, good |-> FALSE]
Work    == [op |-> "work", len |-> 1, good |-> TRUE]
Long    == [op |-> "work", len |-> 2, good |-> TRUE]

\* A load of two beats, so that a beat waits for the second core, and work.
Plain == {Load, Work}
\* Loads that both engines refuse too, and work of two beats.
Mixed == {Load, BadLoad, Work, Long}
=============================================================================
