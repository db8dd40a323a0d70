------------------------------- MODULE OcaSlip -------------------------------
(***************************************************************************)
(* SLIP, RFC 1055, as the two ends of the serial line use it: what a run   *)
(* of bytes between two ENDs means, and what a decoder owes for it. A      *)
(* payload byte is END, ESC or another; ESC_END and ESC_ESC are bytes like *)
(* any other unless an ESC stands in front of them.                        *)
(***************************************************************************)
EXTENDS Naturals, Sequences, SequencesExt

CONSTANTS
  Bytes,     \* BYTES: the longest frame accepted, 2048 in the code
  MinBytes,  \* MIN_BYTES: the shortest, oca_proto's HDR_LEN of 8 in the code
  CntMax,    \* what the counters of refusals saturate at, 16'hFFFF in the code
  Plain      \* the byte values that mean nothing to SLIP

Octet == {"END", "ESC", "ESC_END", "ESC_ESC"} \cup Plain

-----------------------------------------------------------------------------
(* The code: bytes between two ENDs, and the payload they stand for. *)

WellEscaped(raw) ==
  \A i \in DOMAIN raw :
    raw[i] = "ESC" => i < Len(raw) /\ raw[i + 1] \in {"ESC_END", "ESC_ESC"}

Unescaped(b) == IF b = "ESC_END" THEN "END" ELSE "ESC"

Decoded(raw) ==
  FlattenSeq([i \in DOMAIN raw |->
    CASE raw[i] = "ESC" -> <<>>
      [] raw[i] # "ESC" /\ i > 1 /\ raw[i - 1] = "ESC" -> <<Unescaped(raw[i])>>
      [] OTHER -> <<raw[i]>>])

-----------------------------------------------------------------------------
(* What a decoder promises. *)

VARIABLES
  raw,        \* the bytes taken since the last END
  pending,    \* the frame accepted and not yet delivered (<<>>: none)
  delivered,  \* the frame just delivered, until the next byte
  refused     \* the three counters

vars == <<raw, pending, delivered, refused>>

Reasons == {"esc", "long", "short"}
Bump(n) == IF n = CntMax THEN n ELSE n + 1

\* Why a run of bytes is no frame; "none": it is one, or it is empty.
Refusal(r) ==
  CASE ~WellEscaped(r) -> "esc"
    [] WellEscaped(r) /\ Len(Decoded(r)) > Bytes -> "long"
    [] WellEscaped(r) /\ Len(Decoded(r)) \in 1..(MinBytes - 1) -> "short"
    [] OTHER -> "none"

Init ==
  /\ raw = <<>> /\ pending = <<>> /\ delivered = <<>>
  /\ refused = [w \in Reasons |-> 0]

Take ==
  /\ pending = <<>> /\ delivered' = <<>>
  /\ \E b \in Octet \ {"END"} : raw' = Append(raw, b)
  /\ UNCHANGED <<pending, refused>>

\* An END always ends the frame: the next one starts afresh.
TakeEnd ==
  /\ pending = <<>> /\ delivered' = <<>> /\ raw' = <<>>
  /\ pending' = IF Refusal(raw) = "none" THEN Decoded(raw) ELSE <<>>
  /\ refused' = [w \in Reasons |-> IF w = Refusal(raw) THEN Bump(refused[w]) ELSE refused[w]]

Deliver ==
  /\ pending # <<>>
  /\ delivered' = pending /\ pending' = <<>>
  /\ UNCHANGED <<raw, refused>>

Next == Take \/ TakeEnd \/ Deliver

Spec == Init /\ [][Next]_vars
=============================================================================
