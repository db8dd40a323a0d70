------------------------------ MODULE OcaSlipTx ------------------------------
(***************************************************************************)
(* oca_slip_tx.sv: the SLIP encoder behind the cores. A beat is taken in   *)
(* one cycle and walked byte by byte, an ESC in front of each byte that    *)
(* framing owns, an END behind the last beat. One step is one rising edge  *)
(* of clk in which the byte queue has room.                                *)
(***************************************************************************)
EXTENDS Naturals, Sequences, SequencesExt

CONSTANTS
  WordBytes,  \* bytes of a beat, 8 in the code
  Plain,      \* the byte values that mean nothing to SLIP
  MaxBeats    \* bound: beats of a frame

VARIABLES
  state, word, nbytes, idx, last,
  frame,    \* observed: the bytes of the beats taken since the last END
  beats,    \* observed: how many beats that is
  wire      \* observed: the bytes pushed since the last END

vars == <<state, word, nbytes, idx, last, frame, beats, wire>>

Octet == {"END", "ESC", "ESC_END", "ESC_ESC"} \cup Plain
Lane == 0..(WordBytes - 1)

Init ==
  /\ state = "T_IDLE" /\ word = [i \in Lane |-> "ESC_END"]   \* any value: never read
  /\ nbytes = 0 /\ idx = 0 /\ last = FALSE
  /\ frame = <<>> /\ beats = 0 /\ wire = <<>>

-----------------------------------------------------------------------------
cur_byte == word[idx % WordBytes]
needs_esc_end_only == cur_byte = "END"               \* seeded fault
needs_esc == cur_byte \in {"END", "ESC"}

tx_data ==
  CASE state = "T_BYTE" -> IF needs_esc THEN "ESC" ELSE cur_byte
    [] state = "T_ESC" -> IF cur_byte = "END" THEN "ESC_END" ELSE "ESC_ESC"
    [] OTHER -> "END"

walked_late == idx = nbytes                          \* seeded fault
walked == idx + 1 = nbytes

\* A beat that carries no byte is only ever the END it closes.
TIdle ==
  \E w \in [Lane -> Octet], l \in BOOLEAN, keep_bytes \in 0..WordBytes :
    /\ state = "T_IDLE"
    /\ IF l THEN beats < MaxBeats ELSE beats < MaxBeats - 1 /\ keep_bytes = WordBytes
    /\ word' = w /\ nbytes' = keep_bytes /\ last' = l /\ idx' = 0
    /\ state' = IF keep_bytes # 0 THEN "T_BYTE" ELSE "T_END"
    /\ frame' = frame \o [i \in 1..keep_bytes |-> w[i - 1]]
    /\ beats' = beats + 1 /\ UNCHANGED wire

Walk(next) ==
  /\ idx' = idx + 1
  /\ state' = IF walked THEN IF last THEN "T_END" ELSE "T_IDLE" ELSE next
TakenKeep == UNCHANGED <<word, nbytes, last, frame, beats>>

TByte ==
  /\ state = "T_BYTE"
  /\ \/ needs_esc /\ state' = "T_ESC" /\ UNCHANGED idx
     \/ ~needs_esc /\ Walk("T_BYTE")
  /\ wire' = Append(wire, tx_data) /\ TakenKeep

TEsc ==
  /\ state = "T_ESC"
  /\ wire' = Append(wire, tx_data) /\ Walk("T_BYTE") /\ TakenKeep

TEnd ==
  /\ state = "T_END" /\ state' = "T_IDLE"
  /\ wire' = <<>> /\ frame' = <<>> /\ beats' = 0
  /\ UNCHANGED <<word, nbytes, idx, last>>

\* Reset.
TReset ==
  /\ state' = "T_IDLE" /\ word' = [i \in Lane |-> "ESC_END"] /\ nbytes' = 0
  /\ idx' = 0 /\ last' = FALSE /\ frame' = <<>> /\ beats' = 0 /\ wire' = <<>>

\* Without tx_ready nothing moves, and that is a stutter.
Next == TIdle \/ TByte \/ TEsc \/ TEnd \/ TReset

Spec == Init /\ [][Next]_vars

-----------------------------------------------------------------------------
(* What the encoder guarantees. *)

\* The bytes between two ENDs are free of END, every ESC among them is half of
\* an escape, and a decoder reads from them exactly the bytes of the beats: a
\* response is never cut short, lengthened by what tkeep masks, or shifted.
Slip == INSTANCE OcaSlip WITH
  Bytes <- MaxBeats * WordBytes, MinBytes <- 1, CntMax <- 1, raw <- wire,
  pending <- <<>>, delivered <- <<>>, refused <- [esc |-> 0, long |-> 0, short |-> 0]
RoundTrip ==
  state = "T_END" =>
    "END" \notin {wire[i] : i \in DOMAIN wire} /\ Slip!WellEscaped(wire) /\ Slip!Decoded(wire) = frame
=============================================================================
