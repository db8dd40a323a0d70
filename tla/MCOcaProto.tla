----------------------------- MODULE MCOcaProto -----------------------------
(***************************************************************************)
(* The requests given to small instances of OcaProto.                      *)
(***************************************************************************)
EXTENDS OcaFakeBoard

Req(op, slot, aad, msg) ==
  [op |-> op, hdr |-> "ok", slot |-> slot, beats |-> 2, nul |-> FALSE,
   aad |-> aad, msg |-> msg, rtag |-> IF op = "open" THEN "own" ELSE "none"]

Load   == Req("load", 0, 0, 0)
Load1  == Req("load", 1, 0, 0)
Seal   == Req("seal", 0, 1, 1)
Seal1  == Req("seal", 1, 0, 2)
Open   == Req("open", 0, 0, 1)
Replay == [Open EXCEPT !.rtag = "prev"]
Forged == [Open EXCEPT !.rtag = "none"]
Stats  == Req("stats", 0, 0, 0)
Bench  == Req("bench", 0, 0, 3)
Short  == [Load EXCEPT !.hdr = "short", !.beats = 1]

\* One of every shape the parse tells apart. With one slot, slot 1 is none.
EveryShape ==
  {Load, Load1, Seal, Seal1, Open, Replay, Forged, Stats, Bench, Short,
   Req("seal", 0, 0, 0), Req("seal", 0, 2, 0), Req("open", 0, 1, 2),
   Req("bench", 0, 0, 0), Req("bench", 0, 1, 1), Req("unknown", 0, 0, 0),
   [Load EXCEPT !.beats = 1], [Seal EXCEPT !.beats = 1], [Seal EXCEPT !.beats = 3],
   [Seal EXCEPT !.beats = 4], [Seal EXCEPT !.nul = TRUE], [Stats EXCEPT !.beats = 1],
   [Short EXCEPT !.beats = 0, !.nul = TRUE], [Seal EXCEPT !.hdr = "keep"],
   [Seal EXCEPT !.hdr = "magic"], [Seal EXCEPT !.hdr = "version"]}

\* Enough for every hand-off between neighbours of different kinds, over two
\* slots: with and without engine, block, answer.
Stream == {Load, Load1, Seal, Seal1, Replay, Short}
=============================================================================
