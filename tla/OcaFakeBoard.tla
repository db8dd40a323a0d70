---------------------------- MODULE OcaFakeBoard ----------------------------
(***************************************************************************)
(* fake_device.py: the software board the host tools are tested on, which  *)
(* "enforces the refusals both RTL modules document, deliberately no more  *)
(* and no less". It handles each frame to completion before the next. Its  *)
(* own counters, its bench clock and its misbehaviour hooks are left out:  *)
(* its docstring promises no likeness there.                               *)
(*                                                                         *)
(* A board is its slots, each the number of the load-key it holds or 0,    *)
(* and the answer to the last frame it was given.                          *)
(***************************************************************************)
EXTENDS OcaProto

Unanswered == [status |-> "none"]
Header(status) == [status |-> status, tag |-> NoTag, words |-> 0]

NewBoard == [slots |-> [s \in 0..(NumSlots - 1) |-> 0], out |-> Unanswered]
Says(b, out) == [b EXCEPT !.out = out]

_slot_key(b, slot) == IF slot < NumSlots THEN b.slots[slot] ELSE 0

\* What aead_encrypt and aead_decrypt compute under the key of the slot.
expect_tag(b, r, n) ==
  [key |-> _slot_key(b, r.slot), nonce |-> n,
   over |-> [i \in 1..NumBlocks(r) |-> Block(r, n, i)]]

\* The frame is as long as it declares, and does not fill the buffer.
fits(r) == r.beats = 2

_op_load_key(b, r, n) ==
  CASE r.slot >= NumSlots -> Says(b, Header("BAD_SLOT"))
    [] r.slot < NumSlots /\ ~fits(r) -> Says(b, Header("BAD_LENGTH"))
    [] OTHER -> [slots |-> [b.slots EXCEPT ![r.slot] = n], out |-> Header("OK")]

length_first(b, r, bad, reply) ==              \* seeded fault: length, then slot
  CASE bad -> Header("BAD_LENGTH")
    [] ~bad /\ _slot_key(b, r.slot) = 0 -> Header("BAD_SLOT")
    [] OTHER -> reply
slot_first(b, r, bad, reply) ==
  CASE _slot_key(b, r.slot) = 0 -> Header("BAD_SLOT")
    [] _slot_key(b, r.slot) # 0 /\ bad -> Header("BAD_LENGTH")
    [] OTHER -> reply

_op_seal(b, r, n) ==
  slot_first(b, r, ~fits(r),
    [status |-> "OK", tag |-> expect_tag(b, r, n), words |-> r.msg * BlockWords])

_op_open(b, r, n, tag) ==
  slot_first(b, r, ~fits(r),
    IF tag # expect_tag(b, r, n) THEN Header("AUTH_FAIL")
    ELSE [status |-> "OK", tag |-> NoTag, words |-> r.msg * BlockWords])

_op_bench(b, r) ==
  slot_first(b, r, ~fits(r) \/ r.aad # 0 \/ r.msg = 0, Header("OK"))

_handle(b, r, n, tag) ==
  CASE r.hdr = "magic" -> Says(b, Header("BAD_MAGIC"))
    [] r.hdr = "version" -> Says(b, Header("BAD_VERSION"))
    [] r.hdr = "ok" /\ r.op = "unknown" -> Says(b, Header("BAD_OPCODE"))
    [] r.hdr = "ok" /\ r.op = "load" -> _op_load_key(b, r, n)
    [] r.hdr = "ok" /\ r.op = "seal" -> Says(b, _op_seal(b, r, n))
    [] r.hdr = "ok" /\ r.op = "open" -> Says(b, _op_open(b, r, n, tag))
    [] r.hdr = "ok" /\ r.op = "bench" -> Says(b, _op_bench(b, r))
    [] r.hdr = "ok" /\ r.op = "stats" -> Says(b, Header("OK"))

\* Frames under a header, or over the buffer, get no response at all.
_accept(b, r, n, tag) ==
  IF r.hdr = "short" \/ r.beats > BufBeats THEN Says(b, Unanswered) ELSE _handle(b, r, n, tag)

\* The board after the first n frames of a.
Board(a) ==
  LET after[n \in 0..Len(a)] ==
        IF n = 0 THEN NewBoard ELSE _accept(after[n - 1], a[n], n, ReceivedTag(a, n))
  IN  after

-----------------------------------------------------------------------------
\* What oca_slip_rx can deliver: full words up to the last, within the buffer.
Deliverable(r) == r.hdr # "keep" /\ r.beats <= BufBeats

\* The pipeline answers each request as the fake does: the same verdict in the
\* same order of checks, the tag of a seal made under the same key, a body of
\* the same length; and it answers nothing that the fake leaves unanswered.
SameAnswer(out, r) ==
  /\ out.status = r.status /\ out.words = Len(r.body)
  /\ r.extra.kind = "tag" => out.tag = r.extra.tag
FakeAnswersAlike ==
  responses # <<>> /\ (\A n \in DOMAIN arrived : Deliverable(arrived[n])) =>
    LET r == responses[Len(responses)]
    IN  r.status # "ENGINE_ERR" => SameAnswer(Board(arrived)[r.pid].out, r)
=============================================================================
