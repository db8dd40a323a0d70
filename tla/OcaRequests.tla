---------------------------- MODULE OcaRequests ----------------------------
(***************************************************************************)
(* The requests one oca_core is given, and what the protocol engine reads  *)
(* out of each: shared by the abstract server (OcaServer) and by the       *)
(* four-stage pipeline that implements it (OcaProto).                      *)
(*                                                                         *)
(* A request is the record of what oca_proto.sv can tell apart:            *)
(*   op     the opcode, "unknown" standing for every undefined one         *)
(*   hdr    "ok", or the first thing wrong before the opcode: "short" (no  *)
(*          whole header), "keep" (a partial non-last beat), "magic",      *)
(*          "version"                                                      *)
(*   slot   the slot byte; NumSlots stands for every number out of range   *)
(*   beats  beats that carry bytes; 2 is "as long as its lengths declare"  *)
(*          (the header, then everything after it), any other is not       *)
(*   nul    the frame is closed by a beat that carries no byte             *)
(*   aad    whole 64-byte-or-less blocks of associated data                *)
(*   msg    blocks of message, or the repeat count of a bench              *)
(*   rtag   what bytes 24..39 hold: the right tag of this request, that of *)
(*          the request before it, or neither                              *)
(* Keys, tags and blocks are identified by the requests they come from.    *)
(***************************************************************************)
EXTENDS Naturals, Sequences, FiniteSets

CONSTANTS
  Requests,        \* the requests a host may send
  NumSlots,        \* NUM_SLOTS of oca_keystore.sv, 8 in every build
  BlockWords,      \* 64-bit words per ciphertext block, 8 in the code
  EngineMayFault   \* whether the engine may raise `err` on a block

Ops      == {"load", "seal", "open", "stats", "bench", "unknown"}
Headers  == {"ok", "short", "keep", "magic", "version"}
Statuses == {"OK", "BAD_MAGIC", "BAD_VERSION", "BAD_OPCODE", "BAD_SLOT",
             "BAD_LENGTH", "AUTH_FAIL", "ENGINE_ERR"}

RequestType ==
  [op : Ops, hdr : Headers, slot : 0..NumSlots, beats : Nat, nul : BOOLEAN,
   aad : Nat, msg : Nat, rtag : {"own", "prev", "none"}]

ASSUME RequestsAssumption  == Requests \subseteq RequestType
\* A header takes a beat, and a partial beat that is not the last has a next one.
ASSUME ShapesAssumption ==
  \A r \in Requests : /\ r.beats = 0 => r.hdr = "short"
                      /\ r.hdr = "keep" => r.beats > 1 \/ (r.beats = 1 /\ r.nul)
ASSUME NumSlotsAssumption  == NumSlots \in Nat \ {0}
ASSUME BlockWordsAssumption == BlockWords \in Nat \ {0}
ASSUME MayFaultAssumption  == EngineMayFault \in BOOLEAN

\* A request that reaches the engine when nothing about it is refused.
Crypto(r) == r.op \in {"seal", "open", "bench"}

\* The lengths the request declares against the `count` beats received.
LenBad(r, count) ==
  \/ count # 2
  \/ r.op = "bench" /\ (r.aad # 0 \/ r.msg = 0)

\* The verdict on the header, in the order P_DISPATCH reaches it.
HeaderStatus(r) ==
  CASE r.hdr = "keep"    -> "BAD_LENGTH"
    [] r.hdr = "magic"   -> "BAD_MAGIC"
    [] r.hdr = "version" -> "BAD_VERSION"
    [] r.hdr = "ok" /\ r.op = "unknown" -> "BAD_OPCODE"
    [] OTHER -> "OK"

\* Packets cnt_drop counts: no header to answer, or a header not ours.
HeaderDropped(r) ==
  r.hdr = "short" \/ HeaderStatus(r) \in {"BAD_MAGIC", "BAD_VERSION", "BAD_OPCODE"}

\* Blocks fed to the engine: the AAD first, then the message; an empty
\* message without AAD is one empty block. A bench feeds its block N times.
NumBlocks(r) == IF r.aad + r.msg = 0 THEN 1 ELSE r.aad + r.msg
Block(r, n, i) == <<n, IF r.op = "bench" THEN 1 ELSE i>>
Ciphers(r, i) == r.msg > 0 /\ i > r.aad

NoExtra == [kind |-> "none"]
NoTag == [key |-> 0, nonce |-> 0, over |-> <<>>]

\* The key slot s holds when request n of sequence a is judged: the last
\* load-key before it that was not refused (0: the slot was never loaded).
Loads(r, s) ==
  /\ r.op = "load" /\ r.hdr = "ok" /\ r.slot = s
  /\ s < NumSlots /\ ~LenBad(r, r.beats)

KeyOf(a, n, s) ==
  LET before == {m \in 1..(n - 1) : Loads(a[m], s)}
  IN  IF before = {} THEN 0 ELSE CHOOSE m \in before : \A k \in before : k <= m

\* The tag of request n, and the tag its own bytes 24..39 carry.
TagOf(a, n) ==
  [key   |-> KeyOf(a, n, a[n].slot),
   nonce |-> n,
   over  |-> [i \in 1..NumBlocks(a[n]) |-> Block(a[n], n, i)]]

ReceivedTag(a, n) ==
  CASE a[n].rtag = "own" -> TagOf(a, n)
    [] a[n].rtag = "prev" /\ n > 1 -> TagOf(a, n - 1)
    [] OTHER -> NoTag
=============================================================================
