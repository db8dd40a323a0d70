------------------------------ MODULE OcaDual ------------------------------
(***************************************************************************)
(* The two-engine fabric of oca_uart_crypto_dual.sv: oca_dispatch in front *)
(* of two oca_core, oca_collect behind them, and the pair of expectation   *)
(* FIFOs (oca_fifo.sv) the two meet in.                                    *)
(*                                                                         *)
(* One step of Next is one rising edge of clk. The decoder upstream, the   *)
(* encoder downstream and the cores are their ports: a beat offered stays  *)
(* offered until it is taken; a core takes a frame whole once it raised    *)
(* tready, holds CoreDepth frames at most, and answers them in order, one  *)
(* response each (what OcaServer promises of it). When a core is ready,    *)
(* when it answers and when the sink takes a beat are left to chance.      *)
(***************************************************************************)
EXTENDS Naturals, Sequences, SequencesExt

CONSTANTS
  Frames,           \* the frames a host may send: [op, len, good]
  MaxFrames,        \* bound: frames a behaviour may contain
  TagDepth,         \* entries of an expectation FIFO, TAG_DEPTH = 8 in the code
  CoreDepth,        \* frames a core holds, from its last beat to its response
  CoresMayDiverge   \* whether a core may refuse a load the other one takes

ASSUME FramesAssumption ==
  Frames \subseteq [op : {"load", "work"}, len : Nat \ {0}, good : BOOLEAN]
ASSUME MaxFramesAssumption == MaxFrames \in Nat
ASSUME TagDepthAssumption == TagDepth \in Nat \ {0}
ASSUME CoreDepthAssumption == CoreDepth \in Nat \ {0}
ASSUME DivergeAssumption == CoresMayDiverge \in BOOLEAN

VARIABLES
  \* the stream out of the decoder: frames begun, the beat on offer (0: none)
  arrived, s_beat, s_next,
  \* oca_dispatch
  d_state, target, last_used, sent, push,
  \* the expectation FIFOs: one bit an entry, broadcast or not
  tags, tag_ovf,
  \* the cores: tready, beats of the frame coming in, frames held, loads
  \* taken, the response on offer with the beat it is at
  ready, part, inq, loads, out,
  \* oca_collect
  c_state, c_src, last_served, fwd_done, drn_done, fwd_first, merged_status,
  trouble,
  \* the stream to the encoder: beats of the reply leaving, replies that left
  leaving, replies

sourceVars   == <<arrived, s_beat, s_next>>
dispatchVars == <<d_state, target, last_used, sent, push>>
tagVars      == <<tags, tag_ovf>>
coreVars     == <<ready, part, inq, loads, out>>
collectVars  == <<c_state, c_src, last_served, fwd_done, drn_done, fwd_first,
                  merged_status, trouble>>
sinkVars     == <<leaving, replies>>
vars == <<sourceVars, dispatchVars, tagVars, coreVars, collectVars, sinkVars>>

Core == {0, 1}
Other(c) == 1 - c
NoOut == [id |-> 0, status |-> "OK", key |-> 0, len |-> 0, at |-> 0, intact |-> TRUE]

Init ==
  /\ arrived = <<>> /\ s_beat = 0 /\ s_next = 1
  /\ d_state = "D_IDLE" /\ target = 0 /\ last_used = 1
  /\ sent = [c \in Core |-> FALSE] /\ push = [c \in Core |-> FALSE]
  /\ tags = [c \in Core |-> <<>>] /\ tag_ovf = [c \in Core |-> FALSE]
  /\ ready = [c \in Core |-> FALSE] /\ part = [c \in Core |-> <<>>]
  /\ inq = [c \in Core |-> <<>>] /\ loads = [c \in Core |-> <<>>]
  /\ out = [c \in Core |-> NoOut]
  /\ c_state = "C_IDLE" /\ c_src = 0 /\ last_served = 1
  /\ fwd_done = FALSE /\ drn_done = FALSE /\ fwd_first = FALSE
  /\ merged_status = "OK" /\ trouble = FALSE
  /\ leaving = <<>> /\ replies = <<>>

-----------------------------------------------------------------------------
(* The wires of one cycle. *)

s_tvalid == s_beat # 0
s_tlast  == s_beat = arrived[Len(arrived)].len
is_bcast == arrived[Len(arrived)].op = "load"
tag_full(c) == Len(tags[c]) = TagDepth
can(c) == ready[c] /\ ~tag_full(c)

\* Beats on offer to each core, taken by each, and taken from the decoder.
m_tvalid(c) ==
  /\ s_tvalid
  /\ \/ d_state = "D_FWD" /\ target = c
     \/ d_state = "D_BCAST" /\ ~sent[c]
taken(c) == m_tvalid(c) /\ ready[c]
ForkFirst == \E c \in Core : sent[c] \/ taken(c)         \* seeded fault
ForkAll == \A c \in Core : sent[c] \/ taken(c)
s_tready ==
  \/ d_state = "D_FWD" /\ ready[target]
  \/ d_state = "D_BCAST" /\ ForkAll
s_fire == s_tvalid /\ s_tready

\* The collector's side: responses on offer, and what its state lets through
\* when the sink is ready (m_tready).
offered(c) == out[c].at # 0
outlast(c) == out[c].at = out[c].len
cand(c) == offered(c) /\ tags[c] # <<>>
sel(c)  == cand(c) /\ ~Head(tags[c])
both_bcast == \A c \in Core : cand(c) /\ Head(tags[c])

popped(c, m_tready) ==      \* fire0 and fire1 of oca_collect
  /\ offered(c)
  /\ \/ c_state = "C_PASS" /\ c_src = c /\ m_tready
     \/ c_state = "C_BCAST" /\ c = 0 /\ m_tready /\ ~fwd_done
     \/ c_state = "C_BCAST" /\ c = 1 /\ ~drn_done

bcast_done_at_once(m_tready) ==     \* seeded fault: what ended is not remembered
  c_state = "C_BCAST" /\ \A c \in Core : popped(c, m_tready) /\ outlast(c)
bcast_done(m_tready) ==
  /\ c_state = "C_BCAST"
  /\ fwd_done \/ (popped(0, m_tready) /\ outlast(0))
  /\ drn_done \/ (popped(1, m_tready) /\ outlast(1))

tag_pop(c, m_tready) ==
  \/ c_state = "C_PASS" /\ c_src = c /\ popped(c, m_tready) /\ outlast(c)
  \/ bcast_done(m_tready)

-----------------------------------------------------------------------------
(* The decoder: begins a frame, offers its beats one by one. *)

SourceOffers ==
  /\ ~s_tvalid
  /\ \/ /\ s_next = 1 /\ Len(arrived) < MaxFrames
        /\ \E f \in Frames : arrived' = Append(arrived, f)
     \/ s_next > 1 /\ UNCHANGED arrived
  /\ s_beat' = s_next /\ UNCHANGED s_next

SourceTaken ==
  /\ s_fire
  /\ s_beat' = 0 /\ s_next' = IF s_tlast THEN 1 ELSE s_beat + 1
  /\ UNCHANGED arrived

SOURCE == SourceOffers \/ SourceTaken \/ (~s_fire /\ UNCHANGED sourceVars)

-----------------------------------------------------------------------------
(* oca_dispatch *)

\* A frame is not dispatched while its record cannot be queued.
RoomUnchecked == TRUE                                   \* seeded fault
RoomForBoth == \A c \in Core : ~tag_full(c)

\* The core to route to: the one not used last when both can take it.
routes(c) == can(c) /\ (last_used # c \/ ~can(Other(c)))

DDecide ==
  /\ d_state = "D_IDLE" /\ s_tvalid
  /\ \/ /\ is_bcast /\ RoomForBoth
        /\ sent' = [c \in Core |-> FALSE] /\ push' = [c \in Core |-> TRUE]
        /\ d_state' = "D_BCAST" /\ UNCHANGED target
     \/ \E c \in Core :
          /\ ~is_bcast /\ routes(c)
          /\ target' = c /\ push' = [k \in Core |-> k = c]
          /\ d_state' = "D_FWD" /\ UNCHANGED sent
  /\ UNCHANGED last_used

DHold ==
  /\ d_state = "D_IDLE"
  /\ s_tvalid => IF is_bcast THEN ~RoomForBoth ELSE \A c \in Core : ~routes(c)
  /\ push' = [c \in Core |-> FALSE]
  /\ UNCHANGED <<d_state, target, last_used, sent>>

\* Locked to the target until tlast.
DForward ==
  /\ d_state = "D_FWD"
  /\ d_state' = IF s_fire /\ s_tlast THEN "D_IDLE" ELSE "D_FWD"
  /\ last_used' = IF s_fire /\ s_tlast THEN target ELSE last_used
  /\ push' = [c \in Core |-> FALSE]
  /\ UNCHANGED <<target, sent>>

\* The fork: a beat leaves the decoder when the second core takes it.
ForkForgets(c) == FALSE                                 \* seeded fault
ForkKeeps(c) == sent[c] \/ taken(c)

DBroadcast ==
  /\ d_state = "D_BCAST"
  /\ sent' = [c \in Core |-> IF s_fire THEN FALSE ELSE ForkKeeps(c)]
  /\ d_state' = IF s_fire /\ s_tlast THEN "D_IDLE" ELSE "D_BCAST"
  /\ push' = [c \in Core |-> FALSE]
  /\ UNCHANGED <<target, last_used>>

DISPATCH == DDecide \/ DHold \/ DForward \/ DBroadcast

-----------------------------------------------------------------------------
(* The expectation FIFOs: both pushes in one cycle are a broadcast. *)

TagAfter(c, m_tready) ==
  LET rest == IF tag_pop(c, m_tready) /\ tags[c] # <<>> THEN Tail(tags[c]) ELSE tags[c]
  IN  IF push[c] /\ ~tag_full(c) THEN Append(rest, push[0] /\ push[1]) ELSE rest

TAGS(m_tready) ==
  /\ tags' = [c \in Core |-> TagAfter(c, m_tready)]
  /\ tag_ovf' = [c \in Core |-> push[c] /\ tag_full(c)]

-----------------------------------------------------------------------------
(* A core, as its ports show it. *)

Held(c) == Len(inq[c]) + (IF offered(c) THEN 1 ELSE 0)
KeyOf(c) == IF loads[c] = <<>> THEN 0 ELSE Last(loads[c])

\* tready rises only when there is room for a frame, and falls behind tlast.
ReadyAfter(c) ==
  CASE taken(c) /\ s_tlast -> {FALSE}
    [] ready[c] /\ ~(taken(c) /\ s_tlast) -> {TRUE}
    [] ~ready[c] -> {FALSE} \cup (IF Held(c) < CoreDepth THEN {TRUE} ELSE {})

\* The beats taken of the frame coming in, the one on offer included.
Beats(c) == IF taken(c) THEN Append(part[c], <<Len(arrived), s_beat>>) ELSE part[c]
Arriving(c) == IF taken(c) /\ s_tlast THEN <<Beats(c)>> ELSE <<>>

\* The answer to a frame: what it says, and whether its beats were a frame's.
AnswerOf(c, beats) ==
  LET id == beats[1][1]
      f  == arrived[id]
      verdicts == {IF f.good THEN "OK" ELSE "BAD"} \cup
                  (IF CoresMayDiverge /\ f.op = "load" THEN {"BAD"} ELSE {})
  IN  [id : {id}, status : verdicts, at : {1},
       len : {IF f.op = "load" \/ ~f.good THEN 1 ELSE 2},
       key : {IF f.op = "load" THEN 0 ELSE KeyOf(c)},
       intact : {beats = [b \in 1..f.len |-> <<id, b>>]}]

\* The response stream after a beat was taken from it.
OutAfter(c, m_tready) ==
  IF ~popped(c, m_tready) THEN out[c]
  ELSE IF outlast(c) THEN NoOut ELSE [out[c] EXCEPT !.at = @ + 1]

\* What core c may have on offer next: the same, or the next answer.
Answers(c, m_tready) ==
  {OutAfter(c, m_tready)} \cup
  (IF OutAfter(c, m_tready).at = 0 /\ inq[c] # <<>> THEN AnswerOf(c, Head(inq[c])) ELSE {})

CORES(m_tready) ==
  \E r0 \in ReadyAfter(0), r1 \in ReadyAfter(1),
     o0 \in Answers(0, m_tready), o1 \in Answers(1, m_tready) :
    LET o == <<o0, o1>>
        new(c) == o[c + 1] # OutAfter(c, m_tready)
        loaded(c) == new(c) /\ o[c + 1].status = "OK" /\ arrived[o[c + 1].id].op = "load"
    IN  /\ ready' = [c \in Core |-> IF c = 0 THEN r0 ELSE r1]
        /\ out' = [c \in Core |-> o[c + 1]]
        /\ part' = [c \in Core |-> IF taken(c) /\ s_tlast THEN <<>> ELSE Beats(c)]
        /\ inq' = [c \in Core |->
                     (IF new(c) THEN Tail(inq[c]) ELSE inq[c]) \o Arriving(c)]
        /\ loads' = [c \in Core |->
                       IF loaded(c) THEN Append(loads[c], o[c + 1].id) ELSE loads[c]]

-----------------------------------------------------------------------------
(* oca_collect *)

\* The status byte of a broadcast's one reply: the error of the two, if any.
MergeTrustsCore0 == out[0].status                       \* seeded fault
MergeFailsClosed == IF out[0].status # "OK" THEN out[0].status ELSE out[1].status

\* A broadcast is answered when both its answers stand at the head.
BcastOnFirst == \E c \in Core : cand(c) /\ Head(tags[c]) \* seeded fault
BcastOnBoth == both_bcast

CKeepBcast == UNCHANGED <<fwd_done, drn_done, fwd_first, merged_status>>

CStartBcast ==
  /\ c_state = "C_IDLE" /\ BcastOnBoth
  /\ c_state' = "C_BCAST"
  /\ fwd_done' = FALSE /\ drn_done' = FALSE /\ fwd_first' = TRUE
  /\ merged_status' = MergeFailsClosed
  /\ UNCHANGED <<c_src, last_served>>

\* The core to serve: the one not served last when both have an answer.
serves(c) == sel(c) /\ (last_served # c \/ ~sel(Other(c)))

CStartPass ==
  /\ c_state = "C_IDLE" /\ ~BcastOnBoth
  /\ \E c \in Core : serves(c) /\ c_src' = c
  /\ c_state' = "C_PASS"
  /\ CKeepBcast /\ UNCHANGED last_served

CIdle ==
  /\ c_state = "C_IDLE" /\ ~BcastOnBoth /\ \A c \in Core : ~serves(c)
  /\ CKeepBcast /\ UNCHANGED <<c_state, c_src, last_served>>

CPass(m_tready) ==
  /\ c_state = "C_PASS"
  /\ LET last == popped(c_src, m_tready) /\ outlast(c_src)
     IN  /\ last_served' = IF last THEN c_src ELSE last_served
         /\ c_state' = IF last THEN "C_IDLE" ELSE "C_PASS"
  /\ CKeepBcast /\ UNCHANGED c_src

CBcast(m_tready) ==
  /\ c_state = "C_BCAST"
  /\ fwd_first' = (fwd_first /\ ~popped(0, m_tready))
  /\ fwd_done' = (fwd_done \/ (popped(0, m_tready) /\ outlast(0)))
  /\ drn_done' = (drn_done \/ (popped(1, m_tready) /\ outlast(1)))
  /\ c_state' = IF bcast_done(m_tready) THEN "C_IDLE" ELSE "C_BCAST"
  /\ UNCHANGED <<c_src, last_served, merged_status>>

\* The statuses are compared in the cycle the merge is decided.
diverged == c_state = "C_IDLE" /\ both_bcast /\ out[0].status # out[1].status

COLLECT(m_tready) ==
  /\ CStartBcast \/ CStartPass \/ CIdle \/ CPass(m_tready) \/ CBcast(m_tready)
  /\ trouble' = (trouble \/ diverged \/ \E c \in Core : tag_ovf[c])

-----------------------------------------------------------------------------
(* The encoder: takes the reply stream, one beat when it is ready. *)

m_src == IF c_state = "C_PASS" THEN c_src ELSE 0
m_fire(m_tready) ==
  popped(m_src, m_tready) /\ (c_state = "C_PASS" \/ c_state = "C_BCAST")
m_beat ==
  [out[m_src] EXCEPT !.status = IF c_state = "C_BCAST" /\ fwd_first
                                THEN merged_status ELSE @]

SINK(m_tready) ==
  LET left == Append(leaving, m_beat)
      from == out[m_src]
  IN  \/ ~m_fire(m_tready) /\ UNCHANGED sinkVars
      \/ m_fire(m_tready) /\ ~outlast(m_src) /\ leaving' = left /\ UNCHANGED replies
      \/ /\ m_fire(m_tready) /\ outlast(m_src) /\ leaving' = <<>>
         /\ replies' = Append(replies,
              [id |-> left[1].id, status |-> left[1].status, key |-> left[1].key,
               whole |-> /\ from.intact
                         /\ Len(left) = from.len
                         /\ \A b \in DOMAIN left : left[b].id = from.id /\ left[b].at = b])

-----------------------------------------------------------------------------
Cycle(m_tready) ==
  /\ SOURCE /\ DISPATCH /\ TAGS(m_tready) /\ CORES(m_tready)
  /\ COLLECT(m_tready) /\ SINK(m_tready)

Next == \E m_tready \in BOOLEAN : Cycle(m_tready)

Spec == Init /\ [][Next]_vars

\* The clock runs; the decoder hands over whole frames; a core that has room
\* becomes ready and answers what it holds; the encoder takes what it is shown.
Fairness ==
  /\ WF_vars(Next)
  /\ WF_vars(s_next > 1 /\ SourceOffers /\ Next)
  /\ \A c \in Core :
       /\ WF_vars(~ready[c] /\ Held(c) < CoreDepth /\ Next /\ ready'[c])
       /\ WF_vars(~offered(c) /\ inq[c] # <<>> /\ Next /\ offered(c)')
  /\ WF_vars(m_fire(TRUE) /\ Cycle(TRUE))

FairSpec == Spec /\ Fairness

-----------------------------------------------------------------------------
(* What the fabric guarantees. *)

StreamBit(id) == arrived[id].op = "load"

\* The expectation FIFOs are never pushed when full: the dispatcher stalls on
\* tag_full instead, whatever the cores and the collector do.
NoOverflow == \A c \in Core : ~tag_ovf[c]

\* The expectation FIFO of a core, with the record on its way in, describes
\* exactly the frames the core owes an answer, oldest first.
coming(c) ==
  \/ d_state = "D_FWD" /\ target = c
  \/ d_state = "D_BCAST" /\ ~(sent[c] /\ s_tvalid /\ s_tlast)
half_done(c) ==
  c_state = "C_BCAST" /\ IF c = 0 THEN fwd_done ELSE drn_done
Owed(c) ==
  (IF half_done(c) THEN <<TRUE>> ELSE <<>>)
  \o (IF offered(c) THEN <<StreamBit(out[c].id)>> ELSE <<>>)
  \o [k \in DOMAIN inq[c] |-> StreamBit(inq[c][k][1][1])]
  \o (IF coming(c) THEN <<d_state = "D_BCAST">> ELSE <<>>)
TagsDescribe ==
  \A c \in Core :
    tags[c] \o (IF push[c] THEN <<push[0] /\ push[1]>> ELSE <<>>) = Owed(c)

\* One core's key store is never more than behind the other's: both see the
\* loads of the stream in the one order.
KeystoresAgree == IsPrefix(loads[0], loads[1]) \/ IsPrefix(loads[1], loads[0])

\* A load is acknowledged only when both engines hold the key, and `trouble`
\* is up exactly when two answers that differed were merged.
SplitLoad(n) == \E c \in Core : Contains(loads[c], n) /\ ~Contains(loads[Other(c)], n)
Merged(n) ==
  \/ \E k \in DOMAIN replies : replies[k].id = n /\ arrived[n].op = "load"
  \/ c_state = "C_BCAST" /\ offered(0) /\ out[0].id = n
FailClosed ==
  /\ \A k \in DOMAIN replies :
       arrived[replies[k].id].op = "load" /\ replies[k].status = "OK"
         => \A c \in Core : Contains(loads[c], replies[k].id)
  /\ trouble <=> \E n \in DOMAIN arrived : Merged(n) /\ SplitLoad(n)

\* Every frame begun is answered: the broadcast's two waits, for both cores to
\* take it and for both to answer it, cannot hold each other up.
Answered ==
  \A n \in 1..MaxFrames :
    Len(arrived) >= n ~> \E k \in DOMAIN replies : replies[k].id = n

\* The two engines, seen from the host, are one device.
Server == INSTANCE OcaDualServer WITH
  accepted <- IF s_beat = 0 /\ s_next = 1 THEN arrived
              ELSE SubSeq(arrived, 1, Len(arrived) - 1)
Implements == Server!Spec
=============================================================================
