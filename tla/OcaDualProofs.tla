--------------------------- MODULE OcaDualProofs ---------------------------
(***************************************************************************)
(* Proofs about OcaDual, for every depth of the expectation FIFOs and of   *)
(* the cores, every number of frames, and every timing of decoder, cores   *)
(* and sink. In the order they build on each other:                        *)
(*                                                                         *)
(* TagRoom: the expectation FIFOs are never pushed when full. tag_full     *)
(* alone does not say so, because a push is a cycle behind the decision    *)
(* that raised it: the dispatcher never decides in the cycle its own push  *)
(* is under way.                                                           *)
(*                                                                         *)
(* FabricInv: where the frame under way has got to, and that every frame a *)
(* core holds or answers has reached it whole. TagsInv: an expectation     *)
(* FIFO and the record on its way in say what its core owes, oldest first. *)
(*                                                                         *)
(* InOrder, KeysTaken, SameLoads: a core answers in the order of the       *)
(* stream, so where the cores judge alike both key stores are filled       *)
(* alike.                                                                  *)
(*                                                                         *)
(* MergeInv: a load is held, half answered or replied to, so that the two  *)
(* answers the collector merges answer one load, and `trouble` says        *)
(* whether the cores agreed on it.                                         *)
(*                                                                         *)
(* OneServer: besides, a core holds the frames that arrived beat by beat,  *)
(* answers each under the keys sent before it, and a frame of work is held *)
(* by one core or replied to. With it every cycle is a step of             *)
(* OcaDualServer, or none: the two engines are one device.                 *)
(***************************************************************************)
EXTENDS OcaDual, SequenceTheorems, TLAPS

\* A push under way has room, and the dispatcher is busy with its frame.
TagRoom ==
  /\ d_state \in {"D_IDLE", "D_FWD", "D_BCAST"}
  /\ push \in [Core -> BOOLEAN]
  /\ \A c \in Core :
       /\ tags[c] \in Seq(BOOLEAN) /\ Len(tags[c]) <= TagDepth
       /\ push[c] => d_state # "D_IDLE" /\ Len(tags[c]) < TagDepth
       /\ ~tag_ovf[c]

\* A cycle's push and pop, seen from one FIFO.
LEMMA TagAfterFacts ==
  ASSUME TagRoom, NEW c \in Core, NEW m_tready \in BOOLEAN
  PROVE  /\ TagAfter(c, m_tready) \in Seq(BOOLEAN)
         /\ Len(TagAfter(c, m_tready)) <= TagDepth
         /\ ~push[c] => Len(TagAfter(c, m_tready)) <= Len(tags[c])
<1>1. /\ TagDepth \in Nat /\ tags[c] \in Seq(BOOLEAN) /\ Len(tags[c]) <= TagDepth
      /\ push[c] => Len(tags[c]) < TagDepth
  BY TagDepthAssumption DEF TagRoom
<1> DEFINE rest == IF tag_pop(c, m_tready) /\ tags[c] # <<>> THEN Tail(tags[c]) ELSE tags[c]
           bit == push[0] /\ push[1]
<1>2. rest \in Seq(BOOLEAN) /\ Len(rest) <= Len(tags[c])
  <2>1. tags[c] # <<>> => /\ Tail(tags[c]) \in Seq(BOOLEAN)
                          /\ Len(Tail(tags[c])) = Len(tags[c]) - 1
    BY <1>1, EmptySeq, HeadTailProperties
  <2>2. Len(tags[c]) \in Nat
    BY <1>1
  <2> QED BY <1>1, <2>1, <2>2
<1>3. bit \in BOOLEAN
  OBVIOUS
<1>4. TagAfter(c, m_tready) = IF push[c] /\ ~tag_full(c) THEN Append(rest, bit) ELSE rest
  BY DEF TagAfter
<1>5. /\ Append(rest, bit) \in Seq(BOOLEAN)
      /\ Len(Append(rest, bit)) = Len(rest) + 1
  BY <1>2, <1>3
<1> HIDE DEF rest, bit
<1>6. CASE push[c] /\ ~tag_full(c)
  BY <1>1, <1>2, <1>4, <1>5, <1>6
<1>7. CASE ~(push[c] /\ ~tag_full(c))
  BY <1>1, <1>2, <1>4, <1>7
<1> QED BY <1>6, <1>7

\* A push is raised only out of D_IDLE, towards a FIFO with room.
LEMMA DispatchPush ==
  ASSUME TagRoom, DISPATCH
  PROVE  /\ d_state' \in {"D_IDLE", "D_FWD", "D_BCAST"}
         /\ push' \in [Core -> BOOLEAN]
         /\ \A c \in Core : push'[c] =>
              /\ d_state' # "D_IDLE"
              /\ ~push[c] /\ Len(tags[c]) < TagDepth
<1>1. CASE DDecide
  <2>1. \A c \in Core : ~tag_full(c) => Len(tags[c]) < TagDepth
    BY TagDepthAssumption DEF TagRoom, tag_full
  <2>2. \A c \in Core : ~push[c]
    BY <1>1 DEF DDecide, TagRoom
  <2>3. CASE /\ RoomForBoth /\ push' = [c \in Core |-> TRUE] /\ d_state' = "D_BCAST"
    BY <2>1, <2>2, <2>3 DEF RoomForBoth
  <2>4. CASE \E c \in Core : /\ routes(c) /\ push' = [k \in Core |-> k = c]
                             /\ d_state' = "D_FWD"
    BY <2>1, <2>2, <2>4 DEF routes, can
  <2> QED BY <1>1, <2>3, <2>4 DEF DDecide
<1>2. CASE DHold
  BY <1>2 DEF DHold, TagRoom
<1>3. CASE DForward
  BY <1>3 DEF DForward
<1>4. CASE DBroadcast
  BY <1>4 DEF DBroadcast
<1> QED BY <1>1, <1>2, <1>3, <1>4 DEF DISPATCH

LEMMA NextTagRoom == ASSUME TagRoom, Next PROVE TagRoom'
<1>1. PICK m_tready \in BOOLEAN : DISPATCH /\ TAGS(m_tready)
  BY DEF Next, Cycle
<1>2. ASSUME NEW c \in Core
      PROVE  /\ tags'[c] = TagAfter(c, m_tready)
             /\ tag_ovf'[c] = (push[c] /\ tag_full(c))
  BY <1>1 DEF TAGS
<1>3. ASSUME NEW c \in Core
      PROVE  /\ tags'[c] \in Seq(BOOLEAN) /\ Len(tags'[c]) <= TagDepth
             /\ push'[c] => d_state' # "D_IDLE" /\ Len(tags'[c]) < TagDepth
             /\ ~tag_ovf'[c]
  <2>1. /\ tags'[c] \in Seq(BOOLEAN) /\ Len(tags'[c]) <= TagDepth
        /\ ~push[c] => Len(tags'[c]) <= Len(tags[c])
    BY <1>2, TagAfterFacts
  <2>2. ~tag_ovf'[c]
    <3>1. push[c] => ~tag_full(c)
      BY TagDepthAssumption DEF TagRoom, tag_full
    <3> QED BY <1>2, <3>1, Zenon
  <2>3. Len(tags[c]) \in Nat
    BY DEF TagRoom
  <2>4. push'[c] => /\ d_state' # "D_IDLE"
                    /\ ~push[c] /\ Len(tags[c]) < TagDepth
    BY <1>1, DispatchPush
  <2> QED BY <2>1, <2>2, <2>3, <2>4, TagDepthAssumption
<1>4. d_state' \in {"D_IDLE", "D_FWD", "D_BCAST"} /\ push' \in [Core -> BOOLEAN]
  BY <1>1, DispatchPush
<1> QED BY <1>3, <1>4 DEF TagRoom

\* An expectation FIFO never overflows: `trouble` can only mean that two
\* answers to a broadcast differed.
THEOREM TagsNeverOverflow == Spec => []NoOverflow
<1>1. Init => TagRoom
  BY TagDepthAssumption DEF Init, TagRoom, Core
<1>2. TagRoom /\ [Next]_vars => TagRoom'
  <2>1. CASE Next
    BY <2>1, NextTagRoom
  <2>2. CASE UNCHANGED vars
    BY <2>2 DEF TagRoom, vars, dispatchVars, tagVars
  <2> QED BY <2>1, <2>2
<1>3. TagRoom => NoOverflow
  BY DEF TagRoom, NoOverflow
<1> QED BY <1>1, <1>2, <1>3, PTL DEF Spec
-----------------------------------------------------------------------------
(* The stream and the dispatcher: where the frame under way has got to.    *)

Underway == s_beat # 0 \/ s_next > 1

Stream ==
  /\ arrived \in Seq(Frames) /\ s_next \in Nat /\ s_next > 0 /\ s_beat \in {0, s_next}
  /\ Underway => Len(arrived) > 0 /\ s_next <= arrived[Len(arrived)].len

Dispatched ==
  /\ d_state \in {"D_IDLE", "D_FWD", "D_BCAST"} /\ target \in Core
  /\ d_state = "D_IDLE" => s_next = 1
  /\ d_state = "D_FWD" => Underway /\ ~is_bcast
  /\ d_state = "D_BCAST" => Underway /\ is_bcast
  /\ \A c \in Core :
       /\ sent[c] => d_state = "D_BCAST" /\ s_tvalid
       /\ push[c] => coming(c) /\ ((push[0] /\ push[1]) <=> d_state = "D_BCAST")

\* The decoder begins a frame, offers a beat, has one taken, or waits.
LEMMA SourceStep ==
  ASSUME Stream, SOURCE
  PROVE  /\ Stream'
         /\ \/ /\ ~Underway /\ s_beat' = 1 /\ s_next' = 1
               /\ \E f \in Frames : arrived' = Append(arrived, f)
            \/ /\ arrived' = arrived
               /\ \/ ~s_tvalid /\ s_next > 1 /\ s_beat' = s_next /\ s_next' = s_next
                  \/ /\ s_fire /\ s_beat' = 0
                     /\ s_next' = IF s_tlast THEN 1 ELSE s_beat + 1
                  \/ ~s_fire /\ s_beat' = s_beat /\ s_next' = s_next
<1>1. \A f \in Frames : f.len \in Nat \ {0}
  BY FramesAssumption
<1>2. CASE SourceOffers
  <2>1. CASE s_next > 1 /\ UNCHANGED arrived
    BY <1>2, <2>1 DEF SourceOffers, Stream, Underway, s_tvalid
  <2>2. CASE s_next = 1 /\ \E f \in Frames : arrived' = Append(arrived, f)
    <3>1. PICK f \in Frames : arrived' = Append(arrived, f)
      BY <2>2
    <3>2. /\ s_beat = 0 /\ s_next = 1 /\ s_beat' = 1 /\ s_next' = 1
      BY <1>2, <2>2 DEF SourceOffers, s_tvalid
    <3>3. /\ arrived' \in Seq(Frames) /\ Len(arrived') = Len(arrived) + 1
          /\ arrived'[Len(arrived')] = f
      BY <3>1 DEF Stream
    <3>4. Len(arrived') > 0 /\ 1 <= f.len
      BY <1>1, <3>3 DEF Stream
    <3> QED BY <3>1, <3>2, <3>3, <3>4 DEF Stream, Underway
  <2> QED BY <1>2, <2>1, <2>2 DEF SourceOffers
<1>3. CASE SourceTaken
  <2>1. /\ s_beat # 0 /\ s_beat = s_next /\ Underway /\ arrived' = arrived
        /\ s_beat' = 0 /\ s_next' = IF s_tlast THEN 1 ELSE s_beat + 1
    BY <1>3 DEF SourceTaken, s_fire, s_tvalid, Stream, Underway
  <2>2. arrived[Len(arrived)].len \in Nat
    BY <1>1, <2>1 DEF Stream
  <2>3. ~s_tlast => s_next + 1 <= arrived[Len(arrived)].len
    BY <2>1, <2>2 DEF Stream, s_tlast
  <2> QED BY <1>3, <2>1, <2>2, <2>3 DEF SourceTaken, Stream, Underway
<1>4. CASE ~s_fire /\ UNCHANGED sourceVars
  BY <1>4 DEF sourceVars, Stream, Underway
<1> QED BY <1>2, <1>3, <1>4 DEF SOURCE

\* What has arrived stays, and a frame is a load or not from the first.
LEMMA FramesStay ==
  ASSUME Stream, SOURCE, NEW n \in DOMAIN arrived
  PROVE  /\ n \in DOMAIN arrived' /\ arrived'[n] = arrived[n]
         /\ arrived[n] \in Frames /\ StreamBit(n) \in BOOLEAN
         /\ StreamBit(n)' <=> StreamBit(n)
<1>1. arrived \in Seq(Frames)
  BY DEF Stream
<1>2. arrived' = arrived \/ \E f \in Frames : arrived' = Append(arrived, f)
  BY SourceStep
<1>3. n \in DOMAIN arrived' /\ arrived'[n] = arrived[n] /\ arrived[n] \in Frames
  BY <1>1, <1>2
<1> QED BY <1>3 DEF StreamBit

\* Whether c has yet to take the last beat of the frame under way.
LEMMA DispatchStep ==
  ASSUME Stream, Dispatched, TagRoom, SOURCE, DISPATCH
  PROVE  /\ Dispatched'
         /\ \A c \in Core :
              /\ taken(c) => Underway /\ coming(c) /\ (is_bcast <=> d_state = "D_BCAST")
              /\ taken(c) /\ s_tlast => ~coming(c)'
              /\ coming(c) /\ ~(taken(c) /\ s_tlast) => coming(c)' /\ d_state' = d_state
              /\ coming(c) => ~push'[c]
              /\ ~coming(c) => (coming(c)' <=> push'[c])
<1>1. /\ s_beat \in {0, s_next} /\ s_next \in Nat /\ s_next > 0
      /\ Stream' /\ push \in [Core -> BOOLEAN]
  BY SourceStep DEF Stream, TagRoom
<1>2. CASE DDecide
  <2>1. /\ ~s_fire /\ s_beat # 0 /\ s_beat' = s_beat /\ s_next' = s_next /\ arrived' = arrived
        /\ s_next = 1 /\ d_state = "D_IDLE" /\ Underway'
    BY <1>1, <1>2, SourceStep
       DEF DDecide, s_fire, s_tready, s_tvalid, Underway, Dispatched
  <2>2. \A c \in Core : ~taken(c) /\ ~coming(c) /\ ~sent[c] /\ ~push[c]
    BY <2>1 DEF taken, m_tvalid, coming, Dispatched
  <2>3. CASE /\ is_bcast /\ sent' = [c \in Core |-> FALSE] /\ push' = [c \in Core |-> TRUE]
             /\ d_state' = "D_BCAST" /\ target' = target
    BY <2>1, <2>2, <2>3 DEF Dispatched, coming, Core, is_bcast
  <2>4. CASE \E c \in Core : /\ ~is_bcast /\ target' = c /\ push' = [k \in Core |-> k = c]
                             /\ d_state' = "D_FWD" /\ sent' = sent
    BY <2>1, <2>2, <2>4 DEF Dispatched, coming, Core, is_bcast
  <2> QED BY <1>2, <2>3, <2>4 DEF DDecide
<1>3. CASE DHold
  <2>1. /\ ~s_fire /\ d_state = "D_IDLE" /\ s_next = 1 /\ s_next' = 1
    BY <1>1, <1>3, SourceStep DEF DHold, s_fire, s_tready, s_tvalid, Dispatched
  <2>2. \A c \in Core : ~taken(c) /\ ~coming(c) /\ ~sent[c] /\ ~push'[c]
    BY <1>3, <2>1 DEF DHold, taken, m_tvalid, coming, Dispatched
  <2> QED BY <1>3, <2>1, <2>2 DEF DHold, Dispatched, coming
<1>4. CASE DForward
  <2>1. /\ d_state = "D_FWD" /\ target' = target /\ sent' = sent /\ Underway /\ ~is_bcast
        /\ \A c \in Core : ~push'[c] /\ ~sent[c]
        /\ d_state' = IF s_fire /\ s_tlast THEN "D_IDLE" ELSE "D_FWD"
    BY <1>4 DEF DForward, Dispatched
  <2>2. /\ arrived' = arrived /\ (s_fire <=> taken(target))
        /\ \A c \in Core : /\ taken(c) => c = target
                           /\ coming(c) <=> c = target
    BY <2>1, SourceStep DEF Dispatched, taken, m_tvalid, coming, s_fire, s_tready
  <2>3. s_fire /\ s_tlast => s_next' = 1
    BY <2>2, SourceStep DEF Underway, s_fire
  <2>4. ~(s_fire /\ s_tlast) => Underway'
    BY <1>1, <2>1, <2>2, SourceStep DEF Underway, s_fire, s_tvalid
  <2> QED BY <2>1, <2>2, <2>3, <2>4 DEF Dispatched, coming, is_bcast
<1>5. CASE DBroadcast
  <2>1. /\ d_state = "D_BCAST" /\ target' = target /\ Underway /\ is_bcast
        /\ \A c \in Core : ~push'[c] /\ (sent'[c] <=> ~s_fire /\ (sent[c] \/ taken(c)))
        /\ d_state' = IF s_fire /\ s_tlast THEN "D_IDLE" ELSE "D_BCAST"
    BY <1>5 DEF DBroadcast, Dispatched, ForkKeeps
  <2>2. /\ arrived' = arrived /\ (s_fire <=> s_tvalid /\ \A c \in Core : sent[c] \/ taken(c))
        /\ \A c \in Core : /\ taken(c) => s_tvalid /\ ~sent[c]
                           /\ coming(c) <=> ~(sent[c] /\ s_tvalid /\ s_tlast)
    BY <2>1, SourceStep DEF Dispatched, taken, m_tvalid, coming, s_fire, s_tready, ForkAll
  <2>3. s_fire /\ s_tlast => s_next' = 1
    BY <2>2, SourceStep DEF Underway, s_fire
  <2>4. ~(s_fire /\ s_tlast) => Underway'
    BY <1>1, <2>1, <2>2, SourceStep DEF Underway, s_fire, s_tvalid
  <2>5. s_tvalid /\ ~s_fire => s_tvalid' /\ (s_tlast' <=> s_tlast)
    BY <2>2, SourceStep DEF s_tvalid, s_tlast
  <2> QED BY <2>1, <2>2, <2>3, <2>4, <2>5 DEF Dispatched, coming, is_bcast
<1> QED BY <1>2, <1>3, <1>4, <1>5 DEF DISPATCH

-----------------------------------------------------------------------------
(* The cores: every frame one holds, or is answering, has reached it whole. *)

FrameOf(beats) == beats[1][1]
StillComing(c) == Underway /\ ~(sent[c] /\ s_tlast)
Reached(c, n) == n \in DOMAIN arrived /\ (n = Len(arrived) => ~StillComing(c))

CoreHolds(c) ==
  /\ part[c] \in Seq(Nat \X Nat) /\ \A b \in DOMAIN part[c] : part[c][b][1] = Len(arrived)
  /\ part[c] # <<>> => coming(c)
  /\ inq[c] \in Seq(Seq(Nat \X Nat))
  /\ \A k \in DOMAIN inq[c] : Reached(c, FrameOf(inq[c][k]))
  /\ DOMAIN out[c] = DOMAIN NoOut /\ out[c].at \in Nat /\ out[c].len \in Nat
  /\ out[c].at <= out[c].len
  /\ offered(c) => Reached(c, out[c].id)
  /\ loads[c] \in Seq(Nat)

FabricInv == TagRoom /\ Stream /\ Dispatched /\ \A c \in Core : CoreHolds(c)

LEMMA InitFabric == Init => FabricInv
<1> SUFFICES ASSUME Init PROVE FabricInv
  OBVIOUS
<1>1. TagRoom
  BY TagDepthAssumption DEF Init, TagRoom, Core
<1>2. Stream /\ Dispatched
  BY DEF Init, Stream, Dispatched, Underway, Core
<1>3. ASSUME NEW c \in Core PROVE CoreHolds(c)
  BY DEF Init, CoreHolds, NoOut, offered
<1> QED BY <1>1, <1>2, <1>3 DEF FabricInv

\* A frame reaches a core once, and after every frame that reached it before.
LEMMA ReachedStep ==
  ASSUME Stream, Dispatched, TagRoom, SOURCE, DISPATCH, NEW c \in Core
  PROVE  /\ \A n : Reached(c, n) => Reached(c, n)' /\ n \in Nat /\ n > 0
         /\ taken(c) => /\ Len(arrived) \in Nat /\ Len(arrived) > 0
                        /\ \A n : Reached(c, n) => n < Len(arrived)
         /\ taken(c) /\ s_tlast => Reached(c, Len(arrived))'
<1>1. /\ arrived \in Seq(Frames) /\ Len(arrived) \in Nat
      /\ s_beat \in {0, s_next} /\ s_next \in Nat /\ s_next > 0
      /\ Underway => Len(arrived) > 0
  BY DEF Stream
<1>2. taken(c) => Underway /\ coming(c) /\ ~sent[c] /\ arrived' = arrived
  BY <1>1, SourceStep, DispatchStep DEF taken, m_tvalid, Dispatched, s_tvalid, Underway
<1>3. ASSUME DBroadcast PROVE sent'[c] <=> ~s_fire /\ (sent[c] \/ taken(c))
  BY <1>3 DEF DBroadcast, ForkKeeps
<1>4. d_state = "D_BCAST" => DBroadcast
  BY DEF DISPATCH, DDecide, DHold, DForward
<1>5. ASSUME arrived' = arrived, ~StillComing(c) PROVE ~StillComing(c)'
  <2>1. CASE ~Underway
    BY <1>1, <1>5, <2>1, SourceStep DEF StillComing, Underway, s_fire, s_tvalid
  <2>2. CASE sent[c] /\ s_tlast
    <3>1. s_tvalid /\ DBroadcast
      BY <1>4, <2>2 DEF Dispatched
    <3>2. CASE s_fire
      BY <1>1, <2>2, <3>1, <3>2, SourceStep DEF StillComing, Underway, s_tvalid
    <3>3. CASE ~s_fire
      <4>1. sent'[c] /\ s_beat' = s_beat
        BY <1>3, <2>2, <3>1, <3>3, SourceStep DEF s_tvalid, Underway
      <4> QED BY <1>5, <2>2, <4>1 DEF StillComing, s_tlast
    <3> QED BY <3>2, <3>3
  <2> QED BY <1>5, <2>1, <2>2 DEF StillComing
<1>6. ASSUME NEW n, Reached(c, n) PROVE Reached(c, n)'
  <2>1. CASE arrived' = arrived
    BY <1>5, <1>6, <2>1 DEF Reached
  <2>2. CASE \E f \in Frames : arrived' = Append(arrived, f)
    BY <1>1, <1>6, <2>2 DEF Reached
  <2> QED BY <2>1, <2>2, SourceStep
<1>7. ASSUME taken(c), s_tlast PROVE ~StillComing(c)'
  <2>1. CASE s_fire
    BY <1>1, <1>2, <1>7, <2>1, SourceStep DEF StillComing, Underway, s_fire, s_tvalid
  <2>2. CASE ~s_fire
    <3>1. d_state = "D_BCAST"
      BY <1>7, <2>2 DEF taken, m_tvalid, s_fire, s_tready
    <3>2. sent'[c] /\ s_beat' = s_beat
      BY <1>7, <1>3, <1>4, <2>2, <3>1, SourceStep DEF taken, m_tvalid, s_tvalid, Underway
    <3> QED BY <1>2, <1>7, <3>2 DEF StillComing, s_tlast
  <2> QED BY <2>1, <2>2
<1>8. taken(c) => \A n : Reached(c, n) => n < Len(arrived)
  BY <1>1, <1>2 DEF Reached, StillComing
<1>9. taken(c) /\ s_tlast => Reached(c, Len(arrived))'
  BY <1>1, <1>2, <1>7 DEF Reached
<1> QED BY <1>1, <1>2, <1>6, <1>8, <1>9 DEF Reached

\* What a core may answer to a frame.
LEMMA AnswerFacts ==
  ASSUME NEW c, NEW beats, NEW o \in AnswerOf(c, beats)
  PROVE  /\ DOMAIN o = DOMAIN NoOut /\ o.id = FrameOf(beats) /\ o.at = 1 /\ o.len \in {1, 2}
         /\ o.status \in {"OK", "BAD"}
         /\ arrived[o.id].op = "load" => o.len = 1
         /\ ~CoresMayDiverge => (o.status = "OK" <=> arrived[o.id].good)
BY DEF AnswerOf, NoOut, FrameOf

\* A core takes what it is given, and may answer the oldest frame it holds.
LEMMA CoreStep ==
  ASSUME NEW m_tready \in BOOLEAN, CORES(m_tready), NEW c \in Core
  PROVE  /\ part'[c] = IF taken(c) /\ s_tlast THEN <<>> ELSE Beats(c)
         /\ \/ /\ out'[c] = OutAfter(c, m_tready)
               /\ inq'[c] = inq[c] \o Arriving(c) /\ loads'[c] = loads[c]
            \/ /\ OutAfter(c, m_tready).at = 0 /\ inq[c] # <<>>
               /\ out'[c] \in AnswerOf(c, Head(inq[c]))
               /\ inq'[c] = Tail(inq[c]) \o Arriving(c)
               /\ loads'[c] = IF out'[c].status = "OK" /\ arrived[out'[c].id].op = "load"
                              THEN Append(loads[c], out'[c].id) ELSE loads[c]
<1> DEFINE After(k) == OutAfter(k, m_tready)
<1>1. PICK o0 \in Answers(0, m_tready), o1 \in Answers(1, m_tready) :
        LET o == <<o0, o1>>
            new(k) == o[k + 1] # After(k)
            loaded(k) == new(k) /\ o[k + 1].status = "OK" /\ arrived[o[k + 1].id].op = "load"
        IN  /\ out' = [k \in Core |-> o[k + 1]]
            /\ part' = [k \in Core |-> IF taken(k) /\ s_tlast THEN <<>> ELSE Beats(k)]
            /\ inq' = [k \in Core |->
                         (IF new(k) THEN Tail(inq[k]) ELSE inq[k]) \o Arriving(k)]
            /\ loads' = [k \in Core |->
                           IF loaded(k) THEN Append(loads[k], o[k + 1].id) ELSE loads[k]]
  BY DEF CORES
<1> DEFINE o(k) == IF k = 0 THEN o0 ELSE o1
           new == o(c) # After(c)
           loaded == new /\ o(c).status = "OK" /\ arrived[o(c).id].op = "load"
<1>2. <<o0, o1>>[c + 1] = o(c) /\ o(c) \in Answers(c, m_tready)
  BY DEF Core
<1>3. /\ out'[c] = o(c)
      /\ part'[c] = IF taken(c) /\ s_tlast THEN <<>> ELSE Beats(c)
      /\ inq'[c] = (IF new THEN Tail(inq[c]) ELSE inq[c]) \o Arriving(c)
      /\ loads'[c] = IF loaded THEN Append(loads[c], o(c).id) ELSE loads[c]
  BY <1>1, <1>2
<1>4. new => /\ OutAfter(c, m_tready).at = 0 /\ inq[c] # <<>>
             /\ o(c) \in AnswerOf(c, Head(inq[c]))
  BY <1>2 DEF Answers
<1> HIDE DEF o
<1> QED BY <1>3, <1>4

LEMMA OutAfterFacts ==
  ASSUME NEW m_tready \in BOOLEAN, NEW c \in Core, CoreHolds(c)
  PROVE  LET o == OutAfter(c, m_tready)
         IN  /\ DOMAIN o = DOMAIN NoOut /\ o.at \in Nat /\ o.len \in Nat /\ o.at <= o.len
             /\ o.at # 0 => /\ offered(c) /\ o.id = out[c].id /\ o.len = out[c].len
                            /\ o.status = out[c].status
                            /\ ~(popped(c, m_tready) /\ outlast(c))
             /\ o.at = 0 => ~offered(c) \/ (popped(c, m_tready) /\ outlast(c))
             /\ ~popped(c, m_tready) => o = out[c]
<1>1. /\ DOMAIN out[c] = DOMAIN NoOut /\ out[c].at \in Nat /\ out[c].len \in Nat
      /\ out[c].at <= out[c].len
  BY DEF CoreHolds
<1>2. CASE ~popped(c, m_tready)
  BY <1>1, <1>2 DEF OutAfter, offered
<1>3. CASE popped(c, m_tready) /\ outlast(c)
  BY <1>1, <1>3 DEF OutAfter, NoOut
<1>4. CASE popped(c, m_tready) /\ ~outlast(c)
  <2> DEFINE q == [out[c] EXCEPT !.at = @ + 1]
  <2>1. /\ DOMAIN q = DOMAIN NoOut /\ q.at = out[c].at + 1 /\ q.len = out[c].len
        /\ q.id = out[c].id /\ q.status = out[c].status
    BY <1>1 DEF NoOut
  <2>2. OutAfter(c, m_tready) = q /\ offered(c) /\ out[c].at # out[c].len
    BY <1>4 DEF OutAfter, popped, outlast
  <2> HIDE DEF q
  <2> QED BY <1>1, <1>4, <2>1, <2>2
<1> QED BY <1>2, <1>3, <1>4

\* The frame coming in, beat by beat.
LEMMA ArrivingFacts ==
  ASSUME Stream, Dispatched, NEW c \in Core, CoreHolds(c)
  PROVE  /\ Beats(c) \in Seq(Nat \X Nat)
         /\ \A b \in DOMAIN Beats(c) : Beats(c)[b][1] = Len(arrived)
         /\ Beats(c) # <<>> => part[c] # <<>> \/ taken(c)
         /\ Arriving(c) \in Seq(Seq(Nat \X Nat))
         /\ taken(c) /\ s_tlast => /\ Arriving(c) = <<Beats(c)>>
                                   /\ FrameOf(Beats(c)) = Len(arrived)
         /\ ~(taken(c) /\ s_tlast) => Arriving(c) = <<>>
<1>1. /\ part[c] \in Seq(Nat \X Nat) /\ \A b \in DOMAIN part[c] : part[c][b][1] = Len(arrived)
      /\ Len(arrived) \in Nat /\ s_beat \in Nat
  BY DEF CoreHolds, Stream
<1> DEFINE beat == <<Len(arrived), s_beat>>
<1>2. beat \in Nat \X Nat /\ beat[1] = Len(arrived)
  BY <1>1
<1> HIDE DEF beat
<1>3. taken(c) => Beats(c) = Append(part[c], beat)
  BY DEF Beats, beat
<1>4. ~taken(c) => Beats(c) = part[c]
  BY DEF Beats
<1>5. /\ Beats(c) \in Seq(Nat \X Nat)
      /\ \A b \in DOMAIN Beats(c) : Beats(c)[b][1] = Len(arrived)
      /\ taken(c) => 1 \in DOMAIN Beats(c)
  <2>1. CASE taken(c)
    <3> DEFINE more == Append(part[c], beat)
    <3>1. /\ more \in Seq(Nat \X Nat) /\ DOMAIN more = 1..(Len(part[c]) + 1)
          /\ \A b \in DOMAIN more : more[b] = IF b <= Len(part[c]) THEN part[c][b] ELSE beat
      BY <1>1, <1>2
    <3>2. Beats(c) = more /\ DOMAIN part[c] = 1..Len(part[c]) /\ Len(part[c]) \in Nat
      BY <1>1, <1>3, <2>1
    <3> HIDE DEF more
    <3>3. ASSUME NEW b \in DOMAIN more PROVE more[b][1] = Len(arrived)
      <4>1. CASE b \in DOMAIN part[c]
        <5>1. more[b] = part[c][b]
          BY <3>1, <3>2, <4>1
        <5> QED BY <1>1, <4>1, <5>1
      <4>2. CASE b \notin DOMAIN part[c]
        BY <1>2, <3>1, <3>2, <3>3, <4>2
      <4> QED BY <4>1, <4>2
    <3> QED BY <3>1, <3>2, <3>3
  <2> QED BY <1>1, <1>4, <2>1
<1>6. Arriving(c) \in Seq(Seq(Nat \X Nat))
  <2>1. <<Beats(c)>> \in Seq(Seq(Nat \X Nat)) /\ <<>> \in Seq(Seq(Nat \X Nat))
    BY <1>5
  <2> QED BY <2>1 DEF Arriving
<1> QED BY <1>4, <1>5, <1>6 DEF Arriving, FrameOf

\* A queue that lost its oldest entry or not, and gained at most one.
LEMMA QueueStep ==
  ASSUME NEW S, NEW q \in Seq(S), NEW a \in Seq(S), Len(a) <= 1,
         NEW d \in {0, 1}, d = 1 => q # <<>>,
         NEW r, r = (IF d = 1 THEN Tail(q) ELSE q) \o a
  PROVE  /\ r \in Seq(S) /\ DOMAIN r = 1..(Len(q) - d + Len(a)) /\ Len(r) = Len(q) - d + Len(a)
         /\ \A k \in 1..(Len(q) - d) : k \in DOMAIN r /\ k + d \in DOMAIN q /\ r[k] = q[k + d]
         /\ \A k \in DOMAIN r : k > Len(q) - d => a # <<>> /\ r[k] = a[1] /\ k = Len(q) - d + 1
<1> DEFINE t == IF d = 1 THEN Tail(q) ELSE q
<1>1. /\ t \in Seq(S) /\ Len(t) = Len(q) - d
      /\ \A k \in 1..Len(t) : t[k] = q[k + d]
  BY HeadTailProperties
<1>2. r = t \o a
  OBVIOUS
<1> HIDE DEF t
<1>3. /\ t \o a \in Seq(S) /\ Len(t \o a) = Len(t) + Len(a)
      /\ \A i \in 1..(Len(t) + Len(a)) : (t \o a)[i] = IF i <= Len(t) THEN t[i] ELSE a[i - Len(t)]
  BY <1>1, ConcatProperties
<1>4. /\ r \in Seq(S) /\ Len(r) = Len(t) + Len(a)
      /\ \A i \in 1..(Len(t) + Len(a)) : r[i] = IF i <= Len(t) THEN t[i] ELSE a[i - Len(t)]
  BY <1>2, <1>3
<1>5. DOMAIN r = 1..Len(r) /\ DOMAIN q = 1..Len(q)
  BY <1>4, LenProperties
<1>6. Len(a) \in Nat /\ Len(t) \in Nat /\ Len(q) \in Nat
  BY <1>1, LenProperties
<1>7. Len(a) = 0 \/ (Len(a) = 1 /\ a # <<>>)
  <2>1. a = <<>> <=> Len(a) = 0
    BY EmptySeq
  <2> DEFINE n == Len(a)
  <2>2. n \in Nat /\ n <= 1
    BY <1>6
  <2>3. a = <<>> <=> n = 0
    BY <2>1
  <2> HIDE DEF n
  <2>4. n = 0 \/ (n = 1 /\ a # <<>>)
    BY <2>2, <2>3
  <2> QED BY <2>4 DEF n
<1> QED BY <1>1, <1>4, <1>5, <1>6, <1>7

\* What a cycle does to core c: it answers the oldest frame it holds (d = 1)
\* or none, and the frame that came in joins the others.
Answering(c, m_tready, d) ==
  /\ d = 0 => out'[c] = OutAfter(c, m_tready) /\ loads'[c] = loads[c]
  /\ d = 1 =>
       /\ OutAfter(c, m_tready).at = 0 /\ inq[c] # <<>> /\ 1 \in DOMAIN inq[c]
       /\ out'[c] \in AnswerOf(c, inq[c][1])
       /\ loads'[c] = IF out'[c].status = "OK" /\ arrived[out'[c].id].op = "load"
                      THEN Append(loads[c], out'[c].id) ELSE loads[c]
  /\ inq'[c] \in Seq(Seq(Nat \X Nat))
  /\ Len(inq'[c]) = Len(inq[c]) - d + (IF taken(c) /\ s_tlast THEN 1 ELSE 0)
  /\ \A k \in 1..(Len(inq[c]) - d) : /\ k \in DOMAIN inq'[c] /\ k + d \in DOMAIN inq[c]
                                     /\ inq'[c][k] = inq[c][k + d]
  /\ \A k \in DOMAIN inq'[c] : k > Len(inq[c]) - d =>
       /\ taken(c) /\ s_tlast /\ k = Len(inq[c]) - d + 1
       /\ inq'[c][k] = Beats(c) /\ FrameOf(inq'[c][k]) = Len(arrived)
  /\ taken(c) /\ s_tlast => \E k \in DOMAIN inq'[c] : FrameOf(inq'[c][k]) = Len(arrived)

\* A core's state after a cycle is one of the two.
LEMMA HeldStep ==
  ASSUME Stream, Dispatched, NEW m_tready \in BOOLEAN, CORES(m_tready),
         NEW c \in Core, CoreHolds(c)
  PROVE  \E d \in {0, 1} : Answering(c, m_tready, d)
<1> DEFINE Changes(d) ==
      /\ d = 0 => out'[c] = OutAfter(c, m_tready) /\ loads'[c] = loads[c]
      /\ d = 1 =>
           /\ OutAfter(c, m_tready).at = 0 /\ inq[c] # <<>>
           /\ out'[c] \in AnswerOf(c, Head(inq[c]))
           /\ loads'[c] = IF out'[c].status = "OK" /\ arrived[out'[c].id].op = "load"
                          THEN Append(loads[c], out'[c].id) ELSE loads[c]
      /\ inq'[c] = (IF d = 1 THEN Tail(inq[c]) ELSE inq[c]) \o Arriving(c)
<1>1. \E d \in {0, 1} : Changes(d)
  <2>1. Changes(0) \/ Changes(1)
    BY CoreStep
  <2> QED BY <2>1
<1>2. PICK d \in {0, 1} : Changes(d)
  BY <1>1
<1>3. inq[c] \in Seq(Seq(Nat \X Nat)) /\ (d = 1 => inq[c] # <<>>)
  BY <1>2 DEF CoreHolds
<1>4. /\ Arriving(c) \in Seq(Seq(Nat \X Nat))
      /\ taken(c) /\ s_tlast => /\ Len(Arriving(c)) = 1 /\ Arriving(c)[1] = Beats(c)
                                /\ FrameOf(Beats(c)) = Len(arrived)
      /\ ~(taken(c) /\ s_tlast) => Arriving(c) = <<>> /\ Len(Arriving(c)) = 0
  BY ArrivingFacts
<1> HIDE DEF Changes
<1>lens. Len(Arriving(c)) <= 1
  <2> DEFINE n == Len(Arriving(c))
  <2>1. n = 0 \/ n = 1
    BY <1>4, Zenon
  <2> HIDE DEF n
  <2>2. n <= 1
    BY <2>1
  <2> QED BY <2>2 DEF n
<1>upd. inq'[c] = (IF d = 1 THEN Tail(inq[c]) ELSE inq[c]) \o Arriving(c)
  BY <1>2 DEF Changes
<1>5. /\ inq'[c] \in Seq(Seq(Nat \X Nat))
      /\ DOMAIN inq'[c] = 1..(Len(inq[c]) - d + Len(Arriving(c)))
      /\ Len(inq'[c]) = Len(inq[c]) - d + Len(Arriving(c))
      /\ \A k \in 1..(Len(inq[c]) - d) : /\ k \in DOMAIN inq'[c] /\ k + d \in DOMAIN inq[c]
                                         /\ inq'[c][k] = inq[c][k + d]
      /\ \A k \in DOMAIN inq'[c] : k > Len(inq[c]) - d =>
           Arriving(c) # <<>> /\ inq'[c][k] = Arriving(c)[1] /\ k = Len(inq[c]) - d + 1
  <2> DEFINE q == inq[c]
             a == Arriving(c)
             r == inq'[c]
             T == Seq(Nat \X Nat)
  <2>1. q \in Seq(T) /\ a \in Seq(T) /\ Len(a) <= 1 /\ (d = 1 => q # <<>>)
    BY <1>3, <1>4, <1>lens
  <2>2. r = (IF d = 1 THEN Tail(q) ELSE q) \o a
    BY <1>upd
  <2> HIDE DEF q, a, r, T
  <2>3. /\ r \in Seq(T) /\ DOMAIN r = 1..(Len(q) - d + Len(a))
        /\ \A k \in 1..(Len(q) - d) : k \in DOMAIN r /\ k + d \in DOMAIN q /\ r[k] = q[k + d]
        /\ \A k \in DOMAIN r : k > Len(q) - d => a # <<>> /\ r[k] = a[1] /\ k = Len(q) - d + 1
    BY <2>1, <2>2, QueueStep
  <2>4. Len(r) = Len(q) - d + Len(a)
    BY <2>1, <2>2, QueueStep
  <2> QED BY <2>3, <2>4 DEF q, a, r, T
<1>6. inq[c] # <<>> => 1 \in DOMAIN inq[c] /\ Head(inq[c]) = inq[c][1] /\ Len(inq[c]) > 0
  BY <1>3
<1>7. taken(c) /\ s_tlast => Len(inq[c]) - d + 1 \in DOMAIN inq'[c] /\ Len(inq[c]) - d \in Nat
  <2>1. Len(inq[c]) - d \in Nat
    BY <1>3, <1>6
  <2>2. ASSUME taken(c), s_tlast PROVE Len(inq[c]) - d + 1 \in DOMAIN inq'[c]
    <3>1. Len(Arriving(c)) = 1
      BY <1>4, <2>2
    <3>2. DOMAIN inq'[c] = 1..(Len(inq[c]) - d + Len(Arriving(c)))
      BY <1>5
    <3> QED BY <2>1, <3>1, <3>2
  <2> QED BY <2>1, <2>2
<1>8. \A k \in DOMAIN inq'[c] : k > Len(inq[c]) - d =>
        /\ taken(c) /\ s_tlast /\ k = Len(inq[c]) - d + 1
        /\ inq'[c][k] = Beats(c) /\ FrameOf(inq'[c][k]) = Len(arrived)
  BY <1>4, <1>5 DEF FrameOf
<1>9. taken(c) /\ s_tlast => \E k \in DOMAIN inq'[c] : FrameOf(inq'[c][k]) = Len(arrived)
  BY <1>3, <1>7, <1>8
<1>10. Len(inq'[c]) = Len(inq[c]) - d + (IF taken(c) /\ s_tlast THEN 1 ELSE 0)
  <2>1. Len(inq'[c]) = Len(inq[c]) - d + Len(Arriving(c))
    BY <1>5
  <2>2. Len(Arriving(c)) = IF taken(c) /\ s_tlast THEN 1 ELSE 0
    BY <1>4, Zenon
  <2> QED BY <2>1, <2>2
<1> QED BY <1>2, <1>5, <1>6, <1>8, <1>9, <1>10 DEF Changes, Answering

\* What a core holds after a cycle has reached it.
LEMMA CoreHoldsStep ==
  ASSUME FabricInv, NEW m_tready \in BOOLEAN, Cycle(m_tready), NEW c \in Core
  PROVE  CoreHolds(c)'
<1>1. /\ TagRoom /\ Stream /\ Dispatched /\ CoreHolds(c)
      /\ SOURCE /\ DISPATCH /\ CORES(m_tready)
  BY DEF FabricInv, Cycle
<1>2. /\ part'[c] \in Seq(Nat \X Nat)
      /\ \A b \in DOMAIN part'[c] : part'[c][b][1] = Len(arrived')
      /\ part'[c] # <<>> => coming(c)'
  <2>1. CASE taken(c) /\ s_tlast
    <3>1. part'[c] = <<>>
      BY <1>1, <2>1, CoreStep
    <3> QED BY <3>1
  <2>2. CASE ~(taken(c) /\ s_tlast)
    <3>1. /\ part'[c] = Beats(c)
          /\ Beats(c) \in Seq(Nat \X Nat)
          /\ \A b \in DOMAIN Beats(c) : Beats(c)[b][1] = Len(arrived)
          /\ Beats(c) # <<>> => part[c] # <<>> \/ taken(c)
      BY <1>1, <2>2, CoreStep, ArrivingFacts
    <3>2. CASE Beats(c) = <<>>
      BY <3>1, <3>2
    <3>3. CASE Beats(c) # <<>>
      <4>1. coming(c) /\ Underway
        BY <1>1, <3>1, <3>3, DispatchStep DEF CoreHolds, Dispatched, coming
      <4>2. arrived' = arrived /\ coming(c)'
        BY <1>1, <2>2, <4>1, SourceStep, DispatchStep
      <4> QED BY <3>1, <4>2
    <3> QED BY <3>2, <3>3
  <2> QED BY <2>1, <2>2
<1>pick. PICK d \in {0, 1} : Answering(c, m_tready, d)
  BY <1>1, HeldStep
<1>3. /\ d = 0 => out'[c] = OutAfter(c, m_tready) /\ loads'[c] = loads[c]
      /\ d = 1 =>
           /\ OutAfter(c, m_tready).at = 0 /\ inq[c] # <<>> /\ 1 \in DOMAIN inq[c]
           /\ out'[c] \in AnswerOf(c, inq[c][1])
           /\ loads'[c] = IF out'[c].status = "OK" /\ arrived[out'[c].id].op = "load"
                          THEN Append(loads[c], out'[c].id) ELSE loads[c]
      /\ inq'[c] \in Seq(Seq(Nat \X Nat))
      /\ \A k \in 1..(Len(inq[c]) - d) : /\ k \in DOMAIN inq'[c] /\ k + d \in DOMAIN inq[c]
                                         /\ inq'[c][k] = inq[c][k + d]
      /\ \A k \in DOMAIN inq'[c] : k > Len(inq[c]) - d =>
           /\ taken(c) /\ s_tlast /\ k = Len(inq[c]) - d + 1
           /\ FrameOf(inq'[c][k]) = Len(arrived)
  BY <1>pick DEF Answering
<1>4. /\ \A n : Reached(c, n) => Reached(c, n)' /\ n \in Nat
      /\ taken(c) /\ s_tlast => Reached(c, Len(arrived))'
  BY <1>1, ReachedStep
<1>5. ASSUME NEW k \in DOMAIN inq'[c] PROVE Reached(c, FrameOf(inq[c][k]))'
  <2>1. inq'[c] \in Seq(Seq(Nat \X Nat)) /\ inq[c] \in Seq(Seq(Nat \X Nat))
    BY <1>1, <1>3 DEF CoreHolds
  <2>2. k \in Nat /\ k > 0 /\ Len(inq[c]) \in Nat
    BY <2>1
  <2>3. PICK n : n = FrameOf(inq'[c][k])
    OBVIOUS
  <2>4. Reached(c, n)'
    <3>1. CASE k <= Len(inq[c]) - d
      <4>1. k + d \in DOMAIN inq[c] /\ inq'[c][k] = inq[c][k + d]
        BY <1>3, <2>2, <3>1
      <4>2. Reached(c, n)
        BY <1>1, <2>3, <4>1 DEF CoreHolds
      <4> QED BY <1>4, <4>2
    <3>2. CASE k > Len(inq[c]) - d
      <4>1. taken(c) /\ s_tlast /\ n = Len(arrived) /\ arrived' = arrived
        BY <1>1, <1>3, <2>3, <3>2, DispatchStep, SourceStep
      <4>2. Reached(c, Len(arrived))'
        BY <1>4, <4>1
      <4> QED BY <4>1, <4>2 DEF Reached
    <3> QED BY <2>2, <3>1, <3>2
  <2> QED BY <2>3, <2>4 DEF FrameOf, Reached
<1>6. /\ DOMAIN out'[c] = DOMAIN NoOut /\ out'[c].at \in Nat /\ out'[c].len \in Nat
      /\ out'[c].at <= out'[c].len
      /\ offered(c)' => Reached(c, out[c].id)'
  <2>1. CASE d = 0
    <3>1. /\ out'[c] = OutAfter(c, m_tready)
          /\ DOMAIN out'[c] = DOMAIN NoOut /\ out'[c].at \in Nat /\ out'[c].len \in Nat
          /\ out'[c].at <= out'[c].len
          /\ out'[c].at # 0 => offered(c) /\ out'[c].id = out[c].id
      BY <1>1, <1>3, <2>1, OutAfterFacts
    <3>2. offered(c) => Reached(c, out[c].id)
      BY <1>1 DEF CoreHolds
    <3> QED BY <1>4, <3>1, <3>2 DEF offered, Reached
  <2>2. CASE d = 1
    <3>1. /\ DOMAIN out'[c] = DOMAIN NoOut /\ out'[c].at = 1 /\ out'[c].len \in {1, 2}
          /\ out'[c].id = FrameOf(inq[c][1])
      BY <1>3, <2>2, AnswerFacts
    <3>2. Reached(c, FrameOf(inq[c][1]))
      BY <1>1, <1>3, <2>2 DEF CoreHolds
    <3> QED BY <1>4, <3>1, <3>2 DEF offered, Reached
  <2> QED BY <2>1, <2>2
<1>7. loads'[c] \in Seq(Nat)
  <2>1. CASE d = 0
    BY <1>1, <1>3, <2>1 DEF CoreHolds
  <2>2. CASE d = 1
    <3>1. out'[c].id = FrameOf(inq[c][1])
      BY <1>3, <2>2, AnswerFacts
    <3>2. FrameOf(inq[c][1]) \in Nat
      BY <1>1, <1>3, <1>4, <2>2 DEF CoreHolds
    <3>3. /\ loads[c] \in Seq(Nat) /\ out'[c].id \in Nat
          /\ loads'[c] = loads[c] \/ loads'[c] = Append(loads[c], out'[c].id)
      BY <1>1, <1>3, <2>2, <3>1, <3>2 DEF CoreHolds
    <3>4. Append(loads[c], out'[c].id) \in Seq(Nat)
      BY <3>3, AppendProperties
    <3> QED BY <3>3, <3>4, Zenon
  <2> QED BY <2>1, <2>2
<1> QED BY <1>2, <1>3, <1>5, <1>6, <1>7 DEF CoreHolds

LEMMA NextFabric == ASSUME FabricInv, Next PROVE FabricInv'
<1>1. PICK m_tready \in BOOLEAN : Cycle(m_tready)
  BY DEF Next
<1>2. TagRoom' /\ Stream' /\ Dispatched'
  BY <1>1, NextTagRoom, SourceStep, DispatchStep DEF FabricInv, Cycle
<1>3. \A c \in Core : CoreHolds(c)'
  BY <1>1, CoreHoldsStep
<1> QED BY <1>2, <1>3 DEF FabricInv

LEMMA FabricStutters == ASSUME FabricInv, UNCHANGED vars PROVE FabricInv'
<1>1. /\ UNCHANGED <<arrived, s_beat, s_next, d_state, target, last_used, sent, push>>
      /\ UNCHANGED <<tags, tag_ovf, ready, part, inq, loads, out>>
  BY DEF vars, sourceVars, dispatchVars, tagVars, coreVars
<1>2. TagRoom' /\ Stream' /\ Dispatched'
  BY <1>1 DEF FabricInv, TagRoom, Stream, Dispatched, Underway, is_bcast, s_tvalid, coming,
              s_tlast
<1>3. ASSUME NEW c \in Core PROVE CoreHolds(c)'
  BY <1>1 DEF FabricInv, CoreHolds, coming, offered, Reached, StillComing, Underway, s_tvalid,
              s_tlast
<1> QED BY <1>2, <1>3 DEF FabricInv

-----------------------------------------------------------------------------
(* The expectation FIFO against what a core owes: a broadcast half answered,
   the answer on offer, the frames held, the frame still coming in.          *)

HalfDone(c) == IF half_done(c) THEN <<TRUE>> ELSE <<>>
Offering(c) == IF offered(c) THEN <<StreamBit(out[c].id)>> ELSE <<>>
Queued(c) == [k \in DOMAIN inq[c] |-> StreamBit(inq[c][k][1][1])]
Inward(c) == IF coming(c) THEN <<d_state = "D_BCAST">> ELSE <<>>
Record(c) == IF push[c] THEN <<push[0] /\ push[1]>> ELSE <<>>

\* Sequences joined: the joins are regrouped under a name of their own.
Join(x, y) == x \o y

LEMMA JoinFacts ==
  ASSUME NEW S, NEW x \in Seq(S), NEW y \in Seq(S)
  PROVE  /\ Join(x, y) \in Seq(S) /\ Len(Join(x, y)) = Len(x) + Len(y)
         /\ Len(x) \in Nat /\ Len(y) \in Nat
BY ConcatProperties, LenProperties DEF Join

LEMMA JoinElements ==
  ASSUME NEW S, NEW x \in Seq(S), NEW y \in Seq(S), NEW i \in 1..(Len(x) + Len(y))
  PROVE  Join(x, y)[i] = IF i <= Len(x) THEN x[i] ELSE y[i - Len(x)]
BY ConcatProperties DEF Join

LEMMA JoinRegroups ==
  ASSUME NEW S, NEW x \in Seq(S), NEW y \in Seq(S), NEW v \in Seq(S)
  PROVE  Join(Join(x, y), v) = Join(x, Join(y, v))
<1>1. (x \o y) \o v = x \o (y \o v)
  BY ConcatAssociative, SMT
<1> QED BY <1>1 DEF Join

\* Taking the head of a sequence, however it was put together.
LEMMA TakeHead ==
  ASSUME NEW S, NEW t \in Seq(S), NEW p \in Seq(S), NEW w \in Seq(S), NEW h \in Seq(S),
         Len(h) = 1, t # <<>>, Join(t, p) = Join(h, w)
  PROVE  Join(Tail(t), p) = w
<1>1. /\ Tail(t) \in Seq(S) /\ Len(Tail(t)) = Len(t) - 1 /\ Len(t) \in Nat \ {0}
      /\ \A i \in 1..Len(Tail(t)) : Tail(t)[i] = t[i + 1]
  BY HeadTailProperties, EmptySeq
<1> DEFINE u == Tail(t)
<1>2. u \in Seq(S) /\ Len(u) = Len(t) - 1 /\ \A i \in 1..Len(u) : u[i] = t[i + 1]
  BY <1>1
<1> HIDE DEF u
<1>4. /\ Join(u, p) \in Seq(S) /\ Len(Join(u, p)) = Len(u) + Len(p)
      /\ Len(u) \in Nat /\ Len(p) \in Nat
  BY <1>2, JoinFacts
<1>5. \A i \in 1..(Len(u) + Len(p)) : Join(u, p)[i] = IF i <= Len(u) THEN u[i] ELSE p[i - Len(u)]
  BY <1>2, JoinElements
<1>6. /\ Len(Join(t, p)) = Len(t) + Len(p)
      /\ \A i \in 1..(Len(t) + Len(p)) : Join(t, p)[i] = IF i <= Len(t) THEN t[i] ELSE p[i - Len(t)]
  BY JoinFacts, JoinElements
<1>7. /\ Len(Join(h, w)) = Len(h) + Len(w)
      /\ \A i \in 1..(Len(h) + Len(w)) : Join(h, w)[i] = IF i <= Len(h) THEN h[i] ELSE w[i - Len(h)]
  BY JoinFacts, JoinElements
<1>8. Len(w) \in Nat /\ Len(w) = Len(u) + Len(p)
  BY <1>1, <1>2, <1>4, <1>6, <1>7, LenProperties
<1>9. ASSUME NEW i \in 1..Len(Join(u, p)) PROVE Join(u, p)[i] = w[i]
  <2>1. w[i] = Join(t, p)[i + 1]
    <3>1. i + 1 \in 1..(Len(h) + Len(w)) /\ i + 1 > Len(h) /\ (i + 1) - Len(h) = i
      BY <1>4, <1>8
    <3>2. Join(h, w)[i + 1] = w[(i + 1) - Len(h)]
      BY <1>7, <3>1
    <3> QED BY <3>1, <3>2
  <2>2. CASE i <= Len(u)
    <3>1. Join(u, p)[i] = u[i] /\ u[i] = t[i + 1] /\ i + 1 <= Len(t)
      BY <1>1, <1>2, <1>4, <1>5, <2>2
    <3>2. Join(t, p)[i + 1] = t[i + 1]
      BY <1>1, <1>4, <1>6, <3>1
    <3> QED BY <2>1, <3>1, <3>2
  <2>3. CASE i > Len(u)
    <3>0. i \in 1..(Len(u) + Len(p)) /\ ~(i <= Len(u)) /\ i - Len(u) = (i + 1) - Len(t)
      BY <1>1, <1>2, <1>4, <2>3
    <3>1. Join(u, p)[i] = p[i - Len(u)] /\ i - Len(u) = (i + 1) - Len(t)
      BY <1>5, <3>0
    <3>2. Join(t, p)[i + 1] = p[(i + 1) - Len(t)]
      BY <1>1, <1>2, <1>4, <1>6, <2>3
    <3> QED BY <2>1, <3>1, <3>2
  <2> QED BY <1>4, <2>2, <2>3
<1>10. Join(u, p) = w
  BY <1>4, <1>8, <1>9, SeqEqual
<1> QED BY <1>10 DEF u

\* A queue and what joins it are its oldest entries and the queue that is left.
LEMMA ShiftedQueue ==
  ASSUME NEW S, NEW q \in Seq(S), NEW r \in Seq(S), NEW h \in Seq(S), NEW q2 \in Seq(S),
         Len(h) + Len(q2) = Len(q) + Len(r), Len(h) <= Len(q),
         \A i \in 1..Len(h) : h[i] = q[i],
         \A k \in 1..Len(q2) : q2[k] = IF k + Len(h) <= Len(q) THEN q[k + Len(h)]
                                       ELSE r[(k + Len(h)) - Len(q)]
  PROVE  q \o r = h \o q2
<1>1. /\ q \o r \in Seq(S) /\ Len(q \o r) = Len(q) + Len(r)
      /\ \A i \in 1..(Len(q) + Len(r)) : (q \o r)[i] = IF i <= Len(q) THEN q[i] ELSE r[i - Len(q)]
  BY ConcatProperties
<1>2. /\ h \o q2 \in Seq(S) /\ Len(h \o q2) = Len(h) + Len(q2)
      /\ \A i \in 1..(Len(h) + Len(q2)) : (h \o q2)[i] = IF i <= Len(h) THEN h[i] ELSE q2[i - Len(h)]
  BY ConcatProperties
<1>3. Len(q) \in Nat /\ Len(r) \in Nat /\ Len(h) \in Nat /\ Len(q2) \in Nat
  BY LenProperties
<1>4. ASSUME NEW i \in 1..Len(q \o r) PROVE (q \o r)[i] = (h \o q2)[i]
  <2>1. CASE i <= Len(h)
    BY <1>1, <1>2, <1>3, <2>1
  <2>2. CASE i > Len(h)
    <3> DEFINE k == i - Len(h)
    <3>1. k \in 1..Len(q2) /\ k + Len(h) = i
      BY <1>1, <1>3, <2>2
    <3>2. (h \o q2)[i] = q2[k]
      BY <1>1, <1>2, <1>3, <2>2
    <3>3. q2[k] = IF i <= Len(q) THEN q[i] ELSE r[i - Len(q)]
      BY <3>1
    <3> QED BY <1>1, <3>2, <3>3
  <2> QED BY <1>1, <1>3, <2>1, <2>2
<1> QED BY <1>1, <1>2, <1>4, SeqEqual

\* The collector serves only what is on offer, and merges only broadcasts.
Collecting ==
  /\ c_state \in {"C_IDLE", "C_PASS", "C_BCAST"} /\ c_src \in Core
  /\ c_state = "C_PASS" => offered(c_src)
  /\ c_state = "C_BCAST" =>
       \A c \in Core : ~half_done(c) => offered(c) /\ StreamBit(out[c].id)

ends(c, m_tready) == popped(c, m_tready) /\ outlast(c)
StillOffering(c, m_tready) ==
  IF OutAfter(c, m_tready).at # 0 THEN <<StreamBit(out[c].id)>> ELSE <<>>

\* What a cycle of the collector ends: an answer of core c, a broadcast whose
\* other half ended before, or nothing.
LEMMA PopFacts ==
  ASSUME Collecting, NEW m_tready \in BOOLEAN, COLLECT(m_tready), NEW c \in Core
  PROVE  /\ ends(c, m_tready) => offered(c)
         /\ tag_pop(c, m_tready) =>
              ~half_done(c)' /\ (half_done(c) <=> ~ends(c, m_tready))
         /\ ~tag_pop(c, m_tready) /\ ends(c, m_tready) =>
              ~half_done(c) /\ half_done(c)' /\ StreamBit(out[c].id)
         /\ ~tag_pop(c, m_tready) /\ ~ends(c, m_tready) => (half_done(c)' <=> half_done(c))
         /\ ~ends(c, m_tready) /\ half_done(c) => ~popped(c, m_tready)
<1>1. c \in {0, 1}
  BY DEF Core
<1>2. CASE c_state = "C_IDLE"
  <2>1. c_state' = "C_BCAST" => fwd_done' = FALSE /\ drn_done' = FALSE
    BY <1>2 DEF COLLECT, CStartBcast, CStartPass, CIdle, CPass, CBcast
  <2> QED BY <1>2, <2>1 DEF ends, popped, tag_pop, bcast_done, half_done
<1>3. CASE c_state = "C_PASS"
  <2>1. c_state' # "C_BCAST"
    BY <1>3 DEF COLLECT, CStartBcast, CStartPass, CIdle, CPass, CBcast
  <2> QED BY <1>3, <2>1 DEF ends, popped, tag_pop, bcast_done, half_done
<1>4. CASE c_state = "C_BCAST"
  <2>1. /\ fwd_done' <=> fwd_done \/ ends(0, m_tready)
        /\ drn_done' <=> drn_done \/ ends(1, m_tready)
        /\ c_state' = IF bcast_done(m_tready) THEN "C_IDLE" ELSE "C_BCAST"
    BY <1>4 DEF COLLECT, CStartBcast, CStartPass, CIdle, CPass, CBcast, ends
  <2>2. /\ ends(c, m_tready) => offered(c) /\ ~half_done(c)
        /\ half_done(c) => ~popped(c, m_tready)
    BY <1>1, <1>4 DEF ends, popped, half_done
  <2>3. /\ tag_pop(c, m_tready) <=> bcast_done(m_tready)
        /\ bcast_done(m_tready) => half_done(c) \/ ends(c, m_tready)
    BY <1>1, <1>4 DEF tag_pop, bcast_done, half_done, ends
  <2>4. half_done(c)' <=> ~bcast_done(m_tready) /\ (half_done(c) \/ ends(c, m_tready))
    <3>1. c_state' = "C_BCAST" <=> ~bcast_done(m_tready)
      BY <2>1
    <3>2. CASE c = 0
      BY <1>4, <2>1, <3>1, <3>2 DEF half_done
    <3>3. CASE c = 1
      BY <1>4, <2>1, <3>1, <3>3 DEF half_done
    <3> QED BY <1>1, <3>2, <3>3
  <2>5. ~half_done(c) => offered(c) /\ StreamBit(out[c].id)
    BY <1>4 DEF Collecting
  <2> QED BY <2>2, <2>3, <2>4, <2>5
<1> QED BY <1>2, <1>3, <1>4 DEF Collecting

LEMMA Emptiness ==
  /\ <<>> \in Seq(BOOLEAN) /\ <<TRUE>> \in Seq(BOOLEAN) /\ <<FALSE>> \in Seq(BOOLEAN)
  /\ \A s \in Seq(BOOLEAN) : s \o <<>> = s /\ <<>> \o s = s
<1>1. <<>> \in Seq(BOOLEAN) /\ <<TRUE>> \in Seq(BOOLEAN) /\ <<FALSE>> \in Seq(BOOLEAN)
  OBVIOUS
<1>2. \A s \in Seq(BOOLEAN) : s \o <<>> = s /\ <<>> \o s = s
  BY ConcatEmptySeq
<1> QED BY <1>1, <1>2

LEMMA Bit == \A b \in BOOLEAN : <<b>> \in Seq(BOOLEAN)
OBVIOUS

\* The head of what a core owes leaves with its entry of the FIFO.
LEMMA FrontStep ==
  ASSUME Collecting, NEW m_tready \in BOOLEAN, COLLECT(m_tready), NEW c \in Core, CoreHolds(c)
  PROVE  /\ HalfDone(c) \in Seq(BOOLEAN) /\ HalfDone(c)' \in Seq(BOOLEAN)
         /\ Offering(c) \in Seq(BOOLEAN) /\ StillOffering(c, m_tready) \in Seq(BOOLEAN)
         /\ ~tag_pop(c, m_tready) =>
              HalfDone(c) \o Offering(c) = HalfDone(c)' \o StillOffering(c, m_tready)
         /\ tag_pop(c, m_tready) => \E x \in BOOLEAN :
              HalfDone(c) \o Offering(c) = <<x>> \o (HalfDone(c)' \o StillOffering(c, m_tready))
<1> DEFINE bit == StreamBit(out[c].id)
           B == <<bit>>
           T == <<TRUE>>
<1>1. bit \in BOOLEAN
  BY DEF StreamBit
<1>2. B \in Seq(BOOLEAN) /\ T \in Seq(BOOLEAN) /\ <<>> \in Seq(BOOLEAN)
  BY <1>1, Bit, Emptiness
<1>3. OutAfter(c, m_tready).at # 0 <=> offered(c) /\ ~ends(c, m_tready)
  BY OutAfterFacts DEF ends
<1>4. /\ HalfDone(c) = IF half_done(c) THEN T ELSE <<>>
      /\ HalfDone(c)' = IF half_done(c)' THEN T ELSE <<>>
      /\ Offering(c) = IF offered(c) THEN B ELSE <<>>
      /\ StillOffering(c, m_tready) = IF offered(c) /\ ~ends(c, m_tready) THEN B ELSE <<>>
  BY <1>3 DEF HalfDone, Offering, StillOffering
<1>5. bit => B = T
  OBVIOUS
<1>6. \A s \in Seq(BOOLEAN) : s \o <<>> = s /\ <<>> \o s = s
  BY Emptiness
<1>7. \A s \in Seq(BOOLEAN) : T \o s = <<TRUE>> \o s /\ B \o s = <<bit>> \o s
  OBVIOUS
<1> HIDE DEF B, T
<1>8. CASE tag_pop(c, m_tready) /\ half_done(c)
  <2>1. HalfDone(c) = T /\ HalfDone(c)' = <<>> /\ StillOffering(c, m_tready) = Offering(c)
    BY <1>4, <1>8, PopFacts
  <2>2. Offering(c) \in Seq(BOOLEAN)
    BY <1>2, <1>4
  <2>3. HalfDone(c) \o Offering(c) = <<TRUE>> \o (HalfDone(c)' \o StillOffering(c, m_tready))
    BY <1>6, <1>7, <2>1, <2>2
  <2> QED BY <1>2, <1>4, <1>8, <2>3
<1>9. CASE tag_pop(c, m_tready) /\ ~half_done(c)
  <2>1. /\ HalfDone(c) = <<>> /\ HalfDone(c)' = <<>>
        /\ Offering(c) = B /\ StillOffering(c, m_tready) = <<>>
    BY <1>4, <1>9, PopFacts
  <2>2. B \o <<>> = B /\ <<>> \o <<>> = <<>> /\ <<>> \o B = B /\ B \o <<>> = <<bit>> \o <<>>
    BY <1>2, <1>6, <1>7
  <2>3. HalfDone(c) \o Offering(c) = <<bit>> \o (HalfDone(c)' \o StillOffering(c, m_tready))
    BY <2>1, <2>2
  <2> QED BY <1>1, <1>2, <1>4, <1>9, <2>3
<1>10. CASE ~tag_pop(c, m_tready) /\ ends(c, m_tready)
  <2>1. /\ HalfDone(c) = <<>> /\ HalfDone(c)' = T
        /\ Offering(c) = B /\ StillOffering(c, m_tready) = <<>> /\ bit
    BY <1>4, <1>10, PopFacts
  <2>2. B = T /\ <<>> \o B = B /\ T \o <<>> = T
    BY <1>2, <1>5, <1>6, <2>1
  <2> QED BY <1>2, <1>4, <1>10, <2>1, <2>2
<1>11. CASE ~tag_pop(c, m_tready) /\ ~ends(c, m_tready)
  <2>1. HalfDone(c) = HalfDone(c)' /\ Offering(c) = StillOffering(c, m_tready)
    BY <1>4, <1>11, PopFacts
  <2> QED BY <1>2, <1>4, <1>11, <2>1
<1> QED BY <1>8, <1>9, <1>10, <1>11

\* The record of the frame coming in: written a cycle after the decision, and
\* still owed when the frame's last beat is taken.
Came(c) == IF taken(c) /\ s_tlast THEN <<d_state = "D_BCAST">> ELSE <<>>

LEMMA BackStep ==
  ASSUME FabricInv, SOURCE, DISPATCH, NEW c \in Core
  PROVE  /\ Inward(c) \in Seq(BOOLEAN) /\ Inward(c)' \in Seq(BOOLEAN)
         /\ Record(c) \in Seq(BOOLEAN) /\ Record(c)' \in Seq(BOOLEAN)
         /\ Came(c) \in Seq(BOOLEAN)
         /\ Inward(c) \o Record(c)' = Came(c) \o Inward(c)'
<1>1. /\ TagRoom /\ Stream /\ Dispatched /\ Dispatched'
  BY DispatchStep DEF FabricInv
<1> DEFINE z == <<d_state = "D_BCAST">>
           z1 == <<(d_state = "D_BCAST")'>>
           p == <<push[0] /\ push[1]>>
           p1 == <<(push[0] /\ push[1])'>>
<1>2. z \in Seq(BOOLEAN) /\ z1 \in Seq(BOOLEAN) /\ p \in Seq(BOOLEAN) /\ p1 \in Seq(BOOLEAN)
      /\ <<>> \in Seq(BOOLEAN)
  BY Bit, Emptiness
<1>3. /\ Inward(c) = IF coming(c) THEN z ELSE <<>>
      /\ Inward(c)' = IF coming(c)' THEN z1 ELSE <<>>
      /\ Record(c) = IF push[c] THEN p ELSE <<>>
      /\ Record(c)' = IF push'[c] THEN p1 ELSE <<>>
      /\ Came(c) = IF taken(c) /\ s_tlast THEN z ELSE <<>>
  BY DEF Inward, Record, Came
<1>4. push'[c] => p1 = z1
  <2>1. push'[c] => ((push'[0] /\ push'[1]) <=> d_state' = "D_BCAST")
    BY <1>1 DEF Dispatched
  <2>2. ASSUME push'[c] PROVE (push[0] /\ push[1])' = (d_state = "D_BCAST")'
    BY <2>1, <2>2
  <2> QED BY <2>2
<1>5. d_state' = d_state => z1 = z
  OBVIOUS
<1>6. \A s \in Seq(BOOLEAN) : s \o <<>> = s /\ <<>> \o s = s
  BY Emptiness
<1>7. /\ taken(c) => coming(c)
      /\ taken(c) /\ s_tlast => ~coming(c)'
      /\ coming(c) /\ ~(taken(c) /\ s_tlast) => coming(c)' /\ d_state' = d_state
      /\ coming(c) => ~push'[c]
      /\ ~coming(c) => (coming(c)' <=> push'[c])
  BY <1>1, DispatchStep
<1> HIDE DEF z, z1, p, p1
<1>8. Inward(c) \o Record(c)' = Came(c) \o Inward(c)'
  <2>1. CASE taken(c) /\ s_tlast
    <3>1. Inward(c) = z /\ Record(c)' = <<>> /\ Came(c) = z /\ Inward(c)' = <<>>
      BY <1>3, <1>7, <2>1
    <3> QED BY <3>1
  <2>2. CASE coming(c) /\ ~(taken(c) /\ s_tlast)
    <3>1. Inward(c) = z /\ Record(c)' = <<>> /\ Came(c) = <<>> /\ Inward(c)' = z
      BY <1>3, <1>5, <1>7, <2>2
    <3> QED BY <1>2, <1>6, <3>1
  <2>3. CASE ~coming(c)
    <3>1. Inward(c) = <<>> /\ Came(c) = <<>> /\ Record(c)' = Inward(c)'
      BY <1>3, <1>4, <1>7, <2>3
    <3> QED BY <3>1
  <2> QED BY <1>7, <2>1, <2>2, <2>3
<1> QED BY <1>2, <1>3, <1>8

\* Which of the frames of a queue are loads, for any stream of frames.
BitsOf(q, a) == [k \in DOMAIN q |-> a[q[k][1][1]].op = "load"]

LEMMA BitsFacts ==
  ASSUME NEW q \in Seq(Seq(Nat \X Nat)), NEW a
  PROVE  /\ BitsOf(q, a) \in Seq(BOOLEAN) /\ Len(BitsOf(q, a)) = Len(q)
         /\ \A k \in 1..Len(q) : BitsOf(q, a)[k] = (a[FrameOf(q[k])].op = "load")
<1> DEFINE b(k) == a[q[k][1][1]].op = "load"
           n == Len(q)
<1>1. n \in Nat /\ DOMAIN q = 1..n
  BY LenProperties
<1>2. \A k \in 1..n : b(k) \in BOOLEAN
  OBVIOUS
<1>3. BitsOf(q, a) = [k \in 1..n |-> b(k)]
  BY <1>1 DEF BitsOf
<1>4. \A k \in 1..n : b(k) = (a[FrameOf(q[k])].op = "load")
  BY DEF FrameOf
<1> HIDE DEF b, n
<1> DEFINE f == [k \in 1..n |-> b(k)]
<1>5. f \in Seq(BOOLEAN)
  BY <1>1, <1>2, IsASeq
<1>6. Len(f) = n /\ \A k \in 1..n : f[k] = b(k)
  <2>1. DOMAIN f = 1..n /\ \A k \in 1..n : f[k] = b(k)
    OBVIOUS
  <2>2. DOMAIN f = 1..Len(f) /\ Len(f) \in Nat
    BY <1>5, LenProperties
  <2> HIDE DEF f
  <2> QED BY <1>1, <2>1, <2>2
<1> QED BY <1>3, <1>4, <1>5, <1>6 DEF n

\* What core c still has on offer, and the frames it holds with the one that
\* came in, are what it offers and holds a cycle later.
LEMMA MiddleStep ==
  ASSUME FabricInv, NEW m_tready \in BOOLEAN, Cycle(m_tready), NEW c \in Core
  PROVE  /\ Queued(c) \in Seq(BOOLEAN) /\ Queued(c)' \in Seq(BOOLEAN)
         /\ Offering(c)' \in Seq(BOOLEAN)
         /\ StillOffering(c, m_tready) \o (Queued(c) \o Came(c)) = Offering(c)' \o Queued(c)'
<1>1. /\ TagRoom /\ Stream /\ Dispatched /\ CoreHolds(c)
      /\ SOURCE /\ DISPATCH /\ CORES(m_tready)
  BY DEF FabricInv, Cycle
<1>2. PICK d \in {0, 1} : Answering(c, m_tready, d)
  BY <1>1, HeldStep
<1> DEFINE q == Queued(c)
           q2 == BitsOf(inq'[c], arrived')
           r == Came(c)
           n == Len(inq[c])
<1>3. /\ inq[c] \in Seq(Seq(Nat \X Nat)) /\ inq'[c] \in Seq(Seq(Nat \X Nat))
      /\ DOMAIN inq[c] = 1..n /\ n \in Nat
      /\ Len(inq'[c]) = n - d + (IF taken(c) /\ s_tlast THEN 1 ELSE 0)
      /\ d = 1 => 1 \in DOMAIN inq[c]
  BY <1>1, <1>2, LenProperties DEF CoreHolds, Answering
<1>4. /\ q \in Seq(BOOLEAN) /\ Len(q) = n
      /\ \A k \in 1..n : q[k] = StreamBit(FrameOf(inq[c][k]))
  BY <1>3, BitsFacts DEF Queued, BitsOf, StreamBit
<1>5. Queued(c)' = q2
  BY DEF Queued, BitsOf, StreamBit
<1>6. /\ q2 \in Seq(BOOLEAN) /\ Len(q2) = Len(inq'[c])
      /\ \A k \in 1..Len(inq'[c]) : q2[k] = (arrived'[FrameOf(inq'[c][k])].op = "load")
  BY <1>3, BitsFacts
<1>7. /\ r \in Seq(BOOLEAN)
      /\ Len(r) = IF taken(c) /\ s_tlast THEN 1 ELSE 0
      /\ taken(c) /\ s_tlast => r[1] = (d_state = "D_BCAST")
  BY <1>1, BackStep DEF Came
<1>8. \A k \in 1..n : /\ FrameOf(inq[c][k]) \in DOMAIN arrived
                      /\ arrived'[FrameOf(inq[c][k])] = arrived[FrameOf(inq[c][k])]
  BY <1>1, <1>3, FramesStay DEF CoreHolds, Reached
<1>9. ASSUME NEW k \in 1..Len(q2)
      PROVE  q2[k] = IF k + d <= n THEN q[k + d] ELSE r[(k + d) - n]
  <2>0. k \in 1..Len(inq'[c]) /\ DOMAIN inq'[c] = 1..Len(inq'[c]) /\ Len(inq'[c]) \in Nat
    BY <1>3, <1>6, LenProperties
  <2>1. k \in DOMAIN inq'[c] /\ k \in Nat /\ k > 0
    <3> HIDE DEF q2
    <3> QED BY <2>0
  <2>2. CASE k + d <= n
    <3>1. k \in 1..(n - d) /\ k + d \in 1..n
      BY <1>3, <2>1, <2>2
    <3>2. inq'[c][k] = inq[c][k + d]
      BY <1>2, <3>1 DEF Answering
    <3>3. q2[k] = (arrived'[FrameOf(inq[c][k + d])].op = "load")
      BY <1>6, <3>2
    <3>4. q2[k] = (arrived[FrameOf(inq[c][k + d])].op = "load")
      BY <1>8, <3>1, <3>3
    <3> QED BY <1>4, <2>2, <3>1, <3>4 DEF StreamBit
  <2>3. CASE k + d > n
    <3>0. k > Len(inq[c]) - d
      BY <1>3, <2>1, <2>3
    <3>1. /\ taken(c) /\ s_tlast /\ k = n - d + 1
          /\ FrameOf(inq'[c][k]) = Len(arrived)
      BY <1>2, <2>1, <3>0 DEF Answering
    <3>2. arrived' = arrived /\ (is_bcast <=> d_state = "D_BCAST")
      BY <1>1, <3>1, DispatchStep, SourceStep
    <3>3. q2[k] = is_bcast
      BY <1>6, <3>1, <3>2 DEF is_bcast
    <3>4. (k + d) - n = 1 /\ r[1] = (d_state = "D_BCAST")
      BY <1>3, <1>7, <3>1
    <3>5. is_bcast = (d_state = "D_BCAST")
      BY <3>2 DEF is_bcast
    <3>6. q2[k] = r[(k + d) - n]
      BY <3>3, <3>4, <3>5, Zenon
    <3>7. ~(k + d <= n)
      BY <1>3, <2>1, <2>3
    <3> QED BY <3>6, <3>7, Zenon
  <2> QED BY <1>3, <2>1, <2>2, <2>3
<1> DEFINE B1 == StillOffering(c, m_tready)
           B2 == Offering(c)'
<1>10. CASE d = 0
  <2>1. q \o r = <<>> \o q2
    <3> HIDE DEF q, r, q2, n
    <3> DEFINE h == <<>>
    <3>1. h \in Seq(BOOLEAN) /\ Len(h) = 0
      OBVIOUS
    <3> HIDE DEF h
    <3>2. /\ Len(h) + Len(q2) = Len(q) + Len(r) /\ Len(h) <= Len(q)
          /\ \A i \in 1..Len(h) : h[i] = q[i]
          /\ \A k \in 1..Len(q2) : q2[k] = IF k + Len(h) <= Len(q) THEN q[k + Len(h)]
                                           ELSE r[(k + Len(h)) - Len(q)]
      BY <1>3, <1>4, <1>6, <1>7, <1>9, <1>10, <3>1
    <3>3. q \o r = h \o q2
      BY <1>4, <1>6, <1>7, <3>1, <3>2, ShiftedQueue
    <3> QED BY <3>3 DEF h
  <2>2. out'[c] = OutAfter(c, m_tready)
    BY <1>2, <1>10 DEF Answering
  <2>3. B2 = B1
    <3>1. /\ OutAfter(c, m_tready).at # 0 => offered(c) /\ OutAfter(c, m_tready).id = out[c].id
      BY <1>1, OutAfterFacts
    <3>2. offered(c) => StreamBit(out[c].id)' = StreamBit(out[c].id) \/ out'[c].id # out[c].id
      BY <1>1, FramesStay DEF CoreHolds, Reached, StreamBit
    <3>3. offered(c)' <=> OutAfter(c, m_tready).at # 0
      BY <2>2 DEF offered
    <3> QED BY <2>2, <3>1, <3>2, <3>3 DEF Offering, StillOffering
  <2>4. B1 \in Seq(BOOLEAN) /\ <<>> \o q2 = q2
    <3>1. StreamBit(out[c].id) \in BOOLEAN
      BY DEF StreamBit
    <3> QED BY <1>6, <3>1, Bit, Emptiness DEF StillOffering
  <2> HIDE DEF q, r, q2, B1, B2
  <2>5. B1 \o (q \o r) = B2 \o q2
    BY <2>1, <2>3, <2>4
  <2> QED BY <1>4, <1>5, <1>6, <2>3, <2>4, <2>5 DEF q, r, q2, B1, B2
<1>11. CASE d = 1
  <2>1. /\ OutAfter(c, m_tready).at = 0 /\ out'[c].at = 1
        /\ out'[c].id = FrameOf(inq[c][1]) /\ 1 \in 1..n
    BY <1>2, <1>3, <1>11, AnswerFacts DEF Answering
  <2>2. B1 = <<>>
    BY <2>1 DEF StillOffering
  <2>3. B2 = <<arrived'[FrameOf(inq[c][1])].op = "load">>
    BY <2>1 DEF Offering, offered, StreamBit
  <2>4. B2 \in Seq(BOOLEAN) /\ Len(B2) = 1 /\ B2[1] = q[1]
    <3> DEFINE b == arrived'[FrameOf(inq[c][1])].op = "load"
    <3>1. b \in BOOLEAN /\ b = q[1]
      BY <1>4, <1>8, <2>1 DEF StreamBit
    <3>2. B2 = <<b>>
      BY <2>3
    <3> HIDE DEF b, B2, q
    <3> QED BY <3>1, <3>2, Bit
  <2> HIDE DEF q, r, q2, n, B2
  <2>5. /\ Len(B2) + Len(q2) = Len(q) + Len(r) /\ Len(B2) <= Len(q)
        /\ \A i \in 1..Len(B2) : B2[i] = q[i]
        /\ \A k \in 1..Len(q2) : q2[k] = IF k + Len(B2) <= Len(q) THEN q[k + Len(B2)]
                                         ELSE r[(k + Len(B2)) - Len(q)]
    BY <1>3, <1>4, <1>6, <1>7, <1>9, <1>11, <2>1, <2>4
  <2>6. q \o r = B2 \o q2
    BY <1>4, <1>6, <1>7, <2>4, <2>5, ShiftedQueue
  <2>7. <<>> \o (q \o r) = q \o r
    BY <1>4, <1>7, ConcatProperties, Emptiness
  <2> QED BY <1>4, <1>5, <1>6, <2>2, <2>4, <2>6, <2>7 DEF q, r, q2, B2
<1> QED BY <1>10, <1>11

\* The FIFO's own step: its head leaves, the record under way joins it.
LEMMA TagAfterIs ==
  ASSUME TagRoom, NEW c \in Core, NEW m_tready \in BOOLEAN
  PROVE  TagAfter(c, m_tready) =
           (IF tag_pop(c, m_tready) /\ tags[c] # <<>> THEN Tail(tags[c]) ELSE tags[c])
             \o Record(c)
<1> DEFINE rest == IF tag_pop(c, m_tready) /\ tags[c] # <<>> THEN Tail(tags[c]) ELSE tags[c]
           bit == push[0] /\ push[1]
<1>1. tags[c] \in Seq(BOOLEAN) /\ (push[c] => ~tag_full(c))
  BY TagDepthAssumption DEF TagRoom, tag_full
<1>2. rest \in Seq(BOOLEAN)
  BY <1>1, HeadTailProperties
<1>3. bit \in BOOLEAN
  OBVIOUS
<1>4. /\ TagAfter(c, m_tready) = IF push[c] /\ ~tag_full(c) THEN Append(rest, bit) ELSE rest
      /\ Record(c) = IF push[c] THEN <<bit>> ELSE <<>>
  BY DEF TagAfter, Record
<1> HIDE DEF rest, bit
<1>5. Append(rest, bit) = rest \o <<bit>> /\ rest \o <<>> = rest
  BY <1>2, <1>3, AppendIsConcat, ConcatEmptySeq
<1>6. TagAfter(c, m_tready) = rest \o Record(c)
  BY <1>1, <1>4, <1>5
<1> QED BY <1>6 DEF rest

\* A core that owes an answer with its frame's record written has it queued.
LEMMA TagWaits ==
  ASSUME NEW S, NEW t \in Seq(S), NEW p \in Seq(S), NEW h \in Seq(S),
         NEW q \in Seq(S), NEW z \in Seq(S),
         Join(t, p) = Join(Join(h, q), z), Len(h) > 0, Len(p) <= Len(z)
  PROVE  t # <<>>
<1>1. /\ Len(Join(t, p)) = Len(t) + Len(p)
      /\ Join(h, q) \in Seq(S) /\ Len(Join(h, q)) = Len(h) + Len(q)
      /\ Len(t) \in Nat /\ Len(p) \in Nat /\ Len(h) \in Nat /\ Len(q) \in Nat /\ Len(z) \in Nat
  BY JoinFacts
<1>2. Len(Join(Join(h, q), z)) = Len(Join(h, q)) + Len(z)
  BY <1>1, JoinFacts
<1>3. Len(t) # 0
  BY <1>1, <1>2
<1> QED BY <1>3, EmptySeq

LEMMA TagsStep ==
  ASSUME FabricInv, Collecting, NEW m_tready \in BOOLEAN, Cycle(m_tready), NEW c \in Core,
         tags[c] \o Record(c) = Owed(c)
  PROVE  tags'[c] \o Record(c)' = Owed(c)'
<1>1. /\ TagRoom /\ Stream /\ Dispatched /\ CoreHolds(c)
      /\ SOURCE /\ DISPATCH /\ TAGS(m_tready) /\ COLLECT(m_tready)
  BY DEF FabricInv, Cycle
<1> DEFINE t == tags[c]
           p == Record(c)
           p1 == Record(c)'
           a == HalfDone(c)
           b == Offering(c)
           q == Queued(c)
           z == Inward(c)
           a1 == HalfDone(c)'
           b1 == StillOffering(c, m_tready)
           b2 == Offering(c)'
           q2 == Queued(c)'
           r == Came(c)
           z1 == Inward(c)'
           t1 == tags'[c]
           S == BOOLEAN
           pops == tag_pop(c, m_tready)
<1>2. /\ Owed(c) = Join(Join(Join(a, b), q), z)
      /\ Owed(c)' = Join(Join(Join(a1, b2), q2), z1)
  BY DEF Owed, HalfDone, Offering, Queued, Inward, Join
<1>3. /\ t \in Seq(S) /\ p \in Seq(S) /\ p1 \in Seq(S) /\ a \in Seq(S) /\ b \in Seq(S)
      /\ q \in Seq(S) /\ z \in Seq(S) /\ a1 \in Seq(S) /\ b1 \in Seq(S) /\ b2 \in Seq(S)
      /\ q2 \in Seq(S) /\ r \in Seq(S) /\ z1 \in Seq(S)
  <2>1. t \in Seq(S)
    BY <1>1 DEF TagRoom
  <2>2. p \in Seq(S) /\ p1 \in Seq(S) /\ z \in Seq(S) /\ z1 \in Seq(S) /\ r \in Seq(S)
    BY <1>1, BackStep
  <2>3. a \in Seq(S) /\ b \in Seq(S) /\ a1 \in Seq(S) /\ b1 \in Seq(S)
    BY <1>1, FrontStep
  <2>4. q \in Seq(S) /\ b2 \in Seq(S) /\ q2 \in Seq(S)
    BY MiddleStep
  <2> QED BY <2>1, <2>2, <2>3, <2>4
<1>4. Join(z, p1) = Join(r, z1)
  BY <1>1, BackStep DEF Join
<1>5. Join(b1, Join(q, r)) = Join(b2, q2)
  BY MiddleStep DEF Join
<1>6. /\ ~pops => Join(a, b) = Join(a1, b1)
      /\ pops => \E x \in BOOLEAN : Join(a, b) = Join(<<x>>, Join(a1, b1))
  BY <1>1, FrontStep DEF Join
<1>7. t1 = Join(IF pops /\ t # <<>> THEN Tail(t) ELSE t, p)
  BY <1>1, TagAfterIs DEF TAGS, Join
<1>8. Len(p) <= Len(z)
  <2>1. push[c] => coming(c)
    BY <1>1 DEF Dispatched
  <2>2. Len(p) = IF push[c] THEN 1 ELSE 0
    BY DEF Record
  <2>3. Len(z) = IF coming(c) THEN 1 ELSE 0
    BY DEF Inward
  <2> QED BY <2>1, <2>2, <2>3
<1>9. Join(t, p) = Join(Join(Join(a, b), q), z)
  BY <1>2 DEF Join
<1>10. tags'[c] \o Record(c)' = Join(t1, p1)
  BY DEF Join
<1> DEFINE ab == Join(a, b)
           u == Join(a1, b1)
           w == Join(u, Join(q, z))
<1> HIDE DEF t, p, p1, a, b, q, z, a1, b1, b2, q2, r, z1, t1, S, pops
<1>11. ab \in Seq(S) /\ u \in Seq(S) /\ Join(q, z) \in Seq(S) /\ Join(t, p) = Join(Join(ab, q), z)
  BY <1>3, <1>9, JoinFacts
<1>12. w \in Seq(S)
  <2> HIDE DEF u
  <2> QED BY <1>11, JoinFacts
<1>13. t1 = w
  <2> DEFINE v == Join(q, z)
  <2>1. v \in Seq(S) /\ w = Join(u, v) /\ w \in Seq(S)
    BY <1>11, <1>12
  <2> HIDE DEF u, ab, w
  <2>2. Join(t, p) = Join(ab, v)
    <3>1. Join(Join(ab, q), z) = Join(ab, v)
      BY <1>3, <1>11, JoinRegroups
    <3> QED BY <1>11, <3>1
  <2> HIDE DEF v
  <2>3. CASE ~pops
    <3>1. ab = u
      BY <1>6, <2>3 DEF ab, u
    <3> QED BY <1>7, <2>1, <2>2, <2>3, <3>1
  <2>4. CASE pops
    <3>1. PICK x \in BOOLEAN : ab = Join(<<x>>, u)
      BY <1>6, <2>4 DEF ab, u
    <3> DEFINE h == <<x>>
    <3>2. h \in Seq(S) /\ Len(h) = 1 /\ ab = Join(h, u)
      BY <3>1, Bit DEF S
    <3> HIDE DEF h
    <3>3. Len(ab) > 0
      <4>1. Len(ab) = Len(h) + Len(u) /\ Len(u) \in Nat
        BY <1>11, <3>2, JoinFacts
      <4> QED BY <3>2, <4>1
    <3>4. t # <<>>
      BY <1>3, <1>8, <1>11, <3>3, TagWaits
    <3>5. Join(t, p) = Join(h, w)
      <4>1. Join(Join(h, u), v) = Join(h, Join(u, v))
        BY <1>11, <2>1, <3>2, JoinRegroups
      <4> QED BY <2>1, <2>2, <3>2, <4>1
    <3>6. Join(Tail(t), p) = w
      BY <1>3, <2>1, <3>2, <3>4, <3>5, TakeHead
    <3> QED BY <1>7, <2>4, <3>4, <3>6
  <2> QED BY <2>3, <2>4
<1>14. Join(w, p1) = Join(u, Join(Join(q, r), z1))
  <2> HIDE DEF u
  <2>1. Join(w, p1) = Join(u, Join(Join(q, z), p1))
    BY <1>3, <1>11, JoinRegroups
  <2>2. Join(Join(q, z), p1) = Join(q, Join(z, p1))
    BY <1>3, JoinRegroups
  <2>3. Join(q, Join(r, z1)) = Join(Join(q, r), z1)
    BY <1>3, JoinRegroups
  <2> QED BY <1>4, <2>1, <2>2, <2>3
<1>15. Join(u, Join(Join(q, r), z1)) = Join(Join(Join(a1, b2), q2), z1)
  <2> DEFINE m == Join(q, r)
  <2>1. m \in Seq(S) /\ Join(b1, m) = Join(b2, q2)
    BY <1>3, <1>5, JoinFacts
  <2> HIDE DEF m
  <2>2. Join(m, z1) \in Seq(S) /\ Join(b1, m) \in Seq(S)
    BY <1>3, <2>1, JoinFacts
  <2>3. Join(Join(a1, b1), Join(m, z1)) = Join(a1, Join(b1, Join(m, z1)))
    BY <1>3, <2>2, JoinRegroups
  <2>4. Join(b1, Join(m, z1)) = Join(Join(b1, m), z1)
    BY <1>3, <2>1, JoinRegroups
  <2>5. Join(a1, Join(Join(b1, m), z1)) = Join(Join(a1, Join(b1, m)), z1)
    BY <1>3, <2>2, JoinRegroups
  <2>6. Join(a1, Join(b2, q2)) = Join(Join(a1, b2), q2)
    BY <1>3, JoinRegroups
  <2> QED BY <2>1, <2>3, <2>4, <2>5, <2>6 DEF m
<1> QED BY <1>2, <1>10, <1>13, <1>14, <1>15

\* The entry the collector reads belongs to the answer it reads it for.
LEMMA HeadMeans ==
  ASSUME FabricInv, NEW c \in Core, tags[c] \o Record(c) = Owed(c), cand(c), ~half_done(c)
  PROVE  Head(tags[c]) = StreamBit(out[c].id)
<1> DEFINE t == tags[c]
           bit == StreamBit(out[c].id)
           b == Offering(c)
           q == Queued(c)
           z == Inward(c)
<1>1. /\ TagRoom /\ CoreHolds(c) /\ offered(c) /\ t # <<>>
  BY DEF FabricInv, cand
<1>2. /\ t \in Seq(BOOLEAN) /\ Len(t) \in Nat \ {0} /\ Head(t) = t[1]
  BY <1>1, EmptySeq DEF TagRoom
<1>3. /\ Record(c) \in Seq(BOOLEAN) /\ z \in Seq(BOOLEAN) /\ q \in Seq(BOOLEAN)
  <2>1. \A e \in BOOLEAN : <<e>> \in Seq(BOOLEAN) /\ <<>> \in Seq(BOOLEAN)
    BY Bit, Emptiness
  <2>2. inq[c] \in Seq(Seq(Nat \X Nat))
    BY <1>1 DEF CoreHolds
  <2>3. q \in Seq(BOOLEAN)
    BY <2>2, BitsFacts DEF Queued, BitsOf, StreamBit
  <2> QED BY <2>1, <2>3 DEF Record, Inward
<1>4. bit \in BOOLEAN
  BY DEF StreamBit
<1>5. b = <<bit>>
  BY <1>1 DEF Offering
<1>6. b \in Seq(BOOLEAN) /\ Len(b) = 1 /\ b[1] = bit
  BY <1>4, <1>5, Bit
<1>7. t \o Record(c) = (b \o q) \o z
  <2>1. HalfDone(c) = <<>>
    BY DEF HalfDone
  <2>2. Owed(c) = ((HalfDone(c) \o b) \o q) \o z
    BY DEF Owed, HalfDone, Offering, Queued, Inward
  <2>3. <<>> \o b = b
    BY <1>6, Emptiness
  <2> QED BY <2>1, <2>2, <2>3
<1> HIDE DEF t, bit, b, q, z
<1>8. Join(t, Record(c)) = Join(Join(b, q), z)
  BY <1>7 DEF Join
<1>9. Join(t, Record(c))[1] = t[1]
  <2>1. Len(Record(c)) \in Nat /\ 1 <= Len(t)
    BY <1>2, <1>3, LenProperties
  <2> QED BY <1>2, <1>3, <2>1, JoinElements
<1>10. Join(Join(b, q), z)[1] = b[1]
  <2>1. Join(b, q) \in Seq(BOOLEAN) /\ Len(Join(b, q)) = 1 + Len(q) /\ Len(q) \in Nat
    BY <1>3, <1>6, JoinFacts
  <2>2. Len(z) \in Nat
    BY <1>3, LenProperties
  <2>3. Join(b, q)[1] = b[1]
    <3>1. 1 \in 1..(Len(b) + Len(q)) /\ 1 <= Len(b)
      BY <1>6, <2>1
    <3> QED BY <1>3, <1>6, <3>1, JoinElements
  <2>4. Join(Join(b, q), z)[1] = Join(b, q)[1]
    <3> DEFINE bq == Join(b, q)
    <3>1. bq \in Seq(BOOLEAN) /\ 1 \in 1..(Len(bq) + Len(z)) /\ 1 <= Len(bq)
      BY <2>1, <2>2
    <3> HIDE DEF bq
    <3>2. Join(bq, z)[1] = bq[1]
      BY <1>3, <3>1, JoinElements
    <3> QED BY <3>2 DEF bq
  <2> QED BY <2>3, <2>4
<1> QED BY <1>2, <1>6, <1>8, <1>9, <1>10 DEF t, bit

\* An answer on offer stays on offer until its last beat is taken.
LEMMA OfferStays ==
  ASSUME FabricInv, NEW m_tready \in BOOLEAN, Cycle(m_tready), NEW c \in Core,
         offered(c), ~ends(c, m_tready)
  PROVE  /\ offered(c)' /\ out'[c].id = out[c].id /\ out'[c].status = out[c].status
         /\ out'[c].len = out[c].len /\ loads'[c] = loads[c]
         /\ StreamBit(out[c].id)' <=> StreamBit(out[c].id)
         /\ Answering(c, m_tready, 0)
<1>1. /\ Stream /\ Dispatched /\ CoreHolds(c) /\ SOURCE /\ CORES(m_tready)
  BY DEF FabricInv, Cycle
<1>2. OutAfter(c, m_tready).at # 0
  BY <1>1, OutAfterFacts DEF ends
<1>3. PICK d \in {0, 1} : Answering(c, m_tready, d)
  BY <1>1, HeldStep
<1>4. d = 0
  BY <1>2, <1>3 DEF Answering
<1>5. out'[c] = OutAfter(c, m_tready) /\ loads'[c] = loads[c]
  BY <1>3, <1>4 DEF Answering
<1>6. /\ out'[c].id = out[c].id /\ out'[c].status = out[c].status
      /\ out'[c].len = out[c].len /\ offered(c)'
  BY <1>1, <1>2, <1>5, OutAfterFacts DEF offered
<1>7. out[c].id \in DOMAIN arrived
  BY <1>1 DEF CoreHolds, Reached
<1>8. StreamBit(out[c].id)' <=> StreamBit(out[c].id)
  BY <1>1, <1>6, <1>7, FramesStay DEF StreamBit
<1> QED BY <1>3, <1>4, <1>5, <1>6, <1>8

LEMMA CollectingStep ==
  ASSUME FabricInv, Collecting, NEW m_tready \in BOOLEAN, Cycle(m_tready),
         \A c \in Core : tags[c] \o Record(c) = Owed(c)
  PROVE  Collecting'
<1>1. COLLECT(m_tready)
  BY DEF Cycle
<1>2. CASE CStartBcast
  <2>1. /\ c_state = "C_IDLE" /\ c_state' = "C_BCAST" /\ c_src' = c_src /\ both_bcast
    BY <1>2 DEF CStartBcast, BcastOnBoth
  <2>2. ASSUME NEW c \in Core PROVE offered(c)' /\ StreamBit(out[c].id)'
    <3>1. cand(c) /\ Head(tags[c]) /\ ~half_done(c) /\ offered(c) /\ ~ends(c, m_tready)
      BY <2>1 DEF both_bcast, half_done, cand, ends, popped
    <3>2. StreamBit(out[c].id)
      BY <3>1, HeadMeans
    <3> QED BY <3>1, <3>2, OfferStays
  <2> QED BY <2>1, <2>2 DEF Collecting
<1>3. CASE CStartPass
  <2>1. PICK c \in Core : /\ c_state = "C_IDLE" /\ c_state' = "C_PASS" /\ c_src' = c
                          /\ serves(c)
    BY <1>3 DEF CStartPass
  <2>2. offered(c) /\ ~ends(c, m_tready)
    BY <2>1 DEF serves, sel, cand, ends, popped
  <2>3. offered(c)'
    BY <2>2, OfferStays
  <2> QED BY <2>1, <2>3 DEF Collecting, offered
<1>4. CASE CIdle
  BY <1>4 DEF CIdle, Collecting
<1>5. CASE CPass(m_tready)
  <2>1. /\ c_state' = IF ends(c_src, m_tready) THEN "C_IDLE" ELSE "C_PASS"
        /\ c_src' = c_src /\ offered(c_src) /\ c_src \in Core
    BY <1>5 DEF CPass, Collecting, ends
  <2>2. ASSUME ~ends(c_src, m_tready) PROVE offered(c_src)'
    <3>1. PICK c \in Core : c = c_src
      BY <2>1
    <3>2. offered(c)'
      BY <2>1, <2>2, <3>1, OfferStays
    <3> QED BY <2>1, <3>1, <3>2 DEF offered
  <2> QED BY <2>1, <2>2 DEF Collecting
<1>6. CASE CBcast(m_tready)
  <2>1. /\ c_state = "C_BCAST" /\ c_src' = c_src
        /\ c_state' = IF bcast_done(m_tready) THEN "C_IDLE" ELSE "C_BCAST"
    BY <1>6 DEF CBcast
  <2>2. ASSUME NEW c \in Core, ~half_done(c)', c_state' = "C_BCAST"
        PROVE  offered(c)' /\ StreamBit(out[c].id)'
    <3>1. ~tag_pop(c, m_tready)
      BY <2>1, <2>2 DEF tag_pop
    <3>2. ~half_done(c) /\ ~ends(c, m_tready)
      BY <1>1, <2>2, <3>1, PopFacts
    <3>3. offered(c) /\ StreamBit(out[c].id)
      BY <2>1, <3>2 DEF Collecting
    <3> QED BY <3>2, <3>3, OfferStays
  <2> QED BY <2>1, <2>2 DEF Collecting
<1> QED BY <1>1, <1>2, <1>3, <1>4, <1>5, <1>6 DEF COLLECT

TagsInv == FabricInv /\ Collecting /\ TagsDescribe

LEMMA InitTags == Init => TagsInv
<1> SUFFICES ASSUME Init PROVE TagsInv
  OBVIOUS
<1>1. FabricInv
  BY InitFabric
<1>2. Collecting
  BY DEF Init, Collecting, Core
<1>3. ASSUME NEW c \in Core PROVE tags[c] \o Record(c) = Owed(c)
  <2>1. /\ HalfDone(c) = <<>> /\ Offering(c) = <<>> /\ Inward(c) = <<>> /\ Record(c) = <<>>
        /\ tags[c] = <<>>
    BY DEF Init, HalfDone, Offering, Inward, Record, half_done, offered, coming, NoOut
  <2>2. Queued(c) = <<>>
    <3>1. inq[c] = <<>> /\ inq[c] \in Seq(Seq(Nat \X Nat))
      BY DEF Init
    <3>2. Queued(c) \in Seq(BOOLEAN) /\ Len(Queued(c)) = Len(inq[c])
      BY <3>1, BitsFacts DEF Queued, BitsOf, StreamBit
    <3> QED BY <3>1, <3>2, EmptySeq
  <2>3. Owed(c) = ((HalfDone(c) \o Offering(c)) \o Queued(c)) \o Inward(c)
    BY DEF Owed, HalfDone, Offering, Queued, Inward
  <2>4. <<>> \o <<>> = <<>>
    BY Emptiness
  <2> QED BY <2>1, <2>2, <2>3, <2>4
<1> QED BY <1>1, <1>2, <1>3 DEF TagsInv, TagsDescribe, Record

LEMMA NextTags == ASSUME TagsInv, Next PROVE TagsInv'
<1>1. PICK m_tready \in BOOLEAN : Cycle(m_tready)
  BY DEF Next
<1>2. FabricInv /\ Collecting /\ \A c \in Core : tags[c] \o Record(c) = Owed(c)
  BY DEF TagsInv, TagsDescribe, Record
<1>3. FabricInv'
  BY <1>2, NextFabric
<1>4. Collecting'
  BY <1>1, <1>2, CollectingStep
<1>5. \A c \in Core : tags'[c] \o Record(c)' = Owed(c)'
  BY <1>1, <1>2, TagsStep
<1> QED BY <1>3, <1>4, <1>5 DEF TagsInv, TagsDescribe, Record

LEMMA TagsStutter == ASSUME TagsInv, UNCHANGED vars PROVE TagsInv'
<1>1. FabricInv'
  BY FabricStutters DEF TagsInv
<1>2. /\ UNCHANGED <<arrived, s_beat, d_state, target, sent, push, tags, inq, out>>
      /\ UNCHANGED <<c_state, c_src, fwd_done, drn_done>>
  BY DEF vars, sourceVars, dispatchVars, tagVars, coreVars, collectVars
<1>3. Collecting'
  BY <1>2 DEF TagsInv, Collecting, half_done, offered, StreamBit
<1>4. ASSUME NEW c \in Core PROVE Owed(c)' = Owed(c)
  <2>1. /\ coming(c)' = coming(c) /\ half_done(c)' = half_done(c) /\ offered(c)' = offered(c)
        /\ StreamBit(out[c].id)' = StreamBit(out[c].id)
    BY <1>2, Zenon DEF half_done, offered, StreamBit, coming, s_tvalid, s_tlast
  <2>2. Queued(c)' = Queued(c)
    BY <1>2, Zenon DEF Queued, StreamBit
  <2>3. HalfDone(c)' = HalfDone(c) /\ Offering(c)' = Offering(c) /\ Inward(c)' = Inward(c)
    BY <1>2, <2>1 DEF HalfDone, Offering, Inward
  <2>4. /\ Owed(c) = ((HalfDone(c) \o Offering(c)) \o Queued(c)) \o Inward(c)
        /\ Owed(c)' = ((HalfDone(c)' \o Offering(c)') \o Queued(c)') \o Inward(c)'
    BY DEF Owed, HalfDone, Offering, Queued, Inward
  <2> QED BY <2>2, <2>3, <2>4
<1>5. TagsDescribe'
  BY <1>2, <1>4 DEF TagsInv, TagsDescribe
<1> QED BY <1>1, <1>3, <1>5 DEF TagsInv

\* An expectation FIFO, with the record on its way in, says of every frame
\* its core owes an answer whether the answer is to be merged, oldest first:
\* the collector never forwards one half of a broadcast, nor waits for the
\* other half of a frame that one core got alone.
THEOREM TagsDescribeWhatIsOwed == Spec => []TagsDescribe
<1>1. TagsInv /\ [Next]_vars => TagsInv'
  BY NextTags, TagsStutter
<1>2. TagsInv => TagsDescribe
  BY DEF TagsInv
<1> QED BY <1>1, <1>2, InitTags, PTL DEF Spec

-----------------------------------------------------------------------------
(* The loads: each core answers what it holds in the order of the stream.    *)

InQueue(c, n) == \E k \in DOMAIN inq[c] : FrameOf(inq[c][k]) = n
Loaded(c, n) == \E j \in DOMAIN loads[c] : loads[c][j] = n

InOrder(c) ==
  /\ \A j, k \in DOMAIN inq[c] : j < k => FrameOf(inq[c][j]) < FrameOf(inq[c][k])
  /\ \A n : InQueue(c, n) => /\ offered(c) => out[c].id < n
                             /\ \A l : Loaded(c, l) => l < n
  /\ \A j, k \in DOMAIN loads[c] : j < k => loads[c][j] < loads[c][k]
  /\ \A l : Loaded(c, l) => Reached(c, l) /\ StreamBit(l)

\* An answer to a load says whether the core holds the key now.
Answer(c) ==
  offered(c) =>
    /\ out[c].status \in {"OK", "BAD"}
    /\ StreamBit(out[c].id) =>
         out[c].len = 1 /\ (out[c].status = "OK" <=> Loaded(c, out[c].id))

\* The frames of a core's queue, a cycle on.
LEMMA QueueMoves ==
  ASSUME FabricInv, NEW m_tready \in BOOLEAN, NEW c \in Core, InOrder(c),
         NEW d \in {0, 1}, Answering(c, m_tready, d)
  PROVE  /\ \A n : InQueue(c, n)' => \/ InQueue(c, n) /\ (d = 1 => out'[c].id < n)
                                     \/ taken(c) /\ s_tlast /\ n = Len(arrived)
         /\ \A n : InQueue(c, n) => InQueue(c, n)' \/ (d = 1 /\ n = out'[c].id)
         /\ taken(c) /\ s_tlast => \A n : n = Len(arrived) => InQueue(c, n)'
         /\ d = 1 => /\ InQueue(c, out'[c].id) /\ offered(c)'
                     /\ out'[c].id = FrameOf(inq[c][1])
                     /\ out'[c].status \in {"OK", "BAD"}
                     /\ arrived[out'[c].id].op = "load" => out'[c].len = 1
         /\ \A n : InQueue(c, n) => Reached(c, n)
<1>1. /\ CoreHolds(c) /\ inq[c] \in Seq(Seq(Nat \X Nat)) /\ inq'[c] \in Seq(Seq(Nat \X Nat))
  BY DEF FabricInv, CoreHolds, Answering
<1>2. /\ DOMAIN inq[c] = 1..Len(inq[c]) /\ Len(inq[c]) \in Nat
      /\ DOMAIN inq'[c] = 1..Len(inq'[c]) /\ Len(inq'[c]) \in Nat
      /\ Len(inq'[c]) = Len(inq[c]) - d + (IF taken(c) /\ s_tlast THEN 1 ELSE 0)
  BY <1>1, LenProperties DEF Answering
<1>3. d = 1 => /\ 1 \in DOMAIN inq[c] /\ out'[c].id = FrameOf(inq[c][1]) /\ out'[c].at = 1
               /\ out'[c].status \in {"OK", "BAD"}
               /\ arrived[out'[c].id].op = "load" => out'[c].len = 1
  <2>1. d = 1 => 1 \in DOMAIN inq[c] /\ out'[c] \in AnswerOf(c, inq[c][1])
    BY DEF Answering
  <2> QED BY <2>1, AnswerFacts
<1>4. ASSUME NEW n, InQueue(c, n)'
      PROVE  \/ InQueue(c, n) /\ (d = 1 => out'[c].id < n)
             \/ taken(c) /\ s_tlast /\ n = Len(arrived)
  <2>1. PICK k \in DOMAIN inq'[c] : FrameOf(inq'[c][k]) = n
    BY <1>4 DEF InQueue, FrameOf
  <2>2. k \in Nat /\ k > 0
    BY <1>2
  <2>3. CASE k <= Len(inq[c]) - d
    <3>1. k + d \in DOMAIN inq[c] /\ FrameOf(inq[c][k + d]) = n
      <4>1. k \in 1..(Len(inq[c]) - d)
        BY <1>2, <2>2, <2>3
      <4> QED BY <2>1, <4>1 DEF Answering
    <3>2. d = 1 => FrameOf(inq[c][1]) < FrameOf(inq[c][k + d])
      BY <1>3, <2>2, <3>1 DEF InOrder
    <3> QED BY <1>3, <3>1, <3>2 DEF InQueue
  <2>4. CASE k > Len(inq[c]) - d
    BY <2>1, <2>4 DEF Answering
  <2> QED BY <1>2, <2>2, <2>3, <2>4
<1>5. ASSUME NEW n, InQueue(c, n) PROVE InQueue(c, n)' \/ (d = 1 /\ n = out'[c].id)
  <2>1. PICK k \in DOMAIN inq[c] : FrameOf(inq[c][k]) = n
    BY <1>5 DEF InQueue
  <2>2. CASE d = 1 /\ k = 1
    BY <1>3, <2>1, <2>2
  <2>3. CASE ~(d = 1 /\ k = 1)
    <3> DEFINE i == k - d
    <3>1. i \in 1..(Len(inq[c]) - d) /\ i + d = k
      BY <1>2, <2>1, <2>3
    <3> HIDE DEF i
    <3>2. i \in DOMAIN inq'[c] /\ inq'[c][i] = inq[c][k]
      BY <3>1 DEF Answering
    <3> QED BY <2>1, <3>2 DEF InQueue, FrameOf
  <2> QED BY <2>2, <2>3
<1>6. taken(c) /\ s_tlast => \A n : n = Len(arrived) => InQueue(c, n)'
  <2>1. taken(c) /\ s_tlast => \E k \in DOMAIN inq'[c] : FrameOf(inq'[c][k]) = Len(arrived)
    BY DEF Answering
  <2> QED BY <2>1 DEF InQueue, FrameOf
<1>7. \A n : InQueue(c, n) => Reached(c, n)
  BY <1>1 DEF InQueue, CoreHolds
<1>8. d = 1 => InQueue(c, out'[c].id)
  BY <1>3 DEF InQueue
<1> QED BY <1>3, <1>4, <1>5, <1>6, <1>7, <1>8 DEF offered

\* The loads a core holds, a cycle on.
LEMMA LoadMoves ==
  ASSUME FabricInv, NEW m_tready \in BOOLEAN, NEW c \in Core,
         NEW d \in {0, 1}, Answering(c, m_tready, d)
  PROVE  LET more == d = 1 /\ out'[c].status = "OK" /\ arrived[out'[c].id].op = "load"
         IN  /\ ~more => loads'[c] = loads[c]
             /\ more => /\ loads'[c] = Append(loads[c], out'[c].id)
                        /\ DOMAIN loads'[c] = 1..(Len(loads[c]) + 1)
                        /\ \A j \in DOMAIN loads[c] : j <= Len(loads[c]) /\ loads'[c][j] = loads[c][j]
                        /\ loads'[c][Len(loads[c]) + 1] = out'[c].id
             /\ DOMAIN loads[c] = 1..Len(loads[c]) /\ Len(loads[c]) \in Nat
             /\ \A n : Loaded(c, n)' <=> Loaded(c, n) \/ (more /\ n = out'[c].id)
<1> DEFINE more == d = 1 /\ out'[c].status = "OK" /\ arrived[out'[c].id].op = "load"
           e == out'[c].id
           s == loads[c]
           t == Append(s, e)
<1>1. s \in Seq(Nat)
  BY DEF FabricInv, CoreHolds
<1>2. DOMAIN s = 1..Len(s) /\ Len(s) \in Nat
  BY <1>1, LenProperties
<1>3. /\ ~more => loads'[c] = s
      /\ more => loads'[c] = t
  BY DEF Answering
<1>e. more => e \in Nat
  <2>1. d = 1 => 1 \in DOMAIN inq[c] /\ e = FrameOf(inq[c][1])
    BY AnswerFacts DEF Answering
  <2>2. \A k \in DOMAIN inq[c] : Reached(c, FrameOf(inq[c][k])) /\ arrived \in Seq(Frames)
    BY DEF FabricInv, CoreHolds, Stream
  <2> QED BY <2>1, <2>2 DEF Reached
<1>4. ASSUME more
      PROVE  /\ DOMAIN t = 1..(Len(s) + 1)
             /\ \A j \in 1..(Len(s) + 1) : t[j] = IF j <= Len(s) THEN s[j] ELSE e
  <2> HIDE DEF s, e, more
  <2>1. t \in Seq(Nat) /\ Len(t) = Len(s) + 1
    BY <1>1, <1>e, <1>4, AppendProperties
  <2>2. \A j \in 1..Len(s) : t[j] = s[j]
    BY <1>1, <1>e, <1>4, AppendProperties
  <2>3. t[Len(s) + 1] = e
    BY <1>1, <1>e, <1>4, AppendProperties
  <2>4. DOMAIN t = 1..Len(t)
    BY <2>1, LenProperties
  <2> HIDE DEF t
  <2> QED BY <1>2, <2>1, <2>2, <2>3, <2>4
<1>5. more => /\ \A j \in DOMAIN s : j <= Len(s) /\ j \in DOMAIN t /\ t[j] = s[j]
              /\ Len(s) + 1 \in DOMAIN t /\ t[Len(s) + 1] = e
              /\ \A j \in DOMAIN t : j = Len(s) + 1 \/ j \in DOMAIN s
  <2> HIDE DEF s, t, e, more
  <2> QED BY <1>2, <1>4
<1> HIDE DEF s, t, e, more
<1>6. more => \A n : (\E j \in DOMAIN t : t[j] = n) <=> (\E j \in DOMAIN s : s[j] = n) \/ n = e
  BY <1>5
<1>7. \A n : Loaded(c, n)' <=> Loaded(c, n) \/ (more /\ n = e)
  BY <1>3, <1>6 DEF Loaded, s
<1> QED BY <1>2, <1>3, <1>4, <1>5, <1>7 DEF s, t, e, more

LEMMA OrderStep ==
  ASSUME FabricInv, NEW m_tready \in BOOLEAN, Cycle(m_tready), NEW c \in Core, InOrder(c)
  PROVE  InOrder(c)'
<1>1. /\ TagRoom /\ Stream /\ Dispatched /\ CoreHolds(c)
      /\ SOURCE /\ DISPATCH /\ CORES(m_tready)
  BY DEF FabricInv, Cycle
<1>2. PICK d \in {0, 1} : Answering(c, m_tready, d)
  BY <1>1, HeldStep
<1> DEFINE e == out'[c].id
           more == d = 1 /\ out'[c].status = "OK" /\ arrived[e].op = "load"
<1>3. /\ \A n : Reached(c, n) => Reached(c, n)' /\ n \in Nat /\ n > 0
      /\ taken(c) => \A n : Reached(c, n) => n < Len(arrived)
      /\ Len(arrived) \in Nat
  BY <1>1, ReachedStep DEF Stream
<1>4. /\ \A n : InQueue(c, n)' => \/ InQueue(c, n) /\ (d = 1 => e < n)
                                  \/ taken(c) /\ s_tlast /\ n = Len(arrived)
      /\ d = 1 => InQueue(c, e)
      /\ \A n : InQueue(c, n) => Reached(c, n)
  BY <1>2, QueueMoves
<1>5. /\ ~more => loads'[c] = loads[c]
      /\ more => /\ DOMAIN loads'[c] = 1..(Len(loads[c]) + 1)
                 /\ \A j \in DOMAIN loads[c] : j <= Len(loads[c]) /\ loads'[c][j] = loads[c][j]
                 /\ loads'[c][Len(loads[c]) + 1] = e
      /\ DOMAIN loads[c] = 1..Len(loads[c]) /\ Len(loads[c]) \in Nat
      /\ \A n : Loaded(c, n)' <=> Loaded(c, n) \/ (more /\ n = e)
  BY <1>2, LoadMoves
<1>6. ASSUME NEW j \in DOMAIN inq'[c], NEW k \in DOMAIN inq'[c], j < k
      PROVE  FrameOf(inq'[c][j]) < FrameOf(inq'[c][k])
  <2>1. /\ inq[c] \in Seq(Seq(Nat \X Nat)) /\ inq'[c] \in Seq(Seq(Nat \X Nat))
    BY <1>1, <1>2 DEF CoreHolds, Answering
  <2>2. j \in Nat /\ k \in Nat /\ j > 0 /\ Len(inq[c]) \in Nat
    BY <2>1
  <2>3. \A i \in 1..(Len(inq[c]) - d) : i + d \in DOMAIN inq[c] /\ inq'[c][i] = inq[c][i + d]
    BY <1>2 DEF Answering
  <2>4. \A i \in DOMAIN inq'[c] : i > Len(inq[c]) - d =>
          taken(c) /\ i = Len(inq[c]) - d + 1 /\ FrameOf(inq'[c][i]) = Len(arrived)
    BY <1>2 DEF Answering
  <2>5. j <= Len(inq[c]) - d
    <3>1. j > Len(inq[c]) - d => j = Len(inq[c]) - d + 1 /\ k = Len(inq[c]) - d + 1
      BY <1>6, <2>2, <2>4
    <3> QED BY <1>6, <2>2, <3>1
  <2>6. j + d \in DOMAIN inq[c] /\ inq'[c][j] = inq[c][j + d]
    BY <2>2, <2>3, <2>5
  <2>7. CASE k <= Len(inq[c]) - d
    <3>1. k + d \in DOMAIN inq[c] /\ inq'[c][k] = inq[c][k + d] /\ j + d < k + d
      BY <1>6, <2>2, <2>3, <2>7
    <3>2. FrameOf(inq[c][j + d]) < FrameOf(inq[c][k + d])
      BY <2>6, <3>1 DEF InOrder
    <3> QED BY <2>6, <3>1, <3>2
  <2>8. CASE k > Len(inq[c]) - d
    <3>1. taken(c) /\ FrameOf(inq'[c][k]) = Len(arrived)
      BY <2>4, <2>8
    <3>2. Reached(c, FrameOf(inq[c][j + d]))
      BY <1>1, <2>6 DEF CoreHolds
    <3> QED BY <1>3, <2>6, <3>1, <3>2
  <2> QED BY <2>2, <2>7, <2>8
<1>7. ASSUME NEW n, InQueue(c, n)'
      PROVE  /\ offered(c)' => out'[c].id < n
             /\ \A l : Loaded(c, l)' => l < n
  <2>1. offered(c)' => out'[c].id < n
    <3>1. CASE d = 0
      <4>1. offered(c)' => offered(c) /\ e = out[c].id
        BY <1>1, <1>2, <3>1, OutAfterFacts DEF Answering, offered
      <4>2. offered(c) => Reached(c, out[c].id)
        BY <1>1 DEF CoreHolds
      <4> QED BY <1>3, <1>4, <1>7, <4>1, <4>2 DEF InOrder
    <3>2. CASE d = 1
      BY <1>3, <1>4, <1>7, <3>2
    <3> QED BY <3>1, <3>2
  <2>2. ASSUME NEW l, Loaded(c, l)' PROVE l < n
    <3>1. CASE Loaded(c, l)
      BY <1>3, <1>4, <1>7, <3>1 DEF InOrder
    <3>2. CASE more /\ l = e
      BY <1>3, <1>4, <1>7, <3>2
    <3> QED BY <1>5, <2>2, <3>1, <3>2
  <2> QED BY <2>1, <2>2
<1>8. ASSUME NEW j \in DOMAIN loads'[c], NEW k \in DOMAIN loads'[c], j < k
      PROVE  loads'[c][j] < loads'[c][k]
  <2>1. CASE ~more
    BY <1>5, <1>8, <2>1 DEF InOrder
  <2>2. CASE more
    <3>1. j \in DOMAIN loads[c] /\ loads'[c][j] = loads[c][j]
      BY <1>5, <1>8, <2>2
    <3>2. CASE k \in DOMAIN loads[c]
      BY <1>5, <1>8, <2>2, <3>1, <3>2 DEF InOrder
    <3>3. CASE k \notin DOMAIN loads[c]
      <4>1. loads'[c][k] = e /\ InQueue(c, e)
        BY <1>4, <1>5, <1>8, <2>2, <3>3
      <4>2. Loaded(c, loads[c][j])
        BY <3>1 DEF Loaded
      <4> QED BY <3>1, <4>1, <4>2 DEF InOrder
    <3> QED BY <3>2, <3>3
  <2> QED BY <2>1, <2>2
<1>9. ASSUME NEW l, Loaded(c, l)' PROVE Reached(c, l)' /\ StreamBit(l)'
  <2>1. Reached(c, l) /\ StreamBit(l)
    <3>1. CASE Loaded(c, l)
      BY <3>1 DEF InOrder
    <3>2. CASE more /\ l = e
      BY <1>4, <3>2 DEF StreamBit
    <3> QED BY <1>5, <1>9, <3>1, <3>2
  <2>2. l \in DOMAIN arrived
    BY <2>1 DEF Reached
  <2> QED BY <1>1, <1>3, <2>1, <2>2, FramesStay
<1> QED BY <1>6, <1>7, <1>8, <1>9 DEF InOrder, FrameOf

LEMMA AnswerStep ==
  ASSUME FabricInv, NEW m_tready \in BOOLEAN, Cycle(m_tready), NEW c \in Core, InOrder(c),
         Answer(c)
  PROVE  Answer(c)'
<1>1. /\ TagRoom /\ Stream /\ Dispatched /\ CoreHolds(c)
      /\ SOURCE /\ DISPATCH /\ CORES(m_tready)
  BY DEF FabricInv, Cycle
<1>2. PICK d \in {0, 1} : Answering(c, m_tready, d)
  BY <1>1, HeldStep
<1>3. PICK e : e = out'[c].id
  OBVIOUS
<1>4. /\ \A n : Loaded(c, n)' <=> Loaded(c, n) \/ ( /\ d = 1 /\ n = e
                                                    /\ out'[c].status = "OK"
                                                    /\ arrived[e].op = "load")
  BY <1>2, <1>3, LoadMoves
<1>5. CASE d = 0
  <2>1. offered(c)' => /\ offered(c) /\ e = out[c].id /\ out'[c].status = out[c].status
                       /\ out'[c].len = out[c].len
    BY <1>1, <1>2, <1>3, <1>5, OutAfterFacts DEF Answering, offered
  <2>2. offered(c) => out[c].id \in DOMAIN arrived
    BY <1>1 DEF CoreHolds, Reached
  <2>3. offered(c) /\ e = out[c].id => (StreamBit(e)' <=> StreamBit(e))
    BY <1>1, <2>2, FramesStay
  <2>4. offered(c)' => /\ out'[c].status \in {"OK", "BAD"}
                       /\ StreamBit(e)' =>
                            out'[c].len = 1 /\ (out'[c].status = "OK" <=> Loaded(c, e)')
    BY <1>4, <1>5, <2>1, <2>3 DEF Answer
  <2> QED BY <1>3, <2>4 DEF Answer, Loaded, StreamBit
<1>6. CASE d = 1
  <2>1. /\ InQueue(c, e) /\ Reached(c, e) /\ out'[c].status \in {"OK", "BAD"}
        /\ arrived[e].op = "load" => out'[c].len = 1
    BY <1>2, <1>3, <1>6, QueueMoves
  <2>2. StreamBit(e)' <=> StreamBit(e)
    BY <1>1, <2>1, FramesStay DEF Reached
  <2>3. ~Loaded(c, e)
    <3>1. e \in Nat
      BY <1>1, <2>1, ReachedStep
    <3> QED BY <2>1, <3>1 DEF InOrder
  <2>4. /\ out'[c].status \in {"OK", "BAD"}
        /\ StreamBit(e)' => out'[c].len = 1 /\ (out'[c].status = "OK" <=> Loaded(c, e)')
    BY <1>4, <1>6, <2>1, <2>2, <2>3 DEF StreamBit
  <2> QED BY <1>3, <2>4 DEF Answer, Loaded, StreamBit
<1> QED BY <1>5, <1>6

\* A load has reached a core only once the core took its last beat: the fork
\* of a broadcast leaves none behind.
LEMMA LoadReached ==
  ASSUME FabricInv, SOURCE, DISPATCH, NEW c \in Core, NEW n, Reached(c, n)', StreamBit(n)'
  PROVE  Reached(c, n) \/ (taken(c) /\ s_tlast /\ n = Len(arrived))
<1>1. /\ Stream /\ Dispatched /\ Dispatched' /\ arrived \in Seq(Frames) /\ Len(arrived) \in Nat
      /\ s_beat \in {0, s_next} /\ s_next \in Nat /\ s_next > 0
  BY DispatchStep DEF FabricInv, Stream
<1>2. CASE \E f \in Frames : ~Underway /\ s_beat' = 1 /\ arrived' = Append(arrived, f)
  <2>1. PICK f \in Frames : ~Underway /\ s_beat' = 1 /\ arrived' = Append(arrived, f)
    BY <1>2
  <2>2. ~sent'[c]
    <3>1. d_state = "D_IDLE" /\ ~s_tvalid /\ ~sent[c]
      BY <1>1, <2>1 DEF Dispatched, Underway, s_tvalid
    <3> QED BY <3>1 DEF DISPATCH, DDecide, DHold, DForward, DBroadcast
  <2>3. n # Len(arrived')
    BY <2>1, <2>2 DEF Reached, StillComing, Underway
  <2>4. n \in DOMAIN arrived
    BY <1>1, <2>1, <2>3 DEF Reached
  <2> QED BY <2>1, <2>4 DEF Reached, StillComing
<1>3. CASE arrived' = arrived
  <2>1. n \in DOMAIN arrived
    BY <1>3 DEF Reached
  <2>2. CASE n = Len(arrived) /\ StillComing(c)
    <3>1. Underway /\ ~(sent[c] /\ s_tlast) /\ is_bcast /\ ~StillComing(c)'
      BY <1>3, <2>2 DEF StillComing, Reached, StreamBit, is_bcast
    <3>2. d_state = "D_BCAST" => DBroadcast
      BY DEF DISPATCH, DDecide, DHold, DForward
    <3>3. CASE Underway'
      <4>1. sent'[c] /\ s_tlast' /\ d_state' = "D_BCAST" /\ s_beat' # 0
        BY <1>1, <3>1, <3>3 DEF StillComing, Dispatched, s_tvalid
      <4>2. ~s_fire /\ (sent[c] \/ taken(c))
        <5>1. CASE DBroadcast
          BY <4>1, <5>1 DEF DBroadcast, ForkKeeps
        <5>2. CASE ~DBroadcast
          <6>1. sent'[c] => sent[c]
            BY <5>2 DEF DISPATCH, DDecide, DHold, DForward
          <6> QED BY <1>1, <3>2, <4>1, <5>2, <6>1 DEF Dispatched
        <5> QED BY <5>1, <5>2
      <4>3. s_beat' = s_beat
        <5>1. CASE sent[c]
          BY <1>1, <1>3, <4>2, <5>1, SourceStep DEF Dispatched
        <5>2. CASE taken(c)
          BY <1>3, <1>1, <4>2, <5>2, SourceStep DEF taken, m_tvalid
        <5> QED BY <4>2, <5>1, <5>2
      <4>4. s_tlast
        BY <1>3, <4>1, <4>3 DEF s_tlast
      <4> QED BY <2>2, <3>1, <4>2, <4>4
    <3>4. CASE ~Underway'
      <4>1. s_fire /\ s_tlast
        BY <1>1, <1>3, <3>1, <3>4, SourceStep DEF Underway, s_fire, s_tvalid
      <4>2. d_state = "D_BCAST"
        BY <1>1, <3>1, <4>1 DEF s_fire, s_tready, Dispatched
      <4>3. sent[c] \/ taken(c)
        BY <4>1, <4>2 DEF s_fire, s_tready, ForkAll
      <4> QED BY <2>2, <3>1, <4>1, <4>3
    <3> QED BY <3>3, <3>4
  <2> QED BY <2>1, <2>2 DEF Reached
<1> QED BY <1>1, <1>2, <1>3, SourceStep

\* When the cores judge alike, a core holds the key of every good load that
\* reached it and that it is not still to answer.
KeysTaken(c) ==
  /\ \A l : Loaded(c, l) => arrived[l].good
  /\ \A n : Reached(c, n) /\ StreamBit(n) /\ arrived[n].good => InQueue(c, n) \/ Loaded(c, n)

LEMMA KeysStep ==
  ASSUME ~CoresMayDiverge, FabricInv, NEW m_tready \in BOOLEAN, Cycle(m_tready),
         NEW c \in Core, InOrder(c), KeysTaken(c)
  PROVE  KeysTaken(c)'
<1>1. /\ TagRoom /\ Stream /\ Dispatched /\ CoreHolds(c)
      /\ SOURCE /\ DISPATCH /\ CORES(m_tready)
  BY DEF FabricInv, Cycle
<1>2. PICK d \in {0, 1} : Answering(c, m_tready, d)
  BY <1>1, HeldStep
<1> DEFINE e == out'[c].id
<1>3. \A n : Loaded(c, n)' <=> Loaded(c, n) \/ ( /\ d = 1 /\ n = e
                                                 /\ out'[c].status = "OK"
                                                 /\ arrived[e].op = "load")
  BY <1>2, LoadMoves
<1>4. d = 1 => /\ InQueue(c, e) /\ Reached(c, e)
               /\ out'[c].status = "OK" <=> arrived[e].good
  <2>1. d = 1 => out'[c] \in AnswerOf(c, inq[c][1])
    BY <1>2 DEF Answering
  <2>2. d = 1 => (out'[c].status = "OK" <=> arrived[e].good)
    BY <2>1, AnswerFacts
  <2> QED BY <1>2, <2>2, QueueMoves
<1>5. /\ \A n : InQueue(c, n) => InQueue(c, n)' \/ (d = 1 /\ n = e)
      /\ taken(c) /\ s_tlast => \A n : n = Len(arrived) => InQueue(c, n)'
  BY <1>2, QueueMoves
<1>6. \A n : n \in DOMAIN arrived =>
        /\ arrived'[n] = arrived[n]
        /\ StreamBit(n)' <=> StreamBit(n)
  BY <1>1, FramesStay
<1>7. ASSUME NEW l, Loaded(c, l)' PROVE arrived'[l].good
  <2>1. l \in DOMAIN arrived /\ arrived[l].good
    BY <1>3, <1>4, <1>7 DEF InOrder, KeysTaken, Reached
  <2> QED BY <1>6, <2>1
<1>8. ASSUME NEW n, Reached(c, n)', StreamBit(n)', arrived'[n].good
      PROVE  InQueue(c, n)' \/ Loaded(c, n)'
  <2>1. CASE taken(c) /\ s_tlast /\ n = Len(arrived)
    BY <1>5, <2>1
  <2>2. CASE Reached(c, n)
    <3>1. StreamBit(n) /\ arrived[n].good
      BY <1>6, <1>8, <2>2 DEF Reached
    <3>2. InQueue(c, n) \/ Loaded(c, n)
      BY <2>2, <3>1 DEF KeysTaken
    <3> QED BY <1>3, <1>4, <1>5, <3>1, <3>2 DEF StreamBit
  <2> QED BY <1>1, <1>8, <2>1, <2>2, LoadReached
<1> QED BY <1>7, <1>8 DEF KeysTaken

\* A load below one that reached a core has reached the other core too.
LEMMA ReachedBelow ==
  ASSUME Stream, NEW c \in Core, NEW k \in Core, NEW n, NEW x, Reached(c, n), Reached(k, x), n < x
  PROVE  Reached(k, n)
BY DEF Reached, Stream

\* Both key stores are filled in one order: where both have an entry, it is
\* the same load.
SameLoads ==
  \A k \in DOMAIN loads[0] : k \in DOMAIN loads[1] => loads[0][k] = loads[1][k]

LoadsInv == /\ FabricInv /\ SameLoads
            /\ \A c \in Core : InOrder(c) /\ KeysTaken(c)

GoodLoad(n) == StreamBit(n) /\ arrived[n].good
Oldest(c, e) == InQueue(c, e) /\ \A n : InQueue(c, n) => n = e \/ e < n

LEMMA OldestAnswered ==
  ASSUME FabricInv, NEW m_tready \in BOOLEAN, NEW c \in Core, InOrder(c),
         Answering(c, m_tready, 1)
  PROVE  Oldest(c, out'[c].id)
<1>1. /\ InQueue(c, out'[c].id) /\ out'[c].id = FrameOf(inq[c][1])
  BY QueueMoves
<1>2. DOMAIN inq[c] = 1..Len(inq[c]) /\ Len(inq[c]) \in Nat /\ 1 \in DOMAIN inq[c]
  <2>1. inq[c] \in Seq(Seq(Nat \X Nat))
    BY DEF FabricInv, CoreHolds
  <2> QED BY <2>1, LenProperties DEF Answering
<1>3. ASSUME NEW n, InQueue(c, n) PROVE n = out'[c].id \/ out'[c].id < n
  <2>1. PICK k \in DOMAIN inq[c] : FrameOf(inq[c][k]) = n
    BY <1>3 DEF InQueue
  <2>2. k = 1 \/ 1 < k
    BY <1>2
  <2>3. 1 < k => FrameOf(inq[c][1]) < FrameOf(inq[c][k])
    BY <1>2 DEF InOrder
  <2> QED BY <1>1, <2>1, <2>2, <2>3
<1> QED BY <1>1, <1>3 DEF Oldest

\* The next key a core takes is the next one of the other: neither can have
\* skipped a load the other took.
LEMMA NextKey ==
  ASSUME LoadsInv, NEW c \in Core, NEW o \in Core, o = Other(c), NEW e, Oldest(c, e), GoodLoad(e)
  PROVE  /\ Len(loads[c]) + 1 \in DOMAIN loads[o] => loads[o][Len(loads[c]) + 1] = e
         /\ Len(loads[c]) = Len(loads[o]) => \A m : Oldest(o, m) /\ GoodLoad(m) => m = e
<1> DEFINE s == loads[c]
           t == loads[o]
           L == Len(s)
<1>1. /\ Stream /\ InOrder(c) /\ InOrder(o) /\ KeysTaken(c) /\ KeysTaken(o)
      /\ s \in Seq(Nat) /\ t \in Seq(Nat)
  BY DEF LoadsInv, FabricInv, CoreHolds
<1>2. DOMAIN s = 1..L /\ DOMAIN t = 1..Len(t) /\ L \in Nat /\ Len(t) \in Nat
  BY <1>1, LenProperties
<1>3. \A k : k \in DOMAIN s /\ k \in DOMAIN t => s[k] = t[k]
  BY DEF LoadsInv, SameLoads, Core, Other
<1>4. /\ \A n : InQueue(c, n) => Reached(c, n)
      /\ \A n : InQueue(o, n) => Reached(o, n)
  BY DEF LoadsInv, FabricInv, CoreHolds, InQueue
<1>5. /\ \A n : Reached(c, n) \/ Reached(o, n) => n \in Nat
      /\ Reached(c, e) /\ InQueue(c, e)
  BY <1>1, <1>4 DEF Reached, Stream, Oldest
<1>6. ASSUME NEW x, GoodLoad(x), Reached(c, x), x < e PROVE Loaded(c, x)
  <2>1. ~InQueue(c, x)
    BY <1>5, <1>6 DEF Oldest
  <2> QED BY <1>1, <1>6, <2>1 DEF KeysTaken, GoodLoad
<1>7. ASSUME L + 1 \in DOMAIN t PROVE t[L + 1] = e
  <2> DEFINE x == t[L + 1]
  <2>1. Loaded(o, x)
    BY <1>7 DEF Loaded
  <2>2. Reached(o, x) /\ GoodLoad(x) /\ x \in Nat
    BY <1>1, <1>5, <2>1 DEF InOrder, KeysTaken, GoodLoad
  <2>3. ASSUME NEW j \in 1..L PROVE s[j] = t[j] /\ t[j] < x
    <3>1. j \in DOMAIN t /\ j \in DOMAIN s /\ j < L + 1
      BY <1>2, <1>7
    <3>2. t[j] < t[L + 1]
      <4> HIDE DEF L, s
      <4> QED BY <1>1, <1>7, <3>1 DEF InOrder
    <3> QED BY <1>3, <3>1, <3>2
  <2>4. CASE x < e
    <3>1. Loaded(c, x)
      BY <1>1, <1>5, <1>6, <2>2, <2>4, ReachedBelow
    <3>2. PICK j \in DOMAIN s : s[j] = x
      BY <3>1 DEF Loaded
    <3> QED BY <1>2, <2>2, <2>3, <3>2
  <2>5. CASE e < x
    <3>1. Reached(o, e)
      BY <1>1, <1>5, <2>2, <2>5, ReachedBelow
    <3>2. ~InQueue(o, e)
      BY <1>1, <1>5, <2>1, <2>2, <2>5 DEF InOrder
    <3>3. PICK j \in DOMAIN t : t[j] = e
      BY <1>1, <3>1, <3>2 DEF KeysTaken, GoodLoad, Loaded
    <3>4. j < L + 1
      <4>1. j = L + 1 \/ L + 1 < j \/ j < L + 1
        BY <1>2
      <4>2. L + 1 < j => x < e
        BY <1>1, <1>7, <3>3 DEF InOrder
      <4> QED BY <1>5, <2>2, <2>5, <3>3, <4>1, <4>2
    <3>5. j \in DOMAIN s /\ s[j] = e
      BY <1>2, <1>3, <3>3, <3>4
    <3>6. Loaded(c, e)
      BY <3>5 DEF Loaded
    <3> QED BY <1>1, <1>5, <3>6 DEF InOrder
  <2> QED BY <1>5, <2>2, <2>4, <2>5
<1>8. ASSUME L = Len(t), NEW m, Oldest(o, m), GoodLoad(m) PROVE m = e
  <2>1. Reached(o, m) /\ InQueue(o, m) /\ m \in Nat /\ e \in Nat
    BY <1>4, <1>5, <1>8 DEF Oldest
  <2>2. CASE m < e
    <3>1. Loaded(c, m)
      BY <1>1, <1>5, <1>6, <1>8, <2>1, <2>2, ReachedBelow
    <3>2. PICK j \in DOMAIN s : s[j] = m
      BY <3>1 DEF Loaded
    <3>3. Loaded(o, m)
      BY <1>2, <1>3, <1>8, <3>2 DEF Loaded
    <3> QED BY <1>1, <2>1, <3>3 DEF InOrder
  <2>3. CASE e < m
    <3>1. Reached(o, e)
      BY <1>1, <1>5, <2>1, <2>3, ReachedBelow
    <3>2. ~InQueue(o, e)
      BY <1>5, <1>8, <2>1, <2>3 DEF Oldest
    <3>3. PICK j \in DOMAIN t : t[j] = e
      BY <1>1, <3>1, <3>2 DEF KeysTaken, GoodLoad, Loaded
    <3>4. Loaded(c, e)
      BY <1>2, <1>3, <1>8, <3>3 DEF Loaded
    <3> QED BY <1>1, <1>5, <3>4 DEF InOrder
  <2> QED BY <2>1, <2>2, <2>3
<1> QED BY <1>7, <1>8

\* An entry of a key store, a cycle on, is an old one, or the oldest load the
\* core had not answered.
LEMMA EntryMoves ==
  ASSUME ~CoresMayDiverge, LoadsInv, NEW m_tready \in BOOLEAN, Cycle(m_tready),
         NEW c \in Core, NEW k \in DOMAIN loads'[c]
  PROVE  \/ k \in DOMAIN loads[c] /\ loads'[c][k] = loads[c][k]
         \/ /\ k = Len(loads[c]) + 1
            /\ Oldest(c, loads'[c][k]) /\ GoodLoad(loads'[c][k])
<1>1. FabricInv /\ InOrder(c) /\ CORES(m_tready) /\ SOURCE /\ DISPATCH
  BY DEF LoadsInv, Cycle
<1>2. PICK d \in {0, 1} : Answering(c, m_tready, d)
  BY <1>1, HeldStep DEF FabricInv
<1> DEFINE e == out'[c].id
           more == d = 1 /\ out'[c].status = "OK" /\ arrived[e].op = "load"
<1>3. /\ ~more => loads'[c] = loads[c]
      /\ more => /\ DOMAIN loads'[c] = 1..(Len(loads[c]) + 1)
                 /\ \A j \in DOMAIN loads[c] : loads'[c][j] = loads[c][j]
                 /\ loads'[c][Len(loads[c]) + 1] = e
      /\ DOMAIN loads[c] = 1..Len(loads[c]) /\ Len(loads[c]) \in Nat
  BY <1>1, <1>2, LoadMoves
<1>4. more => Oldest(c, e) /\ GoodLoad(e)
  <2>1. d = 1 => Oldest(c, e)
    BY <1>1, <1>2, OldestAnswered
  <2>2. d = 1 => out'[c] \in AnswerOf(c, inq[c][1])
    BY <1>2 DEF Answering
  <2>3. d = 1 => (out'[c].status = "OK" <=> arrived[e].good)
    BY <2>2, AnswerFacts
  <2> QED BY <2>1, <2>3 DEF GoodLoad, StreamBit
<1>5. CASE more
  <2>1. k = Len(loads[c]) + 1 \/ k \in DOMAIN loads[c]
    BY <1>3, <1>5
  <2> HIDE DEF e, more
  <2> QED BY <1>3, <1>4, <1>5, <2>1
<1>6. CASE ~more
  BY <1>3, <1>6
<1> QED BY <1>5, <1>6

LEMMA SameLoadsStep ==
  ASSUME ~CoresMayDiverge, LoadsInv, NEW m_tready \in BOOLEAN, Cycle(m_tready)
  PROVE  SameLoads'
<1> SUFFICES ASSUME NEW k \in DOMAIN loads'[0], k \in DOMAIN loads'[1]
             PROVE  loads'[0][k] = loads'[1][k]
  BY DEF SameLoads
<1> DEFINE Old(c) == k \in DOMAIN loads[c] /\ loads'[c][k] = loads[c][k]
           New(c) == /\ k = Len(loads[c]) + 1
                     /\ Oldest(c, loads'[c][k]) /\ GoodLoad(loads'[c][k])
<1>1. (Old(0) \/ New(0)) /\ (Old(1) \/ New(1))
  BY EntryMoves DEF Core
<1>2. CASE Old(0) /\ Old(1)
  BY <1>2 DEF LoadsInv, SameLoads
<1>3. CASE New(0) /\ Old(1)
  BY <1>3, NextKey DEF Core, Other
<1>4. CASE Old(0) /\ New(1)
  BY <1>4, NextKey DEF Core, Other
<1>5. CASE New(0) /\ New(1)
  <2>1. Len(loads[0]) = Len(loads[1])
    <3>1. loads[0] \in Seq(Nat) /\ loads[1] \in Seq(Nat)
      BY DEF LoadsInv, FabricInv, CoreHolds, Core
    <3>2. Len(loads[0]) \in Nat /\ Len(loads[1]) \in Nat
      BY <3>1
    <3> QED BY <1>5, <3>2
  <2> QED BY <1>5, <2>1, NextKey DEF Core, Other
<1> QED BY <1>1, <1>2, <1>3, <1>4, <1>5

LEMMA InitLoads == Init => LoadsInv
<1> SUFFICES ASSUME Init PROVE LoadsInv
  OBVIOUS
<1>1. /\ arrived = <<>>
      /\ \A c \in Core : inq[c] = <<>> /\ loads[c] = <<>>
  BY DEF Init
<1>2. \A c \in Core : /\ \A n : ~InQueue(c, n) /\ ~Loaded(c, n) /\ ~Reached(c, n)
                      /\ InOrder(c)
  BY <1>1 DEF InOrder, InQueue, Loaded, Reached
<1>3. SameLoads
  BY <1>1 DEF SameLoads, Core
<1> QED BY <1>2, <1>3, InitFabric DEF LoadsInv, KeysTaken

LEMMA NextLoads == ASSUME ~CoresMayDiverge, LoadsInv, Next PROVE LoadsInv'
<1>1. PICK m_tready \in BOOLEAN : Cycle(m_tready)
  BY DEF Next
<1>2. FabricInv'
  BY NextFabric DEF LoadsInv
<1>3. ASSUME NEW c \in Core PROVE InOrder(c)' /\ KeysTaken(c)'
  BY <1>1, OrderStep, KeysStep DEF LoadsInv
<1>4. SameLoads'
  BY <1>1, SameLoadsStep
<1> QED BY <1>2, <1>3, <1>4 DEF LoadsInv

LEMMA LoadsStutter == ASSUME LoadsInv, UNCHANGED vars PROVE LoadsInv'
<1>1. FabricInv'
  BY FabricStutters DEF LoadsInv
<1>2. /\ arrived' = arrived /\ s_beat' = s_beat /\ s_next' = s_next /\ sent' = sent
      /\ inq' = inq /\ out' = out /\ loads' = loads
  BY DEF vars, sourceVars, dispatchVars, coreVars
<1>3. ASSUME NEW c \in Core
      PROVE  /\ \A n : /\ InQueue(c, n)' <=> InQueue(c, n)
                       /\ Loaded(c, n)' <=> Loaded(c, n)
                       /\ Reached(c, n)' <=> Reached(c, n)
                       /\ StreamBit(n)' <=> StreamBit(n)
             /\ offered(c)' <=> offered(c)
  BY <1>2 DEF InQueue, Loaded, Reached, StreamBit, offered, StillComing, Underway, s_tlast
<1>4. ASSUME NEW c \in Core PROVE InOrder(c)' /\ KeysTaken(c)'
  <2>1. InOrder(c) /\ KeysTaken(c)
    BY DEF LoadsInv
  <2> QED BY <1>2, <1>3, <2>1 DEF InOrder, KeysTaken
<1>5. SameLoads'
  BY <1>2 DEF LoadsInv, SameLoads
<1> QED BY <1>1, <1>4, <1>5 DEF LoadsInv

\* Sequences that agree where both are defined: one begins the other.
LEMMA OneBegins ==
  ASSUME NEW s \in Seq(Nat), NEW t \in Seq(Nat), Len(s) <= Len(t),
         \A k \in DOMAIN s : k \in DOMAIN t => s[k] = t[k]
  PROVE  IsPrefix(s, t)
<1> DEFINE p == SubSeq(t, 1, Len(s))
           q == SubSeq(s, 1, Len(s))
<1>1. DOMAIN s = 1..Len(s) /\ DOMAIN t = 1..Len(t) /\ Len(s) \in Nat /\ Len(t) \in Nat
  BY LenProperties
<1>2. /\ p \in Seq(Nat) /\ Len(p) = Len(s)
      /\ \A k \in 1..Len(s) : p[k] = t[k]
  BY <1>1, SubSeqProperties
<1>3. /\ q \in Seq(Nat) /\ Len(q) = Len(s)
      /\ \A k \in 1..Len(s) : q[k] = s[k]
  BY <1>1, SubSeqProperties
<1>4. \A k \in 1..Len(s) : p[k] = q[k]
  <2> SUFFICES ASSUME NEW k \in 1..Len(s) PROVE p[k] = q[k]
    OBVIOUS
  <2>1. k \in DOMAIN s /\ k \in DOMAIN t
    BY <1>1
  <2>2. s[k] = t[k]
    BY <2>1
  <2> HIDE DEF p, q
  <2> QED BY <1>2, <1>3, <2>2
<1>5. p = q
  <2> HIDE DEF p, q
  <2> QED BY <1>2, <1>3, <1>4, SeqEqual
<1> QED BY <1>5 DEF IsPrefix

\* When both engines judge a load alike, whatever their timing: one key store
\* holds what the other holds, in the same order, and at most is behind it,
\* because the fork of oca_dispatch gives both every load of the stream.
THEOREM KeyStoresNeverPart ==
  ~CoresMayDiverge => (Spec => []KeystoresAgree)
<1> SUFFICES ASSUME ~CoresMayDiverge PROVE Spec => []KeystoresAgree
  OBVIOUS
<1>1. LoadsInv /\ [Next]_vars => LoadsInv'
  BY NextLoads, LoadsStutter
<1>2. LoadsInv => KeystoresAgree
  <2> SUFFICES ASSUME LoadsInv PROVE KeystoresAgree
    OBVIOUS
  <2>1. loads[0] \in Seq(Nat) /\ loads[1] \in Seq(Nat)
    BY DEF LoadsInv, FabricInv, CoreHolds, Core
  <2>2. Len(loads[0]) \in Nat /\ Len(loads[1]) \in Nat
    BY <2>1
  <2>3. /\ \A k \in DOMAIN loads[0] : k \in DOMAIN loads[1] => loads[0][k] = loads[1][k]
        /\ \A k \in DOMAIN loads[1] : k \in DOMAIN loads[0] => loads[1][k] = loads[0][k]
    BY DEF LoadsInv, SameLoads
  <2>4. CASE Len(loads[0]) <= Len(loads[1])
    BY <2>1, <2>3, <2>4, OneBegins DEF KeystoresAgree
  <2>5. CASE Len(loads[1]) <= Len(loads[0])
    BY <2>1, <2>3, <2>5, OneBegins DEF KeystoresAgree
  <2> QED BY <2>2, <2>4, <2>5
<1> QED BY <1>1, <1>2, InitLoads, PTL DEF Spec
-----------------------------------------------------------------------------
(* The merge: one reply for the two answers to a load.                      *)

Holding(c, n) == InQueue(c, n) \/ (offered(c) /\ out[c].id = n)
Replied(n) == \E k \in DOMAIN replies : replies[k].id = n
Acknowledged(n) == \E k \in DOMAIN replies : replies[k].id = n /\ replies[k].status = "OK"

\* A broadcast's reply leaves in one beat: core 0's half is never done first.
MergeOk ==
  /\ c_state # "C_PASS" => leaving = <<>>
  /\ c_state = "C_PASS" => /\ ~StreamBit(out[c_src].id)
                           /\ leaving # <<>> => leaving[1].id = out[c_src].id
  /\ c_state = "C_BCAST" => ~fwd_done /\ fwd_first /\ (~drn_done => out[1].id = out[0].id)
  /\ c_state = "C_BCAST" => \A n : n = out[0].id =>
       /\ drn_done => Reached(1, n) /\ ~Holding(1, n)
       /\ merged_status = "OK" => \A c \in Core : Loaded(c, n)

\* A load that reached a core is held, half answered or replied to; one that
\* is replied to reached both and is held by neither.
NoLoadLost(c, n) ==
  StreamBit(n) =>
    /\ Reached(c, n) => Holding(c, n) \/ Replied(n) \/ (half_done(c) /\ out[0].id = n)
    /\ Replied(n) => Reached(c, n) /\ ~Holding(c, n)

RepliesOk ==
  /\ \E S : replies \in Seq(S)
  /\ \E S : leaving \in Seq(S)
  /\ \A n : Replied(n) => n \in DOMAIN arrived
  /\ \A n : Acknowledged(n) /\ StreamBit(n) => \A c \in Core : Loaded(c, n)

Merging(n) == StreamBit(n) /\ (Replied(n) \/ (c_state = "C_BCAST" /\ out[0].id = n))
Split(n) == \E c \in Core : Loaded(c, n) /\ ~Loaded(Other(c), n)

CoresInv == TagsInv /\ \A c \in Core : InOrder(c) /\ Answer(c)
Tracks == /\ MergeOk /\ RepliesOk /\ \A c \in Core : \A n : NoLoadLost(c, n)
          /\ trouble <=> \E n : Merging(n) /\ Split(n)
MergeInv == CoresInv /\ Tracks

\* What a core holds, a cycle on.
LEMMA HoldingMoves ==
  ASSUME CoresInv, NEW m_tready \in BOOLEAN, Cycle(m_tready), NEW c \in Core
  PROVE  /\ \A n : Holding(c, n) => Reached(c, n)
         /\ \A n : Reached(c, n) => /\ Reached(c, n)' /\ n \in DOMAIN arrived /\ n \in Nat
                                    /\ ~Holding(c, n) => ~Holding(c, n)'
                                    /\ ~InQueue(c, n) => (Loaded(c, n)' <=> Loaded(c, n))
         /\ \A n : Holding(c, n) => Holding(c, n)' \/ (ends(c, m_tready) /\ out[c].id = n)
         /\ offered(c) => Reached(c, out[c].id) /\ ~InQueue(c, out[c].id)
         /\ \A n : ends(c, m_tready) /\ offered(c) /\ out[c].id = n => ~Holding(c, n)'
         /\ \A n : Loaded(c, n) => Loaded(c, n)'
         /\ \A n : Reached(c, n)' /\ StreamBit(n)' => Reached(c, n) \/ Holding(c, n)'
<1>1. /\ FabricInv /\ Stream /\ Dispatched /\ TagRoom /\ CoreHolds(c) /\ InOrder(c)
      /\ SOURCE /\ DISPATCH /\ CORES(m_tready)
  BY DEF CoresInv, TagsInv, FabricInv, Cycle
<1>2. PICK d \in {0, 1} : Answering(c, m_tready, d)
  BY <1>1, HeldStep
<1>3. PICK e : e = out'[c].id
  OBVIOUS
<1>4. PICK a : a = out[c].id
  OBVIOUS
<1>5. /\ \A n : Reached(c, n) => Reached(c, n)' /\ n \in Nat
      /\ taken(c) => \A n : Reached(c, n) => n < Len(arrived)
      /\ Len(arrived) \in Nat
  BY <1>1, ReachedStep DEF Stream
<1>6. /\ \A n : InQueue(c, n)' => InQueue(c, n) \/ (taken(c) /\ s_tlast /\ n = Len(arrived))
      /\ \A n : InQueue(c, n) => InQueue(c, n)' \/ (d = 1 /\ n = e)
      /\ taken(c) /\ s_tlast => \A n : n = Len(arrived) => InQueue(c, n)'
      /\ d = 1 => InQueue(c, e) /\ offered(c)'
      /\ \A n : InQueue(c, n) => Reached(c, n)
  BY <1>1, <1>2, <1>3, QueueMoves
<1>7. /\ \A n : Loaded(c, n) => Loaded(c, n)'
      /\ \A n : Loaded(c, n)' => Loaded(c, n) \/ (d = 1 /\ n = e)
  BY <1>1, <1>2, <1>3, LoadMoves
<1>8. /\ offered(c) => Reached(c, a) /\ ~InQueue(c, a)
      /\ d = 0 /\ offered(c)' => offered(c) /\ e = a /\ ~ends(c, m_tready)
      /\ offered(c) /\ ~ends(c, m_tready) => offered(c)' /\ e = a
  <2>1. offered(c) => Reached(c, a)
    BY <1>1, <1>4 DEF CoreHolds
  <2>2. offered(c) => ~InQueue(c, a)
    BY <1>1, <1>4, <1>5, <2>1 DEF InOrder
  <2>3. d = 0 /\ offered(c)' => offered(c) /\ e = a /\ ~ends(c, m_tready)
    BY <1>1, <1>2, <1>3, <1>4, OutAfterFacts DEF Answering, offered, ends
  <2>4. offered(c) /\ ~ends(c, m_tready) => offered(c)' /\ e = a
    BY <1>1, <1>3, <1>4, OfferStays
  <2> QED BY <2>1, <2>2, <2>3, <2>4
<1>9. \A n : /\ Holding(c, n) <=> InQueue(c, n) \/ (offered(c) /\ a = n)
             /\ Holding(c, n)' <=> InQueue(c, n)' \/ (offered(c)' /\ e = n)
  BY <1>3, <1>4 DEF Holding, InQueue, offered
<1>10. \A n : Reached(c, n)' /\ StreamBit(n)' =>
         Reached(c, n) \/ (taken(c) /\ s_tlast /\ n = Len(arrived))
  BY <1>1, LoadReached
<1>11. \A n : Reached(c, n) => n \in DOMAIN arrived
  BY DEF Reached
<1>12. /\ \A n : Reached(c, n) /\ ~Holding(c, n) => ~Holding(c, n)'
       /\ ends(c, m_tready) /\ offered(c) => ~Holding(c, a)'
  BY <1>5, <1>6, <1>8, <1>9
<1>13. /\ \A n : Holding(c, n) => Reached(c, n)
       /\ \A n : Holding(c, n) => Holding(c, n)' \/ (ends(c, m_tready) /\ a = n)
  BY <1>6, <1>8, <1>9
<1>14. \A n : ends(c, m_tready) /\ offered(c) /\ out[c].id = n => ~Holding(c, n)'
  BY <1>4, <1>12
<1> QED BY <1>4, <1>5, <1>6, <1>7, <1>8, <1>9, <1>10, <1>11, <1>12, <1>13, <1>14

\* A reply that leaves joins the others.
LEMMA ReplyJoins ==
  ASSUME NEW S, replies \in Seq(S), NEW r, replies' = Append(replies, r)
  PROVE  /\ \E T : replies' \in Seq(T)
         /\ \A n : Replied(n)' <=> Replied(n) \/ n = r.id
         /\ \A n : Acknowledged(n)' <=> Acknowledged(n) \/ (n = r.id /\ r.status = "OK")
<1> DEFINE T == S \cup {r}
<1>1. replies \in Seq(T) /\ r \in T
  OBVIOUS
<1>2. /\ DOMAIN replies = 1..Len(replies) /\ Len(replies) \in Nat
      /\ DOMAIN replies' = 1..Len(replies') /\ Len(replies') = Len(replies) + 1
      /\ replies' \in Seq(T)
  BY <1>1, AppendProperties, LenProperties
<1>3. /\ \A k \in 1..Len(replies) : replies'[k] = replies[k]
      /\ replies'[Len(replies) + 1] = r
  BY <1>1, AppendProperties
<1>4. \A k \in DOMAIN replies' : k = Len(replies) + 1 \/ k \in DOMAIN replies
  BY <1>2
<1>5. /\ Len(replies) + 1 \in DOMAIN replies'
      /\ \A k \in DOMAIN replies : k \in DOMAIN replies'
  BY <1>2
<1> QED BY <1>2, <1>3, <1>4, <1>5 DEF Replied, Acknowledged
\* Two answers to loads that stand at the head together answer one load: a
\* core cannot have skipped a load the other still has on offer.
LEMMA HeadsAreOne ==
  ASSUME MergeInv, c_state # "C_BCAST",
         \A c \in Core : offered(c) /\ StreamBit(out[c].id)
  PROVE  out[0].id = out[1].id
<1>1. /\ Stream
      /\ \A c \in Core : CoreHolds(c) /\ InOrder(c)
      /\ \A c \in Core : \A n : NoLoadLost(c, n)
      /\ 0 \in Core /\ 1 \in Core
  BY DEF MergeInv, Tracks, CoresInv, TagsInv, FabricInv, Core
<1>2. \A c \in Core : Reached(c, out[c].id) /\ out[c].id \in Nat /\ Holding(c, out[c].id)
  BY <1>1 DEF CoreHolds, Reached, Stream, Holding
<1>3. ASSUME NEW c \in Core, NEW k \in Core, out[c].id < out[k].id PROVE FALSE
  <2> DEFINE n == out[c].id
  <2>1. Reached(k, n)
    BY <1>1, <1>2, <1>3, ReachedBelow
  <2>2. Holding(k, n) \/ Replied(n)
    BY <1>1, <2>1 DEF NoLoadLost, half_done
  <2>3. ~Replied(n)
    BY <1>1, <1>2 DEF NoLoadLost
  <2>4. ~InQueue(k, n)
    <3>1. InQueue(k, n) => out[k].id < n
      BY <1>1 DEF InOrder
    <3> QED BY <1>2, <1>3, <3>1
  <2>5. out[k].id # n
    BY <1>2, <1>3
  <2> QED BY <2>2, <2>3, <2>4, <2>5 DEF Holding
<1> QED BY <1>1, <1>2, <1>3

\* A load being merged is done with by both cores' queues: whether they agree
\* on it is settled.
LEMMA Settled ==
  ASSUME MergeInv, NEW n, Merging(n)
  PROVE  \A c \in Core : Reached(c, n) /\ ~InQueue(c, n)
<1>1. /\ Collecting /\ MergeOk
      /\ \A c \in Core : CoreHolds(c) /\ InOrder(c) /\ NoLoadLost(c, n)
  BY DEF MergeInv, Tracks, CoresInv, TagsInv, FabricInv
<1>2. CASE Replied(n)
  BY <1>1, <1>2 DEF Merging, NoLoadLost, Holding
<1>3. CASE c_state = "C_BCAST" /\ out[0].id = n
  <2>1. ASSUME NEW c \in Core, offered(c), out[c].id = n
        PROVE  Reached(c, n) /\ ~InQueue(c, n)
    <3>1. Reached(c, n) /\ n \in Nat
      BY <1>1, <2>1 DEF CoreHolds, Reached, MergeInv, Tracks, CoresInv, TagsInv, FabricInv, Stream
    <3>2. InQueue(c, n) => n < n
      BY <1>1, <2>1 DEF InOrder
    <3> QED BY <3>1, <3>2
  <2>2. 0 \in Core /\ 1 \in Core /\ \A c \in Core : c = 0 \/ c = 1
    BY DEF Core
  <2>3. offered(0)
    BY <1>1, <1>3, <2>2 DEF Collecting, MergeOk, half_done
  <2>4. CASE drn_done
    BY <1>1, <1>3, <2>1, <2>2, <2>3, <2>4 DEF MergeOk, Holding
  <2>5. CASE ~drn_done
    <3>1. offered(1) /\ out[1].id = n
      BY <1>1, <1>3, <2>2, <2>5 DEF Collecting, MergeOk, half_done
    <3> QED BY <1>3, <2>1, <2>2, <2>3, <3>1
  <2> QED BY <2>4, <2>5
<1> QED BY <1>2, <1>3 DEF Merging
\* The loads stay accounted for, if what a cycle ends it replies to or
\* remembers as half done.
LEMMA KeepsTrack ==
  ASSUME MergeInv, NEW m_tready \in BOOLEAN, Cycle(m_tready), NEW c \in Core, NEW n,
         Replied(n) => Replied(n)',
         Replied(n)' => n \in DOMAIN arrived,
         Replied(n)' /\ StreamBit(n) => Replied(n) \/ (Reached(c, n) /\ ~Holding(c, n)'),
         ends(c, m_tready) /\ offered(c) /\ out[c].id = n /\ StreamBit(n) =>
           Replied(n)' \/ (half_done(c)' /\ out'[0].id = n),
         half_done(c) /\ out[0].id = n => Replied(n)' \/ (half_done(c)' /\ out'[0].id = n)
  PROVE  NoLoadLost(c, n)'
<1>1. /\ CoresInv /\ Stream /\ SOURCE /\ NoLoadLost(c, n)
  BY DEF MergeInv, Tracks, CoresInv, TagsInv, FabricInv, Cycle
<1>2. n \in DOMAIN arrived => (StreamBit(n)' <=> StreamBit(n))
  BY <1>1, FramesStay
<1>3. /\ Holding(c, n) => Reached(c, n)
      /\ Reached(c, n) => /\ Reached(c, n)' /\ n \in DOMAIN arrived
                          /\ ~Holding(c, n) => ~Holding(c, n)'
      /\ Holding(c, n) => Holding(c, n)' \/ (ends(c, m_tready) /\ out[c].id = n)
      /\ Reached(c, n)' /\ StreamBit(n)' => Reached(c, n) \/ Holding(c, n)'
  BY <1>1, HoldingMoves
<1>4. ends(c, m_tready) => offered(c)
  BY DEF ends, popped
<1>5. ASSUME StreamBit(n)', Reached(c, n)'
      PROVE  Holding(c, n)' \/ Replied(n)' \/ (half_done(c)' /\ out'[0].id = n)
  <2>1. CASE Reached(c, n)
    <3>1. StreamBit(n)
      BY <1>2, <1>3, <1>5, <2>1
    <3>2. Holding(c, n) \/ Replied(n) \/ (half_done(c) /\ out[0].id = n)
      BY <1>1, <2>1, <3>1 DEF NoLoadLost
    <3> QED BY <1>3, <1>4, <3>1, <3>2
  <2>2. CASE Holding(c, n)'
    BY <2>2
  <2> QED BY <1>3, <1>5, <2>1, <2>2
<1>6. ASSUME StreamBit(n)', Replied(n)' PROVE Reached(c, n)' /\ ~Holding(c, n)'
  <2>1. StreamBit(n)
    BY <1>2, <1>6
  <2>2. CASE Replied(n)
    BY <1>1, <1>3, <2>1, <2>2 DEF NoLoadLost
  <2> QED BY <1>3, <1>6, <2>1, <2>2
<1>7. /\ StreamBit(n)' /\ Reached(c, n)' => Holding(c, n)' \/ Replied(n)' \/ (half_done(c)' /\ out'[0].id = n)
      /\ StreamBit(n)' /\ Replied(n)' => Reached(c, n)' /\ ~Holding(c, n)'
  BY <1>5, <1>6
<1> HIDE <1>1, <1>3, <1>5, <1>6
<1> QED BY <1>7 DEF NoLoadLost

\* Whether the cores agree on a load being merged does not change.
LEMMA SplitStays ==
  ASSUME MergeInv, NEW m_tready \in BOOLEAN, Cycle(m_tready), NEW n, Merging(n)
  PROVE  (Split(n)' <=> Split(n)) /\ n \in DOMAIN arrived /\ StreamBit(n)'
<1>1. \A c \in Core : Reached(c, n) /\ ~InQueue(c, n)
  BY Settled
<1>2. \A c \in Core : (Loaded(c, n)' <=> Loaded(c, n)) /\ n \in DOMAIN arrived
  BY <1>1, HoldingMoves DEF MergeInv, Tracks
<1>3. \A c \in Core : Other(c) \in Core
  BY DEF Core, Other
<1>4. StreamBit(n)'
  BY <1>2, FramesStay DEF Cycle, MergeInv, Tracks, CoresInv, TagsInv, FabricInv, Merging, Core
<1> QED BY <1>2, <1>3, <1>4 DEF Split, Core

\* No reply is acknowledged that the cores do not both hold, if no reply that
\* leaves is.
LEMMA RepliesKept ==
  ASSUME MergeInv, NEW m_tready \in BOOLEAN, Cycle(m_tready),
         \E S : leaving' \in Seq(S),
         \/ replies' = replies
         \/ \E r : /\ replies' = Append(replies, r) /\ r.id \in DOMAIN arrived
                   /\ StreamBit(r.id) /\ r.status = "OK" => \A c \in Core : Loaded(c, r.id)
  PROVE  RepliesOk'
<1>1. RepliesOk /\ CoresInv /\ Stream /\ SOURCE
  BY DEF MergeInv, Tracks, CoresInv, TagsInv, FabricInv, Cycle
<1>2. \A n \in DOMAIN arrived : n \in DOMAIN arrived' /\ (StreamBit(n)' <=> StreamBit(n))
  BY <1>1, FramesStay
<1>3. \A c \in Core : \A n : Loaded(c, n) => Loaded(c, n)'
  BY <1>1, HoldingMoves
<1>4. CASE replies' = replies
  <2>1. \A n : (Replied(n)' <=> Replied(n)) /\ (Acknowledged(n)' <=> Acknowledged(n))
    BY <1>4 DEF Replied, Acknowledged
  <2>2. \A n : Acknowledged(n) => Replied(n)
    BY DEF Replied, Acknowledged
  <2> QED BY <1>1, <1>2, <1>3, <1>4, <2>1, <2>2 DEF RepliesOk
<1>5. CASE \E r : /\ replies' = Append(replies, r) /\ r.id \in DOMAIN arrived
                  /\ StreamBit(r.id) /\ r.status = "OK" => \A c \in Core : Loaded(c, r.id)
  <2>1. PICK r : /\ replies' = Append(replies, r) /\ r.id \in DOMAIN arrived
                 /\ StreamBit(r.id) /\ r.status = "OK" => \A c \in Core : Loaded(c, r.id)
    BY <1>5
  <2>2. PICK S : replies \in Seq(S)
    BY <1>1 DEF RepliesOk
  <2>3. /\ \E T : replies' \in Seq(T)
        /\ \A n : Replied(n)' <=> Replied(n) \/ n = r.id
        /\ \A n : Acknowledged(n)' <=> Acknowledged(n) \/ (n = r.id /\ r.status = "OK")
    BY <2>1, <2>2, ReplyJoins
  <2>4. ASSUME NEW n, Acknowledged(n)', StreamBit(n)', NEW c \in Core PROVE Loaded(c, n)'
    <3>1. CASE n = r.id /\ r.status = "OK"
      BY <1>2, <1>3, <2>1, <2>4, <3>1
    <3>2. CASE Acknowledged(n)
      <4>1. Replied(n)
        BY <3>2 DEF Acknowledged, Replied
      <4> QED BY <1>1, <1>2, <1>3, <2>4, <3>2, <4>1 DEF RepliesOk
    <3> QED BY <2>3, <2>4, <3>1, <3>2
  <2>5. \A n : Replied(n)' => n \in DOMAIN arrived'
    BY <1>1, <1>2, <2>1, <2>3 DEF RepliesOk
  <2> QED BY <2>3, <2>4, <2>5 DEF RepliesOk
<1> QED BY <1>4, <1>5

\* While a broadcast is merged: core 1's answer is drained in its first cycle,
\* core 0's leaves when the sink takes it.
LEMMA Merges ==
  ASSUME MergeInv, NEW m_tready \in BOOLEAN, c_state = "C_BCAST"
  PROVE  /\ offered(0) /\ StreamBit(out[0].id) /\ ~fwd_done
         /\ outlast(0) /\ (popped(0, m_tready) <=> m_tready)
         /\ popped(1, m_tready) <=> ~drn_done
         /\ ~drn_done => offered(1) /\ outlast(1) /\ out[1].id = out[0].id
         /\ bcast_done(m_tready) <=> m_tready
<1>1. /\ Collecting /\ MergeOk /\ 0 \in Core /\ 1 \in Core
      /\ \A c \in Core : CoreHolds(c) /\ Answer(c)
  BY DEF MergeInv, Tracks, CoresInv, TagsInv, FabricInv, Core
<1>2. /\ ~fwd_done /\ offered(0) /\ StreamBit(out[0].id)
      /\ ~drn_done => offered(1) /\ StreamBit(out[1].id) /\ out[1].id = out[0].id
  BY <1>1 DEF Collecting, MergeOk, half_done
<1>3. ASSUME NEW c \in Core, offered(c), StreamBit(out[c].id) PROVE outlast(c)
  <2>1. out[c].len = 1 /\ out[c].at \in Nat /\ out[c].at <= 1 /\ out[c].at # 0
    BY <1>1, <1>3 DEF Answer, CoreHolds, offered
  <2> QED BY <2>1 DEF outlast
<1>4. /\ popped(0, m_tready) <=> m_tready
      /\ popped(1, m_tready) <=> ~drn_done
  BY <1>2 DEF popped
<1> QED BY <1>1, <1>2, <1>3, <1>4 DEF bcast_done
\* Nothing is merged or unmerged: `trouble` still says what it said.
LEMMA TroubleKept ==
  ASSUME MergeInv, NEW m_tready \in BOOLEAN, Cycle(m_tready), trouble' <=> trouble,
         \A n : Merging(n)' <=> Merging(n)
  PROVE  trouble' <=> \E n : Merging(n)' /\ Split(n)'
<1>1. trouble <=> \E n : Merging(n) /\ Split(n)
  BY DEF MergeInv, Tracks
<1>2. \A n : Merging(n) => (Split(n)' <=> Split(n))
  BY SplitStays
<1> QED BY <1>1, <1>2

\* A cycle in which no load is answered or merged.
LEMMA QuietStep ==
  ASSUME MergeInv, NEW m_tready \in BOOLEAN, Cycle(m_tready),
         c_state # "C_BCAST", c_state' # "C_BCAST", ~diverged, MergeOk',
         \E S : leaving' \in Seq(S),
         \A c \in Core : ends(c, m_tready) => ~StreamBit(out[c].id),
         \/ replies' = replies
         \/ \E r : replies' = Append(replies, r) /\ r.id \in DOMAIN arrived /\ ~StreamBit(r.id)
  PROVE  Tracks'
<1>1. RepliesOk'
  BY RepliesKept
<1>2. /\ RepliesOk /\ CoresInv /\ TagRoom /\ Stream /\ SOURCE /\ COLLECT(m_tready)
  BY DEF MergeInv, Tracks, CoresInv, TagsInv, FabricInv, Cycle
<1>3. /\ \A n : Replied(n) => Replied(n)'
      /\ \A n : Replied(n)' => Replied(n) \/ (n \in DOMAIN arrived /\ ~StreamBit(n))
  <2>1. CASE replies' = replies
    BY <2>1 DEF Replied
  <2>2. CASE \E r : /\ replies' = Append(replies, r) /\ r.id \in DOMAIN arrived
                    /\ ~StreamBit(r.id)
    <3>1. PICK r : /\ replies' = Append(replies, r) /\ r.id \in DOMAIN arrived
                   /\ ~StreamBit(r.id)
      BY <2>2
    <3>2. PICK S : replies \in Seq(S)
      BY <1>2 DEF RepliesOk
    <3>3. \A n : Replied(n)' <=> Replied(n) \/ n = r.id
      BY <3>1, <3>2, ReplyJoins
    <3> QED BY <3>1, <3>3
  <2> QED BY <2>1, <2>2
<1>4. \A n : Replied(n) => n \in DOMAIN arrived
  BY <1>2 DEF RepliesOk
<1>5. ASSUME NEW c \in Core, NEW n PROVE NoLoadLost(c, n)'
  <2>1. ~half_done(c)
    BY DEF half_done
  <2> QED BY <1>3, <1>4, <2>1, KeepsTrack
<1>6. trouble' <=> trouble
  BY <1>2 DEF COLLECT, TagRoom
<1>7. \A n : Merging(n)' <=> Merging(n)
  <2> SUFFICES ASSUME NEW n PROVE Merging(n)' <=> Merging(n)
    OBVIOUS
  <2>1. n \in DOMAIN arrived => (StreamBit(n)' <=> StreamBit(n))
    BY <1>2, FramesStay
  <2>2. Merging(n)' <=> StreamBit(n)' /\ Replied(n)'
    BY DEF Merging
  <2>3. Merging(n) <=> StreamBit(n) /\ Replied(n)
    BY DEF Merging
  <2> QED BY <1>3, <1>4, <2>1, <2>2, <2>3
<1>8. trouble' <=> \E n : Merging(n)' /\ Split(n)'
  BY <1>6, <1>7, TroubleKept
<1> QED BY <1>1, <1>5, <1>8 DEF Tracks

\* The beats of a reply on its way out.
LEMMA BeatLeaves ==
  ASSUME NEW S, leaving \in Seq(S), NEW b
  PROVE  /\ \E T : Append(leaving, b) \in Seq(T)
         /\ Append(leaving, b) # <<>>
         /\ Append(leaving, b)[1] = IF leaving = <<>> THEN b ELSE leaving[1]
<1> DEFINE T == S \cup {b}
           t == Append(leaving, b)
<1>1. leaving \in Seq(T) /\ b \in T /\ Len(leaving) \in Nat
  BY LenProperties
<1>2. /\ t \in Seq(T) /\ Len(t) = Len(leaving) + 1 /\ t[Len(leaving) + 1] = b
      /\ \A k \in 1..Len(leaving) : t[k] = leaving[k]
  BY <1>1, AppendProperties
<1>3. leaving # <<>> => 1 \in 1..Len(leaving)
  BY <1>1, EmptySeq
<1>4. leaving = <<>> => Len(leaving) = 0
  OBVIOUS
<1>5. t # <<>>
  <2>1. Len(t) # 0
    BY <1>1, <1>2
  <2> QED BY <1>2, <2>1, EmptySeq
<1> HIDE DEF t
<1>6. t[1] = IF leaving = <<>> THEN b ELSE leaving[1]
  BY <1>2, <1>3, <1>4
<1> QED BY <1>2, <1>5, <1>6 DEF t

LEMMA StartPassStep ==
  ASSUME MergeInv, NEW m_tready \in BOOLEAN, Cycle(m_tready), CStartPass
  PROVE  Tracks'
<1>1. PICK c \in Core : /\ c_state = "C_IDLE" /\ c_state' = "C_PASS" /\ c_src' = c
                        /\ serves(c) /\ ~both_bcast
  BY DEF CStartPass, BcastOnBoth
<1>2. /\ FabricInv /\ tags[c] \o Record(c) = Owed(c) /\ MergeOk /\ RepliesOk
      /\ SINK(m_tready)
  BY DEF MergeInv, Tracks, CoresInv, TagsInv, TagsDescribe, Record, Cycle
<1>3. /\ cand(c) /\ ~Head(tags[c]) /\ offered(c) /\ ~half_done(c) /\ ~ends(c, m_tready)
  BY <1>1 DEF serves, sel, cand, half_done, ends, popped
<1>4. ~StreamBit(out[c].id)
  BY <1>2, <1>3, HeadMeans
<1>5. /\ \A k \in Core : ~popped(k, m_tready)
      /\ UNCHANGED sinkVars
  BY <1>1, <1>2 DEF popped, SINK, m_fire
<1>6. leaving' = <<>> /\ replies' = replies
  BY <1>1, <1>2, <1>5 DEF MergeOk, sinkVars
<1>7. MergeOk'
  <2>1. ~StreamBit(out[c].id)' /\ out'[c].id = out[c].id
    BY <1>2, <1>3, <1>4, OfferStays
  <2>2. ~StreamBit(out[c_src].id)'
    BY <1>1, <2>1 DEF StreamBit
  <2> QED BY <1>1, <1>6, <2>2 DEF MergeOk
<1>8. \E S : leaving' \in Seq(S)
  BY <1>2, <1>5 DEF sinkVars, RepliesOk
<1> QED BY <1>1, <1>5, <1>6, <1>7, <1>8, QuietStep DEF ends, diverged

LEMMA IdleStep ==
  ASSUME MergeInv, NEW m_tready \in BOOLEAN, Cycle(m_tready), CIdle
  PROVE  Tracks'
<1>1. /\ c_state = "C_IDLE" /\ c_state' = "C_IDLE" /\ ~both_bcast
  BY DEF CIdle, BcastOnBoth
<1>2. MergeOk /\ RepliesOk /\ SINK(m_tready)
  BY DEF MergeInv, Tracks, Cycle
<1>3. /\ \A k \in Core : ~popped(k, m_tready)
      /\ leaving' = leaving /\ replies' = replies
  BY <1>1, <1>2 DEF popped, SINK, m_fire, sinkVars
<1>4. MergeOk' /\ \E S : leaving' \in Seq(S)
  BY <1>1, <1>2, <1>3 DEF MergeOk, RepliesOk
<1> QED BY <1>1, <1>3, <1>4, QuietStep DEF ends, diverged
LEMMA PassStep ==
  ASSUME MergeInv, NEW m_tready \in BOOLEAN, Cycle(m_tready), CPass(m_tready)
  PROVE  Tracks'
<1>1. /\ FabricInv /\ Collecting /\ MergeOk /\ RepliesOk /\ SINK(m_tready)
      /\ SOURCE /\ Stream
  BY DEF MergeInv, Tracks, CoresInv, TagsInv, FabricInv, Cycle
<1>2. PICK c \in Core : c = c_src
  BY <1>1 DEF Collecting
<1>3. /\ c_state = "C_PASS" /\ c_src' = c /\ offered(c) /\ ~StreamBit(out[c].id)
      /\ c_state' = IF ends(c, m_tready) THEN "C_IDLE" ELSE "C_PASS"
      /\ leaving # <<>> => leaving[1].id = out[c].id
      /\ \A k \in Core : popped(k, m_tready) => k = c
      /\ m_src = c /\ (m_fire(m_tready) <=> popped(c, m_tready))
  BY <1>1, <1>2 DEF CPass, ends, Collecting, MergeOk, popped, m_src, m_fire
<1>4. /\ DOMAIN out[c] = DOMAIN NoOut /\ out[c].id \in DOMAIN arrived
  BY <1>1, <1>3 DEF FabricInv, CoreHolds, Reached
<1> DEFINE left == Append(leaving, m_beat)
<1>5. m_beat.id = out[c].id
  BY <1>3, <1>4 DEF m_beat, NoOut
<1>6. PICK S : leaving \in Seq(S)
  BY <1>1 DEF RepliesOk
<1>7. (\E T : left \in Seq(T)) /\ left # <<>> /\ left[1].id = out[c].id
  <2>1. left[1] = IF leaving = <<>> THEN m_beat ELSE leaving[1]
    BY <1>6, BeatLeaves
  <2> QED BY <1>3, <1>5, <1>6, <2>1, BeatLeaves
<1>8. CASE ~popped(c, m_tready)
  <2>1. leaving' = leaving /\ replies' = replies /\ ~ends(c, m_tready)
    BY <1>1, <1>3, <1>8 DEF SINK, sinkVars, ends
  <2>2. ~StreamBit(out[c].id)' /\ out'[c].id = out[c].id
    BY <1>1, <1>3, <2>1, OfferStays
  <2>3. MergeOk'
    BY <1>3, <2>1, <2>2 DEF MergeOk, StreamBit
  <2> QED BY <1>3, <1>6, <2>1, <2>3, QuietStep DEF ends, diverged
<1>9. CASE popped(c, m_tready) /\ ~outlast(c)
  <2>1. leaving' = left /\ replies' = replies /\ ~ends(c, m_tready)
    BY <1>1, <1>3, <1>9 DEF SINK, ends
  <2>2. ~StreamBit(out[c].id)' /\ out'[c].id = out[c].id
    BY <1>1, <1>3, <2>1, OfferStays
  <2> HIDE DEF left
  <2>3. MergeOk'
    BY <1>3, <1>7, <2>1, <2>2 DEF MergeOk, StreamBit
  <2> QED BY <1>3, <1>7, <2>1, <2>3, QuietStep DEF ends, diverged
<1>10. CASE popped(c, m_tready) /\ outlast(c)
  <2> DEFINE from == out[m_src]
             r == [id |-> left[1].id, status |-> left[1].status, key |-> left[1].key,
                   whole |-> /\ from.intact
                             /\ Len(left) = from.len
                             /\ \A b \in DOMAIN left : left[b].id = from.id /\ left[b].at = b]
  <2>1. leaving' = <<>> /\ replies' = Append(replies, r) /\ c_state' = "C_IDLE"
    BY <1>1, <1>3, <1>10 DEF SINK, ends
  <2>2. r.id = out[c].id
    BY <1>7
  <2> HIDE DEF r
  <2>3. MergeOk'
    BY <2>1 DEF MergeOk
  <2>4. \E T : leaving' \in Seq(T)
    <3>1. <<>> \in Seq(Nat)
      OBVIOUS
    <3> QED BY <2>1, <3>1
  <2>5. replies' = Append(replies, r) /\ r.id \in DOMAIN arrived /\ ~StreamBit(r.id)
    BY <1>3, <1>4, <2>1, <2>2
  <2> QED BY <1>3, <2>1, <2>3, <2>4, <2>5, QuietStep DEF ends, diverged
<1> QED BY <1>8, <1>9, <1>10

LEMMA StartBcastStep ==
  ASSUME MergeInv, NEW m_tready \in BOOLEAN, Cycle(m_tready), CStartBcast
  PROVE  Tracks'
<1>1. /\ CoresInv /\ FabricInv /\ MergeOk /\ RepliesOk /\ SINK(m_tready) /\ COLLECT(m_tready)
      /\ SOURCE /\ Stream /\ TagRoom
      /\ \A c \in Core : tags[c] \o Record(c) = Owed(c) /\ Answer(c)
  BY DEF MergeInv, Tracks, CoresInv, TagsInv, FabricInv, TagsDescribe, Record, Cycle
<1>2. /\ c_state = "C_IDLE" /\ c_state' = "C_BCAST" /\ both_bcast
      /\ ~fwd_done' /\ ~drn_done' /\ fwd_first'
      /\ merged_status' = IF out[0].status # "OK" THEN out[0].status ELSE out[1].status
  BY DEF CStartBcast, BcastOnBoth, MergeFailsClosed
<1>3. 0 \in Core /\ 1 \in Core /\ \A c \in Core : c = 0 \/ c = 1
  BY DEF Core
<1>4. ASSUME NEW c \in Core
      PROVE  /\ offered(c) /\ ~half_done(c) /\ ~popped(c, m_tready) /\ ~ends(c, m_tready)
             /\ StreamBit(out[c].id)
  <2>1. cand(c) /\ Head(tags[c]) /\ ~half_done(c) /\ offered(c) /\ ~popped(c, m_tready)
    BY <1>2 DEF both_bcast, half_done, cand, popped
  <2> QED BY <1>1, <2>1, HeadMeans DEF ends
<1>5. leaving' = <<>> /\ replies' = replies
  BY <1>1, <1>2, <1>3, <1>4 DEF SINK, m_fire, sinkVars, MergeOk
<1>6. PICK n : n = out[0].id
  OBVIOUS
<1>7. n = out[1].id
  BY <1>2, <1>4, <1>6, HeadsAreOne
<1>8. ASSUME NEW c \in Core
      PROVE  /\ out[c].id = n /\ out'[c].id = n /\ StreamBit(n)' /\ StreamBit(n)
             /\ \A m : Loaded(c, m)' <=> Loaded(c, m)
             /\ out[c].status \in {"OK", "BAD"} /\ (out[c].status = "OK" <=> Loaded(c, n))
  <2>1. out[c].id = n
    BY <1>3, <1>6, <1>7
  <2>2. out'[c].id = n /\ loads'[c] = loads[c] /\ (StreamBit(n)' <=> StreamBit(n))
    <3>1. /\ out'[c].id = out[c].id /\ loads'[c] = loads[c]
          /\ StreamBit(out[c].id)' <=> StreamBit(out[c].id)
      BY <1>1, <1>4, OfferStays
    <3> QED BY <2>1, <3>1 DEF StreamBit
  <2>3. /\ out[c].status \in {"OK", "BAD"} /\ (out[c].status = "OK" <=> Loaded(c, n))
        /\ StreamBit(n)
    BY <1>1, <1>4, <2>1 DEF Answer
  <2> QED BY <2>1, <2>2, <2>3 DEF Loaded
<1>9. MergeOk'
  <2>1. ASSUME NEW m, m = out'[0].id, merged_status' = "OK", NEW c \in Core
        PROVE  Loaded(c, m)'
    BY <1>2, <1>3, <1>8, <2>1
  <2> QED BY <1>2, <1>3, <1>5, <1>8, <2>1 DEF MergeOk
<1>10. \E S : leaving' \in Seq(S)
  <2>1. <<>> \in Seq(Nat)
    OBVIOUS
  <2> QED BY <1>5, <2>1
<1>11. RepliesOk'
  BY <1>5, <1>10, RepliesKept
<1>12. /\ \A m : Replied(m)' <=> Replied(m)
       /\ \A m : Replied(m) => m \in DOMAIN arrived
  BY <1>1, <1>5 DEF Replied, RepliesOk
<1>13. ASSUME NEW c \in Core, NEW m PROVE NoLoadLost(c, m)'
  BY <1>4, <1>12, KeepsTrack
<1>14. trouble' <=> trouble \/ Split(n)
  <2>1. trouble' <=> trouble \/ diverged
    BY <1>1 DEF COLLECT, TagRoom
  <2>2. diverged <=> out[0].status # out[1].status
    BY <1>2 DEF diverged
  <2>3. Split(n) <=> ~(Loaded(0, n) <=> Loaded(1, n))
    <3>1. Other(0) = 1 /\ Other(1) = 0
      BY DEF Other
    <3> QED BY <1>3, <3>1 DEF Split
  <2> QED BY <1>3, <1>8, <2>1, <2>2, <2>3
<1>15. ASSUME NEW m PROVE Merging(m)' <=> Merging(m) \/ m = n
  <2>1. m \in DOMAIN arrived => (StreamBit(m)' <=> StreamBit(m))
    BY <1>1, FramesStay
  <2>2. Merging(m)' <=> StreamBit(m)' /\ (Replied(m)' \/ n = m)
    BY <1>2, <1>3, <1>8 DEF Merging
  <2>3. Merging(m) <=> StreamBit(m) /\ Replied(m)
    BY <1>2 DEF Merging
  <2> QED BY <1>3, <1>8, <1>12, <2>1, <2>2, <2>3
<1>16. /\ trouble <=> \E m : Merging(m) /\ Split(m)
       /\ \A m : Merging(m) => (Split(m)' <=> Split(m))
       /\ Split(n)' <=> Split(n)
  <2>1. \A c \in Core : Other(c) \in Core
    BY DEF Core, Other
  <2>2. Split(n)' <=> Split(n)
    BY <1>8, <2>1 DEF Split
  <2> QED BY <2>2, SplitStays DEF MergeInv, Tracks
<1>17. trouble' <=> \E m : Merging(m)' /\ Split(m)'
  BY <1>14, <1>15, <1>16
<1> QED BY <1>9, <1>11, <1>13, <1>17 DEF Tracks
\* While a broadcast is merged, a core whose answer ended is done with the load.
LEMMA HalvesEnd ==
  ASSUME MergeInv, NEW m_tready \in BOOLEAN, Cycle(m_tready), c_state = "C_BCAST",
         NEW n, n = out[0].id
  PROVE  /\ \A c \in Core : Reached(c, n) /\ n \in DOMAIN arrived /\ StreamBit(n)
         /\ ~Holding(1, n)'
         /\ m_tready => ~Holding(0, n)'
         /\ \A c \in Core : ends(c, m_tready) => out[c].id = n
         /\ ends(0, m_tready) <=> m_tready
         /\ ~m_tready => offered(0)' /\ out'[0].id = n
<1>1. /\ CoresInv /\ MergeOk /\ FabricInv /\ 0 \in Core /\ 1 \in Core
      /\ \A c \in Core : c = 0 \/ c = 1
  BY DEF MergeInv, Tracks, CoresInv, TagsInv, Core
<1>2. /\ offered(0) /\ StreamBit(out[0].id) /\ outlast(0) /\ (popped(0, m_tready) <=> m_tready)
      /\ popped(1, m_tready) <=> ~drn_done
      /\ ~drn_done => offered(1) /\ outlast(1) /\ out[1].id = out[0].id
  BY Merges
<1>3. Merging(n)
  BY <1>2 DEF Merging
<1>4. \A c \in Core : Reached(c, n) /\ n \in DOMAIN arrived
  BY <1>3, Settled DEF Reached
<1>5. /\ ends(0, m_tready) <=> m_tready
      /\ ends(1, m_tready) <=> ~drn_done
  BY <1>2 DEF ends
<1>6. ~Holding(1, n)'
  <2>1. CASE drn_done
    <3>1. ~Holding(1, n)
      BY <1>1, <2>1 DEF MergeOk
    <3> QED BY <1>1, <1>4, <3>1, HoldingMoves
  <2>2. CASE ~drn_done
    <3>1. ends(1, m_tready) /\ offered(1) /\ out[1].id = n
      BY <1>2, <1>5, <2>2
    <3> QED BY <1>1, <3>1, HoldingMoves
  <2> QED BY <2>1, <2>2
<1>7. m_tready => ~Holding(0, n)'
  BY <1>1, <1>2, <1>5, HoldingMoves
<1>8. ~m_tready => offered(0)' /\ out'[0].id = n
  BY <1>1, <1>2, <1>5, OfferStays
<1> QED BY <1>1, <1>2, <1>4, <1>5, <1>6, <1>7, <1>8

\* The sink holds the merged reply up: core 1's answer is drained meanwhile.
LEMMA WaitStep ==
  ASSUME MergeInv, Cycle(FALSE), CBcast(FALSE)
  PROVE  Tracks'
<1>1. /\ CoresInv /\ MergeOk /\ RepliesOk /\ SINK(FALSE) /\ COLLECT(FALSE)
      /\ SOURCE /\ Stream /\ TagRoom /\ 0 \in Core /\ 1 \in Core
      /\ \A c \in Core : c = 0 \/ c = 1
  BY DEF MergeInv, Tracks, CoresInv, TagsInv, FabricInv, Cycle, Core
<1>2. PICK n : n = out[0].id
  OBVIOUS
<1>3. /\ c_state = "C_BCAST" /\ ~fwd_done /\ fwd_first
      /\ ~popped(0, FALSE) /\ (popped(1, FALSE) <=> ~drn_done) /\ ~bcast_done(FALSE)
      /\ ~drn_done => outlast(1)
  BY <1>1, Merges DEF CBcast, MergeOk
<1>4. /\ c_state' = "C_BCAST" /\ ~fwd_done' /\ fwd_first' /\ drn_done'
      /\ merged_status' = merged_status
  BY <1>3 DEF CBcast
<1>5. /\ \A c \in Core : Reached(c, n) /\ n \in DOMAIN arrived /\ StreamBit(n)
      /\ ~Holding(1, n)'
      /\ \A c \in Core : ends(c, FALSE) => out[c].id = n
      /\ ~ends(0, FALSE)
      /\ offered(0)' /\ out'[0].id = n
  BY <1>2, <1>3, HalvesEnd
<1>6. leaving' = leaving /\ replies' = replies /\ leaving = <<>>
  BY <1>1, <1>3 DEF SINK, sinkVars, m_fire, m_src, MergeOk
<1>7. MergeOk'
  <2>1. merged_status' = "OK" => \A c \in Core : Loaded(c, n)'
    BY <1>1, <1>2, <1>3, <1>4, HoldingMoves DEF MergeOk
  <2>2. Reached(1, n)'
    BY <1>1, <1>5, HoldingMoves
  <2>3. \A m : m = out'[0].id =>
          /\ drn_done' => Reached(1, m)' /\ ~Holding(1, m)'
          /\ merged_status' = "OK" => \A c \in Core : Loaded(c, m)'
    BY <1>5, <2>1, <2>2
  <2> QED BY <1>4, <1>6, <2>3 DEF MergeOk
<1>8. RepliesOk'
  BY <1>1, <1>6, RepliesKept DEF RepliesOk
<1>9. /\ \A m : Replied(m)' <=> Replied(m)
      /\ \A m : Replied(m) => m \in DOMAIN arrived
  BY <1>1, <1>6 DEF Replied, RepliesOk
<1>10. ASSUME NEW c \in Core, NEW m PROVE NoLoadLost(c, m)'
  <2>1. half_done(1)' /\ ~half_done(0) /\ (ends(c, FALSE) => c = 1)
    <3>1. half_done(1)'
      BY <1>4 DEF half_done
    <3>2. ~half_done(0)
      BY <1>3 DEF half_done
    <3>3. ends(c, FALSE) => c = 1
      BY <1>1, <1>5
    <3> QED BY <3>1, <3>2, <3>3
  <2>2. /\ ends(c, FALSE) /\ out[c].id = m => half_done(c)' /\ out'[0].id = m
        /\ half_done(c) /\ out[0].id = m => half_done(c)' /\ out'[0].id = m
    BY <1>1, <1>2, <1>5, <2>1
  <2> QED BY <1>9, <2>2, KeepsTrack
<1>11. trouble' <=> trouble
  BY <1>1, <1>3 DEF COLLECT, TagRoom, diverged
<1>12. ASSUME NEW m PROVE Merging(m)' <=> Merging(m)
  <2>1. m \in DOMAIN arrived => (StreamBit(m)' <=> StreamBit(m))
    BY <1>1, FramesStay
  <2>2. Merging(m)' <=> StreamBit(m)' /\ (Replied(m)' \/ n = m)
    BY <1>4, <1>5 DEF Merging
  <2>3. Merging(m) <=> StreamBit(m) /\ (Replied(m) \/ n = m)
    BY <1>2, <1>3 DEF Merging
  <2> QED BY <1>1, <1>5, <1>9, <2>1, <2>2, <2>3
<1>13. trouble' <=> \E m : Merging(m)' /\ Split(m)'
  BY <1>11, <1>12, TroubleKept
<1> QED BY <1>7, <1>8, <1>10, <1>13 DEF Tracks

\* The merged reply leaves.
LEMMA ReplyStep ==
  ASSUME MergeInv, Cycle(TRUE), CBcast(TRUE)
  PROVE  Tracks'
<1>1. /\ CoresInv /\ FabricInv /\ MergeOk /\ RepliesOk /\ SINK(TRUE) /\ COLLECT(TRUE)
      /\ SOURCE /\ Stream /\ TagRoom /\ 0 \in Core /\ 1 \in Core
      /\ \A c \in Core : c = 0 \/ c = 1
  BY DEF MergeInv, Tracks, CoresInv, TagsInv, FabricInv, Cycle, Core
<1>2. PICK n : n = out[0].id
  OBVIOUS
<1>3. /\ c_state = "C_BCAST" /\ fwd_first /\ leaving = <<>>
      /\ popped(0, TRUE) /\ outlast(0) /\ bcast_done(TRUE)
  BY <1>1, Merges DEF CBcast, MergeOk
<1>4. c_state' = "C_IDLE"
  BY <1>3 DEF CBcast
<1>5. /\ \A c \in Core : Reached(c, n) /\ n \in DOMAIN arrived /\ StreamBit(n)
      /\ \A c \in Core : ~Holding(c, n)'
      /\ \A c \in Core : ends(c, TRUE) => out[c].id = n
  BY <1>1, <1>2, <1>3, HalvesEnd
<1> DEFINE left == Append(leaving, m_beat)
           from == out[m_src]
           r == [id |-> left[1].id, status |-> left[1].status, key |-> left[1].key,
                 whole |-> /\ from.intact
                           /\ Len(left) = from.len
                           /\ \A b \in DOMAIN left : left[b].id = from.id /\ left[b].at = b]
<1>6. m_beat.id = n /\ m_beat.status = merged_status
  <2>1. DOMAIN out[0] = DOMAIN NoOut
    BY <1>1 DEF FabricInv, CoreHolds
  <2> QED BY <1>2, <1>3, <2>1 DEF m_beat, m_src, NoOut
<1>7. left[1] = m_beat
  <2>1. PICK S : leaving \in Seq(S)
    BY <1>1 DEF RepliesOk
  <2> QED BY <1>3, <2>1, BeatLeaves
<1>8. leaving' = <<>> /\ replies' = Append(replies, r)
  BY <1>1, <1>3 DEF SINK, m_fire, m_src
<1>9. r.id = n /\ r.status = merged_status
  BY <1>6, <1>7
<1> HIDE DEF r
<1>10. MergeOk'
  BY <1>4, <1>8 DEF MergeOk
<1>11. RepliesOk'
  <2>1. \E T : leaving' \in Seq(T)
    <3>1. <<>> \in Seq(Nat)
      OBVIOUS
    <3> QED BY <1>8, <3>1
  <2>2. StreamBit(r.id) /\ r.status = "OK" => \A c \in Core : Loaded(c, r.id)
    BY <1>1, <1>2, <1>3, <1>9 DEF MergeOk
  <2>3. r.id \in DOMAIN arrived
    BY <1>1, <1>5, <1>9
  <2> QED BY <1>8, <2>1, <2>2, <2>3, RepliesKept
<1>12. /\ \A m : Replied(m)' <=> Replied(m) \/ m = n
       /\ \A m : Replied(m) => m \in DOMAIN arrived
  <2>1. PICK S : replies \in Seq(S)
    BY <1>1 DEF RepliesOk
  <2> QED BY <1>1, <1>8, <1>9, <2>1, ReplyJoins DEF RepliesOk
<1>13. ASSUME NEW c \in Core, NEW m PROVE NoLoadLost(c, m)'
  BY <1>2, <1>5, <1>12, KeepsTrack
<1>14. trouble' <=> trouble
  BY <1>1, <1>3 DEF COLLECT, TagRoom, diverged
<1>15. ASSUME NEW m PROVE Merging(m)' <=> Merging(m)
  <2>1. m \in DOMAIN arrived => (StreamBit(m)' <=> StreamBit(m))
    BY <1>1, FramesStay
  <2>2. Merging(m)' <=> StreamBit(m)' /\ (Replied(m) \/ n = m)
    BY <1>4, <1>12 DEF Merging
  <2>3. Merging(m) <=> StreamBit(m) /\ (Replied(m) \/ n = m)
    BY <1>2, <1>3 DEF Merging
  <2> QED BY <1>1, <1>5, <1>12, <2>1, <2>2, <2>3
<1>16. trouble' <=> \E m : Merging(m)' /\ Split(m)'
  BY <1>14, <1>15, TroubleKept
<1> QED BY <1>10, <1>11, <1>13, <1>16 DEF Tracks

LEMMA InitMerge == Init => MergeInv
<1> SUFFICES ASSUME Init PROVE MergeInv
  OBVIOUS
<1>1. /\ arrived = <<>> /\ replies = <<>> /\ leaving = <<>> /\ c_state = "C_IDLE"
      /\ trouble = FALSE
      /\ \A c \in Core : inq[c] = <<>> /\ loads[c] = <<>> /\ ~offered(c)
  BY DEF Init, offered, NoOut
<1>2. \A c \in Core : \A n : ~InQueue(c, n) /\ ~Loaded(c, n) /\ ~Reached(c, n)
  BY <1>1 DEF InQueue, Loaded, Reached
<1>3. \A n : ~Replied(n) /\ ~Acknowledged(n) /\ ~Merging(n)
  BY <1>1 DEF Replied, Acknowledged, Merging
<1>4. CoresInv
  BY <1>1, <1>2, InitTags DEF CoresInv, InOrder, Answer
<1>5. MergeOk /\ RepliesOk
  <2>1. <<>> \in Seq(Nat)
    OBVIOUS
  <2> QED BY <1>1, <1>3, <2>1 DEF MergeOk, RepliesOk
<1> QED BY <1>1, <1>2, <1>3, <1>4, <1>5 DEF MergeInv, Tracks, NoLoadLost

LEMMA NextMerge == ASSUME MergeInv, Next PROVE MergeInv'
<1>1. PICK m_tready \in BOOLEAN : Cycle(m_tready)
  BY DEF Next
<1>2. CoresInv'
  <2>1. TagsInv'
    BY NextTags DEF MergeInv, CoresInv
  <2>2. ASSUME NEW c \in Core PROVE InOrder(c)' /\ Answer(c)'
    BY <1>1, OrderStep, AnswerStep DEF MergeInv, CoresInv, TagsInv
  <2> QED BY <2>1, <2>2 DEF CoresInv
<1>3. Tracks'
  <2>1. CStartBcast \/ CStartPass \/ CIdle \/ CPass(m_tready) \/ CBcast(m_tready)
    BY <1>1 DEF Cycle, COLLECT
  <2>2. CASE CBcast(m_tready)
    BY <1>1, <2>2, WaitStep, ReplyStep
  <2> QED BY <1>1, <2>1, <2>2, StartBcastStep, StartPassStep, IdleStep, PassStep
<1> QED BY <1>2, <1>3 DEF MergeInv

LEMMA MergeStutters == ASSUME MergeInv, UNCHANGED vars PROVE MergeInv'
<1>1. TagsInv'
  BY TagsStutter DEF MergeInv, CoresInv
<1>2. /\ arrived' = arrived /\ s_beat' = s_beat /\ s_next' = s_next /\ sent' = sent
      /\ inq' = inq /\ out' = out /\ loads' = loads
      /\ c_state' = c_state /\ c_src' = c_src /\ fwd_done' = fwd_done /\ drn_done' = drn_done
      /\ fwd_first' = fwd_first /\ merged_status' = merged_status /\ trouble' = trouble
      /\ leaving' = leaving /\ replies' = replies
  BY DEF vars, sourceVars, dispatchVars, coreVars, collectVars, sinkVars
<1>3. ASSUME NEW n
      PROVE  /\ \A c : /\ InQueue(c, n)' <=> InQueue(c, n)
                       /\ Loaded(c, n)' <=> Loaded(c, n)
                       /\ Reached(c, n)' <=> Reached(c, n)
                       /\ offered(c)' <=> offered(c)
                       /\ half_done(c)' <=> half_done(c)
             /\ StreamBit(n)' <=> StreamBit(n)
             /\ Replied(n)' <=> Replied(n)
             /\ Acknowledged(n)' <=> Acknowledged(n)
  BY <1>2 DEF InQueue, Loaded, Reached, StreamBit, offered, StillComing, Underway, s_tlast,
              half_done, Replied, Acknowledged
<1>4. CoresInv'
  BY <1>1, <1>2, <1>3 DEF MergeInv, CoresInv, InOrder, Answer
<1>5. MergeOk'
  BY <1>2, <1>3 DEF MergeInv, Tracks, MergeOk, Holding, StreamBit
<1>6. RepliesOk'
  BY <1>2, <1>3 DEF MergeInv, Tracks, RepliesOk
<1>7. \A c \in Core : \A n : NoLoadLost(c, n)'
  BY <1>2, <1>3 DEF MergeInv, Tracks, NoLoadLost, Holding
<1>8. \A n : (Merging(n)' <=> Merging(n)) /\ (Split(n)' <=> Split(n))
  BY <1>2, <1>3 DEF Merging, Split
<1>9. trouble' <=> \E n : Merging(n)' /\ Split(n)'
  BY <1>2, <1>8 DEF MergeInv, Tracks
<1> QED BY <1>4, <1>5, <1>6, <1>7, <1>9 DEF MergeInv, Tracks

LEMMA ContainsIsLoaded ==
  ASSUME MergeInv, NEW c \in Core, NEW n
  PROVE  Contains(loads[c], n) <=> Loaded(c, n)
<1>1. loads[c] \in Seq(Nat)
  BY DEF MergeInv, CoresInv, TagsInv, FabricInv, CoreHolds
<1>2. DOMAIN loads[c] = 1..Len(loads[c])
  BY <1>1, LenProperties
<1> QED BY <1>2 DEF Contains, Loaded

\* However the cores judge and whenever they answer: a load is acknowledged
\* only when both engines hold its key, and `trouble` is up exactly when two
\* answers that differed were merged. The collector pairs the two answers by
\* position alone; that they answer one load is what the order of the stream
\* and the expectation FIFOs give.
THEOREM MergeFailsOnlyClosed == Spec => []FailClosed
<1>1. MergeInv /\ [Next]_vars => MergeInv'
  BY NextMerge, MergeStutters
<1>2. MergeInv => FailClosed
  <2> SUFFICES ASSUME MergeInv PROVE FailClosed
    OBVIOUS
  <2>1. MergeOk /\ RepliesOk /\ Collecting /\ 0 \in Core
    BY DEF MergeInv, Tracks, CoresInv, TagsInv, Core
  <2>2. ASSUME NEW k \in DOMAIN replies, arrived[replies[k].id].op = "load",
               replies[k].status = "OK", NEW c \in Core
        PROVE  Contains(loads[c], replies[k].id)
    <3>1. Acknowledged(replies[k].id) /\ StreamBit(replies[k].id)
      BY <2>2 DEF Acknowledged, StreamBit
    <3>2. Loaded(c, replies[k].id)
      BY <2>1, <3>1 DEF RepliesOk
    <3> QED BY <3>2, ContainsIsLoaded
  <2>3. ASSUME NEW n PROVE SplitLoad(n) <=> Split(n)
    <3>1. \A c \in Core : Contains(loads[c], n) <=> Loaded(c, n)
      BY ContainsIsLoaded
    <3>2. \A c \in Core : Contains(loads[Other(c)], n) <=> Loaded(Other(c), n)
      BY <3>1 DEF Core, Other
    <3> QED BY <3>1, <3>2, Zenon DEF SplitLoad, Split
  <2>4. ASSUME NEW n PROVE Merging(n) <=> n \in DOMAIN arrived /\ Merged(n)
    <3>1. CASE Replied(n)
      <4>1. n \in DOMAIN arrived
        BY <2>1, <3>1 DEF RepliesOk
      <4>2. PICK k \in DOMAIN replies : replies[k].id = n
        BY <3>1 DEF Replied
      <4>3. c_state = "C_BCAST" => StreamBit(out[0].id)
        BY Merges
      <4>4. CASE arrived[n].op = "load"
        BY <3>1, <4>1, <4>2, <4>4 DEF Merging, Merged, StreamBit
      <4>5. CASE arrived[n].op # "load"
        <5>1. ~StreamBit(n)
          BY <4>5 DEF StreamBit
        <5>2. ~(c_state = "C_BCAST" /\ out[0].id = n)
          BY <4>3, <5>1
        <5> QED BY <4>5, <5>1, <5>2 DEF Merging, Merged
      <4> QED BY <4>4, <4>5
    <3>2. CASE ~Replied(n)
      <4>1. c_state = "C_BCAST" => offered(0) /\ StreamBit(out[0].id)
        BY Merges
      <4>2. offered(0) => out[0].id \in DOMAIN arrived
        BY <2>1 DEF MergeInv, CoresInv, TagsInv, FabricInv, CoreHolds, Reached
      <4> QED BY <3>2, <4>1, <4>2 DEF Merging, Merged, Replied
    <3> QED BY <3>1, <3>2
  <2>5. trouble <=> \E n \in DOMAIN arrived : Merged(n) /\ SplitLoad(n)
    BY <2>3, <2>4 DEF MergeInv, Tracks
  <2> QED BY <2>2, <2>5 DEF FailClosed
<1> QED BY <1>1, <1>2, InitMerge, PTL DEF Spec

-----------------------------------------------------------------------------
(* One server: both engines' replies are those of one device.               *)

\* A frame that was handed over to its last beat.
Complete(n) == n \in DOMAIN arrived /\ (n = Len(arrived) => ~Underway)

\* A core has taken of the frame coming in what the decoder handed over, and
\* the beat on offer if it is ahead of the other core.
PartOk(c) == coming(c) =>
  /\ Len(part[c]) + 1 = s_next + (IF sent[c] THEN 1 ELSE 0)
  /\ \A b \in DOMAIN part[c] : part[c][b] = <<Len(arrived), b>>

\* What a core holds are the frames that arrived, beat by beat.
WholeFrame(a, beats) == beats = [b \in 1..a[FrameOf(beats)].len |-> <<FrameOf(beats), b>>]
Wholes(c) == \A k \in DOMAIN inq[c] : WholeFrame(arrived, inq[c][k])

\* An answer says what the one device would.
Right(a, o) == /\ o.status = Server!AnswerTo(a, o.id).status
               /\ o.key = Server!AnswerTo(a, o.id).key
               /\ o.intact
AnswersRight(c) == offered(c) => Right(arrived, out[c])

\* A frame of work is held by one core, or replied to.
WorkOnce(n) == n \in DOMAIN arrived /\ ~StreamBit(n) =>
  /\ Complete(n) => Holding(0, n) \/ Holding(1, n) \/ Replied(n)
  /\ ~(Holding(0, n) /\ Holding(1, n))
  /\ Replied(n) => ~Holding(0, n) /\ ~Holding(1, n)

\* Only the answer being passed on has had a beat taken.
FirstBeat(c) == offered(c) /\ (c_state # "C_PASS" \/ c_src # c) => out[c].at = 1

\* The beats of a reply on its way are those of the answer, from its first.
LeavingOk == c_state = "C_PASS" =>
  /\ Len(leaving) + 1 = out[c_src].at
  /\ \A b \in DOMAIN leaving :
       /\ leaving[b].id = out[c_src].id /\ leaving[b].at = b
       /\ leaving[b].status = out[c_src].status /\ leaving[b].key = out[c_src].key

\* While a load is merged: its one status is right, and a core whose half has
\* ended has nothing left from before it.
MergingOk == c_state = "C_BCAST" =>
  /\ merged_status = Server!AnswerTo(arrived, out[0].id).status
  /\ drn_done => \A n : Holding(1, n) => out[0].id < n

CoresOk == /\ ~(sent[0] /\ sent[1])
           /\ \A c \in Core : PartOk(c) /\ Wholes(c) /\ AnswersRight(c) /\ FirstBeat(c)
RepliesRight == /\ \A n : WorkOnce(n) /\ (Replied(n) => Complete(n))
                /\ LeavingOk /\ MergingOk
OneServer == LoadsInv /\ MergeInv /\ CoresOk /\ RepliesRight

-----------------------------------------------------------------------------
(* Frames handed over.                                                      *)

\* A frame handed over stays so, and becomes so when its last beat is taken.
LEMMA CompleteStep ==
  ASSUME Stream, SOURCE
  PROVE  /\ \A n : Complete(n) => Complete(n)'
         /\ \A n : Complete(n)' /\ ~Complete(n) =>
              s_fire /\ s_tlast /\ n = Len(arrived) /\ arrived' = arrived /\ n \in DOMAIN arrived
         /\ \A n : n \in DOMAIN arrived' /\ n \notin DOMAIN arrived => ~Complete(n)'
<1>1. /\ arrived \in Seq(Frames) /\ Len(arrived) \in Nat /\ DOMAIN arrived = 1..Len(arrived)
      /\ s_beat \in {0, s_next} /\ s_next > 0 /\ s_next \in Nat
  BY DEF Stream
<1>2. CASE /\ ~Underway /\ s_beat' = 1 /\ s_next' = 1
           /\ \E f \in Frames : arrived' = Append(arrived, f)
  <2>1. PICK f \in Frames : arrived' = Append(arrived, f)
    BY <1>2
  <2>2. PICK p \in Seq(Frames) : p = arrived'
    BY <1>1, <2>1
  <2>3. Len(p) = Len(arrived) + 1 /\ DOMAIN p = 1..Len(p)
    BY <1>1, <2>1, <2>2
  <2>4. Underway'
    BY <1>2 DEF Underway
  <2>5. ASSUME NEW n PROVE Complete(n)' <=> n \in DOMAIN p /\ n # Len(p)
    BY <2>2, <2>4 DEF Complete
  <2>6. ASSUME NEW n PROVE Complete(n) <=> n \in DOMAIN arrived
    BY <1>2 DEF Complete
  <2> QED BY <1>1, <2>2, <2>3, <2>5, <2>6
<1>3. CASE /\ arrived' = arrived
           /\ \/ ~s_tvalid /\ s_next > 1 /\ s_beat' = s_next /\ s_next' = s_next
              \/ ~s_fire /\ s_beat' = s_beat /\ s_next' = s_next
  <2>1. Underway' <=> Underway
    BY <1>3 DEF Underway
  <2>2. \A n : Complete(n)' <=> Complete(n)
    BY <1>3, <2>1 DEF Complete
  <2> QED BY <1>3, <2>2
<1>4. CASE arrived' = arrived /\ s_fire /\ s_beat' = 0 /\ s_next' = IF s_tlast THEN 1 ELSE s_beat + 1
  <2>1. s_beat # 0 /\ Underway
    BY <1>4 DEF s_fire, s_tvalid, Underway
  <2>2. ~s_tlast => Underway'
    BY <1>1, <1>4, <2>1 DEF Underway
  <2> QED BY <1>4, <2>1, <2>2 DEF Complete
<1> QED BY <1>2, <1>3, <1>4, SourceStep

\* Work that was handed over, and only that, has reached a core; a load that
\* reached both cores was handed over.
LEMMA ReachedIsComplete ==
  ASSUME Stream, Dispatched, ~(sent[0] /\ sent[1]), NEW n
  PROVE  /\ Complete(n) => n \in DOMAIN arrived /\ \A c \in Core : Reached(c, n)
         /\ \A c \in Core : Reached(c, n) /\ ~StreamBit(n) => Complete(n)
         /\ Reached(0, n) /\ Reached(1, n) => Complete(n)
<1>1. Complete(n) => n \in DOMAIN arrived /\ \A c \in Core : Reached(c, n)
  BY DEF Complete, Reached, StillComing
<1>2. ASSUME NEW c \in Core, Reached(c, n), ~StreamBit(n) PROVE Complete(n)
  <2>1. n = Len(arrived) => ~is_bcast
    BY <1>2 DEF is_bcast, StreamBit
  <2>2. Underway /\ ~is_bcast => ~sent[c]
    BY DEF Dispatched
  <2> QED BY <1>2, <2>1, <2>2 DEF Complete, Reached, StillComing
<1>3. Reached(0, n) /\ Reached(1, n) => Complete(n)
  BY DEF Complete, Reached, StillComing
<1> QED BY <1>1, <1>2, <1>3

\* No beat is taken twice: it leaves the decoder with its second taker.
LEMMA NotBothStep ==
  ASSUME FabricInv, SOURCE, DISPATCH, ~(sent[0] /\ sent[1])
  PROVE  ~(sent'[0] /\ sent'[1])
<1>1. Dispatched /\ 0 \in Core /\ 1 \in Core /\ \A c \in Core : c = 0 \/ c = 1
  BY DEF FabricInv, Core
<1>2. CASE DDecide \/ DHold \/ DForward
  BY <1>1, <1>2 DEF DDecide, DHold, DForward
<1>3. CASE DBroadcast
  <2>1. /\ d_state = "D_BCAST"
        /\ \A c \in Core : sent'[c] <=> ~s_fire /\ (sent[c] \/ taken(c))
    BY <1>3 DEF DBroadcast, ForkKeeps
  <2>2. s_fire <=> s_tvalid /\ \A c \in Core : sent[c] \/ taken(c)
    BY <2>1 DEF s_fire, s_tready, ForkAll
  <2>3. \A c \in Core : sent[c] \/ taken(c) => s_tvalid
    BY <1>1 DEF Dispatched, taken, m_tvalid
  <2> QED BY <1>1, <2>1, <2>2, <2>3
<1> QED BY <1>2, <1>3 DEF DISPATCH

\* The frame coming in at a core, a cycle on.
LEMMA ForkMoves ==
  ASSUME FabricInv, SOURCE, DISPATCH, NEW c \in Core, coming(c), ~(taken(c) /\ s_tlast)
  PROVE  /\ arrived' = arrived /\ s_next \in Nat /\ s_next' \in Nat
         /\ taken(c) => s_beat = s_next /\ ~sent[c]
         /\ s_next' + (IF sent'[c] THEN 1 ELSE 0)
              = (s_next + (IF sent[c] THEN 1 ELSE 0)) + (IF taken(c) THEN 1 ELSE 0)
<1>1. /\ Stream /\ Dispatched /\ TagRoom /\ Underway
      /\ s_next \in Nat /\ s_beat \in {0, s_next}
      /\ d_state' = d_state /\ coming(c)'
  BY DispatchStep DEF FabricInv, Dispatched, coming, Stream
<1>2. /\ arrived' = arrived
      /\ \/ ~s_tvalid /\ s_next' = s_next
         \/ s_fire /\ s_next' = IF s_tlast THEN 1 ELSE s_next + 1
         \/ ~s_fire /\ s_next' = s_next
  BY <1>1, SourceStep DEF s_fire, s_tvalid
<1>3. CASE d_state = "D_FWD"
  <2>1. DForward /\ c = target /\ ~sent[c]
    BY <1>1, <1>3 DEF DISPATCH, DDecide, DHold, DForward, DBroadcast, coming, Dispatched
  <2>2. s_fire <=> taken(c)
    BY <1>3, <2>1 DEF s_fire, s_tready, taken, m_tvalid
  <2>3. ~sent'[c]
    BY <2>1 DEF DForward
  <2> QED BY <1>1, <1>2, <2>1, <2>2, <2>3 DEF s_tvalid, taken, m_tvalid
<1>4. CASE d_state = "D_BCAST"
  <2>1. DBroadcast
    BY <1>1, <1>4 DEF DISPATCH, DDecide, DHold, DForward, DBroadcast
  <2>2. /\ s_fire <=> s_tvalid /\ \A k \in Core : sent[k] \/ taken(k)
        /\ taken(c) => s_tvalid /\ ~sent[c]
    BY <1>4 DEF s_fire, s_tready, ForkAll, taken, m_tvalid
  <2>3. sent'[c] <=> ~s_fire /\ (sent[c] \/ taken(c))
    BY <2>1 DEF DBroadcast, ForkKeeps
  <2>4. s_fire => ~s_tlast
    <3>1. s_fire /\ s_tlast => d_state' = "D_IDLE"
      BY <2>1 DEF DBroadcast
    <3> QED BY <1>1, <1>4, <3>1
  <2>5. sent[c] => s_tvalid
    BY <1>1 DEF Dispatched
  <2> QED BY <1>1, <1>2, <2>2, <2>3, <2>4, <2>5 DEF s_tvalid
<1> QED BY <1>1, <1>3, <1>4 DEF coming

LEMMA PartStep ==
  ASSUME FabricInv, NEW m_tready \in BOOLEAN, Cycle(m_tready), NEW c \in Core, PartOk(c)
  PROVE  PartOk(c)'
<1> SUFFICES ASSUME coming(c)'
    PROVE  /\ Len(part'[c]) + 1 = s_next' + (IF sent'[c] THEN 1 ELSE 0)
           /\ \A b \in DOMAIN part'[c] : part'[c][b] = <<Len(arrived'), b>>
  BY DEF PartOk
<1>1. /\ Stream /\ Dispatched /\ TagRoom /\ CoreHolds(c) /\ SOURCE /\ DISPATCH
      /\ part[c] \in Seq(Nat \X Nat) /\ (part[c] # <<>> => coming(c))
      /\ taken(c) => coming(c)
  BY DispatchStep DEF FabricInv, Cycle, CoreHolds
<1>2. ~(taken(c) /\ s_tlast)
  BY <1>1, DispatchStep
<1>3. part'[c] = IF taken(c) THEN Append(part[c], <<Len(arrived), s_beat>>) ELSE part[c]
  BY <1>2, CoreStep DEF Cycle, Beats
<1>4. CASE ~coming(c)
  <2>1. push'[c]
    BY <1>1, <1>4, DispatchStep
  <2>2. DDecide
    BY <1>1, <2>1 DEF DISPATCH, DHold, DForward, DBroadcast
  <2>3. /\ ~s_fire /\ s_beat # 0 /\ s_next = 1 /\ ~sent[c]
    BY <1>1, <2>2 DEF DDecide, s_fire, s_tready, s_tvalid, Dispatched
  <2>4. s_next' = 1
    BY <1>1, <2>3, SourceStep DEF Underway
  <2>5. ~sent'[c]
    BY <2>2, <2>3 DEF DDecide
  <2>6. part'[c] = <<>>
    BY <1>1, <1>3, <1>4
  <2> QED BY <2>4, <2>5, <2>6
<1>5. CASE coming(c)
  <2>1. /\ arrived' = arrived /\ s_next \in Nat /\ s_next' \in Nat
        /\ taken(c) => s_beat = s_next /\ ~sent[c]
        /\ s_next' + (IF sent'[c] THEN 1 ELSE 0)
             = (s_next + (IF sent[c] THEN 1 ELSE 0)) + (IF taken(c) THEN 1 ELSE 0)
    BY <1>1, <1>2, <1>5, ForkMoves
  <2>2. /\ Len(part[c]) + 1 = s_next + (IF sent[c] THEN 1 ELSE 0)
        /\ \A b \in DOMAIN part[c] : part[c][b] = <<Len(arrived), b>>
    BY <1>5 DEF PartOk
  <2>3. CASE ~taken(c)
    <3>1. part'[c] = part[c]
      BY <1>3, <2>3
    <3> DEFINE u == IF sent[c] THEN 1 ELSE 0
               v == IF sent'[c] THEN 1 ELSE 0
    <3>u. u \in Nat /\ v \in Nat /\ s_next \in Nat
      BY <2>1
    <3>v. s_next' + v = (s_next + u) + 0
      BY <2>1, <2>3, Zenon
    <3> HIDE DEF u, v
    <3>w. s_next' + v = s_next + u
      BY <3>u, <3>v
    <3>2. s_next' + (IF sent'[c] THEN 1 ELSE 0) = s_next + (IF sent[c] THEN 1 ELSE 0)
      BY <3>w DEF u, v
    <3>3. Len(part'[c]) + 1 = s_next' + (IF sent'[c] THEN 1 ELSE 0)
      BY <2>2, <3>1, <3>2
    <3>4. \A b \in DOMAIN part'[c] : part'[c][b] = <<Len(arrived'), b>>
      BY <2>1, <2>2, <3>1, Zenon
    <3> QED BY <3>3, <3>4
  <2>4. CASE taken(c)
    <3> DEFINE p == part[c]
               q == part'[c]
               x == <<Len(arrived), s_beat>>
    <3>1. p \in Seq(Nat \X Nat) /\ x \in Nat \X Nat /\ Len(p) \in Nat
      BY <1>1, <2>1, <2>4 DEF Stream
    <3>2. q = Append(p, x)
      BY <1>3, <2>4
    <3>3. Len(p) + 1 = s_next /\ x = <<Len(arrived), Len(p) + 1>>
      BY <2>1, <2>2, <2>4
    <3>4. \A b \in DOMAIN p : p[b] = <<Len(arrived), b>>
      BY <2>2
    <3> HIDE DEF p, q, x
    <3>5. /\ Len(q) = Len(p) + 1 /\ DOMAIN q = 1..(Len(p) + 1) /\ DOMAIN p = 1..Len(p)
          /\ q[Len(p) + 1] = x /\ \A b \in 1..Len(p) : q[b] = p[b]
      BY <3>1, <3>2
    <3>6. ASSUME NEW b \in DOMAIN q PROVE q[b] = <<Len(arrived), b>>
      <4>1. b = Len(p) + 1 \/ b \in 1..Len(p)
        BY <3>1, <3>5
      <4> QED BY <3>3, <3>4, <3>5, <4>1
    <3>7. Len(q) + 1 = s_next' + (IF sent'[c] THEN 1 ELSE 0)
      <4>1. s_next' + (IF sent'[c] THEN 1 ELSE 0) = (s_next + 0) + 1
        BY <2>1, <2>4, Zenon
      <4>2. PICK d \in Nat : d = s_next
        BY <2>1, Zenon
      <4>3. PICK e \in Nat : e = Len(q) /\ e = d
        BY <3>1, <3>3, <3>5, <4>2
      <4>4. \A n \in Nat : (n + 0) + 1 = n + 1
        OBVIOUS
      <4>5. (d + 0) + 1 = e + 1
        BY <4>3, <4>4
      <4>6. (s_next + 0) + 1 = Len(q) + 1
        BY <4>2, <4>3, <4>5, Zenon
      <4> QED BY <4>1, <4>6, Zenon
    <3> QED BY <2>1, <3>6, <3>7 DEF q
  <2> QED BY <2>3, <2>4
<1> QED BY <1>4, <1>5

\* A frame a core has taken to its last beat is the one the decoder sent.
LEMMA LastBeatMakesFrame ==
  ASSUME FabricInv, NEW c \in Core, PartOk(c), taken(c), s_tlast, coming(c)
  PROVE  WholeFrame(arrived, Beats(c)) /\ FrameOf(Beats(c)) = Len(arrived)
<1>1. /\ CoreHolds(c) /\ Stream /\ Dispatched
      /\ part[c] \in Seq(Nat \X Nat) /\ Len(arrived) \in Nat /\ s_next \in Nat
      /\ s_beat = s_next /\ ~sent[c]
  BY DEF FabricInv, CoreHolds, Stream, taken, m_tvalid, s_tvalid, Dispatched
<1>2. /\ Len(part[c]) + 1 = s_next + (IF sent[c] THEN 1 ELSE 0)
      /\ \A b \in DOMAIN part[c] : part[c][b] = <<Len(arrived), b>>
  BY DEF PartOk
<1>3. FrameOf(Beats(c)) = Len(arrived)
  BY <1>1, ArrivingFacts
<1> DEFINE p == part[c]
           x == <<Len(arrived), s_beat>>
           q == Beats(c)
           n == Len(arrived)
           l == arrived[Len(arrived)].len
<1>4. p \in Seq(Nat \X Nat) /\ x \in Nat \X Nat /\ Len(p) \in Nat
  BY <1>1
<1>5. q = Append(p, x) /\ Len(p) + 1 = s_next /\ x = <<n, s_next>> /\ s_next = l
  BY <1>1, <1>2 DEF Beats, s_tlast
<1>6. \A b \in DOMAIN p : p[b] = <<n, b>>
  BY <1>2
<1>7. n \in Nat /\ s_next \in Nat
  BY <1>1
<1> HIDE DEF p, x, q, n, l
<1>8. /\ Len(q) = Len(p) + 1 /\ DOMAIN q = 1..(Len(p) + 1) /\ DOMAIN p = 1..Len(p)
      /\ q[Len(p) + 1] = x /\ \A b \in 1..Len(p) : q[b] = p[b]
      /\ q \in Seq(Nat \X Nat)
  BY <1>4, <1>5
<1>9. ASSUME NEW b \in 1..l PROVE q[b] = <<n, b>>
  <2>1. b = Len(p) + 1 \/ b \in 1..Len(p)
    BY <1>4, <1>5, <1>7
  <2>2. CASE b = Len(p) + 1
    BY <1>5, <1>8, <2>2
  <2>3. CASE b \in 1..Len(p)
    BY <1>6, <1>8, <2>3
  <2> QED BY <2>1, <2>2, <2>3
<1>10. q = [b \in 1..l |-> <<n, b>>]
  <2>1. q = [b \in DOMAIN q |-> q[b]] /\ DOMAIN q = 1..l
    BY <1>5, <1>8
  <2> QED BY <1>9, <2>1
<1> QED BY <1>3, <1>10 DEF WholeFrame, q, n, l

LEMMA WholesStep ==
  ASSUME FabricInv, NEW m_tready \in BOOLEAN, Cycle(m_tready), NEW c \in Core, PartOk(c),
         Wholes(c)
  PROVE  Wholes(c)'
<1>1. /\ Stream /\ Dispatched /\ TagRoom /\ CoreHolds(c) /\ SOURCE /\ DISPATCH /\ CORES(m_tready)
      /\ inq[c] \in Seq(Seq(Nat \X Nat))
  BY DEF FabricInv, Cycle, CoreHolds
<1>2. PICK d \in {0, 1} : Answering(c, m_tready, d)
  BY <1>1, HeldStep
<1>3. PICK q : q = inq'[c]
  OBVIOUS
<1>4. PICK a : a = arrived'
  OBVIOUS
<1>5. /\ q \in Seq(Seq(Nat \X Nat)) /\ DOMAIN q = 1..Len(q) /\ Len(q) \in Nat
      /\ Len(inq[c]) \in Nat
  BY <1>1, <1>2, <1>3 DEF Answering
<1>6. \A n \in DOMAIN arrived : a[n] = arrived[n]
  BY <1>1, <1>4, FramesStay
<1>7. ASSUME NEW k \in DOMAIN q PROVE WholeFrame(a, q[k])
  <2>1. CASE k <= Len(inq[c]) - d
    <3>1. k + d \in DOMAIN inq[c] /\ q[k] = inq[c][k + d]
      <4>1. k \in 1..(Len(inq[c]) - d)
        BY <1>5, <2>1
      <4> QED BY <1>2, <1>3, <4>1 DEF Answering
    <3>2. WholeFrame(arrived, q[k]) /\ FrameOf(q[k]) \in DOMAIN arrived
      BY <1>1, <3>1 DEF Wholes, CoreHolds, Reached
    <3> QED BY <1>6, <3>2 DEF WholeFrame
  <2>2. CASE k > Len(inq[c]) - d
    <3>1. taken(c) /\ s_tlast /\ q[k] = Beats(c)
      BY <1>2, <1>3, <2>2 DEF Answering
    <3>2. coming(c) /\ Underway
      BY <1>1, <3>1, DispatchStep
    <3>3. WholeFrame(arrived, q[k]) /\ FrameOf(q[k]) = Len(arrived)
      BY <3>1, <3>2, LastBeatMakesFrame
    <3>4. Len(arrived) \in DOMAIN arrived
      BY <1>1, <3>2 DEF Stream
    <3> QED BY <1>6, <3>3, <3>4 DEF WholeFrame
  <2> QED BY <1>2, <1>5, <2>1, <2>2
<1> QED BY <1>3, <1>4, <1>7 DEF Wholes

-----------------------------------------------------------------------------
(* What an answer says.                                                     *)

Greatest(S) == IF S = {} THEN 0 ELSE CHOOSE m \in S : \A k \in S : k <= m
KeysBelow(a, n) == {m \in 1..(n - 1) : a[m].op = "load" /\ a[m].good}

LEMMA KeyIsGreatest ==
  ASSUME NEW a, NEW n
  PROVE  /\ Server!KeyAt(a, n) = Greatest(KeysBelow(a, n))
         /\ Server!AnswerTo(a, n) =
              [id |-> n, status |-> IF a[n].good THEN "OK" ELSE "BAD", whole |-> TRUE,
               key |-> IF a[n].op = "load" THEN 0 ELSE Greatest(KeysBelow(a, n))]
<1>1. Server!KeyAt(a, n) = Greatest(KeysBelow(a, n))
  BY DEF Server!KeyAt, Greatest, KeysBelow
<1>2. Server!AnswerTo(a, n) =
        [id |-> n, status |-> IF a[n].good THEN "OK" ELSE "BAD", whole |-> TRUE,
         key |-> IF a[n].op = "load" THEN 0 ELSE Server!KeyAt(a, n)]
  BY DEF Server!AnswerTo
<1> QED BY <1>1, <1>2

LEMMA AnswerSays ==
  ASSUME NEW a, NEW n
  PROVE  /\ Server!AnswerTo(a, n).status = (IF a[n].good THEN "OK" ELSE "BAD")
         /\ Server!AnswerTo(a, n).key = (IF a[n].op = "load" THEN 0 ELSE Server!KeyAt(a, n))
         /\ Server!AnswerTo(a, n) = [id |-> n, status |-> Server!AnswerTo(a, n).status,
                                     key |-> Server!AnswerTo(a, n).key, whole |-> TRUE]
BY DEF Server!AnswerTo

LEMMA GreatestIs ==
  ASSUME NEW S, S \subseteq Nat, NEW m \in S, \A k \in S : k <= m
  PROVE  Greatest(S) = m
<1>1. \E x \in S : \A k \in S : k <= x
  OBVIOUS
<1>2. PICK g : g = CHOOSE x \in S : \A k \in S : k <= x
  OBVIOUS
<1>3. g \in S /\ \A k \in S : k <= g
  BY <1>1, <1>2
<1>4. g <= m /\ m <= g /\ g \in Nat /\ m \in Nat
  BY <1>3
<1>5. g = m
  BY <1>4
<1> QED BY <1>2, <1>5 DEF Greatest

\* The answer to a frame depends on the frames up to it.
LEMMA SameAnswer ==
  ASSUME NEW a \in Seq(Frames), NEW b \in Seq(Frames), NEW n \in DOMAIN a, n \in DOMAIN b,
         \A m \in 1..n : a[m] = b[m]
  PROVE  Server!AnswerTo(a, n) = Server!AnswerTo(b, n)
<1>1. n \in Nat /\ n > 0 /\ a[n] = b[n]
  OBVIOUS
<1>2. KeysBelow(a, n) = KeysBelow(b, n)
  <2>1. \A m \in 1..(n - 1) : a[m] = b[m]
    BY <1>1
  <2> QED BY <2>1 DEF KeysBelow
<1> QED BY <1>1, <1>2, KeyIsGreatest

\* The key a core answers under is that of the last load sent before the
\* frame that was not refused: the core has them all, and no later one.
LEMMA KeyIsThere ==
  ASSUME LoadsInv, NEW c \in Core, NEW n, Oldest(c, n)
  PROVE  KeyOf(c) = Server!KeyAt(arrived, n)
<1>1. /\ InOrder(c) /\ KeysTaken(c) /\ Stream /\ CoreHolds(c) /\ loads[c] \in Seq(Nat)
      /\ arrived \in Seq(Frames)
  BY DEF LoadsInv, FabricInv, CoreHolds, Stream
<1>2. InQueue(c, n) /\ Reached(c, n)
  BY <1>1 DEF Oldest, InQueue, CoreHolds
<1>3. n \in DOMAIN arrived /\ DOMAIN arrived = 1..Len(arrived) /\ Len(arrived) \in Nat
  BY <1>1, <1>2 DEF Reached
<1> DEFINE S == KeysBelow(arrived, n)
<1>4. ASSUME NEW m \in S PROVE Loaded(c, m)
  <2>1. m \in 1..(n - 1) /\ arrived[m].op = "load" /\ arrived[m].good
    BY DEF KeysBelow
  <2> DEFINE l == Len(arrived)
  <2>a. l \in Nat /\ n \in 1..l /\ DOMAIN arrived = 1..l
    BY <1>3
  <2> HIDE DEF l
  <2>b. m \in 1..l /\ m # l /\ m < n /\ m \in Nat
    BY <2>1, <2>a
  <2>2. m \in DOMAIN arrived /\ m # Len(arrived) /\ m < n /\ m \in Nat
    BY <2>a, <2>b DEF l
  <2>3. Reached(c, m) /\ StreamBit(m)
    BY <2>1, <2>2 DEF Reached, StreamBit
  <2>4. InQueue(c, m) \/ Loaded(c, m)
    BY <1>1, <2>1, <2>3 DEF KeysTaken
  <2>5. ~InQueue(c, m)
    BY <1>3, <2>2 DEF Oldest
  <2> QED BY <2>4, <2>5
<1>5. ASSUME NEW m, Loaded(c, m) PROVE m \in S
  <2>1. Reached(c, m) /\ StreamBit(m) /\ arrived[m].good /\ m < n
    BY <1>1, <1>2, <1>5 DEF InOrder, KeysTaken
  <2>2. m \in 1..(n - 1)
    BY <1>3, <2>1 DEF Reached
  <2> QED BY <2>1, <2>2 DEF KeysBelow, StreamBit
<1>6. S \subseteq Nat
  BY <1>3 DEF KeysBelow
<1> HIDE DEF S
<1>7. CASE loads[c] = <<>>
  <2>1. \A m : ~Loaded(c, m)
    BY <1>7 DEF Loaded
  <2>2. S = {}
    BY <1>4, <2>1
  <2> QED BY <1>7, <2>2, KeyIsGreatest DEF KeyOf, Greatest, S
<1>8. CASE loads[c] # <<>>
  <2> DEFINE l == Len(loads[c])
             x == loads[c][l]
  <2>1. l \in DOMAIN loads[c] /\ DOMAIN loads[c] = 1..l /\ l \in Nat /\ \A j \in 1..l : loads[c][j] \in Nat
    BY <1>1, <1>8
  <2>2. KeyOf(c) = x
    BY <1>8 DEF KeyOf, Last
  <2>3. x \in S
    BY <1>5, <2>1 DEF Loaded
  <2>4. ASSUME NEW m \in S PROVE m <= x
    <3>1. PICK j \in DOMAIN loads[c] : loads[c][j] = m
      BY <1>4 DEF Loaded
    <3>2. j < l => loads[c][j] < x
      BY <1>1, <2>1 DEF InOrder
    <3>3. j = l \/ j < l
      BY <2>1
    <3> QED BY <1>6, <2>1, <3>1, <3>2, <3>3
  <2> HIDE DEF x, l
  <2>5. Greatest(S) = x
    BY <1>6, <2>3, <2>4, GreatestIs
  <2> QED BY <2>2, <2>5, KeyIsGreatest DEF S
<1> QED BY <1>7, <1>8

\* An answer on offer is a new one, or the one that was, a beat on or not.
LEMMA OfferMoves ==
  ASSUME FabricInv, NEW m_tready \in BOOLEAN, Cycle(m_tready), NEW c \in Core, offered(c)'
  PROVE  \/ /\ Answering(c, m_tready, 1) /\ out'[c].at = 1
         \/ /\ offered(c) /\ ~ends(c, m_tready) /\ Answering(c, m_tready, 0)
            /\ out'[c].id = out[c].id /\ out'[c].status = out[c].status
            /\ out'[c].key = out[c].key /\ (out'[c].intact <=> out[c].intact)
            /\ out'[c].len = out[c].len
            /\ out'[c].at = IF popped(c, m_tready) THEN out[c].at + 1 ELSE out[c].at
<1>1. /\ Stream /\ Dispatched /\ CoreHolds(c) /\ CORES(m_tready)
      /\ DOMAIN out[c] = DOMAIN NoOut
  BY DEF FabricInv, Cycle, CoreHolds
<1>2. PICK d \in {0, 1} : Answering(c, m_tready, d)
  BY <1>1, HeldStep
<1>3. CASE d = 1
  <2>1. out'[c] \in AnswerOf(c, inq[c][1])
    BY <1>2, <1>3 DEF Answering
  <2> QED BY <1>2, <1>3, <2>1, AnswerFacts
<1>4. CASE d = 0
  <2>1. out'[c] = OutAfter(c, m_tready)
    BY <1>2, <1>4 DEF Answering
  <2>2. offered(c) /\ ~ends(c, m_tready)
    <3>1. OutAfter(c, m_tready).at # 0
      BY <2>1 DEF offered
    <3> QED BY <1>1, <3>1, OutAfterFacts DEF ends
  <2>3. CASE popped(c, m_tready)
    <3> DEFINE o == [out[c] EXCEPT !.at = @ + 1]
    <3>1. OutAfter(c, m_tready) = o
      BY <2>2, <2>3 DEF OutAfter, ends
    <3>2. /\ o.id = out[c].id /\ o.status = out[c].status /\ o.key = out[c].key
          /\ o.intact = out[c].intact /\ o.len = out[c].len /\ o.at = out[c].at + 1
      BY <1>1 DEF NoOut
    <3> HIDE DEF o
    <3>3. out'[c].intact = out[c].intact
      BY <2>1, <3>1, <3>2
    <3>4. out'[c].at = out[c].at + 1
      BY <2>1, <3>1, <3>2
    <3> QED BY <1>2, <1>4, <2>1, <2>2, <2>3, <3>1, <3>2, <3>3, <3>4
  <2>4. CASE ~popped(c, m_tready)
    <3>1. out'[c] = out[c]
      BY <2>1, <2>4 DEF OutAfter
    <3> QED BY <1>2, <1>4, <2>2, <2>4, <3>1
  <2> QED BY <2>3, <2>4
<1> QED BY <1>3, <1>4

\* A frame that is begun does not change the answer to those before it.
LEMMA AnswerStays ==
  ASSUME Stream, SOURCE, NEW n \in DOMAIN arrived, NEW a, a = arrived'
  PROVE  Server!AnswerTo(a, n) = Server!AnswerTo(arrived, n)
<1>1. arrived \in Seq(Frames) /\ a \in Seq(Frames)
  <2>1. Stream'
    BY SourceStep
  <2> QED BY <2>1 DEF Stream
<1>2. \A m \in DOMAIN arrived : m \in DOMAIN a /\ a[m] = arrived[m]
  BY FramesStay
<1>3. \A m \in 1..n : m \in DOMAIN arrived
  BY <1>1
<1>4. \A m \in 1..n : a[m] = arrived[m]
  BY <1>2, <1>3
<1> QED BY <1>1, <1>2, <1>4, SameAnswer

\* A core that judges as the other does answers as the one device would.
LEMMA AnswersStep ==
  ASSUME ~CoresMayDiverge, LoadsInv, NEW m_tready \in BOOLEAN, Cycle(m_tready), NEW c \in Core,
         Wholes(c), AnswersRight(c)
  PROVE  AnswersRight(c)'
<1> SUFFICES ASSUME offered(c)', NEW a, a = arrived', NEW o, o = out'[c]
    PROVE  Right(a, o)
  BY DEF AnswersRight, Right
<1>1. /\ FabricInv /\ Stream /\ SOURCE /\ CoreHolds(c) /\ InOrder(c)
  BY DEF LoadsInv, FabricInv, Cycle
<1>2. CASE Answering(c, m_tready, 1)
  <2> DEFINE beats == inq[c][1]
             n == FrameOf(inq[c][1])
  <2>1. o \in AnswerOf(c, beats) /\ 1 \in DOMAIN inq[c]
    BY <1>2 DEF Answering
  <2>2. /\ o.id = n /\ o.status \in {IF arrived[n].good THEN "OK" ELSE "BAD"}
        /\ o.key = IF arrived[n].op = "load" THEN 0 ELSE KeyOf(c)
        /\ o.intact = (beats = [b \in 1..arrived[n].len |-> <<n, b>>])
    BY <2>1 DEF AnswerOf, FrameOf
  <2>3. WholeFrame(arrived, beats)
    BY <2>1 DEF Wholes
  <2>4. Oldest(c, o.id)
    BY <1>1, <1>2, OldestAnswered
  <2>5. KeyOf(c) = Server!KeyAt(arrived, n)
    BY <2>2, <2>4, KeyIsThere
  <2>6. n \in DOMAIN arrived
    BY <1>1, <2>1 DEF CoreHolds, Reached
  <2>7. o.intact
    BY <2>2, <2>3, Zenon DEF WholeFrame
  <2> HIDE DEF beats, n
  <2>8. Server!AnswerTo(a, n) = Server!AnswerTo(arrived, n)
    BY <1>1, <2>6, AnswerStays
  <2>9. Server!AnswerTo(arrived, n).status = (IF arrived[n].good THEN "OK" ELSE "BAD")
    BY AnswerSays
  <2>10. Server!AnswerTo(arrived, n).key = (IF arrived[n].op = "load" THEN 0 ELSE Server!KeyAt(arrived, n))
    BY AnswerSays
  <2> QED BY <2>2, <2>5, <2>7, <2>8, <2>9, <2>10 DEF Right
<1>3. CASE /\ offered(c) /\ o.id = out[c].id /\ o.status = out[c].status
           /\ o.key = out[c].key /\ (o.intact <=> out[c].intact)
  <2>1. out[c].id \in DOMAIN arrived
    BY <1>1, <1>3 DEF CoreHolds, Reached
  <2>2. Server!AnswerTo(a, o.id) = Server!AnswerTo(arrived, o.id)
    BY <1>1, <1>3, <2>1, AnswerStays
  <2>3. Right(arrived, out[c])
    BY <1>3 DEF AnswersRight
  <2> QED BY <1>3, <2>2, <2>3 DEF Right
<1> QED BY <1>1, <1>2, <1>3, OfferMoves

\* The answer of which a beat was taken is the one passed on.
LEMMA FirstBeatStep ==
  ASSUME MergeInv, NEW m_tready \in BOOLEAN, Cycle(m_tready), NEW c \in Core, FirstBeat(c)
  PROVE  FirstBeat(c)'
<1>1. FabricInv /\ Collecting /\ COLLECT(m_tready) /\ c_src \in Core /\ (c = 0 \/ c = 1)
  BY DEF MergeInv, CoresInv, TagsInv, Cycle, Collecting, Core
<1> SUFFICES ASSUME offered(c)', c_state' # "C_PASS" \/ c_src' # c PROVE out'[c].at = 1
  BY DEF FirstBeat
<1>2. CASE Answering(c, m_tready, 1) /\ out'[c].at = 1
  BY <1>2
<1>3. CASE /\ offered(c) /\ ~ends(c, m_tready)
           /\ out'[c].at = IF popped(c, m_tready) THEN out[c].at + 1 ELSE out[c].at
  <2>1. c_state = "C_PASS" /\ c_src = c => c_state' = "C_PASS" /\ c_src' = c
    BY <1>1, <1>3 DEF COLLECT, CStartBcast, CStartPass, CIdle, CPass, CBcast, ends
  <2>2. popped(c, m_tready) => c_state = "C_PASS" /\ c_src = c
    <3>1. c_state = "C_BCAST" => ~popped(c, m_tready)
      BY <1>1, <1>3, Merges DEF ends
    <3> QED BY <3>1 DEF popped
  <2> QED BY <1>3, <2>1, <2>2 DEF FirstBeat
<1> QED BY <1>1, <1>2, <1>3, OfferMoves

\* What a core holds it held, unless the frame coming in has joined the rest.
LEMMA NewlyHeld ==
  ASSUME CoresInv, NEW m_tready \in BOOLEAN, Cycle(m_tready), NEW c \in Core
  PROVE  /\ \A n : Holding(c, n)' =>
              \/ Holding(c, n)
              \/ taken(c) /\ s_tlast /\ n = Len(arrived) /\ ~Reached(c, n) /\ n \in DOMAIN arrived
         /\ taken(c) /\ s_tlast => \A n : n = Len(arrived) => Holding(c, n)'
<1>1. /\ FabricInv /\ Stream /\ Dispatched /\ TagRoom /\ CoreHolds(c) /\ SOURCE /\ DISPATCH
      /\ CORES(m_tready) /\ InOrder(c)
  BY DEF CoresInv, TagsInv, FabricInv, Cycle
<1>2. PICK d \in {0, 1} : Answering(c, m_tready, d)
  BY <1>1, HeldStep
<1>3. /\ \A n : InQueue(c, n)' => InQueue(c, n) \/ (taken(c) /\ s_tlast /\ n = Len(arrived))
      /\ d = 1 => InQueue(c, out'[c].id)
      /\ taken(c) /\ s_tlast => \A n : n = Len(arrived) => InQueue(c, n)'
  BY <1>1, <1>2, QueueMoves
<1>4. offered(c)' => Holding(c, out'[c].id)
  <2>1. CASE d = 1
    BY <1>3, <2>1 DEF Holding
  <2>2. CASE d = 0
    <3>1. out'[c] = OutAfter(c, m_tready)
      BY <1>2, <2>2 DEF Answering
    <3> QED BY <1>1, <3>1, OutAfterFacts DEF Holding, offered
  <2> QED BY <2>1, <2>2
<1>5. taken(c) => /\ Len(arrived) \in DOMAIN arrived /\ ~Reached(c, Len(arrived))
  <2>1. taken(c) => Len(arrived) \in Nat /\ Len(arrived) > 0 /\ \A n : Reached(c, n) => n < Len(arrived)
    BY <1>1, ReachedStep
  <2>2. arrived \in Seq(Frames)
    BY <1>1 DEF Stream
  <2> QED BY <2>1, <2>2
<1>6. ASSUME NEW n, Holding(c, n)'
      PROVE  Holding(c, n) \/ (taken(c) /\ s_tlast /\ n = Len(arrived))
  <2>1. InQueue(c, n)' \/ (offered(c)' /\ out'[c].id = n)
    BY <1>6 DEF Holding
  <2> QED BY <1>3, <1>4, <2>1 DEF Holding
<1>7. taken(c) /\ s_tlast => \A n : n = Len(arrived) => Holding(c, n)'
  BY <1>3 DEF Holding
<1> QED BY <1>5, <1>6, <1>7

-----------------------------------------------------------------------------
(* What a reply says, and when it leaves.                                   *)

\* The beats of an answer to frame n, from the first to the l-th.
AnswerBeats(left, n, l) ==
  /\ \E S : left \in Seq(S)
  /\ Len(left) = l /\ Len(left) > 0
  /\ \A b \in DOMAIN left :
       /\ left[b].id = n /\ left[b].at = b
       /\ left[b].status = Server!AnswerTo(arrived, n).status
       /\ left[b].key = Server!AnswerTo(arrived, n).key

\* The reply the encoder has, when the last beat was taken.
ReplyOf(left, from) ==
  [id |-> left[1].id, status |-> left[1].status, key |-> left[1].key,
   whole |-> /\ from.intact
             /\ Len(left) = from.len
             /\ \A b \in DOMAIN left : left[b].id = from.id /\ left[b].at = b]

LEMMA ReplyIs ==
  ASSUME NEW left, NEW from, NEW n, AnswerBeats(left, n, from.len), from.id = n, from.intact
  PROVE  ReplyOf(left, from) = Server!AnswerTo(arrived, n)
<1>1. 1 \in DOMAIN left
  BY DEF AnswerBeats
<1>2. PICK w : w = (/\ from.intact
                    /\ Len(left) = from.len
                    /\ \A b \in DOMAIN left : left[b].id = from.id /\ left[b].at = b)
  OBVIOUS
<1>3. w = TRUE
  BY <1>2 DEF AnswerBeats
<1>4. PICK a : a = Server!AnswerTo(arrived, n)
  OBVIOUS
<1>5. a = [id |-> n, status |-> a.status, key |-> a.key, whole |-> TRUE]
  BY <1>4 DEF Server!AnswerTo
<1>6. left[1].id = n /\ left[1].status = a.status /\ left[1].key = a.key
  BY <1>1, <1>4 DEF AnswerBeats
<1>7. [id |-> left[1].id, status |-> left[1].status, key |-> left[1].key, whole |-> w] = a
  BY <1>3, <1>5, <1>6
<1>8. ReplyOf(left, from) = [id |-> left[1].id, status |-> left[1].status, key |-> left[1].key,
                             whole |-> w]
  BY <1>2, Zenon DEF ReplyOf
<1> QED BY <1>4, <1>7, <1>8

\* The beats of the answer passed on, the one under way included.
LEMMA PassedBeats ==
  ASSUME MergeInv, CoresOk, LeavingOk, c_state = "C_PASS"
  PROVE  AnswerBeats(Append(leaving, m_beat), out[c_src].id, out[c_src].at)
<1> DEFINE left == Append(leaving, m_beat)
<1>a. PICK c : c = c_src
  OBVIOUS
<1>b. PICK n : n = out[c].id
  OBVIOUS
<1>1. /\ c \in Core /\ offered(c) /\ CoreHolds(c) /\ Right(arrived, out[c])
  BY <1>a DEF MergeInv, CoresInv, TagsInv, FabricInv, Collecting, CoresOk, AnswersRight
<1>2. /\ Len(leaving) + 1 = out[c].at
      /\ \A b \in DOMAIN leaving :
           /\ leaving[b].id = n /\ leaving[b].at = b
           /\ leaving[b].status = out[c].status /\ leaving[b].key = out[c].key
  BY <1>a, <1>b DEF LeavingOk
<1>3. PICK x : x = m_beat
  OBVIOUS
<1>4. x.id = n /\ x.at = out[c].at /\ x.status = out[c].status /\ x.key = out[c].key
  BY <1>1, <1>3, <1>a, <1>b DEF m_beat, m_src, CoreHolds, NoOut
<1>5. PICK S0 : leaving \in Seq(S0)
  BY DEF MergeInv, Tracks, RepliesOk
<1> DEFINE S == S0 \cup {x}
<1>6. leaving \in Seq(S) /\ x \in S /\ Len(leaving) \in Nat /\ left = Append(leaving, x)
  BY <1>3, <1>5
<1> HIDE DEF S, left
<1>7. /\ left \in Seq(S) /\ Len(left) = Len(leaving) + 1
      /\ DOMAIN left = 1..(Len(leaving) + 1) /\ DOMAIN leaving = 1..Len(leaving)
      /\ left[Len(leaving) + 1] = x /\ \A b \in 1..Len(leaving) : left[b] = leaving[b]
  BY <1>6
<1>8. ASSUME NEW b \in DOMAIN left
      PROVE  /\ left[b].id = n /\ left[b].at = b
             /\ left[b].status = out[c].status /\ left[b].key = out[c].key
  <2>1. b = Len(leaving) + 1 \/ b \in 1..Len(leaving)
    BY <1>6, <1>7
  <2>2. CASE b = Len(leaving) + 1
    <3>1. left[b] = x
      BY <1>7, <2>2
    <3> QED BY <1>2, <1>4, <2>2, <3>1
  <2>3. CASE b \in 1..Len(leaving)
    <3>1. left[b] = leaving[b] /\ b \in DOMAIN leaving
      BY <1>7, <2>3
    <3> QED BY <1>2, <3>1
  <2> QED BY <2>1, <2>2, <2>3
<1>9. /\ out[c].status = Server!AnswerTo(arrived, n).status
      /\ out[c].key = Server!AnswerTo(arrived, n).key
  BY <1>1, <1>b DEF Right
<1>10. Len(left) = out[c].at /\ Len(left) > 0
  BY <1>2, <1>6, <1>7
<1>11. AnswerBeats(left, n, out[c].at)
  BY <1>7, <1>8, <1>9, <1>10 DEF AnswerBeats
<1> QED BY <1>a, <1>b, <1>11 DEF left

\* The one beat of a merged reply.
LEMMA MergedBeat ==
  ASSUME MergeInv, CoresOk, MergingOk, c_state = "C_BCAST"
  PROVE  AnswerBeats(Append(leaving, m_beat), out[0].id, out[0].at)
<1> DEFINE left == Append(leaving, m_beat)
<1>b. PICK n : n = out[0].id
  OBVIOUS
<1>1. /\ 0 \in Core /\ offered(0) /\ CoreHolds(0) /\ Right(arrived, out[0])
      /\ out[0].at = 1 /\ fwd_first /\ leaving = <<>>
  BY Merges DEF MergeInv, Tracks, MergeOk, CoresInv, TagsInv, FabricInv, CoresOk, AnswersRight,
                FirstBeat, Core
<1>2. PICK x : x = m_beat
  OBVIOUS
<1>3. x.id = n /\ x.at = 1 /\ x.status = merged_status /\ x.key = out[0].key
  BY <1>1, <1>2, <1>b DEF m_beat, m_src, CoreHolds, NoOut
<1>4. left = <<x>>
  BY <1>1, <1>2
<1> HIDE DEF left
<1>5. DOMAIN left = {1} /\ left[1] = x /\ Len(left) = 1
  BY <1>4
<1>6. left \in Seq({x})
  BY <1>4
<1>7. /\ x.id = n /\ x.at = 1
      /\ x.status = Server!AnswerTo(arrived, n).status
      /\ x.key = Server!AnswerTo(arrived, n).key
  BY <1>1, <1>3, <1>b DEF Right, MergingOk
<1>8. AnswerBeats(left, n, out[0].at)
  BY <1>1, <1>5, <1>6, <1>7 DEF AnswerBeats
<1> QED BY <1>b, <1>8 DEF left

\* Nothing leaves, or the reply to a frame does: handed over, not replied to
\* before, and after all that stand before it where a load is between.
Leaves(n, m_tready) ==
  /\ replies' = Append(replies, Server!AnswerTo(arrived, n))
  /\ Complete(n) /\ ~Replied(n)
  /\ \A c \in Core : ~Holding(c, n)' /\ (ends(c, m_tready) => out[c].id = n)
  /\ \A k \in 1..(n - 1) : StreamBit(n) \/ StreamBit(k) => Replied(k)
NoneLeaves(m_tready) ==
  /\ replies' = replies
  /\ \A c \in Core : ends(c, m_tready) => StreamBit(out[c].id)

\* A frame below the one a core answers is not held by it.
LEMMA NoneBelow ==
  ASSUME MergeInv, NEW c \in Core, offered(c), NEW k, k < out[c].id
  PROVE  ~Holding(c, k)
<1>1. InOrder(c) /\ Reached(c, out[c].id) /\ Stream
  BY DEF MergeInv, CoresInv, TagsInv, FabricInv, CoreHolds
<1>2. out[c].id \in Nat
  BY <1>1 DEF Reached, Stream
<1>3. InQueue(c, k) => out[c].id < k
  BY <1>1 DEF InOrder
<1>4. InQueue(c, k) => k \in Nat
  <2>1. InQueue(c, k) => Reached(c, k)
    BY DEF InQueue, MergeInv, CoresInv, TagsInv, FabricInv, CoreHolds
  <2> QED BY <1>1, <2>1 DEF Reached, Stream
<1>5. ~InQueue(c, k)
  BY <1>2, <1>3, <1>4
<1>6. out[c].id # k
  BY <1>2
<1> QED BY <1>5, <1>6 DEF Holding

LEMMA PassLeaves ==
  ASSUME OneServer, NEW m_tready \in BOOLEAN, Cycle(m_tready), c_state = "C_PASS"
  PROVE  NoneLeaves(m_tready) \/ Leaves(out[c_src].id, m_tready)
<1>1. /\ MergeInv /\ CoresOk /\ LeavingOk /\ FabricInv /\ Collecting /\ MergeOk /\ CoresInv
      /\ Stream /\ Dispatched /\ SINK(m_tready) /\ ~(sent[0] /\ sent[1])
  BY DEF OneServer, RepliesRight, CoresOk, MergeInv, Tracks, CoresInv, TagsInv, FabricInv, Cycle
<1>2. PICK c \in Core : c = c_src
  BY <1>1 DEF Collecting
<1>3. PICK n : n = out[c].id
  OBVIOUS
<1>4. /\ offered(c) /\ ~StreamBit(n) /\ Reached(c, n) /\ Right(arrived, out[c])
      /\ \A k \in Core : popped(k, m_tready) => k = c
      /\ m_src = c /\ (m_fire(m_tready) <=> popped(c, m_tready))
  BY <1>1, <1>2, <1>3 DEF Collecting, MergeOk, FabricInv, CoreHolds, CoresOk, AnswersRight,
                          popped, m_src, m_fire
<1>5. CASE ~ends(c, m_tready)
  <2>1. replies' = replies
    BY <1>1, <1>4, <1>5 DEF SINK, sinkVars, ends
  <2>2. \A k \in Core : ~ends(k, m_tready)
    BY <1>4, <1>5 DEF ends
  <2> QED BY <2>1, <2>2 DEF NoneLeaves
<1>6. CASE ends(c, m_tready)
  <2> DEFINE left == Append(leaving, m_beat)
             from == out[m_src]
             r == ReplyOf(left, from)
  <2>1. replies' = Append(replies, r)
    BY <1>1, <1>4, <1>6 DEF SINK, ends, ReplyOf
  <2>2. from = out[c] /\ from.id = n /\ from.intact /\ from.len = out[c].at
    BY <1>3, <1>4, <1>6 DEF Right, ends, outlast
  <2>3. AnswerBeats(left, n, from.len)
    <3>1. AnswerBeats(left, out[c_src].id, out[c_src].at)
      BY <1>1, PassedBeats
    <3> HIDE DEF left
    <3> QED BY <1>2, <1>3, <2>2, <3>1
  <2>7. r = Server!AnswerTo(arrived, n)
    <3>1. from.id = n /\ from.intact
      BY <2>2
    <3> HIDE DEF left, from
    <3> QED BY <2>3, <3>1, ReplyIs, Zenon
  <2> HIDE DEF r
  <2>8. Complete(n) /\ \A k \in Core : Reached(k, n)
    BY <1>1, <1>4, ReachedIsComplete
  <2>9. WorkOnce(n) /\ n \in DOMAIN arrived
    BY <2>8 DEF OneServer, RepliesRight, Complete
  <2>10. Holding(c, n)
    BY <1>3, <1>4 DEF Holding
  <2>11. ~Replied(n) /\ \A k \in Core : k # c => ~Holding(k, n)
    BY <1>4, <2>9, <2>10 DEF WorkOnce, Core
  <2>12. \A k \in Core : ~Holding(k, n)'
    BY <1>1, <1>3, <1>4, <1>6, <2>8, <2>11, HoldingMoves
  <2>13. \A k \in Core : ends(k, m_tready) => out[k].id = n
    BY <1>3, <1>4 DEF ends
  <2>14. ASSUME NEW k \in 1..(n - 1), StreamBit(k) PROVE Replied(k)
    <3>1. n \in Nat /\ k < n
      BY <1>1, <2>9 DEF Stream
    <3>2. Reached(c, k)
      BY <1>1, <1>4, <3>1, ReachedBelow DEF Reached, Stream
    <3>3. ~Holding(c, k)
      BY <1>1, <1>3, <1>4, <3>1, NoneBelow
    <3>4. NoLoadLost(c, k)
      BY <1>1 DEF MergeInv, Tracks
    <3>5. ~half_done(c)
      BY DEF half_done
    <3> QED BY <2>14, <3>2, <3>3, <3>4, <3>5 DEF NoLoadLost
  <2>15. Leaves(n, m_tready)
    BY <1>4, <2>1, <2>7, <2>8, <2>11, <2>12, <2>13, <2>14 DEF Leaves
  <2> QED BY <1>2, <1>3, <2>15
<1> QED BY <1>5, <1>6

\* While a load is merged, neither core holds a frame from before it.
LEMMA BarrierHolds ==
  ASSUME MergeInv, MergingOk, c_state = "C_BCAST", NEW c \in Core, NEW k, Holding(c, k)
  PROVE  out[0].id <= k
<1>1. /\ c = 0 \/ c = 1
      /\ \A m \in Core : FabricInv /\ InOrder(m) /\ CoreHolds(m)
  BY DEF MergeInv, CoresInv, TagsInv, FabricInv, Core
<1>2. Stream /\ Reached(c, k)
  BY <1>1 DEF FabricInv, Holding, InQueue, CoreHolds
<1>3. k \in Nat
  BY <1>2 DEF Stream, Reached
<1>4. offered(0) /\ (~drn_done => offered(1) /\ out[1].id = out[0].id)
  BY Merges
<1>5. out[0].id \in Nat
  <2>1. Reached(0, out[0].id)
    BY <1>1, <1>4 DEF CoreHolds, Core
  <2> QED BY <1>2, <2>1 DEF Stream, Reached
<1>6. CASE c = 1 /\ drn_done
  <2>1. out[0].id < k
    BY <1>6 DEF MergingOk
  <2> QED BY <1>3, <1>5, <2>1
<1>7. CASE offered(c) /\ out[c].id = out[0].id
  <2>1. InQueue(c, k) => out[c].id < k
    BY <1>1, <1>7 DEF InOrder
  <2> QED BY <1>3, <1>5, <1>7, <2>1 DEF Holding
<1> QED BY <1>1, <1>4, <1>6, <1>7

LEMMA MergeLeaves ==
  ASSUME OneServer, NEW m_tready \in BOOLEAN, Cycle(m_tready), c_state = "C_BCAST"
  PROVE  NoneLeaves(m_tready) \/ Leaves(out[0].id, m_tready)
<1>1. /\ MergeInv /\ CoresOk /\ MergingOk /\ FabricInv /\ MergeOk /\ CoresInv
      /\ Stream /\ Dispatched /\ SINK(m_tready) /\ ~(sent[0] /\ sent[1])
      /\ 0 \in Core /\ 1 \in Core /\ \A c \in Core : c = 0 \/ c = 1
  BY DEF OneServer, RepliesRight, CoresOk, MergeInv, Tracks, CoresInv, TagsInv, FabricInv, Cycle,
         Core
<1>2. PICK n : n = out[0].id
  OBVIOUS
<1>3. /\ offered(0) /\ StreamBit(n) /\ Right(arrived, out[0])
      /\ m_src = 0 /\ (m_fire(m_tready) <=> popped(0, m_tready))
      /\ ends(0, m_tready) <=> popped(0, m_tready)
      /\ ~fwd_done
  BY <1>1, <1>2, Merges DEF CoresOk, AnswersRight, m_src, m_fire, ends
<1>4. /\ \A c \in Core : Reached(c, n) /\ n \in DOMAIN arrived
      /\ ~Holding(1, n)'
      /\ m_tready => ~Holding(0, n)'
      /\ \A c \in Core : ends(c, m_tready) => out[c].id = n
      /\ ends(0, m_tready) <=> m_tready
  BY <1>1, <1>2, HalvesEnd
<1>5. CASE ~ends(0, m_tready)
  <2>1. replies' = replies
    BY <1>1, <1>3, <1>5 DEF SINK, sinkVars
  <2> QED BY <1>3, <1>4, <2>1 DEF NoneLeaves
<1>6. CASE ends(0, m_tready)
  <2> DEFINE left == Append(leaving, m_beat)
             from == out[m_src]
             r == ReplyOf(left, from)
  <2>1. replies' = Append(replies, r)
    BY <1>1, <1>3, <1>6 DEF SINK, ends, ReplyOf
  <2>2. from = out[0] /\ from.id = n /\ from.intact /\ from.len = out[0].at
    BY <1>2, <1>3, <1>6 DEF Right, ends, outlast
  <2>3. AnswerBeats(left, n, from.len)
    <3>1. AnswerBeats(left, out[0].id, out[0].at)
      BY <1>1, MergedBeat
    <3> HIDE DEF left
    <3> QED BY <1>2, <2>2, <3>1
  <2>4. r = Server!AnswerTo(arrived, n)
    <3>1. from.id = n /\ from.intact
      BY <2>2
    <3> HIDE DEF left, from
    <3> QED BY <2>3, <3>1, ReplyIs, Zenon
  <2> HIDE DEF r
  <2>5. Complete(n)
    BY <1>1, <1>4, ReachedIsComplete
  <2>6. ~Replied(n)
    <3>1. NoLoadLost(0, n) /\ Holding(0, n)
      BY <1>1, <1>2, <1>3 DEF MergeInv, Tracks, Holding
    <3> QED BY <1>3, <3>1 DEF NoLoadLost
  <2>7. ASSUME NEW c \in Core PROVE ~Holding(c, n)' /\ (ends(c, m_tready) => out[c].id = n)
    BY <1>1, <1>4, <1>6
  <2>8. ASSUME NEW k \in 1..(n - 1) PROVE Replied(k)
    <3>1. n \in Nat /\ n \in DOMAIN arrived /\ DOMAIN arrived = 1..Len(arrived)
          /\ Len(arrived) \in Nat
      BY <1>1, <1>4 DEF Stream
    <3>2. k < n /\ k \in DOMAIN arrived /\ k # Len(arrived) /\ ~(n <= k)
      <4>1. PICK l \in Nat : l = Len(arrived)
        BY <3>1
      <4>2. n \in 1..l /\ DOMAIN arrived = 1..l
        BY <3>1, <4>1
      <4>3. k < n /\ k \in 1..l /\ k # l /\ ~(n <= k)
        BY <3>1, <4>2
      <4> QED BY <4>1, <4>2, <4>3
    <3>3. Reached(0, k) /\ Complete(k)
      BY <3>2 DEF Reached, Complete
    <3>4. \A c \in Core : ~Holding(c, k)
      BY <1>1, <1>2, <3>2, BarrierHolds
    <3>5. CASE StreamBit(k)
      <4>1. NoLoadLost(0, k) /\ ~half_done(0)
        BY <1>1, <1>3 DEF MergeInv, Tracks, half_done
      <4> QED BY <1>1, <3>3, <3>4, <3>5, <4>1 DEF NoLoadLost
    <3>6. CASE ~StreamBit(k)
      <4>1. WorkOnce(k)
        BY DEF OneServer, RepliesRight
      <4> QED BY <1>1, <3>2, <3>3, <3>4, <3>6, <4>1 DEF WorkOnce
    <3> QED BY <3>5, <3>6
  <2>9. Leaves(n, m_tready)
    BY <2>1, <2>4, <2>5, <2>6, <2>7, <2>8 DEF Leaves
  <2> QED BY <1>2, <2>9
<1> QED BY <1>5, <1>6

\* In a cycle the reply to one frame leaves, or none.
LEMMA RepliesStep ==
  ASSUME OneServer, NEW m_tready \in BOOLEAN, Cycle(m_tready)
  PROVE  NoneLeaves(m_tready) \/ \E n : Leaves(n, m_tready)
<1>1. Collecting /\ SINK(m_tready)
  BY DEF OneServer, MergeInv, CoresInv, TagsInv, Cycle
<1>2. CASE c_state = "C_IDLE"
  <2>1. \A c \in Core : ~popped(c, m_tready)
    BY <1>2 DEF popped
  <2>2. replies' = replies
    BY <1>1, <1>2 DEF SINK, m_fire, sinkVars
  <2> QED BY <2>1, <2>2 DEF NoneLeaves, ends
<1>3. CASE c_state = "C_PASS"
  BY <1>3, PassLeaves
<1>4. CASE c_state = "C_BCAST"
  BY <1>4, MergeLeaves
<1> QED BY <1>1, <1>2, <1>3, <1>4 DEF Collecting

\* What is replied to, a cycle on.
LEMMA RepliedMoves ==
  ASSUME OneServer, NEW m_tready \in BOOLEAN, Cycle(m_tready)
  PROVE  /\ NoneLeaves(m_tready) => \A k : Replied(k)' <=> Replied(k)
         /\ \A n : Leaves(n, m_tready) => \A k : Replied(k)' <=> Replied(k) \/ k = n
<1>1. NoneLeaves(m_tready) => \A k : Replied(k)' <=> Replied(k)
  BY DEF NoneLeaves, Replied
<1>2. ASSUME NEW n, Leaves(n, m_tready), NEW k PROVE Replied(k)' <=> Replied(k) \/ k = n
  <2>1. PICK S : replies \in Seq(S)
    BY DEF OneServer, MergeInv, Tracks, RepliesOk
  <2>2. PICK r : r = Server!AnswerTo(arrived, n)
    OBVIOUS
  <2>3. r.id = n
    BY <2>2 DEF Server!AnswerTo
  <2>4. replies' = Append(replies, r)
    BY <1>2, <2>2 DEF Leaves
  <2> QED BY <2>1, <2>3, <2>4, ReplyJoins
<1> QED BY <1>1, <1>2

\* A reply is to a frame that was handed over.
LEMMA CompleteReplies ==
  ASSUME OneServer, NEW m_tready \in BOOLEAN, Cycle(m_tready), NEW k, Replied(k)'
  PROVE  Complete(k)'
<1>1. Stream /\ SOURCE /\ \A n : Replied(n) => Complete(n)
  BY DEF OneServer, MergeInv, CoresInv, TagsInv, FabricInv, RepliesRight, Cycle
<1>2. Replied(k) \/ \E n : Leaves(n, m_tready) /\ n = k
  BY RepliesStep, RepliedMoves
<1>3. Complete(k)
  BY <1>1, <1>2 DEF Leaves
<1> QED BY <1>1, <1>3, CompleteStep

\* A frame of work goes to one core, stays there until its reply leaves, and
\* does not come back.
LEMMA WorkStep ==
  ASSUME OneServer, NEW m_tready \in BOOLEAN, Cycle(m_tready), NEW n
  PROVE  WorkOnce(n)'
<1>1. /\ CoresInv /\ FabricInv /\ Stream /\ Dispatched /\ TagRoom /\ SOURCE /\ DISPATCH
      /\ ~(sent[0] /\ sent[1]) /\ 0 \in Core /\ 1 \in Core /\ \A c \in Core : c = 0 \/ c = 1
      /\ WorkOnce(n) /\ (Replied(n) => Complete(n))
  BY DEF OneServer, MergeInv, CoresInv, TagsInv, FabricInv, CoresOk, RepliesRight, Cycle, Core
<1> SUFFICES ASSUME n \in DOMAIN arrived', ~StreamBit(n)'
    PROVE  /\ Complete(n)' => Holding(0, n)' \/ Holding(1, n)' \/ Replied(n)'
           /\ ~(Holding(0, n)' /\ Holding(1, n)')
           /\ Replied(n)' => ~Holding(0, n)' /\ ~Holding(1, n)'
  BY DEF WorkOnce
<1>2. Replied(n)' => Complete(n)'
  BY CompleteReplies
<1>3. ASSUME NEW c \in Core, Holding(c, n)'
      PROVE  \/ Holding(c, n)
             \/ taken(c) /\ s_tlast /\ n = Len(arrived) /\ ~Reached(c, n) /\ n \in DOMAIN arrived
  BY <1>1, <1>3, NewlyHeld
<1>4. ASSUME NEW c \in Core, Holding(c, n) PROVE Reached(c, n) /\ n \in DOMAIN arrived
  BY <1>1, <1>4, HoldingMoves
<1>5. CASE n \notin DOMAIN arrived
  <2>1. ~Complete(n)' /\ ~Replied(n)'
    BY <1>1, <1>2, <1>5, CompleteStep
  <2>2. \A c \in Core : ~Holding(c, n)'
    BY <1>3, <1>4, <1>5
  <2> QED BY <1>1, <2>1, <2>2
<1>6. CASE n \in DOMAIN arrived
  <2>1. ~StreamBit(n)
    BY <1>1, <1>6, FramesStay
  <2>2. /\ Complete(n) => Holding(0, n) \/ Holding(1, n) \/ Replied(n)
        /\ ~(Holding(0, n) /\ Holding(1, n))
        /\ Replied(n) => ~Holding(0, n) /\ ~Holding(1, n)
    BY <1>1, <1>6, <2>1 DEF WorkOnce
  <2>3. ASSUME NEW c \in Core, Holding(c, n) PROVE Complete(n) /\ \A k \in Core : Reached(k, n)
    BY <1>1, <1>4, <2>1, <2>3, ReachedIsComplete
  <2>4. ASSUME NEW c \in Core, taken(c), n = Len(arrived)
        PROVE  d_state = "D_FWD" /\ target = c /\ Underway
    <3>1. ~is_bcast
      BY <2>1, <2>4 DEF is_bcast, StreamBit
    <3> QED BY <1>1, <2>4, <3>1, DispatchStep DEF taken, m_tvalid
  <2>5. ~(Holding(0, n)' /\ Holding(1, n)')
    <3>1. ASSUME NEW c \in Core, NEW k \in Core, k # c, Holding(c, n), Holding(k, n)'
          PROVE  FALSE
      BY <1>1, <1>3, <2>2, <2>3, <3>1
    <3>2. ASSUME ~Holding(0, n), ~Holding(1, n), Holding(0, n)', Holding(1, n)' PROVE FALSE
      <4>1. target = 0 /\ target = 1
        BY <1>1, <1>3, <2>4, <3>2
      <4> QED BY <4>1
    <3> QED BY <1>1, <3>1, <3>2
  <2>6. ASSUME NEW c \in Core, Replied(n)' PROVE ~Holding(c, n)'
    <3>1. CASE Replied(n)
      <4>1. Complete(n) /\ Reached(c, n) /\ ~Holding(c, n)
        BY <1>1, <2>2, <3>1, ReachedIsComplete
      <4> QED BY <1>1, <4>1, HoldingMoves
    <3>2. CASE ~Replied(n)
      <4>1. Leaves(n, m_tready)
        BY <2>6, <3>2, RepliesStep, RepliedMoves
      <4> QED BY <4>1 DEF Leaves
    <3> QED BY <3>1, <3>2
  <2>7. ASSUME Complete(n)' PROVE Holding(0, n)' \/ Holding(1, n)' \/ Replied(n)'
    <3>1. CASE Complete(n) /\ Replied(n)
      BY <3>1, RepliesStep, RepliedMoves
    <3>2. ASSUME NEW c \in Core, Holding(c, n) PROVE Holding(c, n)' \/ Replied(n)'
      <4>1. Holding(c, n)' \/ (ends(c, m_tready) /\ out[c].id = n)
        BY <1>1, <3>2, HoldingMoves
      <4>2. ASSUME ends(c, m_tready), out[c].id = n PROVE Replied(n)'
        <5>1. ~NoneLeaves(m_tready)
          BY <2>1, <4>2 DEF NoneLeaves
        <5>2. PICK k : Leaves(k, m_tready)
          BY <5>1, RepliesStep
        <5>3. k = n
          BY <4>2, <5>2 DEF Leaves
        <5> QED BY <5>2, <5>3, RepliedMoves
      <4> QED BY <4>1, <4>2
    <3>3. CASE ~Complete(n)
      <4>1. s_fire /\ s_tlast /\ n = Len(arrived)
        BY <1>1, <2>7, <3>3, CompleteStep
      <4>2. \E c \in Core : taken(c)
        <5>1. ~is_bcast
          BY <2>1, <4>1 DEF is_bcast, StreamBit
        <5>2. d_state = "D_FWD" /\ target \in Core
          BY <1>1, <4>1, <5>1 DEF s_fire, s_tready, Dispatched
        <5> QED BY <4>1, <5>2 DEF s_fire, s_tready, taken, m_tvalid
      <4>3. \E c \in Core : Holding(c, n)'
        BY <1>1, <4>1, <4>2, NewlyHeld
      <4> QED BY <1>1, <4>3
    <3> QED BY <1>1, <2>2, <3>1, <3>2, <3>3
  <2> QED BY <1>1, <2>5, <2>6, <2>7
<1> QED BY <1>5, <1>6

LEMMA LeavingStep ==
  ASSUME OneServer, NEW m_tready \in BOOLEAN, Cycle(m_tready)
  PROVE  LeavingOk'
<1>1. /\ MergeInv /\ CoresOk /\ LeavingOk /\ FabricInv /\ Collecting /\ MergeOk
      /\ SINK(m_tready) /\ COLLECT(m_tready)
  BY DEF OneServer, RepliesRight, MergeInv, Tracks, CoresInv, TagsInv, Cycle
<1>2. PICK c : c = c_src'
  OBVIOUS
<1>3. PICK l : l = leaving'
  OBVIOUS
<1>4. PICK o : o = out'[c]
  OBVIOUS
<1> SUFFICES ASSUME c_state' = "C_PASS"
    PROVE  /\ Len(l) + 1 = o.at
           /\ \A b \in DOMAIN l : /\ l[b].id = o.id /\ l[b].at = b
                                  /\ l[b].status = o.status /\ l[b].key = o.key
  BY <1>2, <1>3, <1>4 DEF LeavingOk
<1>5. CASE CStartPass
  <2>1. PICK k \in Core : serves(k) /\ c_src' = k /\ c_state = "C_IDLE"
    BY <1>5 DEF CStartPass
  <2>2. k = c /\ offered(c) /\ c \in Core
    BY <1>2, <2>1 DEF serves, sel, cand
  <2>3. /\ \A j \in Core : ~popped(j, m_tready)
        /\ leaving' = leaving /\ leaving = <<>>
    BY <1>1, <2>1 DEF popped, SINK, m_fire, sinkVars, MergeOk
  <2>4. ~ends(c, m_tready) /\ out[c].at = 1
    BY <1>1, <2>1, <2>2, <2>3 DEF ends, CoresOk, FirstBeat
  <2>5. offered(c)' /\ Answering(c, m_tready, 0)
    BY <1>1, <2>2, <2>4, OfferStays
  <2>6. o = out[c]
    BY <1>4, <2>2, <2>3, <2>5 DEF Answering, OutAfter
  <2> QED BY <1>3, <2>3, <2>4, <2>6
<1>6. CASE CPass(m_tready)
  <2>1. /\ c_state = "C_PASS" /\ c = c_src /\ c \in Core /\ offered(c) /\ ~ends(c, m_tready)
        /\ m_src = c /\ (m_fire(m_tready) <=> popped(c, m_tready))
    BY <1>1, <1>2, <1>6 DEF CPass, Collecting, ends, m_src, m_fire
  <2>2. offered(c)' /\ Answering(c, m_tready, 0) /\ CoreHolds(c)
    BY <1>1, <2>1, OfferStays DEF FabricInv
  <2>3. o = OutAfter(c, m_tready)
    BY <1>4, <2>2 DEF Answering
  <2>4. CASE ~popped(c, m_tready)
    <3>1. leaving' = leaving /\ o = out[c]
      BY <1>1, <2>1, <2>3, <2>4 DEF SINK, sinkVars, OutAfter
    <3> QED BY <1>1, <1>3, <2>1, <3>1 DEF LeavingOk
  <2>5. CASE popped(c, m_tready)
    <3>1. ~outlast(c)
      BY <2>1, <2>5 DEF ends
    <3>2. l = Append(leaving, m_beat)
      BY <1>1, <1>3, <2>1, <2>5, <3>1 DEF SINK
    <3>3. AnswerBeats(Append(leaving, m_beat), out[c_src].id, out[c_src].at)
      BY <1>1, <2>1, PassedBeats
    <3>4. AnswerBeats(l, out[c].id, out[c].at)
      BY <2>1, <3>2, <3>3
    <3> DEFINE q == [out[c] EXCEPT !.at = @ + 1]
    <3>5. o = q
      BY <2>3, <2>5, <3>1 DEF OutAfter
    <3>6. /\ q.id = out[c].id /\ q.status = out[c].status /\ q.key = out[c].key
          /\ q.at = out[c].at + 1
      BY <2>2 DEF CoreHolds, NoOut
    <3> HIDE DEF q
    <3>7. Right(arrived, out[c])
      BY <1>1, <2>1 DEF CoresOk, AnswersRight
    <3>8. Len(l) + 1 = o.at
      BY <3>4, <3>5, <3>6 DEF AnswerBeats
    <3>9. o.id = out[c].id /\ o.status = out[c].status /\ o.key = out[c].key
      BY <3>5, <3>6
    <3>10. /\ out[c].status = Server!AnswerTo(arrived, out[c].id).status
           /\ out[c].key = Server!AnswerTo(arrived, out[c].id).key
      BY <3>7 DEF Right
    <3>11. ASSUME NEW b \in DOMAIN l
           PROVE  /\ l[b].id = o.id /\ l[b].at = b
                  /\ l[b].status = o.status /\ l[b].key = o.key
      BY <3>4, <3>9, <3>10 DEF AnswerBeats
    <3> QED BY <3>8, <3>11
  <2> QED BY <2>4, <2>5
<1>7. CStartPass \/ CPass(m_tready)
  BY <1>1 DEF COLLECT, CStartBcast, CIdle, CBcast
<1> QED BY <1>5, <1>6, <1>7

LEMMA MergingStep ==
  ASSUME OneServer, NEW m_tready \in BOOLEAN, Cycle(m_tready)
  PROVE  MergingOk'
<1>1. /\ MergeInv /\ CoresOk /\ MergingOk /\ FabricInv /\ CoresInv /\ MergeOk
      /\ Stream /\ Dispatched /\ TagRoom /\ SOURCE /\ DISPATCH /\ COLLECT(m_tready)
      /\ 0 \in Core /\ 1 \in Core
  BY DEF OneServer, RepliesRight, MergeInv, Tracks, CoresInv, TagsInv, FabricInv, Cycle, Core
<1>2. PICK n : n = out[0].id
  OBVIOUS
<1>3. PICK a : a = arrived'
  OBVIOUS
<1>4. n \in DOMAIN arrived => Server!AnswerTo(a, n) = Server!AnswerTo(arrived, n)
  BY <1>1, <1>3, AnswerStays
<1> SUFFICES ASSUME c_state' = "C_BCAST"
    PROVE  /\ merged_status' = Server!AnswerTo(a, out'[0].id).status
           /\ drn_done' => \A k : Holding(1, k)' => out'[0].id < k
  BY <1>3 DEF MergingOk
<1>5. CASE CStartBcast
  <2>1. /\ c_state = "C_IDLE" /\ both_bcast /\ ~drn_done'
        /\ merged_status' = IF out[0].status # "OK" THEN out[0].status ELSE out[1].status
    BY <1>5 DEF CStartBcast, BcastOnBoth, MergeFailsClosed
  <2>2. \A c \in Core : offered(c) /\ ~ends(c, m_tready) /\ ~half_done(c)
    BY <2>1 DEF both_bcast, cand, ends, popped, half_done
  <2>3. \A c \in Core : StreamBit(out[c].id)
    <3> SUFFICES ASSUME NEW c \in Core PROVE StreamBit(out[c].id)
      OBVIOUS
    <3>1. tags[c] \o Record(c) = Owed(c)
      BY <1>1 DEF CoresInv, TagsInv, TagsDescribe, Record
    <3>2. cand(c) /\ Head(tags[c])
      BY <2>1 DEF both_bcast
    <3> QED BY <1>1, <2>2, <3>1, <3>2, HeadMeans
  <2>4. out[1].id = n
    BY <1>1, <1>2, <2>1, <2>2, <2>3, HeadsAreOne
  <2>5. /\ out[0].status = Server!AnswerTo(arrived, n).status
        /\ out[1].status = Server!AnswerTo(arrived, n).status
    BY <1>1, <1>2, <2>2, <2>4 DEF CoresOk, AnswersRight, Right
  <2>6. n \in DOMAIN arrived /\ out'[0].id = n
    BY <1>1, <1>2, <2>2, OfferStays DEF FabricInv, CoreHolds, Reached
  <2> QED BY <1>4, <2>1, <2>5, <2>6
<1>6. CASE CBcast(m_tready)
  <2>1. /\ c_state = "C_BCAST" /\ ~bcast_done(m_tready) /\ merged_status' = merged_status
        /\ drn_done' <=> drn_done \/ ends(1, m_tready)
    BY <1>6 DEF CBcast, ends
  <2>2. ~m_tready /\ offered(0) /\ StreamBit(n) /\ (~drn_done => offered(1) /\ out[1].id = n)
    BY <1>1, <1>2, <2>1, Merges
  <2>3. /\ out'[0].id = n /\ n \in DOMAIN arrived /\ \A c \in Core : Reached(c, n)
    BY <1>1, <1>2, <2>1, <2>2, HalvesEnd
  <2>4. merged_status' = Server!AnswerTo(a, n).status
    BY <1>1, <1>2, <1>4, <2>1, <2>3 DEF MergingOk
  <2>5. ASSUME drn_done', NEW k, Holding(1, k)' PROVE n < k
    <3>1. CASE taken(1) /\ s_tlast /\ k = Len(arrived)
      BY <1>1, <2>3, <3>1, ReachedStep
    <3>2. CASE Holding(1, k) /\ drn_done
      BY <1>1, <1>2, <2>1, <3>2 DEF MergingOk
    <3>3. CASE Holding(1, k) /\ ~drn_done
      <4>1. ends(1, m_tready) /\ offered(1) /\ out[1].id = n
        BY <2>1, <2>2, <2>5, <3>3
      <4>2. k # n
        BY <1>1, <2>5, <4>1, HoldingMoves
      <4>3. InQueue(1, k)
        BY <3>3, <4>1, <4>2 DEF Holding
      <4> QED BY <1>1, <4>1, <4>3 DEF CoresInv, InOrder
    <3> QED BY <1>1, <2>5, <3>1, <3>2, <3>3, NewlyHeld
  <2> QED BY <2>3, <2>4, <2>5
<1>7. CStartBcast \/ CBcast(m_tready)
  BY <1>1 DEF COLLECT, CStartPass, CIdle, CPass
<1> QED BY <1>5, <1>6, <1>7

LEMMA InitOneServer == Init => OneServer
<1> SUFFICES ASSUME Init PROVE OneServer
  OBVIOUS
<1>1. LoadsInv /\ MergeInv
  BY InitLoads, InitMerge
<1>2. /\ arrived = <<>> /\ replies = <<>> /\ c_state = "C_IDLE" /\ d_state = "D_IDLE"
      /\ sent = [c \in Core |-> FALSE]
      /\ \A c \in Core : inq[c] = <<>> /\ ~offered(c)
  BY DEF Init, offered, NoOut
<1>3. CoresOk
  BY <1>2 DEF CoresOk, PartOk, Wholes, AnswersRight, FirstBeat, coming, Core
<1>4. RepliesRight
  BY <1>2 DEF RepliesRight, WorkOnce, Replied, LeavingOk, MergingOk
<1> QED BY <1>1, <1>3, <1>4 DEF OneServer

LEMMA NextOneServer == ASSUME ~CoresMayDiverge, OneServer, Next PROVE OneServer'
<1>1. PICK m_tready \in BOOLEAN : Cycle(m_tready)
  BY DEF Next
<1>2. LoadsInv' /\ MergeInv'
  BY NextLoads, NextMerge DEF OneServer
<1>3. LoadsInv /\ MergeInv /\ FabricInv /\ CoresOk /\ SOURCE /\ DISPATCH
  BY <1>1 DEF OneServer, LoadsInv, Cycle
<1>4. CoresOk'
  <2>1. ~(sent'[0] /\ sent'[1])
    BY <1>3, NotBothStep DEF CoresOk
  <2>2. ASSUME NEW c \in Core
        PROVE  PartOk(c)' /\ Wholes(c)' /\ AnswersRight(c)' /\ FirstBeat(c)'
    BY <1>1, <1>3, PartStep, WholesStep, AnswersStep, FirstBeatStep DEF CoresOk
  <2> QED BY <2>1, <2>2 DEF CoresOk
<1>5. RepliesRight'
  <2>1. ASSUME NEW n PROVE WorkOnce(n)' /\ (Replied(n)' => Complete(n)')
    BY <1>1, WorkStep, CompleteReplies
  <2>2. LeavingOk' /\ MergingOk'
    BY <1>1, LeavingStep, MergingStep
  <2> QED BY <2>1, <2>2 DEF RepliesRight
<1> QED BY <1>2, <1>4, <1>5 DEF OneServer

LEMMA OneServerStutters == ASSUME OneServer, UNCHANGED vars PROVE OneServer'
<1>1. LoadsInv' /\ MergeInv'
  BY LoadsStutter, MergeStutters DEF OneServer
<1>2. /\ arrived' = arrived /\ s_beat' = s_beat /\ s_next' = s_next
      /\ d_state' = d_state /\ target' = target /\ sent' = sent
      /\ part' = part /\ inq' = inq /\ out' = out
      /\ c_state' = c_state /\ c_src' = c_src /\ drn_done' = drn_done
      /\ merged_status' = merged_status /\ leaving' = leaving /\ replies' = replies
  BY DEF vars, sourceVars, dispatchVars, coreVars, collectVars, sinkVars
<1>3. ASSUME NEW n
      PROVE  /\ StreamBit(n)' <=> StreamBit(n)
             /\ Replied(n)' <=> Replied(n)
             /\ Complete(n)' <=> Complete(n)
             /\ \A c : Holding(c, n)' <=> Holding(c, n)
  BY <1>2 DEF StreamBit, Replied, Complete, Underway, Holding, InQueue, offered
<1>4. ASSUME NEW c
      PROVE  (coming(c)' <=> coming(c)) /\ (offered(c)' <=> offered(c))
  BY <1>2 DEF coming, offered, s_tvalid, s_tlast
<1>5. CoresOk'
  <2>1. ASSUME NEW c \in Core PROVE PartOk(c)' /\ Wholes(c)' /\ AnswersRight(c)' /\ FirstBeat(c)'
    <3>1. PartOk(c) /\ Wholes(c) /\ AnswersRight(c) /\ FirstBeat(c)
      BY DEF OneServer, CoresOk
    <3>2. PartOk(c)'
      BY <1>2, <1>4, <3>1 DEF PartOk
    <3>3. Wholes(c)'
      BY <1>2, <3>1 DEF Wholes
    <3>4. AnswersRight(c)'
      BY <1>2, <1>4, <3>1 DEF AnswersRight, Right
    <3>5. FirstBeat(c)'
      BY <1>2, <1>4, <3>1 DEF FirstBeat
    <3> QED BY <3>2, <3>3, <3>4, <3>5
  <2> QED BY <1>2, <2>1 DEF OneServer, CoresOk
<1>6. RepliesRight'
  <2>1. RepliesRight
    BY DEF OneServer
  <2>2. ASSUME NEW n PROVE WorkOnce(n)' /\ (Replied(n)' => Complete(n)')
    BY <1>2, <1>3, <2>1 DEF RepliesRight, WorkOnce
  <2>3. LeavingOk'
    BY <1>2, <2>1 DEF RepliesRight, LeavingOk
  <2>4. MergingOk'
    BY <1>2, <1>3, <2>1 DEF RepliesRight, MergingOk
  <2> QED BY <2>2, <2>3, <2>4 DEF RepliesRight
<1> QED BY <1>1, <1>5, <1>6 DEF OneServer

-----------------------------------------------------------------------------
(* The refinement: a cycle accepts a frame or none, and answers one or none. *)

Accepted == IF s_beat = 0 /\ s_next = 1 THEN arrived
            ELSE SubSeq(arrived, 1, Len(arrived) - 1)

AcceptedOf(a, whole) == IF whole THEN a ELSE SubSeq(a, 1, Len(a) - 1)

LEMMA AllButTheLast ==
  ASSUME NEW a \in Seq(Frames), NEW whole \in BOOLEAN, ~whole => Len(a) > 0
  PROVE  /\ AcceptedOf(a, whole) \in Seq(Frames)
         /\ \A n : n \in DOMAIN AcceptedOf(a, whole) <=> n \in DOMAIN a /\ (n = Len(a) => whole)
         /\ \A n \in DOMAIN AcceptedOf(a, whole) : AcceptedOf(a, whole)[n] = a[n]
<1>1. CASE whole
  <2>1. AcceptedOf(a, whole) = a
    BY <1>1 DEF AcceptedOf
  <2> QED BY <1>1, <2>1
<1>2. CASE ~whole
  <2> DEFINE l == Len(a) - 1
             b == SubSeq(a, 1, l)
  <2>1. l \in Nat /\ l + 1 = Len(a) /\ Len(a) \in Nat
    BY <1>2
  <2>2. AcceptedOf(a, whole) = b
    BY <1>2 DEF AcceptedOf
  <2> HIDE DEF l
  <2>3. b \in Seq(Frames) /\ Len(b) = l /\ \A i \in 1..l : b[i] = a[i]
    BY <2>1
  <2> HIDE DEF b
  <2>4. DOMAIN b = 1..l /\ DOMAIN a = 1..Len(a)
    BY <2>3
  <2>5. \A n : n \in 1..l <=> n \in 1..Len(a) /\ n # Len(a)
    BY <2>1
  <2> QED BY <1>2, <2>2, <2>3, <2>4, <2>5
<1> QED BY <1>1, <1>2

\* The frames accepted are those handed over to their last beat.
LEMMA AcceptedAre ==
  ASSUME Stream
  PROVE  /\ Accepted \in Seq(Frames)
         /\ \A n : n \in DOMAIN Accepted <=> Complete(n)
         /\ \A n \in DOMAIN Accepted : Accepted[n] = arrived[n]
<1>1. PICK w \in BOOLEAN : w <=> ~Underway
  OBVIOUS
<1>2. arrived \in Seq(Frames) /\ (~w => Len(arrived) > 0) /\ s_next \in Nat /\ s_next > 0
  BY <1>1 DEF Stream
<1>3. s_beat = 0 /\ s_next = 1 <=> w
  BY <1>1, <1>2 DEF Underway
<1>4. Accepted = AcceptedOf(arrived, w)
  BY <1>3 DEF Accepted, AcceptedOf
<1>5. \A n : Complete(n) <=> n \in DOMAIN arrived /\ (n = Len(arrived) => w)
  BY <1>1 DEF Complete
<1> QED BY <1>2, <1>4, <1>5, AllButTheLast

LEMMA AcceptedNext ==
  ASSUME Stream'
  PROVE  /\ Accepted' \in Seq(Frames)
         /\ \A n : n \in DOMAIN Accepted' <=> Complete(n)'
         /\ \A n \in DOMAIN Accepted' : Accepted'[n] = arrived'[n]
<1>1. PICK w \in BOOLEAN : w <=> ~Underway'
  OBVIOUS
<1>2. arrived' \in Seq(Frames) /\ (~w => Len(arrived') > 0) /\ s_next' \in Nat /\ s_next' > 0
  BY <1>1 DEF Stream
<1>3. s_beat' = 0 /\ s_next' = 1 <=> w
  BY <1>1, <1>2 DEF Underway
<1>4. Accepted' = AcceptedOf(arrived', w)
  BY <1>3 DEF Accepted, AcceptedOf
<1>5. \A n : Complete(n)' <=> n \in DOMAIN arrived' /\ (n = Len(arrived') => w)
  BY <1>1 DEF Complete
<1> QED BY <1>2, <1>4, <1>5, AllButTheLast

\* A frame is accepted with its last beat.
LEMMA AcceptStep ==
  ASSUME Stream, SOURCE
  PROVE  Accepted' = Accepted \/ \E f \in Frames : Accepted' = Append(Accepted, f)
<1>1. PICK p : p = Accepted
  OBVIOUS
<1>2. PICK q : q = Accepted'
  OBVIOUS
<1>3. Stream'
  BY SourceStep
<1>4. /\ p \in Seq(Frames) /\ \A n : n \in DOMAIN p <=> Complete(n)
      /\ \A n \in DOMAIN p : p[n] = arrived[n]
  BY <1>1, AcceptedAre
<1>5. /\ q \in Seq(Frames) /\ \A n : n \in DOMAIN q <=> Complete(n)'
      /\ \A n \in DOMAIN q : q[n] = arrived'[n]
  BY <1>2, <1>3, AcceptedNext
<1>6. \A n \in DOMAIN p : n \in DOMAIN q /\ q[n] = p[n]
  <2>1. ASSUME NEW n \in DOMAIN p PROVE n \in DOMAIN q /\ q[n] = p[n]
    <3>1. Complete(n) /\ Complete(n)' /\ n \in DOMAIN arrived
      BY <1>4, CompleteStep DEF Complete
    <3>2. arrived'[n] = arrived[n]
      BY <3>1, FramesStay
    <3> QED BY <1>4, <1>5, <3>1, <3>2
  <2> QED BY <2>1
<1>7. CASE \A n : Complete(n)' => Complete(n)
  <2>1. DOMAIN q = DOMAIN p
    BY <1>4, <1>5, <1>6, <1>7
  <2>2. q = p
    <3>1. q = [n \in DOMAIN q |-> q[n]] /\ p = [n \in DOMAIN p |-> p[n]]
      BY <1>4, <1>5
    <3> QED BY <1>6, <2>1, <3>1
  <2> QED BY <1>1, <1>2, <2>2
<1>8. CASE \E n : Complete(n)' /\ ~Complete(n)
  <2>1. PICK l : l = Len(arrived)
    OBVIOUS
  <2>2. \A n : Complete(n)' /\ ~Complete(n) => n = l
    BY <2>1, CompleteStep
  <2>3. Complete(l)' /\ ~Complete(l)
    BY <1>8, <2>2
  <2>4. \A n : n \in DOMAIN q <=> n \in DOMAIN p \/ n = l
    BY <1>4, <1>5, <1>6, <2>2, <2>3
  <2>5. l \notin DOMAIN p /\ l \in DOMAIN q
    BY <1>4, <1>5, <2>3
  <2>6. /\ Len(p) \in Nat /\ DOMAIN p = 1..Len(p) /\ Len(q) \in Nat /\ DOMAIN q = 1..Len(q)
    BY <1>4, <1>5
  <2>7. l = Len(p) + 1 /\ Len(q) = Len(p) + 1
    <3>1. l \in 1..Len(q) /\ ~(l \in 1..Len(p))
      BY <2>5, <2>6
    <3>2. Len(p) + 1 \in 1..Len(q)
      <4>1. l > Len(p) /\ l <= Len(q) /\ l \in Nat
        BY <2>6, <3>1
      <4> QED BY <2>6, <4>1
    <3>3. Len(p) + 1 = l
      <4>1. ~(Len(p) + 1 \in 1..Len(p))
        BY <2>6
      <4> QED BY <2>4, <2>6, <3>2, <4>1
    <3>4. Len(q) = l
      <4>1. Len(q) \in 1..Len(q) /\ ~(Len(q) \in 1..Len(p))
        BY <2>6, <3>1
      <4> QED BY <2>4, <2>6, <4>1
    <3> QED BY <3>3, <3>4
  <2>8. q[l] \in Frames
    BY <1>5, <2>5
  <2>9. q = Append(p, q[l])
    BY <1>4, <1>5, <1>6, <2>6, <2>7, <2>8
  <2> QED BY <1>1, <1>2, <2>8, <2>9
<1> QED BY <1>7, <1>8

\* A reply that leaves is one the server may give.
LEMMA AnswerIsAllowed ==
  ASSUME OneServer, NEW m_tready \in BOOLEAN, Cycle(m_tready), NEW n, Leaves(n, m_tready)
  PROVE  /\ n \in DOMAIN Accepted
         /\ ~Server!AnsweredIn(replies, n)
         /\ \A m \in 1..(n - 1) :
              Accepted[n].op = "load" \/ Accepted[m].op = "load" => Server!AnsweredIn(replies, m)
         /\ replies' = Append(replies, Server!AnswerTo(Accepted, n))
<1>1. Stream
  BY DEF OneServer, MergeInv, CoresInv, TagsInv, FabricInv
<1>2. PICK p : p = Accepted
  OBVIOUS
<1>3. /\ p \in Seq(Frames) /\ \A k : k \in DOMAIN p <=> Complete(k)
      /\ \A k \in DOMAIN p : p[k] = arrived[k]
  BY <1>1, <1>2, AcceptedAre
<1>4. \A k : Server!AnsweredIn(replies, k) <=> Replied(k)
  BY DEF Server!AnsweredIn, Replied
<1>5. n \in DOMAIN p /\ n \in DOMAIN arrived
  BY <1>3 DEF Leaves, Complete
<1>6. ASSUME NEW m \in 1..n PROVE m \in DOMAIN p /\ p[m] = arrived[m]
  BY <1>3, <1>5
<1>7. \A m \in 1..(n - 1) : m \in 1..n
  <2>1. n \in Nat
    BY <1>3, <1>5
  <2> QED BY <2>1
<1>8. \A m \in 1..(n - 1) : p[n].op = "load" \/ p[m].op = "load" => Replied(m)
  <2> SUFFICES ASSUME NEW m \in 1..(n - 1), p[n].op = "load" \/ p[m].op = "load"
      PROVE  Replied(m)
    OBVIOUS
  <2>1. p[n] = arrived[n] /\ p[m] = arrived[m]
    BY <1>3, <1>5, <1>6, <1>7
  <2> QED BY <2>1 DEF Leaves, StreamBit
<1>9. Server!AnswerTo(p, n) = Server!AnswerTo(arrived, n)
  <2>1. arrived \in Seq(Frames)
    BY <1>1 DEF Stream
  <2> QED BY <1>3, <1>5, <1>6, <2>1, SameAnswer
<1> QED BY <1>2, <1>4, <1>5, <1>8, <1>9 DEF Leaves

LEMMA CycleRefines ==
  ASSUME OneServer, NEW m_tready \in BOOLEAN, Cycle(m_tready)
  PROVE  Server!Next \/ (Accepted' = Accepted /\ replies' = replies)
<1>1. Stream /\ SOURCE
  BY DEF OneServer, MergeInv, CoresInv, TagsInv, FabricInv, Cycle
<1>2. Accepted' = Accepted \/ \E f \in Frames : Accepted' = Append(Accepted, f)
  BY <1>1, AcceptStep
<1>3. (\E f \in Frames : Accepted' = Append(Accepted, f)) => Server!Accept
  BY DEF Server!Accept, Accepted
<1>4. ASSUME NEW n, Leaves(n, m_tready) PROVE Server!Answer
  BY <1>4, AnswerIsAllowed DEF Server!Answer, Accepted
<1>5. replies' = replies \/ Server!Answer
  BY <1>4, RepliesStep DEF NoneLeaves
<1> QED BY <1>2, <1>3, <1>5 DEF Server!Next, Accepted

\* Where both engines judge a load alike: the two of them, behind one serial
\* line, are one device. Each frame is answered once and whole, by what the
\* one device would say, under the keys sent before it; a load is a barrier.
THEOREM DualImplements == ~CoresMayDiverge => (Spec => Implements)
<1> SUFFICES ASSUME ~CoresMayDiverge PROVE Spec => Implements
  OBVIOUS
<1>1. OneServer /\ [Next]_vars => OneServer'
  BY NextOneServer, OneServerStutters
<1>2. Init => Server!Init
  BY DEF Init, Server!Init
<1>3. OneServer /\ [Next]_vars => [Server!Next]_(Server!vars)
  <2> SUFFICES ASSUME OneServer, [Next]_vars PROVE Server!Next \/ UNCHANGED Server!vars
    OBVIOUS
  <2>1. CASE Next
    <3>1. PICK m_tready \in BOOLEAN : Cycle(m_tready)
      BY <2>1 DEF Next
    <3>2. Server!Next \/ (Accepted' = Accepted /\ replies' = replies)
      BY <3>1, CycleRefines
    <3> QED BY <3>2 DEF Server!vars, Accepted
  <2>2. CASE UNCHANGED vars
    BY <2>2 DEF vars, sourceVars, sinkVars, Server!vars
  <2> QED BY <2>1, <2>2
<1> QED BY <1>1, <1>2, <1>3, InitOneServer, PTL DEF Spec, Implements, Server!Spec

=============================================================================
