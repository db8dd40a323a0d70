--------------------------- MODULE OcaDualServer ---------------------------
(***************************************************************************)
(* What two engines behind one serial line promise the host. Frames are    *)
(* taken whole; each is answered once, by a whole reply, in no fixed       *)
(* order but one: a load-key is a barrier, answered after every frame      *)
(* before it and before every frame behind it. A frame sees the keys of    *)
(* the loads sent before it and no others, whichever engine it ran on.     *)
(***************************************************************************)
EXTENDS Naturals, Sequences

CONSTANT Frames   \* the frames a host may send: [op, len, good]

VARIABLES accepted, replies

vars == <<accepted, replies>>

\* The last load before frame n that was not refused (0: none).
KeyAt(a, n) ==
  LET loads == {m \in 1..(n - 1) : a[m].op = "load" /\ a[m].good}
  IN  IF loads = {} THEN 0 ELSE CHOOSE m \in loads : \A k \in loads : k <= m

AnswerTo(a, n) ==
  [id |-> n, status |-> IF a[n].good THEN "OK" ELSE "BAD", whole |-> TRUE,
   key |-> IF a[n].op = "load" THEN 0 ELSE KeyAt(a, n)]

AnsweredIn(rs, n) == \E k \in DOMAIN rs : rs[k].id = n

Init == accepted = <<>> /\ replies = <<>>

Accept == \E f \in Frames : accepted' = Append(accepted, f)

Answer ==
  \E n \in DOMAIN accepted :
    /\ ~AnsweredIn(replies, n)
    /\ \A m \in 1..(n - 1) :
         accepted[n].op = "load" \/ accepted[m].op = "load" => AnsweredIn(replies, m)
    /\ replies' = Append(replies, AnswerTo(accepted, n))

Next ==
  \/ Accept /\ UNCHANGED replies
  \/ Answer /\ UNCHANGED accepted
  \/ Accept /\ Answer

Spec == Init /\ [][Next]_vars
=============================================================================
