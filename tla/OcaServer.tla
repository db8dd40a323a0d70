----------------------------- MODULE OcaServer -----------------------------
(***************************************************************************)
(* What one oca_core promises the host, with no pipeline in it: requests   *)
(* are accepted whole, and each one that has a header is answered once, in *)
(* arrival order, as if the requests before it had been executed one after *)
(* the other: its key is the one loaded last before it, its counters are a *)
(* prefix of the command sequence, and it carries a body only when it      *)
(* succeeded.                                                              *)
(***************************************************************************)
EXTENDS OcaRequests

VARIABLES accepted, responses

vars == <<accepted, responses>>

\* The verdict on request n of a, were everything before it executed.
Status(a, n) ==
  LET r == a[n]
  IN  IF HeaderStatus(r) # "OK" THEN HeaderStatus(r)
      ELSE IF r.op = "stats" THEN "OK"
      ELSE IF r.op = "load" /\ r.slot >= NumSlots THEN "BAD_SLOT"
      ELSE IF Crypto(r) /\ KeyOf(a, n, r.slot) = 0 THEN "BAD_SLOT"
      ELSE IF LenBad(r, r.beats) THEN "BAD_LENGTH"
      ELSE IF r.op = "open" /\ ReceivedTag(a, n) # TagOf(a, n) THEN "AUTH_FAIL"
      ELSE "OK"

\* The words of ciphertext or plaintext the body of request n consists of.
Body(r, n) ==
  [k \in 1..(r.msg * BlockWords) |-> <<n, r.aad + 1 + (k - 1) \div BlockWords>>]

\* What a successful request carries besides its body. The counters of a
\* stats are those of the commands before it, itself counted as received.
Extra(a, n, answers) ==
  CASE a[n].op = "seal"  -> [kind |-> "tag", tag |-> TagOf(a, n)]
    [] a[n].op = "bench" -> [kind |-> "bench", from |-> n, to |-> n]
    [] a[n].op = "stats" ->
         [kind |-> "stats",
          rx   |-> n,
          drop |-> Cardinality({m \in 1..n : HeaderDropped(a[m])}),
          done |-> Cardinality({k \in DOMAIN answers : answers[k].status = "OK"}),
          auth |-> Cardinality({k \in DOMAIN answers : answers[k].status = "AUTH_FAIL"})]
    [] OTHER -> NoExtra

Reply(a, n, answers) ==
  LET st == Status(a, n)
  IN  [pid    |-> n,
       status |-> st,
       extra  |-> IF st = "OK" THEN Extra(a, n, answers) ELSE NoExtra,
       body   |-> IF st = "OK" /\ a[n].op \in {"seal", "open"}
                  THEN Body(a[n], n) ELSE <<>>]

\* An engine error replaces the verdict of a request that took the engine.
Replies(a, n, answers) ==
  {Reply(a, n, answers)} \cup
  (IF EngineMayFault /\ Crypto(a[n]) /\ Status(a, n) \in {"OK", "AUTH_FAIL"}
   THEN {[pid |-> n, status |-> "ENGINE_ERR", extra |-> NoExtra, body |-> <<>>]}
   ELSE {})

LastAnswered == IF responses = <<>> THEN 0 ELSE responses[Len(responses)].pid

Init == accepted = <<>> /\ responses = <<>>

Accept == \E r \in Requests : accepted' = Append(accepted, r)

\* The oldest request not yet answered; one without a header has no answer.
Answer ==
  \E n \in DOMAIN accepted :
    /\ n > LastAnswered /\ accepted[n].hdr # "short"
    /\ \A m \in (LastAnswered + 1)..(n - 1) : accepted[m].hdr = "short"
    /\ \E reply \in Replies(accepted, n, responses) :
         responses' = Append(responses, reply)

\* One clock edge may take the end of a request and complete a response.
Next ==
  \/ Accept /\ UNCHANGED responses
  \/ Answer /\ UNCHANGED accepted
  \/ Accept /\ Answer

Spec == Init /\ [][Next]_vars
=============================================================================
