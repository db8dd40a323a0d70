----------------------------- MODULE OcaLinkProofs -----------------------------
(***************************************************************************)
(* A command of the host returns what came in the reply to its own         *)
(* request. link.py takes a reply by its request id and its opcode alone,  *)
(* and ids come round again: what the ids can tell apart, for every number *)
(* of ids, of requests, of processes and of faults, is proved here, and    *)
(* that nothing on the way back hands a reply to another request.          *)
(*                                                                         *)
(* From what is on its way to the host follow the rest: that a command     *)
(* which found nothing left over and met no fault ends only with its       *)
(* answer, a refusal or its deadline, that it then leaves nothing behind   *)
(* (unless it was bench_pair), and that what it takes is one whole reply.  *)
(*                                                                         *)
(* Last, the command line around the link: what its exit code says.        *)
(***************************************************************************)
EXTENDS OcaConsole, SequenceTheorems, TLAPS

-----------------------------------------------------------------------------
(* Request ids: next_id counts modulo Ids. *)

Wrapped(x) == IF x < Ids THEN x ELSE x - Ids

\* An id and at most Ids more, counted modulo Ids, is one subtraction away.
LEMMA WrappedOnce ==
  ASSUME NEW x \in 0..(2 * Ids - 1)
  PROVE  x % Ids = Wrapped(x) /\ Wrapped(x) \in 0..(Ids - 1)
BY IdsAssumption DEF Wrapped

\* Counting on from a wrapped id is counting on from the id.
LEMMA WrapAdds ==
  ASSUME NEW a \in Nat, NEW b \in Nat, a + b <= 2 * Ids - 1
  PROVE  Wrapped(Wrapped(a) + b) = Wrapped(a + b)
BY IdsAssumption DEF Wrapped

\* The ids a command takes, and the one after them.
LEMMA NextIds ==
  ASSUME next_id \in 0..(Ids - 1), NEW k \in 0..2
  PROVE  NextId(k) = Wrapped(next_id + k) /\ NextId(k) \in 0..(Ids - 1)
<1>1. next_id + k \in 0..(2 * Ids - 1)
  BY IdsAssumption
<1> QED BY <1>1, WrappedOnce DEF NextId

Request == [proc : Nat, id : 0..(Ids - 1), op : AllCommands]

\* The ids of one process count on from its first, and the next goes on from
\* there, as far back as Ids requests.
Consecutive(rs) ==
  \A m, n \in 1..Len(rs) :
    m < n /\ n - m < Ids /\ rs[m].proc = rs[n].proc
      => rs[n].id = Wrapped(rs[m].id + (n - m))

Following(rs, proc, id) ==
  \A m \in 1..Len(rs) :
    Len(rs) + 1 - m <= Ids /\ rs[m].proc = proc
      => id = Wrapped(rs[m].id + (Len(rs) + 1 - m))

Numbered ==
  /\ requests \in Seq(Request) /\ process \in Nat /\ next_id \in 0..(Ids - 1)
  /\ \A n \in 1..Len(requests) : requests[n].proc <= process
  /\ Consecutive(requests)
  /\ h_state # "closed" => Following(requests, process, next_id)

\* A log of requests grown at its end.
Longer(rs, more) ==
  /\ Len(rs) <= Len(more)
  /\ \A n \in 1..Len(rs) : more[n] = rs[n]

\* The log of requests with those a command makes at its end.
LEMMA MadeFacts ==
  ASSUME Numbered, NEW cmd \in AllCommands
  PROVE  LET W == Width(cmd)
             rs == requests \o Made(cmd)
         IN  /\ W \in 1..2
             /\ rs \in Seq(Request) /\ Len(rs) = Len(requests) + W
             /\ Longer(requests, rs)
             /\ \A k \in 1..W : /\ rs[Len(requests) + k].proc = process
                                /\ rs[Len(requests) + k].id = Wrapped(next_id + (k - 1))
                                /\ rs[Len(requests) + k].op = cmd
<1> DEFINE W == Width(cmd)
           made == Made(cmd)
           rs == requests \o made
<1>1. W \in 1..2
  BY DEF Width
<1>2. ASSUME NEW k \in 1..W
      PROVE  /\ made[k] \in Request
             /\ made[k].proc = process /\ made[k].id = Wrapped(next_id + (k - 1))
             /\ made[k].op = cmd
  <2>1. k - 1 \in 0..2
    BY <1>1
  <2>2. NextId(k - 1) = Wrapped(next_id + (k - 1)) /\ NextId(k - 1) \in 0..(Ids - 1)
    BY <2>1, NextIds DEF Numbered
  <2>3. made[k] = [proc |-> process, id |-> NextId(k - 1), op |-> cmd]
    BY DEF Made
  <2> QED BY <2>2, <2>3 DEF Numbered, Request
<1>3. made = [k \in 1..W |-> made[k]]
  BY DEF Made
<1>4. made \in Seq(Request) /\ Len(made) = W
  <2> HIDE DEF made, W
  <2> QED BY <1>1, <1>2, <1>3
<1>5. requests \in Seq(Request) /\ Len(requests) \in Nat
  BY LenProperties DEF Numbered
<1> HIDE DEF made, W
<1>6. /\ rs \in Seq(Request) /\ Len(rs) = Len(requests) + W
      /\ \A i \in 1..(Len(requests) + W) :
           rs[i] = IF i <= Len(requests) THEN requests[i] ELSE made[i - Len(requests)]
  BY <1>4, <1>5, ConcatProperties
<1> HIDE DEF rs
<1>7. Longer(requests, rs)
  BY <1>1, <1>5, <1>6 DEF Longer
<1>8. ASSUME NEW k \in 1..W
      PROVE  rs[Len(requests) + k] = made[k]
  <2>1. /\ Len(requests) + k \in 1..(Len(requests) + W) /\ ~(Len(requests) + k <= Len(requests))
        /\ (Len(requests) + k) - Len(requests) = k
    BY <1>1, <1>5
  <2> QED BY <1>6, <2>1
<1>9. \A k \in 1..W : /\ rs[Len(requests) + k].proc = process
                      /\ rs[Len(requests) + k].id = Wrapped(next_id + (k - 1))
                      /\ rs[Len(requests) + k].op = cmd
  BY <1>2, <1>8
<1> QED BY <1>1, <1>6, <1>7, <1>9 DEF W, made, rs
\* New requests go on with the ids of their process, whether next_id is then
\* moved on or the process dies before.
LEMMA MadeKeepsIds ==
  ASSUME Numbered, h_state # "closed", NEW cmd \in AllCommands
  PROVE  LET rs == requests \o Made(cmd)
         IN  /\ \A n \in 1..Len(rs) : rs[n].proc <= process
             /\ Consecutive(rs)
             /\ Following(rs, process, NextId(Width(cmd)))
<1> DEFINE W == Width(cmd)
           N == Len(requests)
           rs == requests \o Made(cmd)
<1>1. /\ W \in 1..2 /\ rs \in Seq(Request) /\ Len(rs) = N + W
      /\ Longer(requests, rs)
      /\ \A k \in 1..W : rs[N + k].proc = process /\ rs[N + k].id = Wrapped(next_id + (k - 1))
  BY MadeFacts
<1>2. N \in Nat /\ process \in Nat /\ next_id \in 0..(Ids - 1)
  BY LenProperties DEF Numbered
<1>3. \A n \in 1..N : rs[n] = requests[n]
  BY <1>1 DEF Longer
<1>4. \A n \in 1..N : requests[n].proc \in Nat /\ requests[n].id \in 0..(Ids - 1)
  <2>1. ASSUME NEW n \in 1..N PROVE requests[n] \in Request
    BY ElementOfSeq DEF Numbered
  <2> HIDE DEF N
  <2> QED BY <2>1 DEF Request
<1>5. NextId(W) = Wrapped(next_id + W)
  BY <1>1, <1>2, NextIds
<1> HIDE DEF W, N, rs
<1>6. Following(requests, process, next_id) /\ Consecutive(requests)
  BY DEF Numbered
<1>7. ASSUME NEW n \in 1..(N + W), n \notin 1..N
      PROVE  \E k \in 1..W : n = N + k
  <2>1. n - N \in 1..W /\ n = N + (n - N)
    BY <1>1, <1>2, <1>7
  <2> QED BY <2>1
<1>8. ASSUME NEW m \in 1..N, NEW k \in 1..(W + 1), N + k - m <= Ids,
             requests[m].proc = process
      PROVE  Wrapped(next_id + (k - 1)) = Wrapped(requests[m].id + ((N + k) - m))
  <2>0. (N + k) - m <= Ids /\ m \in Nat /\ k \in Nat /\ m <= N /\ k >= 1 /\ k <= W + 1
    BY <1>1, <1>2, <1>8
  <2>1. (N + 1) - m <= Ids /\ (N + 1) - m \in Nat /\ k - 1 \in Nat
    BY <1>2, <2>0, IdsAssumption
  <2>2. next_id = Wrapped(requests[m].id + ((N + 1) - m))
    BY <1>6, <1>8, <2>1 DEF Following, N
  <2>3. PICK a \in Nat, b \in Nat : a = requests[m].id + ((N + 1) - m) /\ b = k - 1
    BY <1>4, <2>1
  <2>4. a + b <= 2 * Ids - 1 /\ a + b = requests[m].id + ((N + k) - m)
    <3>1. requests[m].id \in 0..(Ids - 1)
      BY <1>4
    <3>2. a + b = requests[m].id + ((N + k) - m)
      BY <1>2, <2>0, <2>3, <3>1
    <3>3. requests[m].id + ((N + k) - m) <= (Ids - 1) + Ids
      BY <1>2, <2>0, <3>1, IdsAssumption
    <3> QED BY <3>2, <3>3, IdsAssumption
  <2>5. Wrapped(Wrapped(a) + b) = Wrapped(a + b)
    BY <2>4, WrapAdds
  <2> QED BY <2>2, <2>3, <2>4, <2>5
<1>9. Consecutive(rs)
  <2> SUFFICES ASSUME NEW m \in 1..(N + W), NEW n \in 1..(N + W),
                      m < n, n - m < Ids, rs[m].proc = rs[n].proc
               PROVE  rs[n].id = Wrapped(rs[m].id + (n - m))
    BY <1>1 DEF Consecutive
  <2>1. CASE n \in 1..N
    <3>1. m \in 1..N
      BY <1>1, <1>2, <2>1
    <3> QED BY <1>3, <1>6, <2>1, <3>1 DEF Consecutive, N
  <2>2. CASE n \notin 1..N
    <3>1. PICK k \in 1..W : n = N + k
      BY <1>7, <2>2
    <3>2. rs[n].proc = process /\ rs[n].id = Wrapped(next_id + (k - 1))
      BY <1>1, <3>1
    <3>3. CASE m \in 1..N
      <4>1. rs[m] = requests[m] /\ requests[m].proc = process
        BY <1>3, <3>2, <3>3
      <4>2. k \in 1..(W + 1) /\ N + k - m <= Ids
        BY <1>1, <1>2, <3>1, <3>3, IdsAssumption
      <4>3. Wrapped(next_id + (k - 1)) = Wrapped(requests[m].id + ((N + k) - m))
        BY <1>8, <3>3, <4>1, <4>2
      <4> QED BY <3>1, <3>2, <4>1, <4>3
    <3>4. CASE m \notin 1..N
      <4>1. PICK j \in 1..W : m = N + j
        BY <1>7, <3>4
      <4>2. j = 1 /\ k = 2 /\ n - m = 1
        BY <1>1, <1>2, <3>1, <4>1
      <4>3. rs[m].id = Wrapped(next_id + 0)
        BY <1>1, <4>1, <4>2
      <4>4. Wrapped(next_id + 0) = next_id
        BY <1>2, IdsAssumption DEF Wrapped
      <4> QED BY <3>2, <4>2, <4>3, <4>4
    <3> QED BY <3>3, <3>4
  <2> QED BY <2>1, <2>2
<1>10. Following(rs, process, Wrapped(next_id + W))
  <2> SUFFICES ASSUME NEW m \in 1..(N + W), (N + W) + 1 - m <= Ids, rs[m].proc = process
               PROVE  Wrapped(next_id + W) = Wrapped(rs[m].id + ((N + W) + 1 - m))
    BY <1>1 DEF Following
  <2>1. CASE m \in 1..N
    <3>1. W + 1 \in 1..(W + 1) /\ N + (W + 1) - m <= Ids /\ (W + 1) - 1 = W
      BY <1>1, <1>2, <2>1
    <3>2. rs[m] = requests[m]
      BY <1>3, <2>1
    <3>3. Wrapped(next_id + ((W + 1) - 1)) = Wrapped(requests[m].id + ((N + (W + 1)) - m))
      BY <1>8, <2>1, <3>1, <3>2
    <3>4. (N + (W + 1)) - m = (N + W) + 1 - m
      BY <1>1, <1>2, <2>1
    <3> QED BY <3>1, <3>2, <3>3, <3>4
  <2>2. CASE m \notin 1..N
    <3>1. PICK k \in 1..W : m = N + k
      BY <1>7, <2>2
    <3>2. rs[m].id = Wrapped(next_id + (k - 1))
      BY <1>1, <3>1
    <3>3. PICK a \in Nat, b \in Nat : a = next_id + (k - 1) /\ b = (W + 1) - k
      BY <1>1, <1>2
    <3>4. a + b = next_id + W /\ a + b <= 2 * Ids - 1 /\ (N + W) + 1 - m = b
      BY <1>1, <1>2, <3>1, <3>3, IdsAssumption
    <3>5. Wrapped(Wrapped(a) + b) = Wrapped(a + b)
      BY <3>4, WrapAdds
    <3> QED BY <3>2, <3>3, <3>4, <3>5
  <2> QED BY <2>1, <2>2
<1>11. \A n \in 1..(N + W) : rs[n].proc <= process
  <2> SUFFICES ASSUME NEW n \in 1..(N + W) PROVE rs[n].proc <= process
    OBVIOUS
  <2>1. CASE n \in 1..N
    <3>1. \A i \in 1..N : requests[i].proc <= process
      BY DEF Numbered, N
    <3> QED BY <1>3, <2>1, <3>1
  <2>2. CASE n \notin 1..N
    <3>1. PICK k \in 1..W : n = N + k
      BY <1>7, <2>2
    <3>2. rs[n].proc = process
      BY <1>1, <3>1
    <3> QED BY <1>2, <3>2
  <2> QED BY <2>1, <2>2
<1> QED BY <1>1, <1>5, <1>9, <1>10, <1>11 DEF W, rs

-----------------------------------------------------------------------------
(* What is on its way, and what has been taken. *)

Reply(n) ==
  {c \in [of : 0..n, part : {"head", "tail", "stray"}, ok : BOOLEAN,
          bad : {"no", "torn", "short"}] : c.part = "head" => c.of # 0}

\* Every chunk that could be read as a header answers a request that was made.
Carried(n) ==
  /\ reader \in Seq(Reply(n)) /\ rx_pending \in Seq(Reply(n)) /\ line \in Seq(Reply(n))
  /\ device \in Seq([req : 1..n, whole : BOOLEAN]) /\ half \in 0..n

\* A reply is taken for a request whose id it carries.
SameIds(taken, rs) ==
  \A n \in DOMAIN taken :
    n \in 1..Len(rs) /\ taken[n].of \in 1..Len(rs) /\ rs[n].id = rs[taken[n].of].id

LinkInv ==
  /\ Numbered /\ Carried(Len(requests))
  /\ SameIds(matched, requests) /\ SameIds(result.by, requests)
  /\ Len(requests) <= MaxRequests

\* What is for one of n requests is for one of any more.
LEMMA LongerCarries ==
  ASSUME NEW n \in Nat, NEW p \in Nat, n <= p
  PROVE  Reply(n) \subseteq Reply(p) /\ [req : 1..n, whole : BOOLEAN] \subseteq [req : 1..p, whole : BOOLEAN]
<1>1. 0..n \subseteq 0..p /\ 1..n \subseteq 1..p
  OBVIOUS
<1>2. ASSUME NEW c \in Reply(n) PROVE c \in Reply(p)
  BY <1>1 DEF Reply
<1>3. ASSUME NEW d \in [req : 1..n, whole : BOOLEAN] PROVE d \in [req : 1..p, whole : BOOLEAN]
  BY <1>1
<1> QED BY <1>2, <1>3

\* A longer log keeps the ids that replies were taken by.
LEMMA LongerKeepsIds ==
  ASSUME NEW rs \in Seq(Request), NEW more \in Seq(Request), Longer(rs, more),
         NEW taken, SameIds(taken, rs)
  PROVE  SameIds(taken, more)
<1>1. Len(rs) \in Nat /\ Len(more) \in Nat /\ 1..Len(rs) \subseteq 1..Len(more)
  <2>1. Len(rs) \in Nat /\ Len(more) \in Nat
    BY LenProperties
  <2> QED BY <2>1 DEF Longer
<1>2. SUFFICES ASSUME NEW n \in DOMAIN taken
               PROVE  /\ n \in 1..Len(more) /\ taken[n].of \in 1..Len(more)
                      /\ more[n].id = more[taken[n].of].id
  BY DEF SameIds
<1>3. n \in 1..Len(rs) /\ taken[n].of \in 1..Len(rs) /\ rs[n].id = rs[taken[n].of].id
  BY DEF SameIds
<1>4. more[n] = rs[n] /\ more[taken[n].of] = rs[taken[n].of]
  BY <1>3 DEF Longer
<1> QED BY <1>1, <1>3, <1>4

\* A front part and the rest of a sequence, and a sequence with one element
\* gone.
LEMMA Parts ==
  ASSUME NEW S, NEW s \in Seq(S), NEW k \in 1..Len(s)
  PROVE  /\ SubSeq(s, 1, k) \in Seq(S) /\ SubSeq(s, k + 1, Len(s)) \in Seq(S)
         /\ RemoveAt(s, k) \in Seq(S) /\ s[k] \in S
<1>1. Len(s) \in Nat /\ \A i \in 1..Len(s) : s[i] \in S
  BY LenProperties, ElementOfSeq
<1>2. /\ SubSeq(s, 1, k) \in Seq(S) /\ SubSeq(s, k + 1, Len(s)) \in Seq(S)
      /\ SubSeq(s, 1, k - 1) \in Seq(S)
  BY <1>1, SubSeqProperties
<1> QED BY <1>1, <1>2, ConcatProperties DEF RemoveAt

\* A step that makes no request and stays with its process keeps the ids.
LEMMA NoneMade ==
  ASSUME Numbered, UNCHANGED <<requests, process, next_id>>,
         h_state' # "closed" => h_state # "closed"
  PROVE  Numbered'
BY DEF Numbered

\* Opening the port starts the ids of a new process anywhere.
LEMMA OpenStep ==
  ASSUME LinkInv, Open
  PROVE  LinkInv'
<1>1. /\ h_state = "closed" /\ process' = process + 1 /\ next_id' \in 0..(Ids - 1)
      /\ rx_pending' = <<>> /\ reader' = <<>> /\ matched' = <<>> /\ result' = NoResult
      /\ requests' = requests /\ line' = line /\ device' = device /\ half' = half
  BY DEF Open, deviceVars
<1>2. Following(requests, process + 1, next_id')
  <2>1. Len(requests) \in Nat /\ process \in Nat
    BY LenProperties DEF LinkInv, Numbered
  <2>2. ASSUME NEW m \in 1..Len(requests) PROVE requests[m].proc # process + 1
    <3>1. requests[m] \in Request /\ requests[m].proc <= process
      BY ElementOfSeq DEF LinkInv, Numbered
    <3> QED BY <2>1, <3>1 DEF Request
  <2> QED BY <2>2 DEF Following
<1>3. Numbered'
  <2>1. \A n \in 1..Len(requests) : requests[n].proc <= process + 1
    <3>1. ASSUME NEW n \in 1..Len(requests) PROVE requests[n].proc <= process + 1
      <4>1. requests[n] \in Request /\ requests[n].proc <= process /\ process \in Nat
        BY ElementOfSeq DEF LinkInv, Numbered
      <4> QED BY <4>1 DEF Request
    <3> QED BY <3>1
  <2> QED BY <1>1, <1>2, <2>1 DEF LinkInv, Numbered
<1>4. Carried(Len(requests))'
  BY <1>1, EmptySeq DEF LinkInv, Carried
<1>5. SameIds(matched, requests)' /\ SameIds(result.by, requests)'
  <2>1. result'.by = <<>> /\ DOMAIN <<>> = {}
    BY <1>1 DEF NoResult
  <2> QED BY <1>1, <2>1 DEF SameIds
<1> QED BY <1>1, <1>3, <1>4, <1>5 DEF LinkInv

\* Steps that only move the process on, or take what has come from the line.
LEMMA IdleStep ==
  ASSUME LinkInv, DrainRead \/ DrainEnds \/ Close \/ DieWaiting \/ Read
  PROVE  LinkInv'
<1>1. /\ UNCHANGED <<requests, process, next_id, matched, result, reader, device, half>>
      /\ h_state' # "closed" => h_state # "closed"
  BY DEF DrainRead, DrainEnds, Close, DieWaiting, Read, hostVars, deviceVars
<1>2. Numbered'
  BY <1>1, NoneMade DEF LinkInv
<1>3. line' \in Seq(Reply(Len(requests))) /\ rx_pending' \in Seq(Reply(Len(requests)))
  <2>1. line \in Seq(Reply(Len(requests))) /\ rx_pending \in Seq(Reply(Len(requests)))
    BY DEF LinkInv, Carried
  <2>2. CASE DrainRead
    <3>1. PICK k \in 1..Len(line) : line' = SubSeq(line, k + 1, Len(line))
      BY <2>2 DEF DrainRead, Taking
    <3>2. rx_pending' = rx_pending
      BY <2>2 DEF DrainRead, hostVars
    <3> QED BY <2>1, <3>1, <3>2, Parts
  <2>3. CASE DrainEnds \/ Close \/ DieWaiting
    BY <2>1, <2>3 DEF DrainEnds, Close, DieWaiting
  <2>4. CASE Read
    <3>1. PICK k \in 1..Len(line) :
            line' = SubSeq(line, k + 1, Len(line)) /\ rx_pending' = SubSeq(line, 1, k)
      BY <2>4 DEF Read, Taking
    <3> QED BY <2>1, <3>1, Parts
  <2> QED BY <2>2, <2>3, <2>4
<1>4. Carried(Len(requests))'
  BY <1>1, <1>3 DEF LinkInv, Carried
<1>5. SameIds(matched, requests)' /\ SameIds(result.by, requests)' /\ (Len(requests) <= MaxRequests)'
  BY <1>1 DEF LinkInv
<1> QED BY <1>2, <1>4, <1>5 DEF LinkInv

\* An answer is for a request the device has.
LEMMA DeviceCarries ==
  ASSUME NEW n \in Nat, Carried(n), Device
  PROVE  Carried(n)'
<1>1. PICK i \in 1..Len(device), ok \in BOOLEAN,
           bad \in {"no", "lost", "torn", "short", "cut"} : Answer(i, ok, bad)
  BY DEF Device
<1>2. UNCHANGED <<reader, rx_pending, half>>
  BY <1>1 DEF Answer
<1>3. device[i] \in [req : 1..n, whole : BOOLEAN] /\ device' \in Seq([req : 1..n, whole : BOOLEAN])
  BY <1>1, Parts DEF Carried, Answer
<1>4. line' \in Seq(Reply(n))
  <2>1. line \in Seq(Reply(n))
    BY DEF Carried
  <2> DEFINE q == device[i].req
  <2>2. q \in 1..n
    BY <1>3
  <2> HIDE DEF q
  <2>3. CASE bad = "lost"
    <3>1. line' = line \o <<>>
      BY <1>1, <2>3 DEF Answer
    <3> QED BY <2>1, <3>1, ConcatEmptySeq
  <2>4. CASE bad = "cut"
    <3>1. line' = line \o <<Chunk(q, "head", ok, "no")>>
      BY <1>1, <2>4 DEF Answer, q
    <3>2. <<Chunk(q, "head", ok, "no")>> \in Seq(Reply(n))
      BY <2>2 DEF Chunk, Reply
    <3> QED BY <2>1, <3>1, <3>2, ConcatProperties
  <2>5. CASE bad \in {"no", "torn", "short"}
    <3>1. line' = line \o <<Chunk(q, "head", ok, bad), Chunk(q, "tail", ok, bad)>>
      BY <1>1, <2>5 DEF Answer, q
    <3>2. Chunk(q, "head", ok, bad) \in Reply(n) /\ Chunk(q, "tail", ok, bad) \in Reply(n)
      BY <2>2, <2>5 DEF Chunk, Reply
    <3>3. <<Chunk(q, "head", ok, bad), Chunk(q, "tail", ok, bad)>> \in Seq(Reply(n))
      BY <3>2
    <3> QED BY <2>1, <3>1, <3>3, ConcatProperties
  <2> QED BY <2>3, <2>4, <2>5
<1> QED BY <1>2, <1>3, <1>4 DEF Carried

\* It leaves everything else of the host's alone.
LEMMA DeviceStep ==
  ASSUME LinkInv, Device
  PROVE  LinkInv'
<1>1. PICK i \in 1..Len(device), ok \in BOOLEAN,
           bad \in {"no", "lost", "torn", "short", "cut"} : Answer(i, ok, bad)
  BY DEF Device
<1>2. UNCHANGED <<requests, process, next_id, matched, result, h_state>>
  BY <1>1 DEF Answer
<1>3. PICK n \in Nat : n = Len(requests)
  BY LenProperties DEF LinkInv, Numbered
<1>4. Numbered'
  BY <1>2, NoneMade DEF LinkInv
<1>5. Carried(n)'
  BY <1>3, DeviceCarries DEF LinkInv
<1>6. Carried(Len(requests))'
  BY <1>2, <1>3, <1>5 DEF Carried
<1>7. SameIds(matched, requests)' /\ SameIds(result.by, requests)' /\ (Len(requests) <= MaxRequests)'
  BY <1>2 DEF LinkInv
<1> QED BY <1>4, <1>6, <1>7 DEF LinkInv

\* A deadline keeps what the command had taken.
LEMMA TimeoutStep ==
  ASSUME LinkInv, Timeout
  PROVE  LinkInv'
<1>1. /\ UNCHANGED <<requests, process, next_id, matched, rx_pending, line, device, half>>
      /\ reader' = <<>> /\ h_state = "wait" /\ h_state' = "idle" /\ result'.by = matched'
  BY DEF Timeout, Ended, deviceVars
<1>2. Numbered'
  BY <1>1, NoneMade DEF LinkInv
<1>3. Carried(Len(requests))'
  BY <1>1, EmptySeq DEF LinkInv, Carried
<1>4. SameIds(matched, requests)' /\ SameIds(result.by, requests)' /\ (Len(requests) <= MaxRequests)'
  BY <1>1 DEF LinkInv
<1> QED BY <1>2, <1>3, <1>4 DEF LinkInv

\* Feeding a chunk moves it, and makes none.
LEMMA FeedStep ==
  ASSUME LinkInv, Feed
  PROVE  LinkInv'
<1>1. /\ UNCHANGED <<requests, process, next_id, matched, result, line, device, half>>
      /\ rx_pending # <<>> /\ rx_pending' = Tail(rx_pending) /\ h_state' = h_state
      /\ reader' = Append(reader, Head(rx_pending)) \/ reader' = reader
  BY DEF Feed, deviceVars
<1>2. Numbered'
  BY <1>1, NoneMade DEF LinkInv
<1>3. /\ reader \in Seq(Reply(Len(requests))) /\ rx_pending \in Seq(Reply(Len(requests)))
      /\ Head(rx_pending) \in Reply(Len(requests)) /\ Tail(rx_pending) \in Seq(Reply(Len(requests)))
  BY <1>1, HeadTailProperties DEF LinkInv, Carried
<1>4. reader' \in Seq(Reply(Len(requests)))
  BY <1>1, <1>3, AppendProperties
<1>5. Carried(Len(requests))'
  BY <1>1, <1>3, <1>4 DEF LinkInv, Carried
<1>6. SameIds(matched, requests)' /\ SameIds(result.by, requests)' /\ (Len(requests) <= MaxRequests)'
  BY <1>1 DEF LinkInv
<1> QED BY <1>2, <1>5, <1>6 DEF LinkInv

\* What is judged starts with a chunk that was carried.
LEMMA FrameIsCarried ==
  ASSUME LinkInv, rx_pending # <<>>
  PROVE  frame[1] \in Reply(Len(requests))
<1>1. PICK n \in Nat : n = Len(requests)
  BY LenProperties DEF LinkInv, Numbered
<1>2. reader \in Seq(Reply(n)) /\ Head(rx_pending) \in Reply(n)
  BY <1>1, HeadTailProperties DEF LinkInv, Carried
<1>3. frame \in Seq(Reply(n)) /\ Len(frame) = Len(reader) + 1
  BY <1>2, AppendProperties DEF frame
<1>4. 1 \in 1..Len(frame)
  BY <1>2, <1>3, LenProperties
<1>5. frame[1] \in Reply(n)
  BY <1>3, <1>4, ElementOfSeq
<1> QED BY <1>1, <1>5

\* The request a reply that can be read as a header is for was made.
LEMMA FromWasMade ==
  ASSUME LinkInv, rx_pending # <<>>, readable
  PROVE  from \in 1..Len(requests)
<1>1. PICK n \in Nat : n = Len(requests)
  BY LenProperties DEF LinkInv, Numbered
<1>2. frame[1] \in Reply(n)
  BY <1>1, FrameIsCarried
<1> QED BY <1>1, <1>2 DEF readable, from, Reply

\* A reply that is taken has the id of the request it is taken for.
LEMMA JudgeStep ==
  ASSUME LinkInv, Judge
  PROVE  LinkInv'
<1>1. /\ UNCHANGED <<requests, process, next_id, line, device, half>>
      /\ rx_pending # <<>> /\ rx_pending' = Tail(rx_pending) /\ reader' = <<>>
      /\ h_state = "wait"
  BY DEF Judge, AfterFrame, deviceVars
<1>2. /\ h_state' \in {"idle", "wait"}
      /\ result' = result \/ result'.by = matched'
      /\ \/ matched' = matched
         \/ readable /\ \E n \in 1..Len(requests) : \E reply :
              /\ id_of(n) = id_of(from) /\ reply.of = from
              /\ matched' = [m \in DOMAIN matched \cup {n} |->
                               IF m \in DOMAIN matched THEN matched[m] ELSE reply]
  <2> DEFINE Over == h_state' = "idle" /\ result'.by = matched'
  <2>1. \/ matched' = matched /\ Over
        \/ readable /\ \E n \in 1..Len(requests) :
             /\ ById(n)
             /\ \/ matched' = matched /\ Over
                \/ /\ matched' = [m \in DOMAIN matched \cup {n} |->
                                    IF m \in DOMAIN matched THEN matched[m] ELSE
                                      [of |-> from, whole |-> whole, ok |-> frame[1].ok]]
                   /\ Over \/ (h_state' = h_state /\ result' = result)
    <3> DEFINE Brings(n) == matched' = [m \in DOMAIN matched \cup {n} |->
                                          IF m \in DOMAIN matched THEN matched[m] ELSE
                                            [of |-> from, whole |-> whole, ok |-> frame[1].ok]]
    <3>1. ASSUME NEW o, Ended(o) PROVE Over
      BY <3>1 DEF Ended
    <3>2. \/ UNCHANGED matched /\ \E o : Ended(o)
          \/ readable /\ \E n \in 1..Len(requests) :
               /\ ById(n)
               /\ \/ UNCHANGED matched /\ \E o : Ended(o)
                  \/ Brings(n) /\ ((\E o : Ended(o)) \/ UNCHANGED <<h_state, result>>)
      BY Zenon DEF Judge
    <3> HIDE DEF Over, Brings
    <3>3. UNCHANGED <<h_state, result>> => h_state' = h_state /\ result' = result
      OBVIOUS
    <3> QED BY <3>1, <3>2, <3>3 DEF Brings
  <2>2. CASE matched' = matched /\ Over
    BY <2>2
  <2>3. CASE readable /\ \E n \in 1..Len(requests) :
               /\ ById(n)
               /\ matched' = [m \in DOMAIN matched \cup {n} |->
                                IF m \in DOMAIN matched THEN matched[m] ELSE
                                  [of |-> from, whole |-> whole, ok |-> frame[1].ok]]
               /\ Over \/ (h_state' = h_state /\ result' = result)
    <3>1. PICK n \in 1..Len(requests) :
            /\ ById(n)
            /\ matched' = [m \in DOMAIN matched \cup {n} |->
                             IF m \in DOMAIN matched THEN matched[m] ELSE
                               [of |-> from, whole |-> whole, ok |-> frame[1].ok]]
            /\ Over \/ (h_state' = h_state /\ result' = result)
      BY <2>3
    <3> DEFINE reply == [of |-> from, whole |-> whole, ok |-> frame[1].ok]
    <3>2. reply.of = from /\ id_of(n) = id_of(from)
      BY <3>1 DEF ById
    <3> HIDE DEF reply
    <3> QED BY <1>1, <2>3, <3>1, <3>2 DEF reply
  <2> QED BY <2>1, <2>2, <2>3
<1>3. Numbered'
  BY <1>1, <1>2, NoneMade DEF LinkInv
<1>4. Tail(rx_pending) \in Seq(Reply(Len(requests)))
  BY <1>1, HeadTailProperties DEF LinkInv, Carried
<1>5. Carried(Len(requests))'
  BY <1>1, <1>4, EmptySeq DEF LinkInv, Carried
<1>6. SameIds(matched', requests)
  <2>1. CASE matched' = matched
    BY <2>1 DEF LinkInv
  <2>2. CASE matched' # matched
    <3>1. PICK n \in 1..Len(requests) : \E reply :
            /\ readable /\ id_of(n) = id_of(from) /\ reply.of = from
            /\ matched' = [m \in DOMAIN matched \cup {n} |->
                             IF m \in DOMAIN matched THEN matched[m] ELSE reply]
      BY <1>2, <2>2
    <3>2. PICK reply :
            /\ readable /\ id_of(n) = id_of(from) /\ reply.of = from
            /\ matched' = [m \in DOMAIN matched \cup {n} |->
                             IF m \in DOMAIN matched THEN matched[m] ELSE reply]
      BY <3>1
    <3>3. from \in 1..Len(requests)
      BY <1>1, <3>2, FromWasMade
    <3>4. requests[n].id = requests[from].id
      BY <3>2 DEF id_of
    <3> SUFFICES ASSUME NEW m \in DOMAIN matched'
                 PROVE  /\ m \in 1..Len(requests) /\ matched'[m].of \in 1..Len(requests)
                        /\ requests[m].id = requests[matched'[m].of].id
      BY DEF SameIds
    <3>5. CASE m \in DOMAIN matched
      <4>1. matched'[m] = matched[m]
        BY <3>2, <3>5
      <4> QED BY <3>5, <4>1 DEF LinkInv, SameIds
    <3>6. CASE m \notin DOMAIN matched
      <4>1. m = n /\ matched'[m] = reply
        BY <3>2, <3>6
      <4> QED BY <3>2, <3>3, <3>4, <4>1
    <3> QED BY <3>5, <3>6
  <2> QED BY <2>1, <2>2
<1>7. SameIds(matched, requests)' /\ SameIds(result.by, requests)' /\ (Len(requests) <= MaxRequests)'
  <2>1. SameIds(result'.by, requests)
    BY <1>2, <1>6 DEF LinkInv
  <2> QED BY <1>1, <1>6, <2>1 DEF LinkInv
<1> QED BY <1>3, <1>5, <1>7 DEF LinkInv

-----------------------------------------------------------------------------
(* Requests made. *)

\* Making requests numbers them on.
LEMMA MakeStep ==
  ASSUME LinkInv, NEW cmd \in Commands, MayMake(cmd),
         requests' = requests \o Made(cmd), process' = process,
         \/ next_id' = NextId(Width(cmd))
         \/ next_id' = next_id /\ h_state' = "closed"
  PROVE  /\ Numbered' /\ (Len(requests) <= MaxRequests)'
         /\ Len(requests) \in Nat /\ Len(requests') = Len(requests) + Width(cmd)
         /\ Width(cmd) \in 1..2
         /\ \A taken : SameIds(taken, requests) => SameIds(taken, requests')
<1>1. cmd \in AllCommands /\ h_state = "idle"
  BY FaultsAssumption DEF MayMake
<1>2. Numbered /\ requests \in Seq(Request) /\ Len(requests) \in Nat
  BY LenProperties DEF LinkInv, Numbered
<1>3. /\ Width(cmd) \in 1..2
      /\ requests' \in Seq(Request) /\ Len(requests') = Len(requests) + Width(cmd)
      /\ Longer(requests, requests')
  BY <1>1, <1>2, MadeFacts
<1>4. /\ \A n \in 1..Len(requests') : requests'[n].proc <= process
      /\ Consecutive(requests')
      /\ Following(requests', process, NextId(Width(cmd)))
  BY <1>1, <1>2, MadeKeepsIds
<1>5. NextId(Width(cmd)) \in 0..(Ids - 1) /\ next_id \in 0..(Ids - 1) /\ process \in Nat
  <2>1. Width(cmd) \in 0..2
    BY <1>3
  <2> QED BY <1>2, <2>1, NextIds DEF Numbered
<1>6. Numbered'
  <2>1. next_id' \in 0..(Ids - 1)
    BY <1>5
  <2>2. h_state' # "closed" => Following(requests', process', next_id')
    BY <1>4
  <2> QED BY <1>3, <1>4, <1>5, <2>1, <2>2 DEF Numbered
<1>7. (Len(requests) <= MaxRequests)'
  BY <1>3 DEF MayMake
<1>8. ASSUME NEW taken, SameIds(taken, requests)
      PROVE  SameIds(taken, requests')
  BY <1>2, <1>3, <1>8, LongerKeepsIds
<1> QED BY <1>2, <1>3, <1>6, <1>7, <1>8

\* What was on its way stays there when the log grows.
LEMMA CarriedOn ==
  ASSUME NEW n \in Nat, NEW p \in Nat, n <= p, Carried(n)
  PROVE  Carried(p)
<1>1. Reply(n) \subseteq Reply(p) /\ [req : 1..n, whole : BOOLEAN] \subseteq [req : 1..p, whole : BOOLEAN]
  BY LongerCarries
<1>2. /\ reader \in Seq(Reply(p)) /\ rx_pending \in Seq(Reply(p)) /\ line \in Seq(Reply(p))
      /\ device \in Seq([req : 1..p, whole : BOOLEAN])
  BY <1>1, SeqMonotonic DEF Carried
<1> QED BY <1>2 DEF Carried

\* Sending a request puts it, or what it is run together with, at the device.
LEMMA IssueStep ==
  ASSUME LinkInv, NEW cmd \in Commands, Issue(cmd)
  PROVE  LinkInv'
<1>1. /\ MayMake(cmd) /\ requests' = requests \o Made(cmd) /\ next_id' = NextId(Width(cmd))
      /\ matched' = <<>> /\ half' = 0 /\ reader' = <<>>
      /\ UNCHANGED <<process, rx_pending, result, line>>
  BY DEF Issue
<1>2. /\ Numbered' /\ (Len(requests) <= MaxRequests)'
      /\ Len(requests) \in Nat /\ Len(requests') = Len(requests) + Width(cmd)
      /\ Width(cmd) \in 1..2
      /\ \A taken : SameIds(taken, requests) => SameIds(taken, requests')
  BY <1>1, MakeStep
<1>3. PICK n \in Nat, p \in Nat : n = Len(requests) /\ p = Len(requests')
  BY <1>2
<1>4. p = n + Width(cmd) /\ n <= p
  BY <1>2, <1>3
<1>5. Carried(p) /\ half \in 0..n
  BY <1>3, <1>4, CarriedOn DEF LinkInv, Carried
<1> DEFINE D == [req : 1..p, whole : BOOLEAN]
<1>6. device' \in Seq(D)
  <2>1. device \in Seq(D)
    BY <1>5 DEF Carried
  <2>2. Decoded(n + 1) \in D
    BY <1>2, <1>4, <1>5 DEF Decoded
  <2>3. Width(cmd) = 2 => [req |-> (n + 1) + 1, whole |-> TRUE] \in D
    BY <1>4
  <2> HIDE DEF D
  <2>4. <<Decoded(n + 1)>> \in Seq(D) /\ <<>> \in Seq(D)
    BY <2>2
  <2> DEFINE second == IF Width(cmd) = 2 THEN <<[req |-> (n + 1) + 1, whole |-> TRUE]>> ELSE <<>>
  <2>5. second \in Seq(D)
    BY <2>3, <2>4
  <2>6. device' = device \o <<Decoded(n + 1)>> \o second
    BY <1>3 DEF Issue
  <2> HIDE DEF second
  <2>7. device \o <<Decoded(n + 1)>> \in Seq(D)
    BY <2>1, <2>4, ConcatProperties
  <2> QED BY <2>5, <2>6, <2>7, ConcatProperties
<1>7. Carried(Len(requests))'
  BY <1>1, <1>3, <1>5, <1>6, EmptySeq DEF Carried
<1>8. SameIds(matched, requests)' /\ SameIds(result.by, requests)'
  <2>1. DOMAIN <<>> = {}
    OBVIOUS
  <2>2. SameIds(matched', requests')
    BY <1>1, <2>1 DEF SameIds
  <2>3. SameIds(result.by, requests')
    BY <1>2 DEF LinkInv
  <2> QED BY <1>1, <2>2, <2>3
<1> QED BY <1>2, <1>7, <1>8 DEF LinkInv

\* A frame refused unsent spends its id.
LEMMA TooLargeStep ==
  ASSUME LinkInv, TooLarge
  PROVE  LinkInv'
<1>1. /\ MayMake("seal") /\ "seal" \in Commands /\ requests' = requests \o Made("seal")
      /\ next_id' = NextId(1) /\ result'.by = <<>>
      /\ UNCHANGED <<process, matched, reader, rx_pending, line, device, half>>
  BY DEF TooLarge, MayMake, NoResult, deviceVars
<1>2. Width("seal") = 1
  BY DEF Width
<1>3. /\ Numbered' /\ (Len(requests) <= MaxRequests)'
      /\ Len(requests) \in Nat /\ Len(requests') = Len(requests) + 1
      /\ \A taken : SameIds(taken, requests) => SameIds(taken, requests')
  BY <1>1, <1>2, MakeStep
<1>4. Carried(Len(requests'))
  BY <1>3, CarriedOn DEF LinkInv
<1>5. Carried(Len(requests))'
  BY <1>1, <1>4 DEF Carried
<1>6. SameIds(matched, requests)' /\ SameIds(result.by, requests)'
  <2>1. DOMAIN <<>> = {}
    OBVIOUS
  <2>2. SameIds(result'.by, requests')
    BY <1>1, <2>1 DEF SameIds
  <2>3. SameIds(matched, requests')
    BY <1>3 DEF LinkInv
  <2> QED BY <1>1, <2>2, <2>3
<1> QED BY <1>3, <1>5, <1>6 DEF LinkInv

\* A process that dies in a write spends its id as well.
LEMMA DieWritingStep ==
  ASSUME LinkInv, NEW cmd \in Commands, DieWriting(cmd)
  PROVE  LinkInv'
<1>1. /\ MayMake(cmd) /\ Width(cmd) = 1 /\ requests' = requests \o Made(cmd)
      /\ half' = IF half # 0 THEN half ELSE Len(requests) + 1
      /\ h_state' = "closed"
      /\ UNCHANGED <<process, next_id, matched, reader, rx_pending, result, line, device>>
  BY DEF DieWriting
<1>2. /\ Numbered' /\ (Len(requests) <= MaxRequests)'
      /\ Len(requests) \in Nat /\ Len(requests') = Len(requests) + 1
      /\ \A taken : SameIds(taken, requests) => SameIds(taken, requests')
  BY <1>1, MakeStep
<1>3. Carried(Len(requests'))
  BY <1>2, CarriedOn DEF LinkInv
<1>4. half' \in 0..Len(requests')
  BY <1>1, <1>2 DEF LinkInv, Carried
<1>5. Carried(Len(requests))'
  BY <1>1, <1>3, <1>4 DEF Carried
<1>6. SameIds(matched, requests)' /\ SameIds(result.by, requests)'
  BY <1>1, <1>2 DEF LinkInv
<1> QED BY <1>2, <1>5, <1>6 DEF LinkInv

-----------------------------------------------------------------------------
(* What an id can tell apart. *)

\* It holds before the port is opened.
LEMMA LinkStarts == Init => LinkInv
<1> SUFFICES ASSUME Init PROVE LinkInv
  OBVIOUS
<1>1. /\ requests = <<>> /\ h_state = "closed" /\ process = 0 /\ next_id = 0
      /\ matched = <<>> /\ reader = <<>> /\ rx_pending = <<>> /\ device = <<>> /\ half = 0
      /\ result.by = <<>> /\ line \in {<<>>, <<Stray>>}
  BY DEF Init, NoResult
<1>2. <<>> \in Seq(Request) /\ Len(<<>>) = 0 /\ DOMAIN <<>> = {} /\ 1..0 = {}
  OBVIOUS
<1>3. Numbered
  BY <1>1, <1>2, IdsAssumption DEF Numbered, Consecutive
<1>4. Stray \in Reply(0)
  BY DEF Stray, Chunk, Reply
<1>5. Carried(0)
  <2> DEFINE R == Reply(0)
             D == [req : 1..0, whole : BOOLEAN]
  <2>1. Stray \in R
    BY <1>4
  <2> HIDE DEF R, D
  <2>2. <<>> \in Seq(R) /\ <<Stray>> \in Seq(R) /\ <<>> \in Seq(D)
    BY <2>1
  <2>3. reader \in Seq(R) /\ rx_pending \in Seq(R) /\ line \in Seq(R) /\ device \in Seq(D)
    BY <1>1, <2>2
  <2>4. half \in 0..0
    BY <1>1
  <2> QED BY <2>3, <2>4 DEF Carried, R, D
<1>6. SameIds(matched, requests) /\ SameIds(result.by, requests)
  BY <1>1, <1>2 DEF SameIds
<1> QED BY <1>1, <1>2, <1>3, <1>5, <1>6, BoundsAssumption DEF LinkInv

\* It holds while nothing of the link changes.
LEMMA LinkStutter ==
  ASSUME LinkInv, UNCHANGED vars
  PROVE  LinkInv'
<1>1. UNCHANGED <<requests, h_state, process, next_id, matched, result, reader, rx_pending,
                  line, device, half>>
  BY DEF vars, hostVars, deviceVars
<1>2. Numbered'
  BY <1>1, NoneMade DEF LinkInv
<1>3. Carried(Len(requests))'
  BY <1>1 DEF LinkInv, Carried
<1> QED BY <1>1, <1>2, <1>3 DEF LinkInv

\* It always holds.
LEMMA LinkInvariant == Spec => []LinkInv
<1>1. LinkInv /\ [Next]_vars => LinkInv'
  <2> SUFFICES ASSUME LinkInv, [Next]_vars PROVE LinkInv'
    OBVIOUS
  <2>1. CASE Open
    BY <2>1, OpenStep
  <2>2. CASE DrainRead \/ DrainEnds \/ Close \/ DieWaiting \/ Read
    BY <2>2, IdleStep
  <2>3. CASE \E cmd \in Commands : Issue(cmd) \/ DieWriting(cmd)
    BY <2>3, IssueStep, DieWritingStep
  <2>4. CASE TooLarge
    BY <2>4, TooLargeStep
  <2>5. CASE Device
    BY <2>5, DeviceStep
  <2>6. CASE Feed
    BY <2>6, FeedStep
  <2>7. CASE Judge
    BY <2>7, JudgeStep
  <2>8. CASE Timeout
    BY <2>8, TimeoutStep
  <2>9. CASE UNCHANGED vars
    BY <2>9, LinkStutter
  <2> QED BY <2>1, <2>2, <2>3, <2>4, <2>5, <2>6, <2>7, <2>8, <2>9 DEF Next
<1> QED BY <1>1, LinkStarts, PTL DEF Spec

\* Two requests of one process share an id only when it has come round.
LEMMA IdsComeRound ==
  ASSUME Numbered, NEW m \in 1..Len(requests), NEW n \in 1..Len(requests), m < n,
         requests[m].proc = requests[n].proc, requests[m].id = requests[n].id
  PROVE  m + Ids <= n
<1>1. Len(requests) \in Nat
  BY LenProperties DEF Numbered
<1>2. requests[m].id \in 0..(Ids - 1)
  <2>1. requests[m] \in Request
    BY ElementOfSeq DEF Numbered
  <2> QED BY <2>1 DEF Request
<1> SUFFICES ASSUME ~(m + Ids <= n) PROVE FALSE
  OBVIOUS
<1>3. n - m < Ids /\ n - m \in 1..(Ids - 1)
  BY <1>1, IdsAssumption
<1>4. requests[n].id = Wrapped(requests[m].id + (n - m))
  BY <1>3 DEF Numbered, Consecutive
<1>5. Wrapped(requests[m].id + (n - m)) # requests[m].id
  <2>1. PICK x \in 0..(Ids - 1), d \in 1..(Ids - 1) : x = requests[m].id /\ d = n - m
    BY <1>2, <1>3
  <2>2. Wrapped(x + d) # x
    BY IdsAssumption DEF Wrapped
  <2> QED BY <2>1, <2>2
<1> QED BY <1>4, <1>5

\* With what a command returned: it is its own request's, or its process has
\* made as many requests between the two as there are ids.
OwnUntilIdsComeRound ==
  result.outcome = "ok" =>
    \A t \in Taken :
      Process(t[2].of) = Process(t[1]) =>
        t[1] = t[2].of \/ t[1] + Ids <= t[2].of \/ t[2].of + Ids <= t[1]

\* Whatever is lost, torn, cut short, delayed or left by an earlier process,
\* in whatever order two engines answer and whoever dies in the middle of a
\* write: what a command returns came in the reply to its own request, or in
\* one of its process's replies that is as many requests away as there are
\* ids (65536). The line and the device are given every freedom.
THEOREM RepliesAreOwnUntilIdsComeRound == Spec => []OwnUntilIdsComeRound
<1>1. LinkInv => OwnUntilIdsComeRound
  <2> SUFFICES ASSUME LinkInv, NEW t \in Taken, Process(t[2].of) = Process(t[1])
               PROVE  t[1] = t[2].of \/ t[1] + Ids <= t[2].of \/ t[2].of + Ids <= t[1]
    BY DEF OwnUntilIdsComeRound
  <2>1. PICK n \in DOMAIN result.by : t = <<n, result.by[n]>>
    BY DEF Taken
  <2>2. PICK m : m = result.by[n].of
    OBVIOUS
  <2>3. t[1] = n /\ t[2].of = m
    BY <2>1, <2>2
  <2>4. n \in 1..Len(requests) /\ m \in 1..Len(requests) /\ requests[n].id = requests[m].id
    BY <2>2 DEF LinkInv, SameIds
  <2>5. requests[m].proc = requests[n].proc
    BY <2>3 DEF Process
  <2>6. m < n => m + Ids <= n
    BY <2>4, <2>5, IdsComeRound DEF LinkInv
  <2>7. n < m => n + Ids <= m
    BY <2>4, <2>5, IdsComeRound DEF LinkInv
  <2>8. Len(requests) \in Nat
    BY LenProperties DEF LinkInv, Numbered
  <2> QED BY <2>3, <2>4, <2>6, <2>7, <2>8
<1> QED BY <1>1, LinkInvariant, PTL

\* Until its ids come round: what a command returns came in the reply to its
\* own request, unless that reply is one that an earlier process left behind.
THEOREM RepliesAreOwn == MaxRequests <= Ids => (Spec => []OwnReply)
<1> SUFFICES ASSUME MaxRequests <= Ids PROVE Spec => []OwnReply
  OBVIOUS
<1>1. LinkInv /\ OwnUntilIdsComeRound => OwnReply
  <2> SUFFICES ASSUME LinkInv, OwnUntilIdsComeRound, result.outcome = "ok",
                      NEW t \in Taken, Process(t[2].of) = Process(t[1])
               PROVE  t[1] = t[2].of
    BY DEF OwnReply
  <2>1. PICK n \in DOMAIN result.by : t = <<n, result.by[n]>>
    BY DEF Taken
  <2>2. t[1] \in 1..Len(requests) /\ t[2].of \in 1..Len(requests)
    BY <2>1 DEF LinkInv, SameIds
  <2>3. Len(requests) \in Nat /\ Len(requests) <= Ids
    <3>1. Len(requests) \in Nat /\ Len(requests) <= MaxRequests
      BY LenProperties DEF LinkInv, Numbered
    <3> QED BY <3>1, BoundsAssumption, IdsAssumption
  <2>4. t[1] = t[2].of \/ t[1] + Ids <= t[2].of \/ t[2].of + Ids <= t[1]
    BY DEF OwnUntilIdsComeRound
  <2> QED BY <2>2, <2>3, <2>4, IdsAssumption
<1> QED BY <1>1, LinkInvariant, RepliesAreOwnUntilIdsComeRound, PTL

-----------------------------------------------------------------------------
(* What is on the way to the next command to look: what the reader holds,   *)
(* what was read and not fed, what is on the line. A step takes some of its *)
(* front or adds an answer at its end, and changes nothing else.            *)

\* A sequence of three parts, element by element.
Joined(s, a, b, c) ==
  /\ Len(s) = Len(a) + (Len(b) + Len(c)) /\ DOMAIN s = 1..Len(s)
  /\ Len(a) \in Nat /\ Len(b) \in Nat /\ Len(c) \in Nat
  /\ \A i \in 1..Len(s) :
       /\ i <= Len(a) => s[i] = a[i]
       /\ i > Len(a) /\ i <= Len(a) + Len(b) => s[i] = b[i - Len(a)]
       /\ i > Len(a) + Len(b) => s[i] = c[i - (Len(a) + Len(b))]

\* That is what concatenation is.
LEMMA JoinedFacts ==
  ASSUME NEW S, NEW a \in Seq(S), NEW b \in Seq(S), NEW c \in Seq(S),
         NEW s, s = a \o (b \o c)
  PROVE  s \in Seq(S) /\ Joined(s, a, b, c)
<1>1. PICK r : r = b \o c
  OBVIOUS
<1>2. Len(a) \in Nat /\ Len(b) \in Nat /\ Len(c) \in Nat
  BY LenProperties
<1>3. /\ r \in Seq(S) /\ Len(r) = Len(b) + Len(c)
      /\ \A i \in 1..(Len(b) + Len(c)) : r[i] = IF i <= Len(b) THEN b[i] ELSE c[i - Len(b)]
  BY <1>1, ConcatProperties
<1>4. /\ s \in Seq(S) /\ Len(s) = Len(a) + Len(r)
      /\ \A i \in 1..(Len(a) + Len(r)) : s[i] = IF i <= Len(a) THEN a[i] ELSE r[i - Len(a)]
  BY <1>1, <1>3, ConcatProperties
<1>5. ASSUME NEW i \in 1..Len(s)
      PROVE  /\ i <= Len(a) => s[i] = a[i]
             /\ i > Len(a) /\ i <= Len(a) + Len(b) => s[i] = b[i - Len(a)]
             /\ i > Len(a) + Len(b) => s[i] = c[i - (Len(a) + Len(b))]
  <2>0. i \in Nat /\ i \in 1..(Len(a) + Len(r))
    BY <1>2, <1>4
  <2>1. i <= Len(a) => s[i] = a[i]
    BY <1>4, <2>0
  <2>2. ASSUME i > Len(a)
        PROVE  s[i] = IF i <= Len(a) + Len(b) THEN b[i - Len(a)] ELSE c[i - (Len(a) + Len(b))]
    <3>1. i - Len(a) \in 1..(Len(b) + Len(c)) /\ ~(i <= Len(a))
      BY <1>2, <1>3, <2>0, <2>2
    <3>2. PICK x : x = i - Len(a)
      OBVIOUS
    <3>3. x \in 1..(Len(b) + Len(c)) /\ s[i] = r[x]
      BY <1>4, <2>0, <3>1, <3>2
    <3>4. (x <= Len(b) <=> i <= Len(a) + Len(b)) /\ x - Len(b) = i - (Len(a) + Len(b))
      BY <1>2, <2>0, <3>2
    <3> QED BY <1>3, <3>2, <3>3, <3>4
  <2>3. i > Len(a) + Len(b) => i > Len(a) /\ ~(i <= Len(a) + Len(b))
    BY <1>2, <2>0
  <2> QED BY <2>1, <2>2, <2>3
<1> QED BY <1>2, <1>3, <1>4, <1>5, LenProperties DEF Joined

\* The first k of s are gone in t.
Drops(s, t, k) ==
  /\ k \in Nat /\ Len(t) \in Nat /\ Len(s) = Len(t) + k
  /\ DOMAIN s = 1..Len(s) /\ DOMAIN t = 1..Len(t)
  /\ \A i \in 1..Len(t) : t[i] = s[i + k]

\* What is left of a sequence when k are taken from its front.
LEMMA RestOf ==
  ASSUME NEW S, NEW c \in Seq(S), NEW k \in 0..Len(c),
         NEW d, d = SubSeq(c, k + 1, Len(c))
  PROVE  d \in Seq(S) /\ Len(d) = Len(c) - k /\ \A i \in 1..Len(d) : d[i] = c[i + k]
<1>1. Len(c) \in Nat /\ k \in Nat /\ k <= Len(c) /\ \A i \in 1..Len(c) : c[i] \in S
  BY LenProperties, ElementOfSeq
<1>2. PICK n \in Nat, m \in Nat : n = Len(c) /\ m = k + 1
  BY <1>1
<1>3. \A i \in m..n : c[i] \in S
  BY <1>1, <1>2
<1>4. /\ d \in Seq(S) /\ Len(d) = (IF m <= n THEN (n - m) + 1 ELSE 0)
      /\ \A i \in 1..((n - m) + 1) : d[i] = c[(m + i) - 1]
  <2>1. d = SubSeq(c, m, n) /\ m \in Int /\ n \in Int
    BY <1>2
  <2>2. /\ SubSeq(c, m, n) \in Seq(S)
        /\ Len(SubSeq(c, m, n)) = (IF m <= n THEN n - m + 1 ELSE 0)
        /\ \A i \in 1..(n - m + 1) : SubSeq(c, m, n)[i] = c[m + i - 1]
    BY <1>3, <2>1, SubSeqProperties
  <2> QED BY <2>1, <2>2, <1>2
<1>5. Len(d) = Len(c) - k
  BY <1>1, <1>2, <1>4
<1>6. ASSUME NEW i \in 1..Len(d) PROVE d[i] = c[i + k]
  <2>1. i \in 1..((n - m) + 1) /\ (m + i) - 1 = i + k
    BY <1>1, <1>2, <1>5
  <2> QED BY <1>4, <2>1
<1> QED BY <1>4, <1>5, <1>6

\* Reading takes a front part of the line.
LEMMA ReadDrops ==
  ASSUME NEW S, NEW a \in Seq(S), NEW c \in Seq(S), NEW k \in 1..Len(c)
  PROVE  Drops(a \o (<<>> \o c), a \o (SubSeq(c, 1, k) \o SubSeq(c, k + 1, Len(c))), 0)
<1>1. Len(c) \in Nat /\ k \in Nat /\ k <= Len(c) /\ \A i \in 1..Len(c) : c[i] \in S
  BY LenProperties, ElementOfSeq
<1>2. PICK e \in Seq(S) : e = <<>>
  BY EmptySeq
<1>3. PICK b \in Seq(S) : /\ b = SubSeq(c, 1, k) /\ Len(b) = k
                          /\ \A i \in 1..k : b[i] = c[i]
  <2>1. /\ SubSeq(c, 1, k) \in Seq(S) /\ Len(SubSeq(c, 1, k)) = k
        /\ \A i \in 1..((k - 1) + 1) : SubSeq(c, 1, k)[i] = c[(1 + i) - 1]
    BY <1>1, SubSeqProperties
  <2>2. \A i \in 1..k : i \in 1..((k - 1) + 1) /\ (1 + i) - 1 = i
    BY <1>1
  <2> QED BY <2>1, <2>2
<1>4. PICK d \in Seq(S) : /\ d = SubSeq(c, k + 1, Len(c)) /\ Len(d) = Len(c) - k
                          /\ \A i \in 1..Len(d) : d[i] = c[i + k]
  <2>1. PICK d : d = SubSeq(c, k + 1, Len(c))
    OBVIOUS
  <2>2. k \in 0..Len(c)
    BY <1>1
  <2>3. d \in Seq(S) /\ Len(d) = Len(c) - k /\ \A i \in 1..Len(d) : d[i] = c[i + k]
    BY <2>1, <2>2, RestOf
  <2> QED BY <2>1, <2>3, Zenon
<1>5. Len(e) = 0
  BY <1>2
<1>a. PICK s, t : s = a \o (e \o c) /\ t = a \o (b \o d)
  OBVIOUS
<1>6. /\ s \in Seq(S) /\ Len(s) = Len(a) + (0 + Len(c)) /\ Len(a) \in Nat
      /\ \A i \in 1..Len(s) : /\ i <= Len(a) => s[i] = a[i]
                              /\ i > Len(a) + 0 => s[i] = c[i - (Len(a) + 0)]
  BY <1>5, <1>a, JoinedFacts DEF Joined
<1>7. /\ t \in Seq(S) /\ Len(t) = Len(a) + (Len(b) + Len(d))
      /\ \A i \in 1..Len(t) :
           /\ i <= Len(a) => t[i] = a[i]
           /\ i > Len(a) /\ i <= Len(a) + Len(b) => t[i] = b[i - Len(a)]
           /\ i > Len(a) + Len(b) => t[i] = d[i - (Len(a) + Len(b))]
  BY <1>a, JoinedFacts DEF Joined
<1>8. Len(s) = Len(t) /\ Len(t) = Len(a) + Len(c)
  BY <1>1, <1>3, <1>4, <1>6, <1>7
<1>9. ASSUME NEW i \in 1..Len(t) PROVE t[i] = s[i + 0]
  <2>0. i + 0 = i /\ i \in 1..Len(s)
    BY <1>8
  <2>1. CASE i <= Len(a)
    BY <1>6, <1>7, <2>0, <2>1
  <2>2. CASE i > Len(a) /\ i <= Len(a) + k
    <3>1. i - Len(a) \in 1..k /\ i - (Len(a) + 0) = i - Len(a) /\ i > Len(a) + 0
      BY <1>6, <2>2
    <3>2. t[i] = b[i - Len(a)]
      BY <1>3, <1>7, <2>2
    <3>3. s[i] = c[i - Len(a)]
      BY <1>6, <2>0, <3>1
    <3> QED BY <1>3, <2>0, <3>1, <3>2, <3>3
  <2>3. CASE i > Len(a) + k
    <3>1. /\ i - (Len(a) + k) \in 1..Len(d) /\ (i - (Len(a) + k)) + k = i - (Len(a) + 0)
          /\ i > Len(a) + 0
      BY <1>1, <1>4, <1>6, <1>8, <2>3
    <3>2. t[i] = d[i - (Len(a) + k)]
      BY <1>3, <1>7, <2>3
    <3>3. s[i] = c[i - (Len(a) + 0)]
      BY <1>6, <2>0, <3>1
    <3> QED BY <1>4, <2>0, <3>1, <3>2, <3>3
  <2> QED BY <1>1, <1>6, <2>1, <2>2, <2>3
<1>10. DOMAIN s = 1..Len(s) /\ DOMAIN t = 1..Len(t) /\ Len(t) \in Nat
  BY <1>6, <1>7, LenProperties
<1>11. Drops(s, t, 0)
  BY <1>8, <1>9, <1>10 DEF Drops
<1> QED BY <1>2, <1>3, <1>4, <1>a, <1>11

\* Feeding moves a chunk from what was read into the reader.
LEMMA FeedDrops ==
  ASSUME NEW S, NEW a \in Seq(S), NEW b \in Seq(S), NEW c \in Seq(S), b # <<>>,
         NEW s, s = a \o (b \o c), NEW t, t = Append(a, Head(b)) \o (Tail(b) \o c)
  PROVE  Drops(s, t, 0)
<1>1. PICK h, u : h = Append(a, Head(b)) /\ u = Tail(b)
  OBVIOUS
<1>2. /\ Head(b) \in S /\ u \in Seq(S) /\ Len(b) = Len(u) + 1 /\ Head(b) = b[1]
      /\ \A i \in 1..Len(u) : u[i] = b[i + 1]
  BY <1>1, HeadTailProperties, LenProperties
<1>3. /\ h \in Seq(S) /\ Len(h) = Len(a) + 1 /\ h[Len(a) + 1] = b[1]
      /\ \A i \in 1..Len(a) : h[i] = a[i]
  BY <1>1, <1>2, AppendProperties
<1>4. /\ s \in Seq(S) /\ Len(s) = Len(a) + (Len(b) + Len(c))
      /\ Len(a) \in Nat /\ Len(b) \in Nat /\ Len(c) \in Nat
      /\ \A i \in 1..Len(s) :
           /\ i <= Len(a) => s[i] = a[i]
           /\ i > Len(a) /\ i <= Len(a) + Len(b) => s[i] = b[i - Len(a)]
           /\ i > Len(a) + Len(b) => s[i] = c[i - (Len(a) + Len(b))]
  BY JoinedFacts DEF Joined
<1>5. /\ t \in Seq(S) /\ Len(t) = Len(h) + (Len(u) + Len(c)) /\ Len(u) \in Nat
      /\ \A i \in 1..Len(t) :
           /\ i <= Len(h) => t[i] = h[i]
           /\ i > Len(h) /\ i <= Len(h) + Len(u) => t[i] = u[i - Len(h)]
           /\ i > Len(h) + Len(u) => t[i] = c[i - (Len(h) + Len(u))]
  <2>1. t \in Seq(S) /\ Joined(t, h, u, c)
    BY <1>1, <1>2, <1>3, JoinedFacts, Zenon
  <2> QED BY <2>1 DEF Joined
<1>6. Len(s) = Len(t) /\ Len(h) + Len(u) = Len(a) + Len(b)
  BY <1>2, <1>3, <1>4, <1>5
<1>7. ASSUME NEW i \in 1..Len(t) PROVE t[i] = s[i + 0]
  <2>0. i + 0 = i /\ i \in 1..Len(s) /\ i \in Nat
    BY <1>4, <1>5, <1>6
  <2>1. CASE i <= Len(a)
    BY <1>3, <1>4, <1>5, <2>0, <2>1
  <2>2. CASE i = Len(a) + 1
    <3>1. s[i] = b[i - Len(a)] /\ i - Len(a) = 1
      BY <1>2, <1>4, <1>5, <2>0, <2>2
    <3> QED BY <1>3, <1>4, <1>5, <2>0, <2>2, <3>1
  <2>3. CASE i > Len(a) + 1 /\ i <= Len(a) + Len(b)
    <3>1. PICK x, y : x = i - Len(h) /\ y = i - Len(a)
      OBVIOUS
    <3>2. x \in 1..Len(u) /\ y = x + 1
      BY <1>2, <1>3, <1>4, <1>5, <2>0, <2>3, <3>1
    <3>3. t[i] = u[x]
      BY <1>3, <1>4, <1>5, <1>6, <2>0, <2>3, <3>1
    <3>4. s[i] = b[y]
      BY <1>4, <2>0, <2>3, <3>1
    <3> QED BY <1>2, <2>0, <3>2, <3>3, <3>4
  <2>4. CASE i > Len(a) + Len(b)
    BY <1>4, <1>5, <1>6, <2>0, <2>4
  <2>5. i <= Len(a) \/ i = Len(a) + 1 \/ (i > Len(a) + 1 /\ i <= Len(a) + Len(b)) \/ i > Len(a) + Len(b)
    BY <1>4, <2>0
  <2> QED BY <2>1, <2>2, <2>3, <2>4, <2>5, Zenon
<1>8. DOMAIN s = 1..Len(s) /\ DOMAIN t = 1..Len(t) /\ Len(t) \in Nat
  BY <1>4, <1>5, LenProperties
<1>9. 0 \in Nat /\ Len(s) = Len(t) + 0
  BY <1>6, <1>8
<1> QED BY <1>7, <1>8, <1>9, Zenon DEF Drops

\* What is left when the reader is emptied and the rest has lost its front.
LEMMA RestDrops ==
  ASSUME NEW S, NEW a \in Seq(S), NEW b \in Seq(S), NEW c \in Seq(S),
         NEW u \in Seq(S), NEW v \in Seq(S), NEW m, NEW n,
         Drops(b, u, m), Drops(c, v, n), n = 0 \/ Len(u) = 0,
         NEW s, s = a \o (b \o c), NEW t, t = <<>> \o (u \o v)
  PROVE  Drops(s, t, Len(a) + (m + n))
<1>1. PICK e \in Seq(S) : e = <<>> /\ Len(e) = 0
  BY EmptySeq
<1>a. s \in Seq(S) /\ Joined(s, a, b, c)
  BY JoinedFacts, Zenon
<1>2. /\ s \in Seq(S) /\ Len(s) = Len(a) + (Len(b) + Len(c))
      /\ Len(a) \in Nat /\ Len(b) \in Nat /\ Len(c) \in Nat
      /\ \A i \in 1..Len(s) :
           /\ i <= Len(a) => s[i] = a[i]
           /\ i > Len(a) /\ i <= Len(a) + Len(b) => s[i] = b[i - Len(a)]
           /\ i > Len(a) + Len(b) => s[i] = c[i - (Len(a) + Len(b))]
  BY <1>a DEF Joined
<1>b. t \in Seq(S) /\ Joined(t, e, u, v)
  BY <1>1, JoinedFacts, Zenon
<1>3. /\ t \in Seq(S) /\ Len(t) = 0 + (Len(u) + Len(v)) /\ Len(u) \in Nat /\ Len(v) \in Nat
      /\ \A i \in 1..Len(t) :
           /\ i > 0 /\ i <= 0 + Len(u) => t[i] = u[i - 0]
           /\ i > 0 + Len(u) => t[i] = v[i - (0 + Len(u))]
  BY <1>1, <1>b DEF Joined
<1>4. /\ m \in Nat /\ n \in Nat /\ Len(b) = Len(u) + m /\ Len(c) = Len(v) + n
      /\ \A i \in 1..Len(u) : u[i] = b[i + m]
      /\ \A i \in 1..Len(v) : v[i] = c[i + n]
  BY DEF Drops
<1>5. Len(s) = Len(t) + (Len(a) + (m + n)) /\ Len(a) + (m + n) \in Nat /\ Len(t) \in Nat
  BY <1>2, <1>3, <1>4
<1>6. ASSUME NEW i \in 1..Len(t) PROVE t[i] = s[i + (Len(a) + (m + n))]
  <2>1. PICK j : j = i + (Len(a) + (m + n))
    OBVIOUS
  <2>2. i \in Nat /\ j \in 1..Len(s)
    BY <1>5, <2>1
  <2>3. CASE i <= Len(u)
    <3>1. n = 0
      BY <1>3, <2>2, <2>3
    <3>2. j - Len(a) = i + m /\ j > Len(a) /\ j <= Len(a) + Len(b) /\ i \in 1..Len(u)
      BY <1>2, <1>3, <1>4, <2>1, <2>2, <2>3, <3>1
    <3>3. s[j] = b[i + m]
      BY <1>2, <2>2, <3>2
    <3>4. t[i] = u[i]
      BY <1>3, <2>2, <2>3
    <3> QED BY <1>4, <2>1, <3>2, <3>3, <3>4
  <2>4. CASE i > Len(u)
    <3>1. PICK x : x = i - Len(u)
      OBVIOUS
    <3>a. /\ Len(t) = Len(u) + Len(v) /\ Len(b) = Len(u) + m
          /\ Len(u) \in Nat /\ Len(v) \in Nat /\ Len(a) \in Nat /\ m \in Nat /\ n \in Nat
      BY <1>2, <1>3, <1>4
    <3>2. x \in 1..Len(v) /\ j - (Len(a) + Len(b)) = x + n /\ j > Len(a) + Len(b)
      BY <2>1, <2>2, <2>4, <3>1, <3>a
    <3>3. s[j] = c[x + n]
      BY <1>2, <2>2, <3>2
    <3>4. t[i] = v[x]
      BY <1>3, <2>2, <2>4, <3>1
    <3> QED BY <1>4, <2>1, <3>2, <3>3, <3>4
  <2>5. i <= Len(u) \/ i > Len(u)
    BY <1>3, <2>2
  <2> QED BY <2>3, <2>4, <2>5, Zenon
<1> QED BY <1>2, <1>3, <1>5, <1>6, LenProperties DEF Drops

\* A sequence left alone, emptied, or with its front taken.
LEMMA DropsSome ==
  ASSUME NEW S, NEW s \in Seq(S)
  PROVE  /\ Drops(s, s, 0) /\ Drops(s, <<>>, Len(s))
         /\ s # <<>> => Drops(s, Tail(s), 1)
         /\ \A k \in 1..Len(s) : Drops(s, SubSeq(s, k + 1, Len(s)), k)
<1>1. Len(s) \in Nat /\ DOMAIN s = 1..Len(s)
  BY LenProperties
<1>2. Drops(s, s, 0)
  BY <1>1 DEF Drops
<1>3. Drops(s, <<>>, Len(s))
  <2>1. PICK e \in Seq(S) : e = <<>> /\ Len(e) = 0 /\ DOMAIN e = 1..0
    BY EmptySeq, LenProperties
  <2> QED BY <1>1, <2>1 DEF Drops
<1>4. ASSUME s # <<>> PROVE Drops(s, Tail(s), 1)
  <2>1. PICK u : u = Tail(s)
    OBVIOUS
  <2>2. /\ u \in Seq(S) /\ Len(s) = Len(u) + 1 /\ Len(u) \in Nat /\ DOMAIN u = 1..Len(u)
        /\ \A i \in 1..Len(u) : u[i] = s[i + 1]
    BY <1>1, <1>4, <2>1, HeadTailProperties, LenProperties
  <2> QED BY <1>1, <2>1, <2>2 DEF Drops
<1>5. ASSUME NEW k \in 1..Len(s) PROVE Drops(s, SubSeq(s, k + 1, Len(s)), k)
  <2>1. PICK d : d = SubSeq(s, k + 1, Len(s))
    OBVIOUS
  <2>2. k \in 0..Len(s) /\ k \in Nat
    BY <1>1
  <2>3. d \in Seq(S) /\ Len(d) = Len(s) - k /\ \A i \in 1..Len(d) : d[i] = s[i + k]
    BY <2>1, <2>2, RestOf
  <2>4. Len(d) \in Nat /\ DOMAIN d = 1..Len(d) /\ Len(s) = Len(d) + k
    BY <1>1, <2>2, <2>3, LenProperties
  <2> QED BY <1>1, <2>1, <2>2, <2>3, <2>4 DEF Drops
<1> QED BY <1>2, <1>3, <1>4, <1>5

\* An answer joins at the end.
Grows(s, t, d) ==
  /\ Len(s) \in Nat /\ Len(t) = Len(s) + Len(d)
  /\ DOMAIN s = 1..Len(s) /\ DOMAIN t = 1..Len(t)
  /\ \A i \in 1..Len(s) : t[i] = s[i]
  /\ \A i \in 1..Len(d) : t[Len(s) + i] = d[i]

\* What the device writes comes after everything else.
LEMMA AnswerGrows ==
  ASSUME NEW S, NEW a \in Seq(S), NEW b \in Seq(S), NEW c \in Seq(S), NEW d \in Seq(S),
         NEW s, s = a \o (b \o c), NEW t, t = a \o (b \o (c \o d))
  PROVE  Grows(s, t, d)
<1>1. s \in Seq(S) /\ Joined(s, a, b, c)
  BY JoinedFacts, Zenon
<1>2. PICK y : y = b \o (c \o d)
  OBVIOUS
<1>3. y \in Seq(S) /\ Joined(y, b, c, d) /\ t = a \o y
  BY <1>2, JoinedFacts, Zenon
<1>4. /\ t \in Seq(S) /\ Len(t) = Len(a) + Len(y)
      /\ \A i \in 1..(Len(a) + Len(y)) : t[i] = IF i <= Len(a) THEN a[i] ELSE y[i - Len(a)]
  BY <1>3, ConcatProperties
<1>5. PICK p \in Nat, q \in Nat, m \in Nat, n \in Nat :
        p = Len(a) /\ q = Len(b) /\ m = Len(c) /\ n = Len(d)
  BY LenProperties
<1>6. /\ Len(s) = p + (q + m) /\ DOMAIN s = 1..Len(s) /\ Len(y) = q + (m + n)
      /\ Len(t) = Len(s) + n /\ DOMAIN t = 1..Len(t)
  <2>1. Len(s) = p + (q + m) /\ DOMAIN s = 1..Len(s) /\ Len(y) = q + (m + n)
    BY <1>1, <1>3, <1>5 DEF Joined
  <2>2. Len(t) = p + Len(y) /\ DOMAIN t = 1..Len(t)
    BY <1>4, <1>5, LenProperties
  <2> QED BY <2>1, <2>2
<1>7. ASSUME NEW i \in 1..Len(t)
      PROVE  (i <= p => t[i] = a[i]) /\ (i > p => t[i] = y[i - p])
  <2>1. t[i] = IF i <= p THEN a[i] ELSE y[i - p]
    BY <1>4, <1>5
  <2>2. i > p => ~(i <= p)
    BY <1>5, <1>6
  <2> QED BY <2>1, <2>2
<1>8. ASSUME NEW i \in 1..Len(s) PROVE t[i] = s[i]
  <2>1. i \in 1..Len(t) /\ i \in Nat
    BY <1>6
  <2>2. CASE i <= p
    BY <1>1, <1>5, <1>7, <2>1, <2>2 DEF Joined
  <2>3. CASE i > p
    <3>1. PICK j : j = i - p
      OBVIOUS
    <3>2. j \in 1..Len(y) /\ j \in 1..(q + m)
      BY <1>6, <2>1, <2>3, <3>1
    <3>3. t[i] = y[j]
      BY <1>7, <2>1, <2>3, <3>1
    <3>4. CASE j <= q
      <4>1. y[j] = b[j]
        BY <1>3, <1>5, <3>2, <3>4 DEF Joined
      <4>2. s[i] = b[i - p]
        BY <1>1, <1>5, <2>3, <3>1, <3>2, <3>4 DEF Joined
      <4> QED BY <3>1, <3>3, <4>1, <4>2
    <3>5. CASE j > q
      <4>1. y[j] = c[j - q]
        BY <1>3, <1>5, <3>2, <3>5 DEF Joined
      <4>2. s[i] = c[i - (p + q)]
        BY <1>1, <1>5, <2>3, <3>1, <3>2, <3>5 DEF Joined
      <4>3. i - (p + q) = j - q
        BY <2>1, <3>1
      <4> QED BY <3>3, <4>1, <4>2, <4>3
    <3>6. j <= q \/ j > q
      BY <3>2
    <3> QED BY <3>4, <3>5, <3>6, Zenon
  <2>4. i <= p \/ i > p
    BY <2>1
  <2> QED BY <2>2, <2>3, <2>4, Zenon
<1>9. ASSUME NEW i \in 1..Len(d) PROVE t[Len(s) + i] = d[i]
  <2>1. PICK j, k : j = Len(s) + i /\ k = j - p
    OBVIOUS
  <2>2. j \in 1..Len(t) /\ j > p /\ k \in 1..Len(y) /\ k > q + m /\ k - (q + m) = i
    BY <1>5, <1>6, <2>1
  <2>3. t[j] = y[k]
    BY <1>7, <2>1, <2>2
  <2>4. y[k] = d[k - (q + m)]
    BY <1>3, <1>5, <2>2 DEF Joined
  <2> QED BY <2>1, <2>2, <2>3, <2>4
<1>10. Len(s) \in Nat /\ Len(t) = Len(s) + Len(d)
  BY <1>5, <1>6
<1> QED BY <1>6, <1>8, <1>9, <1>10 DEF Grows

-----------------------------------------------------------------------------
stream == reader \o (rx_pending \o line)

\* The reader holds no END, and a port being drained has read nothing to keep.
ReaderOk ==
  /\ \A i \in DOMAIN reader : reader[i].part # "tail"
  /\ h_state = "draining" => reader = <<>> /\ rx_pending = <<>>

\* A command waits for its own requests, the last ones made.
Awaits(cmd) ==
  /\ Len(awaited) = Width(cmd) /\ DOMAIN awaited = 1..Width(cmd)
  /\ Len(requests) >= Width(cmd)
  /\ \A k \in 1..Width(cmd) :
       /\ awaited[k] \in 1..Len(requests) /\ awaited[k] + Width(cmd) = Len(requests) + k
       /\ requests[awaited[k]].op = cmd /\ requests[awaited[k]].proc = process

AwaitsOwn == h_state = "wait" => \E cmd \in Commands : Awaits(cmd)

FlowInv == LinkInv /\ ReaderOk /\ AwaitsOwn

\* The three parts of the stream are sequences of chunks.
LEMMA FlowParts ==
  ASSUME LinkInv
  PROVE  \E S : /\ S = Reply(Len(requests))
                /\ reader \in Seq(S) /\ rx_pending \in Seq(S) /\ line \in Seq(S)
                /\ Len(reader) \in Nat /\ DOMAIN reader = 1..Len(reader)
BY LenProperties DEF LinkInv, Carried

\* Reading moves chunks from the line to what is to be fed.
LEMMA ReadStream == ASSUME LinkInv, Read PROVE Drops(stream, stream', 0)
<1>1. PICK S : reader \in Seq(S) /\ rx_pending \in Seq(S) /\ line \in Seq(S)
  BY FlowParts
<1>2. PICK k \in 1..Len(line) :
        /\ line' = SubSeq(line, k + 1, Len(line)) /\ rx_pending' = SubSeq(line, 1, k)
        /\ rx_pending = <<>> /\ reader' = reader
  BY DEF Read, Taking
<1> QED BY <1>1, <1>2, ReadDrops DEF stream

\* Feeding changes nothing, but for an END that stands alone.
LEMMA FeedStream ==
  ASSUME LinkInv, Feed
  PROVE  \/ Drops(stream, stream', 0)
         \/ stream[1].part = "tail" /\ Drops(stream, stream', 1)
<1>1. PICK S : reader \in Seq(S) /\ rx_pending \in Seq(S) /\ line \in Seq(S)
  BY FlowParts
<1>2. rx_pending # <<>> /\ rx_pending' = Tail(rx_pending) /\ line' = line
  BY DEF Feed
<1>3. CASE Head(rx_pending).part # "tail" /\ reader' = Append(reader, Head(rx_pending))
  BY <1>1, <1>2, <1>3, FeedDrops DEF stream
<1>4. CASE Head(rx_pending).part = "tail" /\ reader = <<>> /\ reader' = reader
  <2>1. PICK b, c, s, t, e, u : /\ b = rx_pending /\ c = line /\ e = reader /\ u = Tail(b)
                                /\ s = e \o (b \o c) /\ t = <<>> \o (u \o c)
    OBVIOUS
  <2>2. /\ b \in Seq(S) /\ c \in Seq(S) /\ e \in Seq(S) /\ u \in Seq(S) /\ b # <<>>
        /\ Drops(b, u, 1) /\ Drops(c, c, 0) /\ Len(e) = 0 /\ b[1] = Head(b)
        /\ Len(b) \in Nat /\ Len(b) # 0
    BY <1>1, <1>2, <1>4, <2>1, DropsSome, HeadTailProperties, EmptySeq, LenProperties
  <2>3. Drops(s, t, Len(e) + (1 + 0))
    <3>1. s = e \o (b \o c) /\ t = <<>> \o (u \o c)
      BY <2>1
    <3>2. 0 = 0 \/ Len(u) = 0
      OBVIOUS
    <3> QED BY <2>2, <3>1, <3>2, RestDrops, Zenon
  <2>4. Joined(s, e, b, c)
    BY <2>1, <2>2, JoinedFacts, Zenon
  <2>5. s[1] = b[1]
    <3>1. /\ Len(s) = 0 + (Len(b) + Len(c)) /\ Len(c) \in Nat
          /\ \A i \in 1..Len(s) : i > 0 /\ i <= 0 + Len(b) => s[i] = b[i - 0]
      BY <2>2, <2>4 DEF Joined
    <3> QED BY <2>2, <3>1
  <2>6. s = stream /\ t = stream'
    BY <1>2, <1>4, <2>1 DEF stream
  <2>7. Len(e) + (1 + 0) = 1
    BY <2>2
  <2> QED BY <1>4, <2>1, <2>2, <2>3, <2>5, <2>6, <2>7
<1> QED BY <1>3, <1>4 DEF Feed

\* What is judged is what came first, and goes.
LEMMA JudgeStream ==
  ASSUME LinkInv, Judge
  PROVE  /\ Drops(stream, stream', Len(reader) + 1)
         /\ Len(frame) = Len(reader) + 1 /\ Len(reader) \in Nat
         /\ DOMAIN frame = 1..Len(frame)
         /\ \A i \in 1..Len(frame) : frame[i] = stream[i]
         /\ \A i \in 1..Len(reader) : frame[i] = reader[i]
         /\ frame[Len(frame)].part = "tail"
<1>1. PICK S : reader \in Seq(S) /\ rx_pending \in Seq(S) /\ line \in Seq(S)
  BY FlowParts
<1>2. /\ rx_pending # <<>> /\ rx_pending' = Tail(rx_pending) /\ line' = line
      /\ reader' = <<>> /\ Head(rx_pending).part = "tail"
  BY DEF Judge, AfterFrame
<1>3. PICK a, b, c, s, t, f : /\ a = reader /\ b = rx_pending /\ c = line /\ f = frame
                              /\ s = a \o (b \o c) /\ t = <<>> \o (Tail(b) \o c)
  OBVIOUS
<1>4. /\ a \in Seq(S) /\ b \in Seq(S) /\ c \in Seq(S) /\ Tail(b) \in Seq(S) /\ b # <<>>
      /\ Drops(b, Tail(b), 1) /\ Drops(c, c, 0) /\ b[1] = Head(b) /\ Head(b) \in S
      /\ Len(a) \in Nat /\ Len(b) \in Nat /\ Len(b) # 0
  BY <1>1, <1>2, <1>3, DropsSome, HeadTailProperties, EmptySeq, LenProperties
<1>5. Drops(s, t, Len(a) + (1 + 0))
  BY <1>3, <1>4, RestDrops
<1>6. Joined(s, a, b, c)
  BY <1>3, <1>4, JoinedFacts, Zenon
<1>7. f = Append(a, Head(b))
  BY <1>3 DEF frame
<1>8. /\ f \in Seq(S) /\ Len(f) = Len(a) + 1 /\ f[Len(a) + 1] = b[1]
      /\ \A i \in 1..Len(a) : f[i] = a[i]
  BY <1>4, <1>7, AppendProperties
<1>9. \A i \in 1..Len(f) : f[i] = s[i]
  <2> SUFFICES ASSUME NEW i \in 1..Len(f) PROVE f[i] = s[i]
    OBVIOUS
  <2>1. /\ Len(s) = Len(a) + (Len(b) + Len(c)) /\ Len(c) \in Nat /\ i \in 1..Len(s)
        /\ i \in Nat /\ (i <= Len(a) \/ i = Len(a) + 1)
    BY <1>4, <1>6, <1>8 DEF Joined
  <2>2. CASE i <= Len(a)
    <3>1. i \in 1..Len(a)
      BY <1>4, <2>1, <2>2
    <3> QED BY <1>6, <1>8, <2>1, <2>2, <3>1 DEF Joined
  <2>3. CASE i = Len(a) + 1
    <3>1. i - Len(a) = 1 /\ i > Len(a) /\ i <= Len(a) + Len(b)
      BY <1>4, <2>3
    <3>2. s[i] = b[i - Len(a)]
      BY <1>6, <2>1, <3>1 DEF Joined
    <3> QED BY <1>8, <2>3, <3>1, <3>2
  <2> QED BY <2>1, <2>2, <2>3
<1>10. f[Len(f)].part = "tail"
  BY <1>2, <1>3, <1>4, <1>8
<1>11. s = stream /\ t = stream'
  BY <1>2, <1>3 DEF stream
<1>12. Len(a) + (1 + 0) = Len(a) + 1 /\ DOMAIN f = 1..Len(f)
  BY <1>4, <1>8, LenProperties
<1> QED BY <1>3, <1>4, <1>5, <1>8, <1>9, <1>10, <1>11, <1>12

\* A deadline loses what the reader holds.
LEMMA TimeoutStream ==
  ASSUME LinkInv, reader' = <<>>, rx_pending' = rx_pending, line' = line
  PROVE  Drops(stream, stream', Len(reader))
<1>1. PICK S : reader \in Seq(S) /\ rx_pending \in Seq(S) /\ line \in Seq(S)
  BY FlowParts
<1>3. PICK a, b, c, s, t : /\ a = reader /\ b = rx_pending /\ c = line
                           /\ s = a \o (b \o c) /\ t = <<>> \o (b \o c)
  OBVIOUS
<1>4. /\ a \in Seq(S) /\ b \in Seq(S) /\ c \in Seq(S)
      /\ Drops(b, b, 0) /\ Drops(c, c, 0) /\ Len(a) \in Nat
  BY <1>1, <1>3, DropsSome, LenProperties
<1>5. Drops(s, t, Len(a) + (0 + 0))
  BY <1>3, <1>4, RestDrops
<1>6. Len(a) + (0 + 0) = Len(a)
  BY <1>4
<1> QED BY <1>3, <1>5, <1>6 DEF stream

\* Opening the port loses what was read.
LEMMA OpenStream ==
  ASSUME LinkInv, reader' = <<>>, rx_pending' = <<>>, line' = line
  PROVE  \E k : Drops(stream, stream', k)
<1>1. PICK S : reader \in Seq(S) /\ rx_pending \in Seq(S) /\ line \in Seq(S)
  BY FlowParts
<1>3. PICK a, b, c, s, t : /\ a = reader /\ b = rx_pending /\ c = line
                           /\ s = a \o (b \o c) /\ t = <<>> \o (<<>> \o c)
  OBVIOUS
<1>2. PICK e \in Seq(S) : e = <<>> /\ Len(e) = 0
  BY EmptySeq
<1>4. /\ a \in Seq(S) /\ b \in Seq(S) /\ c \in Seq(S)
      /\ Drops(b, e, Len(b)) /\ Drops(c, c, 0) /\ Len(a) \in Nat
  BY <1>1, <1>2, <1>3, DropsSome, LenProperties
<1>5. Drops(s, t, Len(a) + (Len(b) + 0))
  BY <1>2, <1>3, <1>4, RestDrops
<1> QED BY <1>3, <1>5 DEF stream

\* Draining loses a front part of the line.
LEMMA DrainStream ==
  ASSUME LinkInv, ReaderOk, DrainRead
  PROVE  \E k : Drops(stream, stream', k)
<1>1. PICK S : reader \in Seq(S) /\ rx_pending \in Seq(S) /\ line \in Seq(S)
  BY FlowParts
<1>2. PICK k \in 1..Len(line) : line' = SubSeq(line, k + 1, Len(line))
  BY DEF DrainRead, Taking
<1>3. PICK e \in Seq(S) : e = <<>> /\ Len(e) = 0
  BY EmptySeq
<1>4. reader = e /\ rx_pending = e /\ reader' = e /\ rx_pending' = e
  BY <1>3 DEF DrainRead, ReaderOk, hostVars
<1>5. PICK c, v, s, t : /\ c = line /\ v = line'
                        /\ s = e \o (e \o c) /\ t = <<>> \o (e \o v)
  OBVIOUS
<1>6. c \in Seq(S) /\ v \in Seq(S) /\ Drops(c, v, k) /\ Drops(e, e, 0)
  <2>1. k \in 0..Len(c)
    BY <1>2, <1>5
  <2>2. v \in Seq(S)
    BY <1>1, <1>2, <1>5, <2>1, RestOf
  <2> QED BY <1>1, <1>2, <1>3, <1>5, <2>2, DropsSome
<1>7. Drops(s, t, Len(e) + (0 + k))
  BY <1>3, <1>5, <1>6, RestDrops
<1> QED BY <1>3, <1>4, <1>5, <1>7 DEF stream

\* r is s with its element i gone.
Removed(s, i, r) ==
  /\ Len(s) = Len(r) + 1 /\ DOMAIN r = 1..Len(r) /\ Len(r) \in Nat
  /\ \A j \in 1..Len(r) : r[j] = IF j < i THEN s[j] ELSE s[j + 1]

\* That is what RemoveAt leaves.
LEMMA RemovedFacts ==
  ASSUME NEW S, NEW s \in Seq(S), NEW i \in 1..Len(s)
  PROVE  Removed(s, i, RemoveAt(s, i))
<1>0. PICK r : r = RemoveAt(s, i)
  OBVIOUS
<1>1. Len(s) \in Nat /\ i \in Nat /\ i <= Len(s) /\ i >= 1 /\ \A j \in 1..Len(s) : s[j] \in S
  BY LenProperties, ElementOfSeq
<1>2. PICK n \in Nat, m \in Nat : n = i - 1 /\ m = i + 1
  <2>1. i - 1 \in Nat /\ i + 1 \in Nat
    BY <1>1
  <2> QED BY <2>1
<1>3. PICK a, b : a = SubSeq(s, 1, n) /\ b = SubSeq(s, m, Len(s))
  OBVIOUS
<1>4. /\ a \in Seq(S) /\ Len(a) = n /\ \A j \in 1..n : a[j] = s[j]
  <2>1. /\ SubSeq(s, 1, n) \in Seq(S)
        /\ Len(SubSeq(s, 1, n)) = (IF 1 <= n THEN n - 1 + 1 ELSE 0)
        /\ \A j \in 1..(n - 1 + 1) : SubSeq(s, 1, n)[j] = s[1 + j - 1]
    <3>1. 1 \in Int /\ n \in Int /\ \A j \in 1..n : s[j] \in S
      BY <1>1, <1>2
    <3> QED BY <3>1, SubSeqProperties
  <2>2. ASSUME NEW j \in 1..n PROVE j \in 1..(n - 1 + 1) /\ 1 + j - 1 = j
    BY <1>2
  <2>3. Len(a) = n
    BY <1>1, <1>2, <1>3, <2>1
  <2> QED BY <1>3, <2>1, <2>2, <2>3
<1>5. b \in Seq(S) /\ Len(b) = Len(s) - i /\ \A j \in 1..Len(b) : b[j] = s[j + i]
  <2>1. i \in 0..Len(s)
    BY <1>1
  <2> QED BY <1>2, <1>3, <2>1, RestOf
<1>6. r = a \o b
  BY <1>0, <1>2, <1>3 DEF RemoveAt
<1>7. /\ r \in Seq(S) /\ Len(r) = Len(a) + Len(b)
      /\ \A j \in 1..(Len(a) + Len(b)) : r[j] = IF j <= Len(a) THEN a[j] ELSE b[j - Len(a)]
  BY <1>4, <1>5, <1>6, ConcatProperties
<1>8. Len(s) = Len(r) + 1
  BY <1>1, <1>2, <1>4, <1>5, <1>7
<1>9. ASSUME NEW j \in 1..Len(r) PROVE r[j] = IF j < i THEN s[j] ELSE s[j + 1]
  <2>0. j \in Nat /\ j \in 1..(Len(a) + Len(b)) /\ (j <= Len(a) <=> j < i) /\ j >= 1
    BY <1>1, <1>2, <1>4, <1>7, <1>8
  <2>1. CASE j < i
    <3>1. j \in 1..n /\ j <= Len(a)
      BY <1>1, <1>2, <1>4, <2>0, <2>1
    <3>2. r[j] = a[j]
      BY <1>7, <2>0, <3>1
    <3> QED BY <1>4, <2>1, <3>1, <3>2
  <2>2. CASE ~(j < i)
    <3>1. PICK x : x = j - Len(a)
      OBVIOUS
    <3>2. x \in 1..Len(b) /\ x + i = j + 1
      BY <1>1, <1>2, <1>4, <1>5, <1>7, <1>8, <2>0, <2>2, <3>1
    <3>3. r[j] = b[x]
      BY <1>7, <2>0, <2>2, <3>1
    <3> QED BY <1>5, <2>2, <3>2, <3>3
  <2> QED BY <2>1, <2>2
<1> QED BY <1>0, <1>7, <1>8, <1>9, LenProperties DEF Removed

\* What a device that answers puts on the line.
LEMMA AnswerStream ==
  ASSUME LinkInv, NEW i \in 1..Len(device), NEW ok \in BOOLEAN,
         NEW bad \in {"no", "lost", "torn", "short", "cut"}, Answer(i, ok, bad)
  PROVE  LET q == device[i].req
         IN  \/ bad = "lost" /\ stream' = stream
             \/ /\ bad = "cut" /\ Grows(stream, stream', <<Chunk(q, "head", ok, "no")>>)
             \/ /\ bad \in {"no", "torn", "short"}
                /\ Grows(stream, stream', <<Chunk(q, "head", ok, bad), Chunk(q, "tail", ok, bad)>>)
<1>1. PICK n \in Nat : n = Len(requests)
  BY LenProperties DEF LinkInv, Numbered
<1>2. /\ reader \in Seq(Reply(n)) /\ rx_pending \in Seq(Reply(n)) /\ line \in Seq(Reply(n))
      /\ device[i] \in [req : 1..n, whole : BOOLEAN]
  BY <1>1, Parts DEF LinkInv, Carried
<1>3. reader' = reader /\ rx_pending' = rx_pending
  BY DEF Answer
<1>4. PICK q \in 1..n : q = device[i].req
  BY <1>2
<1>5. CASE bad = "lost"
  <2>1. line' = line \o <<>>
    BY <1>5 DEF Answer
  <2> QED BY <1>2, <1>3, <1>5, <2>1, ConcatEmptySeq DEF stream
<1>6. CASE bad = "cut"
  <2>1. PICK d : d = <<Chunk(q, "head", ok, "no")>>
    OBVIOUS
  <2>2. line' = line \o d
    BY <1>4, <1>6, <2>1 DEF Answer
  <2>3. d \in Seq(Reply(n))
    BY <2>1 DEF Chunk, Reply
  <2>4. Grows(stream, stream', d)
    BY <1>2, <1>3, <2>2, <2>3, AnswerGrows DEF stream
  <2> QED BY <1>4, <1>6, <2>1, <2>4
<1>7. CASE bad \in {"no", "torn", "short"}
  <2>1. PICK d : d = <<Chunk(q, "head", ok, bad), Chunk(q, "tail", ok, bad)>>
    OBVIOUS
  <2>2. line' = line \o d
    BY <1>4, <1>7, <2>1 DEF Answer
  <2>3. d \in Seq(Reply(n))
    <3>1. Chunk(q, "head", ok, bad) \in Reply(n) /\ Chunk(q, "tail", ok, bad) \in Reply(n)
      BY <1>7 DEF Chunk, Reply
    <3> QED BY <2>1, <3>1
  <2>4. Grows(stream, stream', d)
    BY <1>2, <1>3, <2>2, <2>3, AnswerGrows DEF stream
  <2> QED BY <1>4, <1>7, <2>1, <2>4
<1> QED BY <1>5, <1>6, <1>7

\* A step that is not an answer of the device takes some of the front, or
\* nothing.
LEMMA OthersDrop ==
  ASSUME LinkInv, ReaderOk, Next, ~Device
  PROVE  \E k : Drops(stream, stream', k)
<1>0. \E k : Drops(stream, stream, k)
  <2>1. PICK S : reader \in Seq(S) /\ rx_pending \in Seq(S) /\ line \in Seq(S)
    BY FlowParts
  <2>2. PICK r : r = rx_pending \o line
    OBVIOUS
  <2>3. r \in Seq(S)
    BY <2>1, <2>2, ConcatProperties
  <2>4. stream \in Seq(S)
    BY <2>1, <2>2, <2>3, ConcatProperties DEF stream
  <2>5. Drops(stream, stream, 0)
    BY <2>4, DropsSome
  <2> QED BY <2>5
<1>1. CASE Open
  BY <1>1, OpenStream DEF Open
<1>2. CASE DrainRead
  BY <1>2, DrainStream
<1>3. CASE DrainEnds \/ Close \/ DieWaiting \/ TooLarge
  BY <1>0, <1>3 DEF DrainEnds, Close, DieWaiting, TooLarge, stream
<1>4. CASE \E cmd \in Commands : DieWriting(cmd)
  BY <1>0, <1>4 DEF DieWriting, stream
<1>5. CASE \E cmd \in Commands : Issue(cmd)
  BY <1>5, TimeoutStream DEF Issue
<1>6. CASE Timeout
  BY <1>6, TimeoutStream DEF Timeout
<1>7. CASE Read
  BY <1>7, ReadStream
<1>8. CASE Feed
  BY <1>8, FeedStream
<1>9. CASE Judge
  BY <1>9, JudgeStream
<1> QED BY <1>1, <1>2, <1>3, <1>4, <1>5, <1>6, <1>7, <1>8, <1>9 DEF Next

\* The reader keeps no END.
LEMMA ReaderStep ==
  ASSUME LinkInv, ReaderOk, Next
  PROVE  ReaderOk'
<1>1. /\ reader \in Seq(Reply(Len(requests))) /\ rx_pending \in Seq(Reply(Len(requests)))
      /\ DOMAIN reader = 1..Len(reader)
  BY LenProperties DEF LinkInv, Carried
<1>2. CASE reader' = <<>> /\ (h_state' = "draining" => rx_pending' = <<>>)
  <2>1. DOMAIN reader' = {}
    BY <1>2
  <2> QED BY <1>2, <2>1 DEF ReaderOk
<1>3. CASE reader' = reader /\ h_state' # "draining"
  BY <1>3 DEF ReaderOk
<1>4. CASE DrainRead \/ Device
  BY <1>4 DEF DrainRead, Device, Answer, hostVars, ReaderOk
<1>5. CASE Feed
  <2>1. h_state' # "draining"
    BY <1>5 DEF Feed
  <2>2. CASE Head(rx_pending).part # "tail" /\ reader' = Append(reader, Head(rx_pending))
    <3>1. Head(rx_pending) \in Reply(Len(requests))
      BY <1>1, <1>5, HeadTailProperties DEF Feed
    <3>2. PICK h, r, a : h = Head(rx_pending) /\ r = reader' /\ a = reader
      OBVIOUS
    <3>3. /\ r \in Seq(Reply(Len(requests))) /\ Len(r) = Len(a) + 1 /\ r[Len(a) + 1] = h
          /\ \A i \in 1..Len(a) : r[i] = a[i]
      BY <1>1, <2>2, <3>1, <3>2, AppendProperties
    <3>4. DOMAIN r = 1..(Len(a) + 1) /\ Len(a) \in Nat
      BY <1>1, <3>2, <3>3, LenProperties
    <3>5. ASSUME NEW i \in DOMAIN r PROVE r[i].part # "tail"
      <4>1. i \in 1..Len(a) \/ i = Len(a) + 1
        BY <3>4
      <4> QED BY <1>1, <2>2, <3>2, <3>3, <4>1 DEF ReaderOk
    <3> QED BY <2>1, <3>2, <3>5 DEF ReaderOk
  <2>3. CASE reader' = reader
    BY <2>1, <2>3 DEF ReaderOk
  <2> QED BY <1>5, <2>2, <2>3 DEF Feed
<1>6. CASE Open \/ Timeout \/ (\E cmd \in Commands : Issue(cmd))
  BY <1>2, <1>6 DEF Open, Timeout, Ended, Issue
<1>7. CASE DrainEnds \/ Close \/ DieWaiting \/ TooLarge \/ (\E cmd \in Commands : DieWriting(cmd)) \/ Read
  BY <1>3, <1>7 DEF DrainEnds, Close, DieWaiting, TooLarge, DieWriting, Read, MayMake
<1>8. CASE Judge
  <2>1. h_state' # "draining" /\ reader' = <<>>
    BY <1>8 DEF Judge, Ended
  <2> QED BY <1>2, <2>1
<1> QED BY <1>4, <1>5, <1>6, <1>7, <1>8 DEF Next

\* What a command waits for: its own requests, alike but for their ids, which
\* differ; one request, the last made, unless it is a bench.
LEMMA AwaitedAreOwn ==
  ASSUME LinkInv, AwaitsOwn, h_state = "wait"
  PROVE  /\ awaited[1] \in Range(awaited)
         /\ \A n \in Range(awaited) :
              n \in 1..Len(requests) /\ requests[n].proc = process
         /\ \A m, n \in Range(awaited) :
              /\ op_of(m) = op_of(n)
              /\ id_of(m) = id_of(n) => m = n
              /\ "bench_pair" \notin Commands \/ op_of(n) # "bench" => m = n
         /\ \A n \in Range(awaited) : op_of(n) # "bench" => n = Len(requests)
<1>1. PICK cmd \in Commands :
        /\ DOMAIN awaited = 1..Width(cmd) /\ Len(requests) >= Width(cmd)
        /\ \A k \in 1..Width(cmd) :
             /\ awaited[k] \in 1..Len(requests) /\ awaited[k] + Width(cmd) = Len(requests) + k
             /\ requests[awaited[k]].op = cmd /\ requests[awaited[k]].proc = process
  BY DEF AwaitsOwn, Awaits
<1>2. Width(cmd) \in 1..2 /\ Len(requests) \in Nat /\ Numbered
  BY LenProperties DEF Width, LinkInv, Numbered
<1>3. cmd # "bench_pair" => Width(cmd) = 1
  BY DEF Width
<1>4. cmd = "bench_pair" => Opcode(cmd) = "bench"
  BY DEF Opcode
<1>5. ASSUME NEW n \in Range(awaited)
      PROVE  /\ \E k \in 1..Width(cmd) : n = awaited[k] /\ n + Width(cmd) = Len(requests) + k
             /\ n \in 1..Len(requests) /\ requests[n].op = cmd /\ requests[n].proc = process
  BY <1>1, <1>5 DEF Range
<1>6. ASSUME NEW m \in Range(awaited), NEW n \in Range(awaited), Width(cmd) = 1
      PROVE  m = n /\ n = Len(requests)
  <2>1. m + 1 = Len(requests) + 1 /\ n + 1 = Len(requests) + 1
    <3>1. \A k \in 1..Width(cmd) : k = 1
      BY <1>6
    <3> QED BY <1>5, <1>6, <3>1
  <2> QED BY <1>2, <1>5, <2>1
<1>7. ASSUME NEW m \in Range(awaited), NEW n \in Range(awaited), id_of(m) = id_of(n)
      PROVE  m = n
  <2>1. /\ m \in 1..Len(requests) /\ n \in 1..Len(requests)
        /\ requests[m].proc = requests[n].proc /\ requests[m].id = requests[n].id
    BY <1>5, <1>7 DEF id_of
  <2>2. m < n + 2 /\ n < m + 2
    <3>1. PICK k \in 1..Width(cmd), l \in 1..Width(cmd) :
            n + Width(cmd) = Len(requests) + k /\ m + Width(cmd) = Len(requests) + l
      BY <1>5
    <3> QED BY <1>2, <2>1, <3>1
  <2>3. ~(m < n)
    <3> SUFFICES ASSUME m < n PROVE FALSE
      OBVIOUS
    <3>1. m + Ids <= n
      BY <1>2, <2>1, IdsComeRound
    <3> QED BY <1>2, <2>1, <2>2, <3>1, IdsAssumption
  <2>4. ~(n < m)
    <3> SUFFICES ASSUME n < m PROVE FALSE
      OBVIOUS
    <3>1. n + Ids <= m
      BY <1>2, <2>1, IdsComeRound
    <3> QED BY <1>2, <2>1, <2>2, <3>1, IdsAssumption
  <2> QED BY <1>2, <2>1, <2>3, <2>4
<1>8. awaited[1] \in Range(awaited)
  <2>1. 1 \in DOMAIN awaited
    BY <1>1, <1>2
  <2> QED BY <2>1 DEF Range
<1>9. \A n \in Range(awaited) : op_of(n) = Opcode(cmd)
  BY <1>5 DEF op_of
<1>10. ASSUME NEW m \in Range(awaited), NEW n \in Range(awaited),
              "bench_pair" \notin Commands \/ op_of(n) # "bench"
       PROVE  m = n /\ n = Len(requests)
  <2>1. cmd # "bench_pair"
    BY <1>4, <1>9, <1>10
  <2> QED BY <1>3, <1>6, <2>1
<1> QED BY <1>5, <1>7, <1>8, <1>9, <1>10

\* A command that is sent waits for what it made.
LEMMA IssueAwaits ==
  ASSUME LinkInv, NEW cmd \in Commands, Issue(cmd)
  PROVE  Awaits(cmd)'
<1>1. requests' = requests \o Made(cmd) /\ process' = process
  BY DEF Issue
<1>2. PICK n \in Nat, w \in Nat : n = Len(requests) /\ w = Width(cmd)
  BY LenProperties DEF LinkInv, Numbered, Width
<1>3. awaited' = [k \in 1..w |-> n + 1 + k - 1]
  BY <1>2 DEF Issue
<1>4. PICK a, rs : a = awaited' /\ rs = requests'
  OBVIOUS
<1>5. /\ w \in 1..2 /\ rs \in Seq(Request) /\ Len(rs) = n + w
      /\ \A k \in 1..w : rs[n + k].proc = process /\ rs[n + k].op = cmd
  <2>1. cmd \in AllCommands /\ Numbered
    BY FaultsAssumption DEF LinkInv
  <2> QED BY <1>1, <1>2, <1>4, <2>1, MadeFacts
<1>6. a \in Seq(Nat) /\ Len(a) = w /\ DOMAIN a = 1..w
  <2>1. \A k \in 1..w : n + 1 + k - 1 \in Nat
    BY <1>5
  <2> QED BY <1>3, <1>4, <2>1
<1>7. ASSUME NEW k \in 1..w
      PROVE  /\ a[k] \in 1..Len(rs) /\ a[k] + w = Len(rs) + k
             /\ rs[a[k]].op = cmd /\ rs[a[k]].proc = process
  <2>1. a[k] = n + k
    BY <1>3, <1>4, <1>5
  <2> QED BY <1>5, <2>1
<1>8. Len(rs) >= w
  BY <1>5
<1> QED BY <1>1, <1>2, <1>4, <1>6, <1>7, <1>8 DEF Awaits

\* It goes on waiting for that.
LEMMA AwaitsStep ==
  ASSUME LinkInv, AwaitsOwn, Next
  PROVE  AwaitsOwn'
<1>1. CASE h_state' # "wait"
  BY <1>1 DEF AwaitsOwn
<1>2. CASE h_state = "wait" /\ UNCHANGED <<awaited, requests, process>>
  BY <1>2 DEF AwaitsOwn, Awaits
<1>3. ASSUME NEW cmd \in Commands, Issue(cmd) PROVE AwaitsOwn'
  BY <1>3, IssueAwaits DEF AwaitsOwn
<1>4. CASE Open \/ DrainRead \/ DrainEnds \/ Close \/ TooLarge \/ DieWaiting
           \/ (\E cmd \in Commands : DieWriting(cmd)) \/ Timeout
  BY <1>1, <1>2, <1>4 DEF Open, DrainRead, DrainEnds, Close, TooLarge, MayMake, DieWaiting,
                          DieWriting, Timeout, Ended, hostVars
<1>5. CASE Device \/ Read \/ Feed \/ Judge
  <2>1. UNCHANGED <<awaited, requests, process>>
    BY <1>5 DEF Device, Answer, Read, Feed, Judge
  <2>2. h_state = "wait" \/ h_state' = h_state
    BY <1>5 DEF Device, Answer, Read, Feed, Judge
  <2> QED BY <1>1, <1>2, <2>1, <2>2
<1> QED BY <1>3, <1>4, <1>5 DEF Next

-----------------------------------------------------------------------------
(* A command that found nothing left over.                                  *)

\* Undamaged replies, each a head and its tail.
Orderly(s) ==
  /\ 1 \in DOMAIN s => s[1].part = "head"
  /\ \A i \in DOMAIN s :
       /\ s[i].bad = "no" /\ s[i].part \in {"head", "tail"}
       /\ s[i].part = "head" => i + 1 \in DOMAIN s /\ s[i + 1].part = "tail"
       /\ s[i].part = "tail" /\ i + 1 \in DOMAIN s => s[i + 1].part = "head"

\* Whatever is still coming or at the device is for one of `out`, each once.
OwnOnly(s, d, out) ==
  /\ \A i \in DOMAIN s :
       s[i].part = "head" => s[i].of \in out /\ \A j \in DOMAIN d : d[j].req # s[i].of
  /\ \A i, j \in DOMAIN s :
       s[i].part = "head" /\ s[j].part = "head" /\ s[i].of = s[j].of => i = j
  /\ \A i \in DOMAIN d : d[i].whole /\ d[i].req \in out
  /\ \A i, j \in DOMAIN d : d[i].req = d[j].req => i = j

Outstanding == Range(awaited) \ DOMAIN matched

InSync ==
  h_state = "wait" /\ sync =>
    half = 0 /\ Orderly(stream) /\ OwnOnly(stream, device, Outstanding)

\* A stream that lost nothing.
LEMMA SameStream ==
  ASSUME NEW s, NEW t, Drops(s, t, 0)
  PROVE  DOMAIN t = DOMAIN s /\ \A i \in DOMAIN t : t[i] = s[i]
BY DEF Drops

\* Both hold on where chunks only move.
LEMMA OrderlyAlike ==
  ASSUME NEW s, NEW t, NEW d, NEW out, Drops(s, t, 0), Orderly(s), OwnOnly(s, d, out)
  PROVE  Orderly(t) /\ OwnOnly(t, d, out)
<1>1. DOMAIN t = DOMAIN s /\ \A i \in DOMAIN t : t[i] = s[i]
  BY SameStream
<1>2. Orderly(t)
  BY <1>1 DEF Orderly
<1>3. OwnOnly(t, d, out)
  BY <1>1 DEF OwnOnly
<1> QED BY <1>2, <1>3

\* A reply that is taken is for one of `out`, and then no other is.
LEMMA OrderlyTaken ==
  ASSUME NEW s, NEW t, NEW d, NEW out, Drops(s, t, 2), Orderly(s), OwnOnly(s, d, out),
         s[1].part = "head"
  PROVE  /\ Orderly(t) /\ OwnOnly(t, d, out \ {s[1].of})
         /\ out = {s[1].of} => Len(t) = 0
         /\ s[1].of \in out
<1>1. /\ Len(t) \in Nat /\ Len(s) = Len(t) + 2 /\ DOMAIN s = 1..Len(s) /\ DOMAIN t = 1..Len(t)
      /\ \A i \in DOMAIN t : t[i] = s[i + 2]
  BY DEF Drops
<1>2. 1 \in DOMAIN s /\ 2 \in DOMAIN s /\ s[2].part = "tail"
  <2>1. 1 \in DOMAIN s /\ 1 + 1 = 2
    BY <1>1
  <2> QED BY <2>1 DEF Orderly
<1>3. \A i \in DOMAIN t : i \in Nat /\ i + 2 \in DOMAIN s /\ i + 2 # 1 /\ (i + 1) + 2 = (i + 2) + 1
  BY <1>1
<1>4. \A i \in DOMAIN t : (i + 2) + 1 \in DOMAIN s <=> i + 1 \in DOMAIN t
  BY <1>1
<1>5. Orderly(t)
  <2>1. ASSUME 1 \in DOMAIN t PROVE t[1].part = "head"
    <3>1. t[1] = s[3] /\ 3 \in DOMAIN s /\ 2 + 1 = 3
      BY <1>1, <2>1
    <3> QED BY <1>2, <3>1 DEF Orderly
  <2>2. ASSUME NEW i \in DOMAIN t
        PROVE  /\ t[i].bad = "no" /\ t[i].part \in {"head", "tail"}
               /\ t[i].part = "head" => i + 1 \in DOMAIN t /\ t[i + 1].part = "tail"
               /\ t[i].part = "tail" /\ i + 1 \in DOMAIN t => t[i + 1].part = "head"
    <3>1. PICK k : k = i + 2
      OBVIOUS
    <3>2. k \in DOMAIN s /\ t[i] = s[k] /\ (k + 1 \in DOMAIN s <=> i + 1 \in DOMAIN t)
      BY <1>1, <1>3, <1>4, <3>1
    <3>3. i + 1 \in DOMAIN t => t[i + 1] = s[k + 1]
      BY <1>1, <1>3, <3>1
    <3> QED BY <3>2, <3>3 DEF Orderly
  <2> QED BY <2>1, <2>2 DEF Orderly
<1>6. ASSUME NEW i \in DOMAIN t, t[i].part = "head" PROVE t[i].of # s[1].of /\ t[i].of \in out
  <2>1. PICK k : k = i + 2
    OBVIOUS
  <2>2. k \in DOMAIN s /\ t[i] = s[k] /\ k # 1
    BY <1>1, <1>3, <2>1
  <2> QED BY <1>2, <1>6, <2>2 DEF OwnOnly
<1>7. OwnOnly(t, d, out \ {s[1].of})
  <2>1. ASSUME NEW i \in DOMAIN t, t[i].part = "head", NEW j \in DOMAIN d
        PROVE  d[j].req # t[i].of
    <3>1. PICK k : k = i + 2
      OBVIOUS
    <3>2. k \in DOMAIN s /\ t[i] = s[k]
      BY <1>1, <1>3, <3>1
    <3> QED BY <2>1, <3>2 DEF OwnOnly
  <2>2. ASSUME NEW i \in DOMAIN t, NEW j \in DOMAIN t,
               t[i].part = "head", t[j].part = "head", t[i].of = t[j].of
        PROVE  i = j
    <3>1. PICK k, l : k = i + 2 /\ l = j + 2
      OBVIOUS
    <3>2. k \in DOMAIN s /\ t[i] = s[k] /\ l \in DOMAIN s /\ t[j] = s[l]
      BY <1>1, <1>3, <3>1
    <3>3. k = l
      BY <2>2, <3>2 DEF OwnOnly
    <3> QED BY <1>3, <3>1, <3>3
  <2>3. \A i \in DOMAIN d : d[i].whole /\ d[i].req \in out \ {s[1].of}
    BY <1>2 DEF OwnOnly
  <2>4. \A i, j \in DOMAIN d : d[i].req = d[j].req => i = j
    BY DEF OwnOnly
  <2> QED BY <1>6, <2>1, <2>2, <2>3, <2>4 DEF OwnOnly
<1>8. ASSUME out = {s[1].of} PROVE Len(t) = 0
  <2> SUFFICES ASSUME 1 \in DOMAIN t PROVE FALSE
    BY <1>1
  <2>1. t[1].part = "head"
    BY <1>5 DEF Orderly
  <2> QED BY <1>6, <1>8, <2>1
<1>9. s[1].of \in out
  BY <1>2 DEF OwnOnly
<1> QED BY <1>5, <1>7, <1>8, <1>9

\* An answer adds a head and its tail, for a request the device no longer has.
LEMMA OrderlyAnswered ==
  ASSUME NEW S, NEW s, NEW t, NEW d \in Seq(S), NEW out, NEW i \in 1..Len(d), NEW ok,
         Orderly(s), OwnOnly(s, d, out),
         Grows(s, t, <<Chunk(d[i].req, "head", ok, "no"), Chunk(d[i].req, "tail", ok, "no")>>)
  PROVE  Orderly(t) /\ OwnOnly(t, RemoveAt(d, i), out)
<1>1. PICK q, r : q = d[i].req /\ r = RemoveAt(d, i)
  OBVIOUS
<1>2. PICK n \in Nat : n = Len(s)
  BY DEF Grows
<1>3. /\ DOMAIN s = 1..n /\ DOMAIN t = 1..(n + 2)
      /\ \A k \in DOMAIN s : t[k] = s[k]
      /\ t[n + 1].of = q /\ t[n + 1].part = "head" /\ t[n + 1].bad = "no"
      /\ t[n + 2].of = q /\ t[n + 2].part = "tail" /\ t[n + 2].bad = "no"
  <2>1. PICK e : e = <<Chunk(q, "head", ok, "no"), Chunk(q, "tail", ok, "no")>>
    OBVIOUS
  <2>2. Len(e) = 2 /\ e[1] = Chunk(q, "head", ok, "no") /\ e[2] = Chunk(q, "tail", ok, "no")
    BY <2>1
  <2>3. Grows(s, t, e)
    BY <1>1, <2>1
  <2>4. /\ DOMAIN s = 1..n /\ DOMAIN t = 1..(n + 2) /\ \A k \in DOMAIN s : t[k] = s[k]
        /\ t[n + 1] = e[1] /\ t[n + 2] = e[2]
    BY <1>2, <2>2, <2>3 DEF Grows
  <2> QED BY <2>2, <2>4 DEF Chunk
<1>4. \A k \in DOMAIN t : k \in DOMAIN s \/ k = n + 1 \/ k = n + 2
  BY <1>2, <1>3
<1>5. /\ n + 1 \in DOMAIN t /\ n + 2 \in DOMAIN t /\ (n + 1) + 1 = n + 2
      /\ (n + 2) + 1 \notin DOMAIN t /\ n + 1 \notin DOMAIN s /\ n + 2 \notin DOMAIN s
      /\ n + 1 # n + 2 /\ DOMAIN s \subseteq DOMAIN t
      /\ \A k \in DOMAIN s : k + 1 \in DOMAIN s \/ k + 1 = n + 1
  BY <1>2, <1>3
<1>6. Orderly(t)
  <2>1. t[1].part = "head"
    <3>1. 1 \in DOMAIN s \/ n + 1 = 1
      BY <1>2, <1>3
    <3> QED BY <1>3, <3>1 DEF Orderly
  <2>2. ASSUME NEW k \in DOMAIN t
        PROVE  /\ t[k].bad = "no" /\ t[k].part \in {"head", "tail"}
               /\ t[k].part = "head" => k + 1 \in DOMAIN t /\ t[k + 1].part = "tail"
               /\ t[k].part = "tail" /\ k + 1 \in DOMAIN t => t[k + 1].part = "head"
    <3>1. CASE k \in DOMAIN s
      BY <1>3, <1>5, <3>1 DEF Orderly
    <3>2. CASE k = n + 1
      BY <1>3, <1>5, <3>2
    <3>3. CASE k = n + 2
      BY <1>3, <1>5, <3>3
    <3> QED BY <1>4, <3>1, <3>2, <3>3
  <2> QED BY <2>1, <2>2 DEF Orderly
<1>7. /\ DOMAIN d = 1..Len(d) /\ Len(d) \in Nat /\ Len(d) = Len(r) + 1 /\ DOMAIN r = 1..Len(r)
      /\ \A j \in 1..Len(r) : r[j] = IF j < i THEN d[j] ELSE d[j + 1]
  <2>1. Removed(d, i, r)
    BY <1>1, RemovedFacts, Zenon
  <2> QED BY <2>1, LenProperties DEF Removed
<1>8. ASSUME NEW j \in DOMAIN r
      PROVE  \E l \in DOMAIN d : r[j] = d[l] /\ l # i /\ l = (IF j < i THEN j ELSE j + 1)
  <2>1. j \in Nat /\ i \in Nat /\ j \in 1..Len(d) /\ j + 1 \in 1..Len(d)
    BY <1>7
  <2>2. CASE j < i
    BY <1>7, <2>1, <2>2
  <2>3. CASE ~(j < i)
    BY <1>7, <2>1, <2>3
  <2> QED BY <2>2, <2>3
<1>9. i \in DOMAIN d /\ q \in out
  BY <1>1, <1>7 DEF OwnOnly
<1>10. OwnOnly(t, r, out)
  <2>1. ASSUME NEW k \in DOMAIN t, t[k].part = "head"
        PROVE  t[k].of \in out /\ \A j \in DOMAIN r : r[j].req # t[k].of
    <3>1. CASE k \in DOMAIN s
      BY <1>3, <1>8, <2>1, <3>1 DEF OwnOnly
    <3>2. CASE k = n + 1
      <4>1. \A l \in DOMAIN d : l # i => d[l].req # q
        BY <1>1, <1>9 DEF OwnOnly
      <4> QED BY <1>3, <1>8, <1>9, <3>2, <4>1
    <3> QED BY <1>3, <1>4, <2>1, <3>1, <3>2
  <2>2. ASSUME NEW k \in DOMAIN t, NEW l \in DOMAIN t,
               t[k].part = "head", t[l].part = "head", t[k].of = t[l].of
        PROVE  k = l
    <3>1. k # n + 2 /\ l # n + 2
      BY <1>3, <2>2
    <3>2. \A x \in DOMAIN s : s[x].part = "head" => s[x].of # q
      BY <1>1, <1>9 DEF OwnOnly
    <3>3. CASE k \in DOMAIN s /\ l \in DOMAIN s
      BY <1>3, <2>2, <3>3 DEF OwnOnly
    <3>4. CASE k = n + 1 /\ l \in DOMAIN s
      BY <1>3, <2>2, <3>2, <3>4
    <3>5. CASE k \in DOMAIN s /\ l = n + 1
      BY <1>3, <2>2, <3>2, <3>5
    <3> QED BY <1>4, <3>1, <3>3, <3>4, <3>5
  <2>3. \A j \in DOMAIN r : r[j].whole /\ r[j].req \in out
    BY <1>8 DEF OwnOnly
  <2>4. ASSUME NEW j \in DOMAIN r, NEW k \in DOMAIN r, r[j].req = r[k].req PROVE j = k
    <3>1. PICK l \in DOMAIN d, m \in DOMAIN d :
            /\ r[j] = d[l] /\ l = (IF j < i THEN j ELSE j + 1)
            /\ r[k] = d[m] /\ m = (IF k < i THEN k ELSE k + 1)
      BY <1>8
    <3>2. l = m
      BY <2>4, <3>1 DEF OwnOnly
    <3>3. j \in Nat /\ k \in Nat /\ i \in Nat
      BY <1>7
    <3> QED BY <3>1, <3>2, <3>3
  <2> QED BY <2>1, <2>2, <2>3, <2>4 DEF OwnOnly
<1> QED BY <1>1, <1>6, <1>10

\* Requests reach the device behind what it has, whole unless they follow the
\* half of another.
LEMMA IssuedDevice ==
  ASSUME LinkInv, NEW cmd \in Commands, Issue(cmd), half = 0
  PROVE  /\ Len(device) \in Nat /\ DOMAIN device = 1..Len(device)
         /\ DOMAIN device' = 1..(Len(device) + Width(cmd))
         /\ \A i \in 1..Len(device) : device'[i] = device[i]
         /\ \A k \in 1..Width(cmd) :
              device'[Len(device) + k] = [req |-> Len(requests) + k, whole |-> TRUE]
<1>1. PICK n \in Nat, w \in Nat : n = Len(requests) /\ w = Width(cmd)
  BY LenProperties DEF LinkInv, Numbered, Width
<1>2. PICK p, q, d, r : /\ p = [req |-> n + 1, whole |-> TRUE]
                        /\ q = [req |-> (n + 1) + 1, whole |-> TRUE]
                        /\ d = device /\ r = device'
  OBVIOUS
<1>3. r = (d \o <<p>>) \o (IF w = 2 THEN <<q>> ELSE <<>>)
  BY <1>1, <1>2 DEF Issue, Decoded
<1>4. PICK S : d \in Seq(S) /\ p \in S /\ q \in S
  <2>1. PICK R : d \in Seq(R)
    BY <1>2 DEF LinkInv, Carried
  <2>2. d \in Seq(R \cup {p, q})
    BY <2>1
  <2> QED BY <2>2
<1>5. PICK e : e = d \o <<p>>
  OBVIOUS
<1>6. /\ e \in Seq(S) /\ Len(e) = Len(d) + 1 /\ e[Len(d) + 1] = p
      /\ \A i \in 1..Len(d) : e[i] = d[i]
  BY <1>4, <1>5, AppendIsConcat, AppendProperties
<1>7. Len(d) \in Nat /\ DOMAIN d = 1..Len(d)
  BY <1>4, LenProperties
<1>8. CASE w = 1
  <2>1. r = e
    BY <1>3, <1>5, <1>6, <1>8, ConcatEmptySeq
  <2>2. DOMAIN r = 1..(Len(d) + w)
    BY <1>6, <1>8, <2>1, LenProperties
  <2>3. \A k \in 1..w : k = 1
    BY <1>8
  <2> QED BY <1>1, <1>2, <1>6, <1>7, <2>1, <2>2, <2>3
<1>9. CASE w = 2
  <2>1. r = e \o <<q>>
    BY <1>3, <1>5, <1>9
  <2>2. /\ r \in Seq(S) /\ Len(r) = Len(e) + 1 /\ r[Len(e) + 1] = q
        /\ \A i \in 1..Len(e) : r[i] = e[i]
    BY <1>4, <1>6, <2>1, AppendIsConcat, AppendProperties
  <2>3. DOMAIN r = 1..(Len(d) + w) /\ (Len(d) + 1) + 1 = Len(d) + 2 /\ (n + 1) + 1 = n + 2
    BY <1>6, <1>7, <1>9, <2>2, LenProperties
  <2>4. \A i \in 1..Len(d) : r[i] = d[i]
    BY <1>6, <1>7, <2>2
  <2>5. r[Len(d) + 1] = p /\ r[Len(d) + 2] = q
    BY <1>6, <1>7, <2>2, <2>3
  <2>6. \A k \in 1..w : k = 1 \/ k = 2
    BY <1>9
  <2> QED BY <1>1, <1>2, <1>7, <2>3, <2>4, <2>5, <2>6
<1>10. w \in 1..2
  BY <1>1 DEF Width
<1> QED BY <1>8, <1>9, <1>10

\* With nothing left over, a command starts with its own requests alone.
LEMMA SyncStarts ==
  ASSUME FlowInv, NEW cmd \in Commands, Issue(cmd), Quiet
  PROVE  half' = 0 /\ Orderly(stream') /\ OwnOnly(stream', device', Outstanding')
<1>1. /\ device = <<>> /\ half = 0 /\ line \o rx_pending = <<>>
      /\ reader' = <<>> /\ rx_pending' = rx_pending /\ line' = line /\ matched' = <<>>
      /\ half' = 0
  BY DEF Issue, Quiet
<1>2. PICK n \in Nat, w \in Nat : n = Len(requests) /\ w = Width(cmd)
  BY LenProperties DEF FlowInv, LinkInv, Numbered, Width
<1>3. w \in 1..2
  BY <1>2 DEF Width
<1>4. DOMAIN stream' = {}
  <2>1. PICK S : rx_pending \in Seq(S) /\ line \in Seq(S)
    BY FlowParts DEF FlowInv
  <2>2. rx_pending = <<>> /\ line = <<>>
    BY <1>1, <2>1, ConcatSimplifications
  <2>3. stream' = <<>> \o (<<>> \o <<>>)
    BY <1>1, <2>2 DEF stream
  <2>4. <<>> \o (<<>> \o <<>>) = <<>> /\ DOMAIN <<>> = {}
    <3>1. <<>> \in Seq({}) /\ DOMAIN <<>> = {}
      OBVIOUS
    <3> QED BY <3>1, ConcatEmptySeq
  <2> QED BY <2>3, <2>4
<1>5. Orderly(stream')
  BY <1>4 DEF Orderly
<1>6. Outstanding' = {n + k : k \in 1..w}
  <2>1. awaited' = [k \in 1..w |-> n + 1 + k - 1]
    BY <1>2 DEF Issue
  <2>2. PICK f : f = awaited'
    OBVIOUS
  <2>a. DOMAIN f = 1..w /\ \A k \in 1..w : f[k] = n + k
    BY <1>3, <2>1, <2>2
  <2>3. Range(awaited') = {n + k : k \in 1..w}
    BY <2>2, <2>a DEF Range
  <2>4. DOMAIN <<>> = {}
    OBVIOUS
  <2> QED BY <1>1, <2>3, <2>4 DEF Outstanding
<1>7. PICK d : d = device'
  OBVIOUS
<1>8. DOMAIN d = 1..w /\ \A k \in 1..w : d[k] = [req |-> n + k, whole |-> TRUE]
  <2>1. /\ DOMAIN d = 1..(0 + w)
        /\ \A k \in 1..w : d[0 + k] = [req |-> n + k, whole |-> TRUE]
    <3>1. Len(device) = 0
      BY <1>1
    <3> QED BY <1>1, <1>2, <1>7, <3>1, IssuedDevice DEF FlowInv
  <2>2. 0 + w = w /\ \A k \in 1..w : 0 + k = k
    OBVIOUS
  <2> QED BY <2>1, <2>2
<1>9. OwnOnly(stream', d, Outstanding')
  <2>1. PICK s, out : s = stream' /\ out = Outstanding'
    OBVIOUS
  <2>2. ASSUME NEW i \in DOMAIN d PROVE d[i].whole /\ d[i].req = n + i /\ d[i].req \in out
    <3>1. i \in 1..w /\ d[i] = [req |-> n + i, whole |-> TRUE]
      BY <1>8
    <3>2. d[i].whole /\ d[i].req = n + i
      BY <3>1
    <3>3. n + i \in out
      BY <1>6, <2>1, <3>1, Zenon
    <3> QED BY <3>2, <3>3
  <2>3. \A i, j \in DOMAIN d : d[i].req = d[j].req => i = j
    <3>1. \A i, j \in 1..w : n + i = n + j => i = j
      OBVIOUS
    <3> QED BY <1>8, <2>2, <3>1
  <2>4. DOMAIN s = {}
    BY <1>4, <2>1
  <2>5. OwnOnly(s, d, out)
    BY <2>2, <2>3, <2>4 DEF OwnOnly
  <2> QED BY <2>1, <2>5
<1> QED BY <1>1, <1>5, <1>7, <1>9

\* What is judged then: a whole reply to one of the command's requests, which
\* none of the checks but those of its status can refuse.
LEMMA SyncJudged ==
  ASSUME FlowInv, InSync, Judge, sync
  PROVE  /\ Orderly(stream') /\ OwnOnly(stream', device, Outstanding \ {from})
         /\ from \in Outstanding
         /\ Outstanding = {from} => Len(stream') = 0
         /\ \/ UNCHANGED matched /\ Ended("StatusError")
            \/ /\ DOMAIN matched' = DOMAIN matched \cup {from}
               /\ Ended("ok") \/ UNCHANGED <<h_state, result>>
<1>1. /\ h_state = "wait" /\ LinkInv /\ ReaderOk /\ AwaitsOwn
      /\ Orderly(stream) /\ OwnOnly(stream, device, Outstanding)
  BY DEF FlowInv, InSync, Judge
<1>a. PICK m \in Nat : m = Len(reader)
  BY <1>1, JudgeStream
<1>b. PICK s, t, f, d, out : /\ s = stream /\ t = stream' /\ f = frame
                             /\ d = device /\ out = Outstanding
  OBVIOUS
<1>2. /\ Drops(s, t, m + 1) /\ Len(f) = m + 1 /\ DOMAIN f = 1..Len(f)
      /\ \A i \in 1..Len(f) : f[i] = s[i]
      /\ \A i \in 1..m : f[i] = reader[i]
      /\ f[Len(f)].part = "tail"
      /\ Orderly(s) /\ OwnOnly(s, d, out)
  BY <1>1, <1>a, <1>b, JudgeStream
<1>3. /\ DOMAIN s = 1..Len(s) /\ Len(s) \in Nat /\ Len(s) >= m + 1 /\ Orderly(s)
      /\ DOMAIN reader = 1..m
  <2>1. DOMAIN reader = 1..m
    BY <1>1, <1>a, FlowParts
  <2> QED BY <1>2, <2>1 DEF Drops
<1>4. f[1] = s[1] /\ s[1].part = "head"
  BY <1>2, <1>3 DEF Orderly
<1>5. m # 0
  BY <1>2, <1>4
<1>6. m = 1
  <2>1. s[1 + 1].part = "tail"
    BY <1>3, <1>4 DEF Orderly
  <2>2. ASSUME m > 1 PROVE FALSE
    <3>1. 2 \in 1..Len(f) /\ 2 \in 1..m
      BY <1>2, <2>2
    <3>2. reader[2].part = "tail"
      BY <1>2, <2>1, <3>1
    <3> QED BY <1>1, <1>3, <3>1, <3>2 DEF ReaderOk
  <2> QED BY <1>5, <2>2
<1>7. Len(f) = 2 /\ DOMAIN f = 1..2 /\ Drops(s, t, 2) /\ \A i \in DOMAIN f : f[i].bad = "no"
  <2>1. m + 1 = 2 /\ 1..2 \subseteq DOMAIN s
    BY <1>3, <1>6
  <2> QED BY <1>2, <1>3, <2>1 DEF Orderly
<1>8. f[1].bad = "no"
  BY <1>7
<1>9. ~torn /\ readable /\ whole /\ from = s[1].of
  BY <1>b, <1>2, <1>4, <1>7, <1>8 DEF torn, readable, whole, from
<1>10. /\ Orderly(t) /\ OwnOnly(t, device, Outstanding \ {from}) /\ from \in Outstanding
       /\ Outstanding = {from} => Len(t) = 0
  <2>1. /\ Orderly(t) /\ OwnOnly(t, d, out \ {s[1].of}) /\ s[1].of \in out
        /\ out = {s[1].of} => Len(t) = 0
    BY <1>2, <1>4, <1>7, OrderlyTaken
  <2> QED BY <1>b, <1>9, <2>1
<1>11. /\ op_of(from) = op_of(awaited[1]) /\ ById(from) /\ from \in 1..Len(requests)
       /\ \A n : ById(n) => n = from
  <2>1. from \in Range(awaited) /\ from \notin DOMAIN matched
    BY <1>10 DEF Outstanding
  <2> QED BY <1>1, <2>1, AwaitedAreOwn DEF ById
<1>12. ~body_bad
  BY <1>9 DEF body_bad
<1>13. PICK n \in 1..Len(requests) :
         /\ op_of(from) = op_of(awaited[1]) /\ ById(n)
         /\ \/ ~frame[1].ok /\ UNCHANGED matched /\ Ended("StatusError")
            \/ /\ IF frame[1].ok THEN body_bad ELSE AuthFail(n) /\ ~whole
               /\ UNCHANGED matched /\ Ended("ProtocolError")
            \/ /\ IF frame[1].ok THEN body_ok ELSE AuthFail(n) /\ whole
               /\ matched' = [k \in DOMAIN matched \cup {n} |->
                                IF k \in DOMAIN matched THEN matched[k] ELSE
                                  [of |-> from, whole |-> whole, ok |-> frame[1].ok]]
               /\ IF ReadsAll THEN Ended("ok") ELSE UNCHANGED <<h_state, result>>
  BY <1>9, <1>11 DEF Judge
<1>14. n = from
  BY <1>11, <1>13
<1>15. \/ UNCHANGED matched /\ Ended("StatusError")
       \/ /\ DOMAIN matched' = DOMAIN matched \cup {from}
          /\ Ended("ok") \/ UNCHANGED <<h_state, result>>
  BY <1>9, <1>12, <1>13, <1>14
<1> QED BY <1>b, <1>10, <1>15

\* Both always hold.
LEMMA FlowInvariant == Spec => []FlowInv
<1>1. Init => ReaderOk /\ AwaitsOwn
  <2>1. DOMAIN <<>> = {}
    OBVIOUS
  <2> QED BY <2>1 DEF Init, ReaderOk, AwaitsOwn
<1>2. LinkInv /\ ReaderOk /\ AwaitsOwn /\ [Next]_vars => ReaderOk' /\ AwaitsOwn'
  <2> SUFFICES ASSUME LinkInv, ReaderOk, AwaitsOwn, [Next]_vars
               PROVE  ReaderOk' /\ AwaitsOwn'
    OBVIOUS
  <2>1. CASE Next
    BY <2>1, ReaderStep, AwaitsStep
  <2>2. CASE UNCHANGED vars
    BY <2>2 DEF vars, hostVars, deviceVars, ReaderOk, AwaitsOwn, Awaits
  <2> QED BY <2>1, <2>2
<1>3. LinkInv /\ ReaderOk /\ AwaitsOwn => FlowInv
  BY DEF FlowInv
<1> QED BY <1>1, <1>2, <1>3, LinkInvariant, PTL DEF Spec

\* Actions after which no command waits.
LEMMA NotWaiting ==
  ASSUME Open \/ DrainRead \/ DrainEnds \/ Close \/ TooLarge \/ DieWaiting \/ Timeout
           \/ \E cmd \in Commands : DieWriting(cmd)
  PROVE  h_state' # "wait"
BY DEF Open, DrainRead, DrainEnds, Close, TooLarge, MayMake, DieWaiting, Timeout, Ended,
       DieWriting, hostVars

\* A command in sync stays so, but for a fault, until it ends.
LEMMA SyncStep ==
  ASSUME FlowInv, InSync, Next
  PROVE  InSync'
<1>1. CASE h_state' # "wait"
  BY <1>1 DEF InSync
<1>2. CASE \E cmd \in Commands : Issue(cmd)
  <2>1. PICK cmd \in Commands : Issue(cmd)
    BY <1>2
  <2>2. sync' = Quiet
    BY <2>1 DEF Issue
  <2> QED BY <2>1, <2>2, SyncStarts DEF InSync
<1>3. CASE Read \/ Feed
  <2>1. UNCHANGED <<h_state, sync, half, device, awaited, matched>>
    BY <1>3 DEF Read, Feed, deviceVars
  <2>2. SUFFICES ASSUME h_state = "wait", sync
                 PROVE  Orderly(stream') /\ OwnOnly(stream', device', Outstanding')
    BY <2>1 DEF InSync
  <2>3. PICK s, t, d, out : s = stream /\ t = stream' /\ d = device /\ out = Outstanding
    OBVIOUS
  <2>4. Orderly(s) /\ OwnOnly(s, d, out)
    BY <2>2, <2>3 DEF InSync
  <2>5. Drops(s, t, 0) \/ (s[1].part = "tail" /\ Drops(s, t, 1))
    BY <1>3, <2>3, ReadStream, FeedStream DEF FlowInv
  <2>6. ~(s[1].part = "tail" /\ Drops(s, t, 1))
    <3> SUFFICES ASSUME s[1].part = "tail", Drops(s, t, 1) PROVE FALSE
      OBVIOUS
    <3>1. 1 \in DOMAIN s
      BY DEF Drops
    <3> QED BY <2>4, <3>1 DEF Orderly
  <2>7. Orderly(t) /\ OwnOnly(t, d, out)
    BY <2>4, <2>5, <2>6, OrderlyAlike
  <2> QED BY <2>1, <2>3, <2>7 DEF Outstanding
<1>4. CASE Device
  <2>1. PICK i \in 1..Len(device), ok \in BOOLEAN,
             bad \in {"no", "lost", "torn", "short", "cut"} : Answer(i, ok, bad)
    BY <1>4 DEF Device
  <2>2. /\ UNCHANGED <<h_state, half, awaited, matched>> /\ sync' = (sync /\ bad = "no")
        /\ device' = RemoveAt(device, i)
    BY <2>1 DEF Answer
  <2>3. SUFFICES ASSUME h_state = "wait", sync, bad = "no"
                 PROVE  Orderly(stream') /\ OwnOnly(stream', device', Outstanding')
    BY <2>2 DEF InSync
  <2>4. PICK s, t, d, out : s = stream /\ t = stream' /\ d = device /\ out = Outstanding
    OBVIOUS
  <2>5. Orderly(s) /\ OwnOnly(s, d, out)
    BY <2>3, <2>4 DEF InSync
  <2>6. Grows(s, t, <<Chunk(d[i].req, "head", ok, "no"), Chunk(d[i].req, "tail", ok, "no")>>)
    BY <2>1, <2>3, <2>4, AnswerStream DEF FlowInv
  <2>7. PICK S : d \in Seq(S)
    BY <2>4 DEF FlowInv, LinkInv, Carried
  <2>8. i \in 1..Len(d)
    BY <2>4
  <2>9. Orderly(t) /\ OwnOnly(t, RemoveAt(d, i), out)
    BY <2>5, <2>6, <2>7, <2>8, OrderlyAnswered
  <2> QED BY <2>2, <2>4, <2>9 DEF Outstanding
<1>5. CASE Judge
  <2>1. SUFFICES ASSUME h_state' = "wait", sync'
                 PROVE  half' = 0 /\ Orderly(stream') /\ OwnOnly(stream', device', Outstanding')
    BY DEF InSync
  <2>2. h_state = "wait" /\ UNCHANGED <<sync, device, half, awaited>>
    BY <1>5 DEF Judge, deviceVars
  <2>3. /\ Orderly(stream') /\ OwnOnly(stream', device, Outstanding \ {from})
        /\ DOMAIN matched' = DOMAIN matched \cup {from}
    BY <1>5, <2>1, <2>2, SyncJudged DEF Ended
  <2>4. Outstanding' = Outstanding \ {from}
    BY <2>2, <2>3 DEF Outstanding
  <2>5. half = 0
    BY <2>1, <2>2 DEF InSync
  <2> QED BY <2>2, <2>3, <2>4, <2>5
<1>6. CASE Open \/ DrainRead \/ DrainEnds \/ Close \/ TooLarge \/ DieWaiting \/ Timeout
             \/ \E cmd \in Commands : DieWriting(cmd)
  BY <1>1, <1>6, NotWaiting
<1> QED BY <1>2, <1>3, <1>4, <1>5, <1>6 DEF Next

\* It always holds.
LEMMA SyncInvariant == Spec => []InSync
<1>1. Init => InSync
  BY DEF Init, InSync
<1>2. FlowInv /\ InSync /\ [Next]_vars => InSync'
  <2> SUFFICES ASSUME FlowInv, InSync, [Next]_vars PROVE InSync'
    OBVIOUS
  <2>1. CASE Next
    BY <2>1, SyncStep
  <2>2. CASE UNCHANGED vars
    BY <2>2 DEF vars, hostVars, deviceVars, InSync, Outstanding, stream
  <2> QED BY <2>1, <2>2
<1> QED BY <1>1, <1>2, FlowInvariant, PTL DEF Spec

\* A command that found nothing left over on the line or at the device, and
\* met no fault of the line, ends with its answer, with the device's refusal
\* or at its deadline: no other check of _recv_response and its callers ever
\* refuses a good reply, in whatever order two engines answer and however the
\* bytes arrive.
THEOREM ErrorsAreCaused == Spec => []ErrorsHaveCause
<1>1. Init => ErrorsHaveCause
  BY DEF Init, ErrorsHaveCause, NoResult
<1>2. FlowInv /\ InSync /\ ErrorsHaveCause /\ [Next]_vars => ErrorsHaveCause'
  <2> SUFFICES ASSUME FlowInv, InSync, ErrorsHaveCause, [Next]_vars PROVE ErrorsHaveCause'
    OBVIOUS
  <2>1. CASE result' = result
    BY <2>1 DEF ErrorsHaveCause
  <2>2. CASE Open \/ TooLarge
    BY <2>2 DEF Open, TooLarge, NoResult, ErrorsHaveCause
  <2>3. CASE Timeout
    BY <2>3 DEF Timeout, Ended, ErrorsHaveCause
  <2>4. CASE Judge
    <3>1. CASE sync
      BY <2>1, <2>4, <3>1, SyncJudged DEF Ended, ErrorsHaveCause
    <3>2. CASE ~sync
      <4>1. result' = result \/ \E outcome : Ended(outcome)
        BY <2>4 DEF Judge
      <4>2. result' = result \/ result'.sync = sync
        BY <4>1 DEF Ended
      <4> QED BY <2>1, <3>2, <4>2 DEF ErrorsHaveCause
    <3> QED BY <3>1, <3>2
  <2>5. CASE UNCHANGED vars
    BY <2>1, <2>5 DEF vars, hostVars
  <2>6. CASE DrainRead \/ DrainEnds \/ Close \/ DieWaiting \/ Device \/ Read \/ Feed
               \/ \E cmd \in Commands : Issue(cmd) \/ DieWriting(cmd)
    BY <2>1, <2>6 DEF DrainRead, DrainEnds, Close, DieWaiting, Device, Answer, Read, Feed,
                      Issue, DieWriting, hostVars
  <2> QED BY <2>2, <2>3, <2>4, <2>5, <2>6 DEF Next
<1> QED BY <1>1, <1>2, FlowInvariant, SyncInvariant, PTL DEF Spec

\* Where commands make one request each: such a command, unless it gives up
\* waiting, leaves nothing on the line or at the device that the next would
\* take for its own reply. Of a bench_pair refused at its first reply the
\* second is left over.
THEOREM NothingIsLeft == "bench_pair" \notin Commands => (Spec => NothingLeftUnread)
<1> SUFFICES ASSUME "bench_pair" \notin Commands PROVE Spec => NothingLeftUnread
  OBVIOUS
<1>1. FlowInv /\ InSync /\ [Next]_vars =>
        [h_state = "wait" /\ h_state' = "idle" /\ sync /\ result'.outcome # "SerialTimeout"
           => Quiet']_vars
  <2> SUFFICES ASSUME FlowInv, InSync, Next, h_state = "wait", h_state' = "idle", sync,
                      result'.outcome # "SerialTimeout"
               PROVE  Quiet'
    BY DEF vars, hostVars
  <2>1. Judge
    <3>1. ~(Open \/ DrainRead \/ DrainEnds \/ Close \/ TooLarge \/ DieWaiting)
      BY DEF Open, DrainRead, DrainEnds, Close, TooLarge, MayMake, DieWaiting
    <3>2. ~\E cmd \in Commands : Issue(cmd) \/ DieWriting(cmd)
      BY DEF Issue, DieWriting, MayMake
    <3>3. ~(Device \/ Read \/ Feed)
      BY DEF Device, Answer, Read, Feed
    <3>4. ~Timeout
      <4>1. Timeout => Ended("SerialTimeout")
        BY DEF Timeout
      <4>2. Ended("SerialTimeout") => result'.outcome = "SerialTimeout"
        BY DEF Ended
      <4> QED BY <4>1, <4>2
    <3> QED BY <3>1, <3>2, <3>3, <3>4 DEF Next
  <2>2. device' = device /\ half' = half /\ half = 0
    BY <2>1 DEF Judge, deviceVars, InSync
  <2>3. /\ OwnOnly(stream', device, Outstanding \ {from}) /\ from \in Outstanding
        /\ Outstanding = {from} => Len(stream') = 0
    BY <2>1, SyncJudged
  <2>4. Outstanding = {from}
    <3>1. \A m, n \in Range(awaited) : m = n
      BY AwaitedAreOwn DEF FlowInv
    <3> QED BY <2>3, <3>1 DEF Outstanding
  <2>5. device = <<>>
    <3>1. PICK S : device \in Seq(S)
      BY DEF FlowInv, LinkInv, Carried
    <3>2. \A i \in DOMAIN device : device[i].req \in {}
      BY <2>3, <2>4 DEF OwnOnly
    <3>3. DOMAIN device = {}
      BY <3>2
    <3> QED BY <3>1, <3>3, EmptySeq, LenProperties
  <2>6. line' = <<>> /\ rx_pending' = <<>>
    <3>1. PICK S : reader' \in Seq(S) /\ rx_pending' \in Seq(S) /\ line' \in Seq(S)
      <4>1. LinkInv'
        BY <2>1, JudgeStep DEF FlowInv
      <4> QED BY <4>1 DEF LinkInv, Carried
    <3>2. PICK a, b, c : a = reader' /\ b = rx_pending' /\ c = line'
      OBVIOUS
    <3>3. Len(a \o (b \o c)) = 0
      BY <2>3, <2>4, <3>2 DEF stream
    <3>4. Joined(a \o (b \o c), a, b, c)
      BY <3>1, <3>2, JoinedFacts
    <3>5. Len(b) = 0 /\ Len(c) = 0
      BY <3>3, <3>4 DEF Joined
    <3> QED BY <3>1, <3>2, <3>5, EmptySeq
  <2>7. line' \o rx_pending' = <<>>
    <3>1. <<>> \in Seq({})
      OBVIOUS
    <3> QED BY <2>6, <3>1, ConcatEmptySeq
  <2> QED BY <2>2, <2>5, <2>7 DEF Quiet
<1> QED BY <1>1, FlowInvariant, SyncInvariant, PTL DEF Spec, NothingLeftUnread

-----------------------------------------------------------------------------
(* Whole replies.                                                           *)

WholeTaken(taken) == \A n \in DOMAIN taken : taken[n].whole

\* What is taken is whole, if what is judged is whole whenever it is taken.
LEMMA TakenWhole ==
  ASSUME Next, WholeTaken(matched), WholeTaken(result.by),
         ASSUME Judge, ~torn, readable, NEW n \in 1..Len(requests), ById(n), body_ok, frame[1].ok,
                op_of(from) = op_of(awaited[1])
         PROVE  whole
  PROVE  WholeTaken(matched') /\ WholeTaken(result'.by)
<1>0. WholeTaken(<<>>) /\ NoResult.by = <<>>
  <2>1. DOMAIN <<>> = {}
    OBVIOUS
  <2> QED BY <2>1 DEF WholeTaken, NoResult
<1>1. CASE UNCHANGED <<matched, result>>
  BY <1>1
<1>2. CASE matched' = <<>> /\ (result' = result \/ result'.by = <<>>)
  BY <1>0, <1>2
<1>3. CASE Timeout
  BY <1>3 DEF Timeout, Ended
<1>4. CASE TooLarge
  <2>1. matched' = matched /\ result'.by = NoResult.by
    BY <1>4 DEF TooLarge, NoResult
  <2> QED BY <1>0, <2>1
<1>5. CASE Judge
  <2>1. result' = result \/ result'.by = matched'
    <3>1. result' = result \/ \E outcome : Ended(outcome)
      BY <1>5 DEF Judge
    <3> QED BY <3>1 DEF Ended
  <2>2. SUFFICES ASSUME matched' # matched PROVE WholeTaken(matched')
    BY <2>1
  <2>3. PICK n \in 1..Len(requests) :
          /\ ~torn /\ readable /\ ById(n) /\ op_of(from) = op_of(awaited[1])
          /\ IF frame[1].ok THEN body_ok ELSE AuthFail(n) /\ whole
          /\ matched' = [m \in DOMAIN matched \cup {n} |->
                           IF m \in DOMAIN matched THEN matched[m] ELSE
                             [of |-> from, whole |-> whole, ok |-> frame[1].ok]]
    BY <1>5, <2>2 DEF Judge
  <2>4. whole
    BY <1>5, <2>3
  <2>5. ASSUME NEW m \in DOMAIN matched' PROVE matched'[m].whole
    <3>1. CASE m \in DOMAIN matched
      BY <2>3, <3>1 DEF WholeTaken
    <3>2. CASE m \notin DOMAIN matched
      <4>1. matched'[m] = [of |-> from, whole |-> whole, ok |-> frame[1].ok]
        BY <2>3, <3>2
      <4> QED BY <2>4, <4>1
    <3> QED BY <3>1, <3>2
  <2> QED BY <2>5 DEF WholeTaken
<1>6. CASE Open \/ \E cmd \in Commands : Issue(cmd)
  BY <1>0, <1>2, <1>6 DEF Open, Issue
<1>7. CASE DrainRead \/ DrainEnds \/ Close \/ DieWaiting \/ Device \/ Read \/ Feed
             \/ \E cmd \in Commands : DieWriting(cmd)
  BY <1>1, <1>7 DEF DrainRead, DrainEnds, Close, DieWaiting, Device, Answer, Read, Feed,
                    DieWriting, hostVars
<1> QED BY <1>3, <1>4, <1>5, <1>6, <1>7 DEF Next

\* A frame of a head and nothing but its END is whole, unless it is damaged.
LEMMA TwoAreWhole ==
  ASSUME FlowInv, Judge, readable, ~torn, Len(reader) = 1,
         stream[1].bad # "short"
  PROVE  whole
<1>1. /\ Len(frame) = 2 /\ DOMAIN frame = 1..2 /\ frame[1] = stream[1] /\ frame[1] = reader[1]
  BY JudgeStream DEF FlowInv
<1>2. reader[1] \in Reply(Len(requests))
  <2>1. PICK r, m : r = reader /\ m = Len(requests)
    OBVIOUS
  <2>2. r \in Seq(Reply(m)) /\ Len(r) = 1
    BY <2>1 DEF FlowInv, LinkInv, Carried
  <2>3. r[1] \in Reply(m)
    BY <2>2, ElementOfSeq
  <2> QED BY <2>1, <2>3
<1>3. frame[1].bad \in {"no", "torn", "short"}
  BY <1>1, <1>2 DEF Reply
<1>4. frame[1].bad # "torn"
  BY <1>1 DEF torn
<1> QED BY <1>1, <1>3, <1>4 DEF whole

\* A frame that can be read starts with a head and holds no END but its last.
LEMMA FrameStarts ==
  ASSUME FlowInv, Judge, readable
  PROVE  /\ Len(reader) \in Nat \ {0} /\ stream[1] = frame[1] /\ stream[1].part = "head"
         /\ DOMAIN stream = 1..Len(stream) /\ Len(stream) \in Nat /\ Len(stream) >= Len(reader) + 1
         /\ \A i \in 1..Len(reader) : stream[i].part # "tail"
<1>a. PICK m \in Nat : m = Len(reader)
  BY JudgeStream DEF FlowInv
<1>b. PICK f, s, t : f = frame /\ s = stream /\ t = stream'
  OBVIOUS
<1>1. m = Len(reader) /\ f = frame /\ s = stream /\ t = stream'
  BY <1>a, <1>b
<1>2. /\ Drops(s, t, m + 1) /\ Len(f) = m + 1 /\ \A i \in 1..Len(f) : f[i] = s[i]
      /\ \A i \in 1..m : f[i] = reader[i]
      /\ f[Len(f)].part = "tail" /\ f[1].part = "head"
  BY <1>1, JudgeStream DEF FlowInv, readable
<1>3. m # 0
  BY <1>2
<1>4. DOMAIN s = 1..Len(s) /\ Len(s) \in Nat /\ Len(s) >= m + 1
  BY <1>2 DEF Drops
<1>5. \A i \in 1..m : s[i] = reader[i]
  BY <1>2
<1>6. DOMAIN reader = 1..m
  BY <1>1, FlowParts DEF FlowInv
<1>7. \A i \in 1..m : s[i].part # "tail"
  BY <1>5, <1>6 DEF FlowInv, ReaderOk
<1>8. s[1] = f[1]
  BY <1>2
<1> QED BY <1>1, <1>2, <1>3, <1>4, <1>7, <1>8

\* No head without its tail: no reply loses its END.
Unshortened(s) ==
  \A i \in DOMAIN s :
    /\ s[i].bad # "short"
    /\ s[i].part = "head" => i + 1 \in DOMAIN s /\ s[i + 1].part = "tail"

\* It holds on where a front part is taken,
LEMMA UnshortenedDrops ==
  ASSUME NEW s, NEW t, NEW k, Drops(s, t, k), Unshortened(s)
  PROVE  Unshortened(t)
<1>1. /\ k \in Nat /\ Len(t) \in Nat /\ Len(s) = Len(t) + k
      /\ DOMAIN s = 1..Len(s) /\ DOMAIN t = 1..Len(t)
      /\ \A i \in DOMAIN t : t[i] = s[i + k]
  BY DEF Drops
<1>2. ASSUME NEW i \in DOMAIN t
      PROVE  /\ t[i].bad # "short"
             /\ t[i].part = "head" => i + 1 \in DOMAIN t /\ t[i + 1].part = "tail"
  <2>1. PICK j : j = i + k
    OBVIOUS
  <2>2. j \in DOMAIN s /\ t[i] = s[j] /\ j + 1 = (i + 1) + k
    BY <1>1, <2>1
  <2>3. j + 1 \in DOMAIN s => i + 1 \in DOMAIN t /\ t[i + 1] = s[j + 1]
    BY <1>1, <2>1, <2>2
  <2> QED BY <2>2, <2>3 DEF Unshortened
<1> QED BY <1>2 DEF Unshortened

\* and where a whole reply joins at the end.
LEMMA UnshortenedGrows ==
  ASSUME NEW s, NEW t, NEW q, NEW ok, NEW bad \in {"no", "torn"}, Unshortened(s),
         Grows(s, t, <<Chunk(q, "head", ok, bad), Chunk(q, "tail", ok, bad)>>)
  PROVE  Unshortened(t)
<1>0. PICK e : e = <<Chunk(q, "head", ok, bad), Chunk(q, "tail", ok, bad)>>
  OBVIOUS
<1>1. PICK n \in Nat : n = Len(s)
  BY DEF Grows
<1>2. /\ Len(e) = 2 /\ e[1].part = "head" /\ e[2].part = "tail"
      /\ e[1].bad # "short" /\ e[2].bad # "short"
  BY <1>0 DEF Chunk
<1>3. Grows(s, t, e)
  BY <1>0
<1>4. /\ DOMAIN s = 1..n /\ DOMAIN t = 1..(n + 2) /\ \A i \in DOMAIN s : t[i] = s[i]
      /\ t[n + 1] = e[1] /\ t[n + 2] = e[2]
  BY <1>1, <1>2, <1>3 DEF Grows
<1>5. ASSUME NEW i \in DOMAIN t
      PROVE  /\ t[i].bad # "short"
             /\ t[i].part = "head" => i + 1 \in DOMAIN t /\ t[i + 1].part = "tail"
  <2>1. i \in DOMAIN s \/ i = n + 1 \/ i = n + 2
    BY <1>4
  <2>2. CASE i \in DOMAIN s
    <3>1. i + 1 \in DOMAIN s => i + 1 \in DOMAIN t /\ t[i + 1] = s[i + 1]
      BY <1>4
    <3> QED BY <1>4, <2>2, <3>1 DEF Unshortened
  <2>3. CASE i = n + 1
    <3>1. i + 1 = n + 2 /\ n + 2 \in DOMAIN t
      BY <1>4, <2>3
    <3> QED BY <1>2, <1>4, <2>3, <3>1
  <2>4. CASE i = n + 2
    BY <1>2, <1>4, <2>4
  <2> QED BY <2>1, <2>2, <2>3, <2>4
<1> QED BY <1>5 DEF Unshortened

WholeInv == Unshortened(stream) /\ WholeTaken(matched) /\ WholeTaken(result.by)

\* Nothing has been taken at first,
LEMMA InitTaken == Init => WholeTaken(matched) /\ WholeTaken(result.by)
<1>1. DOMAIN <<>> = {}
  OBVIOUS
<1> QED BY <1>1 DEF Init, NoResult, WholeTaken

\* and nothing is on its way but, at most, a stray byte.
LEMMA InitStream == Init => stream \in {<<>>, <<Stray>>}
<1>1. /\ <<>> \o (<<>> \o <<>>) = <<>> /\ <<>> \o (<<>> \o <<Stray>>) = <<Stray>>
  <2>1. <<>> \in Seq({Stray}) /\ <<Stray>> \in Seq({Stray})
    OBVIOUS
  <2>2. PICK x : x = Stray
    OBVIOUS
  <2>3. <<>> \o <<>> = <<>> /\ <<>> \o <<x>> = <<x>>
    BY <2>1, <2>2, ConcatEmptySeq
  <2> QED BY <2>2, <2>3
<1>2. Init => stream = <<>> \o (<<>> \o <<>>) \/ stream = <<>> \o (<<>> \o <<Stray>>)
  BY DEF Init, stream
<1> QED BY <1>1, <1>2

\* Where no END is lost, every frame is one reply.
LEMMA UnshortenedStep ==
  ASSUME "short" \notin Faults, "cut" \notin Faults, FlowInv, WholeInv, Next
  PROVE  WholeInv'
<1>1. PICK s, t : s = stream /\ t = stream'
  OBVIOUS
<1>2. Unshortened(t)
  <2>1. Unshortened(s)
    BY <1>1 DEF WholeInv
  <2>2. CASE ~Device
    <3>1. \E k : Drops(s, t, k)
      BY <1>1, <2>2, OthersDrop DEF FlowInv
    <3> QED BY <2>1, <3>1, UnshortenedDrops
  <2>3. CASE Device
    <3>1. PICK i \in 1..Len(device), ok \in BOOLEAN,
               bad \in {"no", "lost", "torn", "short", "cut"} : Answer(i, ok, bad)
      BY <2>3 DEF Device
    <3>2. bad \notin {"short", "cut"}
      BY <3>1 DEF Answer
    <3>3. PICK q : q = device[i].req
      OBVIOUS
    <3>4. \/ t = s
          \/ /\ bad \in {"no", "torn"}
             /\ Grows(s, t, <<Chunk(q, "head", ok, bad), Chunk(q, "tail", ok, bad)>>)
      BY <1>1, <3>1, <3>2, <3>3, AnswerStream DEF FlowInv
    <3> QED BY <2>1, <3>4, UnshortenedGrows
  <2> QED BY <2>2, <2>3
<1>3. ASSUME Judge, ~torn, readable PROVE whole
  <2>1. /\ Len(reader) \in Nat \ {0} /\ s[1].part = "head" /\ DOMAIN s = 1..Len(s)
        /\ Len(s) \in Nat /\ Len(s) >= Len(reader) + 1
        /\ \A i \in 1..Len(reader) : s[i].part # "tail"
    BY <1>1, <1>3, FrameStarts
  <2>2. 1 \in DOMAIN s /\ 1 + 1 = 2
    BY <2>1
  <2>3. s[2].part = "tail" /\ s[1].bad # "short"
    BY <1>1, <2>1, <2>2 DEF WholeInv, Unshortened
  <2>4. Len(reader) = 1
    <3>1. PICK m : m = Len(reader)
      OBVIOUS
    <3>2. m \in Nat \ {0} /\ (2 \in 1..m => s[2].part # "tail")
      BY <2>1, <3>1
    <3> QED BY <2>3, <3>1, <3>2
  <2> QED BY <1>1, <1>3, <2>3, <2>4, TwoAreWhole
<1>4. WholeTaken(matched') /\ WholeTaken(result'.by)
  BY <1>3, TakenWhole DEF WholeInv
<1> QED BY <1>1, <1>2, <1>4 DEF WholeInv

-----------------------------------------------------------------------------
(* Whole replies where a reply may lose its END, from a device that answers *)
(* in order a single process.                                               *)

\* Replies come in the order of their requests, each a head before its tail,
\* and before the replies of what the device still has.
Strand(s, d) ==
  /\ \A i, j \in DOMAIN s :
       i < j => \/ s[i].of < s[j].of
                \/ s[i].of = s[j].of /\ s[i].part = "head" /\ s[j].part = "tail"
  /\ \A i \in DOMAIN s : s[i].bad # "short"
  /\ \A i, j \in DOMAIN d : i < j => d[i].req < d[j].req
  /\ \A i \in DOMAIN s, j \in DOMAIN d : s[i].of < d[j].req

\* The port is opened once; half a request is sent only where it is left.
OneRun ==
  /\ half # 0 => h_state = "closed"
  /\ process \in {0, 1} /\ (h_state # "closed" \/ half # 0 => process = 1)
  /\ \A n \in 1..Len(requests) : requests[n].proc = 1

InOrder == ~Reordering /\ MaxProcesses <= 1 /\ MaxRequests <= Ids /\ "short" \notin Faults

OrderInv == Strand(stream, device) /\ OneRun /\ WholeTaken(matched) /\ WholeTaken(result.by)

\* It holds on where a front part is taken,
LEMMA StrandDrops ==
  ASSUME NEW s, NEW t, NEW d, NEW k, Drops(s, t, k), Strand(s, d)
  PROVE  Strand(t, d)
<1>1. /\ k \in Nat /\ Len(t) \in Nat /\ Len(s) = Len(t) + k
      /\ DOMAIN s = 1..Len(s) /\ DOMAIN t = 1..Len(t)
      /\ \A i \in DOMAIN t : t[i] = s[i + k]
  BY DEF Drops
<1>2. ASSUME NEW i \in DOMAIN t PROVE i \in Nat /\ i + k \in DOMAIN s /\ t[i] = s[i + k]
  BY <1>1
<1>3. ASSUME NEW i \in DOMAIN t, NEW j \in DOMAIN t, i < j
      PROVE  \/ t[i].of < t[j].of
             \/ t[i].of = t[j].of /\ t[i].part = "head" /\ t[j].part = "tail"
  <2>1. PICK x, y : x = i + k /\ y = j + k
    OBVIOUS
  <2>2. x \in DOMAIN s /\ y \in DOMAIN s /\ t[i] = s[x] /\ t[j] = s[y] /\ x < y
    BY <1>1, <1>2, <1>3, <2>1
  <2> QED BY <2>2 DEF Strand
<1>4. ASSUME NEW i \in DOMAIN t
      PROVE  t[i].bad # "short" /\ \A j \in DOMAIN d : t[i].of < d[j].req
  <2>1. PICK x : x = i + k
    OBVIOUS
  <2>2. x \in DOMAIN s /\ t[i] = s[x]
    BY <1>2, <2>1
  <2> QED BY <2>2 DEF Strand
<1> QED BY <1>3, <1>4 DEF Strand

\* where the device takes up its first request,
LEMMA StrandTaken ==
  ASSUME NEW s, NEW d, NEW r, Strand(s, d), Removed(d, 1, r), DOMAIN d = 1..Len(d)
  PROVE  /\ Strand(s, r) /\ \A j \in DOMAIN r : d[1].req < r[j].req
<1>1. /\ Len(d) = Len(r) + 1 /\ Len(r) \in Nat /\ DOMAIN r = 1..Len(r)
      /\ \A j \in DOMAIN r : r[j] = d[j + 1]
  BY DEF Removed
<1>2. ASSUME NEW j \in DOMAIN r
      PROVE  j \in Nat /\ j + 1 \in DOMAIN d /\ r[j] = d[j + 1] /\ 1 < j + 1
  BY <1>1
<1>3. 1 \in DOMAIN d
  BY <1>1
<1>4. ASSUME NEW j \in DOMAIN r
      PROVE  d[1].req < r[j].req /\ \A i \in DOMAIN s : s[i].of < r[j].req
  BY <1>2, <1>3 DEF Strand
<1>5. ASSUME NEW i \in DOMAIN r, NEW j \in DOMAIN r, i < j PROVE r[i].req < r[j].req
  <2>1. PICK x, y : x = i + 1 /\ y = j + 1
    OBVIOUS
  <2>2. x \in DOMAIN d /\ y \in DOMAIN d /\ r[i] = d[x] /\ r[j] = d[y] /\ x < y
    BY <1>2, <1>5, <2>1
  <2> QED BY <2>2 DEF Strand
<1> QED BY <1>4, <1>5 DEF Strand

\* What a device that answers in order adds.
LEMMA StrandGrows ==
  ASSUME NEW s, NEW t, NEW d, NEW e, NEW r, NEW q, Grows(s, t, e), Strand(s, r),
         \A i \in DOMAIN s : s[i].of < q, \A j \in DOMAIN r : q < r[j].req,
         Len(e) \in 1..2,
         \A k \in 1..Len(e) : e[k].of = q /\ e[k].bad # "short",
         e[1].part = "head", Len(e) = 2 => e[2].part = "tail"
  PROVE  Strand(t, r)
<1>1. PICK n \in Nat, w \in 1..2 : n = Len(s) /\ w = Len(e)
  BY DEF Grows
<1>2. /\ DOMAIN s = 1..n /\ DOMAIN t = 1..(n + w)
      /\ \A i \in 1..n : t[i] = s[i]
      /\ \A k \in 1..w : t[n + k] = e[k]
  BY <1>1 DEF Grows
<1>3. ASSUME NEW i \in DOMAIN t
      PROVE  \/ i \in DOMAIN s /\ t[i] = s[i]
             \/ i = n + 1 /\ t[i].of = q /\ t[i].part = "head" /\ t[i].bad # "short"
             \/ i = n + 2 /\ t[i].of = q /\ t[i].part = "tail" /\ t[i].bad # "short"
  <2>1. i \in 1..n \/ i = n + 1 \/ (i = n + 2 /\ w = 2)
    BY <1>2
  <2>2. 1 \in 1..w /\ (w = 2 => 2 \in 1..w)
    BY <1>1
  <2>3. CASE i \in 1..n
    BY <1>2, <2>3
  <2>4. CASE i = n + 1
    BY <1>1, <1>2, <2>2, <2>4
  <2>5. CASE i = n + 2 /\ w = 2
    BY <1>1, <1>2, <2>2, <2>5
  <2> QED BY <2>1, <2>3, <2>4, <2>5
<1>4. ASSUME NEW i \in DOMAIN t
      PROVE  t[i].bad # "short" /\ \A j \in DOMAIN r : t[i].of < r[j].req
  <2>1. CASE i \in DOMAIN s /\ t[i] = s[i]
    BY <2>1 DEF Strand
  <2>2. CASE t[i].of = q /\ t[i].bad # "short"
    BY <2>2
  <2> QED BY <1>3, <2>1, <2>2
<1>5. ASSUME NEW i \in DOMAIN t, NEW j \in DOMAIN t, i < j
      PROVE  \/ t[i].of < t[j].of
             \/ t[i].of = t[j].of /\ t[i].part = "head" /\ t[j].part = "tail"
  <2>1. CASE j \in DOMAIN s
    <3>1. i \in DOMAIN s
      BY <1>2, <1>5, <2>1
    <3> QED BY <1>2, <1>5, <2>1, <3>1 DEF Strand
  <2>2. CASE j \notin DOMAIN s /\ i \in DOMAIN s
    <3>1. t[j].of = q /\ t[i] = s[i]
      BY <1>2, <1>3, <2>2
    <3> QED BY <2>2, <3>1
  <2>3. CASE j \notin DOMAIN s /\ i \notin DOMAIN s
    <3>1. i = n + 1 /\ j = n + 2
      BY <1>3, <1>5, <2>3
    <3>2. n + 1 # n + 2 /\ n + 1 \notin DOMAIN s /\ n + 2 \notin DOMAIN s
      BY <1>2
    <3> QED BY <1>3, <3>1, <3>2
  <2> QED BY <2>1, <2>2, <2>3
<1>6. \A i, j \in DOMAIN r : i < j => r[i].req < r[j].req
  BY DEF Strand
<1> QED BY <1>4, <1>5, <1>6 DEF Strand

\* and with the answer to that one.
LEMMA StrandAnswered ==
  ASSUME ~Reordering, "short" \notin Faults, FlowInv, Strand(stream, device), Device
  PROVE  Strand(stream', device')
<1>1. PICK i \in 1..Len(device), ok \in BOOLEAN,
           bad \in {"no", "lost", "torn", "short", "cut"} : i = 1 /\ Answer(i, ok, bad)
  BY DEF Device
<1>2. bad # "short" /\ device' = RemoveAt(device, 1)
  BY <1>1 DEF Answer
<1>3. PICK s, t, d, r, q : /\ s = stream /\ t = stream' /\ d = device /\ r = device'
                           /\ q = device[1].req
  OBVIOUS
<1>4. PICK S : d \in Seq(S)
  BY <1>3 DEF FlowInv, LinkInv, Carried
<1>5. Removed(d, 1, r) /\ DOMAIN d = 1..Len(d) /\ 1 \in DOMAIN d
  BY <1>1, <1>2, <1>3, <1>4, RemovedFacts, LenProperties
<1>6. Strand(s, d)
  BY <1>3
<1>7. Strand(s, r) /\ \A j \in DOMAIN r : q < r[j].req
  BY <1>3, <1>5, <1>6, StrandTaken
<1>8. \A i_1 \in DOMAIN s : s[i_1].of < q
  BY <1>3, <1>5, <1>6 DEF Strand
<1>9. \/ t = s
      \/ bad = "cut" /\ Grows(s, t, <<Chunk(q, "head", ok, "no")>>)
      \/ /\ bad \in {"no", "torn"}
         /\ Grows(s, t, <<Chunk(q, "head", ok, bad), Chunk(q, "tail", ok, bad)>>)
  BY <1>1, <1>2, <1>3, AnswerStream DEF FlowInv
<1>10. CASE t = s
  BY <1>3, <1>7, <1>10
<1>11. CASE Grows(s, t, <<Chunk(q, "head", ok, "no")>>)
  <2>1. PICK e : e = <<Chunk(q, "head", ok, "no")>>
    OBVIOUS
  <2>2. /\ Len(e) \in 1..2 /\ e[1].part = "head" /\ (Len(e) = 2 => e[2].part = "tail")
        /\ \A k \in 1..Len(e) : e[k].of = q /\ e[k].bad # "short"
    BY <2>1 DEF Chunk
  <2>3. Grows(s, t, e)
    BY <1>11, <2>1
  <2>4. Strand(t, r)
    BY <1>7, <1>8, <2>2, <2>3, StrandGrows, Zenon
  <2> QED BY <1>3, <2>4
<1>12. CASE /\ bad \in {"no", "torn"}
            /\ Grows(s, t, <<Chunk(q, "head", ok, bad), Chunk(q, "tail", ok, bad)>>)
  <2>1. PICK e : e = <<Chunk(q, "head", ok, bad), Chunk(q, "tail", ok, bad)>>
    OBVIOUS
  <2>2. /\ Len(e) \in 1..2 /\ e[1].part = "head" /\ (Len(e) = 2 => e[2].part = "tail")
        /\ \A k \in 1..Len(e) : e[k].of = q /\ e[k].bad # "short"
    BY <1>2, <2>1 DEF Chunk
  <2>3. Grows(s, t, e)
    BY <1>12, <2>1
  <2>4. Strand(t, r)
    BY <1>7, <1>8, <2>2, <2>3, StrandGrows, Zenon
  <2> QED BY <1>3, <2>4
<1> QED BY <1>9, <1>10, <1>11, <1>12

\* What a command adds comes after all that there was.
LEMMA StrandIssued ==
  ASSUME FlowInv, half = 0, Strand(stream, device), NEW cmd \in Commands, Issue(cmd)
  PROVE  Strand(stream', device')
<1>1. PICK s, t, d, r : s = stream /\ t = stream' /\ d = device /\ r = device'
  OBVIOUS
<1>2. PICK n \in Nat, w \in Nat, l \in Nat : n = Len(requests) /\ w = Width(cmd) /\ l = Len(device)
  BY IssuedDevice, LenProperties DEF FlowInv, LinkInv, Numbered, Width
<1>3. Strand(t, d)
  <2>1. Next /\ ~Device
    <3>1. Next
      BY DEF Next
    <3>2. h_state = "idle" /\ h_state' = "wait"
      BY DEF Issue, MayMake
    <3> QED BY <3>1, <3>2 DEF Device, Answer
  <2>2. \E k : Drops(s, t, k)
    BY <1>1, <2>1, OthersDrop DEF FlowInv
  <2> QED BY <1>1, <2>2, StrandDrops
<1>4. /\ DOMAIN d = 1..l /\ DOMAIN r = 1..(l + w)
      /\ \A i \in 1..l : r[i] = d[i]
      /\ \A k \in 1..w : r[l + k] = [req |-> n + k, whole |-> TRUE]
  BY <1>1, <1>2, IssuedDevice DEF FlowInv
<1>5. \A i \in DOMAIN d : d[i].req \in 1..n
  <2>1. d \in Seq([req : 1..n, whole : BOOLEAN])
    BY <1>1, <1>2 DEF FlowInv, LinkInv, Carried
  <2>2. Len(d) = l
    BY <1>1, <1>2
  <2>3. ASSUME NEW i \in DOMAIN d PROVE d[i] \in [req : 1..n, whole : BOOLEAN]
    BY <1>4, <2>1, <2>2, ElementOfSeq
  <2> QED BY <2>3
<1>6. \A i \in DOMAIN t : t[i].of \in 0..n
  <2>1. PICK u, v, x : u = reader' /\ v = rx_pending /\ x = line
    OBVIOUS
  <2>2. u = <<>> /\ t = u \o (v \o x)
    BY <1>1, <2>1 DEF Issue, stream
  <2>3. v \in Seq(Reply(n)) /\ x \in Seq(Reply(n)) /\ u \in Seq(Reply(n))
    BY <1>2, <2>1, <2>2, EmptySeq DEF FlowInv, LinkInv, Carried
  <2>4. t \in Seq(Reply(n))
    BY <2>2, <2>3, JoinedFacts
  <2>5. \A i \in DOMAIN t : t[i] \in Reply(n)
    BY <2>4, ElementOfSeq, LenProperties
  <2> QED BY <2>5 DEF Reply
<1>7. ASSUME NEW j \in DOMAIN r
      PROVE  \/ j \in DOMAIN d /\ r[j] = d[j]
             \/ \E k \in 1..w : j = l + k /\ r[j].req = n + k
  <2>1. CASE j \in 1..l
    BY <1>4, <2>1
  <2>2. CASE j \notin 1..l
    <3>1. PICK k \in 1..w : j = l + k
      <4>1. j - l \in 1..w /\ j = l + (j - l)
        BY <1>4, <2>2
      <4> QED BY <4>1
    <3>2. r[j].req = n + k
      <4>1. r[l + k] = [req |-> n + k, whole |-> TRUE]
        BY <1>4, Zenon
      <4>2. PICK x : x = r[l + k]
        OBVIOUS
      <4>3. x.req = n + k
        BY <4>1, <4>2
      <4> QED BY <3>1, <4>2, <4>3
    <3>3. \E k_1 \in 1..w : j = l + k_1 /\ r[j].req = n + k_1
      BY <3>1, <3>2
    <3> QED BY <3>3, Zenon
  <2> QED BY <2>1, <2>2
<1>8. ASSUME NEW i \in DOMAIN r, NEW j \in DOMAIN r, i < j PROVE r[i].req < r[j].req
  <2>1. CASE j \in DOMAIN d /\ r[j] = d[j]
    <3>1. i \in DOMAIN d /\ r[i] = d[i]
      BY <1>4, <1>8, <2>1
    <3> QED BY <1>3, <1>8, <2>1, <3>1 DEF Strand
  <2>2. CASE \E k \in 1..w : j = l + k /\ r[j].req = n + k
    <3>1. PICK k \in 1..w : j = l + k /\ r[j].req = n + k
      BY <2>2
    <3>2. CASE i \in DOMAIN d /\ r[i] = d[i]
      <4>1. r[i].req \in 1..n
        BY <1>5, <3>2
      <4> QED BY <3>1, <4>1
    <3>3. CASE \E k_1 \in 1..w : i = l + k_1 /\ r[i].req = n + k_1
      BY <1>8, <3>1, <3>3
    <3> QED BY <1>7, <3>2, <3>3
  <2> QED BY <1>7, <2>1, <2>2
<1>9. ASSUME NEW i \in DOMAIN t, NEW j \in DOMAIN r PROVE t[i].of < r[j].req
  <2>1. CASE j \in DOMAIN d /\ r[j] = d[j]
    BY <1>3, <2>1 DEF Strand
  <2>2. CASE \E k \in 1..w : j = l + k /\ r[j].req = n + k
    BY <1>6, <2>2
  <2> QED BY <1>7, <2>1, <2>2
<1>10. /\ \A i, j \in DOMAIN t :
            i < j => \/ t[i].of < t[j].of
                     \/ t[i].of = t[j].of /\ t[i].part = "head" /\ t[j].part = "tail"
       /\ \A i \in DOMAIN t : t[i].bad # "short"
  BY <1>3 DEF Strand
<1> QED BY <1>1, <1>8, <1>9, <1>10 DEF Strand

\* Requests that are made are the one process's.
LEMMA MadeByTheOne ==
  ASSUME LinkInv, OneRun, NEW cmd \in Commands, MayMake(cmd), requests' = requests \o Made(cmd)
  PROVE  process = 1 /\ half = 0 /\ \A n \in 1..Len(requests') : requests'[n].proc = 1
<1>1. h_state = "idle" /\ process = 1 /\ half = 0 /\ cmd \in AllCommands
  BY FaultsAssumption DEF MayMake, OneRun
<1>2. PICK n \in Nat, w \in 1..2 : n = Len(requests) /\ w = Width(cmd)
  BY LenProperties DEF LinkInv, Numbered, Width
<1>3. PICK rs, more : rs = requests /\ more = requests'
  OBVIOUS
<1>4. /\ Len(more) = n + w /\ \A m \in 1..n : more[m] = rs[m]
      /\ \A k \in 1..w : more[n + k].proc = 1
  <2>1. Numbered /\ requests' = requests \o Made(cmd)
    BY DEF LinkInv
  <2>a. requests \o Made(cmd) = more
    BY <1>3, <2>1
  <2>2. /\ Len(more) = Len(requests) + Width(cmd) /\ Longer(requests, more)
        /\ \A k \in 1..Width(cmd) : more[Len(requests) + k].proc = process
    BY <1>1, <2>1, <2>a, MadeFacts
  <2> QED BY <1>1, <1>2, <1>3, <2>2 DEF Longer
<1>5. ASSUME NEW m \in 1..Len(more) PROVE more[m].proc = 1
  <2>1. CASE m \in 1..n
    BY <1>2, <1>3, <1>4, <2>1 DEF OneRun
  <2>2. CASE m \notin 1..n
    <3>1. PICK k : k = m - n
      OBVIOUS
    <3>2. k \in 1..w /\ m = n + k
      BY <1>4, <2>2, <3>1
    <3> QED BY <1>4, <3>2
  <2> QED BY <2>1, <2>2
<1> QED BY <1>1, <1>3, <1>5

\* There is one process while the port may be opened once.
LEMMA OneRunStep ==
  ASSUME MaxProcesses <= 1, LinkInv, OneRun, Next
  PROVE  OneRun'
<1>1. CASE Open
  <2>1. process = 0 /\ process' = 1 /\ requests' = requests /\ half' = half
    BY <1>1, BoundsAssumption DEF Open, OneRun, deviceVars
  <2> QED BY <2>1 DEF OneRun
<1>2. CASE \E cmd \in Commands : Issue(cmd)
  <2>1. PICK cmd \in Commands : Issue(cmd)
    BY <1>2
  <2>2. MayMake(cmd) /\ requests' = requests \o Made(cmd) /\ process' = process /\ half' = 0
    BY <2>1 DEF Issue
  <2> QED BY <2>2, MadeByTheOne DEF OneRun
<1>3. CASE \E cmd \in Commands : DieWriting(cmd)
  <2>1. PICK cmd \in Commands : DieWriting(cmd)
    BY <1>3
  <2>2. /\ MayMake(cmd) /\ requests' = requests \o Made(cmd) /\ process' = process
        /\ h_state' = "closed"
    BY <2>1 DEF DieWriting
  <2> QED BY <2>2, MadeByTheOne DEF OneRun
<1>4. CASE TooLarge
  <2>1. /\ MayMake("seal") /\ requests' = requests \o Made("seal") /\ process' = process
        /\ h_state' = h_state /\ half' = half
    BY <1>4 DEF TooLarge, deviceVars
  <2>2. "seal" \in Commands
    BY <2>1 DEF MayMake
  <2> QED BY <2>1, <2>2, MadeByTheOne DEF OneRun
<1>5. CASE DrainRead \/ DrainEnds \/ Close \/ DieWaiting \/ Device \/ Read \/ Feed \/ Judge \/ Timeout
  <2>1. /\ requests' = requests /\ process' = process /\ half' = half
        /\ h_state' # "closed" => h_state # "closed"
        /\ h_state = "closed" => h_state' = "closed"
    BY <1>5 DEF DrainRead, DrainEnds, Close, DieWaiting, Device, Answer, Read, Feed, Judge,
                Timeout, Ended, hostVars, deviceVars
  <2> QED BY <2>1 DEF OneRun
<1> QED BY <1>1, <1>2, <1>3, <1>4, <1>5 DEF Next

\* A reply whose length is not checked is the last request's: nothing that
\* comes after its head can join it but its own END.
LEMMA OrderedAreWhole ==
  ASSUME InOrder, FlowInv, OrderInv, Judge, ~torn, readable,
         NEW n \in 1..Len(requests), ById(n), body_ok, op_of(from) = op_of(awaited[1])
  PROVE  whole
<1> SUFFICES ASSUME ~whole PROVE FALSE
  OBVIOUS
<1>1. /\ h_state = "wait" /\ rx_pending # <<>> /\ LinkInv /\ AwaitsOwn /\ OneRun
      /\ Strand(stream, device)
  BY DEF Judge, FlowInv, OrderInv
<1>2. PICK s, d, m : s = stream /\ d = device /\ m = Len(reader)
  OBVIOUS
<1>3. PICK N \in Nat : N = Len(requests)
  BY <1>1, LenProperties DEF LinkInv, Numbered
<1>4. from \in 1..N /\ n \in 1..N /\ id_of(n) = id_of(from) /\ n \in Range(awaited)
  BY <1>1, <1>3, FromWasMade DEF ById
<1>5. n = N
  <2>1. op_of(from) # "bench"
    BY DEF body_ok
  <2>2. op_of(n) = op_of(awaited[1])
    BY <1>1, <1>4, AwaitedAreOwn
  <2> QED BY <1>1, <1>3, <1>4, <2>1, <2>2, AwaitedAreOwn
<1>6. from = N
  <2>1. PICK q : q = from
    OBVIOUS
  <2>2. requests[q].proc = requests[n].proc /\ requests[q].id = requests[n].id
    BY <1>1, <1>3, <1>4, <2>1 DEF OneRun, id_of
  <2>3. q < n => q + Ids <= n
    BY <1>1, <1>3, <1>4, <2>1, <2>2, IdsComeRound DEF LinkInv
  <2>4. N <= Ids
    BY <1>1, <1>3, BoundsAssumption, IdsAssumption DEF LinkInv, InOrder
  <2> QED BY <1>4, <1>5, <2>1, <2>3, <2>4, IdsAssumption
<1>7. /\ m \in Nat \ {0} /\ s[1].of = N /\ DOMAIN s = 1..Len(s)
      /\ Len(s) \in Nat /\ Len(s) >= m + 1 /\ \A i \in 1..m : s[i].part # "tail"
  BY <1>2, <1>6, FrameStarts DEF from
<1>8. Strand(s, d)
  BY <1>1, <1>2
<1>9. s[1].bad # "short"
  <2>1. 1 \in DOMAIN s
    BY <1>7
  <2> QED BY <1>8, <2>1 DEF Strand
<1>10. m = 1
  <2> SUFFICES ASSUME m # 1 PROVE FALSE
    OBVIOUS
  <2>1. 1 \in DOMAIN s /\ 2 \in DOMAIN s /\ 2 \in 1..m /\ 1 < 2
    BY <1>7
  <2>2. s[2].part # "tail"
    BY <1>7, <2>1
  <2>3. s[1].of < s[2].of
    BY <1>8, <2>1, <2>2 DEF Strand
  <2>4. s[2].of \in 0..N
    <3>1. PICK r : r = reader
      OBVIOUS
    <3>2. r \in Seq(Reply(N)) /\ 2 \in 1..Len(r)
      BY <1>1, <1>2, <1>3, <2>1, <3>1 DEF LinkInv, Carried
    <3>3. r[2] \in Reply(N)
      BY <3>2, ElementOfSeq
    <3>4. s[2] = r[2]
      <4>1. PICK f : f = frame
        OBVIOUS
      <4>2. /\ Len(f) = m + 1 /\ \A i \in 1..Len(f) : f[i] = s[i]
            /\ \A i \in 1..m : f[i] = r[i]
        BY <1>1, <1>2, <3>1, <4>1, JudgeStream
      <4>3. 2 \in 1..Len(f)
        BY <1>7, <2>1, <4>2
      <4> QED BY <2>1, <4>2, <4>3
    <3> QED BY <3>3, <3>4 DEF Reply
  <2> QED BY <1>7, <2>3, <2>4
<1> QED BY <1>2, <1>9, <1>10, TwoAreWhole

\* In order, every frame that is taken is one reply.
LEMMA OrderStep ==
  ASSUME InOrder, FlowInv, OrderInv, Next
  PROVE  OrderInv'
<1>1. OneRun'
  BY OneRunStep DEF FlowInv, OrderInv, InOrder
<1>2. Strand(stream, device)'
  <2>1. CASE Device
    BY <2>1, StrandAnswered DEF OrderInv, InOrder
  <2>2. CASE \E cmd \in Commands : Issue(cmd)
    <3>1. PICK cmd \in Commands : Issue(cmd)
      BY <2>2
    <3>2. half = 0
      BY <3>1 DEF OrderInv, OneRun, Issue, MayMake
    <3> QED BY <3>1, <3>2, StrandIssued DEF OrderInv
  <2>3. CASE ~Device /\ ~\E cmd \in Commands : Issue(cmd)
    <3>1. device' = device
      BY <2>3 DEF Next, Open, DrainRead, DrainEnds, Close, DieWriting, TooLarge, DieWaiting,
                  Read, Feed, Judge, Timeout, deviceVars
    <3>2. PICK s, t, d : s = stream /\ t = stream' /\ d = device
      OBVIOUS
    <3>3. PICK k : Drops(s, t, k)
      BY <2>3, <3>2, OthersDrop DEF FlowInv
    <3>4. Strand(t, d)
      BY <3>2, <3>3, StrandDrops DEF OrderInv
    <3> QED BY <3>1, <3>2, <3>4
  <2> QED BY <2>1, <2>2, <2>3
<1>3. WholeTaken(matched') /\ WholeTaken(result'.by)
  BY OrderedAreWhole, TakenWhole DEF OrderInv
<1> QED BY <1>1, <1>2, <1>3 DEF OrderInv

\* Where no reply loses a part of itself and no END is lost, or else replies
\* come in order to a single process whose ids have not come round: a command
\* that returns took a reply of the length its opcode promises. (The length of
\* load, seal and open is not checked; what is proved is that two replies
\* never run together into one that is taken for them.)
THEOREM RepliesAreWhole ==
  "short" \notin Faults /\ ("cut" \notin Faults \/ InOrder) => (Spec => []WholeReply)
<1>1. WholeTaken(result.by) => WholeReply
  <2> SUFFICES ASSUME WholeTaken(result.by), NEW t \in Taken PROVE t[2].whole
    BY DEF WholeReply
  <2>1. PICK n \in DOMAIN result.by : t = <<n, result.by[n]>>
    BY DEF Taken
  <2>2. t[2] = result.by[n]
    BY <2>1
  <2> QED BY <2>2 DEF WholeTaken
<1>2. Init => stream \in {<<>>, <<Stray>>} /\ WholeTaken(matched) /\ WholeTaken(result.by)
  BY InitTaken, InitStream
<1>3. ASSUME NEW s \in {<<>>, <<Stray>>}
      PROVE  Unshortened(s) /\ Strand(s, <<>>)
  <2>1. DOMAIN s \subseteq {1} /\ (1 \in DOMAIN s => s[1] = Stray)
    BY <1>3
  <2>2. Stray.bad # "short" /\ Stray.part # "head"
    BY DEF Stray, Chunk
  <2>3. Unshortened(s)
    BY <2>1, <2>2 DEF Unshortened
  <2>4. DOMAIN <<>> = {}
    OBVIOUS
  <2>5. \A i, j \in DOMAIN s : ~(i < j)
    BY <2>1
  <2>6. Strand(s, <<>>)
    BY <2>1, <2>2, <2>4, <2>5 DEF Strand
  <2> QED BY <2>3, <2>6
<1>4. ASSUME UNCHANGED vars
      PROVE  (WholeInv => WholeInv') /\ (OrderInv => OrderInv')
  <2>1. /\ stream' = stream /\ device' = device /\ matched' = matched /\ result' = result
        /\ requests' = requests /\ half' = half /\ h_state' = h_state /\ process' = process
    BY <1>4 DEF vars, hostVars, deviceVars, stream
  <2>2. WholeInv => WholeInv'
    BY <2>1 DEF WholeInv
  <2>3. OrderInv => OrderInv'
    BY <2>1 DEF OrderInv, OneRun
  <2> QED BY <2>2, <2>3
<1>5. ASSUME "short" \notin Faults, "cut" \notin Faults PROVE Spec => []WholeReply
  <2>1. Init => WholeInv
    BY <1>2, <1>3 DEF WholeInv
  <2>2. FlowInv /\ WholeInv /\ [Next]_vars => WholeInv'
    BY <1>4, <1>5, UnshortenedStep
  <2>3. WholeInv => WholeReply
    BY <1>1 DEF WholeInv
  <2> QED BY <2>1, <2>2, <2>3, FlowInvariant, PTL DEF Spec
<1>6. ASSUME InOrder PROVE Spec => []WholeReply
  <2>1. Init => OrderInv
    <3> SUFFICES ASSUME Init PROVE OrderInv
      OBVIOUS
    <3>1. device = <<>> /\ half = 0 /\ requests = <<>> /\ process = 0 /\ h_state = "closed"
      BY DEF Init
    <3>2. OneRun
      <4>1. 1..Len(<<>>) = {}
        OBVIOUS
      <4> QED BY <3>1, <4>1 DEF OneRun
    <3>3. Strand(stream, device)
      BY <1>2, <1>3, <3>1
    <3> QED BY <1>2, <3>2, <3>3 DEF OrderInv
  <2>2. FlowInv /\ OrderInv /\ [Next]_vars => OrderInv'
    BY <1>4, <1>6, OrderStep
  <2>3. OrderInv => WholeReply
    BY <1>1 DEF OrderInv
  <2> QED BY <2>1, <2>2, <2>3, FlowInvariant, PTL DEF Spec
<1> QED BY <1>5, <1>6

-----------------------------------------------------------------------------
(* The command line: the calls of a script.                                *)

\* What may follow `oca` on the command line.
Subcommands == {"load-key", "seal", "open", "stats", "bench", "bench-pair", "selftest"}

\* A self-test makes seven calls, the only one to be refused among them; every
\* other subcommand makes one.
LEMMA Scripts ==
  ASSUME NEW i \in Subcommands
  PROVE  /\ Len(Script(i)) = IF i = "selftest" THEN 7 ELSE 1
         /\ \A k \in 1..Len(Script(i)) :
              /\ Script(i)[k] \in AllCommands
              /\ i = "selftest" => Script(i)[k] \in {"load", "seal", "open", "tampered", "stats"}
              /\ i # "selftest" => Script(i)[k] # "tampered"
<1>1. CASE i = "selftest"
  <2>1. Script(i) = <<"load", "seal", "open", "tampered", "load", "open", "stats">>
    BY <1>1 DEF Script, RunSelftest
  <2>2. Len(Script(i)) = 7
    BY <2>1
  <2>3. ASSUME NEW k \in 1..7
        PROVE  Script(i)[k] \in {"load", "seal", "open", "tampered", "stats"}
    <3>1. k = 1 \/ k = 2 \/ k = 3 \/ k = 4 \/ k = 5 \/ k = 6 \/ k = 7
      OBVIOUS
    <3> QED BY <2>1, <3>1
  <2> QED BY <1>1, <2>2, <2>3 DEF AllCommands
<1>2. CASE i # "selftest"
  <2>1. \E c \in AllCommands \ {"tampered"} : Script(i) = <<c>>
    <3>1. CASE i = "load-key"
      <4>1. Script(i) = <<"load">>
        BY <3>1 DEF Script
      <4> QED BY <4>1 DEF AllCommands
    <3>2. CASE i = "bench-pair"
      <4>1. Script(i) = <<"bench_pair">>
        BY <3>2 DEF Script
      <4> QED BY <4>1 DEF AllCommands
    <3>3. CASE i \in {"seal", "open", "stats", "bench"}
      <4>1. Script(i) = <<i>>
        BY <3>3 DEF Script
      <4> QED BY <3>3, <4>1 DEF AllCommands
    <3> QED BY <1>2, <3>1, <3>2, <3>3 DEF Subcommands
  <2>2. PICK c \in AllCommands \ {"tampered"} : Script(i) = <<c>>
    BY <2>1
  <2>3. Len(Script(i)) = 1 /\ \A k \in 1..1 : Script(i)[k] = c
    BY <2>2
  <2> QED BY <1>2, <2>2, <2>3
<1> QED BY <1>1, <1>2

-----------------------------------------------------------------------------
(* What survives an invocation that fails.                                 *)

\* LinkInv, but for the ids to come.
Loose ==
  /\ requests \in Seq(Request) /\ process \in Nat /\ next_id \in 0..(Ids - 1)
  /\ \A n \in 1..Len(requests) : requests[n].proc <= process
  /\ Consecutive(requests)
  /\ Carried(Len(requests))
  /\ SameIds(matched, requests) /\ SameIds(result.by, requests)
  /\ Len(requests) <= MaxRequests

\* What the two are to one another.
LEMMA LooseIs ==
  LinkInv <=> Loose /\ (h_state # "closed" => Following(requests, process, next_id))
BY DEF LinkInv, Loose, Numbered

\* The same after a step, one way.
LEMMA LinkGives == LinkInv' => Loose'
BY DEF LinkInv, Loose, Numbered

\* An exception in the middle of a call leaves an id spent that no request has.
LinkKept == Loose /\ (code = "running" => LinkInv)

\* Where an invocation is in its script.
Stage ==
  /\ h_state \in {"draining", "wait"} => code = "running"
  /\ code = "running" => /\ h_state # "closed" /\ inv \in Subcommands
                         /\ step \in 1..Len(Script(inv))

\* It goes on with the process or the ids, as long as nothing is sent.
LEMMA NoneMadeKeeps ==
  ASSUME Loose, UNCHANGED <<requests, matched, result, reader, rx_pending, line, device, half>>,
         process' \in Nat, process' >= process, next_id' \in 0..(Ids - 1)
  PROVE  Loose'
<1>1. ASSUME NEW n \in 1..Len(requests) PROVE requests[n].proc <= process'
  <2>1. requests[n] \in Request /\ requests[n].proc <= process /\ process \in Nat
    BY ElementOfSeq DEF Loose
  <2> QED BY <2>1 DEF Request
<1>2. Carried(Len(requests))'
  BY DEF Loose, Carried
<1> QED BY <1>1, <1>2 DEF Loose

\* Steps of the link that a running invocation takes.
LinkSteps ==
  \/ DrainRead \/ DrainEnds \/ TooLarge \/ DieWaiting \/ Device \/ Read \/ Feed \/ Judge
  \/ Timeout \/ \E cmd \in Commands : Issue(cmd) \/ DieWriting(cmd)

\* They keep the link's invariant.
LEMMA LinkStep ==
  ASSUME LinkInv, LinkSteps
  PROVE  LinkInv'
<1>1. ASSUME NEW cmd \in Commands, Issue(cmd) \/ DieWriting(cmd) PROVE LinkInv'
  BY <1>1, IssueStep, DieWritingStep
<1>2. CASE DrainRead \/ DrainEnds \/ DieWaiting \/ Read
  BY <1>2, IdleStep
<1>3. CASE TooLarge
  BY <1>3, TooLargeStep
<1>4. CASE Device
  BY <1>4, DeviceStep
<1>5. CASE Feed
  BY <1>5, FeedStep
<1>6. CASE Judge
  BY <1>6, JudgeStep
<1>7. CASE Timeout
  BY <1>7, TimeoutStep
<1> QED BY <1>1, <1>2, <1>3, <1>4, <1>5, <1>6, <1>7 DEF LinkSteps

-----------------------------------------------------------------------------
(* What a call has been answered. *)

Serving == Script(inv)[step]
\* How many of the requests made are still to be answered.
Waits == IF h_state = "wait" THEN Width(Serving) ELSE 0

\* A reply taken for request n is a success, of full length if that is checked;
\* or the refusal that was asked for.
Reads(n, r) ==
  /\ r.ok \in BOOLEAN
  /\ ~r.ok => requests[n].op = "tampered" /\ r.whole
  /\ r.ok => r.whole \/ Opcode(requests[n].op) \in {"load", "seal", "open"}

\* All that was taken is of that kind, for requests of this call.
AllReads(taken) == \A n \in DOMAIN taken : n \in Range(awaited) /\ Reads(n, taken[n])

\* A call that waits.
Waiting == h_state = "wait" => Awaits(Serving) /\ AllReads(matched)

\* What a call waits for is the end of the log.
LEMMA AwaitsRange ==
  ASSUME requests \in Seq(Request), NEW cmd \in AllCommands, Awaits(cmd)
  PROVE  /\ Width(cmd) \in 1..2 /\ Len(requests) \in Nat /\ awaited[1] \in Range(awaited)
         /\ \A n \in Range(awaited) :
              /\ n \in 1..Len(requests) /\ n + Width(cmd) > Len(requests)
              /\ requests[n].op = cmd /\ requests[n].proc = process
         /\ \A n \in 1..Len(requests) : n + Width(cmd) > Len(requests) => n \in Range(awaited)
<1>1. Width(cmd) \in 1..2 /\ Len(requests) \in Nat
  BY LenProperties DEF Width
<1>2. PICK w \in 1..2, m \in Nat : w = Width(cmd) /\ m = Len(requests)
  BY <1>1
<1>3. /\ DOMAIN awaited = 1..w /\ m >= w
      /\ \A k \in 1..w : /\ awaited[k] \in 1..m /\ awaited[k] + w = m + k
                         /\ requests[awaited[k]].op = cmd /\ requests[awaited[k]].proc = process
  BY <1>2 DEF Awaits
<1>4. ASSUME NEW n \in Range(awaited)
      PROVE  /\ n \in 1..m /\ n + w > m
             /\ requests[n].op = cmd /\ requests[n].proc = process
  <2>1. PICK k \in 1..w : n = awaited[k]
    BY <1>3, <1>4 DEF Range
  <2> QED BY <1>3, <2>1
<1>5. ASSUME NEW n \in 1..m, n + w > m PROVE n \in Range(awaited)
  <2>1. PICK k \in Nat : k = (n + w) - m
    BY <1>5
  <2>2. k \in 1..w
    BY <1>5, <2>1
  <2>3. awaited[k] = n
    BY <1>3, <2>1, <2>2
  <2> QED BY <1>3, <2>2, <2>3 DEF Range
<1>6. awaited[1] \in Range(awaited)
  <2>1. 1 \in DOMAIN awaited
    BY <1>3
  <2> QED BY <2>1 DEF Range
<1> QED BY <1>1, <1>2, <1>4, <1>5, <1>6

\* What a judged frame does to the command that waits.
Takes(n) ==
  /\ ~torn /\ readable /\ ById(n) /\ op_of(from) = op_of(awaited[1])
  /\ IF frame[1].ok THEN body_ok ELSE AuthFail(n) /\ whole
  /\ matched' = [m \in DOMAIN matched \cup {n} |->
                   IF m \in DOMAIN matched THEN matched[m] ELSE
                     [of |-> from, whole |-> whole, ok |-> frame[1].ok]]

\* It ends the call with an error, or a reply is taken for one of its requests.
LEMMA JudgeTakes ==
  ASSUME Judge
  PROVE  \/ matched' = matched /\ h_state' = "idle" /\ result'.outcome # "ok"
         \/ \E n \in 1..Len(requests) :
              /\ Takes(n)
              /\ \/ DOMAIN matched' = Range(awaited) /\ h_state' = "idle"
                 \/ h_state' = "wait"
<1>1. \/ matched' = matched
         /\ \E o \in {"FrameRejected", "ProtocolError", "OpcodeMismatch", "RequestIdMismatch",
                      "StatusError"} : Ended(o)
      \/ \E n \in 1..Len(requests) :
           Takes(n) /\ IF ReadsAll THEN Ended("ok") ELSE UNCHANGED <<h_state, result>>
  BY Zenon DEF Judge, Takes
<1>2. h_state = "wait"
  BY DEF Judge
<1>3. ASSUME NEW o, Ended(o) PROVE h_state' = "idle" /\ result'.outcome = o
  BY <1>3 DEF Ended
<1>4. CASE matched' = matched
           /\ \E o \in {"FrameRejected", "ProtocolError", "OpcodeMismatch", "RequestIdMismatch",
                        "StatusError"} : Ended(o)
  BY <1>3, <1>4
<1>5. CASE \E n \in 1..Len(requests) :
             Takes(n) /\ IF ReadsAll THEN Ended("ok") ELSE UNCHANGED <<h_state, result>>
  <2>1. PICK n \in 1..Len(requests) :
          Takes(n) /\ IF ReadsAll THEN Ended("ok") ELSE UNCHANGED <<h_state, result>>
    BY <1>5
  <2>2. \/ DOMAIN matched' = Range(awaited) /\ h_state' = "idle"
        \/ h_state' = "wait"
    BY <1>2, <1>3, <2>1 DEF ReadsAll
  <2> QED BY <2>1, <2>2
<1> QED BY <1>1, <1>4, <1>5

\* What is taken is what the checks let through.
LEMMA JudgeReads ==
  ASSUME LinkInv, NEW cmd \in AllCommands, Awaits(cmd), AllReads(matched), Judge
  PROVE  AllReads(matched')
<1>1. requests \in Seq(Request)
  BY DEF LinkInv, Numbered
<1>2. /\ awaited[1] \in Range(awaited)
      /\ \A n \in Range(awaited) : requests[n].op = cmd
  BY <1>1, AwaitsRange
<1>3. SUFFICES ASSUME NEW n \in 1..Len(requests), Takes(n) PROVE AllReads(matched')
  BY JudgeTakes
<1>4. n \in Range(awaited) /\ op_of(from) = Opcode(cmd) /\ requests[n].op = cmd
  <2>1. n \in Range(awaited)
    BY <1>3 DEF Takes, ById
  <2> QED BY <1>2, <1>3, <2>1 DEF Takes, op_of
<1>5. frame[1].ok \in BOOLEAN
  BY FrameIsCarried DEF Judge, Reply
<1> DEFINE r == [of |-> from, whole |-> whole, ok |-> frame[1].ok]
<1>6. Reads(n, r)
  <2>1. r.ok = frame[1].ok /\ r.whole = whole
    OBVIOUS
  <2> HIDE DEF r
  <2>2. frame[1].ok => whole \/ Opcode(cmd) \in {"load", "seal", "open"}
    BY <1>3, <1>4 DEF Takes, body_ok
  <2>3. ~frame[1].ok => requests[n].op = "tampered" /\ whole
    BY <1>3 DEF Takes, AuthFail
  <2> QED BY <1>4, <1>5, <2>1, <2>2, <2>3 DEF Reads
<1>7. matched' = [m \in DOMAIN matched \cup {n} |-> IF m \in DOMAIN matched THEN matched[m] ELSE r]
  BY <1>3 DEF Takes
<1> HIDE DEF r
<1>8. ASSUME NEW m \in DOMAIN matched' PROVE m \in Range(awaited) /\ Reads(m, matched'[m])
  <2>1. CASE m \in DOMAIN matched
    <3>1. matched'[m] = matched[m]
      BY <1>7, <2>1
    <3> QED BY <2>1, <3>1 DEF AllReads
  <2>2. CASE m \notin DOMAIN matched
    <3>1. m = n /\ matched'[m] = r
      BY <1>7, <2>2
    <3> QED BY <1>4, <1>6, <3>1
  <2> QED BY <2>1, <2>2
<1> QED BY <1>8 DEF AllReads

-----------------------------------------------------------------------------
(* What has been taken. *)

\* A process's requests but for the last w of the log.
AnsweredOf(proc, rs, w) == {n \in 1..Len(rs) : rs[n].proc = proc /\ n + w <= Len(rs)}

\* A reply was taken for each request answered, and all that were taken are sound.
Told ==
  code \in {"running", "0"} =>
    /\ {t.req : t \in took} = AnsweredOf(process, requests, Waits)
    /\ \A t \in took : t.by.of \in 1..Len(requests) /\ Sound(t)

\* Its requests are the last ones made.
Spans ==
  code = "running" =>
    \A n \in 1..Len(requests) :
      requests[n].proc = process => n + Waits + step > Len(requests) + 1

\* A bad invocation has sent nothing.
Refused == code = "2" => \A n \in 1..Len(requests) : requests[n].proc # process

\* All of it.
ConsoleInv ==
  /\ LinkKept /\ Stage /\ Told /\ Spans /\ Refused
  /\ code = "running" => Waiting

\* With nothing asked and nothing taken it goes on.
LEMMA StaysStep ==
  ASSUME ConsoleInv, UNCHANGED <<requests, process, cliVars>>, Waits' = Waits
  PROVE  Told' /\ Spans' /\ Refused'
<1>1. Told'
  BY DEF ConsoleInv, Told, Sound, Process, cliVars
<1>2. Spans'
  BY DEF ConsoleInv, Spans, cliVars
<1>3. Refused'
  BY DEF ConsoleInv, Refused, cliVars
<1> QED BY <1>1, <1>2, <1>3

\* A process that fails says so.
LEMMA FailedStep ==
  ASSUME code' \notin {"running", "0", "2"}, h_state' \notin {"draining", "wait"}, Loose'
  PROVE  ConsoleInv'
BY DEF ConsoleInv, LinkKept, Stage, Told, Spans, Refused

\* What was sound stays so when requests are made.
LEMMA SoundStays ==
  ASSUME NEW t, t.req \in 1..Len(requests), t.by.of \in 1..Len(requests), Sound(t),
         Longer(requests, requests'), UNCHANGED <<process, inv>>
  PROVE  Sound(t)'
<1>1. requests'[t.req] = requests[t.req] /\ requests'[t.by.of] = requests[t.by.of]
  BY DEF Longer
<1> QED BY <1>1 DEF Sound, Process

\* A call makes the requests it waits for.
LEMMA CallStep ==
  ASSUME ConsoleInv, Call
  PROVE  ConsoleInv'
<1>1. /\ code = "running" /\ Issue(Serving) /\ UNCHANGED cliVars /\ MayMake(Serving)
      /\ requests' = requests \o Made(Serving) /\ process' = process
      /\ h_state' = "wait" /\ matched' = <<>> /\ h_state = "idle"
  BY DEF Call, Calling, Issue, MayMake, Serving
<1>2. Serving \in Commands /\ Serving \in AllCommands /\ LinkInv
  BY <1>1, FaultsAssumption DEF MayMake, ConsoleInv, LinkKept
<1>3. UNCHANGED <<inv, step, took, code>> /\ Serving' = Serving
  BY <1>1 DEF cliVars, Serving
<1>4. LinkKept'
  <2>1. LinkInv'
    BY <1>1, <1>2, IssueStep
  <2> QED BY <2>1, LinkGives DEF LinkKept
<1>5. Stage'
  BY <1>1, <1>3 DEF ConsoleInv, Stage
<1>6. Waiting'
  <2>1. Awaits(Serving)'
    <3>1. PICK cmd : cmd = Serving
      OBVIOUS
    <3>2. Awaits(cmd)'
      BY <1>1, <1>2, <3>1, IssueAwaits
    <3> QED BY <1>3, <3>1, <3>2
  <2>2. DOMAIN <<>> = {}
    OBVIOUS
  <2> QED BY <1>1, <2>1, <2>2 DEF Waiting, AllReads
<1>0. PICK rs : rs = requests'
  OBVIOUS
<1>7. PICK m \in Nat, w \in 1..2 : m = Len(requests) /\ w = Width(Serving) /\ rs = requests'
  BY <1>0, <1>2, LenProperties DEF LinkInv, Numbered, Width
<1>8. /\ Len(rs) = m + w /\ Longer(requests, rs)
      /\ \A k \in 1..w : rs[m + k].proc = process
  BY <1>1, <1>2, <1>7, MadeFacts DEF LinkInv
<1>9. Waits = 0 /\ Waits' = w
  BY <1>1, <1>3, <1>7 DEF Waits
<1>10. \A n \in 1..m : rs[n] = requests[n]
  BY <1>7, <1>8 DEF Longer
<1>11. AnsweredOf(process, rs, w) = AnsweredOf(process, requests, 0)
  <2>1. ASSUME NEW n \in Nat
        PROVE  n \in 1..Len(rs) /\ n + w <= Len(rs) <=> n \in 1..Len(requests) /\ n + 0 <= Len(requests)
    BY <1>7, <1>8
  <2>2. \A n \in AnsweredOf(process, rs, w) : n \in AnsweredOf(process, requests, 0)
    BY <1>7, <1>10, <2>1 DEF AnsweredOf
  <2>3. \A n \in AnsweredOf(process, requests, 0) : n \in AnsweredOf(process, rs, w)
    BY <1>7, <1>10, <2>1 DEF AnsweredOf
  <2> QED BY <2>2, <2>3
<1>12. Told'
  <2>1. {t.req : t \in took} = AnsweredOf(process, requests, 0)
    BY <1>1, <1>9 DEF ConsoleInv, Told
  <2>2. ASSUME NEW t \in took PROVE (t.by.of \in 1..Len(requests))' /\ Sound(t)'
    <3>1. t.req \in 1..Len(requests)
      BY <2>1 DEF AnsweredOf
    <3>2. t.by.of \in 1..Len(requests) /\ Sound(t)
      BY <1>1 DEF ConsoleInv, Told
    <3>3. t.by.of \in 1..Len(rs)
      BY <1>7, <1>8, <3>2
    <3> QED BY <1>1, <1>3, <1>7, <1>8, <3>1, <3>2, <3>3, SoundStays
  <2>3. AnsweredOf(process, requests, Waits)' = AnsweredOf(process, rs, w)
    BY <1>1, <1>7, <1>9 DEF AnsweredOf
  <2>4. took' = took
    BY <1>3
  <2>5. {t.req : t \in took}' = AnsweredOf(process, requests, Waits)'
    BY <1>11, <2>1, <2>3, <2>4
  <2>6. (\A t \in took : t.by.of \in 1..Len(requests) /\ Sound(t))'
    BY <2>2, <2>4
  <2> QED BY <2>5, <2>6 DEF Told
<1>13. Spans'
  <2> SUFFICES ASSUME NEW n \in 1..Len(rs), rs[n].proc = process
               PROVE  n + w + step > Len(rs) + 1
    BY <1>1, <1>3, <1>7, <1>9 DEF Spans
  <2>0. step \in Nat /\ step >= 1
    <3>1. step \in 1..Len(Script(inv)) /\ inv \in Subcommands
      BY <1>1 DEF ConsoleInv, Stage
    <3> QED BY <3>1, Scripts
  <2>1. CASE n \in 1..m
    <3>1. n + 0 + step > m + 1
      BY <1>1, <1>7, <1>9, <1>10, <2>1 DEF ConsoleInv, Spans
    <3> QED BY <1>8, <2>0, <2>1, <3>1
  <2>2. CASE n \notin 1..m
    BY <1>8, <2>0, <2>2
  <2> QED BY <2>1, <2>2
<1>14. Refused'
  BY <1>1, <1>3 DEF Refused
<1> QED BY <1>4, <1>5, <1>6, <1>12, <1>13, <1>14 DEF ConsoleInv

\* An invocation that never reaches the wire.
LEMMA BeforeStep ==
  ASSUME ConsoleInv, BadInvocation \/ NoPort
  PROVE  ConsoleInv'
<1>1. /\ h_state = "closed" /\ UNCHANGED <<h_state, next_id>> /\ process' = process + 1
      /\ took' = {} /\ code' \in {"1", "2"}
      /\ UNCHANGED <<requests, matched, result, reader, rx_pending, line, device, half>>
  BY DEF BadInvocation, NoPort, MayInvoke, deviceVars
<1>2. Loose /\ process \in Nat /\ next_id \in 0..(Ids - 1)
  BY DEF ConsoleInv, LinkKept, Loose
<1>3. Loose'
  <2>1. process' \in Nat /\ process' >= process
    BY <1>1, <1>2
  <2> QED BY <1>1, <1>2, <2>1, NoneMadeKeeps
<1>4. ASSUME NEW n \in 1..Len(requests) PROVE requests[n].proc # process + 1
  <2>1. requests[n] \in Request /\ requests[n].proc <= process
    BY <1>2, ElementOfSeq DEF Loose
  <2> QED BY <1>2, <2>1 DEF Request
<1>5. Refused'
  BY <1>1, <1>4 DEF Refused
<1>6. LinkKept' /\ Stage' /\ Told' /\ Spans'
  BY <1>1, <1>3 DEF LinkKept, Stage, Told, Spans
<1> QED BY <1>1, <1>5, <1>6 DEF ConsoleInv

\* One that opens the port has made no request.
LEMMA InvokeStep ==
  ASSUME ConsoleInv, NEW i \in Invocations, Invoke(i)
  PROVE  ConsoleInv'
<1>1. /\ Open /\ h_state = "closed" /\ h_state' = "draining" /\ process' = process + 1
      /\ requests' = requests /\ inv' = i /\ step' = 1 /\ took' = {} /\ code' = "running"
  BY DEF Invoke, Open
<1>2. LinkInv /\ process \in Nat
  BY <1>1, LooseIs DEF ConsoleInv, LinkKept, Loose
<1>3. LinkInv'
  BY <1>1, <1>2, OpenStep
<1>4. Loose'
  BY <1>3, LinkGives
<1>5. i \in Subcommands
  BY InvocationsAssumption DEF Subcommands
<1>6. 1 \in 1..Len(Script(i))
  BY <1>5, Scripts
<1>7. ASSUME NEW n \in 1..Len(requests) PROVE requests[n].proc # process + 1
  <2>1. requests[n] \in Request /\ requests[n].proc <= process
    BY <1>2, ElementOfSeq DEF LinkInv, Numbered
  <2> QED BY <1>2, <2>1 DEF Request
<1>8. LinkKept' /\ Stage' /\ Refused'
  BY <1>1, <1>3, <1>4, <1>5, <1>6 DEF LinkKept, Stage, Refused
<1>9. Spans'
  BY <1>1, <1>7 DEF Spans
<1>10. Told'
  <2>1. AnsweredOf(process, requests, Waits)' = {}
    BY <1>1, <1>7 DEF AnsweredOf
  <2>2. {t.req : t \in took}' = {}
    BY <1>1
  <2> QED BY <1>1, <2>1, <2>2 DEF Told
<1>11. Waiting'
  BY <1>1 DEF Waiting
<1> QED BY <1>8, <1>9, <1>10, <1>11 DEF ConsoleInv

\* Whatever ends a process without success.
LEMMA EndsBadly ==
  ASSUME ConsoleInv,
         \/ Oversized \/ Unpackable \/ SerialFails \/ Killed
         \/ (Judge \/ Timeout) /\ h_state' # "wait" /\ Fails
  PROVE  ConsoleInv'
<1>1. code' \notin {"running", "0", "2"}
  BY DEF Oversized, Unpackable, SerialFails, Killed, Fails
<1>2. h_state' \notin {"draining", "wait"}
  <2>1. ASSUME NEW cmd, DieWriting(cmd) PROVE h_state' = "closed"
    BY <2>1 DEF DieWriting
  <2>2. ASSUME Judge PROVE h_state' = "idle" \/ h_state' = "wait"
    BY <2>2, JudgeTakes
  <2> QED BY <2>1, <2>2 DEF Oversized, TooLarge, MayMake, Unpackable, SerialFails, Killed,
                            DieWaiting, Timeout, Ended
<1>3. code = "running"
  BY DEF Oversized, Unpackable, SerialFails, Killed, Calling, DieWaiting, Judge, Timeout,
         ConsoleInv, Stage
<1>4. LinkInv /\ Loose
  BY <1>3 DEF ConsoleInv, LinkKept
<1>5. CASE Unpackable \/ SerialFails
  <2>1. /\ process' = process /\ (next_id' = NextId(1) \/ next_id' = next_id)
        /\ UNCHANGED <<requests, matched, result, reader, rx_pending, line, device, half>>
    BY <1>5 DEF Unpackable, SerialFails, deviceVars
  <2>2. process \in Nat /\ next_id \in 0..(Ids - 1)
    BY <1>4 DEF Loose
  <2>3. next_id' \in 0..(Ids - 1)
    BY <2>1, <2>2, NextIds
  <2>4. Loose'
    BY <1>4, <2>1, <2>2, <2>3, NoneMadeKeeps
  <2> QED BY <1>1, <1>2, <2>4, FailedStep
<1>6. CASE Oversized \/ Killed \/ Judge \/ Timeout
  <2>1. ASSUME NEW cmd, DieWriting(cmd) PROVE cmd \in Commands
    BY <2>1 DEF DieWriting, MayMake
  <2>2. LinkSteps
    BY <1>6, <2>1 DEF LinkSteps, Oversized, Killed
  <2>3. Loose'
    BY <1>4, <2>2, LinkStep, LinkGives
  <2> QED BY <1>1, <1>2, <2>3, FailedStep
<1> QED BY <1>5, <1>6

\* The port is given back.
LEMMA LeaveStep ==
  ASSUME ConsoleInv, Leave
  PROVE  ConsoleInv'
<1>1. /\ code # "running" /\ code' = code /\ h_state = "idle" /\ h_state' = "closed"
      /\ UNCHANGED <<requests, process, next_id, matched, result, reader, rx_pending, line,
                     device, half, cliVars>>
  BY DEF Leave, Close, cliVars, deviceVars
<1>2. Loose /\ process \in Nat /\ next_id \in 0..(Ids - 1)
  BY DEF ConsoleInv, LinkKept, Loose
<1>3. Loose'
  BY <1>1, <1>2, NoneMadeKeeps
<1>4. Told' /\ Spans' /\ Refused'
  <2>1. Waits' = Waits
    BY <1>1 DEF Waits
  <2> QED BY <1>1, <2>1, StaysStep
<1> QED BY <1>1, <1>3, <1>4 DEF ConsoleInv, LinkKept, Stage

\* The device goes on by itself, whoever is there to listen.
LEMMA AnswersStep ==
  ASSUME ConsoleInv, Device, UNCHANGED cliVars
  PROVE  ConsoleInv'
<1>1. UNCHANGED <<requests, h_state, process, next_id, awaited, matched, result, cliVars>>
  BY DEF Device, Answer
<1>2. UNCHANGED <<inv, step, took, code>>
  BY DEF cliVars
<1>3. Loose'
  <2>1. PICK n \in Nat : n = Len(requests)
    BY LenProperties DEF ConsoleInv, LinkKept, Loose
  <2>2. Carried(n)'
    BY <2>1, DeviceCarries DEF ConsoleInv, LinkKept, Loose
  <2>3. Carried(Len(requests))'
    BY <1>1, <2>1, <2>2 DEF Carried
  <2> QED BY <1>1, <2>3 DEF ConsoleInv, LinkKept, Loose
<1>4. code = "running" => LinkInv'
  BY DeviceStep DEF ConsoleInv, LinkKept
<1>5. Told' /\ Spans' /\ Refused'
  <2>1. Waits' = Waits
    BY <1>1, <1>2 DEF Waits, Serving
  <2> QED BY <1>1, <2>1, StaysStep
<1>6. Stage'
  BY <1>1, <1>2 DEF ConsoleInv, Stage
<1>7. code = "running" => Waiting'
  BY <1>1, <1>2 DEF ConsoleInv, Waiting, Awaits, AllReads, Reads, Serving
<1> QED BY <1>2, <1>3, <1>4, <1>5, <1>6, <1>7 DEF ConsoleInv, LinkKept

\* Nothing is asked of the link but to go on.
LEMMA GoesOnStep ==
  ASSUME ConsoleInv, UNCHANGED cliVars,
         \/ DrainRead \/ DrainEnds \/ Read \/ Feed
         \/ Judge /\ h_state' = "wait"
  PROVE  ConsoleInv'
<1>1. UNCHANGED <<inv, step, took, code>>
  BY DEF cliVars
<1>2. code = "running"
  BY DEF DrainRead, DrainEnds, Read, Feed, Judge, ConsoleInv, Stage
<1>3. LinkInv /\ Waiting
  BY <1>2 DEF ConsoleInv, LinkKept
<1>4. LinkInv'
  <2>1. LinkSteps
    BY DEF LinkSteps
  <2> QED BY <1>3, <2>1, LinkStep
<1>5. /\ UNCHANGED <<requests, process, awaited>>
      /\ h_state' = h_state \/ (h_state = "draining" /\ h_state' = "idle")
  BY DEF DrainRead, DrainEnds, Read, Feed, Judge, hostVars
<1>6. Told' /\ Spans' /\ Refused'
  <2>1. Waits' = Waits
    BY <1>1, <1>5 DEF Waits, Serving
  <2> QED BY <1>5, <2>1, StaysStep
<1>7. Stage'
  BY <1>1, <1>5 DEF ConsoleInv, Stage
<1>8. LinkKept'
  BY <1>4, LinkGives DEF LinkKept
<1>9. Waiting'
  <2>1. SUFFICES ASSUME h_state = "wait" PROVE Awaits(Serving)' /\ AllReads(matched)'
    BY <1>5 DEF Waiting
  <2>2. Awaits(Serving) /\ AllReads(matched)
    BY <1>3, <2>1 DEF Waiting
  <2>3. Awaits(Serving)'
    BY <1>1, <1>5, <2>2 DEF Awaits, Serving
  <2>4. AllReads(matched')
    <3>1. CASE matched' = matched
      BY <2>2, <3>1
    <3>2. CASE Judge
      <4>1. Serving \in AllCommands
        BY <1>2, Scripts DEF ConsoleInv, Stage, Serving
      <4> QED BY <1>3, <2>2, <3>2, <4>1, JudgeReads
    <3>3. CASE Read \/ Feed
      BY <3>1, <3>3 DEF Read, Feed
    <3>4. ~DrainRead /\ ~DrainEnds
      BY <2>1 DEF DrainRead, DrainEnds
    <3> QED BY <3>2, <3>3, <3>4
  <2>5. AllReads(matched)'
    BY <1>5, <2>4 DEF AllReads, Reads
  <2> QED BY <2>3, <2>5
<1> QED BY <1>6, <1>7, <1>8, <1>9 DEF ConsoleInv

\* A reply a call returns with is sound: of a process with few enough requests
\* only one has its id.
LEMMA NewIsSound ==
  ASSUME LinkInv, Len(RunSelftest) <= Ids, inv \in Subcommands, step \in 1..Len(Script(inv)),
         Spans, code = "running", Awaits(Serving), h_state = "wait",
         NEW n \in Range(awaited), NEW r, NEW t, t.req = n, t.by = r,
         Reads(n, r), r.of \in 1..Len(requests), requests[n].id = requests[r.of].id,
         inv = "selftest" => AsExpected(n, r)
  PROVE  Sound(t)
<1>1. /\ Serving \in AllCommands
      /\ inv = "selftest" => Serving \in {"load", "seal", "open", "tampered", "stats"}
      /\ inv # "selftest" => Serving # "tampered"
      /\ step \in Nat /\ step + Width(Serving) <= 8
  <2>1. Len(Script(inv)) = (IF inv = "selftest" THEN 7 ELSE 1)
    BY Scripts
  <2>2. step \in 1..7 /\ (inv # "selftest" => step = 1)
    BY <2>1
  <2>3. /\ Serving \in AllCommands
        /\ inv = "selftest" => Serving \in {"load", "seal", "open", "tampered", "stats"}
        /\ inv # "selftest" => Serving # "tampered"
    BY Scripts DEF Serving
  <2>4. inv = "selftest" => Width(Serving) = 1
    BY <2>3 DEF Width
  <2>5. Width(Serving) \in 1..2
    BY DEF Width
  <2> QED BY <2>2, <2>3, <2>4, <2>5
<1>2. 7 <= Ids
  <2>1. Len(RunSelftest) = 7
    BY DEF RunSelftest
  <2> QED BY <2>1
<1>3. Numbered /\ requests \in Seq(Request) /\ Len(requests) \in Nat
  BY LenProperties DEF LinkInv, Numbered
<1>4. /\ n \in 1..Len(requests) /\ n + Width(Serving) > Len(requests)
      /\ requests[n].op = Serving /\ requests[n].proc = process
  BY <1>1, <1>3, AwaitsRange
<1>5. ASSUME requests[r.of].proc = process PROVE r.of = n
  <2>1. PICK m \in 1..Len(requests), w \in 1..2 : m = r.of /\ w = Width(Serving)
    BY DEF Width
  <2>2. m + w + step > Len(requests) + 1
    BY <1>5, <2>1 DEF Spans, Waits
  <2>3. requests[m].proc = requests[n].proc /\ requests[m].id = requests[n].id
    BY <1>4, <1>5, <2>1
  <2>4. m < n => m + Ids <= n
    BY <1>3, <1>4, <2>3, IdsComeRound
  <2>5. n < m => n + Ids <= m
    BY <1>3, <1>4, <2>3, IdsComeRound
  <2>6. w + step <= 8 /\ n + w > Len(requests)
    BY <1>1, <1>4, <2>1
  <2>7. PICK len \in Nat, s \in Nat, ids \in Nat : len = Len(requests) /\ s = step /\ ids = Ids
    BY <1>1, <1>3, IdsAssumption
  <2>8. m \in 1..len /\ n \in 1..len /\ m < n + 7 /\ n < m + 7 /\ ids >= 7
    <3>1. m \in 1..len /\ n \in 1..len /\ n + w > len /\ ids >= 7
      BY <1>2, <1>4, <2>1, <2>6, <2>7
    <3>2. m + w + s > len + 1 /\ w + s <= 8
      BY <2>2, <2>6, <2>7
    <3>3. m + 8 > len + 1
      BY <3>1, <3>2
    <3> QED BY <3>1, <3>3
  <2>9. m = n
    BY <2>4, <2>5, <2>7, <2>8
  <2> QED BY <2>1, <2>9
<1>6. r.ok <=> Serving # "tampered"
  <2>1. ASSUME Serving = "tampered" PROVE ~r.ok
    <3>1. AsExpected(n, r)
      BY <1>1, <2>1
    <3> QED BY <1>4, <2>1, <3>1 DEF AsExpected
  <2>2. ASSUME Serving # "tampered" PROVE r.ok
    BY <1>4, <2>2 DEF Reads
  <2> QED BY <2>1, <2>2
<1>7. Serving \in {"stats", "bench", "bench_pair", "tampered"} => r.whole
  <2>1. ASSUME Serving \in {"stats", "bench", "bench_pair"} PROVE r.whole
    <3>1. Opcode(Serving) \notin {"load", "seal", "open"}
      BY <2>1 DEF Opcode
    <3>2. r.ok
      BY <1>6, <2>1
    <3> QED BY <1>4, <3>1, <3>2 DEF Reads
  <2>2. ASSUME Serving = "tampered" PROVE r.whole
    BY <1>4, <1>6, <2>2 DEF Reads
  <2> QED BY <2>1, <2>2
<1>8. inv = "selftest" /\ Serving # "load" => r.whole
  <2> SUFFICES ASSUME inv = "selftest", Serving # "load" PROVE r.whole
    OBVIOUS
  <2>1. CASE Serving \in {"seal", "open"}
    BY <1>4, <2>1 DEF AsExpected
  <2>2. CASE Serving \in {"stats", "tampered"}
    BY <1>7, <2>2
  <2> QED BY <1>1, <2>1, <2>2
<1> QED BY <1>4, <1>5, <1>6, <1>7, <1>8 DEF Sound, Process

\* A call that returns takes the replies to all it asked.
LEMMA ReturnStep ==
  ASSUME ConsoleInv, Len(RunSelftest) <= Ids, Judge, h_state' # "wait", ReturnOk,
         step' = step + 1, inv' = inv,
         took' = took \cup {[req |-> n, by |-> matched'[n]] : n \in DOMAIN matched'},
         code' = IF step = Len(Script(inv)) THEN "0" ELSE code
  PROVE  ConsoleInv'
<1>1. /\ h_state = "wait" /\ code = "running" /\ LinkInv /\ Waiting /\ inv \in Subcommands
      /\ step \in 1..Len(Script(inv)) /\ Spans /\ Told
      /\ UNCHANGED <<requests, process, awaited>>
  BY DEF Judge, ConsoleInv, Stage, LinkKept
<1>2. h_state' = "idle" /\ DOMAIN matched' = Range(awaited)
  <2>1. result'.outcome = "ok"
    BY DEF ReturnOk
  <2> QED BY <2>1, JudgeTakes
<1>3. LinkInv'
  BY <1>1, JudgeStep
<1>4. Serving \in AllCommands /\ Awaits(Serving) /\ AllReads(matched)
  BY <1>1, Scripts DEF Waiting, Serving
<1>5. AllReads(matched')
  BY <1>1, <1>4, JudgeReads
<1>6. PICK m \in Nat, w \in 1..2 : m = Len(requests) /\ w = Width(Serving)
  BY <1>1, LenProperties DEF LinkInv, Numbered, Width
<1>7. /\ \A n \in Range(awaited) : n \in 1..m /\ n + w > m /\ requests[n].proc = process
      /\ \A n \in 1..m : n + w > m => n \in Range(awaited)
  BY <1>1, <1>4, <1>6, AwaitsRange DEF LinkInv, Numbered
<1>8. Waits = w /\ Waits' = 0
  BY <1>1, <1>2, <1>6 DEF Waits
<1> DEFINE new == {[req |-> n, by |-> matched'[n]] : n \in Range(awaited)}
<1>9. took' = took \cup new
  BY <1>2
<1>10. \A t \in took : t.by.of \in 1..m /\ Sound(t)
  BY <1>1, <1>6 DEF Told
<1>11. {t.req : t \in took} = AnsweredOf(process, requests, w)
  BY <1>1, <1>8 DEF Told
<1>12. \A t \in new : t.by.of \in 1..m /\ Sound(t) /\ t.req \in Range(awaited)
  <2> SUFFICES ASSUME NEW n \in Range(awaited), NEW t, t = [req |-> n, by |-> matched'[n]]
               PROVE  t.by.of \in 1..m /\ Sound(t) /\ t.req \in Range(awaited)
    OBVIOUS
  <2>1. PICK r : r = matched'[n]
    OBVIOUS
  <2>2. t.req = n /\ t.by = r
    BY <2>1
  <2>3. Reads(n, r)
    BY <1>2, <1>5, <2>1 DEF AllReads
  <2>4. r.of \in 1..Len(requests) /\ requests[n].id = requests[r.of].id
    BY <1>1, <1>2, <1>3, <2>1 DEF LinkInv, SameIds
  <2>5. inv = "selftest" => AsExpected(n, r)
    BY <1>2, <2>1 DEF ReturnOk, Passes
  <2>6. Sound(t)
    BY <1>1, <1>4, <2>2, <2>3, <2>4, <2>5, NewIsSound
  <2> QED BY <1>6, <2>2, <2>4, <2>6
<1>13. {t.req : t \in new} = Range(awaited)
  <2>1. \A n \in Range(awaited) : \E t \in new : t.req = n
    <3> TAKE n \in Range(awaited)
    <3>1. [req |-> n, by |-> matched'[n]] \in new
      OBVIOUS
    <3> QED BY <3>1
  <2> HIDE DEF new
  <2> QED BY <1>12, <2>1
<1> HIDE DEF new
<1>14. AnsweredOf(process, requests, 0) = AnsweredOf(process, requests, w) \cup Range(awaited)
  <2>1. \A n \in AnsweredOf(process, requests, 0) :
          n \in AnsweredOf(process, requests, w) \cup Range(awaited)
    BY <1>6, <1>7 DEF AnsweredOf
  <2>2. \A n \in AnsweredOf(process, requests, w) \cup Range(awaited) :
          n \in AnsweredOf(process, requests, 0)
    BY <1>6, <1>7 DEF AnsweredOf
  <2> QED BY <2>1, <2>2
<1>15. {t.req : t \in took \cup new} = {t.req : t \in took} \cup {t.req : t \in new}
  OBVIOUS
<1>16. Told'
  <2>1. {t.req : t \in took}' = AnsweredOf(process, requests, Waits)'
    <3>1. {t.req : t \in took'} = AnsweredOf(process, requests, 0)
      BY <1>9, <1>11, <1>13, <1>14, <1>15
    <3> QED BY <1>1, <1>8, <3>1 DEF AnsweredOf
  <2>2. \A t \in took' : t.by.of \in 1..m /\ Sound(t)
    BY <1>9, <1>10, <1>12
  <2>3. \A t : Sound(t)' <=> Sound(t)
    BY <1>1 DEF Sound, Process
  <2>4. (\A t \in took : t.by.of \in 1..Len(requests) /\ Sound(t))'
    BY <1>1, <1>6, <2>2, <2>3
  <2> QED BY <2>1, <2>4 DEF Told
<1>17. code' = "running" => inv = "selftest" /\ w = 1 /\ step + 1 \in 1..Len(Script(inv))
  <2> SUFFICES ASSUME code' = "running"
               PROVE  inv = "selftest" /\ w = 1 /\ step + 1 \in 1..Len(Script(inv))
    OBVIOUS
  <2>1. step # Len(Script(inv))
    OBVIOUS
  <2>2. Len(Script(inv)) = (IF inv = "selftest" THEN 7 ELSE 1)
    BY <1>1, Scripts
  <2>3. inv = "selftest" /\ step + 1 \in 1..Len(Script(inv))
    BY <1>1, <2>1, <2>2
  <2>4. Serving # "bench_pair"
    BY <1>1, <2>3, Scripts DEF Serving
  <2> QED BY <1>6, <2>3, <2>4 DEF Width
<1>18. Spans'
  <2> SUFFICES ASSUME code' = "running", NEW n \in 1..m, requests[n].proc = process
               PROVE  n + 0 + (step + 1) > m + 1
    BY <1>1, <1>6, <1>8 DEF Spans
  <2>1. n + w + step > m + 1
    BY <1>1, <1>6, <1>8 DEF Spans
  <2>2. step \in Nat
    BY <1>1, Scripts
  <2> QED BY <1>17, <2>1, <2>2
<1>19. Stage' /\ Refused' /\ Waiting'
  <2>1. code' \in {"0", "running"}
    BY <1>1
  <2>2. code' = "running" => step' \in 1..Len(Script(inv'))
    BY <1>17
  <2> QED BY <1>1, <1>2, <2>1, <2>2 DEF Stage, Refused, Waiting
<1>20. LinkKept'
  BY <1>3, LinkGives DEF LinkKept
<1> QED BY <1>16, <1>18, <1>19, <1>20 DEF ConsoleInv

-----------------------------------------------------------------------------
(* The exit code.                                                          *)

\* It holds at the start: nothing was ever invoked.
LEMMA ConsoleStarts == ConsoleInit => ConsoleInv
<1> SUFFICES ASSUME ConsoleInit PROVE ConsoleInv
  OBVIOUS
<1>1. LinkInv /\ requests = <<>> /\ h_state = "closed" /\ code = "0" /\ took = {} /\ step = 1
  BY LinkStarts DEF ConsoleInit, Init
<1>2. Loose
  BY <1>1, LooseIs
<1>3. Len(requests) = 0
  BY <1>1
<1>4. AnsweredOf(process, requests, Waits) = {}
  BY <1>3 DEF AnsweredOf
<1>5. Told
  BY <1>1, <1>4 DEF Told
<1>6. LinkKept /\ Stage /\ Spans /\ Refused
  BY <1>1, <1>2 DEF LinkKept, Stage, Spans, Refused
<1> QED BY <1>1, <1>5, <1>6 DEF ConsoleInv

\* Nothing happens.
LEMMA ConsoleStutters ==
  ASSUME ConsoleInv, UNCHANGED consoleVars
  PROVE  ConsoleInv'
<1>1. /\ UNCHANGED <<inv, step, took, code>>
      /\ UNCHANGED <<requests, h_state, process, next_id, awaited, matched, result, reader,
                     rx_pending, line, device, half>>
  BY DEF consoleVars, cliVars, vars, hostVars, deviceVars
<1>2. Loose'
  <2>1. process \in Nat /\ next_id \in 0..(Ids - 1) /\ Loose
    BY DEF ConsoleInv, LinkKept, Loose
  <2> QED BY <1>1, <2>1, NoneMadeKeeps
<1>3. LinkKept'
  <2>1. (code = "running" => Following(requests, process, next_id))'
    BY <1>1, LooseIs DEF ConsoleInv, LinkKept, Stage, Following
  <2>2. code' = "running" => Numbered'
    BY <1>1 DEF ConsoleInv, LinkKept, LinkInv, Numbered
  <2> QED BY <1>1, <1>2, <2>2 DEF LinkKept, Loose, LinkInv
<1>4. Told' /\ Spans' /\ Refused'
  <2>1. Waits' = Waits
    BY <1>1 DEF Waits, Serving
  <2> QED BY <1>1, <2>1, StaysStep DEF cliVars
<1>5. Stage'
  BY <1>1 DEF ConsoleInv, Stage
<1>6. code = "running" => Waiting'
  BY <1>1 DEF ConsoleInv, Waiting, Awaits, AllReads, Reads, Serving
<1> QED BY <1>1, <1>3, <1>4, <1>5, <1>6 DEF ConsoleInv

\* The steps of the command line, one by one.
LEMMA ConsoleStep ==
  ASSUME Len(RunSelftest) <= Ids, ConsoleInv, ConsoleNext
  PROVE  ConsoleInv'
<1>1. CASE BadInvocation \/ NoPort
  BY <1>1, BeforeStep
<1>2. CASE \E i \in Invocations : Invoke(i)
  BY <1>2, InvokeStep
<1>3. CASE Call
  BY <1>3, CallStep
<1>4. CASE Oversized \/ Unpackable \/ SerialFails \/ Killed
  BY <1>4, EndsBadly
<1>5. CASE Leave
  BY <1>5, LeaveStep
<1>6. CASE (DrainRead \/ DrainEnds \/ Read \/ Feed) /\ UNCHANGED cliVars
  BY <1>6, GoesOnStep
<1>7. ASSUME NEW bads, bads \subseteq {"no", "lost", "torn", "short", "cut"}, Answers(bads)
      PROVE  ConsoleInv'
  <2>1. Device /\ UNCHANGED cliVars
    BY <1>7 DEF Answers, Device
  <2> QED BY <2>1, AnswersStep
<1>8. CASE Answers({"no"}) \/ Damages
  BY <1>7, <1>8 DEF Damages
<1>9. CASE Return
  <2>1. CASE h_state' = "wait"
    <3>1. ~Timeout
      BY <2>1 DEF Timeout, Ended
    <3>2. Judge /\ UNCHANGED cliVars
      BY <1>9, <2>1, <3>1 DEF Return
    <3> QED BY <2>1, <3>2, GoesOnStep
  <2>2. CASE h_state' # "wait" /\ ReturnOk
    <3>1. ~Timeout
      BY <2>2 DEF Timeout, Ended, ReturnOk
    <3>2. /\ step' = step + 1 /\ UNCHANGED inv
          /\ took' = took \cup {[req |-> n, by |-> matched'[n]] : n \in DOMAIN matched'}
          /\ code' = IF step = Len(Script(inv)) THEN "0" ELSE code
      BY <1>9, <2>2 DEF Return
    <3>3. Judge
      BY <1>9, <3>1 DEF Return
    <3> QED BY <2>2, <3>2, <3>3, ReturnStep
  <2>3. CASE h_state' # "wait" /\ ~ReturnOk
    <3>1. Fails /\ (Judge \/ Timeout)
      BY <1>9, <2>3 DEF Return
    <3> QED BY <2>3, <3>1, EndsBadly
  <2> QED BY <2>1, <2>2, <2>3
<1> QED BY <1>1, <1>2, <1>3, <1>4, <1>5, <1>6, <1>8, <1>9, Zenon DEF ConsoleNext, Host

\* ExitIsTheContract: with ids enough for the longest script, exit 0 means that
\* every call was answered, each by the reply to its own request or by one an
\* earlier process left behind, and exit 2 that nothing was sent.
THEOREM CommandLineContract ==
  Len(RunSelftest) <= Ids => (ConsoleSpec => []ExitIsTheContract)
<1> SUFFICES ASSUME Len(RunSelftest) <= Ids PROVE ConsoleSpec => []ExitIsTheContract
  OBVIOUS
<1>1. ConsoleInv /\ [ConsoleNext]_consoleVars => ConsoleInv'
  BY ConsoleStep, ConsoleStutters
<1>2. ConsoleInv => ExitIsTheContract
  <2> SUFFICES ASSUME ConsoleInv PROVE ExitIsTheContract
    OBVIOUS
  <2>1. DOMAIN requests = 1..Len(requests) /\ Len(requests) \in Nat
    BY LenProperties DEF ConsoleInv, LinkKept, Loose
  <2>2. ASSUME code = "0" PROVE {t.req : t \in took} = Own /\ \A t \in took : Sound(t)
    <3>1. Waits = 0
      BY <2>2 DEF ConsoleInv, Stage, Waits
    <3>2. AnsweredOf(process, requests, 0) = Own
      BY <2>1 DEF AnsweredOf, Own, Process
    <3> QED BY <2>2, <3>1, <3>2 DEF ConsoleInv, Told
  <2>3. ASSUME code = "2" PROVE Own = {}
    BY <2>1, <2>3 DEF ConsoleInv, Refused, Own, Process
  <2> QED BY <2>2, <2>3 DEF ExitIsTheContract
<1> QED BY <1>1, <1>2, ConsoleStarts, PTL DEF ConsoleSpec
=============================================================================
