------------------------------- MODULE OcaLink -------------------------------
(***************************************************************************)
(* The host's end of the serial line: OcaLink (link.py) over RawSerial     *)
(* (transport.py) and SlipReader (slip_stream.py), processes opening and   *)
(* leaving the port one after the other, and the device at the far end.    *)
(*                                                                         *)
(* A request is its number in `requests`. A reply travels as two chunks,   *)
(* the head with its header and the tail with its END, so that a deadline, *)
(* a death or a fault of the line may fall between them. How long anything *)
(* takes is left to chance: a deadline may pass while its reply is late.   *)
(***************************************************************************)
EXTENDS Naturals, Sequences, FiniteSetsExt, SequencesExt

CONSTANTS
  Ids,           \* request ids are 0..Ids-1, 65536 of them in the code
  Commands,      \* the methods called, a subset of AllCommands
  Reordering,    \* the device answers in completion order (two engines)
  Faults,        \* subset of {"lost", "torn", "short", "cut", "stray", "death"}
  MaxRequests,   \* bound: requests a behaviour may contain
  MaxProcesses   \* bound: times the port is opened

\* "tampered" is open with allow_auth_fail.
AllCommands == {"load", "seal", "open", "tampered", "stats", "bench", "bench_pair"}

ASSUME IdsAssumption == Ids \in Nat /\ Ids >= 2
ASSUME BoundsAssumption == MaxRequests \in Nat /\ MaxProcesses \in Nat
ASSUME FaultsAssumption ==
  /\ Faults \subseteq {"lost", "torn", "short", "cut", "stray", "death"}
  /\ Commands \subseteq AllCommands /\ Reordering \in BOOLEAN

VARIABLES
  requests,      \* every request made: its process, id and opcode
  h_state, process, next_id,
  awaited,       \* requests of the command under way
  matched,       \* replies taken for them so far: awaited request -> reply
  sync,          \* the command found nothing left over, and met no fault
  reader,        \* chunks the SlipReader holds of an unfinished frame
  rx_pending,    \* chunks read and not yet fed to it
  line,          \* chunks on their way to the host, arrived or not
  device,        \* requests the device has, each whole or two run together
  half,          \* a request whose writer died before its END, or 0
  result         \* how the last command ended

hostVars == <<h_state, process, next_id, awaited, matched, sync, reader, rx_pending, result>>
deviceVars == <<device, half>>
vars == <<requests, hostVars, line, deviceVars>>

Chunk(m, part, ok, bad) == [of |-> m, part |-> part, ok |-> ok, bad |-> bad]
NoResult == [cmd |-> <<>>, by |-> <<>>, outcome |-> "ok", sync |-> FALSE]
Stray == Chunk(0, "stray", FALSE, "no")

\* Nothing of an earlier command is anywhere.
Quiet == device = <<>> /\ half = 0 /\ line \o rx_pending = <<>>

Init ==
  /\ requests = <<>> /\ h_state = "closed" /\ process = 0 /\ next_id = 0
  /\ awaited = <<>> /\ matched = <<>> /\ sync = FALSE /\ reader = <<>>
  /\ rx_pending = <<>>
  /\ line \in {<<>>} \cup (IF "stray" \in Faults THEN {<<Stray>>} ELSE {})
  /\ device = <<>> /\ half = 0 /\ result = NoResult

-----------------------------------------------------------------------------
(* Opening the port: read and discard until the line is quiet. *)

Open ==
  /\ h_state = "closed" /\ process < MaxProcesses
  /\ process' = process + 1 /\ h_state' = "draining"
  /\ next_id' \in 0..(Ids - 1)
  /\ rx_pending' = <<>> /\ reader' = <<>> /\ awaited' = <<>> /\ matched' = <<>>
  /\ sync' = FALSE /\ result' = NoResult
  /\ UNCHANGED <<requests, line, deviceVars>>

\* What has arrived is a front part of what is on the line.
Taking(k) == line' = SubSeq(line, k + 1, Len(line))

DrainRead ==
  /\ h_state = "draining"
  /\ \E k \in 1..Len(line) : Taking(k)
  /\ UNCHANGED <<requests, hostVars, deviceVars>>

\* Nothing came for DRAIN_WINDOW, or DRAIN_LIMIT has passed.
DrainEnds ==
  /\ h_state = "draining" /\ h_state' = "idle"
  /\ UNCHANGED <<requests, process, next_id, awaited, matched, sync, reader,
                 rx_pending, result, line, deviceVars>>

Close ==
  /\ h_state = "idle" /\ h_state' = "closed"
  /\ UNCHANGED <<requests, process, next_id, awaited, matched, sync, reader,
                 rx_pending, result, line, deviceVars>>

-----------------------------------------------------------------------------
(* Sending. *)

NextId(k) == (next_id + k) % Ids

Opcode(cmd) ==
  CASE cmd = "bench_pair" -> "bench" [] cmd = "tampered" -> "open" [] OTHER -> cmd
Width(cmd) == IF cmd = "bench_pair" THEN 2 ELSE 1
Made(cmd) ==
  [k \in 1..Width(cmd) |-> [proc |-> process, id |-> NextId(k - 1), op |-> cmd]]

\* What the device's decoder makes of a whole request: one that follows half
\* of another carries on that one's frame, header and all. Such a frame is
\* refused, dropped when badly escaped, or valid if its length happens to fit.
Decoded(n) == IF half # 0 THEN [req |-> half, whole |-> FALSE]
              ELSE [req |-> n, whole |-> TRUE]

MayMake(cmd) ==
  /\ h_state = "idle" /\ cmd \in Commands
  /\ Len(requests) + Width(cmd) <= MaxRequests

\* The write is one step. RawSerial.write goes on until the kernel has every
\* byte and has no deadline: what is said of a waiting command begins after it.
Issue(cmd) ==
  LET n == Len(requests) + 1
  IN  /\ MayMake(cmd)
      /\ requests' = requests \o Made(cmd)
      /\ next_id' = NextId(Width(cmd))
      /\ awaited' = [k \in 1..Width(cmd) |-> n + k - 1] /\ matched' = <<>>
      /\ device' = device \o <<Decoded(n)>>
                   \o (IF Width(cmd) = 2 THEN <<[req |-> n + 1, whole |-> TRUE]>> ELSE <<>>)
      /\ half' = 0 /\ sync' = Quiet /\ reader' = <<>>
      /\ h_state' = "wait"
      /\ UNCHANGED <<process, rx_pending, result, line>>

\* A frame over the board's buffer is refused unsent; its id is spent.
TooLarge ==
  /\ MayMake("seal")
  /\ requests' = requests \o Made("seal") /\ next_id' = NextId(1)
  /\ result' = [NoResult EXCEPT !.outcome = "FrameTooLarge"]
  /\ UNCHANGED <<h_state, process, awaited, matched, sync, reader, rx_pending,
                 line, deviceVars>>

\* The process dies in the middle of a write.
DieWriting(cmd) ==
  /\ "death" \in Faults /\ MayMake(cmd) /\ Width(cmd) = 1
  /\ requests' = requests \o Made(cmd)
  /\ half' = IF half # 0 THEN half ELSE Len(requests) + 1
  /\ h_state' = "closed"
  /\ UNCHANGED <<process, next_id, awaited, matched, sync, reader, rx_pending,
                 result, line, device>>

DieWaiting ==
  /\ "death" \in Faults /\ h_state = "wait" /\ h_state' = "closed"
  /\ UNCHANGED <<requests, process, next_id, awaited, matched, sync, reader,
                 rx_pending, result, line, deviceVars>>

-----------------------------------------------------------------------------
(* The device and the line. *)

\* A request is answered, in order unless there are two engines; or it or its
\* answer is lost, the answer damaged, or its END missing.
Answer(i, ok, bad) ==
  LET r == device[i]
  IN  /\ ok => bad \in {"no", "short", "cut"}
      /\ bad = "no" \/ bad \in Faults \/ (bad = "lost" /\ ~r.whole)
      /\ line' = line \o
           (CASE bad = "lost" -> <<>>
              [] bad = "cut" -> <<Chunk(r.req, "head", ok, "no")>>
              [] OTHER -> <<Chunk(r.req, "head", ok, bad), Chunk(r.req, "tail", ok, bad)>>)
      /\ device' = RemoveAt(device, i)
      /\ sync' = (sync /\ bad = "no")
      /\ UNCHANGED <<requests, h_state, process, next_id, awaited, matched, reader,
                     rx_pending, result, half>>

Device ==
  \E i \in 1..Len(device), ok \in BOOLEAN, bad \in {"no", "lost", "torn", "short", "cut"} :
    (i = 1 \/ Reordering) /\ Answer(i, ok, bad)

-----------------------------------------------------------------------------
(* Receiving. *)

Read ==
  /\ h_state = "wait" /\ rx_pending = <<>>
  /\ \E k \in 1..Len(line) : Taking(k) /\ rx_pending' = SubSeq(line, 1, k)
  /\ UNCHANGED <<requests, h_state, process, next_id, awaited, matched, sync, reader,
                 result, deviceVars>>

Ended(outcome) ==
  /\ h_state' = "idle"
  /\ result' = [cmd |-> awaited, by |-> matched', outcome |-> outcome, sync |-> sync]

\* The deadline is looked at when everything read has been fed; the part of a
\* frame fed by then is lost with its reader.
DeadlineSilent == reader = <<>>              \* seeded fault: a byte stops the clock
DeadlineAny == TRUE
Timeout ==
  /\ h_state = "wait" /\ rx_pending = <<>> /\ DeadlineAny
  /\ reader' = <<>> /\ UNCHANGED matched /\ Ended("SerialTimeout")
  /\ UNCHANGED <<requests, process, next_id, awaited, sync, rx_pending, line,
                 deviceVars>>

\* A chunk without END is held; so is nothing, when an END stands alone.
Feed ==
  /\ h_state = "wait" /\ rx_pending # <<>>
  /\ LET c == Head(rx_pending)
     IN  \/ c.part # "tail" /\ reader' = Append(reader, c)
         \/ c.part = "tail" /\ reader = <<>> /\ UNCHANGED reader
  /\ rx_pending' = Tail(rx_pending)
  /\ UNCHANGED <<requests, h_state, process, next_id, awaited, matched, sync, result,
                 line, deviceVars>>

frame == Append(reader, Head(rx_pending))
torn == \E k \in DOMAIN frame : frame[k].bad = "torn"
readable == frame[1].part = "head"
whole == readable /\ Len(frame) = 2 /\ frame[1].bad = "no"
from == frame[1].of
op_of(n) == Opcode(requests[n].op)
id_of(n) == requests[n].id

\* The outstanding request a reply is taken for.
AnyId(n) == n \in Range(awaited) \ DOMAIN matched             \* seeded fault
ByArrival(n) == n = awaited[Cardinality(DOMAIN matched) + 1]  \* seeded fault
ByOrder(n) == ByArrival(n) /\ id_of(n) = id_of(from)         \* seeded fault
ById(n) == n \in Range(awaited) \ DOMAIN matched /\ id_of(n) = id_of(from)

\* stats and bench want a body of 16 bytes, a seal one of 16 at least; of the
\* other replies no length is checked. A seal that lost bytes may pass or not.
body_ok == whole \/ op_of(from) \in {"load", "seal", "open"}
body_bad ==
  /\ ~whole
  /\ op_of(from) \in {"stats", "bench"} \/ (op_of(from) = "seal" /\ frame[1].bad = "short")

\* A reply is taken for request n if it is OK; or, where that is what was asked
\* for, if it says AUTH_FAIL and nothing more.
AuthFail(n) == requests[n].op = "tampered" /\ ~frame[1].ok

ReadsAll == DOMAIN matched' = Range(awaited)

AfterFrameKeepsEnd == rx_pending             \* seeded fault: off by one
AfterFrame == Tail(rx_pending)

\* The checks of _recv_response and its callers, in their order.
Judge ==
  /\ h_state = "wait" /\ rx_pending # <<>> /\ Head(rx_pending).part = "tail"
  /\ rx_pending' = AfterFrame /\ reader' = <<>>
  /\ \/ torn /\ UNCHANGED matched /\ Ended("FrameRejected")
     \/ ~torn /\ ~readable /\ UNCHANGED matched /\ Ended("ProtocolError")
     \/ /\ ~torn /\ readable
        /\ \/ /\ op_of(from) # op_of(awaited[1])
              /\ UNCHANGED matched /\ Ended("OpcodeMismatch")
           \/ /\ op_of(from) = op_of(awaited[1])
              /\ ~\E n \in 1..Len(requests) : ById(n)
              /\ UNCHANGED matched /\ Ended("RequestIdMismatch")
           \/ \E n \in 1..Len(requests) :
                /\ op_of(from) = op_of(awaited[1]) /\ ById(n)
                /\ \/ ~frame[1].ok /\ UNCHANGED matched /\ Ended("StatusError")
                   \/ /\ IF frame[1].ok THEN body_bad ELSE AuthFail(n) /\ ~whole
                      /\ UNCHANGED matched /\ Ended("ProtocolError")
                   \/ /\ IF frame[1].ok THEN body_ok ELSE AuthFail(n) /\ whole
                      /\ matched' = [m \in DOMAIN matched \cup {n} |->
                                       IF m \in DOMAIN matched THEN matched[m] ELSE
                                         [of |-> from, whole |-> whole, ok |-> frame[1].ok]]
                      /\ IF ReadsAll THEN Ended("ok") ELSE UNCHANGED <<h_state, result>>
  /\ UNCHANGED <<requests, process, next_id, awaited, sync, line, deviceVars>>

-----------------------------------------------------------------------------
Next ==
  \/ Open \/ DrainRead \/ DrainEnds \/ Close
  \/ \E cmd \in Commands : Issue(cmd) \/ DieWriting(cmd)
  \/ TooLarge \/ DieWaiting \/ Device \/ Read \/ Feed \/ Judge \/ Timeout

Spec == Init /\ [][Next]_vars

\* The host's own loop runs, and its clock.
Fairness == WF_vars(Feed \/ Judge) /\ WF_vars(Timeout)
FairSpec == Spec /\ Fairness

-----------------------------------------------------------------------------
Process(n) == requests[n].proc
Taken == {<<n, result.by[n]>> : n \in DOMAIN result.by}

\* What a command returns came in the reply to its own request, unless that
\* reply is one that an earlier process left behind.
OwnReply ==
  result.outcome = "ok" =>
    \A t \in Taken : Process(t[2].of) = Process(t[1]) => t[1] = t[2].of

\* A command that found nothing left over and met no fault of the line ends
\* with its answer, with the device's refusal, or at its deadline.
ErrorsHaveCause ==
  result.sync => result.outcome \in {"ok", "StatusError", "SerialTimeout"}

\* Such a command, unless it gives up waiting, leaves nothing behind that the
\* next would take for its own reply.
NothingLeftUnread ==
  [][h_state = "wait" /\ h_state' = "idle" /\ sync /\ result'.outcome # "SerialTimeout"
     => Quiet']_vars

\* Every command whose request has been written ends: by its reply, by an
\* error, by the deadline or with the process.
CommandEnds == h_state = "wait" ~> h_state # "wait"

\* A command that returns took a reply of the length its opcode promises,
\* neither short nor run together with another.
WholeReply == result.outcome = "ok" => \A t \in Taken : t[2].whole
=============================================================================
