----------------------------- MODULE OcaConsole -----------------------------
(***************************************************************************)
(* The host's command line (cli.py) and its self-test (selftest.py): each  *)
(* process of OcaLink is one invocation, which parses its arguments, opens *)
(* the port, calls the link once, or seven times for a self-test, closes   *)
(* the port and exits. "The exit code is the contract: 0 only on a clean   *)
(* success, 1 on any link or protocol failure, 2 on a bad invocation".     *)
(*                                                                         *)
(* --fake is the same with a board in the process and no line to fail. The *)
(* values an invocation gives are left out but for one question, whether   *)
(* they fit the fields of the request.                                     *)
(***************************************************************************)
EXTENDS OcaLink

CONSTANTS
  Invocations,   \* subset of {"load-key", "seal", "open", "stats", "bench",
                 \*            "bench-pair", "selftest"}
  Seeds,         \* bound: first ids of a process; only differences are looked at
  MaxFaults      \* bound: replies lost or damaged, processes killed, adapters lost

ASSUME InvocationsAssumption ==
  Invocations \subseteq {"load-key", "seal", "open", "stats", "bench", "bench-pair", "selftest"}

VARIABLES
  inv,     \* the subcommand of the process
  step,    \* the call of its script it is at
  took,    \* history: the replies it took
  code,    \* "running", its exit code, or "killed"
  faults   \* so far

cliVars == <<inv, step, took, code>>
consoleVars == <<vars, cliVars, faults>>

ConsoleInit == Init /\ inv = "stats" /\ step = 1 /\ took = {} /\ code = "0" /\ faults = 0

-----------------------------------------------------------------------------
(* Before anything touches the wire. *)

\* The key of 2.8.2, its seal, that opened, that with a bit of its tag turned;
\* the key of A.5 and its open; the counters.
RunSelftest == <<"load", "seal", "open", "tampered", "load", "open", "stats">>
Script(i) ==
  CASE i = "selftest" -> RunSelftest [] i = "load-key" -> <<"load">>
    [] i = "bench-pair" -> <<"bench_pair">> [] OTHER -> <<i>>

MayInvoke == h_state = "closed" /\ code # "running" /\ process < MaxProcesses

\* argparse says no.
BadInvocation ==
  /\ MayInvoke /\ process' = process + 1 /\ took' = {} /\ code' = "2"
  /\ UNCHANGED <<requests, h_state, next_id, awaited, matched, sync, reader, rx_pending,
                 result, line, deviceVars, inv, step>>

\* The port cannot be opened.
NoPort ==
  /\ MayInvoke /\ process' = process + 1 /\ took' = {} /\ code' = "1"
  /\ UNCHANGED <<requests, h_state, next_id, awaited, matched, sync, reader, rx_pending,
                 result, line, deviceVars, inv, step>>

Invoke(i) ==
  /\ MayInvoke /\ Open
  /\ next_id' \in IF process = 0 THEN {0} ELSE Seeds
  /\ inv' = i /\ step' = 1 /\ took' = {} /\ code' = "running"

-----------------------------------------------------------------------------
(* The calls. *)

Calling == code = "running" /\ step <= Len(Script(inv))
Call == Calling /\ Issue(Script(inv)[step]) /\ UNCHANGED cliVars

Fails == code' = "1" /\ UNCHANGED <<inv, step, took>>

\* The frame is larger than the board's buffer.
Oversized == Calling /\ Script(inv)[step] = "seal" /\ inv # "selftest" /\ TooLarge /\ Fails

\* A slot over 255 or a length over 65535 passes argparse and does not fit its
\* field: an exception nothing catches, after the request's id was spent.
Unpackable ==
  /\ Calling /\ h_state = "idle" /\ inv \notin {"stats", "selftest"}
  /\ next_id' = NextId(1) /\ Fails
  /\ UNCHANGED <<requests, h_state, process, awaited, matched, sync, reader, rx_pending,
                 result, line, deviceVars>>

\* What the self-test compares with its oracle: tag and text of a seal, the
\* text of an open, nothing at all for a tag that must not verify.
LeakUnseen(n, r) == requests[n].op \in {"seal", "open"} => r.whole     \* seeded fault
AsExpected(n, r) ==
  /\ requests[n].op \in {"seal", "open"} => r.whole
  /\ requests[n].op = "tampered" => ~r.ok
Passes == inv = "selftest" => \A n \in DOMAIN matched' : AsExpected(n, matched'[n])

\* A call returns, or raises what main catches.
ReturnUnchecked == TRUE                        \* seeded fault: errors are swallowed
ReturnOk == result'.outcome = "ok" /\ Passes
Return ==
  /\ Judge \/ Timeout
  /\ CASE h_state' = "wait" -> UNCHANGED cliVars
       [] h_state' # "wait" /\ ReturnOk ->
            /\ step' = step + 1 /\ UNCHANGED inv
            /\ took' = took \cup {[req |-> n, by |-> matched'[n]] : n \in DOMAIN matched'}
            /\ code' = IF step = Len(Script(inv)) THEN "0" ELSE code
       [] OTHER -> Fails

\* The adapter is unplugged: OSError from a read or a write.
SerialFails ==
  /\ h_state = "wait" /\ h_state' = "idle" /\ Fails
  /\ UNCHANGED <<requests, process, next_id, awaited, matched, sync, reader, rx_pending,
                 result, line, deviceVars>>

\* `finally`.
Leave == code # "running" /\ Close /\ UNCHANGED cliVars

Killed ==
  /\ (Calling /\ DieWriting(Script(inv)[step])) \/ DieWaiting
  /\ code' = "killed" /\ UNCHANGED <<inv, step, took>>

-----------------------------------------------------------------------------
\* A fault of the line, of the adapter or of the process.
AFault == faults < MaxFaults /\ faults' = faults + 1
Answers(bads) ==
  \E i \in 1..Len(device), ok \in BOOLEAN, bad \in bads :
    (i = 1 \/ Reordering) /\ Answer(i, ok, bad) /\ UNCHANGED cliVars
Damages == Answers({"lost", "torn", "short", "cut"}) /\ AFault

Host ==
  \/ BadInvocation \/ NoPort \/ \E i \in Invocations : Invoke(i)
  \/ Call \/ Oversized \/ Unpackable \/ Return \/ Leave
  \/ (DrainRead \/ DrainEnds \/ Read \/ Feed) /\ UNCHANGED cliVars

ConsoleNext ==
  \/ (Host \/ Answers({"no"})) /\ UNCHANGED faults
  \/ Damages
  \/ (SerialFails \/ Killed) /\ AFault

ConsoleSpec == ConsoleInit /\ [][ConsoleNext]_consoleVars

\* The process runs on, and its clock.
RunsOn == (DrainEnds \/ Feed) /\ UNCHANGED <<cliVars, faults>>
GoesOn == (Call \/ Leave) /\ UNCHANGED faults
Ends == Return /\ UNCHANGED faults
ConsoleFairSpec ==
  ConsoleSpec /\ WF_consoleVars(RunsOn) /\ WF_consoleVars(GoesOn) /\ WF_consoleVars(Ends)

-----------------------------------------------------------------------------
\* Exit code 0: every call of the script was answered, each by the reply to its
\* own request or by one an earlier process left behind; nothing was refused
\* but the tampered tag, and that was; and what has a length or was compared
\* was whole. Exit code 2: no request was made.
Own == {n \in DOMAIN requests : Process(n) = process}
Sound(t) ==
  /\ Process(t.by.of) = process => t.by.of = t.req
  /\ t.by.ok <=> requests[t.req].op # "tampered"
  /\ requests[t.req].op \in {"stats", "bench", "bench_pair", "tampered"} => t.by.whole
  /\ inv = "selftest" /\ requests[t.req].op # "load" => t.by.whole
ExitIsTheContract ==
  /\ code = "0" /\ process > 0 =>
       {t.req : t \in took} = Own /\ \A t \in took : Sound(t)
  /\ code = "2" => Own = {}

\* Every invocation ends and gives the port back, if the kernel takes what it
\* writes.
InvocationEnds == h_state # "closed" ~> h_state = "closed"
=============================================================================
