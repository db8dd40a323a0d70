------------------------------- MODULE OcaRunner -------------------------------
(***************************************************************************)
(* Runners at work in hw/sim: each takes the steps of its program, over    *)
(* one results.xml that all of them share and a build directory each.      *)
(*                                                                         *)
(* What a suite would find is not modelled: a simulation leaves green      *)
(* results, red ones, a file without tests or no file at all, or it raises.*)
(***************************************************************************)
EXTENDS OcaRunners, FiniteSets

CONSTANTS
  Runners,        \* processes
  Programs(_),    \* what each of them may be asked to run
  Present,        \* sets of elaboration guards the sources may hold
  Shadowed,       \* guards whose refused values something else refuses as well
  Inherited       \* values the environment may hold when a process starts

VARIABLES
  guards,         \* the guards there are
  results,        \* results.xml
  built,          \* [directory -> the model in it]
  todo, env, failed, code,   \* a process: steps left, variable, count, exit code
  prog, wrote, alone         \* history: its program, its results, nobody beside it

shared == <<guards, results, built>>
process == <<todo, env, failed, code>>
history == <<prog, wrote, alone>>
vars == <<shared, process, history>>

Ready == -2
Working == -1
NoFile == [by |-> "none"]
NoModel == [dir |-> "none"]
Dirs == {"fifo", "slip_tx", "console", "uart_rx", "uart_echo", "uart_console", "keystore",
         "aead", "dirty_pad", "secret_zeroise", "core", "aead_cycles", "attack", "uart_crypto",
         "uart_crypto_dual", "uart_tx", "crypto_pll", "", "_r2", "poly", "poly_r5", "pktbuf",
         "pktbuf_small", "slip_rx", "slip_rx_small", "clkrst", "keystore_gate", "proto_gate",
         "dual_fabric", "dual_fabric_mut"}

Init ==
  /\ guards \in Present /\ results = NoFile /\ built = [d \in Dirs |-> NoModel]
  /\ todo = [p \in Runners |-> <<>>] /\ env \in [Runners -> Inherited]
  /\ failed = [p \in Runners |-> 0] /\ code = [p \in Runners |-> Ready]
  /\ prog = todo /\ wrote = todo /\ alone = [p \in Runners |-> TRUE]

running(p) == code[p] = Working
At(p, what) == running(p) /\ todo[p] # <<>> /\ Head(todo[p]).do = what
step(p) == Head(todo[p])
Advance(p) == todo' = [todo EXCEPT ![p] = Tail(@)] /\ UNCHANGED code
Exit(p, c) == code' = [code EXCEPT ![p] = c] /\ todo' = [todo EXCEPT ![p] = <<>>]

Start(p) ==
  /\ code[p] = Ready
  /\ \E program \in Programs(p) :
       todo' = [todo EXCEPT ![p] = program] /\ prog' = [prog EXCEPT ![p] = program]
  /\ code' = [code EXCEPT ![p] = Working]
  /\ alone' = [q \in Runners |->
                 IF q = p THEN \A r \in Runners : ~running(r) ELSE alone[q] /\ ~running(q)]
  /\ UNCHANGED <<shared, env, failed, wrote>>

\* A value is refused by its guard, whose message says so, or by something else.
Refused(g) == g \in guards \cup Shadowed
RefusedByItsOwn(g) == g \in guards
GuardStep(p) ==
  /\ At(p, "guard")
  /\ \/ /\ \A g \in step(p).names : IF step(p).named THEN RefusedByItsOwn(g) ELSE Refused(g)
        /\ Advance(p)
     \/ Exit(p, 1)                             \* or a legal value refused as well
  /\ UNCHANGED <<shared, env, failed, history>>

\* check=True: yosys that fails raises, as does a netlist with no module header.
MapStep(p) ==
  /\ At(p, "map") /\ (Advance(p) \/ Exit(p, 1))
  /\ UNCHANGED <<shared, env, failed, history>>

SetEnvStep(p) ==
  /\ At(p, "setenv") /\ env' = [env EXCEPT ![p] = step(p).value] /\ Advance(p)
  /\ UNCHANGED <<shared, failed, history>>

\* A build that fails may leave the model that was there.
BuildStep(p) ==
  /\ At(p, "build")
  /\ \/ built' = [built EXCEPT ![step(p).model.dir] = step(p).model] /\ Advance(p)
     \/ built' \in {built, [built EXCEPT ![step(p).model.dir] = NoModel]} /\ Exit(p, 1)
  /\ UNCHANGED <<guards, results, env, failed, history>>

StaleKept == results                           \* seeded fault: no unlink
StaleGone == NoFile
UnlinkStep(p) ==
  /\ At(p, "unlink") /\ results' = StaleGone /\ Advance(p)
  /\ UNCHANGED <<guards, built, env, failed, history>>

\* The testbench learns a parameter from the environment of its runner.
SimulateStep(p) ==
  /\ At(p, "simulate")
  /\ \/ Exit(p, 1) /\ UNCHANGED <<results, wrote>>
     \/ Advance(p) /\ UNCHANGED <<results, wrote>>
     \/ /\ built[step(p).dir] # NoModel
        /\ \E tests \in {"green", "red", "none"} :
             LET r == [by |-> p, tests |-> tests, of |-> built[step(p).dir],
                       told |-> env[p], bench |-> step(p).bench]
             IN results' = r /\ wrote' = [wrote EXCEPT ![p] = Append(@, r)]
        /\ Advance(p)
  /\ UNCHANGED <<guards, built, env, failed, prog, alone>>

\* failed_tests: no file raises, and so does one that records no tests.
NoTestsIsGreen == {"green", "none"}            \* seeded fault: nothing red is a pass
Green == {"green"}
LastCounts(p, n) == n                          \* seeded fault: = where += was meant
AllCount(p, n) == failed[p] + n
GradeStep(p) ==
  /\ At(p, "grade")
  /\ \/ results = NoFile /\ Exit(p, 1) /\ UNCHANGED failed
     \/ results # NoFile /\ results.tests = "none" /\ results.tests \notin Green
        /\ Exit(p, 1) /\ UNCHANGED failed
     \/ /\ results # NoFile /\ results.tests \in Green \cup {"red"} /\ Advance(p)
        /\ failed' = [failed EXCEPT ![p] = AllCount(p, IF results.tests = "red" THEN 1 ELSE 0)]
  /\ UNCHANGED <<shared, env, history>>

VerdictStep(p) ==
  /\ At(p, "verdict") /\ Exit(p, IF failed[p] > 0 THEN 1 ELSE 0)
  /\ UNCHANGED <<shared, env, failed, history>>

ExitStep(p) ==
  /\ At(p, "exit") /\ Exit(p, step(p).code) /\ UNCHANGED <<shared, env, failed, history>>

\* A signal to the runner alone leaves its simulator, which may still write the
\* results: it counts as running until that one has ended too.
Kill(p) == running(p) /\ Exit(p, 130) /\ UNCHANGED <<shared, env, failed, history>>

Next ==
  \E p \in Runners :
    \/ Start(p) \/ GuardStep(p) \/ MapStep(p) \/ SetEnvStep(p) \/ BuildStep(p)
    \/ UnlinkStep(p) \/ SimulateStep(p) \/ GradeStep(p) \/ VerdictStep(p)
    \/ ExitStep(p) \/ Kill(p)

Spec == Init /\ [][Next]_vars

-----------------------------------------------------------------------------
OwnRun(p) == prog[p] # <<>> /\ code[p] = 0
Asked(p, what) == {k \in DOMAIN prog[p] : prog[p][k].do = what}

\* "Exit code is the contract": a runner that had the directory to itself and
\* exits 0 has run every suite it was written to run, in that order, each on
\* its own build, and none was red or empty.
ExitIsTheContract ==
  \A p \in Runners : OwnRun(p) /\ alone[p] =>
    /\ Len(wrote[p]) = Cardinality(Asked(p, "simulate"))
    /\ \A k \in DOMAIN wrote[p] : wrote[p][k].tests = "green"
    /\ {wrote[p][k].of : k \in DOMAIN wrote[p]} = {prog[p][k].model : k \in Asked(p, "build")}

\* A green runner vouches for the guards it elaborated against: no value was
\* refused for another reason than the guard it was meant for.
GuardsAreThere ==
  \A p \in Runners : OwnRun(p) =>
    \A k \in Asked(p, "guard") : prog[p][k].names \subseteq guards

\* "A test that elaborates a different set of files from the one the bitstream is
\* built from is a test of a design nobody loads." (run_uart_crypto.py.) The gate
\* runners put cells in the place of one file. And a testbench that is told a
\* parameter is told what it was meant to be and what its model was built with,
\* two runners at once and a stale environment included.
TestsWhatIsBuilt ==
  \A p \in Runners : \A k \in DOMAIN wrote[p] :
    LET r == wrote[p][k]
    IN  /\ r.of.top \in DOMAIN DESIGNS => r.of.files \cup r.of.cells = DESIGNS[r.of.top]
        /\ r.bench # Untold => r.told = r.bench /\ r.of.value \in {Default, r.bench}

\* A mutation run never takes the place of a build of the tree's own sources: a
\* runner with no override runs a model of its own program, whoever runs beside it.
PristineIsOwn ==
  \A p \in Runners : \A k \in DOMAIN wrote[p] :
    LET own == {prog[p][b].model : b \in Asked(p, "build")}
    IN  (\A model \in own : model.mutated = {}) => wrote[p][k].of \in own
=============================================================================
