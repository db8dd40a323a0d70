------------------------------- MODULE OcaSynth -------------------------------
(***************************************************************************)
(* run_synth.py: one design taken from its sources to a bitstream, run     *)
(* after run, over the files the runs leave behind in build/.              *)
(*                                                                         *)
(* A run is one process. The tool it waits for is another, in a session of *)
(* its own, and goes on alone when the run is killed. A tool is the list   *)
(* of what it has still to write. What a file holds is where it came from: *)
(* `made`, the run whose tool wrote it, `net`, the netlist it was made of, *)
(* and `rep`, the timing reported with it.                                 *)
(***************************************************************************)
EXTENDS OcaDesigns, Sequences, FiniteSets
LOCAL INSTANCE FiniteSetsExt

CONSTANTS
  Tops,           \* the designs built
  Netlists(_),    \* what yosys may map a top to: groups of flip-flops, and PLLs
  Timings,        \* what nextpnr may report: clocks, and the nets constrained
  Constants,      \* values the sources may give the top's copy of clk_sys
  Interruptions,  \* subset of {"late", "killed", "edited"}
  MaxRuns         \* bound: runs in a behaviour

ASSUME TopsAssumption == Tops \subseteq DOMAIN DESIGNS
ASSUME InterruptionsAssumption == Interruptions \subseteq {"late", "killed", "edited"}
ASSUME MaxRunsAssumption == MaxRuns \in Nat
\* A netlist's PLLs are a list, in the order it has them in.
ASSUME NetlistsAssumption ==
  \A t \in Tops : \A n \in Netlists(t) : n.plls \in Seq({n.plls[k] : k \in DOMAIN n.plls})

VARIABLES
  top,            \* the design being built
  declared,       \* the constant in the sources as they are now
  file,           \* build/
  pc, runs,       \* stage of the run under way, runs started so far
  pnr_only,       \* its option
  tool,           \* what it waits for
  orphans,        \* tools whose run was killed, still at work
  rc,             \* how the last run ended
  found,          \* history: build/ as the run found it
  alone,          \* history: no orphan was at work when the run started
  calm,           \* history: nothing interrupted since build/ was last in order
  edited          \* history: the sources have been edited
runVars == <<pc, runs, pnr_only, rc, found, alone>>
sources == <<top, declared, edited>>
vars == <<sources, file, runVars, tool, orphans, calm>>

pinned == top \in DOMAIN PINNED

Files == {"netlist", "report", "config", "bit"}
None == [made |-> 0]
Write(f, c) == [to |-> f, content |-> c]
NoTool == [todo |-> <<>>, begun |-> FALSE]

Init ==
  /\ top \in Tops /\ declared \in Constants /\ edited = FALSE
  /\ file = [f \in Files |-> None]
  /\ pc = "idle" /\ runs = 0 /\ pnr_only = FALSE /\ rc = 0
  /\ tool = NoTool /\ orphans = {} /\ found = file
  /\ alone = TRUE /\ calm = TRUE

-----------------------------------------------------------------------------
(* The netlist check. *)

\* A flip-flop fed by its own output is storage in name only. The total is
\* counted on cells: a group whose attribute names two files is counted once.
live_or_held(n) == n.flops                     \* seeded fault: held ones count
live(n) == {g \in n.flops : ~g.held}
number(groups) == MapThenSumSet(LAMBDA g : g.n, groups)
census(n, f) == number({g \in live(n) : f \in g.src})
bucket_total(n) ==                             \* seeded fault: summed over the files
  MapThenSumSet(LAMBDA g : g.n * Cardinality(g.src), live(n))
live_total(n) == number(live(n))

CheckStorage(n) ==
  /\ top \in DOMAIN NETLIST_FF_FLOOR =>
       \A f \in DOMAIN NETLIST_FF_FLOOR[top] : census(n, f) >= NETLIST_FF_FLOOR[top][f]
  /\ top \in DOMAIN NETLIST_FF_TOTAL => live_total(n) >= NETLIST_FF_TOTAL[top]

\* Whole divisions, as the `int` localparams of oca_clkrst.sv make them.
clk_sys(p) ==
  (((PLL_INPUT_HZ \div p.CLKI_DIV) * p.CLKFB_DIV) * p.CLKOP_DIV) \div p.CLKOS_DIV

\* The constant is read from the sources as they stand, not from the netlist.
ConstUnchecked(p) == TRUE                      \* seeded fault: no comparison
CheckClkSysConst(p) == top \in TOP_CLK_SYS_CONST => declared = clk_sys(p)

\* The first PLL found is the one looked at, and from here only.
CheckPll(n) ==
  top \in DOMAIN NETLIST_PLL_PARAMS =>
    /\ n.plls # <<>> /\ Head(n.plls) = NETLIST_PLL_PARAMS[top]
    /\ CheckClkSysConst(Head(n.plls))

CheckPrims(n) ==
  top \in DOMAIN NETLIST_PRIM_COUNT => Len(n.plls) = NETLIST_PRIM_COUNT[top] /\ CheckPll(n)

\* A netlist cut short is no JSON; the run ends in the parser's exception.
CheckNetlist(c) == c.whole /\ CheckPrims(c.net) /\ CheckStorage(c.net)

-----------------------------------------------------------------------------
(* The timing check. A clock's name is its net, after "glb" when it was     *)
(* promoted to a global buffer and before "io" when it came in on a pad.    *)

net_of(name) == CHOOSE x \in {name[k] : k \in DOMAIN name} : x \notin {"glb", "io"}
\* nextpnr renames in these two ways only, and the log names bare nets.
ASSUME TimingsAssumption ==
  \A rep \in Timings :
    /\ \A c \in rep.clocks :
         LET x == net_of(c.name)
         IN  /\ x \notin {"glb", "io"}
             /\ c.name \in {<<x>>, <<"glb", x>>, <<x, "io">>, <<"glb", x, "io">>}
    /\ \A n \in rep.real : n = <<n[1]>> /\ n[1] \notin {"glb", "io"}

bare_prefix_only(name) ==                      \* seeded fault: the pad's suffix stays
  IF name[1] = "glb" THEN Tail(name) ELSE name
bare_clock_name(name) ==
  <<(IF name[1] = "glb" THEN Tail(name) ELSE name)[1]>>

real(rep, c) == c.name \in rep.real \/ bare_clock_name(c.name) \in rep.real

CheckTiming(rep) ==
  pinned => /\ \A c \in rep.clocks : real(rep, c) => c.met
            /\ \E c \in rep.clocks : real(rep, c)

-----------------------------------------------------------------------------
(* Stages. `run` starts a tool and waits; the tool ends well, ends badly,   *)
(* or is killed with its group when the time is up.                         *)

Exit(code) == pc' = "idle" /\ rc' = code /\ tool' = NoTool
Spawn(todo) == tool' = [todo |-> todo, begun |-> FALSE]
Stay(stage) == pc' = stage /\ UNCHANGED rc

Start ==
  /\ pc = "idle" /\ runs < MaxRuns
  /\ runs' = runs + 1 /\ pnr_only' \in BOOLEAN
  /\ Stay("probe") /\ found' = file /\ alone' = (orphans = {})
  /\ UNCHANGED <<sources, file, tool, orphans, calm>>

Yosys(n) ==
  LET c == [made |-> runs, net |-> n, believes |-> declared, whole |-> TRUE]
  IN  <<Write("netlist", [c EXCEPT !.whole = FALSE]), Write("netlist", c)>>

\* The tools are looked for and yosys is probed for the cmp2lut defect: any of
\* it may end the run. The probe waits for yosys without a bound.
Probe ==
  /\ pc = "probe"
  /\ \/ Exit(1)
     \/ /\ pnr_only /\ file["netlist"] = None /\ Exit(1)
     \/ /\ pnr_only /\ file["netlist"] # None /\ Stay("check") /\ UNCHANGED tool
     \/ /\ ~pnr_only /\ \E n \in Netlists(top) : Spawn(Yosys(n))
        /\ Stay("synth")
  /\ UNCHANGED <<sources, file, runs, pnr_only, orphans, found, alone, calm>>

\* The configuration is asked for in a pinned build only.
Nextpnr(rep) ==
  LET c == [made |-> runs, net |-> file["netlist"], rep |-> rep]
  IN  IF pinned THEN <<Write("report", c), Write("config", c)>> ELSE <<Write("report", c)>>

Check ==
  /\ pc = "check"
  /\ IF CheckNetlist(file["netlist"])
     THEN (\E rep \in Timings : Spawn(Nextpnr(rep))) /\ Stay("pnr")
     ELSE Exit(1)
  /\ UNCHANGED <<sources, file, runs, pnr_only, orphans, found, alone, calm>>

\* nextpnr has succeeded: the report is new, and a bitstream is of the old one.
StaleKept == file                              \* seeded fault: left where it is
Stale == [file EXCEPT !["bit"] = None]

Unlink ==
  /\ pc = "unlink" /\ file' = Stale /\ Stay("timing")
  /\ calm' = (calm \/ alone)
  /\ UNCHANGED <<sources, runs, pnr_only, tool, orphans, found, alone>>

Ecppack ==
  LET c == [made |-> file["config"].made, net |-> file["config"].net,
            rep |-> file["config"].rep, whole |-> TRUE]
  IN  <<Write("bit", [c EXCEPT !.whole = FALSE]), Write("bit", c)>>

TimingIgnored == TRUE                          \* seeded fault: its result dropped
PassesTiming == CheckTiming(file["report"].rep)

Timing ==
  /\ pc = "timing"
  /\ \/ PassesTiming /\ ~pinned /\ Exit(0)
     \/ PassesTiming /\ pinned /\ file["config"] # None
        /\ Spawn(Ecppack) /\ Stay("pack")
     \/ ~PassesTiming /\ Exit(1)
     \/ pinned /\ file["config"] = None /\ Exit(1)
  /\ UNCHANGED <<sources, file, runs, pnr_only, orphans, found, alone, calm>>

-----------------------------------------------------------------------------
(* The tool a run waits for. *)

ToolStage == pc \in {"synth", "pnr", "pack"}
Put(w) == file' = [file EXCEPT ![w.to] = w.content]

ToolWrites ==
  /\ ToolStage /\ tool.todo # <<>>
  /\ Put(Head(tool.todo)) /\ tool' = [todo |-> Tail(tool.todo), begun |-> TRUE]
  /\ UNCHANGED <<sources, runVars, orphans, calm>>

ToolSucceeds ==
  /\ ToolStage /\ tool.todo = <<>>
  /\ \/ pc = "synth" /\ Stay("check") /\ tool' = NoTool
     \/ pc = "pnr" /\ Stay("unlink") /\ tool' = NoTool
     \/ pc = "pack" /\ Exit(0)
  /\ UNCHANGED <<sources, file, runs, pnr_only, orphans, found, alone, calm>>

\* ecppack may have written any part of the bitstream.
AnyStage == TRUE                               \* seeded fault: whatever failed
Never == FALSE                                 \* seeded fault: left to be loaded
Truncated == pc = "pack"
StageFails(code) ==
  /\ ToolStage /\ Exit(code)
  /\ file' = IF Truncated THEN [file EXCEPT !["bit"] = None] ELSE file
  /\ UNCHANGED <<sources, runs, pnr_only, orphans, found, alone>>

\* nextpnr writes nothing unless place and route both succeed.
ToolFails ==
  /\ pc = "pnr" => ~tool.begun
  /\ StageFails(1) /\ UNCHANGED calm

\* What kill_group returns.
NotReported == 0                               \* seeded fault: as if all was well
TimedOut == 124

\* The time is up and the process group is killed, by SIGKILL if it must be.
\* "late": it was up while the tool was writing out its results.
BoundsRouting == pc = "pnr"                    \* seeded fault: one stage bounded
Bounded == ToolStage
Timeout ==
  /\ Bounded /\ StageFails(TimedOut)
  /\ tool.begun => "late" \in Interruptions
  /\ calm' = (calm /\ ~tool.begun)

-----------------------------------------------------------------------------
(* What comes from outside. *)

Kill ==
  /\ "killed" \in Interruptions /\ pc # "idle" /\ Exit(137)
  /\ orphans' = orphans \cup (IF tool.todo # <<>> THEN {tool} ELSE {})
  /\ calm' = FALSE
  /\ UNCHANGED <<sources, file, runs, pnr_only, found, alone>>

OrphanWrites(t) ==
  /\ Put(Head(t.todo))
  /\ LET left == [t EXCEPT !.todo = Tail(@)]
     IN  orphans' = (orphans \ {t}) \cup (IF left.todo # <<>> THEN {left} ELSE {})
  /\ UNCHANGED <<sources, runVars, tool, calm>>

OrphanDies(t) ==
  /\ orphans' = orphans \ {t}
  /\ UNCHANGED <<sources, file, runVars, tool, calm>>

Edit ==
  /\ "edited" \in Interruptions /\ pc = "idle" /\ declared' \in Constants
  /\ edited' = TRUE /\ UNCHANGED <<top, file, runVars, tool, orphans, calm>>

Orphaned == \E t \in orphans : OrphanWrites(t) \/ OrphanDies(t)
Stages == Probe \/ Check \/ Unlink \/ Timing \/ ToolWrites \/ ToolSucceeds \/ ToolFails
Next == Start \/ Stages \/ Timeout \/ Kill \/ Orphaned \/ Edit

Spec == Init /\ [][Next]_vars

\* Python runs on, and its clock. Of the tools nothing is assumed.
FairSpec ==
  /\ Spec /\ WF_vars(Check \/ Unlink \/ Timing) /\ WF_vars(Timeout)

-----------------------------------------------------------------------------
\* nextpnr is putting new results in place, or has just done so.
Replacing == pc = "unlink" \/ (pc = "pnr" /\ tool.begun)

\* A bitstream never outlives the report it was built with, and both are of
\* one placement. (syn/README.md, "a .bit never outlives the report".)
BitMatchesReport ==
  ~Replacing /\ file["bit"] # None =>
    /\ file["report"].made = file["bit"].made
    /\ file["config"].made = file["bit"].made

\* The same where no run was killed, and none timed out while writing, since
\* place and route last succeeded with no other tool at work.
BitMatchesReportCalm == calm => BitMatchesReport

\* What a reader of the bitstream relies on: no storage gone, the
\* described PLL, every constraint that reached a clock met, the file whole.
Sound(b) ==
  /\ b.whole \/ pc = "pack"
  /\ top \in DOMAIN NETLIST_PLL_PARAMS => b.net.net.plls = <<NETLIST_PLL_PARAMS[top]>>
  /\ \A g \in b.net.net.flops : ~g.held
  /\ \A c \in b.rep.clocks : <<net_of(c.name)>> \in b.rep.real => c.met
  /\ \E c \in b.rep.clocks : <<net_of(c.name)>> \in b.rep.real

\* The serial divisor of a bitstream was elaborated for the clock its PLL
\* makes. (check_clk_sys_const: "Fail unless the top's copy of clk_sys is the
\* clock the PLL makes"; it reads the sources and not the netlist.)
BitKnowsItsClock ==
  file["bit"] # None /\ top \in TOP_CLK_SYS_CONST =>
    file["bit"].net.believes = clk_sys(file["bit"].net.net.plls[1])

\* A bitstream left by runs that were not interfered with is sound, and knows
\* its clock if the sources stayed as they were.
BitIsSound ==
  /\ calm /\ file["bit"] # None => Sound(file["bit"])
  /\ ~edited => BitKnowsItsClock

\* A run that started beside no tool of an earlier one, and that ends before the
\* first write of its own nextpnr, leaves report, configuration and bitstream as
\* it found them.
EarlyEnd ==
  /\ alone /\ pc' = "idle"
  /\ pc \in {"probe", "synth", "check"} \/ (pc = "pnr" /\ ~tool.begun)
Kept(f) == file'[f] = found[f]
EarlyEndKeeps == [][EarlyEnd => \A f \in Files \ {"netlist"} : Kept(f)]_vars

\* Success means a report of this run, and a whole bitstream of it if the
\* design has pins.
Succeeded == pc # "idle" /\ pc' = "idle" /\ rc' = 0
OfThisRun(f) == file'[f].made = runs
SuccessMeans ==
  [][Succeeded /\ alone =>
       /\ OfThisRun("report")
       /\ pinned => OfThisRun("bit") /\ file'["bit"].whole]_vars

\* Past the probe a run ends, whatever its tools do.
RunEnds == pc \notin {"idle", "probe"} ~> pc = "idle"
=============================================================================
