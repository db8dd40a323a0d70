--------------------------- MODULE OcaSynthProofs ---------------------------
(* What holds of every design, every netlist and any number of runs. *)
EXTENDS OcaSynth, SequenceTheorems, TLAPS

\* A run that started beside no orphan has build/ to itself.
AloneInv ==
  /\ pc # "idle" /\ alone => orphans = {}
  /\ calm => orphans = {}
  /\ calm /\ pc # "idle" => alone

LEMMA InitAlone == Init => AloneInv
BY DEF Init, AloneInv

LEMMA NextAlone == AloneInv /\ [Next]_vars => AloneInv'
<1> SUFFICES ASSUME AloneInv, [Next]_vars PROVE AloneInv'
  OBVIOUS
<1> USE DEF AloneInv, Exit, Spawn, Stay
<1>1. CASE Start
  BY <1>1 DEF Start
<1>2. CASE Probe
  BY <1>2 DEF Probe
<1>3. CASE Check
  BY <1>3 DEF Check
<1>4. CASE Unlink
  BY <1>4 DEF Unlink
<1>5. CASE Timing
  BY <1>5 DEF Timing
<1>6. CASE ToolWrites
  BY <1>6 DEF ToolWrites, runVars
<1>7. CASE ToolSucceeds
  BY <1>7 DEF ToolSucceeds, ToolStage
<1>8. CASE ToolFails
  BY <1>8 DEF ToolFails, StageFails, ToolStage
<1>9. CASE Timeout
  BY <1>9 DEF Timeout, StageFails, ToolStage
<1>10. CASE Kill
  BY <1>10 DEF Kill
<1>11. ASSUME NEW t \in orphans, OrphanWrites(t) \/ OrphanDies(t) PROVE AloneInv'
  BY <1>11 DEF OrphanWrites, OrphanDies, runVars
<1>12. CASE Edit
  BY <1>12 DEF Edit, runVars
<1>13. CASE UNCHANGED vars
  BY <1>13 DEF vars, runVars
<1> QED
  BY <1>1, <1>2, <1>3, <1>4, <1>5, <1>6, <1>7, <1>8, <1>9, <1>10, <1>11, <1>12, <1>13
  DEF Next, Stages, Orphaned

-----------------------------------------------------------------------------
\* What the tool has still to write, and what of its work is in build/ when
\* nobody else writes there.
MadeNow(f) == file[f].made = runs

SynthInv ==
  pc = "synth" =>
    \E a, b : /\ a.to = "netlist" /\ b.to = "netlist"
              /\ tool.todo = <<a, b>> \/ tool.todo = <<b>> \/ tool.todo = <<>>

Report(a) == a.to = "report" /\ a.content.made = runs
Config(b) == b.to = "config" /\ b.content.made = runs
RoutedDone == MadeNow("report") /\ (pinned => MadeNow("config"))
Routing(a, b) ==
  /\ Report(a) /\ Config(b)
  /\ \/ pinned /\ ~tool.begun /\ tool.todo = <<a, b>>
     \/ ~pinned /\ ~tool.begun /\ tool.todo = <<a>>
     \/ pinned /\ tool.begun /\ tool.todo = <<b>> /\ (alone => MadeNow("report"))
     \/ tool.begun /\ tool.todo = <<>> /\ (alone => RoutedDone)
PnrInv == pc = "pnr" => \E a, b : Routing(a, b)

TimingInv == pc \in {"unlink", "timing"} /\ alone => RoutedDone

Packing(a, b) ==
  /\ a.to = "bit" /\ a.content.made = runs
  /\ b.to = "bit" /\ b.content.made = runs /\ b.content.whole
  /\ \/ tool.todo = <<a, b>> \/ tool.todo = <<b>>
     \/ tool.todo = <<>> /\ MadeNow("bit") /\ file["bit"].whole
PackInv ==
  pc = "pack" /\ alone =>
    MadeNow("report") /\ MadeNow("config") /\ \E a, b : Packing(a, b)

KeptInv ==
  alone /\ (pc \in {"probe", "synth", "check"} \/ (pc = "pnr" /\ ~tool.begun)) =>
    \A f \in Files \ {"netlist"} : file[f] = found[f]

DirInv == DOMAIN file = Files

IInv ==
  /\ DirInv /\ AloneInv /\ SynthInv /\ PnrInv /\ TimingInv /\ PackInv /\ KeptInv
  /\ BitMatchesReportCalm

LEMMA InitIInv == Init => IInv
<1> SUFFICES ASSUME Init PROVE IInv
  OBVIOUS
<1>1. AloneInv
  BY InitAlone
<1>2. DirInv /\ SynthInv /\ PnrInv /\ TimingInv /\ PackInv /\ KeptInv
  BY DEF Init, DirInv, SynthInv, PnrInv, TimingInv, PackInv, KeptInv
<1>3. BitMatchesReportCalm
  BY DEF Init, BitMatchesReportCalm, BitMatchesReport, Files
<1> QED
  BY <1>1, <1>2, <1>3 DEF IInv

-----------------------------------------------------------------------------
(* Every action keeps the invariant. *)

LEMMA DirNext == DirInv /\ [Next]_vars => DirInv'
BY DEF DirInv, Next, Stages, Orphaned, vars, runVars, Start, Probe, Check, Unlink, Timing,
  Stale, ToolWrites, ToolSucceeds, ToolFails, Timeout, StageFails, Kill, OrphanWrites, OrphanDies,
  Edit, Put

LEMMA OneLeft ==
  ASSUME NEW a PROVE Head(<<a>>) = a /\ Tail(<<a>>) = <<>>
OBVIOUS
LEMMA TwoLeft ==
  ASSUME NEW a, NEW b PROVE Head(<<a, b>>) = a /\ Tail(<<a, b>>) = <<b>>
OBVIOUS

\* A write puts the first of what is left, and leaves the other files alone.
LEMMA Writing ==
  DirInv /\ ToolWrites =>
    /\ \A w : Head(tool.todo) = w /\ w.to \in Files => file'[w.to] = w.content
    /\ \A w : Head(tool.todo) = w => \A f \in Files : f # w.to => file'[f] = file[f]
    /\ tool'.todo = Tail(tool.todo) /\ tool'.begun = TRUE
    /\ pc' = pc /\ runs' = runs /\ found' = found /\ alone' = alone /\ top' = top
BY DEF DirInv, ToolWrites, Put, runVars, sources

\* All of it but the files' pairing, which the last lemma adds.
Progress == SynthInv /\ PnrInv /\ TimingInv /\ PackInv /\ KeptInv

LEMMA NextProgress == DirInv /\ AloneInv /\ Progress /\ [Next]_vars => Progress'
<1> SUFFICES ASSUME DirInv, AloneInv, Progress, [Next]_vars PROVE Progress'
  OBVIOUS
<1> USE DEF Progress
<1>1. CASE Start
  BY <1>1 DEF Start, Stay, SynthInv, PnrInv, TimingInv, PackInv, KeptInv
<1>2. CASE Probe
  <2>1. CASE Exit(1)
    BY <1>2, <2>1 DEF Probe, Exit, SynthInv, PnrInv, TimingInv, PackInv, KeptInv
  <2>2. CASE Stay("check")
    BY <1>2, <2>2 DEF Probe, Stay, SynthInv, PnrInv, TimingInv, PackInv, KeptInv
  <2>3. ASSUME NEW n, Spawn(Yosys(n)), Stay("synth") PROVE Progress'
    BY <1>2, <2>3 DEF Probe, Stay, Spawn, Yosys, Write, SynthInv, PnrInv, TimingInv, PackInv, KeptInv
  <2> QED
    BY <1>2, <2>1, <2>2, <2>3 DEF Probe
<1>3. CASE Check
  <2>1. CASE Exit(1)
    BY <1>3, <2>1 DEF Check, Exit, SynthInv, PnrInv, TimingInv, PackInv, KeptInv
  <2>2. ASSUME NEW rep, Spawn(Nextpnr(rep)), Stay("pnr") PROVE Progress'
    <3>1. PnrInv'
      <4> DEFINE c == [made |-> runs, net |-> file["netlist"], rep |-> rep]
      <4>1. Report(Write("report", c))' /\ Config(Write("config", c))'
        BY <1>3 DEF Check, Report, Config, Write
      <4>2. Routing(Write("report", c), Write("config", c))'
        BY <1>3, <2>2, <4>1 DEF Check, Spawn, Nextpnr, sources, pinned, Routing
      <4> QED
        BY <4>2 DEF PnrInv
    <3>2. SynthInv' /\ TimingInv' /\ PackInv' /\ KeptInv'
      BY <1>3, <2>2 DEF Check, Stay, Spawn, SynthInv, TimingInv, PackInv, KeptInv
    <3> QED
      BY <3>1, <3>2
  <2> QED
    BY <1>3, <2>1, <2>2 DEF Check
<1>4. CASE Unlink
  BY <1>4 DEF Unlink, Stale, Stay, sources, Files, DirInv, pinned, MadeNow, RoutedDone,
    SynthInv, PnrInv, TimingInv, PackInv, KeptInv
<1>5. CASE Timing
  <2>1. CASE pc' = "idle"
    BY <1>5, <2>1 DEF SynthInv, PnrInv, TimingInv, PackInv, KeptInv
  <2>2. CASE pinned /\ Spawn(Ecppack) /\ Stay("pack")
    <3>1. PackInv'
      BY <1>5, <2>2 DEF Timing, Stay, Spawn, Ecppack, Write, TimingInv, PackInv, Packing, RoutedDone, MadeNow
    <3>2. SynthInv' /\ PnrInv' /\ TimingInv' /\ KeptInv'
      BY <1>5, <2>2 DEF Timing, Stay, SynthInv, PnrInv, TimingInv, KeptInv
    <3> QED
      BY <3>1, <3>2
  <2> QED
    BY <1>5, <2>1, <2>2 DEF Timing, Exit
<1>6. CASE ToolWrites
  <2>1. CASE pc = "synth"
    <3>1. PICK a, b : /\ a.to = "netlist" /\ b.to = "netlist"
                      /\ tool.todo = <<a, b>> \/ tool.todo = <<b>>
      BY <1>6, <2>1 DEF ToolWrites, SynthInv
    <3>2. PICK w : w.to = "netlist" /\ Head(tool.todo) = w
      BY <3>1, OneLeft, TwoLeft
    <3>3. /\ \A f \in Files \ {"netlist"} : file'[f] = file[f]
          /\ UNCHANGED <<pc, runs, found, alone>>
      BY <1>6, <3>2, Writing DEF Files
    <3>4. tool'.todo = <<b>> \/ tool'.todo = <<>>
      BY <1>6, <3>1, Writing, OneLeft, TwoLeft, Zenon
    <3>5. SynthInv'
      BY <3>1, <3>4, Zenon DEF SynthInv
    <3> QED
      BY <2>1, <3>3, <3>5 DEF PnrInv, TimingInv, PackInv, KeptInv
  <2>2. CASE pc = "pnr"
    <3>1. PICK a, b : Routing(a, b) /\ tool.todo # <<>>
      BY <1>6, <2>2 DEF ToolWrites, PnrInv
    <3>2. ASSUME pinned /\ tool.todo = <<a, b>>
           PROVE  PnrInv'
      <4>1. Head(tool.todo) = a /\ Tail(tool.todo) = <<b>>
        BY <3>2, TwoLeft
      <4>2. file'["report"] = a.content
        BY <1>6, <3>1, <4>1, Writing DEF Files, Report, Config, Routing
      <4>3. tool'.todo = <<b>>
        BY <1>6, <4>1, Writing
      <4>4. Routing(a, b)'
        BY <1>6, <3>1, <3>2, <4>2, <4>3, Writing
        DEF Routing, Report, Config, RoutedDone, MadeNow, pinned
      <4> QED
        BY <4>4 DEF PnrInv
    <3>3. ASSUME ~pinned /\ tool.todo = <<a>>
           PROVE  PnrInv'
      <4>1. Head(tool.todo) = a /\ Tail(tool.todo) = <<>>
        BY <3>3, OneLeft
      <4>2. file'["report"] = a.content
        BY <1>6, <3>1, <4>1, Writing DEF Files, Report, Config, Routing
      <4>3. tool'.todo = <<>>
        BY <1>6, <4>1, Writing
      <4>4. Routing(a, b)'
        BY <1>6, <3>1, <3>3, <4>2, <4>3, Writing
        DEF Routing, Report, Config, RoutedDone, MadeNow, pinned
      <4> QED
        BY <4>4 DEF PnrInv
    <3>4. ASSUME pinned /\ tool.todo = <<b>> /\ (alone => MadeNow("report"))
           PROVE  PnrInv'
      <4>1. Head(tool.todo) = b /\ Tail(tool.todo) = <<>>
        BY <3>4, OneLeft
      <4>2. file'["config"] = b.content /\ file'["report"] = file["report"]
        BY <1>6, <3>1, <4>1, Writing DEF Files, Report, Config, Routing
      <4>3. tool'.todo = <<>>
        BY <1>6, <4>1, Writing
      <4>4. Routing(a, b)'
        BY <1>6, <3>1, <3>4, <4>2, <4>3, Writing
        DEF Routing, Report, Config, RoutedDone, MadeNow, pinned
      <4> QED
        BY <4>4 DEF PnrInv
    <3>5. PnrInv'
      BY <3>1, <3>2, <3>3, <3>4 DEF Routing
    <3>6. SynthInv' /\ TimingInv' /\ PackInv' /\ KeptInv'
      BY <1>6, <2>2 DEF ToolWrites, runVars, SynthInv, TimingInv, PackInv, KeptInv
    <3> QED
      BY <3>5, <3>6
  <2>3. CASE pc = "pack"
    <3>1. ASSUME alone PROVE PackInv'
      <4>1. PICK a, b : Packing(a, b) /\ (tool.todo = <<a, b>> \/ tool.todo = <<b>>)
        BY <1>6, <2>3, <3>1 DEF ToolWrites, PackInv, Packing
      <4>2. file'["report"] = file["report"] /\ file'["config"] = file["config"]
        <5>1. PICK w : w.to = "bit" /\ Head(tool.todo) = w
          BY <4>1, OneLeft, TwoLeft DEF Packing
        <5> QED
          BY <1>6, <5>1, Writing DEF Files
      <4>3. MadeNow("report")' /\ MadeNow("config")'
        BY <1>6, <2>3, <3>1, <4>2, Writing DEF PackInv, MadeNow
      <4>4. ASSUME tool.todo = <<a, b>> PROVE Packing(a, b)'
        <5>1. tool'.todo = <<b>>
          BY <1>6, <4>4, TwoLeft, Writing
        <5> QED
          BY <1>6, <4>1, <5>1, Writing DEF Packing
      <4>5. ASSUME tool.todo = <<b>> PROVE Packing(a, b)'
        <5>1. Head(tool.todo) = b /\ Tail(tool.todo) = <<>>
          BY <4>5, OneLeft
        <5>2. file'["bit"] = b.content
          BY <1>6, <4>1, <5>1, Writing DEF Files, Packing
        <5>3. tool'.todo = <<>>
          BY <1>6, <5>1, Writing
        <5> QED
          BY <1>6, <4>1, <5>2, <5>3, Writing DEF Packing, MadeNow
      <4>6. Packing(a, b)'
        BY <4>1, <4>4, <4>5
      <4> QED
        BY <4>3, <4>6 DEF PackInv
    <3>2. ASSUME ~alone PROVE PackInv'
      BY <1>6, <3>2 DEF ToolWrites, PackInv, runVars
    <3>3. SynthInv' /\ PnrInv' /\ TimingInv' /\ KeptInv'
      BY <1>6, <2>3 DEF ToolWrites, runVars, SynthInv, TimingInv, PnrInv, KeptInv
    <3> QED
      BY <3>1, <3>2, <3>3
  <2> QED
    BY <1>6, <2>1, <2>2, <2>3 DEF ToolWrites, ToolStage
<1>7. CASE ToolSucceeds
  <2>1. CASE pc = "synth"
    BY <1>7, <2>1 DEF ToolSucceeds, Stay, SynthInv, PnrInv, TimingInv, PackInv, KeptInv
  <2>2. CASE pc = "pnr"
    BY <1>7, <2>2 DEF ToolSucceeds, Stay, sources, pinned, MadeNow, RoutedDone, Report, Config,
    Routing, Packing, SynthInv, PnrInv, TimingInv, PackInv, KeptInv
  <2>3. CASE pc = "pack"
    BY <1>7, <2>3 DEF ToolSucceeds, Exit, SynthInv, PnrInv, TimingInv, PackInv, KeptInv
  <2> QED
    BY <1>7, <2>1, <2>2, <2>3 DEF ToolSucceeds
<1>8. CASE ToolFails \/ Timeout \/ Kill
  BY <1>8 DEF ToolFails, Timeout, StageFails, Kill, Exit, SynthInv, PnrInv, TimingInv, PackInv, KeptInv
<1>9. ASSUME NEW t \in orphans, OrphanWrites(t) \/ OrphanDies(t) PROVE Progress'
  <2>1. pc # "idle" => ~alone
    BY DEF AloneInv
  <2> QED
    BY <1>9, <2>1 DEF OrphanWrites, OrphanDies, runVars, sources, pinned, MadeNow, RoutedDone, Report, Config,
    Routing, Packing, SynthInv, PnrInv, TimingInv, PackInv, KeptInv
<1>10. CASE Edit
  BY <1>10 DEF Edit, runVars, SynthInv, PnrInv, TimingInv, PackInv, KeptInv
<1>11. CASE UNCHANGED vars
  BY <1>11 DEF vars, runVars, sources, pinned, MadeNow, RoutedDone, Report, Config,
    Routing, Packing, SynthInv, PnrInv, TimingInv, PackInv, KeptInv
<1> QED
  BY <1>1, <1>2, <1>3, <1>4, <1>5, <1>6, <1>7, <1>8, <1>9, <1>10, <1>11
  DEF Next, Stages, Orphaned

LEMMA NextPaired == IInv /\ [Next]_vars => BitMatchesReportCalm'
<1> SUFFICES ASSUME IInv, [Next]_vars, calm' PROVE BitMatchesReport'
  BY DEF BitMatchesReportCalm
<1>1. DirInv /\ AloneInv /\ SynthInv /\ TimingInv /\ PackInv /\ (calm => BitMatchesReport)
  BY DEF IInv, BitMatchesReportCalm
<1> USE DEF BitMatchesReport, Replacing
<1>2. CASE Start
  BY <1>1, <1>2 DEF Start, Stay
<1>3. CASE Probe
  BY <1>1, <1>3 DEF Probe, Exit, Stay
<1>4. CASE Check
  BY <1>1, <1>4 DEF Check, Exit, Stay, Spawn
<1>5. CASE Unlink
  BY <1>1, <1>5 DEF Unlink, Stale, DirInv, Files
<1>6. CASE Timing
  BY <1>1, <1>6 DEF Timing, Exit, Stay
<1>7. CASE ToolWrites
  <2>1. CASE pc = "synth"
    <3>1. PICK w : w.to = "netlist" /\ Head(tool.todo) = w
      BY <1>1, <1>7, <2>1, OneLeft, TwoLeft DEF ToolWrites, SynthInv
    <3>2. \A f \in Files \ {"netlist"} : file'[f] = file[f]
      BY <1>1, <1>7, <3>1, Writing DEF Files
    <3> QED
      BY <1>1, <1>7, <2>1, <3>2 DEF ToolWrites, Files, runVars
  <2>2. CASE pc = "pnr"
    BY <1>7, <2>2 DEF ToolWrites, runVars
  <2>3. CASE pc = "pack"
    <3>1. PackInv'
      BY <1>7, NextProgress DEF IInv, Progress
    <3>2. alone
      BY <1>1, <1>7, <2>3 DEF ToolWrites, AloneInv
    <3>3. MadeNow("report")' /\ MadeNow("config")' /\ \E a, b : Packing(a, b)'
      BY <1>7, <2>3, <3>1, <3>2 DEF ToolWrites, runVars, PackInv
    <3>4. file'["bit"].made = runs
      <4>1. PICK a, b : Packing(a, b) /\ (tool.todo = <<a, b>> \/ tool.todo = <<b>>)
        BY <1>1, <1>7, <2>3, <3>2 DEF ToolWrites, PackInv, Packing
      <4>2. PICK w : w.to = "bit" /\ w.content.made = runs /\ Head(tool.todo) = w
        BY <4>1, OneLeft, TwoLeft DEF Packing
      <4> QED
        BY <1>1, <1>7, <4>2, Writing DEF Files
    <3> QED
      BY <1>7, <3>3, <3>4 DEF MadeNow, ToolWrites, runVars
  <2> QED
    BY <1>7, <2>1, <2>2, <2>3 DEF ToolWrites, ToolStage
<1>8. CASE ToolSucceeds
  BY <1>1, <1>8 DEF ToolSucceeds, Exit, Stay
<1>9. CASE ToolFails
  BY <1>1, <1>9 DEF ToolFails, StageFails, ToolStage, Truncated, Exit, DirInv, Files
<1>10. CASE Timeout
  BY <1>1, <1>10 DEF Timeout, StageFails, ToolStage, Truncated, Exit, DirInv, Files
<1>11. CASE Kill
  BY <1>11 DEF Kill
<1>12. ASSUME NEW t \in orphans, OrphanWrites(t) \/ OrphanDies(t) PROVE BitMatchesReport'
  BY <1>1, <1>12 DEF OrphanWrites, OrphanDies, AloneInv, runVars
<1>13. CASE Edit
  BY <1>1, <1>13 DEF Edit, runVars
<1>14. CASE UNCHANGED vars
  BY <1>1, <1>14 DEF vars, runVars
<1> QED
  BY <1>2, <1>3, <1>4, <1>5, <1>6, <1>7, <1>8, <1>9, <1>10, <1>11, <1>12, <1>13, <1>14
  DEF Next, Stages, Orphaned

LEMMA NextIInv == IInv /\ [Next]_vars => IInv'
BY DirNext, NextAlone, NextProgress, NextPaired DEF IInv, Progress

LEMMA Always == Spec => []IInv
BY InitIInv, NextIInv, PTL DEF Spec

-----------------------------------------------------------------------------
\* A bitstream in build/ is of the placement its report and its configuration
\* describe, for every design, every outcome of the tools and any number of
\* runs that nothing interfered with.
THEOREM BitIsOfItsReport == Spec => []BitMatchesReportCalm
BY Always, PTL DEF IInv

\* A run that started alone and ends before nextpnr's first write costs nothing
\* of what an earlier run had made, killed, timed out or refused as it may be.
THEOREM EarlyEndCostsNothing == Spec => EarlyEndKeeps
<1>1. IInv /\ [Next]_vars => [EarlyEnd => \A f \in Files \ {"netlist"} : Kept(f)]_vars
  <2> SUFFICES ASSUME IInv, Next, EarlyEnd PROVE \A f \in Files \ {"netlist"} : Kept(f)
    OBVIOUS
  <2>1. \A f \in Files \ {"netlist"} : file[f] = found[f]
    BY DEF IInv, KeptInv, EarlyEnd
  <2>2. pc # "idle" /\ pc' = "idle" /\ alone /\ pc \notin {"pack", "unlink", "timing"}
    BY DEF EarlyEnd
  <2>3. orphans = {}
    BY <2>2 DEF IInv, AloneInv
  <2>4. file' = file
    BY <2>2, <2>3 DEF Next, Stages, Orphaned, Start, Stay, Probe, Check, Unlink, Timing, ToolWrites,
      ToolSucceeds, ToolFails, Timeout, StageFails, Truncated, Kill, Edit, runVars
  <2> QED
    BY <2>1, <2>4 DEF Kept
<1> QED
  BY <1>1, Always, PTL DEF Spec, EarlyEndKeeps

\* Exit 0 means a report of this very run and, of a design with pins, a
\* bitstream of it written to its end.
THEOREM ZeroMeansResults == Spec => SuccessMeans
<1> DEFINE Good == OfThisRun("report") /\ (pinned => OfThisRun("bit") /\ file'["bit"].whole)
<1>1. IInv /\ [Next]_vars => [Succeeded /\ alone => Good]_vars
  <2> SUFFICES ASSUME IInv, Next, Succeeded, alone PROVE Good
    OBVIOUS
  <2>1. pc # "idle" /\ pc' = "idle" /\ rc' = 0 /\ orphans = {}
    BY DEF IInv, AloneInv, Succeeded
  <2>2. \/ Timing /\ ~pinned
        \/ ToolSucceeds /\ pc = "pack"
    <3>1. ~Start /\ ~Unlink /\ ~ToolWrites /\ ~Edit
      BY <2>1 DEF Start, Unlink, ToolWrites, Edit, Stay, runVars
    <3>2. ~Probe
      BY <2>1 DEF Probe, Stay, Exit
    <3>3. ~Check
      BY <2>1 DEF Check, Stay, Exit
    <3>4. ~(ToolFails \/ Timeout \/ Kill \/ Orphaned)
      BY <2>1 DEF ToolFails, Timeout, TimedOut, StageFails, Kill, Orphaned, Exit
    <3>5. Timing => ~pinned
      BY <2>1 DEF Timing, Stay, Exit
    <3>6. ToolSucceeds => pc = "pack"
      BY <2>1 DEF ToolSucceeds, Stay
    <3> QED
      BY <3>1, <3>2, <3>3, <3>4, <3>5, <3>6 DEF Next, Stages
  <2>3. CASE Timing /\ ~pinned
    BY <2>3 DEF Timing, IInv, TimingInv, RoutedDone, MadeNow, OfThisRun
  <2>4. CASE ToolSucceeds /\ pc = "pack"
    <3>1. PICK a, b : Packing(a, b) /\ MadeNow("report")
      BY <2>4 DEF IInv, PackInv
    <3>2. tool.todo # <<a, b>> /\ tool.todo # <<b>>
      <4>1. tool.todo = <<>>
        BY <2>4 DEF ToolSucceeds
      <4> QED
        BY <4>1
    <3>3. MadeNow("bit") /\ file["bit"].whole
      BY <3>1, <3>2 DEF Packing
    <3> QED
      BY <2>4, <3>1, <3>3 DEF ToolSucceeds, MadeNow, OfThisRun
  <2> QED
    BY <2>2, <2>3, <2>4
<1> QED
  BY <1>1, Always, PTL DEF Spec, SuccessMeans

-----------------------------------------------------------------------------
(* What is written anywhere was checked. *)

\* A netlist of the design, elaborated, unless the sources were edited, for
\* the constant they hold.
NetlistOk(c) ==
  /\ c.made # 0 /\ c.net \in Netlists(top)
  /\ ~edited => c.believes = declared

\* Its census was passed, and its PLL is the one described.
PllOk(n) ==
  top \in DOMAIN NETLIST_PRIM_COUNT =>
    /\ Len(n.plls) = NETLIST_PRIM_COUNT[top]
    /\ top \in DOMAIN NETLIST_PLL_PARAMS =>
         /\ n.plls # <<>> /\ Head(n.plls) = NETLIST_PLL_PARAMS[top]
         /\ ~edited => CheckClkSysConst(Head(n.plls))
Checked(c) ==
  /\ c.made # 0 /\ c.rep \in Timings
  /\ NetlistOk(c.net) /\ c.net.whole
  /\ CheckStorage(c.net.net) /\ PllOk(c.net.net)

\* What a tool writes.
Proper(w) ==
  /\ w.to \in Files
  /\ IF w.to = "netlist" THEN NetlistOk(w.content) ELSE Checked(w.content)
  /\ w.to = "bit" => pinned

Job(t) ==
  /\ "todo" \in DOMAIN t
  /\ \/ t.todo = <<>>
     \/ \E a, b : Proper(a) /\ Proper(b) /\ (t.todo = <<a, b>> \/ t.todo = <<b>>)

Filed(f) == file[f] # None => Proper(Write(f, file[f]))

\* yosys is at the netlist, and once it has begun there is one.
NetlistComes ==
  pc = "synth" =>
    \E a, b : /\ a.to = "netlist" /\ b.to = "netlist"
              /\ \/ tool.todo = <<a, b>>
                 \/ file["netlist"] # None /\ (tool.todo = <<b>> \/ tool.todo = <<>>)

FilesOk == DOMAIN file = Files /\ \A f \in Files : Filed(f)
JobsOk == Job(tool) /\ \A t \in orphans : Job(t) /\ t.todo # <<>>
Counts == top \in Tops /\ runs \in Nat /\ (pc # "idle" => runs # 0)
NetlistThere == pc = "check" => file["netlist"] # None
CheckedInv == FilesOk /\ JobsOk /\ Counts /\ NetlistComes /\ NetlistThere

\* The sources only ever become edited, and the design stays.
Steady == top' = top /\ ((edited' = edited /\ declared' = declared) \/ edited' = TRUE)

\* What was proper stays so: an edit only takes from what is claimed.
LEMMA ProperStays ==
  ASSUME Steady, NEW w, Proper(w)
  PROVE  Proper(w)'
<1>1. top' = top /\ (~edited' => ~edited /\ declared' = declared)
  BY DEF Steady
<1>2. ASSUME NEW c, NetlistOk(c) PROVE NetlistOk(c)'
  BY <1>1, <1>2 DEF NetlistOk
<1>3. ASSUME NEW n, PllOk(n) PROVE PllOk(n)'
  BY <1>1, <1>3 DEF PllOk, CheckClkSysConst
<1>4. ASSUME NEW n, CheckStorage(n) PROVE CheckStorage(n)'
  BY <1>1, <1>4 DEF CheckStorage
<1>5. ASSUME NEW c, Checked(c) PROVE Checked(c)'
  BY <1>2, <1>3, <1>4, <1>5 DEF Checked
<1>6. PICK c, f : c = w.content /\ f = w.to
  OBVIOUS
<1>7. CASE f = "netlist"
  BY <1>1, <1>2, <1>6, <1>7 DEF Proper, pinned
<1>8. CASE f # "netlist"
  BY <1>1, <1>5, <1>6, <1>8 DEF Proper, pinned
<1> QED BY <1>7, <1>8

\* And so does the work of a tool.
LEMMA JobStays ==
  ASSUME Steady, NEW t, Job(t)
  PROVE  Job(t)'
<1>1. CASE t.todo = <<>>
  BY <1>1 DEF Job
<1>2. CASE \E a, b : Proper(a) /\ Proper(b) /\ (t.todo = <<a, b>> \/ t.todo = <<b>>)
  <2>1. PICK a, b : Proper(a) /\ Proper(b) /\ (t.todo = <<a, b>> \/ t.todo = <<b>>)
    BY <1>2
  <2>2. Proper(a)' /\ Proper(b)'
    BY <2>1, ProperStays
  <2> QED BY <2>1, <2>2, Zenon DEF Job
<1> QED BY <1>1, <1>2 DEF Job

\* A write is of something proper, and leaves a job.
LEMMA JobWrites ==
  ASSUME NEW t, Job(t), t.todo # <<>>
  PROVE  /\ Proper(Head(t.todo))
         /\ \A s : "todo" \in DOMAIN s /\ s.todo = Tail(t.todo) => Job(s)
<1>1. PICK a, b : Proper(a) /\ Proper(b) /\ (t.todo = <<a, b>> \/ t.todo = <<b>>)
  BY DEF Job
<1>2. CASE t.todo = <<a, b>>
  <2>1. Head(t.todo) = a /\ Tail(t.todo) = <<b>>
    BY <1>2, TwoLeft
  <2>2. \A s : "todo" \in DOMAIN s /\ s.todo = <<b>> => Job(s)
    BY <1>1, Zenon DEF Job
  <2> QED BY <1>1, <2>1, <2>2
<1>3. CASE t.todo = <<b>>
  <2>1. Head(t.todo) = b /\ Tail(t.todo) = <<>>
    BY <1>3, OneLeft
  <2> QED BY <1>1, <2>1 DEF Job
<1> QED BY <1>1, <1>2, <1>3

\* A file nobody writes stays as good as it was, and so does one removed.
LEMMA FiledStays ==
  ASSUME Steady, NEW f, file'[f] = file[f] \/ file'[f] = None, Filed(f)
  PROVE  Filed(f)'
<1>1. CASE file'[f] = None
  BY <1>1 DEF Filed
<1>2. CASE file'[f] = file[f] /\ file[f] # None
  <2>1. PICK w : w = Write(f, file[f])
    OBVIOUS
  <2>2. Proper(w)
    BY <1>2, <2>1 DEF Filed
  <2>3. Proper(w)'
    BY <2>2, ProperStays
  <2>4. w = Write(f, file'[f])
    BY <1>2, <2>1
  <2> QED BY <2>3, <2>4 DEF Filed
<1> QED BY <1>1, <1>2

\* Writing something proper.
LEMMA FiledWrites ==
  ASSUME Steady, FilesOk, NEW w, Proper(w), Put(w)
  PROVE  /\ FilesOk'
         /\ (file["netlist"] # None \/ w.to = "netlist") => file'["netlist"] # None
<1>1. /\ w.to \in Files /\ file' = [file EXCEPT ![w.to] = w.content]
      /\ DOMAIN file = Files /\ \A f \in Files : Filed(f)
  BY DEF Proper, Put, FilesOk
<1>2. ASSUME NEW f \in Files, f # w.to PROVE Filed(f)'
  <2>1. file'[f] = file[f] /\ Filed(f)
    BY <1>1, <1>2
  <2> QED BY <1>2, <2>1, FiledStays
<1>3. ASSUME NEW f, f = w.to PROVE Filed(f)'
  <2>1. file'[f] = w.content
    BY <1>1, <1>3
  <2>2. PICK v : v = Write(f, w.content)
    OBVIOUS
  <2>3. v.to = w.to /\ v.content = w.content
    BY <1>3, <2>2 DEF Write
  <2>4. Proper(v)
    BY <2>3 DEF Proper
  <2>5. Proper(v)'
    BY <2>4, ProperStays
  <2> QED BY <2>1, <2>2, <2>5 DEF Filed
<1>4. ASSUME w.to = "netlist" PROVE file'["netlist"] # None
  <2>1. file'["netlist"] = w.content /\ w.content.made # 0
    BY <1>1, <1>4 DEF Proper, NetlistOk
  <2>2. None.made = 0
    BY DEF None
  <2> QED BY <2>1, <2>2
<1>5. ASSUME file["netlist"] # None, w.to # "netlist" PROVE file'["netlist"] # None
  BY <1>1, <1>5 DEF Files
<1> QED BY <1>1, <1>2, <1>3, <1>4, <1>5 DEF FilesOk

\* A step that writes nothing and removes at most the bitstream.
LEMMA FilesStay ==
  ASSUME Steady, FilesOk,
         file' = file \/ file' = [file EXCEPT !["bit"] = None]
  PROVE  FilesOk' /\ (file["netlist"] # None => file'["netlist"] # None)
<1>1. DOMAIN file = Files /\ \A f \in Files : Filed(f)
  BY DEF FilesOk
<1>2. DOMAIN file' = Files /\ \A f \in Files : file'[f] = file[f] \/ file'[f] = None
  BY <1>1
<1>3. ASSUME NEW f \in Files PROVE Filed(f)'
  BY <1>1, <1>2, FiledStays
<1>4. file["netlist"] # None => file'["netlist"] # None
  BY <1>1 DEF Files
<1> QED BY <1>2, <1>3, <1>4 DEF FilesOk

\* A step that starts no tool, and leaves behind at most the one at work.
LEMMA JobsStay ==
  ASSUME Steady, JobsOk, tool' = tool \/ tool' = NoTool,
         \A t \in orphans' : t \in orphans \/ (t = tool /\ t.todo # <<>>)
  PROVE  JobsOk'
<1>1. Job(tool)'
  <2>1. CASE tool' = NoTool
    BY <2>1 DEF Job, NoTool
  <2>2. CASE tool' = tool
    <3>1. PICK t : t = tool
      OBVIOUS
    <3>2. Job(t)'
      BY <3>1, JobStays DEF JobsOk
    <3> QED BY <2>2, <3>1, <3>2
  <2> QED BY <2>1, <2>2
<1>2. ASSUME NEW t \in orphans' PROVE Job(t)' /\ t.todo # <<>>
  <2>1. Job(t) /\ t.todo # <<>>
    BY <1>2 DEF JobsOk
  <2> QED BY <2>1, JobStays
<1> QED BY <1>1, <1>2 DEF JobsOk

\* No step changes the design, and only an edit the sources.
LEMMA Steadies == [Next]_vars => Steady
BY DEF Next, Stages, Orphaned, vars, runVars, sources, Start, Probe, Check, Unlink, Timing,
  ToolWrites, ToolSucceeds, ToolFails, Timeout, StageFails, Kill, OrphanWrites, OrphanDies,
  Edit, Steady

\* Ways to go on that start no tool and write nothing.
Idles ==
  /\ tool' = tool \/ tool' = NoTool
  /\ \A t \in orphans' : t \in orphans \/ (t = tool /\ t.todo # <<>>)
  /\ file' = file \/ file' = [file EXCEPT !["bit"] = None]
  /\ pc' # "idle" => (runs' = runs /\ pc # "idle") \/ runs' = runs + 1
  /\ runs' = runs \/ runs' = runs + 1
  /\ pc' = "synth" => pc = "synth" /\ tool' = tool
  /\ pc' = "check" => file["netlist"] # None

\* These keep what was checked.
LEMMA IdlesKeep ==
  ASSUME CheckedInv, [Next]_vars, Idles
  PROVE  CheckedInv'
<1>1. Steady
  BY Steadies
<1>2. FilesOk' /\ (file["netlist"] # None => file'["netlist"] # None)
  BY <1>1, FilesStay DEF CheckedInv, Idles
<1>3. JobsOk'
  BY <1>1, JobsStay DEF CheckedInv, Idles
<1>4. Counts'
  BY <1>1 DEF CheckedInv, Idles, Counts, Steady
<1>5. NetlistThere'
  BY <1>2 DEF Idles, NetlistThere
<1>6. NetlistComes'
  <2> SUFFICES ASSUME pc' = "synth" PROVE NetlistComes'
    BY DEF NetlistComes
  <2>1. PICK a, b :
          /\ a.to = "netlist" /\ b.to = "netlist"
          /\ \/ tool.todo = <<a, b>>
             \/ file["netlist"] # None /\ (tool.todo = <<b>> \/ tool.todo = <<>>)
    BY DEF CheckedInv, Idles, NetlistComes
  <2>2. tool' = tool
    BY DEF Idles
  <2> QED BY <1>2, <2>1, <2>2, Zenon DEF NetlistComes
<1> QED BY <1>2, <1>3, <1>4, <1>5, <1>6 DEF CheckedInv

\* Most of the actions are of that kind.
LEMMA SomeIdle ==
  ASSUME CheckedInv,
         \/ Start \/ Unlink \/ ToolFails \/ Timeout \/ Kill \/ Edit \/ UNCHANGED vars
         \/ ToolSucceeds \/ (\E t \in orphans : OrphanDies(t))
         \/ (Probe /\ (Exit(1) \/ (Stay("check") /\ file["netlist"] # None /\ UNCHANGED tool)))
         \/ (Check /\ Exit(1)) \/ (Timing /\ (Exit(0) \/ Exit(1)))
  PROVE  Idles
<1> USE DEF Idles, Exit, Stay
<1>1. CASE Start
  BY <1>1 DEF Start
<1>2. CASE Unlink
  BY <1>2 DEF Unlink, Stale
<1>3. CASE ToolFails \/ Timeout
  BY <1>3 DEF ToolFails, Timeout, StageFails
<1>4. CASE Kill
  BY <1>4 DEF Kill
<1>5. CASE Edit \/ UNCHANGED vars
  BY <1>5 DEF Edit, vars, runVars, CheckedInv, NetlistThere
<1>6. CASE ToolSucceeds
  <2>1. pc = "synth" => file["netlist"] # None
    <3> SUFFICES ASSUME pc = "synth" PROVE file["netlist"] # None
      OBVIOUS
    <3>1. PICK a, b :
            /\ \/ tool.todo = <<a, b>>
               \/ file["netlist"] # None /\ (tool.todo = <<b>> \/ tool.todo = <<>>)
      BY DEF CheckedInv, NetlistComes
    <3>2. tool.todo = <<>>
      BY <1>6 DEF ToolSucceeds
    <3> QED BY <3>1, <3>2
  <2> QED BY <1>6, <2>1 DEF ToolSucceeds
<1>7. CASE \E t \in orphans : OrphanDies(t)
  BY <1>7 DEF OrphanDies, runVars, CheckedInv, NetlistThere
<1>8. CASE Probe /\ (Exit(1) \/ (Stay("check") /\ file["netlist"] # None /\ UNCHANGED tool))
  BY <1>8 DEF Probe
<1>9. CASE Check /\ Exit(1)
  BY <1>9 DEF Check
<1>10. CASE Timing /\ (Exit(0) \/ Exit(1))
  BY <1>10 DEF Timing
<1> QED BY <1>1, <1>2, <1>3, <1>4, <1>5, <1>6, <1>7, <1>8, <1>9, <1>10

\* A tool starts, with what it will write.
LEMMA Spawned ==
  ASSUME CheckedInv, Steady, file' = file, orphans' = orphans, runs' = runs, pc # "idle",
         NEW todo, Spawn(todo),
         \E a, b : Proper(a) /\ Proper(b) /\ (todo = <<a, b>> \/ todo = <<b>>),
         pc' # "check"
  PROVE  FilesOk' /\ JobsOk' /\ Counts' /\ NetlistThere'
<1>1. FilesOk'
  BY FilesStay DEF CheckedInv
<1>2. Job(tool)'
  <2>1. PICK t : t = [todo |-> todo, begun |-> FALSE]
    OBVIOUS
  <2>2. "todo" \in DOMAIN t /\ t.todo = todo
    BY <2>1
  <2>3. Job(t)
    BY <2>2, Zenon DEF Job
  <2>4. Job(t)'
    BY <2>3, JobStays
  <2> QED BY <2>1, <2>4 DEF Spawn
<1>3. ASSUME NEW t \in orphans' PROVE Job(t)' /\ t.todo # <<>>
  <2>1. Job(t) /\ t.todo # <<>>
    BY <1>3 DEF CheckedInv, JobsOk
  <2> QED BY <2>1, JobStays
<1>4. Counts'
  BY DEF CheckedInv, Counts, Steady
<1> QED BY <1>1, <1>2, <1>3, <1>4 DEF JobsOk, NetlistThere

\* yosys is given the design and the constant as they are.
LEMMA YosysProper ==
  ASSUME CheckedInv, pc = "probe", NEW n \in Netlists(top)
  PROVE  \E a, b : /\ Proper(a) /\ Proper(b) /\ a.to = "netlist" /\ b.to = "netlist"
                   /\ Yosys(n) = <<a, b>>
<1> DEFINE c == [made |-> runs, net |-> n, believes |-> declared, whole |-> TRUE]
<1>1. PICK d : d = [c EXCEPT !.whole = FALSE]
  OBVIOUS
<1>2. NetlistOk(c) /\ NetlistOk(d)
  BY <1>1 DEF NetlistOk, CheckedInv, Counts
<1>3. PICK a, b : a = Write("netlist", d) /\ b = Write("netlist", c)
  OBVIOUS
<1>4. Yosys(n) = <<a, b>>
  BY <1>1, <1>3, Zenon DEF Yosys
<1>5. a.to = "netlist" /\ b.to = "netlist" /\ a.content = d /\ b.content = c
  BY <1>3 DEF Write
<1> HIDE DEF c
<1>6. Proper(a) /\ Proper(b)
  BY <1>2, <1>5 DEF Proper, Files
<1> QED BY <1>4, <1>5, <1>6, Zenon

\* nextpnr is given a netlist that has just been checked.
LEMMA NextpnrProper ==
  ASSUME CheckedInv, pc = "check", CheckNetlist(file["netlist"]), NEW rep \in Timings
  PROVE  \E a, b : Proper(a) /\ Proper(b) /\ (Nextpnr(rep) = <<a, b>> \/ Nextpnr(rep) = <<b>>)
<1> DEFINE c == [made |-> runs, net |-> file["netlist"], rep |-> rep]
<1>1. NetlistOk(file["netlist"])
  <2>1. Filed("netlist") /\ file["netlist"] # None
    BY DEF CheckedInv, FilesOk, NetlistThere, Files
  <2> QED BY <2>1 DEF Filed, Proper, Write
<1>2. PllOk(file["netlist"].net)
  BY DEF CheckNetlist, CheckPrims, CheckPll, PllOk
<1>3. Checked(c)
  <2>1. c.made = runs /\ c.net = file["netlist"] /\ c.rep = rep
    OBVIOUS
  <2> HIDE DEF c
  <2> QED BY <1>1, <1>2, <2>1 DEF Checked, CheckNetlist, CheckedInv, Counts
<1> HIDE DEF c
<1>4. Proper(Write("report", c)) /\ Proper(Write("config", c))
  BY <1>3 DEF Proper, Write, Files
<1>5. \/ Nextpnr(rep) = <<Write("report", c), Write("config", c)>>
      \/ Nextpnr(rep) = <<Write("report", c)>>
  BY DEF Nextpnr, c
<1> QED BY <1>4, <1>5, Zenon

\* ecppack is given the configuration of such a netlist.
LEMMA EcppackProper ==
  ASSUME CheckedInv, pinned, file["config"] # None
  PROVE  \E a, b : Proper(a) /\ Proper(b) /\ Ecppack = <<a, b>>
<1> DEFINE c == [made |-> file["config"].made, net |-> file["config"].net,
                 rep |-> file["config"].rep, whole |-> TRUE]
<1>1. Checked(file["config"])
  <2>1. Filed("config")
    BY DEF CheckedInv, FilesOk, Files
  <2> QED BY <2>1 DEF Filed, Proper, Write
<1>2. PICK d : d = [c EXCEPT !.whole = FALSE]
  OBVIOUS
<1>3. Checked(c) /\ Checked(d)
  <2>1. c.made = d.made /\ c.net = d.net /\ c.rep = d.rep
    BY <1>2
  <2>2. /\ c.made = file["config"].made /\ c.net = file["config"].net
        /\ c.rep = file["config"].rep
    OBVIOUS
  <2> HIDE DEF c
  <2> QED BY <1>1, <2>1, <2>2 DEF Checked
<1>4. PICK a, b : a = Write("bit", d) /\ b = Write("bit", c)
  OBVIOUS
<1>5. Ecppack = <<a, b>>
  BY <1>2, <1>4, Zenon DEF Ecppack
<1>6. a.to = "bit" /\ b.to = "bit" /\ a.content = d /\ b.content = c
  BY <1>4 DEF Write
<1> HIDE DEF c
<1>7. Proper(a) /\ Proper(b)
  BY <1>3, <1>6 DEF Proper, Files
<1> QED BY <1>5, <1>7, Zenon

\* Every action keeps it: no unchecked netlist gets further, whoever writes.
LEMMA NextChecked == CheckedInv /\ [Next]_vars => CheckedInv'
<1> SUFFICES ASSUME CheckedInv, [Next]_vars PROVE CheckedInv'
  OBVIOUS
<1>0. Steady
  BY Steadies
<1>1. CASE Probe /\ ~Idles
  <2>1. PICK n \in Netlists(top) : Spawn(Yosys(n)) /\ Stay("synth") /\ pc = "probe"
                                 /\ file' = file /\ orphans' = orphans /\ runs' = runs
    BY <1>1, SomeIdle DEF Probe
  <2>2. PICK a, b : /\ Proper(a) /\ Proper(b) /\ a.to = "netlist" /\ b.to = "netlist"
                    /\ Yosys(n) = <<a, b>>
    BY <2>1, YosysProper
  <2>3. PICK todo : todo = Yosys(n)
    OBVIOUS
  <2>4. FilesOk' /\ JobsOk' /\ Counts' /\ NetlistThere'
    BY <1>0, <2>1, <2>2, <2>3, Spawned DEF Stay
  <2>5. NetlistComes'
    BY <2>1, <2>2 DEF NetlistComes, Spawn
  <2> QED BY <2>4, <2>5 DEF CheckedInv
<1>2. CASE Check /\ ~Idles
  <2>1. PICK rep \in Timings :
          /\ Spawn(Nextpnr(rep)) /\ Stay("pnr") /\ pc = "check" /\ CheckNetlist(file["netlist"])
          /\ file' = file /\ orphans' = orphans /\ runs' = runs
    BY <1>2, SomeIdle DEF Check
  <2>2. PICK todo : todo = Nextpnr(rep)
    OBVIOUS
  <2>3. FilesOk' /\ JobsOk' /\ Counts' /\ NetlistThere'
    BY <1>0, <2>1, <2>2, NextpnrProper, Spawned DEF Stay
  <2> QED BY <2>1, <2>3 DEF CheckedInv, NetlistComes, Stay
<1>3. CASE Timing /\ ~Idles
  <2>1. /\ Spawn(Ecppack) /\ Stay("pack") /\ pc = "timing" /\ pinned /\ file["config"] # None
        /\ file' = file /\ orphans' = orphans /\ runs' = runs
    BY <1>3, SomeIdle DEF Timing
  <2>2. PICK todo : todo = Ecppack
    OBVIOUS
  <2>3. FilesOk' /\ JobsOk' /\ Counts' /\ NetlistThere'
    BY <1>0, <2>1, <2>2, EcppackProper, Spawned DEF Stay
  <2> QED BY <2>1, <2>3 DEF CheckedInv, NetlistComes, Stay
<1>4. CASE ToolWrites
  <2>1. PICK w : w = Head(tool.todo)
    OBVIOUS
  <2>2. Put(w) /\ tool.todo # <<>> /\ Job(tool)
    BY <1>4, <2>1 DEF ToolWrites, CheckedInv, JobsOk
  <2>3. PICK s : s = tool'
    OBVIOUS
  <2>4. "todo" \in DOMAIN s /\ s.todo = Tail(tool.todo)
    BY <1>4, <2>3 DEF ToolWrites
  <2>5. Proper(w) /\ Job(s)
    BY <2>1, <2>2, <2>4, JobWrites
  <2>6. /\ FilesOk'
        /\ (file["netlist"] # None \/ w.to = "netlist") => file'["netlist"] # None
    BY <1>0, <2>2, <2>5, FiledWrites DEF CheckedInv
  <2>7. JobsOk'
    <3>1. Job(s)'
      BY <1>0, <2>5, JobStays
    <3>2. ASSUME NEW t \in orphans' PROVE Job(t)' /\ t.todo # <<>>
      <4>1. Job(t) /\ t.todo # <<>>
        BY <1>4, <3>2 DEF ToolWrites, CheckedInv, JobsOk
      <4> QED BY <1>0, <4>1, JobStays
    <3> QED BY <2>3, <3>1, <3>2 DEF JobsOk
  <2>8. Counts'
    BY <1>0, <1>4 DEF ToolWrites, runVars, CheckedInv, Counts, Steady
  <2>9. NetlistThere'
    BY <1>4, <2>6 DEF ToolWrites, runVars, CheckedInv, NetlistThere
  <2>10. ASSUME pc' = "synth" PROVE NetlistComes'
    <3>1. pc = "synth"
      BY <1>4, <2>10 DEF ToolWrites, runVars
    <3>2. PICK a, b :
            /\ a.to = "netlist" /\ b.to = "netlist"
            /\ tool.todo = <<a, b>> \/ tool.todo = <<b>>
      BY <2>2, <3>1 DEF CheckedInv, NetlistComes
    <3>3. w.to = "netlist"
      BY <2>1, <3>2, OneLeft, TwoLeft
    <3>4. tool'.todo = <<b>> \/ tool'.todo = <<>>
      BY <2>3, <2>4, <3>2, OneLeft, TwoLeft, Zenon
    <3> QED BY <2>6, <3>2, <3>3, <3>4, Zenon DEF NetlistComes
  <2>11. NetlistComes'
    BY <2>10 DEF NetlistComes
  <2> QED BY <2>6, <2>7, <2>8, <2>9, <2>11 DEF CheckedInv
<1>5. ASSUME NEW t \in orphans, OrphanWrites(t) PROVE CheckedInv'
  <2>1. PICK w : w = Head(t.todo)
    OBVIOUS
  <2>2. PICK s : s = [t EXCEPT !.todo = Tail(@)]
    OBVIOUS
  <2>3. Put(w) /\ t.todo # <<>> /\ Job(t)
    BY <1>5, <2>1 DEF OrphanWrites, CheckedInv, JobsOk
  <2>4. "todo" \in DOMAIN s /\ s.todo = Tail(t.todo)
    BY <2>2, <2>3 DEF Job
  <2>5. Proper(w) /\ Job(s)
    BY <2>1, <2>3, <2>4, JobWrites
  <2>6. /\ FilesOk'
        /\ (file["netlist"] # None \/ w.to = "netlist") => file'["netlist"] # None
    BY <1>0, <2>3, <2>5, FiledWrites DEF CheckedInv
  <2>7. JobsOk'
    <3>1. tool' = tool /\ \A u \in orphans' : u \in orphans \/ (u = s /\ s.todo # <<>>)
      BY <1>5, <2>2 DEF OrphanWrites
    <3>2. ASSUME NEW u \in orphans' PROVE Job(u)' /\ u.todo # <<>>
      <4>1. Job(u) /\ u.todo # <<>>
        BY <2>5, <3>1, <3>2 DEF CheckedInv, JobsOk
      <4> QED BY <1>0, <4>1, JobStays
    <3>3. PICK u : u = tool
      OBVIOUS
    <3>4. Job(u)'
      BY <1>0, <3>3, JobStays DEF CheckedInv, JobsOk
    <3> QED BY <3>1, <3>2, <3>3, <3>4 DEF JobsOk
  <2>8. pc' = pc /\ runs' = runs /\ tool' = tool
    BY <1>5 DEF OrphanWrites, runVars
  <2>9. Counts' /\ NetlistThere'
    BY <1>0, <2>6, <2>8 DEF CheckedInv, Counts, NetlistThere, Steady
  <2>10. NetlistComes'
    <3> SUFFICES ASSUME pc' = "synth" PROVE NetlistComes'
      BY DEF NetlistComes
    <3>1. PICK a, b :
            /\ a.to = "netlist" /\ b.to = "netlist"
            /\ \/ tool.todo = <<a, b>>
               \/ file["netlist"] # None /\ (tool.todo = <<b>> \/ tool.todo = <<>>)
      BY <2>8 DEF CheckedInv, NetlistComes
    <3> QED BY <2>6, <2>8, <3>1, Zenon DEF NetlistComes
  <2> QED BY <2>6, <2>7, <2>9, <2>10 DEF CheckedInv
<1>6. CASE Idles
  BY <1>6, IdlesKeep
<1> QED
  BY <1>1, <1>2, <1>3, <1>4, <1>5, <1>6, SomeIdle DEF Next, Stages, Orphaned

\* The empty directory holds nothing unchecked.
LEMMA InitChecked == Init => CheckedInv
<1> SUFFICES ASSUME Init PROVE CheckedInv
  OBVIOUS
<1>1. FilesOk
  BY DEF Init, FilesOk, Filed
<1>2. JobsOk
  BY DEF Init, JobsOk, Job, NoTool
<1> QED BY <1>1, <1>2 DEF Init, CheckedInv, Counts, NetlistComes, NetlistThere

-----------------------------------------------------------------------------
(* Whose timing was judged. *)

\* Report and configuration come of one placement.
PnrRep ==
  pc = "pnr" /\ alone /\ pinned =>
    \E a, b :
      /\ a.to = "report" /\ b.to = "config" /\ a.content.rep = b.content.rep
      /\ \/ tool.todo = <<a, b>>
         \/ tool.todo = <<b>> /\ file["report"].rep = b.content.rep
         \/ tool.todo = <<>> /\ file["report"].rep = file["config"].rep
TimedRep ==
  pc \in {"unlink", "timing"} /\ alone /\ pinned => file["report"].rep = file["config"].rep

\* ecppack works from a configuration whose report has passed.
Judged(c) == CheckTiming(c.rep)
PackRep ==
  pc = "pack" /\ alone =>
    /\ pinned
    /\ \E a, b :
         /\ a.to = "bit" /\ b.to = "bit"
         /\ Judged(a.content) /\ Judged(b.content) /\ b.content.whole
         /\ \/ tool.todo = <<a, b>> \/ tool.todo = <<b>>
            \/ tool.todo = <<>> /\ file["bit"].whole

CalmBit ==
  calm /\ file["bit"] # None =>
    pinned /\ Judged(file["bit"]) /\ (file["bit"].whole \/ pc = "pack")

JudgedInv == PnrRep /\ TimedRep /\ PackRep /\ CalmBit

\* Nor anything not judged.
LEMMA InitJudged == Init => JudgedInv
BY DEF Init, JudgedInv, PnrRep, TimedRep, PackRep, CalmBit, Files

\* Every action keeps it.
LEMMA NextJudged == IInv /\ JudgedInv /\ [Next]_vars => JudgedInv'
<1> SUFFICES ASSUME IInv, JudgedInv, [Next]_vars PROVE JudgedInv'
  OBVIOUS
<1>0. DirInv /\ AloneInv /\ SynthInv
  BY DEF IInv
<1>1. top' = top /\ pinned' = pinned /\ \A c : Judged(c)' = Judged(c)
  BY Steadies DEF Steady, pinned, Judged, CheckTiming, real
<1>2. CASE Start
  <2>1. CalmBit'
    BY <1>1, <1>2 DEF Start, Stay, JudgedInv, CalmBit
  <2> QED BY <1>2, <2>1 DEF Start, Stay, JudgedInv, PnrRep, TimedRep, PackRep
<1>3. CASE Probe
  <2>1. CalmBit'
    BY <1>1, <1>3 DEF Probe, Exit, Stay, JudgedInv, CalmBit
  <2> QED BY <1>3, <2>1 DEF Probe, Exit, Stay, JudgedInv, PnrRep, TimedRep, PackRep
<1>4. CASE Check
  <2>1. CalmBit'
    BY <1>1, <1>4 DEF Check, Exit, Stay, JudgedInv, CalmBit
  <2>2. TimedRep' /\ PackRep'
    BY <1>4 DEF Check, Exit, Stay, TimedRep, PackRep
  <2>3. PnrRep'
    <3> SUFFICES ASSUME pc' = "pnr", pinned' PROVE PnrRep'
      BY DEF PnrRep
    <3>1. PICK rep : Spawn(Nextpnr(rep))
      BY <1>4 DEF Check, Exit
    <3> DEFINE c == [made |-> runs, net |-> file["netlist"], rep |-> rep]
    <3>2. PICK a, b : a = Write("report", c) /\ b = Write("config", c)
      OBVIOUS
    <3>3. tool'.todo = <<a, b>>
      BY <1>1, <3>1, <3>2 DEF Spawn, Nextpnr
    <3>4. a.to = "report" /\ b.to = "config" /\ a.content.rep = b.content.rep
      BY <3>2 DEF Write
    <3> QED BY <3>3, <3>4 DEF PnrRep
  <2> QED BY <2>1, <2>2, <2>3 DEF JudgedInv
<1>5. CASE Unlink
  <2>1. file'["bit"] = None /\ file'["report"] = file["report"] /\ file'["config"] = file["config"]
    BY <1>0, <1>5 DEF Unlink, Stale, DirInv, Files
  <2> QED BY <1>1, <1>5, <2>1 DEF Unlink, Stay, JudgedInv, PnrRep, TimedRep, PackRep, CalmBit
<1>6. CASE Timing
  <2>1. CalmBit'
    BY <1>1, <1>6 DEF Timing, Exit, Stay, JudgedInv, CalmBit
  <2>2. TimedRep' /\ PnrRep'
    BY <1>6 DEF Timing, Exit, Stay, TimedRep, PnrRep
  <2>3. PackRep'
    <3> SUFFICES ASSUME pc' = "pack", alone' PROVE PackRep'
      BY DEF PackRep
    <3>1. PassesTiming /\ pinned /\ Spawn(Ecppack) /\ alone /\ pc = "timing"
      BY <1>6 DEF Timing, Exit
    <3>2. CheckTiming(file["config"].rep)
      BY <3>1 DEF PassesTiming, JudgedInv, TimedRep
    <3> DEFINE c == [made |-> file["config"].made, net |-> file["config"].net,
                     rep |-> file["config"].rep, whole |-> TRUE]
    <3>3. PICK d : d = [c EXCEPT !.whole = FALSE]
      OBVIOUS
    <3>4. PICK a, b : a = Write("bit", d) /\ b = Write("bit", c)
      OBVIOUS
    <3>5. Ecppack = <<a, b>>
      BY <3>3, <3>4, Zenon DEF Ecppack
    <3>6. c.rep = file["config"].rep /\ d.rep = file["config"].rep /\ c.whole
      BY <3>3
    <3>7. a.to = "bit" /\ b.to = "bit" /\ a.content = d /\ b.content = c
      BY <3>4 DEF Write
    <3> HIDE DEF c
    <3>8. Judged(a.content) /\ Judged(b.content) /\ b.content.whole
      BY <3>2, <3>6, <3>7 DEF Judged
    <3>9. tool'.todo = <<a, b>>
      BY <3>1, <3>5 DEF Spawn
    <3> QED BY <1>1, <3>1, <3>7, <3>8, <3>9 DEF PackRep
  <2> QED BY <2>1, <2>2, <2>3 DEF JudgedInv
<1>7. CASE ToolWrites
  <2>1. tool.todo # <<>> /\ calm' = calm
    BY <1>7 DEF ToolWrites
  <2>2. CASE pc = "synth"
    <3>1. PICK w : w.to = "netlist" /\ Head(tool.todo) = w
      BY <1>0, <2>1, <2>2, OneLeft, TwoLeft DEF SynthInv
    <3>2. file'["bit"] = file["bit"] /\ pc' = "synth"
      BY <1>0, <1>7, <2>2, <3>1, Writing DEF Files
    <3> QED BY <1>1, <2>1, <2>2, <3>2 DEF JudgedInv, PnrRep, TimedRep, PackRep, CalmBit
  <2>3. CASE pc = "pnr"
    <3>1. PICK w : (w.to = "report" \/ w.to = "config") /\ Head(tool.todo) = w
      <4>1. PICK a, b : Routing(a, b)
        BY <2>3 DEF IInv, PnrInv
      <4>2. tool.todo = <<a, b>> \/ tool.todo = <<a>> \/ tool.todo = <<b>>
        BY <2>1, <4>1 DEF Routing
      <4> QED BY <4>1, <4>2, OneLeft, TwoLeft DEF Routing, Report, Config
    <3>2. file'["bit"] = file["bit"] /\ pc' = "pnr" /\ alone' = alone
      BY <1>0, <1>7, <2>3, <3>1, Writing DEF Files
    <3>3. CalmBit'
      BY <1>1, <2>1, <2>3, <3>2 DEF JudgedInv, CalmBit
    <3>4. ASSUME alone, pinned PROVE PnrRep'
      <4>1. PICK a, b :
              /\ a.to = "report" /\ b.to = "config" /\ a.content.rep = b.content.rep
              /\ \/ tool.todo = <<a, b>>
                 \/ tool.todo = <<b>> /\ file["report"].rep = b.content.rep
        BY <2>1, <2>3, <3>4 DEF JudgedInv, PnrRep
      <4>2. CASE tool.todo = <<a, b>>
        <5>1. Head(tool.todo) = a /\ tool'.todo = <<b>>
          BY <1>0, <1>7, <4>2, TwoLeft, Writing
        <5>2. file'["report"] = a.content
          BY <1>0, <1>7, <4>1, <5>1, Writing DEF Files
        <5> QED BY <4>1, <5>1, <5>2 DEF PnrRep
      <4>3. CASE tool.todo = <<b>> /\ file["report"].rep = b.content.rep
        <5>1. Head(tool.todo) = b /\ tool'.todo = <<>>
          BY <1>0, <1>7, <4>3, OneLeft, Writing
        <5>2. file'["config"] = b.content /\ file'["report"] = file["report"]
          BY <1>0, <1>7, <4>1, <5>1, Writing DEF Files
        <5> QED BY <4>1, <4>3, <5>1, <5>2 DEF PnrRep
      <4> QED BY <4>1, <4>2, <4>3
    <3>5. ASSUME ~(alone /\ pinned) PROVE PnrRep'
      BY <1>1, <3>2, <3>5 DEF PnrRep
    <3> QED BY <3>2, <3>3, <3>4, <3>5 DEF JudgedInv, TimedRep, PackRep
  <2>4. CASE pc = "pack"
    <3>1. pc' = "pack" /\ alone' = alone
      BY <1>0, <1>7, <2>4, Writing
    <3>2. ASSUME alone PROVE PackRep' /\ CalmBit'
      <4>1. PICK a, b :
              /\ pinned
              /\ a.to = "bit" /\ b.to = "bit"
              /\ Judged(a.content) /\ Judged(b.content) /\ b.content.whole
              /\ tool.todo = <<a, b>> \/ tool.todo = <<b>>
        BY <2>1, <2>4, <3>2 DEF JudgedInv, PackRep
      <4>2. Judged(a.content)' /\ Judged(b.content)'
        BY <1>1, <4>1
      <4>3. CASE tool.todo = <<a, b>>
        <5>1. Head(tool.todo) = a /\ tool'.todo = <<b>>
          BY <1>0, <1>7, <4>3, TwoLeft, Writing
        <5>2. file'["bit"] = a.content
          BY <1>0, <1>7, <4>1, <5>1, Writing DEF Files
        <5> QED BY <1>1, <3>1, <4>1, <4>2, <5>1, <5>2 DEF PackRep, CalmBit
      <4>4. CASE tool.todo = <<b>>
        <5>1. Head(tool.todo) = b /\ tool'.todo = <<>>
          BY <1>0, <1>7, <4>4, OneLeft, Writing
        <5>2. file'["bit"] = b.content
          BY <1>0, <1>7, <4>1, <5>1, Writing DEF Files
        <5> QED BY <1>1, <3>1, <4>1, <4>2, <5>1, <5>2 DEF PackRep, CalmBit
      <4> QED BY <4>1, <4>3, <4>4
    <3>3. ASSUME ~alone PROVE PackRep' /\ CalmBit'
      BY <1>0, <2>1, <2>4, <3>1, <3>3 DEF AloneInv, PackRep, CalmBit
    <3> QED BY <3>1, <3>2, <3>3 DEF JudgedInv, PnrRep, TimedRep
  <2> QED BY <1>7, <2>2, <2>3, <2>4 DEF ToolWrites, ToolStage
<1>8. CASE ToolSucceeds
  <2>1. tool.todo = <<>> /\ file' = file /\ calm' = calm /\ alone' = alone
    BY <1>8 DEF ToolSucceeds
  <2>2. CASE pc = "synth"
    BY <1>1, <1>8, <2>1, <2>2 DEF ToolSucceeds, Stay, JudgedInv, PnrRep, TimedRep, PackRep, CalmBit
  <2>3. CASE pc = "pnr"
    BY <1>1, <1>8, <2>1, <2>3 DEF ToolSucceeds, Stay, JudgedInv, PnrRep, TimedRep, PackRep, CalmBit
  <2>4. CASE pc = "pack"
    <3>1. pc' = "idle"
      BY <1>8, <2>4 DEF ToolSucceeds, Exit
    <3>2. ASSUME calm, file["bit"] # None PROVE file["bit"].whole
      BY <1>0, <2>1, <2>4, <3>2 DEF AloneInv, JudgedInv, PackRep
    <3> QED BY <1>1, <2>1, <3>1, <3>2 DEF JudgedInv, PnrRep, TimedRep, PackRep, CalmBit
  <2> QED BY <1>8, <2>2, <2>3, <2>4 DEF ToolSucceeds
<1>9. CASE ToolFails \/ Timeout
  <2>1. /\ pc' = "idle" /\ (calm' => calm)
        /\ file' = IF Truncated THEN [file EXCEPT !["bit"] = None] ELSE file
    <3>1. CASE ToolFails
      BY <3>1, Zenon DEF ToolFails, StageFails, Exit
    <3>2. CASE Timeout
      <4>1. calm' = (calm /\ ~tool.begun) /\ StageFails(TimedOut)
        BY <3>2 DEF Timeout
      <4> QED BY <4>1, Zenon DEF StageFails, Exit
    <3> QED BY <1>9, <3>1, <3>2
  <2>2. pc = "pack" => file'["bit"] = None
    BY <1>0, <2>1 DEF Truncated, DirInv, Files
  <2>3. pc # "pack" => file'["bit"] = file["bit"]
    BY <2>1 DEF Truncated
  <2> QED BY <1>1, <2>1, <2>2, <2>3 DEF JudgedInv, PnrRep, TimedRep, PackRep, CalmBit
<1>10. CASE Kill
  BY <1>10 DEF Kill, Exit, JudgedInv, PnrRep, TimedRep, PackRep, CalmBit
<1>11. ASSUME NEW t \in orphans, OrphanWrites(t) \/ OrphanDies(t) PROVE JudgedInv'
  <2>1. ~calm /\ (pc # "idle" => ~alone)
    BY <1>0 DEF AloneInv
  <2>2. calm' = calm /\ pc' = pc /\ alone' = alone
    BY <1>11 DEF OrphanWrites, OrphanDies, runVars
  <2> QED BY <2>1, <2>2 DEF JudgedInv, PnrRep, TimedRep, PackRep, CalmBit
<1>12. CASE Edit \/ UNCHANGED vars
  <2>1. UNCHANGED <<file, pc, alone, tool, calm>>
    BY <1>12 DEF Edit, vars, runVars
  <2>2. ASSUME pc = "pnr", alone, pinned PROVE PnrRep'
    <3>1. PICK a, b :
            /\ a.to = "report" /\ b.to = "config" /\ a.content.rep = b.content.rep
            /\ \/ tool.todo = <<a, b>>
               \/ tool.todo = <<b>> /\ file["report"].rep = b.content.rep
               \/ tool.todo = <<>> /\ file["report"].rep = file["config"].rep
      BY <2>2 DEF JudgedInv, PnrRep
    <3> QED BY <2>1, <3>1 DEF PnrRep
  <2>3. ASSUME pc = "pack", alone PROVE PackRep'
    <3>1. PICK a, b :
            /\ pinned
            /\ a.to = "bit" /\ b.to = "bit"
            /\ Judged(a.content) /\ Judged(b.content) /\ b.content.whole
            /\ \/ tool.todo = <<a, b>> \/ tool.todo = <<b>>
               \/ tool.todo = <<>> /\ file["bit"].whole
      BY <2>3 DEF JudgedInv, PackRep
    <3> QED BY <1>1, <2>1, <3>1 DEF PackRep
  <2>4. TimedRep' /\ CalmBit'
    BY <1>1, <2>1 DEF JudgedInv, TimedRep, CalmBit
  <2>5. PackRep' /\ PnrRep'
    BY <1>1, <2>1, <2>2, <2>3 DEF PackRep, PnrRep
  <2> QED BY <2>4, <2>5 DEF JudgedInv
<1> QED
  BY <1>2, <1>3, <1>4, <1>5, <1>6, <1>7, <1>8, <1>9, <1>10, <1>11, <1>12
  DEF Next, Stages, Orphaned

\* All three invariants together.
LEMMA Strong == Spec => [](IInv /\ CheckedInv /\ JudgedInv)
BY InitIInv, NextIInv, InitChecked, NextChecked, InitJudged, NextJudged, PTL DEF Spec

-----------------------------------------------------------------------------
(* What the checks amount to. *)

\* Stripped of promotion and pad, a clock's name is its net: so a clock is
\* compared exactly when the constraint is on its net.
LEMMA RealIsByNet ==
  ASSUME NEW rep \in Timings, NEW c \in rep.clocks
  PROVE  real(rep, c) <=> <<net_of(c.name)>> \in rep.real
<1> DEFINE x == net_of(c.name)
<1>1. /\ x \notin {"glb", "io"}
      /\ c.name \in {<<x>>, <<"glb", x>>, <<x, "io">>, <<"glb", x, "io">>}
  BY TimingsAssumption
<1>2. ASSUME NEW n \in rep.real PROVE n = <<n[1]>>
  BY <1>2, TimingsAssumption
<1> HIDE DEF x
<1>3. bare_clock_name(c.name) = <<x>>
  <2>1. CASE c.name = <<x>> \/ c.name = <<x, "io">>
    <3>1. c.name[1] = x
      BY <2>1
    <3> QED BY <1>1, <3>1 DEF bare_clock_name
  <2>2. CASE c.name = <<"glb", x>> \/ c.name = <<"glb", x, "io">>
    <3>1. c.name[1] = "glb"
      BY <2>2
    <3>2. Tail(c.name)[1] = x
      <4>1. \A y : Tail(<<"glb", y>>)[1] = y /\ Tail(<<"glb", y, "io">>)[1] = y
        OBVIOUS
      <4> QED BY <2>2, <4>1
    <3> QED BY <3>1, <3>2 DEF bare_clock_name
  <2> QED BY <1>1, <2>1, <2>2
<1>4. ASSUME c.name \in rep.real PROVE <<x>> \in rep.real
  <2>1. Len(c.name) = 1
    <3>1. c.name = <<c.name[1]>>
      BY <1>2, <1>4
    <3>2. \A y : Len(<<y>>) = 1
      OBVIOUS
    <3> QED BY <3>1, <3>2
  <2>2. c.name = <<x>>
    BY <1>1, <2>1
  <2> QED BY <1>4, <2>2
<1> QED BY <1>3, <1>4 DEF real, x

\* A sequence of one is its head.
LEMMA OneElement ==
  ASSUME NEW S, NEW s \in Seq(S), Len(s) = 1
  PROVE  s = <<Head(s)>>
<1>1. s # <<>> /\ s[1] \in S
  BY ElementOfSeq
<1>2. PICK h \in S : h = Head(s) /\ h = s[1]
  BY <1>1, HeadTailProperties
<1>3. <<h>> \in Seq(S) /\ Len(<<h>>) = 1 /\ <<h>>[1] = h
  OBVIOUS
<1>4. \A i \in 1..Len(s) : s[i] = <<h>>[i]
  BY <1>2, <1>3
<1>5. s = <<h>>
  BY <1>3, <1>4, SeqEqual
<1> QED BY <1>2, <1>5

\* The count and the first PLL make the list.
LEMMA PllsAreDescribed ==
  ASSUME top \in Tops, NEW n \in Netlists(top), PllOk(n), top \in DOMAIN NETLIST_PLL_PARAMS
  PROVE  n.plls = <<NETLIST_PLL_PARAMS[top]>> /\ n.plls[1] = Head(n.plls)
<1>1. top \in DOMAIN NETLIST_PRIM_COUNT /\ NETLIST_PRIM_COUNT[top] = 1
  BY DEF NETLIST_PLL_PARAMS, NETLIST_PRIM_COUNT
<1>2. Len(n.plls) = 1 /\ Head(n.plls) = NETLIST_PLL_PARAMS[top]
  BY <1>1 DEF PllOk
<1>3. n.plls \in Seq({n.plls[k] : k \in DOMAIN n.plls})
  BY NetlistsAssumption
<1>4. n.plls = <<Head(n.plls)>>
  BY <1>2, <1>3, OneElement
<1>5. n.plls[1] = Head(n.plls)
  BY <1>4
<1> QED BY <1>2, <1>4, <1>5

\* The floors and the total of a design with pins are set so that a
\* flip-flop held at its value brings one of them down.
LossesShow ==
  \A n \in Netlists(top) : pinned /\ CheckStorage(n) => \A g \in n.flops : ~g.held

\* Whatever was killed, timed out, edited or written by a run long gone, a
\* bitstream is of a design with pins, and of a netlist that was whole and
\* passed the census and the PLL check. (check_netlist)
THEOREM BitsWereChecked == Spec => [](file["bit"] # None => pinned /\ Checked(file["bit"]))
<1>1. CheckedInv => (file["bit"] # None => pinned /\ Checked(file["bit"]))
  BY DEF CheckedInv, FilesOk, Files, Filed, Proper, Write
<1> QED BY <1>1, Strong, PTL

\* Where runs were not interfered with, that and the timing check make the
\* bitstream sound; where the sources stayed as they were, it knows its clock.
THEOREM BitsAreSound == Spec /\ []LossesShow => []BitIsSound
<1>1. CheckedInv /\ JudgedInv /\ LossesShow => BitIsSound
  <2> SUFFICES ASSUME CheckedInv, JudgedInv, LossesShow, file["bit"] # None
               PROVE  BitIsSound
    BY DEF BitIsSound, BitKnowsItsClock
  <2> DEFINE b == file["bit"]
  <2>1. pinned /\ Checked(b) /\ top \in Tops
    BY DEF CheckedInv, FilesOk, Files, Filed, Proper, Write, Counts
  <2>2. /\ b.net.net \in Netlists(top) /\ CheckStorage(b.net.net) /\ PllOk(b.net.net)
        /\ b.rep \in Timings /\ (~edited => b.net.believes = declared)
    BY <2>1 DEF Checked, NetlistOk
  <2>3. top \in DOMAIN NETLIST_PLL_PARAMS => b.net.net.plls = <<NETLIST_PLL_PARAMS[top]>>
    BY <2>1, <2>2, PllsAreDescribed
  <2>4. ASSUME calm PROVE Sound(b)
    <3>1. Judged(b) /\ (b.whole \/ pc = "pack")
      BY <2>4 DEF JudgedInv, CalmBit
    <3>2. /\ \A c \in b.rep.clocks : real(b.rep, c) => c.met
          /\ \E c \in b.rep.clocks : real(b.rep, c)
      BY <2>1, <3>1 DEF Judged, CheckTiming
    <3>3. \A c \in b.rep.clocks : real(b.rep, c) <=> <<net_of(c.name)>> \in b.rep.real
      BY <2>2, RealIsByNet
    <3>4. \A g \in b.net.net.flops : ~g.held
      BY <2>1, <2>2 DEF LossesShow
    <3> HIDE DEF b
    <3> QED BY <2>3, <3>1, <3>2, <3>3, <3>4 DEF Sound
  <2>5. ASSUME ~edited PROVE BitKnowsItsClock
    <3> SUFFICES ASSUME top \in TOP_CLK_SYS_CONST
                 PROVE  b.net.believes = clk_sys(b.net.net.plls[1])
      BY DEF BitKnowsItsClock
    <3>1. top \in DOMAIN NETLIST_PLL_PARAMS /\ top \in DOMAIN NETLIST_PRIM_COUNT
      BY DEF TOP_CLK_SYS_CONST, NETLIST_PLL_PARAMS, NETLIST_PRIM_COUNT
    <3>2. CheckClkSysConst(Head(b.net.net.plls))
      BY <2>2, <2>5, <3>1 DEF PllOk
    <3>3. b.net.net.plls[1] = Head(b.net.net.plls)
      BY <2>1, <2>2, <3>1, PllsAreDescribed
    <3>4. declared = clk_sys(Head(b.net.net.plls))
      BY <3>2 DEF CheckClkSysConst
    <3> QED BY <2>2, <2>5, <3>3, <3>4
  <2> QED BY <2>4, <2>5 DEF BitIsSound
<1> QED BY <1>1, Strong, PTL
=============================================================================
