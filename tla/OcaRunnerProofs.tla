--------------------------- MODULE OcaRunnerProofs ---------------------------
(***************************************************************************)
(* Proofs about OcaRunner, for any number of runners, any guards in the    *)
(* sources and any environment, as long as each runs a program of hw/sim.  *)
(*                                                                         *)
(* The programs are tables, but all of one form: a suite is four steps     *)
(* that stand together, models are built where nothing else is built, only *)
(* the verdict exits 0. Programs of that form join to programs of that     *)
(* form, hence each run_*.py has it. The invariants then follow a process  *)
(* through its program: the guards it has seen, what its testbench was     *)
(* told, and, where nobody ran beside it, the results its suites left.     *)
(***************************************************************************)
EXTENDS OcaRunner, FiniteSetTheorems, SequenceTheorems, TLAPS

-----------------------------------------------------------------------------
(* The programs. *)

\* Any of the run_*.py, run_dual_fabric.py with any override.
OfTheTree(s) ==
  \/ s \in {run_fifo, run_slip_tx, run_console, run_uart_rx, run_uart_echo, run_uart_console,
            run_keystore, run_chacha20_poly1305, run_dirty_pad, run_secret_zeroise,
            run_oca_core, run_aead_cycles, run_attack, run_uart_crypto, run_uart_crypto_dual,
            run_uart_tx, run_crypto_pll, run_chacha20, run_poly1305, run_pktbuf, run_slip_rx,
            run_clkrst, run_keystore_gate, run_proto_gate}
  \/ \E given \in BOOLEAN, override, divergent \in BOOLEAN :
       s = run_dual_fabric(given, override, divergent)

\* What the tree's own sources are built as, directory by directory.
OwnModel(dir) ==
  IF dir = "" THEN run_chacha20[1].model
  ELSE [fifo |-> run_fifo[1].model, slip_tx |-> run_slip_tx[1].model,
        console |-> run_console[1].model, uart_rx |-> run_uart_rx[1].model,
        uart_echo |-> run_uart_echo[1].model, uart_console |-> run_uart_console[1].model,
        keystore |-> run_keystore[1].model, aead |-> run_chacha20_poly1305[1].model,
        dirty_pad |-> run_dirty_pad[1].model,
        secret_zeroise |-> run_secret_zeroise[1].model,
        core |-> run_oca_core[1].model, aead_cycles |-> run_aead_cycles[1].model,
        attack |-> run_attack[1].model, uart_crypto |-> run_uart_crypto[1].model,
        uart_crypto_dual |-> run_uart_crypto_dual[1].model,
        uart_tx |-> run_uart_tx[1].model, crypto_pll |-> run_crypto_pll[2].model,
        _r2 |-> run_chacha20[5].model, poly |-> run_poly1305[1].model,
        poly_r5 |-> run_poly1305[5].model,
        pktbuf |-> run_pktbuf[3].model, pktbuf_small |-> run_pktbuf[8].model,
        slip_rx |-> run_slip_rx[3].model, slip_rx_small |-> run_slip_rx[8].model,
        clkrst |-> run_clkrst[2].model, keystore_gate |-> run_keystore_gate[2].model,
        proto_gate |-> run_proto_gate[2].model,
        dual_fabric |-> run_dual_fabric(FALSE, {}, FALSE)[2].model][dir]

\* A model is of the files its top ships with, and a directory is for one model
\* of the tree's own sources or for mutated ones.
Proper(m) ==
  /\ m.dir \in Dirs
  /\ m.top \in DOMAIN DESIGNS => m.files \cup m.cells = DESIGNS[m.top]
  /\ IF m.mutated = {} THEN m.dir # "dual_fabric_mut" /\ m = OwnModel(m.dir)
     ELSE m.dir = "dual_fabric_mut" /\ m.value = Default

Listed(s) == s \in Seq({s[k] : k \in 1..Len(s)})

\* A testbench that is told a parameter was told the one it is meant to be.
Told(s, k) ==
  /\ s[k - 2].model.value \in {Default, s[k].bench}
  /\ \E j \in 1..(k - 1) :
       /\ s[j].do = "setenv" /\ s[j].value = s[k].bench
       /\ \A i \in (j + 1)..(k - 1) : s[i].do # "setenv"

\* A suite is four steps that stand together, the verdict is the last step, and
\* nothing else exits 0.
Sequenced(s, k) ==
  /\ s[k].do = "build" =>
       /\ k + 3 \in 1..Len(s) /\ s[k + 1].do = "unlink" /\ s[k + 2].do = "simulate"
       /\ s[k + 2].dir = s[k].model.dir /\ s[k + 3].do = "grade"
  /\ s[k].do = "unlink" => k - 1 \in 1..Len(s) /\ s[k - 1].do = "build"
  /\ s[k].do = "simulate" => k - 2 \in 1..Len(s) /\ s[k - 2].do = "build"
  /\ s[k].do = "grade" => k - 3 \in 1..Len(s) /\ s[k - 3].do = "build"
  /\ s[k].do = "verdict" => k = Len(s)
  /\ s[k].do = "exit" => s[k].code \in Nat \ {0}

\* The guards whose refusal is read from an exit code (run_pktbuf.py, run_slip_rx.py).
ReadByExitCode == {"pktbuf.BYTES", "slip_rx.BYTES", "slip_rx.MIN_BYTES"}
Sound(s, k) ==
  /\ Sequenced(s, k)
  /\ s[k].do = "build" => Proper(s[k].model)
  /\ s[k].do = "guard" => s[k].named \/ s[k].names \subseteq ReadByExitCode
  /\ s[k].do = "simulate" /\ s[k].bench # Untold => Told(s, k)

\* The form of a program; a part of one has no verdict yet.
Formed(s) == Listed(s) /\ \A k \in 1..Len(s) : Sound(s, k)
Unfinished(s) == \A k \in 1..Len(s) : s[k].do # "verdict"

\* A sequence is a sequence of its own elements.
LEMMA SeqListed ==
  ASSUME NEW S, NEW s \in Seq(S)
  PROVE  Listed(s)
<1>1. DOMAIN s = 1..Len(s) /\ Len(s) \in Nat
  OBVIOUS
<1>2. s \in [1..Len(s) -> {s[k] : k \in 1..Len(s)}]
  BY <1>1
<1> QED BY <1>1, <1>2, IsASeq DEF Listed

\* The elements of two sequences joined.
LEMMA Joined ==
  ASSUME NEW a, NEW b, Listed(a), Listed(b)
  PROVE  /\ Listed(a \o b) /\ Len(a \o b) = Len(a) + Len(b)
         /\ Len(a) \in Nat /\ Len(b) \in Nat
         /\ \A k \in 1..Len(a) : (a \o b)[k] = a[k]
         /\ \A k \in 1..Len(b) : (a \o b)[Len(a) + k] = b[k]
<1> PICK S, T : a \in Seq(S) /\ b \in Seq(T)
  BY DEF Listed
<1> a \in Seq(S \cup T) /\ b \in Seq(S \cup T)
  OBVIOUS
<1> PICK c : c = a \o b
  OBVIOUS
<1>1. /\ c \in Seq(S \cup T) /\ Len(c) = Len(a) + Len(b) /\ Len(a) \in Nat /\ Len(b) \in Nat
      /\ \A k \in 1..Len(a) : c[k] = a[k]
  OBVIOUS
<1>2. \A k \in 1..Len(b) : c[Len(a) + k] = b[k]
  OBVIOUS
<1>3. Listed(c)
  BY <1>1, SeqListed
<1> QED BY <1>1, <1>2, <1>3

\* The steps of s around k are those of t around i.
Around(s, k, t, i) ==
  /\ k \in 1..Len(s) /\ s[k] = t[i]
  /\ i + 3 \in 1..Len(t) => /\ k + 3 \in 1..Len(s) /\ s[k + 1] = t[i + 1]
                            /\ s[k + 2] = t[i + 2] /\ s[k + 3] = t[i + 3]
  /\ i - 1 \in 1..Len(t) => k - 1 \in 1..Len(s) /\ s[k - 1] = t[i - 1]
  /\ i - 2 \in 1..Len(t) => k - 2 \in 1..Len(s) /\ s[k - 2] = t[i - 2]
  /\ i - 3 \in 1..Len(t) => k - 3 \in 1..Len(s) /\ s[k - 3] = t[i - 3]

\* The order of the steps is kept where a program is moved as a whole.
LEMMA SequencedMoved ==
  ASSUME NEW t, NEW i, Sequenced(t, i), NEW s, NEW k, Around(s, k, t, i),
         t[i].do = "verdict" => k = Len(s)
  PROVE  Sequenced(s, k)
<1>1. t[i].do = "build" =>
        /\ k + 3 \in 1..Len(s) /\ s[k + 1].do = "unlink" /\ s[k + 2].do = "simulate"
        /\ s[k + 2].dir = s[k].model.dir /\ s[k + 3].do = "grade"
  BY Zenon DEF Sequenced, Around
<1>2. t[i].do = "unlink" => k - 1 \in 1..Len(s) /\ s[k - 1].do = "build"
  BY Zenon DEF Sequenced, Around
<1>3. t[i].do = "simulate" => k - 2 \in 1..Len(s) /\ s[k - 2].do = "build"
  BY Zenon DEF Sequenced, Around
<1>4. t[i].do = "grade" => k - 3 \in 1..Len(s) /\ s[k - 3].do = "build"
  BY Zenon DEF Sequenced, Around
<1>5. t[i].do = "exit" => t[i].code \in Nat \ {0}
  BY Zenon DEF Sequenced
<1> QED BY <1>1, <1>2, <1>3, <1>4, <1>5, Zenon DEF Sequenced, Around

\* Two programs of the form, the first without a verdict, join to one of the form.
LEMMA FormedJoined ==
  ASSUME NEW a, NEW b, Formed(a), Unfinished(a), Formed(b)
  PROVE  Formed(a \o b) /\ (Unfinished(b) => Unfinished(a \o b))
<1> PICK s : s = a \o b
  OBVIOUS
<1>1. /\ Listed(s) /\ Len(s) = Len(a) + Len(b) /\ Len(a) \in Nat /\ Len(b) \in Nat
      /\ \A k \in 1..Len(a) : s[k] = a[k]
      /\ \A k \in 1..Len(b) : s[Len(a) + k] = b[k]
  BY Joined DEF Formed
<1>2. ASSUME NEW k \in 1..Len(a) PROVE Sound(s, k) /\ s[k].do # "verdict"
  <2>1. Sound(a, k) /\ s[k] = a[k] /\ k \in 1..Len(s) /\ s[k].do # "verdict"
    BY <1>1 DEF Formed, Unfinished
  <2>2. Sequenced(s, k)
    <3>1. Around(s, k, a, k)
      <4>1. k + 3 \in 1..Len(a) =>
              /\ k + 1 \in 1..Len(a) /\ k + 2 \in 1..Len(a)
              /\ k + 3 \in 1..Len(s)
        BY <1>1
      <4>2. 1..Len(a) \subseteq 1..Len(s)
        BY <1>1
      <4> QED BY <1>1, <2>1, <4>1, <4>2, Zenon DEF Around
    <3>2. Sequenced(a, k)
      BY <2>1 DEF Sound
    <3> QED BY <2>1, <3>1, <3>2, SequencedMoved, Zenon
  <2>3. ASSUME s[k].do = "simulate", s[k].bench # Untold PROVE Told(s, k)
    <3>1. k - 2 \in 1..Len(a) /\ Told(a, k)
      BY <2>1, <2>3 DEF Sound, Sequenced
    <3>2. PICK j \in 1..(k - 1) :
            /\ a[j].do = "setenv" /\ a[j].value = a[k].bench
            /\ \A i \in (j + 1)..(k - 1) : a[i].do # "setenv"
      BY <3>1 DEF Told
    <3>3. j \in 1..Len(a) /\ \A i \in (j + 1)..(k - 1) : i \in 1..Len(a)
      BY <1>1
    <3>4. s[j] = a[j] /\ s[k - 2] = a[k - 2] /\ \A i \in (j + 1)..(k - 1) : s[i] = a[i]
      BY <1>1, <3>1, <3>3
    <3>5. s[j].do = "setenv" /\ s[j].value = s[k].bench
          /\ \A i \in (j + 1)..(k - 1) : s[i].do # "setenv"
      BY <2>1, <3>2, <3>4
    <3> QED BY <2>1, <3>1, <3>4, <3>5 DEF Told
  <2> QED BY <2>1, <2>2, <2>3 DEF Sound
<1>3. ASSUME NEW i \in 1..Len(b) PROVE Sound(s, Len(a) + i)
  <2>0. PICK k : k = Len(a) + i
    OBVIOUS
  <2>1. Sound(b, i) /\ s[k] = b[i] /\ k \in 1..Len(s)
    BY <1>1, <2>0 DEF Formed
  <2>2. ASSUME NEW d \in {-3, -2, -1, 1, 2, 3}, i + d \in 1..Len(b)
        PROVE  k + d \in 1..Len(s) /\ s[k + d] = b[i + d]
    <3>1. k + d = Len(a) + (i + d)
      BY <1>1, <2>0
    <3> QED BY <1>1, <2>2, <3>1
  <2>3. Around(s, k, b, i)
    <3>1. i + 3 \in 1..Len(b) =>
            /\ k + 3 \in 1..Len(s) /\ s[k + 1] = b[i + 1]
            /\ s[k + 2] = b[i + 2] /\ s[k + 3] = b[i + 3]
      <4>1. i + 3 \in 1..Len(b) => i + 1 \in 1..Len(b) /\ i + 2 \in 1..Len(b)
        BY <1>1
      <4> QED BY <2>2, <4>1
    <3>2. /\ i - 1 = i + (-1) /\ i - 2 = i + (-2) /\ i - 3 = i + (-3)
          /\ k - 1 = k + (-1) /\ k - 2 = k + (-2) /\ k - 3 = k + (-3)
      BY <1>1, <2>0
    <3>3. i - 1 \in 1..Len(b) => k - 1 \in 1..Len(s) /\ s[k - 1] = b[i - 1]
      BY <2>2, <3>2
    <3>4. i - 2 \in 1..Len(b) => k - 2 \in 1..Len(s) /\ s[k - 2] = b[i - 2]
      BY <2>2, <3>2
    <3>5. i - 3 \in 1..Len(b) => k - 3 \in 1..Len(s) /\ s[k - 3] = b[i - 3]
      BY <2>2, <3>2
    <3> QED BY <2>1, <3>1, <3>3, <3>4, <3>5, Zenon DEF Around
  <2>4. Sequenced(s, k)
    <3>1. b[i].do = "verdict" => k = Len(s)
      BY <1>1, <2>0, <2>1 DEF Sound, Sequenced
    <3>2. Sequenced(b, i)
      BY <2>1 DEF Sound
    <3> QED BY <2>1, <2>3, <3>1, <3>2, SequencedMoved, Zenon
  <2>5. ASSUME s[k].do = "simulate", s[k].bench # Untold PROVE Told(s, k)
    <3>1. i - 2 \in 1..Len(b) /\ Told(b, i)
      BY <2>1, <2>5 DEF Sound, Sequenced
    <3>2. PICK j \in 1..(i - 1) :
            /\ b[j].do = "setenv" /\ b[j].value = b[i].bench
            /\ \A h \in (j + 1)..(i - 1) : b[h].do # "setenv"
      BY <3>1 DEF Told
    <3>3. PICK l : l = Len(a) + j
      OBVIOUS
    <3>4. l \in 1..(k - 1) /\ s[l] = b[j]
      BY <1>1, <2>0, <3>3
    <3>5. ASSUME NEW h \in (l + 1)..(k - 1) PROVE s[h].do # "setenv"
      <4>1. h - Len(a) \in (j + 1)..(i - 1) /\ h - Len(a) \in 1..Len(b)
            /\ h = Len(a) + (h - Len(a))
        BY <1>1, <2>0, <3>3
      <4> QED BY <1>1, <3>2, <4>1
    <3>6. s[k - 2] = b[i - 2]
      BY <2>3, <3>1, Zenon DEF Around
    <3>7. s[l].do = "setenv" /\ s[l].value = s[k].bench
      BY <2>1, <3>2, <3>4
    <3> QED BY <2>1, <3>1, <3>4, <3>5, <3>6, <3>7 DEF Told
  <2> QED BY <2>0, <2>1, <2>4, <2>5 DEF Sound
<1>4. \A k \in 1..Len(s) : k \in 1..Len(a) \/ \E i \in 1..Len(b) : k = Len(a) + i
  <2> SUFFICES ASSUME NEW k \in 1..Len(s), k \notin 1..Len(a)
               PROVE  k - Len(a) \in 1..Len(b) /\ k = Len(a) + (k - Len(a))
    OBVIOUS
  <2> QED BY <1>1
<1> QED BY <1>1, <1>2, <1>3, <1>4 DEF Formed, Unfinished

\* A step that is no part of a suite stands for itself.
LEMMA FormedAlone ==
  ASSUME NEW e, e.do \in {"guard", "map", "setenv", "verdict", "exit"},
         e.do = "guard" => e.named \/ e.names \subseteq ReadByExitCode,
         e.do = "exit" => e.code \in Nat \ {0}
  PROVE  Formed(<<e>>) /\ (e.do # "verdict" => Unfinished(<<e>>))
<1> PICK s : s = <<e>>
  OBVIOUS
<1>1. Listed(s) /\ Len(s) = 1 /\ s[1] = e
  BY DEF Listed
<1>2. Sequenced(s, 1)
  BY <1>1 DEF Sequenced
<1>3. Sound(s, 1)
  BY <1>1, <1>2 DEF Sound
<1>4. \A k \in 1..Len(s) : k = 1
  BY <1>1
<1> QED BY <1>1, <1>3, <1>4 DEF Formed, Unfinished

\* The steps around the suites are of the form.
LEMMA FormedSteps ==
  /\ Formed(Verdict)
  /\ \A v : Formed(SetEnv(v)) /\ Unfinished(SetEnv(v))
  /\ \A mod : Formed(Map(mod)) /\ Unfinished(Map(mod))
  /\ \A g : Formed(Guard(g, TRUE)) /\ Unfinished(Guard(g, TRUE))
  /\ \A g \in SUBSET ReadByExitCode : Formed(Guard(g, FALSE)) /\ Unfinished(Guard(g, FALSE))
<1>1. Formed(Verdict)
  BY FormedAlone DEF Verdict
<1>2. ASSUME NEW v PROVE Formed(SetEnv(v)) /\ Unfinished(SetEnv(v))
  BY FormedAlone DEF SetEnv
<1>3. ASSUME NEW mod PROVE Formed(Map(mod)) /\ Unfinished(Map(mod))
  BY FormedAlone DEF Map
<1>4. ASSUME NEW g PROVE Formed(Guard(g, TRUE)) /\ Unfinished(Guard(g, TRUE))
  BY FormedAlone DEF Guard
<1>5. ASSUME NEW g \in SUBSET ReadByExitCode
      PROVE  Formed(Guard(g, FALSE)) /\ Unfinished(Guard(g, FALSE))
  BY FormedAlone DEF Guard
<1> QED BY <1>1, <1>2, <1>3, <1>4, <1>5

\* The four steps of a suite.
LEMMA SuiteIs ==
  ASSUME NEW m, NEW b
  PROVE  LET s == Suite(m, b)
         IN  /\ Listed(s) /\ Len(s) = 4 /\ s[1] = [do |-> "build", model |-> m]
             /\ s[2] = [do |-> "unlink"]
             /\ s[3] = [do |-> "simulate", dir |-> m.dir, bench |-> b] /\ s[4] = [do |-> "grade"]
BY DEF Suite, Listed

\* A suite whose testbench is told nothing is of the form.
LEMMA SuiteFormed ==
  ASSUME NEW m, Proper(m)
  PROVE  Formed(Suite(m, Untold)) /\ Unfinished(Suite(m, Untold))
<1> PICK s : s = Suite(m, Untold)
  OBVIOUS
<1>1. /\ Listed(s) /\ Len(s) = 4 /\ s[1] = [do |-> "build", model |-> m]
      /\ s[2] = [do |-> "unlink"]
      /\ s[3] = [do |-> "simulate", dir |-> m.dir, bench |-> Untold] /\ s[4] = [do |-> "grade"]
  BY SuiteIs
<1>2. Sequenced(s, 1) /\ Sequenced(s, 2) /\ Sequenced(s, 3) /\ Sequenced(s, 4)
  BY <1>1 DEF Sequenced
<1>3. Sound(s, 1) /\ Sound(s, 2) /\ Sound(s, 3) /\ Sound(s, 4)
  BY <1>1, <1>2 DEF Sound
<1>4. \A k \in 1..Len(s) : k = 1 \/ k = 2 \/ k = 3 \/ k = 4
  BY <1>1
<1> QED BY <1>1, <1>3, <1>4 DEF Formed, Unfinished

\* So is one whose testbench is told the value its model was built with.
LEMMA ToldSuiteFormed ==
  ASSUME NEW m, Proper(m), NEW b, m.value \in {Default, b}
  PROVE  Formed(SetEnv(b) \o Suite(m, b)) /\ Unfinished(SetEnv(b) \o Suite(m, b))
<1> PICK s : s = SetEnv(b) \o Suite(m, b)
  OBVIOUS
<1>0. Listed(s)
  <2>1. Listed(SetEnv(b))
    BY DEF SetEnv, Listed
  <2> QED BY <2>1, SuiteIs, Joined
<1>1. /\ Len(s) = 5 /\ s[1] = [do |-> "setenv", value |-> b]
      /\ s[2] = [do |-> "build", model |-> m] /\ s[3] = [do |-> "unlink"]
      /\ s[4] = [do |-> "simulate", dir |-> m.dir, bench |-> b] /\ s[5] = [do |-> "grade"]
  BY DEF SetEnv, Suite
<1>2. Sequenced(s, 1) /\ Sequenced(s, 2) /\ Sequenced(s, 3) /\ Sequenced(s, 4) /\ Sequenced(s, 5)
  BY <1>1 DEF Sequenced
<1>3. Told(s, 4)
  <2>1. /\ s[1].do = "setenv" /\ s[1].value = s[4].bench
        /\ \A i \in (1 + 1)..(4 - 1) : s[i].do # "setenv"
    BY <1>1
  <2>2. 4 - 2 = 2 /\ 1 \in 1..(4 - 1)
    OBVIOUS
  <2> QED BY <1>1, <2>1, <2>2 DEF Told
<1>5. Sound(s, 1) /\ Sound(s, 2) /\ Sound(s, 3) /\ Sound(s, 4) /\ Sound(s, 5)
  BY <1>1, <1>2, <1>3 DEF Sound
<1>4. \A k \in 1..Len(s) : k = 1 \/ k = 2 \/ k = 3 \/ k = 4 \/ k = 5
  BY <1>1
<1> QED BY <1>0, <1>1, <1>5, <1>4 DEF Formed, Unfinished

\* What a design of the tables ships with; the other tops are in no table.
LEMMA Designs ==
  /\ DESIGNS["oca_slip_tx"] = {"oca_slip_tx"} /\ DESIGNS["oca_slip_rx"] = {"oca_slip_rx"}
  /\ DESIGNS["chacha20"] = {"chacha20"} /\ DESIGNS["poly1305"] = {"poly1305"}
  /\ DESIGNS["chacha20_poly1305"] = ENGINE /\ DESIGNS["oca_core"] = CORE
  /\ DESIGNS["oca_uart_crypto"] = CORE \cup SERIAL \cup {"oca_uart_crypto"}
  /\ DESIGNS["oca_uart_echo"] = {"oca_uart_rx", "oca_uart_tx8", "oca_uart_echo"}
  /\ DESIGNS["oca_uart_console"] =
       {"oca_uart_rx", "oca_uart_tx8", "oca_fifo", "oca_console", "oca_uart_console"}
  /\ DESIGNS["oca_crypto_pll"] = CRYPTO_PLL
  /\ {"oca_fifo", "oca_console", "oca_uart_rx", "oca_keystore", "oca_uart_crypto_dual",
      "oca_uart_tx", "oca_pktbuf", "oca_clkrst", "oca_dual_harness"}
       \cap DOMAIN DESIGNS = {}
BY DEF DESIGNS, PINNED, OUT_OF_CONTEXT

\* The files are those of the design, if it is one of the tables.
Ships(top, files) == top \in DOMAIN DESIGNS => files = DESIGNS[top]

\* A model of the tree's own sources, where they are built, is proper.
LEMMA OwnProper ==
  ASSUME NEW top, NEW files, NEW dir \in Dirs \ {"dual_fabric_mut"}, NEW value,
         Ships(top, files), OwnModel(dir) = Model(top, files, dir, value)
  PROVE  Proper(Model(top, files, dir, value)) /\ Model(top, files, dir, value).value = value
BY DEF Proper, Model, Ships

\* A runner of one suite is of the form.
LEMMA PlainFormed ==
  ASSUME NEW top, NEW files, NEW dir \in Dirs \ {"dual_fabric_mut"},
         Ships(top, files), OwnModel(dir) = Plain(top, files, dir)[1].model
  PROVE  Formed(Plain(top, files, dir))
<1>1. Plain(top, files, dir)[1].model = Model(top, files, dir, Default)
  BY DEF Plain, Suite, Verdict
<1>2. Proper(Model(top, files, dir, Default))
  BY <1>1, OwnProper
<1> QED BY <1>2, SuiteFormed, FormedSteps, FormedJoined DEF Plain

\* Fifteen runners are of one suite.
LEMMA PlainRuns ==
  /\ Formed(run_fifo)
  /\ Formed(run_slip_tx)
  /\ Formed(run_console)
  /\ Formed(run_uart_rx)
  /\ Formed(run_uart_echo)
  /\ Formed(run_uart_console)
  /\ Formed(run_keystore)
  /\ Formed(run_chacha20_poly1305)
  /\ Formed(run_dirty_pad)
  /\ Formed(run_secret_zeroise)
  /\ Formed(run_oca_core)
  /\ Formed(run_aead_cycles)
  /\ Formed(run_attack)
  /\ Formed(run_uart_crypto)
  /\ Formed(run_uart_crypto_dual)
<1>1. Formed(run_fifo)
  BY PlainFormed, Designs DEF run_fifo, OwnModel, Dirs, Ships
<1>2. Formed(run_slip_tx)
  BY PlainFormed, Designs DEF run_slip_tx, OwnModel, Dirs, Ships
<1>3. Formed(run_console)
  BY PlainFormed, Designs DEF run_console, OwnModel, Dirs, Ships
<1>4. Formed(run_uart_rx)
  BY PlainFormed, Designs DEF run_uart_rx, OwnModel, Dirs, Ships
<1>5. Formed(run_uart_echo)
  BY PlainFormed, Designs DEF run_uart_echo, OwnModel, Dirs, Ships
<1>6. Formed(run_uart_console)
  BY PlainFormed, Designs DEF run_uart_console, OwnModel, Dirs, Ships
<1>7. Formed(run_keystore)
  BY PlainFormed, Designs DEF run_keystore, OwnModel, Dirs, Ships
<1>8. Formed(run_chacha20_poly1305)
  BY PlainFormed, Designs DEF run_chacha20_poly1305, OwnModel, Dirs, Ships
<1>9. Formed(run_dirty_pad)
  BY PlainFormed, Designs DEF run_dirty_pad, OwnModel, Dirs, Ships
<1>10. Formed(run_secret_zeroise)
  BY PlainFormed, Designs DEF run_secret_zeroise, OwnModel, Dirs, Ships
<1>11. Formed(run_oca_core)
  BY PlainFormed, Designs DEF run_oca_core, OwnModel, Dirs, Ships
<1>12. Formed(run_aead_cycles)
  BY PlainFormed, Designs DEF run_aead_cycles, OwnModel, Dirs, Ships
<1>13. Formed(run_attack)
  BY PlainFormed, Designs DEF run_attack, OwnModel, Dirs, Ships
<1>14. Formed(run_uart_crypto)
  BY PlainFormed, Designs DEF run_uart_crypto, OwnModel, Dirs, Ships
<1>15. Formed(run_uart_crypto_dual)
  BY PlainFormed, Designs DEF run_uart_crypto_dual, OwnModel, Dirs, Ships
<1> QED BY <1>1, <1>2, <1>3, <1>4, <1>5, <1>6, <1>7, <1>8, <1>9,
       <1>10, <1>11, <1>12, <1>13, <1>14, <1>15

Part(s) == Formed(s) /\ Unfinished(s)

\* A suite in a directory of its own, and one whose testbench is told.
LEMMA SuiteOfOwn ==
  ASSUME NEW top, NEW files, NEW dir \in Dirs \ {"dual_fabric_mut"}, NEW value,
         NEW m, m = Model(top, files, dir, value), Ships(top, files), OwnModel(dir) = m
  PROVE  Part(Suite(m, Untold)) /\ Part(SetEnv(value) \o Suite(m, value))
<1>1. Proper(m) /\ m.value \in {Default, value}
  BY OwnProper
<1> QED BY <1>1, SuiteFormed, ToldSuiteFormed DEF Part

\* Where the suites that follow find the directories and the files.
LEMMA OwnDirs ==
  {"uart_tx", "crypto_pll", "", "_r2", "poly", "poly_r5", "pktbuf", "pktbuf_small",
   "slip_rx", "slip_rx_small"} \subseteq Dirs \ {"dual_fabric_mut"}
BY DEF Dirs

\* Files that are a design of their own.
LEMMA ShipsAlone ==
  /\ Ships("oca_uart_tx", {"oca_uart_tx"}) /\ Ships("chacha20", {"chacha20"})
  /\ Ships("poly1305", {"poly1305"}) /\ Ships("oca_pktbuf", {"oca_pktbuf"})
  /\ Ships("oca_slip_rx", {"oca_slip_rx"})
BY Designs DEF Ships

\* run_uart_tx.py, which sets a divisor.
LEMMA UartTxFormed == Formed(run_uart_tx)
<1> PICK m : m = Model("oca_uart_tx", {"oca_uart_tx"}, "uart_tx", 17)
  OBVIOUS
<1>1. run_uart_tx = Suite(m, Untold) \o Verdict
  BY DEF run_uart_tx
<1>2. OwnModel("uart_tx") = m
  BY <1>1 DEF OwnModel, Suite, Verdict
<1>3. Part(Suite(m, Untold))
  BY <1>2, SuiteOfOwn, ShipsAlone, OwnDirs
<1> QED BY <1>1, <1>3, FormedJoined, FormedSteps DEF Part

\* run_crypto_pll.py, whose testbench is told the divisor.
LEMMA CryptoPllFormed == Formed(run_crypto_pll)
<1> PICK m : m = Model("oca_crypto_pll",
                       CORE \cup SERIAL \cup {"ecp5_prims", "oca_clkrst", "oca_uart_crypto",
                                              "oca_crypto_pll"}, "crypto_pll", 8)
  OBVIOUS
<1>1. run_crypto_pll = SetEnv(8) \o Suite(m, 8) \o Verdict
  BY DEF run_crypto_pll
<1>2. OwnModel("crypto_pll") = m
  BY <1>1 DEF OwnModel, SetEnv, Suite, Verdict
<1>4. Ships("oca_crypto_pll", CORE \cup SERIAL \cup {"ecp5_prims", "oca_clkrst",
                                                      "oca_uart_crypto", "oca_crypto_pll"})
  BY Designs DEF Ships, CRYPTO_PLL
<1>3. Part(SetEnv(8) \o Suite(m, 8))
  BY <1>2, <1>4, SuiteOfOwn, OwnDirs
<1> QED BY <1>1, <1>3, FormedJoined, FormedSteps DEF Part

\* The suite of a file, twice.
LEMMA TwiceFormed ==
  ASSUME NEW top, NEW files, Ships(top, files),
         NEW d1 \in Dirs \ {"dual_fabric_mut"}, NEW d2 \in Dirs \ {"dual_fabric_mut"},
         NEW v, NEW w, NEW s,
         s = Suite(Model(top, files, d1, v), Untold)
             \o Suite(Model(top, files, d2, w), Untold) \o Verdict,
         OwnModel(d1) = s[1].model, OwnModel(d2) = s[5].model
  PROVE  Formed(s)
<1> PICK m : m = Model(top, files, d1, v)
  OBVIOUS
<1> PICK n : n = Model(top, files, d2, w)
  OBVIOUS
<1>1. s = Suite(m, Untold) \o Suite(n, Untold) \o Verdict
  OBVIOUS
<1>2. s[1].model = m /\ s[5].model = n
  BY <1>1 DEF Suite, Verdict
<1>3. Part(Suite(m, Untold)) /\ Part(Suite(n, Untold))
  BY <1>2, SuiteOfOwn
<1>4. Part(Suite(m, Untold) \o Suite(n, Untold))
  BY <1>3, FormedJoined DEF Part
<1> QED BY <1>1, <1>4, FormedJoined, FormedSteps DEF Part

\* run_chacha20.py and run_poly1305.py, each suite at two parameters.
LEMMA Chacha20Formed == Formed(run_chacha20)
<1>1. OwnModel("") = run_chacha20[1].model /\ OwnModel("_r2") = run_chacha20[5].model
  BY DEF OwnModel
<1> QED BY <1>1, TwiceFormed, ShipsAlone, OwnDirs DEF run_chacha20

LEMMA Poly1305Formed == Formed(run_poly1305)
<1>1. OwnModel("poly") = run_poly1305[1].model /\ OwnModel("poly_r5") = run_poly1305[5].model
  BY DEF OwnModel
<1> QED BY <1>1, TwiceFormed, ShipsAlone, OwnDirs DEF run_poly1305

\* The suite of a file, at two sizes and after its guards.
LEMMA SizedFormed ==
  ASSUME NEW g \in SUBSET ReadByExitCode, NEW top, NEW files, Ships(top, files),
         NEW d1 \in Dirs \ {"dual_fabric_mut"}, NEW d2 \in Dirs \ {"dual_fabric_mut"},
         NEW v, NEW w, NEW s,
         s = Guard(g, FALSE) \o (SetEnv(v) \o Suite(Model(top, files, d1, v), v))
             \o (SetEnv(w) \o Suite(Model(top, files, d2, w), w)) \o Verdict,
         OwnModel(d1) = s[3].model, OwnModel(d2) = s[8].model
  PROVE  Formed(s)
<1> PICK m : m = Model(top, files, d1, v)
  OBVIOUS
<1> PICK n : n = Model(top, files, d2, w)
  OBVIOUS
<1>1. s = Guard(g, FALSE) \o (SetEnv(v) \o Suite(m, v)) \o (SetEnv(w) \o Suite(n, w)) \o Verdict
  OBVIOUS
<1>2. s[3].model = m
  BY <1>1 DEF Guard, SetEnv, Suite, Verdict
<1>3. s[8].model = n
  BY <1>1 DEF Guard, SetEnv, Suite, Verdict
<1> PICK a : a = SetEnv(v) \o Suite(m, v)
  OBVIOUS
<1> PICK b : b = SetEnv(w) \o Suite(n, w)
  OBVIOUS
<1>4. Part(a) /\ Part(b)
  BY <1>2, <1>3, SuiteOfOwn
<1>5. Part(Guard(g, FALSE) \o a)
  BY <1>4, FormedJoined, FormedSteps DEF Part
<1>6. Part(Guard(g, FALSE) \o a \o b)
  BY <1>4, <1>5, FormedJoined DEF Part
<1>7. Formed(Guard(g, FALSE) \o a \o b \o Verdict)
  BY <1>6, FormedJoined, FormedSteps DEF Part
<1> QED BY <1>1, <1>7

\* run_pktbuf.py and run_slip_rx.py: refused sizes, then two of them.
LEMMA PktbufFormed == Formed(run_pktbuf)
<1>1. OwnModel("pktbuf") = run_pktbuf[3].model /\ OwnModel("pktbuf_small") = run_pktbuf[8].model
  BY DEF OwnModel
<1>5. PICK v : v = 2048
  OBVIOUS
<1>6. PICK w : w = 16
  OBVIOUS
<1>2. run_pktbuf =
        Guard({"pktbuf.BYTES"}, FALSE)
        \o (SetEnv(v) \o Suite(Model("oca_pktbuf", {"oca_pktbuf"}, "pktbuf", v), v))
        \o (SetEnv(w) \o Suite(Model("oca_pktbuf", {"oca_pktbuf"}, "pktbuf_small", w), w))
        \o Verdict
  BY <1>5, <1>6 DEF run_pktbuf, pktbuf_run_at
<1>3. /\ {"pktbuf.BYTES"} \in SUBSET ReadByExitCode
      /\ "pktbuf" \in Dirs \ {"dual_fabric_mut"}
      /\ "pktbuf_small" \in Dirs \ {"dual_fabric_mut"}
  BY OwnDirs DEF ReadByExitCode
<1>4. Ships("oca_pktbuf", {"oca_pktbuf"})
  BY ShipsAlone
<1> QED BY <1>1, <1>2, <1>3, <1>4, SizedFormed, Zenon

LEMMA SlipRxFormed == Formed(run_slip_rx)
<1>1. OwnModel("slip_rx") = run_slip_rx[3].model
      /\ OwnModel("slip_rx_small") = run_slip_rx[8].model
  BY DEF OwnModel
<1>5. PICK v : v = 2048
  OBVIOUS
<1>6. PICK w : w = 64
  OBVIOUS
<1>2. run_slip_rx =
        Guard({"slip_rx.BYTES", "slip_rx.MIN_BYTES"}, FALSE)
        \o (SetEnv(v) \o Suite(Model("oca_slip_rx", {"oca_slip_rx"}, "slip_rx", v), v))
        \o (SetEnv(w) \o Suite(Model("oca_slip_rx", {"oca_slip_rx"}, "slip_rx_small", w), w))
        \o Verdict
  BY <1>5, <1>6 DEF run_slip_rx, slip_rx_run_at
<1>3. /\ {"slip_rx.BYTES", "slip_rx.MIN_BYTES"} \in SUBSET ReadByExitCode
      /\ "slip_rx" \in Dirs \ {"dual_fabric_mut"}
      /\ "slip_rx_small" \in Dirs \ {"dual_fabric_mut"}
  BY OwnDirs DEF ReadByExitCode
<1>4. Ships("oca_slip_rx", {"oca_slip_rx"})
  BY ShipsAlone
<1> QED BY <1>1, <1>2, <1>3, <1>4, SizedFormed, Zenon

\* run_clkrst.py: refused values, each with its message, then one suite.
LEMMA ClkrstFormed == Formed(run_clkrst)
<1> PICK files : files = {"ecp5_prims", "oca_clkrst"}
  OBVIOUS
<1>1. run_clkrst = Guard(GUARDS \cup DIVIDER_REFUSE, TRUE) \o Plain("oca_clkrst", files, "clkrst")
  BY DEF run_clkrst, ByOwnMessage
<1>2. OwnModel("clkrst") = Plain("oca_clkrst", files, "clkrst")[1].model
  BY <1>1 DEF OwnModel, Guard, Plain, Suite, Verdict
<1>3. Formed(Plain("oca_clkrst", files, "clkrst"))
  BY <1>2, PlainFormed, Designs DEF Dirs, Ships
<1> QED BY <1>1, <1>3, FormedJoined, FormedSteps

\* Where the model stands in a program that maps cells first.
LEMMA MappedModel ==
  ASSUME NEW m, NEW mod
  PROVE  (Map(mod) \o Suite(m, Untold) \o Verdict)[2].model = m
BY DEF Map, Suite, Verdict

\* A suite on the cells one file was mapped to is of the form.
LEMMA MappedFormed ==
  ASSUME NEW top, NEW files, NEW dir \in Dirs \ {"dual_fabric_mut"}, NEW mod,
         NEW m, m = [Model(top, files, dir, Default) EXCEPT !.cells = {mod}],
         Ships(top, files \cup {mod}), OwnModel(dir) = m
  PROVE  Formed(Map(mod) \o Suite(m, Untold) \o Verdict)
<1>1. m.top = top /\ m.files \cup m.cells = files \cup {mod} /\ m.dir = dir /\ m.mutated = {}
  BY DEF Model
<1>2. Proper(m)
  BY <1>1 DEF Proper, Ships
<1>3. Part(Map(mod) \o Suite(m, Untold))
  BY <1>2, SuiteFormed, FormedSteps, FormedJoined DEF Part
<1> QED BY <1>3, FormedSteps, FormedJoined DEF Part

\* run_keystore_gate.py and run_proto_gate.py.
LEMMA KeystoreGateFormed == Formed(run_keystore_gate)
<1> PICK m : m = [Model("oca_keystore", {}, "keystore_gate", Default) EXCEPT
                    !.cells = {"oca_keystore"}]
  OBVIOUS
<1>1. run_keystore_gate = Map("oca_keystore") \o Suite(m, Untold) \o Verdict
  BY DEF run_keystore_gate
<1>2. OwnModel("keystore_gate") = m
  <2>1. OwnModel("keystore_gate") = run_keystore_gate[2].model
    BY DEF OwnModel
  <2> QED BY <1>1, <2>1, MappedModel
<1>3. Ships("oca_keystore", {} \cup {"oca_keystore"})
  BY Designs DEF Ships
<1> QED BY <1>1, <1>2, <1>3, MappedFormed DEF Dirs

LEMMA ProtoGateFormed == Formed(run_proto_gate)
<1> PICK m : m = [Model("oca_core", CORE \ {"oca_proto"}, "proto_gate", Default) EXCEPT
                    !.cells = {"oca_proto"}]
  OBVIOUS
<1>1. run_proto_gate = Map("oca_proto") \o Suite(m, Untold) \o Verdict
  BY DEF run_proto_gate
<1>2. OwnModel("proto_gate") = m
  <2>1. OwnModel("proto_gate") = run_proto_gate[2].model
    BY DEF OwnModel
  <2> QED BY <1>1, <2>1, MappedModel
<1>3. Ships("oca_core", (CORE \ {"oca_proto"}) \cup {"oca_proto"})
  BY Designs DEF Ships, CORE
<1> QED BY <1>1, <1>2, <1>3, MappedFormed DEF Dirs

\* Of a fabric that is not the tree's own the directory is another.
LEMMA FabricFormed ==
  ASSUME NEW given \in BOOLEAN, NEW override, NEW divergent \in BOOLEAN
  PROVE  Formed(run_dual_fabric(given, override, divergent))
<1> DEFINE shadowed == override \cap Fabric
           m(shadow) == [Model("oca_dual_harness", Fabric, build_dir(shadow), Default)
                           EXCEPT !.mutated = shadow]
           run(shadow, asked) ==
             SetEnv(Divergent(asked)) \o Suite(m(shadow), Divergent(asked)) \o Verdict
<1>1. Formed(<<[do |-> "exit", code |-> 2]>>)
  BY FormedAlone
<1>2. ASSUME NEW shadow, NEW asked PROVE run(shadow, asked)[2].model = m(shadow)
  BY DEF SetEnv, Suite, Verdict
<1>3. OwnModel("dual_fabric") = m({})
  <2>1. run_dual_fabric(FALSE, {}, FALSE) = run({}, FALSE)
    BY DEF run_dual_fabric
  <2> HIDE DEF run, m
  <2> QED BY <1>2, <2>1 DEF OwnModel
<1>4. ASSUME NEW shadow PROVE Proper(m(shadow)) /\ m(shadow).value = Default
  <2>1. /\ m(shadow).dir = build_dir(shadow) /\ m(shadow).mutated = shadow
        /\ m(shadow).top = "oca_dual_harness" /\ m(shadow).value = Default
    BY DEF Model
  <2> HIDE DEF m
  <2> QED BY <1>3, <2>1, Designs DEF Proper, build_dir, Dirs
<1>5. ASSUME NEW shadow PROVE Formed(run(shadow, divergent))
  <2>1. Proper(m(shadow)) /\ m(shadow).value \in {Default, Divergent(divergent)}
    BY <1>4
  <2> HIDE DEF m
  <2> QED BY <2>1, ToldSuiteFormed, FormedJoined, FormedSteps
<1>6. run_dual_fabric(given, override, divergent) =
        IF given /\ shadowed = {} THEN <<[do |-> "exit", code |-> 2]>> ELSE run(shadowed, divergent)
  BY DEF run_dual_fabric
<1> HIDE DEF run
<1> QED BY <1>1, <1>5, <1>6

\* So is every program of the tree.
LEMMA TreeFormed == ASSUME NEW s, OfTheTree(s) PROVE Formed(s)
BY PlainRuns, UartTxFormed, CryptoPllFormed, Chacha20Formed, Poly1305Formed, PktbufFormed,
   SlipRxFormed, ClkrstFormed, KeystoreGateFormed, ProtoGateFormed, FabricFormed DEF OfTheTree

-----------------------------------------------------------------------------
(* Where a process is in its program. *)

\* What is left of a program, and how much of it was executed.
Rest(t, s) ==
  /\ Listed(t) /\ Len(t) <= Len(s)
  /\ \A k \in 1..Len(t) : t[k] = s[Len(s) - Len(t) + k]
Done(p) == Len(prog[p]) - Len(todo[p])

\* Lengths are numbers.
LEMMA LenListed == ASSUME NEW s, Listed(s) PROVE Len(s) \in Nat
BY DEF Listed

\* At its start all of a program is left.
LEMMA RestWhole == ASSUME NEW s, Listed(s) PROVE Rest(s, s) /\ Len(s) - Len(s) = 0
<1>1. Len(s) \in Nat
  BY LenListed
<1>2. \A k \in 1..Len(s) : Len(s) - Len(s) + k = k
  BY <1>1
<1> QED BY <1>1, <1>2 DEF Rest

\* The first step left is the next of the program; behind it is the rest.
LEMMA RestTail ==
  ASSUME NEW t, NEW s, Listed(s), Rest(t, s), t # <<>>
  PROVE  LET n == Len(s) - Len(t)
         IN  /\ n \in Nat /\ n + 1 \in 1..Len(s) /\ Head(t) = s[n + 1]
             /\ Rest(Tail(t), s) /\ Len(s) - Len(Tail(t)) = n + 1
<1>1. Len(s) \in Nat /\ Len(t) \in Nat /\ Listed(t)
  BY LenListed DEF Rest
<1>2. Len(t) > 0 /\ Head(t) = t[1]
  BY <1>1 DEF Listed
<1>3. PICK u : u = Tail(t)
  OBVIOUS
<1>4. Len(u) = Len(t) - 1 /\ Listed(u) /\ \A k \in 1..Len(u) : u[k] = t[k + 1]
  <2>1. u \in Seq({t[k] : k \in 1..Len(t)}) /\ Len(u) = Len(t) - 1
    BY <1>2, <1>3 DEF Listed, Rest
  <2>2. \A k \in 1..Len(u) : u[k] = t[k + 1]
    BY <1>2, <1>3 DEF Listed, Rest
  <2> QED BY <2>1, <2>2, SeqListed
<1>5. t[1] = s[Len(s) - Len(t) + 1]
  BY <1>1, <1>2 DEF Rest
<1>6. \A k \in 1..Len(u) : u[k] = s[Len(s) - Len(u) + k]
  <2> SUFFICES ASSUME NEW k \in 1..Len(u) PROVE u[k] = s[Len(s) - Len(u) + k]
    OBVIOUS
  <2>1. k + 1 \in 1..Len(t) /\ Len(s) - Len(t) + (k + 1) = Len(s) - Len(u) + k
    BY <1>1, <1>4
  <2> QED BY <1>4, <2>1 DEF Rest
<1>7. /\ Len(s) - Len(t) \in Nat /\ Len(s) - Len(t) + 1 \in 1..Len(s)
      /\ Len(u) <= Len(s) /\ Len(s) - Len(u) = Len(s) - Len(t) + 1
  BY <1>1, <1>2, <1>4 DEF Rest
<1>8. Rest(u, s)
  BY <1>4, <1>6, <1>7 DEF Rest
<1> QED BY <1>2, <1>3, <1>5, <1>7, <1>8

\* The processes run programs of the tree, which is all the theorems assume of them.
OnlyTheTree == \A p \in Runners : \A s \in Programs(p) : OfTheTree(s)

\* A process is within its program, and what it wrote is a sequence.
Placed(p) ==
  /\ Formed(prog[p]) /\ Listed(wrote[p])
  /\ code[p] = Ready => prog[p] = <<>> /\ wrote[p] = <<>>
  /\ running(p) => Rest(todo[p], prog[p])

Typed ==
  /\ DOMAIN built = Dirs /\ DOMAIN todo = Runners /\ DOMAIN env = Runners
  /\ DOMAIN prog = Runners /\ DOMAIN wrote = Runners
  /\ code \in [Runners -> Int] /\ failed \in [Runners -> Nat] /\ alone \in [Runners -> BOOLEAN]
  /\ \A p \in Runners : Placed(p)

\* A process that was not started has the empty program.
LEMMA NothingFormed == Formed(<<>>) /\ Listed(<<>>) /\ Len(<<>>) = 0
BY EmptySeq DEF Formed, Listed

\* A step of a process but its first, and any of its steps.
Steps(p) ==
  \/ GuardStep(p) \/ MapStep(p) \/ SetEnvStep(p) \/ BuildStep(p) \/ UnlinkStep(p)
  \/ SimulateStep(p) \/ GradeStep(p) \/ VerdictStep(p) \/ ExitStep(p) \/ Kill(p)

\* Next is a start or another step of some process.
LEMMA NextIsSteps ==
  ASSUME Next
  PROVE  \E p \in Runners : Start(p) \/ Steps(p)
BY DEF Next, Steps

\* A step goes on to the next, or ends the program; only a verdict exits 0.
Goes(p) == todo[p] # <<>> /\ Advance(p)
Stops(p) ==
  \E c \in Nat : Exit(p, c) /\ (c = 0 => At(p, "verdict") /\ failed[p] = 0)

\* Where a process stands: the step it is at, and the program from there on.
LEMMA Stepping ==
  ASSUME Typed, NEW p \in Runners, running(p), todo[p] # <<>>
  PROVE  /\ Done(p) \in Nat /\ Done(p) + 1 \in 1..Len(prog[p])
         /\ step(p) = prog[p][Done(p) + 1] /\ Sound(prog[p], Done(p) + 1)
         /\ Rest(Tail(todo[p]), prog[p])
         /\ Len(prog[p]) - Len(Tail(todo[p])) = Done(p) + 1
<1>1. Listed(prog[p]) /\ Rest(todo[p], prog[p]) /\ Formed(prog[p])
  BY DEF Typed, Placed, Formed
<1> QED BY <1>1, RestTail DEF Done, step, Formed

\* Any step goes on or stops, and leaves programs and guards alone.
LEMMA GoesOrStops ==
  ASSUME Typed, NEW p \in Runners, Steps(p)
  PROVE  /\ running(p) /\ (Goes(p) \/ Stops(p))
         /\ prog' = prog /\ alone' = alone /\ guards' = guards
<1>0. ASSUME NEW c \in Nat \ {0}, Exit(p, c) PROVE Stops(p)
  BY <1>0 DEF Stops
<1>1. CASE GuardStep(p)
  <2>1. Advance(p) \/ Exit(p, 1)
    BY <1>1 DEF GuardStep
  <2> QED BY <1>0, <1>1, <2>1 DEF GuardStep, At, Goes, shared, history
<1>2. CASE MapStep(p)
  BY <1>0, <1>2 DEF MapStep, At, Goes, shared, history
<1>3. CASE SetEnvStep(p)
  BY <1>3 DEF SetEnvStep, At, Goes, shared, history
<1>4. CASE BuildStep(p)
  <2>1. Advance(p) \/ Exit(p, 1)
    BY <1>4 DEF BuildStep
  <2> QED BY <1>0, <1>4, <2>1 DEF BuildStep, At, Goes, history
<1>5. CASE UnlinkStep(p)
  BY <1>5 DEF UnlinkStep, At, Goes, history
<1>6. CASE SimulateStep(p)
  <2>1. Advance(p) \/ Exit(p, 1)
    BY <1>6 DEF SimulateStep
  <2> QED BY <1>0, <1>6, <2>1 DEF SimulateStep, At, Goes
<1>7. CASE GradeStep(p)
  <2>1. Advance(p) \/ Exit(p, 1)
    BY <1>7 DEF GradeStep
  <2> QED BY <1>0, <1>7, <2>1 DEF GradeStep, At, Goes, shared, history
<1>8. CASE VerdictStep(p)
  <2>1. failed[p] \in Nat /\ (failed[p] > 0 \/ failed[p] = 0)
    BY DEF Typed
  <2>2. CASE failed[p] > 0
    BY <1>0, <1>8, <2>2 DEF VerdictStep, At, shared, history
  <2>3. CASE failed[p] = 0
    <3>1. Exit(p, 0) /\ At(p, "verdict")
      BY <1>8, <2>3 DEF VerdictStep
    <3>2. Stops(p)
      BY <2>3, <3>1 DEF Stops
    <3> QED BY <1>8, <3>2 DEF VerdictStep, At, shared, history
  <2> QED BY <2>1, <2>2, <2>3
<1>9. CASE ExitStep(p)
  <2>1. step(p).do = "exit" /\ Sound(prog[p], Done(p) + 1) /\ step(p) = prog[p][Done(p) + 1]
    BY <1>9, Stepping DEF ExitStep, At, step
  <2>2. step(p).code \in Nat \ {0}
    BY <2>1 DEF Sound, Sequenced
  <2> QED BY <1>0, <1>9, <2>2 DEF ExitStep, At, shared, history
<1>10. CASE Kill(p)
  <2>1. Stops(p)
    BY <1>0, <1>10 DEF Kill
  <2> QED BY <1>10, <2>1 DEF Kill, shared, history
<1> QED BY <1>1, <1>2, <1>3, <1>4, <1>5, <1>6, <1>7, <1>8, <1>9, <1>10 DEF Steps

\* What a start does, to its process and to the others.
LEMMA StartIs ==
  ASSUME Typed, OnlyTheTree, NEW p \in Runners, Start(p)
  PROVE  /\ code[p] = Ready /\ running(p)' /\ Formed(prog'[p]) /\ todo'[p] = prog'[p]
         /\ Done(p)' = 0 /\ wrote'[p] = <<>>
         /\ \A q \in Runners \ {p} :
              /\ todo'[q] = todo[q] /\ prog'[q] = prog[q] /\ code'[q] = code[q]
              /\ alone'[q] <=> alone[q] /\ ~running(q)
         /\ alone'[p] => \A q \in Runners : ~running(q)
         /\ alone' \in [Runners -> BOOLEAN]
         /\ UNCHANGED <<guards, results, built, env, failed, wrote>>
<1>1. PICK s \in Programs(p) : /\ todo' = [todo EXCEPT ![p] = s]
                               /\ prog' = [prog EXCEPT ![p] = s]
  BY DEF Start
<1>2. Formed(s)
  BY TreeFormed DEF OnlyTheTree
<1>3. todo'[p] = s /\ prog'[p] = s /\ code'[p] = Working /\ wrote[p] = <<>> /\ code[p] = Ready
  BY <1>1 DEF Typed, Placed, Start
<1>4. Len(prog'[p]) - Len(todo'[p]) = 0
  BY <1>2, <1>3, LenListed DEF Formed
<1>5. ASSUME NEW q \in Runners \ {p}
      PROVE  /\ todo'[q] = todo[q] /\ prog'[q] = prog[q] /\ code'[q] = code[q]
             /\ alone'[q] <=> alone[q] /\ ~running(q)
  BY <1>1 DEF Typed, Start
<1>6. alone'[p] => \A q \in Runners : ~running(q)
  BY DEF Start
<1>7. alone' \in [Runners -> BOOLEAN]
  BY DEF Start, Typed, running
<1> QED BY <1>2, <1>3, <1>4, <1>5, <1>6, <1>7 DEF Start, shared, running, Done

\* What a step leaves alone of another process.
LEMMA OtherSteps ==
  ASSUME Typed, NEW p \in Runners, Steps(p)
  PROVE  \A q \in Runners \ {p} :
           /\ todo'[q] = todo[q] /\ code'[q] = code[q] /\ env'[q] = env[q]
           /\ failed'[q] = failed[q] /\ wrote'[q] = wrote[q]
<1>1. ASSUME NEW q \in Runners \ {p} PROVE todo'[q] = todo[q] /\ code'[q] = code[q]
  <2>1. CASE Goes(p)
    BY <2>1 DEF Goes, Advance, Typed
  <2>2. CASE Stops(p)
    BY <2>2 DEF Stops, Exit, Typed
  <2> QED BY <2>1, <2>2, GoesOrStops
<1>2. ASSUME NEW q \in Runners \ {p}
      PROVE  env'[q] = env[q] /\ failed'[q] = failed[q] /\ wrote'[q] = wrote[q]
  BY DEF Steps, GuardStep, MapStep, SetEnvStep, BuildStep, UnlinkStep, SimulateStep, GradeStep,
         VerdictStep, ExitStep, Kill, history, Typed
<1> QED BY <1>1, <1>2

\* A sequence and one element more.
LEMMA AppendListed ==
  ASSUME NEW s, Listed(s), NEW e
  PROVE  LET t == Append(s, e)
         IN  /\ Listed(t) /\ Len(t) = Len(s) + 1 /\ t[Len(s) + 1] = e /\ Len(s) \in Nat
             /\ \A k \in 1..Len(s) : t[k] = s[k]
<1> PICK S : S = {s[k] : k \in 1..Len(s)} \cup {e}
  OBVIOUS
<1>1. s \in Seq(S) /\ e \in S
  BY SeqMonotonic DEF Listed
<1> PICK t : t = Append(s, e)
  OBVIOUS
<1>2. t \in Seq(S) /\ Len(t) = Len(s) + 1 /\ t[Len(s) + 1] = e /\ Len(s) \in Nat
  BY <1>1
<1>3. \A k \in 1..Len(s) : t[k] = s[k]
  BY <1>1
<1>4. Listed(t)
  BY <1>2, SeqListed
<1> QED BY <1>2, <1>3, <1>4

\* What is written: results of a simulation by this process, of what its build
\* directory holds, told what the environment says.
Result(p, r) ==
  /\ \E tests \in {"green", "red", "none"} :
       r = [by |-> p, tests |-> tests, of |-> built[step(p).dir], told |-> env[p],
            bench |-> step(p).bench]
  /\ built[step(p).dir] # NoModel
Writes(p, r) ==
  /\ Result(p, r) /\ results' = r /\ Listed(wrote'[p])
  /\ Len(wrote'[p]) = Len(wrote[p]) + 1 /\ wrote'[p][Len(wrote[p]) + 1] = r
  /\ \A k \in 1..Len(wrote[p]) : wrote'[p][k] = wrote[p][k]

\* Only a simulation writes, and it goes on then.
LEMMA WritesOrNot ==
  ASSUME Typed, NEW p \in Runners, Steps(p)
  PROVE  \/ wrote' = wrote
         \/ SimulateStep(p) /\ Goes(p) /\ DOMAIN wrote' = Runners /\ \E r : Writes(p, r)
<1>1. CASE SimulateStep(p)
  <2>1. SUFFICES ASSUME wrote' # wrote
                 PROVE  Goes(p) /\ DOMAIN wrote' = Runners /\ \E r : Writes(p, r)
    BY <1>1
  <2>2. PICK tests \in {"green", "red", "none"} :
          LET r == [by |-> p, tests |-> tests, of |-> built[step(p).dir],
                    told |-> env[p], bench |-> step(p).bench]
          IN  /\ built[step(p).dir] # NoModel
              /\ results' = r /\ wrote' = [wrote EXCEPT ![p] = Append(@, r)]
    BY <1>1, <2>1 DEF SimulateStep
  <2>3. PICK r : r = [by |-> p, tests |-> tests, of |-> built[step(p).dir],
                      told |-> env[p], bench |-> step(p).bench]
    OBVIOUS
  <2>4. Result(p, r) /\ results' = r
    BY <2>2, <2>3 DEF Result
  <2>5. wrote'[p] = Append(wrote[p], r) /\ DOMAIN wrote' = Runners
    BY <2>2, <2>3 DEF Typed
  <2>6. Listed(wrote[p])
    BY DEF Typed, Placed
  <2>7. Writes(p, r)
    BY <2>4, <2>5, <2>6, AppendListed DEF Writes
  <2>8. Advance(p) /\ todo[p] # <<>>
    BY <1>1, <2>1 DEF SimulateStep, At
  <2> QED BY <2>5, <2>7, <2>8 DEF Goes
<1>2. CASE ~SimulateStep(p)
  BY <1>2 DEF Steps, GuardStep, MapStep, SetEnvStep, BuildStep, UnlinkStep, GradeStep,
              VerdictStep, ExitStep, Kill, history
<1> QED BY <1>1, <1>2

\* What was written stays a sequence.
LEMMA WrittenBefore ==
  ASSUME Typed, NEW p \in Runners, Steps(p)
  PROVE  Listed(wrote'[p])
BY WritesOrNot DEF Writes, Typed, Placed

-----------------------------------------------------------------------------
(* The types, and that every process is within its program. *)

\* Typed holds at first,
LEMMA TypedInit == ASSUME Init PROVE Typed
<1>1. ASSUME NEW p \in Runners PROVE Placed(p)
  BY NothingFormed DEF Init, Placed, running, Ready, Working
<1> QED BY <1>1 DEF Init, Typed, Ready

\* after a start,
LEMMA TypedStart ==
  ASSUME Typed, OnlyTheTree, NEW p \in Runners, Start(p)
  PROVE  Typed'
<1>1. ASSUME NEW q \in Runners, q # p PROVE Placed(q)'
  BY <1>1, StartIs DEF Typed, Placed, running
<1>2. Placed(p)'
  <2>1. Formed(prog'[p]) /\ todo'[p] = prog'[p] /\ running(p)' /\ wrote' = wrote
    BY StartIs
  <2>2. Rest(todo'[p], prog'[p])
    BY <2>1, RestWhole DEF Formed
  <2>3. Listed(wrote[p])
    BY DEF Typed, Placed
  <2> QED BY <2>1, <2>2, <2>3 DEF Placed, running, Working, Ready
<1>3. /\ DOMAIN built' = Dirs /\ DOMAIN todo' = Runners /\ DOMAIN env' = Runners
      /\ DOMAIN prog' = Runners /\ DOMAIN wrote' = Runners
      /\ code' \in [Runners -> Int] /\ failed' \in [Runners -> Nat]
  <2>1. UNCHANGED <<built, env, failed, wrote>>
    BY StartIs
  <2>2. DOMAIN todo' = Runners /\ DOMAIN prog' = Runners
    BY DEF Start, Typed
  <2>3. code' \in [Runners -> Int]
    BY DEF Start, Typed, Working
  <2> QED BY <2>1, <2>2, <2>3 DEF Typed
<1> QED BY <1>1, <1>2, <1>3, StartIs DEF Typed

\* after any other step,
LEMMA TypedSteps ==
  ASSUME Typed, NEW p \in Runners, Steps(p)
  PROVE  Typed'
<1>1. ASSUME NEW q \in Runners, q # p PROVE Placed(q)'
  <2>1. /\ todo'[q] = todo[q] /\ code'[q] = code[q] /\ wrote'[q] = wrote[q]
        /\ prog'[q] = prog[q]
    BY <1>1, OtherSteps, GoesOrStops
  <2> QED BY <2>1 DEF Typed, Placed, running
<1>2. Placed(p)'
  <2>1. Formed(prog'[p]) /\ Listed(wrote'[p]) /\ prog' = prog /\ running(p)
    BY GoesOrStops, WrittenBefore DEF Typed, Placed
  <2>2. CASE Goes(p)
    <3>1. Rest(Tail(todo[p]), prog[p])
      BY <2>1, <2>2, Stepping DEF Goes
    <3>2. todo'[p] = Tail(todo[p]) /\ code'[p] = Working
      BY <2>1, <2>2 DEF Goes, Advance, Typed, running
    <3> QED BY <2>1, <3>1, <3>2 DEF Placed, Working, Ready
  <2>3. CASE Stops(p)
    <3>1. code'[p] \in Nat
      BY <2>3 DEF Stops, Exit, Typed
    <3>2. code'[p] # Ready /\ ~running(p)'
      BY <3>1 DEF running, Ready, Working
    <3> QED BY <2>1, <3>2 DEF Placed
  <2> QED BY <2>2, <2>3, GoesOrStops
<1>3. DOMAIN todo' = Runners /\ code' \in [Runners -> Int]
  <2>1. CASE Goes(p)
    BY <2>1 DEF Goes, Advance, Typed
  <2>2. CASE Stops(p)
    BY <2>2 DEF Stops, Exit, Typed
  <2> QED BY <2>1, <2>2, GoesOrStops
<1>4. DOMAIN built' = Dirs
  BY DEF Typed, Steps, GuardStep, MapStep, SetEnvStep, BuildStep, UnlinkStep, SimulateStep,
         GradeStep, VerdictStep, ExitStep, Kill, shared
<1>5. DOMAIN env' = Runners
  BY DEF Typed, Steps, GuardStep, MapStep, SetEnvStep, BuildStep, UnlinkStep, SimulateStep,
         GradeStep, VerdictStep, ExitStep, Kill
<1>6. failed' \in [Runners -> Nat]
  <2>1. CASE GradeStep(p)
    BY <2>1 DEF Typed, GradeStep, AllCount
  <2>2. CASE ~GradeStep(p)
    BY <2>2 DEF Typed, Steps, GuardStep, MapStep, SetEnvStep, BuildStep, UnlinkStep,
                SimulateStep, VerdictStep, ExitStep, Kill
  <2> QED BY <2>1, <2>2
<1>7. DOMAIN wrote' = Runners
  BY WritesOrNot DEF Typed
<1> QED BY <1>1, <1>2, <1>3, <1>4, <1>5, <1>6, <1>7, GoesOrStops DEF Typed

\* and where nothing happens;
LEMMA TypedStutters == ASSUME Typed, UNCHANGED vars PROVE Typed'
<1>1. \A p \in Runners : Placed(p)'
  BY DEF Typed, Placed, vars, shared, process, history, running
<1> QED BY <1>1 DEF Typed, vars, shared, process, history

\* hence after every step,
LEMMA TypedNext == ASSUME Typed, OnlyTheTree, [Next]_vars PROVE Typed'
BY NextIsSteps, TypedStart, TypedSteps, TypedStutters

\* and always.
LEMMA AlwaysTyped == ASSUME OnlyTheTree PROVE Spec => []Typed
<1>1. Init => Typed
  BY TypedInit
<1>2. Typed /\ [Next]_vars => Typed'
  BY TypedNext
<1> QED BY <1>1, <1>2, PTL DEF Spec

-----------------------------------------------------------------------------
(* What a step does for its process. *)

\* A step on the way is the action its record names.
LEMMA StepOfItsKind ==
  ASSUME Typed, NEW p \in Runners, Steps(p), Goes(p)
  PROVE  /\ step(p).do = "guard" => GuardStep(p)
         /\ step(p).do = "setenv" <=> SetEnvStep(p)
         /\ step(p).do = "build" <=> BuildStep(p)
         /\ step(p).do = "unlink" <=> UnlinkStep(p)
         /\ step(p).do = "simulate" <=> SimulateStep(p)
         /\ step(p).do = "grade" <=> GradeStep(p)
<1>1. code'[p] = Working
  BY GoesOrStops DEF Goes, Advance, running
<1>2. ~VerdictStep(p) /\ ~Kill(p)
  BY <1>1 DEF VerdictStep, Kill, Exit, Typed, Working
<1>3. /\ GuardStep(p) => step(p).do = "guard"
      /\ MapStep(p) => step(p).do = "map"
      /\ SetEnvStep(p) => step(p).do = "setenv"
      /\ BuildStep(p) => step(p).do = "build"
      /\ UnlinkStep(p) => step(p).do = "unlink"
      /\ SimulateStep(p) => step(p).do = "simulate"
      /\ GradeStep(p) => step(p).do = "grade"
      /\ ExitStep(p) => step(p).do = "exit"
  BY DEF GuardStep, MapStep, SetEnvStep, BuildStep, UnlinkStep, SimulateStep, GradeStep,
         ExitStep, At, step
<1> QED BY <1>2, <1>3 DEF Steps

\* On its way a process takes one step; it comes to exit 0 from its last one.
LEMMA GoesBy ==
  ASSUME Typed, NEW p \in Runners, Steps(p), Goes(p)
  PROVE  /\ running(p) /\ running(p)' /\ code' = code /\ Done(p) \in Nat
         /\ Done(p)' = Done(p) + 1
         /\ Done(p) + 1 \in 1..Len(prog[p]) /\ step(p) = prog[p][Done(p) + 1]
         /\ Sound(prog[p], Done(p) + 1) /\ Formed(prog[p]) /\ Len(prog[p]) \in Nat
<1>1. running(p) /\ code' = code /\ todo[p] # <<>> /\ prog' = prog
      /\ todo'[p] = Tail(todo[p])
  BY GoesOrStops DEF Goes, Advance, Typed
<1>2. Formed(prog[p]) /\ Len(prog[p]) \in Nat
  BY LenListed DEF Typed, Placed, Formed
<1> QED BY <1>1, <1>2, Stepping DEF running, Done

\* A process that exits 0 has its whole program behind it but the verdict, and counted no
\* failure.
LEMMA StopsBy ==
  ASSUME Typed, NEW p \in Runners, Steps(p), Stops(p)
  PROVE  /\ ~running(p)' /\ code'[p] # Ready
         /\ code'[p] = 0 =>
              /\ failed[p] = 0 /\ Done(p) \in Nat /\ Done(p) + 1 = Len(prog[p])
              /\ Len(prog[p]) \in Nat /\ prog[p][Len(prog[p])].do = "verdict"
<1>1. PICK c \in Nat : Exit(p, c) /\ (c = 0 => At(p, "verdict") /\ failed[p] = 0)
  BY DEF Stops
<1>2. code'[p] = c
  BY <1>1 DEF Exit, Typed
<1>3. ASSUME c = 0 PROVE Done(p) \in Nat /\ Done(p) + 1 = Len(prog[p])
                         /\ Len(prog[p]) \in Nat /\ prog[p][Len(prog[p])].do = "verdict"
  <2>1. At(p, "verdict")
    BY <1>1, <1>3
  <2>2. /\ Done(p) \in Nat /\ step(p) = prog[p][Done(p) + 1] /\ Sound(prog[p], Done(p) + 1)
        /\ step(p).do = "verdict"
    BY <2>1, Stepping DEF At, step
  <2>3. Done(p) + 1 = Len(prog[p])
    BY <2>2 DEF Sound, Sequenced
  <2> QED BY <2>2, <2>3
<1> QED BY <1>1, <1>2, <1>3 DEF running, Ready, Working

-----------------------------------------------------------------------------
(* Guards. *)

\* The guards named by the first n steps are in the sources.
Guarded(p, n) == \A k \in 1..n : prog[p][k].do = "guard" => prog[p][k].names \subseteq guards
GuardsRun(p) ==
  /\ running(p) => Guarded(p, Done(p))
  /\ code[p] = 0 => Guarded(p, Len(prog[p]))

\* A guard step that goes on has seen its guards in the sources.
LEMMA GuardsSteps ==
  ASSUME Typed, ReadByExitCode \cap Shadowed = {}, NEW p \in Runners, Steps(p), GuardsRun(p)
  PROVE  GuardsRun(p)'
<1>1. prog' = prog /\ guards' = guards /\ running(p)
  BY GoesOrStops
<1>2. CASE Goes(p)
  <2>1. PICK n : n = Done(p)
    OBVIOUS
  <2>2. /\ running(p)' /\ n \in Nat /\ Done(p)' = n + 1 /\ step(p) = prog[p][n + 1]
        /\ Sound(prog[p], n + 1) /\ code'[p] # 0
    BY <1>2, <2>1, GoesBy DEF running, Working
  <2>3. prog[p][n + 1].do = "guard" => prog[p][n + 1].names \subseteq guards
    <3> SUFFICES ASSUME prog[p][n + 1].do = "guard" PROVE prog[p][n + 1].names \subseteq guards
      OBVIOUS
    <3>1. GuardStep(p)
      BY <1>2, <2>2, StepOfItsKind
    <3>2. code'[p] = Working
      BY <2>2 DEF running
    <3>3. \A g \in step(p).names : IF step(p).named THEN RefusedByItsOwn(g) ELSE Refused(g)
      BY <3>1, <3>2 DEF GuardStep, Exit, Typed, Working
    <3>4. step(p).named \/ step(p).names \subseteq ReadByExitCode
      BY <2>2 DEF Sound
    <3> QED BY <2>2, <3>3, <3>4 DEF RefusedByItsOwn, Refused
  <2>4. Guarded(p, n)
    BY <1>1, <2>1 DEF GuardsRun
  <2>5. \A k \in 1..(n + 1) : k \in 1..n \/ k = n + 1
    BY <2>2
  <2>6. Guarded(p, n + 1)
    BY <2>3, <2>4, <2>5 DEF Guarded
  <2> QED BY <1>1, <2>2, <2>6 DEF GuardsRun, Guarded
<1>3. CASE Stops(p)
  <2>1. ~running(p)'
    BY <1>3, StopsBy
  <2>2. ASSUME code'[p] = 0 PROVE Guarded(p, Len(prog[p]))
    <3>1. PICK n : n = Done(p)
      OBVIOUS
    <3>2. n \in Nat /\ n + 1 = Len(prog[p]) /\ prog[p][n + 1].do = "verdict"
      BY <1>3, <2>2, <3>1, StopsBy
    <3>3. Guarded(p, n)
      BY <1>1, <3>1 DEF GuardsRun
    <3>4. \A k \in 1..(n + 1) : k \in 1..n \/ k = n + 1
      BY <3>2
    <3> QED BY <3>2, <3>3, <3>4 DEF Guarded
  <2> QED BY <1>1, <2>1, <2>2 DEF GuardsRun, Guarded
<1> QED BY <1>2, <1>3, GoesOrStops

\* What another process does changes no guard.
LEMMA GuardsNext ==
  ASSUME Typed, OnlyTheTree, ReadByExitCode \cap Shadowed = {}, [Next]_vars,
         NEW p \in Runners, GuardsRun(p)
  PROVE  GuardsRun(p)'
<1>1. CASE UNCHANGED vars
  BY <1>1 DEF vars, shared, process, history, GuardsRun, Guarded, running, Done
<1>2. ASSUME NEW q \in Runners, Start(q) PROVE GuardsRun(p)'
  <2>1. CASE q = p
    <3>1. Done(p)' = 0 /\ code'[p] # 0
      BY <1>2, <2>1, StartIs DEF running, Working
    <3> QED BY <3>1 DEF GuardsRun, Guarded
  <2>2. CASE q # p
    <3>1. todo'[p] = todo[p] /\ prog'[p] = prog[p] /\ code'[p] = code[p] /\ guards' = guards
      BY <1>2, <2>2, StartIs
    <3> QED BY <3>1 DEF GuardsRun, Guarded, running, Done
  <2> QED BY <2>1, <2>2
<1>3. ASSUME NEW q \in Runners, Steps(q) PROVE GuardsRun(p)'
  <2>1. CASE q = p
    BY <1>3, <2>1, GuardsSteps
  <2>2. CASE q # p
    <3>1. todo'[p] = todo[p] /\ prog'[p] = prog[p] /\ code'[p] = code[p] /\ guards' = guards
      BY <1>3, <2>2, OtherSteps, GoesOrStops
    <3> QED BY <3>1 DEF GuardsRun, Guarded, running, Done
  <2> QED BY <2>1, <2>2
<1> QED BY <1>1, <1>2, <1>3, NextIsSteps

\* GuardsAreThere: a runner that exits 0 elaborated illegal values that only its
\* guards refuse, or heard the guard's own message (run_clkrst.py), so each guard
\* it names is in the sources. The second hypothesis is what the runners that
\* read only the exit code rest on.
THEOREM GreenMeansGuarded ==
  ASSUME OnlyTheTree, ReadByExitCode \cap Shadowed = {}
  PROVE  Spec => []GuardsAreThere
<1> DEFINE Inv == \A p \in Runners : GuardsRun(p)
<1>1. Init => Inv
  BY DEF Init, GuardsRun, running, Ready, Working
<1>2. Typed /\ Inv /\ [Next]_vars => Inv'
  BY GuardsNext
<1>3. Typed /\ Inv => GuardsAreThere
  <2> SUFFICES ASSUME Typed, Inv, NEW p \in Runners, OwnRun(p), NEW k \in Asked(p, "guard")
               PROVE  prog[p][k].names \subseteq guards
    BY DEF GuardsAreThere
  <2>1. Listed(prog[p]) /\ code[p] = 0 /\ k \in DOMAIN prog[p] /\ prog[p][k].do = "guard"
    BY DEF Typed, Placed, Formed, OwnRun, Asked
  <2>2. k \in 1..Len(prog[p])
    BY <2>1 DEF Listed
  <2> QED BY <2>1, <2>2 DEF GuardsRun, Guarded
<1>4. Spec => []Typed
  BY AlwaysTyped
<1> QED BY <1>1, <1>2, <1>3, <1>4, PTL DEF Spec

-----------------------------------------------------------------------------
(* What a process simulates, and what it tells the testbench. *)

\* The models of one directory are of one value, or all of them one model.
LEMMA OneDirectory ==
  ASSUME NEW m, NEW n, Proper(m), Proper(n), m.dir = n.dir
  PROVE  m.value = n.value /\ (m.mutated = {} => m = n)
BY DEF Proper

\* The environment of a process is what it last put there.
EnvironmentTold(p) ==
  running(p) =>
    \A j \in 1..Done(p) :
      /\ prog[p][j].do = "setenv"
      /\ \A i \in (j + 1)..Done(p) : prog[p][i].do # "setenv"
      => env[p] = prog[p][j].value

\* A directory holds nothing or a proper model of it.
BuiltProperly == \A d \in Dirs : built[d] = NoModel \/ (Proper(built[d]) /\ built[d].dir = d)

\* Results are of a model in a build directory of the program's own.
Faithful(p, r) ==
  /\ Proper(r.of)
  /\ r.bench # Untold => r.told = r.bench /\ r.of.value \in {Default, r.bench}
  /\ \E b \in 1..Len(prog[p]) :
       /\ prog[p][b].do = "build" /\ Proper(prog[p][b].model)
       /\ prog[p][b].model.dir = r.of.dir

Benches(p) ==
  EnvironmentTold(p) /\ \A k \in 1..Len(wrote[p]) : Faithful(p, wrote[p][k])

\* The variable holds what the last setenv step put there.
LEMMA EnvironmentSteps ==
  ASSUME Typed, NEW p \in Runners, Steps(p), EnvironmentTold(p)
  PROVE  EnvironmentTold(p)'
<1>1. CASE Stops(p)
  BY <1>1, StopsBy DEF EnvironmentTold
<1>2. CASE Goes(p)
  <2>1. PICK n : n = Done(p)
    OBVIOUS
  <2>2. /\ running(p) /\ n \in Nat /\ Done(p)' = n + 1 /\ step(p) = prog[p][n + 1]
        /\ prog' = prog
    BY <1>2, <2>1, GoesBy, GoesOrStops
  <2> SUFFICES ASSUME NEW j \in 1..(n + 1), prog[p][j].do = "setenv",
                      \A i \in (j + 1)..(n + 1) : prog[p][i].do # "setenv"
               PROVE  env'[p] = prog[p][j].value
    BY <2>2 DEF EnvironmentTold
  <2>3. CASE j = n + 1
    <3>1. SetEnvStep(p)
      BY <1>2, <2>2, <2>3, StepOfItsKind
    <3> QED BY <2>2, <2>3, <3>1 DEF SetEnvStep, Typed
  <2>4. CASE j # n + 1
    <3>1. j \in 1..n /\ n + 1 \in (j + 1)..(n + 1)
          /\ \A i \in (j + 1)..n : i \in (j + 1)..(n + 1)
      BY <2>2, <2>4
    <3>2. env[p] = prog[p][j].value
      BY <2>1, <2>2, <3>1 DEF EnvironmentTold
    <3>3. ~SetEnvStep(p)
      BY <1>2, <2>2, <3>1, StepOfItsKind
    <3>4. env' = env
      BY <3>3 DEF Steps, GuardStep, MapStep, BuildStep, UnlinkStep, SimulateStep, GradeStep,
                  VerdictStep, ExitStep, Kill
    <3> QED BY <3>2, <3>4
  <2> QED BY <2>3, <2>4
<1> QED BY <1>1, <1>2, GoesOrStops

\* A step builds a proper model in its directory, or none.
LEMMA BuildsProperly ==
  ASSUME Typed, NEW p \in Runners, Steps(p), BuiltProperly
  PROVE  BuiltProperly'
<1>1. CASE BuildStep(p)
  <2>1. step(p).do = "build" /\ step(p) = prog[p][Done(p) + 1] /\ Sound(prog[p], Done(p) + 1)
    BY <1>1, Stepping DEF BuildStep, At, step
  <2>2. PICK m : m = step(p).model
    OBVIOUS
  <2>3. Proper(m)
    BY <2>1, <2>2 DEF Sound
  <2>4. \/ built' = [built EXCEPT ![m.dir] = m]
        \/ built' = built
        \/ built' = [built EXCEPT ![m.dir] = NoModel]
    BY <1>1, <2>2 DEF BuildStep
  <2> QED BY <2>3, <2>4 DEF BuiltProperly, Typed
<1>2. CASE ~BuildStep(p)
  <2>1. built' = built
    BY <1>2 DEF Steps, GuardStep, MapStep, SetEnvStep, UnlinkStep, SimulateStep, GradeStep,
                VerdictStep, ExitStep, Kill, shared
  <2> QED BY <2>1 DEF BuiltProperly
<1> QED BY <1>1, <1>2

\* What a simulation writes is of a build of its program, told what it should be.
LEMMA ResultFaithful ==
  ASSUME Typed, NEW p \in Runners, Steps(p), SimulateStep(p), Goes(p), BuiltProperly,
         EnvironmentTold(p), NEW r, Result(p, r)
  PROVE  Faithful(p, r)
<1>1. PICK n : n = Done(p)
  OBVIOUS
<1>2. PICK s : s = prog[p]
  OBVIOUS
<1>3. /\ running(p) /\ n \in Nat /\ step(p) = s[n + 1] /\ s[n + 1].do = "simulate"
      /\ Sound(s, n + 1) /\ Formed(s) /\ Len(s) \in Nat /\ n + 1 \in 1..Len(s)
  BY <1>1, <1>2, GoesBy, StepOfItsKind
<1>4. PICK b : b = n - 1
  OBVIOUS
<1>5. b \in 1..Len(s) /\ s[b].do = "build" /\ (n + 1) - 2 = b /\ b + 2 = n + 1
  <2>1. (n + 1) - 2 = b /\ b + 2 = n + 1
    BY <1>3, <1>4
  <2>2. (n + 1) - 2 \in 1..Len(s) /\ s[(n + 1) - 2].do = "build"
    BY <1>3, Zenon DEF Sound, Sequenced
  <2> QED BY <2>1, <2>2
<1>6. Proper(s[b].model) /\ s[n + 1].dir = s[b].model.dir
  <2>1. Sound(s, b)
    BY <1>3, <1>5 DEF Formed
  <2>2. s[b + 2].dir = s[b].model.dir /\ Proper(s[b].model)
    BY <1>5, <2>1, Zenon DEF Sound, Sequenced
  <2> QED BY <1>5, <2>2
<1>7. /\ r.of = built[s[b].model.dir] /\ r.of # NoModel /\ r.told = env[p]
      /\ r.bench = s[n + 1].bench
  BY <1>3, <1>6 DEF Result
<1>8. Proper(r.of) /\ r.of.dir = s[b].model.dir
  <2>1. s[b].model.dir \in Dirs
    BY <1>6 DEF Proper
  <2> QED BY <1>7, <2>1 DEF BuiltProperly
<1>9. ASSUME r.bench # Untold PROVE r.told = r.bench /\ r.of.value \in {Default, r.bench}
  <2>1. Told(s, n + 1)
    BY <1>3, <1>7, <1>9 DEF Sound
  <2>2. r.of.value \in {Default, r.bench}
    BY <1>5, <1>6, <1>7, <1>8, <2>1, OneDirectory DEF Told
  <2>3. PICK j \in 1..((n + 1) - 1) :
          /\ s[j].do = "setenv" /\ s[j].value = s[n + 1].bench
          /\ \A i \in (j + 1)..((n + 1) - 1) : s[i].do # "setenv"
    BY <2>1 DEF Told
  <2>4. (n + 1) - 1 = n
    BY <1>3
  <2>5. env[p] = s[j].value
    BY <1>1, <1>2, <1>3, <2>3, <2>4 DEF EnvironmentTold
  <2> QED BY <1>7, <2>2, <2>3, <2>5
<1> QED BY <1>2, <1>5, <1>6, <1>8, <1>9 DEF Faithful

\* So are all results written so far, after one more step,
LEMMA BenchesSteps ==
  ASSUME Typed, BuiltProperly, NEW p \in Runners, Steps(p), Benches(p)
  PROVE  Benches(p)'
<1>1. EnvironmentTold(p)'
  BY EnvironmentSteps DEF Benches
<1>2. prog' = prog
  BY GoesOrStops
<1>3. CASE wrote' = wrote
  BY <1>1, <1>2, <1>3 DEF Benches, Faithful
<1>4. ASSUME SimulateStep(p), Goes(p), NEW r, Writes(p, r) PROVE Benches(p)'
  <2>1. Faithful(p, r)
    BY <1>4, ResultFaithful DEF Writes, Benches
  <2>2. PICK l : l = Len(wrote[p])
    OBVIOUS
  <2>3. l \in Nat /\ Len(wrote'[p]) = l + 1 /\ wrote'[p][l + 1] = r
        /\ \A k \in 1..l : wrote'[p][k] = wrote[p][k]
    BY <1>4, <2>2, LenListed DEF Writes, Typed, Placed
  <2>4. ASSUME NEW k \in 1..Len(wrote'[p]) PROVE Faithful(p, wrote'[p][k])
    <3>1. k \in 1..l \/ k = l + 1
      BY <2>3
    <3> QED BY <2>1, <2>2, <2>3, <3>1 DEF Benches
  <2>5. ASSUME NEW k \in 1..Len(wrote'[p]) PROVE Faithful(p, wrote[p][k])'
    BY <1>2, <2>4 DEF Faithful
  <2> QED BY <1>1, <2>5 DEF Benches
<1> QED BY <1>3, <1>4, WritesOrNot

\* whoever takes it.
LEMMA BenchesNext ==
  ASSUME Typed, OnlyTheTree, BuiltProperly, [Next]_vars, NEW p \in Runners, Benches(p)
  PROVE  Benches(p)'
<1>1. CASE UNCHANGED vars
  BY <1>1 DEF vars, shared, process, history, Benches, EnvironmentTold, Faithful, running, Done
<1>2. ASSUME NEW q \in Runners, Start(q) PROVE Benches(p)'
  <2>1. CASE q = p
    <3>1. Done(p)' = 0 /\ wrote'[p] = <<>>
      BY <1>2, <2>1, StartIs
    <3>2. EnvironmentTold(p)'
      BY <3>1 DEF EnvironmentTold
    <3>3. Len(wrote'[p]) = 0
      BY <3>1, NothingFormed
    <3> QED BY <3>2, <3>3 DEF Benches
  <2>2. CASE q # p
    <3>1. /\ todo'[p] = todo[p] /\ prog'[p] = prog[p] /\ code'[p] = code[p]
          /\ env' = env /\ wrote' = wrote
      BY <1>2, <2>2, StartIs
    <3> QED BY <3>1 DEF Benches, EnvironmentTold, Faithful, running, Done
  <2> QED BY <2>1, <2>2
<1>3. ASSUME NEW q \in Runners, Steps(q) PROVE Benches(p)'
  <2>1. CASE q = p
    BY <1>3, <2>1, BenchesSteps
  <2>2. CASE q # p
    <3>1. /\ todo'[p] = todo[p] /\ prog'[p] = prog[p] /\ code'[p] = code[p]
          /\ env'[p] = env[p] /\ wrote'[p] = wrote[p]
      BY <1>3, <2>2, OtherSteps, GoesOrStops
    <3> QED BY <3>1 DEF Benches, EnvironmentTold, Faithful, running, Done
  <2> QED BY <2>1, <2>2
<1> QED BY <1>1, <1>2, <1>3, NextIsSteps

\* The directories hold proper models after every step.
LEMMA BuiltNext ==
  ASSUME Typed, OnlyTheTree, BuiltProperly, [Next]_vars
  PROVE  BuiltProperly'
<1>1. CASE UNCHANGED vars
  BY <1>1 DEF vars, shared, BuiltProperly
<1>2. ASSUME NEW q \in Runners, Start(q) PROVE BuiltProperly'
  BY <1>2, StartIs DEF BuiltProperly
<1> QED BY <1>1, <1>2, BuildsProperly, NextIsSteps

BenchesInv == BuiltProperly /\ \A p \in Runners : Benches(p)

\* Both hold always.
LEMMA AlwaysBenches == ASSUME OnlyTheTree PROVE Spec => [](Typed /\ BenchesInv)
<1>1. Init => BenchesInv
  <2> SUFFICES ASSUME Init PROVE BenchesInv
    OBVIOUS
  <2>1. BuiltProperly
    BY DEF Init, BuiltProperly
  <2>2. ASSUME NEW p \in Runners PROVE Benches(p)
    BY NothingFormed DEF Init, Benches, EnvironmentTold, running, Ready, Working
  <2> QED BY <2>1, <2>2 DEF BenchesInv
<1>2. Typed /\ BenchesInv /\ [Next]_vars => BenchesInv'
  BY BenchesNext, BuiltNext DEF BenchesInv
<1>3. Spec => []Typed
  BY AlwaysTyped
<1> QED BY <1>1, <1>2, <1>3, PTL DEF Spec

\* TestsWhatIsBuilt: results are of the files the bitstream is built from, and of
\* the parameter the testbench was told, however many runners share the directory
\* and whatever the environment held.
THEOREM TestsAreOfTheDesign ==
  ASSUME OnlyTheTree
  PROVE  Spec => []TestsWhatIsBuilt
<1>1. Typed /\ BenchesInv => TestsWhatIsBuilt
  <2> SUFFICES ASSUME Typed, BenchesInv, NEW p \in Runners, NEW k \in DOMAIN wrote[p]
               PROVE  LET r == wrote[p][k]
                      IN  /\ r.of.top \in DOMAIN DESIGNS =>
                               r.of.files \cup r.of.cells = DESIGNS[r.of.top]
                          /\ r.bench # Untold =>
                               r.told = r.bench /\ r.of.value \in {Default, r.bench}
    BY DEF TestsWhatIsBuilt
  <2>1. k \in 1..Len(wrote[p])
    BY DEF Typed, Placed, Listed
  <2>2. Faithful(p, wrote[p][k])
    BY <2>1 DEF BenchesInv, Benches
  <2> QED BY <2>2 DEF Faithful, Proper
<1> QED BY <1>1, AlwaysBenches, PTL

\* PristineIsOwn: a runner with no override simulates models of its own program,
\* with a mutation run beside it or not.
THEOREM PristineRunsItsOwn ==
  ASSUME OnlyTheTree
  PROVE  Spec => []PristineIsOwn
<1>1. Typed /\ BenchesInv => PristineIsOwn
  <2> SUFFICES ASSUME Typed, BenchesInv, NEW p \in Runners, NEW k \in DOMAIN wrote[p],
                      \A model \in {prog[p][b].model : b \in Asked(p, "build")} :
                        model.mutated = {}
               PROVE  wrote[p][k].of \in {prog[p][b].model : b \in Asked(p, "build")}
    BY DEF PristineIsOwn
  <2>1. k \in 1..Len(wrote[p]) /\ DOMAIN prog[p] = 1..Len(prog[p])
    BY DEF Typed, Placed, Formed, Listed
  <2>2. Faithful(p, wrote[p][k])
    BY <2>1 DEF BenchesInv, Benches
  <2>3. PICK b \in 1..Len(prog[p]) :
          /\ prog[p][b].do = "build" /\ Proper(prog[p][b].model)
          /\ prog[p][b].model.dir = wrote[p][k].of.dir
    BY <2>2 DEF Faithful
  <2>4. b \in Asked(p, "build")
    BY <2>1, <2>3 DEF Asked
  <2>5. prog[p][b].model = wrote[p][k].of
    BY <2>2, <2>3, <2>4, OneDirectory DEF Faithful
  <2> QED BY <2>4, <2>5
<1> QED BY <1>1, AlwaysBenches, PTL

-----------------------------------------------------------------------------
(* The exit code of a process that had the directory to itself. *)

\* The step before was of that kind.
Stage(s, n, what) == n > 0 /\ s[n].do = what

\* In a program of the form the steps of a suite follow each other, and nothing else
\* follows them so.
LEMMA SuiteOrder ==
  ASSUME NEW s, Formed(s), NEW n \in Nat, n + 1 \in 1..Len(s)
  PROVE  /\ s[n + 1].do = "unlink" <=> Stage(s, n, "build")
         /\ s[n + 1].do = "simulate" <=> Stage(s, n, "unlink")
         /\ s[n + 1].do = "grade" <=> Stage(s, n, "simulate")
         /\ s[n + 1].do = "simulate" =>
              n - 1 \in 1..Len(s) /\ s[n - 1].do = "build" /\ s[n + 1].dir = s[n - 1].model.dir
         /\ s[n + 1].do = "grade" => n - 2 \in 1..Len(s) /\ s[n - 2].do = "build"
<1>1. Len(s) \in Nat
  BY LenListed DEF Formed
<1>2. \A k \in 1..Len(s) : Sequenced(s, k)
  BY DEF Formed, Sound
<1>3. ASSUME NEW k \in 1..Len(s), s[k].do = "build"
      PROVE  /\ k + 1 \in 1..Len(s) /\ k + 2 \in 1..Len(s) /\ k + 3 \in 1..Len(s)
             /\ s[k + 1].do = "unlink" /\ s[k + 2].do = "simulate" /\ s[k + 3].do = "grade"
             /\ s[k + 2].dir = s[k].model.dir
  <2>1. /\ k + 3 \in 1..Len(s)
        /\ s[k + 1].do = "unlink" /\ s[k + 2].do = "simulate" /\ s[k + 3].do = "grade"
        /\ s[k + 2].dir = s[k].model.dir
    BY <1>2, <1>3 DEF Sequenced
  <2> QED BY <1>1, <2>1
<1>4. ASSUME NEW k \in 1..Len(s)
      PROVE  /\ s[k].do = "unlink" => k - 1 \in 1..Len(s) /\ s[k - 1].do = "build"
             /\ s[k].do = "simulate" => k - 2 \in 1..Len(s) /\ s[k - 2].do = "build"
             /\ s[k].do = "grade" => k - 3 \in 1..Len(s) /\ s[k - 3].do = "build"
  BY <1>2 DEF Sequenced
<1>5. /\ (n + 1) - 1 = n /\ (n + 1) - 2 = n - 1 /\ (n + 1) - 3 = n - 2
      /\ (n - 1) + 1 = n /\ (n - 1) + 2 = n + 1
      /\ (n - 2) + 2 = n /\ (n - 2) + 3 = n + 1
      /\ n > 0 => n \in 1..Len(s)
  BY <1>1
<1>6. s[n + 1].do = "unlink" <=> Stage(s, n, "build")
  <2>1. s[n + 1].do = "unlink" => n \in 1..Len(s) /\ s[n].do = "build"
    BY <1>4, <1>5
  <2>2. Stage(s, n, "build") => s[n + 1].do = "unlink"
    BY <1>3, <1>5 DEF Stage
  <2> QED BY <2>1, <2>2 DEF Stage
<1>7. s[n + 1].do = "simulate" =>
        n - 1 \in 1..Len(s) /\ s[n - 1].do = "build" /\ s[n + 1].dir = s[n - 1].model.dir
  BY <1>3, <1>4, <1>5
<1>8. s[n + 1].do = "simulate" <=> Stage(s, n, "unlink")
  <2>1. s[n + 1].do = "simulate" => n > 0 /\ s[n].do = "unlink"
    BY <1>3, <1>5, <1>7
  <2>2. Stage(s, n, "unlink") => s[n + 1].do = "simulate"
    BY <1>3, <1>4, <1>5 DEF Stage
  <2> QED BY <2>1, <2>2 DEF Stage
<1>9. s[n + 1].do = "grade" => n - 2 \in 1..Len(s) /\ s[n - 2].do = "build"
  BY <1>4, <1>5
<1>10. s[n + 1].do = "grade" <=> Stage(s, n, "simulate")
  <2>1. s[n + 1].do = "grade" => n > 0 /\ s[n].do = "simulate"
    BY <1>3, <1>5, <1>9
  <2>2. Stage(s, n, "simulate") => s[n + 1].do = "grade"
    BY <1>3, <1>4, <1>5 DEF Stage
  <2> QED BY <2>1, <2>2 DEF Stage
<1> QED BY <1>6, <1>7, <1>8, <1>9, <1>10

\* The suites that were graded once n steps are behind.
Graded(s, n) == {k \in 1..(n - 1) : s[k].do = "simulate"}

\* The graded suites can be counted,
LEMMA GradedFinite ==
  ASSUME NEW s, NEW n \in Nat
  PROVE  IsFiniteSet(Graded(s, n)) /\ Cardinality(Graded(s, n)) \in Nat
<1>1. IsFiniteSet(1..(n - 1))
  BY FS_Interval
<1>2. Graded(s, n) \subseteq 1..(n - 1)
  BY DEF Graded
<1> QED BY <1>1, <1>2, FS_Subset, FS_CardinalityType

\* and are one more once a simulation has been graded.
LEMMA GradedMore ==
  ASSUME NEW s, NEW n \in Nat
  PROVE  /\ Stage(s, n, "simulate") =>
              /\ Graded(s, n + 1) = Graded(s, n) \cup {n}
              /\ Cardinality(Graded(s, n + 1)) = Cardinality(Graded(s, n)) + 1
         /\ ~Stage(s, n, "simulate") => Graded(s, n + 1) = Graded(s, n)
<1>1. ASSUME Stage(s, n, "simulate") PROVE Graded(s, n + 1) = Graded(s, n) \cup {n}
  BY <1>1 DEF Stage, Graded
<1>2. ASSUME ~Stage(s, n, "simulate") PROVE Graded(s, n + 1) = Graded(s, n)
  BY <1>2 DEF Stage, Graded
<1>3. n \notin Graded(s, n)
  BY DEF Graded
<1> QED BY <1>1, <1>2, <1>3, GradedFinite, FS_AddElement

\* What the process wrote is what its graded suites left, all of it green so far.
Accounted(s, n, w, f) ==
  LET g == Cardinality(Graded(s, n))
  IN  /\ g <= Len(w)
      /\ f = 0 => \A k \in 1..g : w[k].tests = "green"
      /\ {w[k].of : k \in 1..g} = {s[k - 2].model : k \in Graded(s, n)}

\* Within a suite: its model is in its directory, the stale results are gone, and
\* any there are now are those of its simulation.
InSuite(s, n, w) ==
  LET g == Cardinality(Graded(s, n))
  IN  /\ Stage(s, n, "build") => built[s[n].model.dir] = s[n].model
      /\ Stage(s, n, "unlink") => built[s[n - 1].model.dir] = s[n - 1].model /\ results = NoFile
      /\ Stage(s, n, "simulate") =>
           \/ results = NoFile /\ Len(w) = g
           \/ Len(w) = g + 1 /\ results = w[g + 1] /\ results.of = s[n - 2].model
      /\ ~Stage(s, n, "simulate") => Len(w) = g

\* Of a running process that is alone: nobody else runs, and its results are its own.
Undisturbed(p) ==
  running(p) /\ alone[p] =>
    /\ \A q \in Runners \ {p} : ~running(q)
    /\ Accounted(prog[p], Done(p), wrote[p], failed[p])
    /\ InSuite(prog[p], Done(p), wrote[p])

\* The contract on a program and the results it wrote.
Contract(s, w) ==
  /\ Len(w) = Cardinality({k \in DOMAIN s : s[k].do = "simulate"})
  /\ \A k \in DOMAIN w : w[k].tests = "green"
  /\ {w[k].of : k \in DOMAIN w} = {s[k].model : k \in {b \in DOMAIN s : s[b].do = "build"}}

ContractKept(p) == Undisturbed(p) /\ (OwnRun(p) /\ alone[p] => Contract(prog[p], wrote[p]))

\* Where nothing was graded since, and no result is between.
LEMMA AccountedOn ==
  ASSUME NEW s, NEW n \in Nat, ~Stage(s, n, "simulate"), NEW w, NEW v, NEW f,
         Accounted(s, n, w, f), Len(w) <= Len(v), Len(w) \in Nat, Len(v) \in Nat,
         \A k \in 1..Len(w) : v[k] = w[k]
  PROVE  Accounted(s, n + 1, v, f)
<1>1. Graded(s, n + 1) = Graded(s, n)
  BY GradedMore
<1>2. PICK g : g = Cardinality(Graded(s, n))
  OBVIOUS
<1>3. g \in Nat /\ g <= Len(w) /\ g <= Len(v) /\ \A k \in 1..g : v[k] = w[k]
  BY <1>2, GradedFinite DEF Accounted
<1>4. {v[k].of : k \in 1..g} = {w[k].of : k \in 1..g}
  BY <1>3
<1> QED BY <1>1, <1>2, <1>3, <1>4 DEF Accounted

\* Of the steps on the way, what changes the results, the builds and the count.
LEMMA StepLeaves ==
  ASSUME Typed, NEW p \in Runners, Steps(p), Goes(p)
  PROVE  /\ ~BuildStep(p) => built' = built
         /\ ~UnlinkStep(p) /\ ~SimulateStep(p) => results' = results
         /\ ~SimulateStep(p) => wrote' = wrote
         /\ ~GradeStep(p) => failed' = failed
<1>1. ~BuildStep(p) => built' = built
  BY DEF Steps, GuardStep, MapStep, SetEnvStep, UnlinkStep, SimulateStep, GradeStep,
         VerdictStep, ExitStep, Kill, shared
<1>2. ~UnlinkStep(p) /\ ~SimulateStep(p) => results' = results
  BY DEF Steps, GuardStep, MapStep, SetEnvStep, BuildStep, GradeStep, VerdictStep, ExitStep,
         Kill, shared
<1>3. ~SimulateStep(p) => wrote' = wrote
  BY WritesOrNot
<1>4. ~GradeStep(p) => failed' = failed
  BY DEF Steps, GuardStep, MapStep, SetEnvStep, BuildStep, UnlinkStep, SimulateStep,
         VerdictStep, ExitStep, Kill
<1> QED BY <1>1, <1>2, <1>3, <1>4

\* The count and the stage after a step on the way.
LEMMA AccountGoes ==
  ASSUME Typed, NEW p \in Runners, Steps(p), Goes(p),
         NEW s, s = prog[p], NEW n, n = Done(p), NEW w, w = wrote[p], NEW v, v = wrote'[p],
         Accounted(s, n, w, failed[p]), InSuite(s, n, w)
  PROVE  Accounted(s, n + 1, v, failed'[p]) /\ InSuite(s, n + 1, v)'
<1>1. /\ n \in Nat /\ n + 1 \in 1..Len(s) /\ Formed(s) /\ step(p) = s[n + 1]
      /\ Len(s) \in Nat /\ (n + 1) - 1 = n /\ (n + 1) - 2 = n - 1 /\ (n + 1) > 0
  BY GoesBy
<1>2. Listed(w) /\ Listed(v) /\ Len(w) \in Nat /\ Len(v) \in Nat
  BY WrittenBefore, LenListed DEF Typed, Placed
<1>3. PICK g : g = Cardinality(Graded(s, n))
  OBVIOUS
<1>4. g \in Nat
  BY <1>1, <1>3, GradedFinite
<1>5. PICK do : do = s[n + 1].do
  OBVIOUS
<1>6. \A what : Stage(s, n + 1, what) <=> do = what
  BY <1>1, <1>5 DEF Stage
<1>7. /\ do = "build" <=> BuildStep(p)
      /\ do = "unlink" <=> UnlinkStep(p)
      /\ do = "simulate" <=> SimulateStep(p)
      /\ do = "grade" <=> GradeStep(p)
  BY <1>1, <1>5, StepOfItsKind
<1>8. /\ do = "unlink" <=> Stage(s, n, "build")
      /\ do = "simulate" <=> Stage(s, n, "unlink")
      /\ do = "grade" <=> Stage(s, n, "simulate")
      /\ do = "simulate" => n - 1 \in 1..Len(s) /\ s[n + 1].dir = s[n - 1].model.dir
  BY <1>1, <1>5, SuiteOrder
<1>9. CASE do # "grade" /\ do # "simulate"
  <2>1. v = w /\ failed'[p] = failed[p] /\ ~Stage(s, n, "simulate")
    BY <1>7, <1>8, <1>9, StepLeaves
  <2>2. Accounted(s, n + 1, v, failed'[p])
    <3>1. PICK f : f = failed[p]
      OBVIOUS
    <3>2. Accounted(s, n, w, f) /\ Len(w) <= Len(v) /\ \A k \in 1..Len(w) : v[k] = w[k]
      BY <1>2, <2>1, <3>1
    <3>3. Accounted(s, n + 1, v, f)
      BY <1>1, <1>2, <2>1, <3>2, AccountedOn
    <3> QED BY <2>1, <3>1, <3>3
  <2>3. Graded(s, n + 1) = Graded(s, n) /\ Len(v) = g
    BY <1>1, <1>3, <2>1, GradedMore DEF InSuite
  <2>4. do = "build" => built'[s[n + 1].model.dir] = s[n + 1].model
    <3> SUFFICES ASSUME do = "build" PROVE built'[s[n + 1].model.dir] = s[n + 1].model
      OBVIOUS
    <3>1. BuildStep(p) /\ Sound(s, n + 1)
      BY <1>1, <1>7 DEF Formed
    <3>2. PICK m : m = s[n + 1].model
      OBVIOUS
    <3>3. m.dir \in Dirs
      BY <1>5, <3>1, <3>2 DEF Sound, Proper
    <3>4. code' = code /\ running(p)
      BY GoesBy
    <3>5. built' = [built EXCEPT ![m.dir] = m]
      BY <1>1, <3>1, <3>2, <3>4 DEF BuildStep, Exit, Typed, running, Working
    <3> QED BY <3>2, <3>3, <3>5 DEF Typed
  <2>5. do = "unlink" => built'[s[n].model.dir] = s[n].model /\ results' = NoFile
    <3> SUFFICES ASSUME do = "unlink"
                 PROVE  built'[s[n].model.dir] = s[n].model /\ results' = NoFile
      OBVIOUS
    <3>1. UnlinkStep(p) /\ Stage(s, n, "build")
      BY <1>7, <1>8
    <3>2. built[s[n].model.dir] = s[n].model
      BY <3>1 DEF InSuite
    <3> QED BY <3>1, <3>2 DEF UnlinkStep, StaleGone
  <2>6. InSuite(s, n + 1, v)'
    BY <1>1, <1>3, <1>6, <1>9, <2>3, <2>4, <2>5 DEF InSuite
  <2> QED BY <2>2, <2>6
<1>10. CASE do = "simulate"
  <2>1. /\ failed'[p] = failed[p] /\ ~Stage(s, n, "simulate") /\ built' = built
        /\ built[s[n - 1].model.dir] = s[n - 1].model /\ results = NoFile /\ Len(w) = g
    BY <1>3, <1>7, <1>8, <1>10, StepLeaves DEF InSuite
  <2>2. Graded(s, n + 1) = Graded(s, n)
    BY <1>1, <2>1, GradedMore
  <2>3. \/ v = w /\ results' = results
        \/ /\ Len(v) = g + 1 /\ results' = v[g + 1] /\ results'.of = s[n - 1].model
           /\ \A k \in 1..Len(w) : v[k] = w[k]
    <3>1. CASE wrote' = wrote
      <4>1. /\ v = w
            /\ (results' = results \/ \E r : Result(p, r) /\ wrote' = [wrote EXCEPT ![p] = Append(@, r)])
        BY <1>7, <1>10, <3>1 DEF SimulateStep, Result
      <4>2. ASSUME NEW r, wrote' = [wrote EXCEPT ![p] = Append(@, r)] PROVE FALSE
        <5>1. v = Append(w, r)
          BY <4>2 DEF Typed
        <5>2. Len(v) = Len(w) + 1
          BY <1>2, <5>1, AppendListed
        <5> QED BY <1>2, <4>1, <5>2
      <4> QED BY <4>1, <4>2
    <3>2. ASSUME NEW r, Writes(p, r)
          PROVE  /\ Len(v) = g + 1 /\ results' = v[g + 1] /\ results'.of = s[n - 1].model
                 /\ \A k \in 1..Len(w) : v[k] = w[k]
      <4>1. r.of = built[s[n + 1].dir]
        BY <1>1, <3>2 DEF Writes, Result
      <4>2. r.of = s[n - 1].model
        BY <1>8, <1>10, <2>1, <4>1
      <4> QED BY <2>1, <3>2, <4>2 DEF Writes
    <3> QED BY <3>1, <3>2, WritesOrNot
  <2>4. Accounted(s, n + 1, v, failed'[p])
    <3>1. Len(w) <= Len(v) /\ \A k \in 1..Len(w) : v[k] = w[k]
      BY <1>2, <1>4, <2>1, <2>3
    <3> QED BY <1>1, <1>2, <2>1, <3>1, AccountedOn
  <2>5. \/ results' = NoFile /\ Len(v) = g
        \/ Len(v) = g + 1 /\ results' = v[g + 1] /\ results'.of = s[n - 1].model
    BY <2>1, <2>3
  <2>6. InSuite(s, n + 1, v)'
    BY <1>1, <1>3, <1>6, <1>10, <2>2, <2>5 DEF InSuite
  <2> QED BY <2>4, <2>6
<1>11. CASE do = "grade"
  <2>1. GradeStep(p) /\ Stage(s, n, "simulate") /\ v = w
    BY <1>7, <1>8, <1>11, StepLeaves
  <2>2. /\ results # NoFile /\ results.tests \in {"green", "red"}
        /\ failed'[p] = failed[p] + (IF results.tests = "red" THEN 1 ELSE 0)
    <3>1. code' = code /\ running(p)
      BY GoesBy
    <3>2. /\ results # NoFile /\ results.tests \in Green \cup {"red"}
          /\ failed' = [failed EXCEPT ![p] = AllCount(p, IF results.tests = "red" THEN 1 ELSE 0)]
      BY <2>1, <3>1 DEF GradeStep, Exit, Typed, running, Working
    <3> QED BY <3>2 DEF Green, AllCount, Typed
  <2>3. Len(w) = g + 1 /\ results = w[g + 1] /\ results.of = s[n - 2].model
    BY <1>3, <2>1, <2>2 DEF InSuite
  <2>4. Graded(s, n + 1) = Graded(s, n) \cup {n} /\ Cardinality(Graded(s, n + 1)) = g + 1
    BY <1>1, <1>3, <2>1, GradedMore
  <2>5. \A k \in 1..(g + 1) : k \in 1..g \/ k = g + 1
    BY <1>4
  <2>6. failed'[p] = 0 => failed[p] = 0 /\ results.tests = "green"
    BY <2>2 DEF Typed
  <2>7. failed'[p] = 0 => \A k \in 1..(g + 1) : v[k].tests = "green"
    BY <1>3, <2>1, <2>3, <2>5, <2>6 DEF Accounted
  <2>8. {v[k].of : k \in 1..(g + 1)} = {s[k - 2].model : k \in Graded(s, n + 1)}
    <3>1. {v[k].of : k \in 1..(g + 1)} = {w[k].of : k \in 1..g} \cup {w[g + 1].of}
      BY <1>4, <2>1, <2>5
    <3>2. {s[k - 2].model : k \in Graded(s, n + 1)}
            = {s[k - 2].model : k \in Graded(s, n)} \cup {s[n - 2].model}
      BY <2>4
    <3>3. {w[k].of : k \in 1..g} = {s[k - 2].model : k \in Graded(s, n)}
      BY <1>3 DEF Accounted
    <3> QED BY <2>3, <3>1, <3>2, <3>3
  <2>9. Accounted(s, n + 1, v, failed'[p])
    <3>1. PICK h : h = Cardinality(Graded(s, n + 1))
      OBVIOUS
    <3>2. h = g + 1 /\ h <= Len(v)
      BY <1>4, <2>1, <2>3, <2>4, <3>1
    <3>3. /\ failed'[p] = 0 => \A k \in 1..h : v[k].tests = "green"
          /\ {v[k].of : k \in 1..h} = {s[k - 2].model : k \in Graded(s, n + 1)}
      BY <2>7, <2>8, <3>2, Zenon
    <3> QED BY <3>1, <3>2, <3>3, Zenon DEF Accounted
  <2>10. InSuite(s, n + 1, v)'
    BY <1>6, <1>11, <2>1, <2>3, <2>4 DEF InSuite
  <2> QED BY <2>9, <2>10
<1> QED BY <1>9, <1>10, <1>11

\* A step on the way of a process that is alone.
LEMMA UndisturbedGoes ==
  ASSUME Typed, NEW p \in Runners, Steps(p), Goes(p), Undisturbed(p)
  PROVE  Undisturbed(p)'
<1>1. PICK s : s = prog[p]
  OBVIOUS
<1>2. PICK n : n = Done(p)
  OBVIOUS
<1>3. PICK w : w = wrote[p]
  OBVIOUS
<1>4. PICK v : v = wrote'[p]
  OBVIOUS
<1>5. /\ running(p) /\ running(p)' /\ code' = code /\ Done(p)' = n + 1
      /\ prog'[p] = s /\ alone' = alone
  BY <1>1, <1>2, GoesBy, GoesOrStops
<1>6. ASSUME alone[p]
      PROVE  /\ \A q \in Runners \ {p} : ~running(q)'
             /\ Accounted(s, n + 1, v, failed'[p]) /\ InSuite(s, n + 1, v)'
  <2>1. \A q \in Runners \ {p} : ~running(q)'
    BY <1>5, <1>6 DEF Undisturbed, running
  <2>2. Accounted(s, n, w, failed[p]) /\ InSuite(s, n, w)
    BY <1>1, <1>2, <1>3, <1>5, <1>6 DEF Undisturbed
  <2>3. Accounted(s, n + 1, v, failed'[p]) /\ InSuite(s, n + 1, v)'
    BY <1>1, <1>2, <1>3, <1>4, <2>2, AccountGoes
  <2> QED BY <2>1, <2>3
<1> QED BY <1>4, <1>5, <1>6 DEF Undisturbed

\* What the contract says of a program whose steps but the verdict are behind.
LEMMA ContractAtTheEnd ==
  ASSUME NEW s, Formed(s), NEW n \in Nat, n + 1 = Len(s), s[n + 1].do = "verdict",
         NEW w, Listed(w), Accounted(s, n, w, 0), Len(w) = Cardinality(Graded(s, n))
  PROVE  Contract(s, w)
<1>1. DOMAIN s = 1..(n + 1) /\ DOMAIN w = 1..Len(w) /\ n + 1 \in 1..Len(s)
  BY DEF Formed, Listed
<1>2. ~Stage(s, n, "simulate")
  BY <1>1, SuiteOrder
<1>3. Graded(s, n) = {k \in DOMAIN s : s[k].do = "simulate"}
  <2>1. \A k \in 1..(n + 1) : k \in 1..(n - 1) \/ (k = n /\ n > 0) \/ k = n + 1
    OBVIOUS
  <2>2. \A k \in 1..(n - 1) : k \in 1..(n + 1)
    OBVIOUS
  <2> QED BY <1>1, <1>2, <2>1, <2>2 DEF Graded, Stage
<1>4. {s[k - 2].model : k \in Graded(s, n)}
        = {s[k].model : k \in {b \in DOMAIN s : s[b].do = "build"}}
  <2>1. ASSUME NEW k \in Graded(s, n)
        PROVE  k - 2 \in DOMAIN s /\ s[k - 2].do = "build"
    <3>1. k \in 1..Len(s) /\ s[k].do = "simulate"
      BY DEF Graded
    <3>2. Sequenced(s, k)
      BY <3>1 DEF Formed, Sound
    <3> QED BY <1>1, <3>1, <3>2 DEF Sequenced
  <2>2. ASSUME NEW b \in DOMAIN s, s[b].do = "build"
        PROVE  b + 2 \in Graded(s, n) /\ (b + 2) - 2 = b
    <3>1. b \in 1..Len(s) /\ b \in 1..(n + 1)
      BY <1>1
    <3>2. Sequenced(s, b)
      BY <3>1 DEF Formed, Sound
    <3>3. b + 3 \in 1..Len(s) /\ s[b + 2].do = "simulate"
      BY <2>2, <3>2 DEF Sequenced
    <3>4. b + 2 \in 1..(n + 1) /\ (b + 2) - 2 = b
      BY <3>1, <3>3
    <3> QED BY <1>1, <1>3, <3>3, <3>4
  <2> QED BY <2>1, <2>2
<1>5. PICK g : g = Len(w)
  OBVIOUS
<1>6. /\ \A k \in 1..g : w[k].tests = "green"
      /\ {w[k].of : k \in 1..g} = {s[k - 2].model : k \in Graded(s, n)}
  BY <1>5 DEF Accounted
<1> QED BY <1>1, <1>3, <1>4, <1>5, <1>6 DEF Contract

\* A process that exits 0 by its verdict has kept the contract.
LEMMA ContractStops ==
  ASSUME Typed, NEW p \in Runners, Steps(p), Stops(p), Undisturbed(p)
  PROVE  ContractKept(p)'
<1>1. ~running(p)' /\ prog' = prog /\ alone' = alone /\ running(p)
  BY StopsBy, GoesOrStops
<1>2. Undisturbed(p)'
  BY <1>1 DEF Undisturbed
<1>3. ASSUME code'[p] = 0, alone[p] PROVE Contract(prog'[p], wrote'[p])
  <2>1. PICK s : s = prog[p]
    OBVIOUS
  <2>2. PICK n : n = Done(p)
    OBVIOUS
  <2>3. PICK w : w = wrote[p]
    OBVIOUS
  <2>4. /\ failed[p] = 0 /\ n \in Nat /\ n + 1 = Len(s) /\ s[n + 1].do = "verdict"
    BY <1>3, <2>1, <2>2, StopsBy
  <2>5. wrote' = wrote
    <3>1. ~Goes(p)
      BY <1>1, GoesBy
    <3> QED BY <3>1, WritesOrNot
  <2>6. Formed(s) /\ Listed(w)
    BY <2>1, <2>3 DEF Typed, Placed
  <2>7. Accounted(s, n, w, 0) /\ InSuite(s, n, w)
    BY <1>1, <1>3, <2>1, <2>2, <2>3, <2>4 DEF Undisturbed
  <2>8. ~Stage(s, n, "simulate")
    <3>1. n + 1 \in 1..Len(s)
      BY <2>4
    <3> QED BY <2>4, <2>6, <3>1, SuiteOrder
  <2>9. Len(w) = Cardinality(Graded(s, n))
    BY <2>7, <2>8 DEF InSuite
  <2>10. Contract(s, w)
    BY <2>4, <2>6, <2>7, <2>9, ContractAtTheEnd
  <2> QED BY <1>1, <2>1, <2>3, <2>5, <2>10
<1> QED BY <1>1, <1>2, <1>3 DEF ContractKept, OwnRun

\* Any step of its own keeps what is claimed of a process.
LEMMA ContractSteps ==
  ASSUME Typed, NEW p \in Runners, Steps(p), ContractKept(p)
  PROVE  ContractKept(p)'
<1>1. CASE Goes(p)
  <2>1. running(p)'
    BY <1>1, GoesBy
  <2>2. ~OwnRun(p)'
    BY <2>1 DEF OwnRun, running, Working
  <2> QED BY <1>1, <2>2, UndisturbedGoes DEF ContractKept
<1>2. CASE Stops(p)
  BY <1>2, ContractStops DEF ContractKept
<1> QED BY <1>1, <1>2, GoesOrStops

\* When a process starts, nobody ran beside it if it counts as alone.
LEMMA ContractStart ==
  ASSUME Typed, OnlyTheTree, NEW p \in Runners, Start(p)
  PROVE  ContractKept(p)'
<1>1. Done(p)' = 0 /\ wrote'[p] = <<>> /\ running(p)' /\ ~OwnRun(p)'
  BY StartIs DEF running, Working, OwnRun
<1>2. ASSUME alone'[p], NEW q \in Runners \ {p} PROVE ~running(q)'
  BY <1>2, StartIs DEF running, Start
<1>3. \A s : Graded(s, 0) = {}
  BY DEF Graded
<1>4. \A s : Cardinality(Graded(s, 0)) = 0
  BY <1>3, FS_EmptySet
<1>5. Len(<<>>) = 0
  BY NothingFormed
<1>6. \A s, f : Accounted(s, 0, <<>>, f)
  BY <1>3, <1>4, <1>5 DEF Accounted
<1>7. \A s : InSuite(s, 0, <<>>)'
  BY <1>4, <1>5 DEF InSuite, Stage
<1> QED BY <1>1, <1>2, <1>6, <1>7 DEF ContractKept, Undisturbed

\* What another process does leaves it alone, or is seen.
LEMMA ContractOthers ==
  ASSUME Typed, OnlyTheTree, NEW p \in Runners, NEW q \in Runners, q # p, Start(q) \/ Steps(q),
         ContractKept(p)
  PROVE  ContractKept(p)'
<1>1. /\ todo'[p] = todo[p] /\ prog'[p] = prog[p] /\ code'[p] = code[p]
      /\ wrote'[p] = wrote[p] /\ failed'[p] = failed[p] /\ (alone'[p] => alone[p])
  <2>1. CASE Start(q)
    BY <2>1, StartIs
  <2>2. CASE Steps(q)
    BY <2>2, OtherSteps, GoesOrStops
  <2> QED BY <2>1, <2>2
<1>2. running(p)' = running(p) /\ Done(p)' = Done(p) /\ OwnRun(p)' = OwnRun(p)
  BY <1>1 DEF running, Done, OwnRun
<1>3. ASSUME running(p), alone'[p] PROVE FALSE
  <2>1. ~running(q)
    BY <1>1, <1>3 DEF ContractKept, Undisturbed
  <2>2. Start(q)
    BY <2>1, GoesOrStops
  <2> QED BY <1>3, <2>2, StartIs
<1> QED BY <1>1, <1>2, <1>3 DEF ContractKept, Undisturbed

\* ExitIsTheContract: exit 0 of a runner that had the directory to itself means
\* that each suite of its program was built, simulated and green, and no other.
THEOREM ExitZeroIsTheContract ==
  ASSUME OnlyTheTree
  PROVE  Spec => []ExitIsTheContract
<1> DEFINE Inv == \A p \in Runners : ContractKept(p)
<1>1. Init => Inv
  BY DEF Init, ContractKept, Undisturbed, OwnRun, running, Ready, Working
<1>2. Typed /\ Inv /\ [Next]_vars => Inv'
  <2> SUFFICES ASSUME Typed, Inv, [Next]_vars, NEW p \in Runners PROVE ContractKept(p)'
    OBVIOUS
  <2>1. CASE UNCHANGED vars
    <3>1. ASSUME NEW s, NEW n, NEW w, InSuite(s, n, w) PROVE InSuite(s, n, w)'
      BY <2>1, <3>1 DEF vars, shared, InSuite
    <3>2. /\ prog' = prog /\ wrote' = wrote /\ alone' = alone /\ failed' = failed
          /\ Done(p)' = Done(p) /\ OwnRun(p)' = OwnRun(p)
          /\ \A q : running(q)' = running(q)
      BY <2>1 DEF vars, process, history, OwnRun, running, Done
    <3>3. PICK s : s = prog[p]
      OBVIOUS
    <3>4. PICK n : n = Done(p)
      OBVIOUS
    <3>5. PICK w : w = wrote[p]
      OBVIOUS
    <3>6. Undisturbed(p)'
      BY <3>1, <3>2, <3>3, <3>4, <3>5 DEF ContractKept, Undisturbed
    <3> QED BY <3>2, <3>6 DEF ContractKept
  <2>2. ASSUME NEW q \in Runners, Start(q) \/ Steps(q) PROVE ContractKept(p)'
    BY <2>2, ContractStart, ContractSteps, ContractOthers
  <2> QED BY <2>1, <2>2, NextIsSteps
<1>3. Inv => ExitIsTheContract
  BY DEF ContractKept, Contract, Asked, ExitIsTheContract
<1>4. Spec => []Typed
  BY AlwaysTyped
<1> QED BY <1>1, <1>2, <1>3, <1>4, PTL DEF Spec
=============================================================================
