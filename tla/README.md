# OpenCryptoAccelerator in TLA+

The accelerator takes ChaCha20-Poly1305 requests as SLIP frames over a serial
line, runs them through a four-stage pipeline (or two of them side by side) and
answers each with one frame. Almost everything that can be wrong in it is a
matter of *when*: registers a cycle behind the decision that wrote them,
one-cycle pulses, parity-bit hand-offs between state machines, banks that change
owner. Around it stand programs that are hard for the same reason: a
host that shares one line with what earlier processes left on it, a build driver
whose files outlive the run that wrote them, test runners that share one results
file. That is what these modules describe. The arithmetic is left to the test
vectors of the repository.

Paths below are relative to `src/oca/`.

## 1. The system

### Components

| component | code | state it keeps | operations | what makes it correct |
|---|---|---|---|---|
| protocol engine | `hw/rtl/oca_proto.sv`, `oca_core.sv`, `oca_pkg.sv` | four FSMs (`rx_state`, `pr_state`, `dr_state`, `ts_state`), parity pairs for each hand-off, the descriptor, counters | accept a request, parse, refuse, load a key, sequence blocks into the engine, drain, verify, publish, stream a response | each request answered once, in order, with its own data; nothing unverified leaves |
| packet buffer | `hw/rtl/oca_pktbuf.sv` | two banks, counts, reset walk | clear, write, read (registered) | clear and write never meet the reader's bank; no write past `BYTES` |
| key store | `hw/rtl/oca_keystore.sv` | `NUM_KEYS` keys | write a slot, registered read | a message runs under the key loaded last before it |
| AEAD engine | `hw/rtl/chacha20_poly1305.sv`, `chacha20.sv`, `poly1305.sv` | two FSMs, a one-block MAC buffer, `err` | start, take a block, give a block, `done`, abandon | one start at a time, no block lost |
| dual dispatch | `hw/rtl/oca_dispatch.sv` | route of the frame in hand, per-core `sent`, pushes | route work to one core, broadcast a load to both | key stores stay equal; no expectation lost |
| dual collect | `hw/rtl/oca_collect.sv` | source in hand, merge progress, `trouble` | pass a reply, merge two broadcast replies | one reply a request; a load half taken is refused |
| FIFO | `hw/rtl/oca_fifo.sv` | wrap-bit pointers | push, pop, overflow | bounded queue |
| SLIP decoder | `hw/rtl/oca_slip_rx.sv` | one-frame buffer, assembly word, pending escape, three drop counters | take a byte, close a frame, deliver beats | exactly the well-formed frames are delivered |
| SLIP encoder | `hw/rtl/oca_slip_tx.sv` | beat in hand, phase of an escape | take a beat, push bytes | decodes to the frame taken |
| serial tops and UART | `hw/rtl/oca_uart_crypto.sv`, `oca_uart_rx.sv`, `oca_uart_tx8.sv` | two queues, the byte on the line, `trouble` | receive, transmit, reset, latch | no byte lost in silence |
| console, clock and reset, bring-up tops | `hw/rtl/oca_console.sv`, `oca_clkrst.sv`, ... | counters | report, sequence the resets | (not modelled but for the checks the scripts make on them) |
| host link | `hw/host/link.py`, `slip_stream.py`, `transport.py` | request id, decoder, input buffer | send, read with a deadline, match the id | a reply is taken for its own request only |
| command line, self-test | `hw/host/cli.py`, `selftest.py` | the call it is at | parse, open, call, compare, close, exit | the exit code tells what happened |
| fake board | `hw/host/fake_device.py` | slots, decoder | handle a frame | answers as the board does |
| synthesis driver | `hw/syn/run_synth.py` | the files in `build/` | probe, synthesise, check the netlist, place and route, check the timing, pack | a bitstream is of the report and the sources it lies beside |
| simulation runners | `hw/sim/run_*.py` | `results.xml`, a build directory each, the environment | check guards, build, simulate, grade | exit 0 is a green suite of the right design |
| software library | `src/oca.c`, `src/backend_sw.c` | none between calls | seal, open | a wrapper around OpenSSL |

### How they interact

```
 cli, self-test -> host link <-> UART <-> SLIP decoder -> [dispatch -> core 0 | core 1 -> collect] -> SLIP encoder
 core:  RX --bank full/free--> PROC --descriptor--> DRAIN --publish/done--> TX
              receive buffer     |  start, blocks   ^  transmit buffer
              (2 banks)          +---> AEAD engine -+  (2 banks)
                                 key store

 sources -> yosys -> netlist -> check -> nextpnr -> report, config -> timing -> ecppack -> bit
 sources -> verilator -> model in its directory -> simulation -> results.xml -> grade
```

Between the stages of a core every hand-off is a pair of parity bits, each with
one writer: `fill_par`/`free_par` (one pair per receive bank), `pd_put_par`/
`pd_get_par` (the descriptor), `eng_take_par`/`eng_rel_par` (the engine token),
`rsp_pub_par`/`rsp_done_par` (the response registers and the transmit bank). A
pair that differs is "full". Between the stages and the engine there are pulses,
of which `out_valid` and `done` have no back-pressure. In the dual build the two
cores answer at their own pace, and one *expectation* FIFO for each core records whether
the next answer of that core is a broadcast's.

### What is hard

* four FSMs that each see the others' registers as they were before the edge;
* strobes one cycle behind the state that raised them (write, clear, start, push);
* results that must be caught in whatever state the catcher is;
* state that survives from one packet to the next (`err`, `crypto_cmd`, the tag,
  the assembly register, memory over reset);
* two cores taking and answering the same broadcast in different cycles;
* limits: full expectation FIFO, saturated bank, over-long frame, counters;
* replies that are late, lost or damaged, and processes that die in mid-request;
* files left by an earlier run, by a tool that was killed while it wrote, or by one
  that outlived the run that started it;
* several runners over one `results.xml`, and an exit code as the only report.

Each point, at its line and with the properties that watch it, is an entry of
`hazards` in `PROJECT.json`.

## 2. The modules

| module | what it is |
|---|---|
| `OcaRequests` | pure definitions: shapes of a request, verdicts, keys in force, replayed tags, the block sequence |
| `OcaServer` | abstract: a server that executes accepted requests one by one |
| `OcaProto` | the pipeline, buffers, key store and engine ports, one clock edge a step; implements `OcaServer` |
| `OcaProtoProofs` | its theorems: hand-offs, the engine token and its data from the beat in to the beat out; then order, keys, verdicts, messages and counters, that it implements `OcaServer`, and that the fake board answers as it does |
| `OcaFakeBoard` | the fake board's handling of a frame, a function of the requests so far, held against the pipeline's answers |
| `MCOcaProto` | the request sets of its two runs |
| `OcaDualServer` | abstract: one device with one key store |
| `OcaDual` | dispatch, collect, two expectation FIFOs, two cores; implements `OcaDualServer` |
| `OcaDualProofs` | its five theorems, the refinement of `OcaDualServer` among them |
| `MCOcaDual` | the frame sets of its two runs |
| `OcaQueue` | abstract: a bounded queue that reports each push it refuses |
| `OcaFifo` | `oca_fifo`: memory and wrap-bit pointers; implements `OcaQueue` |
| `OcaFifoProofs` | that refinement, for every depth; its lemmas are what `OcaSerialProofs` knows of either queue |
| `OcaSerial`, `MCOcaSerial` | two boards' ends of one line: two `oca_fifo`, transmitter, receiver, resets, `trouble` |
| `OcaSerialProofs` | its two theorems, for every depth and every alphabet |
| `OcaSlip` | abstract framing: what the bytes between two ENDs stand for |
| `OcaSlipRx`, `MCOcaSlipRx` | the decoder; implements `OcaSlip` |
| `OcaSlipProofs` | the decoder's buffer, that it implements `OcaSlip`, and the encoder's round trip, for every size |
| `OcaSlipTx`, `MCOcaSlipTx` | the encoder; its bytes, read by `OcaSlip`, are the frame |
| `OcaLink`, `MCOcaLink` | the host's end: link, transport and reader, processes that come and go, the device at the far end |
| `OcaConsole`, `MCOcaConsole` | the command line and the self-test over `OcaLink`, from arguments to exit code |
| `OcaLinkProofs` | the theorems of both: how far a reply can be taken for another's, what errors and what is left over come from, whole replies, what an exit code says |
| `OcaDesigns` | the tables of `run_synth.py`: sources, floors, primitives, PLL divisors |
| `OcaSynth`, `MCOcaSynth` | the synthesis driver run after run, its tools as processes, the files they leave |
| `OcaSynthProofs` | its five theorems: what a bitstream was checked for, what ends and exit codes say |
| `OcaRunners` | the program of each `run_*.py` of `hw/sim`, as a sequence of steps |
| `OcaRunner`, `MCOcaRunner` | those programs at work, several at once |
| `OcaRunnerProofs` | its four theorems |

### One step is one clock edge

In the RTL modules a step of `Next` is one rising edge of `clk`. All registers
move together from their values before the edge, as non-blocking assignments
do. In `OcaProto`, `Next == RX /\ PROC /\ BUF /\ ENGINE /\ DRAIN /\ TX`: each
conjunct is the `always_ff` block (or the instance) that owns its variables, and
within it there is a disjunct for each state of the FSM. An asynchronous
interleaving of the stages would miss what matters here, pulses being one cycle
wide. Nondeterminism is confined to what the code does not decide: whether the
source offers a beat, whether the sink is ready, how long the engine takes over
key setup, authentication and tag, how the cores of the dual build are paced.

### Correspondence, `OcaProto`

| model | code |
|---|---|
| `arrived`, `src` | the request stream and the beats of the current request already taken |
| `RxClear`, `RxAccept`, `RxIdle`, `RxLast`, `RxWait` | `R_CLEAR` .. `R_WAIT` |
| `PIdle` .. `PDrop` | the eleven `P_` states; `pr` holds the registers of PROC that only PROC reads |
| `BUF` | both `oca_pktbuf` instances and `oca_keystore`, with the strobes of the edge before |
| `ENGINE` | the ports of `chacha20_poly1305`: `start`, `in_ready`/`in_valid`, `out_valid`, `done`, `err`, `busy` |
| `DCatch` .. `DClear` | DRAIN; `CatchDone` is the part of it that runs in every state |
| `TStart`, `TWaits`, `TWord`, `TLast` | TX |

Data is abstracted. A beat is `<<packet, number>>`, and a block or a word of a
body likewise names its packet and position, so that "whose byte is this" can be
asked of every byte. A tag is the set of things it depends on (key, nonce, lengths, data), a
key is the number of the request that loaded it. A request is a *shape*: operation, slot,
whole blocks, length of AAD and message, how its header and its declared lengths
are wrong. The response header and extra field are beats that TX may spend any
number of cycles on (`TWaits`), and the three-register output pipeline of TX is
one word a step; section 3 lists it as a step of its own.

`EngineMayFault` switches `err` on. In this tree PROC never presents a block
longer than 64 bytes, so the engine's only cause of `err` does not arise; the
`err` path through DRAIN is code all the same, it is there because the port can
say it. Both runs of the core have it on, so `err` may fall between any two of
the steps they explore.

`OcaFakeBoard` is the fake's `_accept`, `_handle` and `_op_*` as operators over a
record of slots and last answer. `Board(a)[n]` is that board after the first `n`
requests. What the fake does not claim to imitate (its counters, its bench clock)
is left out, and so are its misbehaviour hooks, whose effects the link's faults
cover.

### Correspondence, `OcaDual`

A frame is `load` or `work` and a number of beats. `DISPATCH` is the `D_` FSM
with the registered `push` one edge behind, `TAGS` the two `oca_fifo` instances
as bounded queues, `CORES` two queues that keep order and answer when they like
(this is what `OcaProto` is shown to do by `Implements`: in order, once each),
`COLLECT` the `C_` FSM, `SINK` the encoder's side. `CoresMayDiverge` lets one
core refuse a load that the other takes.

### Correspondence, `OcaSlipRx` and `OcaSlipTx`

Each state and register of the two files is there. A byte is one of END, ESC,
ESC_END, ESC_ESC and the model values of `Plain`. ESC_END and ESC_ESC are legal
payload bytes, so they also play the part of ordinary data. `mem` starts with arbitrary
contents, as block RAM does after a reset. `raw` and `got` are history: the
bytes since the last END and the bytes delivered of the frame in hand.

### Correspondence, `OcaLink`

Here a step is one thing that happens: a write, a reply put on the line, a read,
a chunk fed to the reader, a deadline.

| model | code |
|---|---|
| `Open`, `DrainRead`, `DrainEnds`, `Close` | `RawSerial.__init__`, `_drain`, `close`; `next_id` starts anywhere, as `random.randint` does |
| `Issue`, `TooLarge` | a command up to `_send_frame`, both frames of a pair before any reply |
| `Read`, `Feed`, `Timeout` | the loop of `_recv_frame`: a read takes any front part of what is on the line; the deadline is looked at when everything read is fed, and the unfinished frame is lost with its `SlipReader` |
| `Judge` | a frame has ended: framing, header and magic, opcode, id, status, body, in the code's order, for `_roundtrip` and for `bench_pair`; the rest of the input stays in `rx_pending` |
| `DieWriting`, `DieWaiting` | the process is gone; half a request may stay in the device's decoder (`half`) and becomes the front of the next one |
| `Device` | answers in order, or in any order with two engines |

A reply is two chunks, a head that holds the header and a tail that holds END, so that
reads, deadlines and faults fall before, between and after them. The faults: a
request or its reply is lost, the reply's framing is torn, its body loses bytes
(`short`), its END is lost with the tail (`cut`), a stray byte is on the line at
the start, the process dies. `line` does not say which of its chunks have
arrived: a read may take fewer than all, and the drain may end before any.
Bytes that are damaged into other legal bytes are not modelled, the protocol has
no checksum.

### Correspondence, `OcaSerial`

One step is one clock edge of two boards of the single-engine design, one sending
and one receiving; `InHeld` and `OutHeld` are the edges on which one of them is in
reset. The input queue is `OcaFifo` itself, extended; the output queue is an
instance of it. A byte takes any number of edges on the line, is heard before the
transmitter is done, well or with its stop bit missing. `WayIn` is what
`oca_uart_crypto.sv` does with it: push, pop by the decoder, and the latch fed by
four sources. `owed` is history: what was pushed and not yet popped.

### Correspondence, `OcaConsole`

Each process of `OcaLink` is one invocation. `Script` is the sequence of calls of
its subcommand, `step` the call it is at.

| model | code |
|---|---|
| `BadInvocation`, `NoPort`, `Invoke` | `argparse`'s exit 2; `OSError` on open; the port opened |
| `Call`, `Oversized`, `Unpackable` | the call; the link's own refusal; `struct.error` from an argument that does not fit its field |
| `Return` | the call's return, with the self-test's comparison, or an error `main` catches |
| `SerialFails`, `Killed`, `Leave` | the adapter gone; the process gone; `finally: link.close()` |

`struct.error` and an unknown baud rate are not among what `main` catches. Such
an invocation (`--slot 256`, an `--aad` longer than 65535 bytes) ends in a
traceback and exit 1, where the docstring's "2 on a bad invocation" suggests 2.
The exit code still says failure, and `ExitIsTheContract` asks no more.

### Correspondence, `OcaSynth`

A run is a process in a stage, `pc`. The tool it waits for is a process in a
session of its own, described by the writes it has still to make; a file's
content is its provenance: the run that made it (`made`), the netlist it is made
of, the report that came with it.

| model | code |
|---|---|
| `Start`, `Probe` | arguments, the tools looked for, `check_cmp2lut` |
| `Check` | `check_netlist` with `check_storage`, `check_prims`, `check_pll`, `check_clk_sys_const` |
| `Unlink`, `Timing` | the old `.bit` removed once nextpnr has succeeded; `check_timing` |
| `ToolWrites`, `ToolSucceeds`, `ToolFails`, `Timeout` | `run` and `kill_group` around yosys, nextpnr and ecppack; a failed pack removes its `.bit` |
| `Kill`, `OrphanWrites`, `OrphanDies` | the driver killed from outside; its tool, in its own session, goes on |
| `Edit` | the sources changed between runs |

`census`, `live`, `live_total` and `bare_clock_name` are the pure parts of those
checks; a netlist is a set of groups of flip-flops with the files their `src`
attribute names, and the PLLs found. Three things seen on the way:

* A timeout that falls while nextpnr is writing leaves a new report beside the
  old bitstream: `Unlink` comes only after success. `syn/README.md` says that a
  `.bit` never outlives the report. `calm` is FALSE from then until place and route
  next succeed alone; the property and its theorem are about calm directories.
* `check_cmp2lut` starts yosys without the bound that `run` gives every other
  tool, so `RunEnds` starts past the probe.
* `kill_group` stops as soon as the leader has obeyed SIGTERM; a helper that
  ignores SIGTERM never sees SIGKILL. Like a killed driver's tool, it is an orphan
  that may go on writing.

### Correspondence, `OcaRunners` and `OcaRunner`

A runner is a sequence of records: elaborate illegal parameters and expect
refusal (`guard`), map a module to cells (`map`), set the variable its testbench
reads (`setenv`), `build`, `unlink` the results, `simulate`, `grade`, `verdict`.
`OcaRunners` writes these sequences down, one operator a file;
`OcaRunner` gives each kind of step an action. All runners share `results`, the
build directories are separate. A simulation leaves green, red or empty results,
none at all, or raises. Two runners at once may grade one another's
`results.xml`; `alone` marks the runs that had the directory to themselves, and
`ExitIsTheContract` is about those. A runner killed alone leaves a simulator that may still
write: it counts as running, and as beside others, until that has ended. A build that fails leaves
the old model or none. `run_pktbuf` and `run_slip_rx` read only the
exit code of a guard's elaboration, `run_clkrst` asks for the guard's own message;
`Shadowed` holds the one guard whose bad value is also refused for another
reason.

### Seeded faults

Beside some definitions stands a second one marked *seeded fault*, for instance
`CanStartIfIdle` beside `CanStart`. It is what a plausible mistake in that code
would say. No definition of the model uses one; they are substituted, one at a time,
to confirm that the property named in `mutants` fails when the code is wrong in
that way. Every property of every run has one.

## 3. Plan

Ordered by how much of the system's behaviour rests on each step. Steps 1 to 7 are
done.

1. `OcaRequests`, `OcaServer`, `OcaProto`, proofs of the interlocks.
2. `OcaDualServer`, `OcaDual`, proof that the expectation FIFOs cannot overflow.
3. `OcaSlip`, `OcaSlipRx`, `OcaSlipTx` and proofs about both ends.
4. `OcaQueue`, `OcaFifo` and its proof for every depth; `OcaSerial` over it.
5. `OcaLink`, `OcaConsole`, `OcaFakeBoard`: the host's side.
6. `OcaDesigns`, `OcaSynth` and its proofs: the build.
7. `OcaRunners`, `OcaRunner`: the simulation runners.
8. `OcaAead`: the two FSMs and the one-block MAC buffer, shown to implement the
   `ENGINE` of `OcaProto`. The buffer is the one hazard of the list that no property
   watches.
9. `OcaProtoTx` (the three-register output pipeline under stalls),
   `OcaProtoFeed` (lengths, partial blocks and their widths), `OcaPktBuf` on its own.
10. The console and the reset sequencing of `oca_clkrst`.

What no theorem states is in section 6.

## 4. The runs

| run | bounds | question |
|---|---|---|
| `core_stream` | 4 requests of 6 kinds, 2 slots, `err` allowed | are the hand-offs and the token sound at every interleaving of source, sink and engine latency, and does the pipeline answer as a server that runs one request at a time, each under the key loaded before it? |
| `core_shapes` | every pair out of 26 shapes, `err` allowed, fairness | does every path of the parse give the server's verdict, body and counters, after every other, does an abandoned message fail alone, is everything answered, and would the fake have said the same? |
| `dual_mixed` | 4 frames of 4 kinds, refused loads and two-beat work among them, FIFOs of 2, cores of 2 | do two cores look like one device? |
| `dual_fault` | 3 frames, cores may disagree, fairness | is a load half taken reported as refused, latched, and everything answered? |
| `serial` | queues of 2, two values, any stop bit missing, either board reset | is a byte ever lost, doubled or moved without `trouble`, and is the queue in there still a bounded queue? |
| `slip_rx` | up to 6 bytes between ENDs, frames up to 2 words of 2 bytes | is exactly the right set of frames delivered, whole and steady? |
| `slip_tx` | frames up to 3 beats, every keep | does the output decode to the frame? |
| `link_line` | 3 single commands, 1 process, 4 ids, fairness; replies lost, torn or cut, a stray byte, a death | does a command ever take what is not its own whole reply, leave something behind or hang? |
| `console` | 2 invocations, 14 requests, one fault: a reply lost, cut or short, the adapter gone, a process killed; fairness | does the exit code say what happened, is a reply ever taken for another's, does every invocation end? |
| `synth` | 2 runs of 3 designs, 5 netlists, 4 reports, 2 constants, kills, timeouts at any point, edits; fairness | does a bitstream match its report and hold what the checks promise, and does exit 0 mean it? |
| `synth_edited` | 2 runs of the dual design, edits only | *violated*: a bitstream whose serial divisor was elaborated for another clock |
| `runners` | every runner beside a fabric run or `run_fifo`, every guard or all but one, a stale environment, kills | does exit 0 mean that the right design's suite was run and green? |

What the properties say:

* `BanksInterlocked`, `HeldBanksFrozen`: the receive bank PROC is on, and the
  response and bank TX is streaming, never change.
* `EngineOwned`: the token is held by one packet from `P_START` to publication; a
  start finds the engine idle and a block finds it accepting.
* `ResultIsOwners`, `DrainCatches`: a result is that of the packet that holds the
  token; DRAIN is in `D_IDLE` on every edge a block comes out.
* `OnlyVerifiedBytesLeave`: no byte of an open leaves unless its tag verified.
* `Implements`: the refinement. For the core, `responses`, key store and counters
  are those of `OcaServer`; for the dual build the replies are those of one device with
  one key store; for the FIFO its contents, the refusals and what is taken are
  `OcaQueue`'s; for the decoder delivered frames and counters are `OcaSlip`'s.
* `FakeAnswersAlike`: the fake gives the verdict, the tag and the length of body
  that the pipeline gives, and is silent where it is.
* `NoOverflow`, `TagsDescribe`, `KeystoresAgree`, `FailClosed` for the dual build.
* `BeatHeld`, `TailIsZero`, `Walked` for the decoder; `RoundTrip` for the encoder.
* `LossIsSeen`: while nothing tells of trouble, queues and line hold exactly what
  was pushed and not popped.
* `Answered`: everything that came in whole is answered.
* `OwnReply`: what a command returns came in the reply to its own request, unless
  an earlier process left that reply; `WholeReply`: and in the whole of it, for
  the methods whose reply has a length (`link_line` damages no body).
* `ErrorsHaveCause`: a command that found the line clean and met no fault ends with its
  answer, a refusal or at its deadline; `NothingLeftUnread`: and then, unless it
  gave up waiting, leaves the line clean. `CommandEnds`, `InvocationEnds`: every
  command, every invocation ends.
* `ExitIsTheContract`, of the console: 0 only if each call was answered by its own
  reply and was as the self-test expects, 2 only if nothing was asked. Of the
  runners: 0 only if each suite ran, in order, on its own build, and was green.
* `BitMatchesReportCalm`, `BitIsSound`, `EarlyEndKeeps`, `SuccessMeans`, `RunEnds`: the
  bitstream is of the placement its report describes, it has its storage, PLL and
  timing, a run that starts alone and ends before nextpnr's first write leaves those
  results as it found them, exit 0 means results of this run,
  and a run ends.
* `GuardsAreThere`, `TestsWhatIsBuilt`, `PristineIsOwn`: what a green runner
  vouches for; the file lists of suite and bitstream are the same; a mutation run
  never stands in for the tree's own.

Type invariants are proved, not run: `ControlTypeOK` of `OcaProto`, the typing
lemmas of `OcaFifoProofs`, `DirInv` of `OcaSynthProofs`, `TypeOK` in
`OcaSerialProofs`.

### Why the bounds are enough

*Core.* Every hand-off is one or two places deep: two receive banks, one
descriptor, one packet in DRAIN, one published response. Four requests put one in
each stage at once and bring every parity bit back round. A block is 2 words
(`BlockWords`), the receive bank 3 beats, the transmit bank 4 words: one and two
blocks, a bank that is full, and a bench that saturates it all occur. `ClrCycles`
2, `ArgWords` 3 (4 in the code), `FeedReads` 1 (9 in the code) and `EncCycles` 2
shorten straight-line waits; a longer one only delays a stage, and every delay
of the source, sink and engine is explored anyway. `ArgWords` stays above the lag of
three cycles of `rx_rd_data` in the parse, which is what `ReadDone` is about.

*Dual.* `TagDepth` 2 and `CoreDepth` 2 fill, so the stall on `tag_full` is
taken; four frames are as many as the two cores hold between them.

*Serial.* The pointers go round 4 values, the depth is 2, so both wraps occur and
neither is the other, a queue is full while a byte is on the line and another
lands. Two values tell one byte from its neighbour, and one of them is the END at
which the decoder may refuse.

*SLIP.* Frames of none, one short, exactly one word, one word and a half, two
words and over the buffer; six raw bytes leave room for an over-long frame or
for two escapes anywhere in a full one. `CntMax` 1 makes the saturation of the counters reachable. `MinBytes` 2 keeps a
length below the minimum that is not empty.

*Link.* `Ids` is 65536 in the code; in `link_line` it is more than the number of
requests, so that, as in any conversation shorter than 65536 requests, no id comes round.
Three requests are two commands behind one that gave up.

*Console.* 14 requests are two self-tests of seven, the longest script. The second
process starts its ids one after the first (`Seeds`): only differences matter to
a comparison of ids, and of the differences this one gives late replies that meet
in id, in opcode and in both. One fault is enough for each of the steps of a script to be the one that
fails; two faults in one process only bring forward an exit that the first has caused.
`load-key`, `open`, `stats` and `bench` alone are calls of the self-test or of a pair.

*Synthesis.* What a run can leave to the next is the directory, and one run that
leaves it in each state and one that finds it are two. The designs are one with every
table entry, one without pins and one with a floor only. The netlists lose
the key store, the MAC's registers, the blinker or a divisor; the reports miss
either clock or constrain none of them.

*Runners.* They share one file, and two processes are enough for one to write
between any two steps of the other. A guard that is gone is one whose illegal
value builds, or one whose value something else refuses.

### The run that ends in a violation

`synth_edited`: `check_clk_sys_const` says "Fail unless the top's copy of clk_sys
is the clock the PLL makes" (`run_synth.py:1103`). It reads the constant from the
`.sv` file as it is now. A full run with a wrong `CLK_SYS_HZ` fails; correct the
file as the message asks, run again with `--pnr-only`, and the check passes while
the netlist that is placed and packed is the old one, with the wrong serial
divisor (`run_synth.py:1136`; lines 1615-1616 say that skipping the check with that
option would be "how a mapping defect gets in through a door"). The single-engine tops
have an elaboration guard on their side of it, `oca_crypto_dual` has none.

Two limits of the link that no run shows. `bench_pair` looks at both frame
lengths before it writes so as not to leave "one command in flight with nobody reading
its reply" (`link.py:364`); a refusal in the first reply does leave one (line 382), and every
later command of the same `OcaLink` meets the reply of the one before it and
raises. None returns a wrong answer, and the command line makes one call and
leaves. The link asks of a seal's reply only that it holds a tag and of a load's or an
open's nothing, so a body that lost bytes may be returned shorter (`body_ok`; `body_bad`
is the seal left without its tag). `WholeReply`
is about replies run together, as `link_line` has no lost bytes; they happen in `console`, where
the self-test's comparison sees them (`Sound`). A caller finds out when the tag does not verify.

And one of the protocol: `OwnReply` excepts replies that an
earlier process left. The drain ends when the line has been quiet for 20 ms, a
device may answer later than that, and the ids of a process start at a random
16-bit number, so such a reply is taken if opcode and id happen to fit. The same holds of
the half request of a process that died in a write: what it becomes with the next
one's first is answered under the dead process's id. Nothing in the code prevents it and no
property is about it; the other promises of `console` hold with it.

### Fairness

Safety runs assume none. The liveness runs of the RTL assume:

* the clock runs: `WF_vars(Next)`;
* the engine's waits end (`EngReady`, `EngFin`): they count a fixed number of
  rounds in `chacha20.sv` and `poly1305.sv`, here replaced by chance;
* the sink takes what it is offered (`TWord`, `TLast`; `m_fire` in the dual build):
  the UART drains at its baud rate and nothing can stop it;
* a source that began a request finishes it: the decoder has the whole frame in its buffer
  before it offers the first beat, and offers the beats without gaps;
* a core of the dual build that has room becomes ready, and one that holds a
  request answers it: that is `Answered` of `core_shapes`.

None of these is strong fairness: a waiting stage stays enabled until it is served.
A line that goes dead in mid-frame is the decoder's affair and is not assumed away:
an unfinished request has no claim to an answer (`Whole`).

`link_line` assumes that the host's loop runs (`WF_vars(Feed \/ Judge)`) and that
its clock does (`WF_vars(Timeout)`): the deadline is checked each time the input has
been fed, and `select` returns by it. The second needs no more than weak
fairness because reads are bounded by the replies on the line. Nothing is
assumed of the device or of the line. `Issue` is one step, which `RawSerial.write` is not: it
goes on until the kernel has every byte, with no deadline of its own (`transport.py:188`).
`CommandEnds` and `InvocationEnds` are about a kernel that takes what is written.

`console` assumes the same of a process between its calls: it makes the next, and
it leaves (`RunsOn`, `GoesOn`, `Ends`). Nothing is assumed of what starts it.

`synth` assumes that Python runs on between tools (`WF_vars(Check \/ Unlink \/
Timing)`) and that its clock does (`WF_vars(Timeout)`): `communicate(timeout=...)`
returns, and a group that ignores SIGTERM is sent SIGKILL. Nothing is assumed of the
tools; weak fairness of the clock is enough because a tool writes a bounded number of times.

Deadlock is checked in every run of the RTL: a clocked circuit can always take an
edge. It is switched off for `link_line`, `console`, `synth`, `synth_edited` and
`runners`: once the last process has ended, nothing is left to do.

## 5. What is proved

By TLAPS, for every value of the constants allowed by the `ASSUME`s (any set of
requests, any number of packets and slots, any buffer sizes and latencies).

| theorem | statement |
|---|---|
| `ControlTypes` | `Spec => []ControlTypeOK` |
| `BanksAreInterlocked` | `Spec => []BanksInterlocked` |
| `HeldBanksAreFrozen` | `Spec => HeldBanksFrozen` |
| `EngineHasOneOwner` | `Spec => []EngineOwned` |
| `ResultsAreTheOwners` | `Spec => []ResultIsOwners` |
| `DrainIsInTime` | `Spec => []DrainCatches` |
| `BodiesAreVerified` | `Spec => []OnlyVerifiedBytesLeave` |
| `PacketsComeInOrder` | `Spec => []BanksInOrder` |
| `PacketsLeaveInOrder` | `Spec => []AnswersInOrder` |
| `KeysAreInForce` | `Spec => []KeysInForce` |
| `EngineGetsTheMessage` | `Spec => []Absorbed` |
| `BodiesAreWhole` | `Spec => []BodyGrows` |
| `VerdictsAreRight` | `Spec => []Verdicts` |
| `CountersAreRight` | `Spec => []Counted` |
| `ProtoImplements` | `Spec => Implements` (the pipeline implements `OcaServer`) |
| `FakeIsTrue` | `Spec => []FakeAnswersAlike` (the fake board against the pipeline) |
| `TagsNeverOverflow` | `Spec => []NoOverflow` (dual) |
| `TagsDescribeWhatIsOwed` | `Spec => []TagsDescribe` |
| `KeyStoresNeverPart` | `~CoresMayDiverge => (Spec => []KeystoresAgree)` |
| `MergeFailsOnlyClosed` | `Spec => []FailClosed` |
| `DualImplements` | `~CoresMayDiverge => (Spec => Implements)` (the two engines implement `OcaDualServer`) |
| `FifoIsQueue` | `Spec => Implements` (FIFO) |
| `NothingLostUnseen` | `Spec => []LossIsSeen` (serial) |
| `LineFeedsAQueue` | `Spec => Implements` (the queue inside the serial top) |
| `StaysWithin` | `Spec => []Within` (decoder): pointers stay within the buffer |
| `TailsAreZero` | `Spec => []TailIsZero` |
| `BeatsAreHeld` | `Spec => BeatHeld` |
| `WalkedBefore` | `Spec => Walked` |
| `SlipImplements` | `Spec => Implements` (the decoder implements `OcaSlip`) |
| `EncoderRoundTrip` | `Tx!Spec => []Tx!RoundTrip` (the encoder, `OcaSlipTx`) |
| `RepliesAreOwnUntilIdsComeRound` | `Spec => []OwnUntilIdsComeRound` (link) |
| `RepliesAreOwn` | `MaxRequests <= Ids => (Spec => []OwnReply)` |
| `ErrorsAreCaused` | `Spec => []ErrorsHaveCause` (link) |
| `NothingIsLeft` | `"bench_pair" \notin Commands => (Spec => NothingLeftUnread)` |
| `RepliesAreWhole` | `"short" \notin Faults /\ ("cut" \notin Faults \/ InOrder) => (Spec => []WholeReply)` |
| `CommandLineContract` | `Len(RunSelftest) <= Ids => (ConsoleSpec => []ExitIsTheContract)` (console) |
| `BitIsOfItsReport` | `Spec => []BitMatchesReportCalm` (synthesis) |
| `EarlyEndCostsNothing` | `Spec => EarlyEndKeeps` |
| `ZeroMeansResults` | `Spec => SuccessMeans` |
| `BitsWereChecked` | `Spec => [](file["bit"] # None => pinned /\ Checked(file["bit"]))` |
| `BitsAreSound` | `Spec /\ []LossesShow => []BitIsSound` |
| `GreenMeansGuarded` | `ReadByExitCode \cap Shadowed = {} => (Spec => []GuardsAreThere)` (runners) |
| `TestsAreOfTheDesign` | `Spec => []TestsWhatIsBuilt` |
| `PristineRunsItsOwn` | `Spec => []PristineIsOwn` |
| `ExitZeroIsTheContract` | `Spec => []ExitIsTheContract` |

*Banks.* That PROC's bank does not change needs more than "the bank is full".
A write or a clear arrives one edge after the state that raised it, so
`BanksInterlocked` pairs every FSM state with the side of the hand-off it may be
on and with the strobes that may still be under way: RX has a write pending only
in `R_ACCEPT` or `R_LAST`, a clear only in `R_CLEAR`, and RX stays off a full bank in
every state but `R_WAIT`; PROC off `P_IDLE` implies its bank is full. The two
banks are one and the same only if one is both full and not, so RX's strobe
cannot reach PROC's bank. DRAIN and TX are the same argument over
`rsp.bank = Flip(tx_wr_bank)`. `BanksInterlocked` with `ControlTypeOK` is
inductive; `HeldBanksFrozen` follows from it in one step.

*Engine token.* `EngineOwned` counts three places the token can be: PROC, the
descriptor, DRAIN. It is not inductive alone: `P_ENDREQ` moves ownership by
writing `pd.engine`, so `crypto_cmd` must be down in the states before
`P_START`; `D_PUBLISH` gives the token back, so it must know `dcur_valid`; and
the start and block pulses must be tied to the one state in which they are visible
(`TokenStates`). With these, `CanStart` (engine idle, token free, DRAIN empty) gives
that a start meets `S_IDLE`, and the one-cycle gap between the look at
`in_ready` and the block's arrival is covered because only a block leaves
`S_ACCEPT`.

*Data.* `OcaProtoProofs` follows a packet down the pipeline, one part of the
invariant for each stage, each resting on the ones before. `RxInv`: the bank being
written is, once the pulse on its way has landed, the beats taken so far, and a full
bank is the beats of one packet. `ProcInv`: what PROC has read of its bank is that
packet's, and so is every block it submits. `EngineInv`: while the engine is
`Live` the token is out, the engine's message is the token holder's, and a `done`
still to come has nobody else's descriptor in front of it (`NothingAhead`); `ResultIsOwners`
is read off it. `TimedInv` counts: while DRAIN writes
and the engine encrypts the next block, fewer words are left than cycles, so DRAIN is
back in `D_IDLE` in time (`EncCycles >= BlockWords`); that it is not in the middle of a
publication either is again the token, which the publication gives back. `DescInv`: a descriptor that awaits a result carries the tag its packet
came with, and the result it is compared with in `D_CHECK` has the packet's own nonce.
Of the tags a packet may have come with only its own has that nonce
(`OwnNonceOwnTag`), so a match means that it verified. `BodyInv`: the transmit bank holds
words of the token holder only, what is published is of the packet published, and
its length is zero unless that packet verified.

*One server.* `ProtoImplements` needs to know of a response everything the host can see of
it, so `ReplyInv`, in the second half of `OcaProtoProofs`, goes on from `BodyInv`, each part
resting on the ones before it:

1. `BanksInOrder`: a full bank holds the packet PROC counts next, and what was counted,
   waits in a bank and is still coming in are all that arrived. `pr.rx` is then
   the number of the packet in hand, which is what a stats reports.
2. `AnswersInOrder`: read from the host's end (`Left`, `Published`, `Drained`, `Described`),
   each stage holds the first packet after the stage before that has an answer.
3. `KeysInForce`: the key store, with the write still under way, is what the loads before
   the packet being judged make of it. A load writes its key two edges after the verdict,
   when PROC may be at the next packet, hence `KeyNow` and `Judging`.
4. `Judged`: PROC's verdict and drop count are the server's, `lens_blocks` is a cycle
   behind its lengths and settled by the time it is read.
5. `Absorbed`: of the packet that owns the engine, the message so far is the
   blocks given so far (`Fed`), and the cipher blocks put out are those of them.
6. `BodyGrows`: of the blocks put out DRAIN has written `m` whole, or `m` but for
   `out_left` words (`Writing`). When `done` is taken the engine owes nothing, so `m` is
   the message and the bank holds all of it, which `BodyFitsAssumption` makes fit.
7. `Verdicts`: a descriptor that awaits no tag carries the parse's verdict or an engine error,
   and one that does gets in `D_CHECK` the verdict on the tag.
8. `Counted`: `cnt` is a tally of the responses that have left, the one on its way out, and
   of a failed tag whose response DRAIN has still to publish.
9. `RepliesReady`: hence the response registers are `OcaServer`'s reply to its packet.

A last beat is then the server's `Answer` (`AnswerStep`), a last beat of a request its
`Accept` (`AcceptStep`), both on one edge its third disjunct, and every other edge a
stutter. `ServerOperators` says that what `OcaServer` computes with is what the
invariant is about. The proof changed the models in two places: the arms of two `CASE`s
overlapped, which leaves open which one is meant (TLC takes the first), and
`ShapesAssumption` of `OcaRequests` was used and never stated: a header takes a beat,
and a partial beat that is not the last is followed by one.

*The fake board.* What the fake holds after so many requests is a recursive function of
them (`Board`). `Induct`, a set that holds 0 and with each number the next holds all
of them, is a consequence of `NatLessThanWellFounded` that takes no
operator as a parameter, and with it such a function can be unfolded (`BoardIs`): a
frame more changes the keys as the pipeline's `KeysAfter` does (`FrameStep`, `BoardKeys`).
`FakeAnswers` compares the two on one request, and `LastGiven` carries it to the
responses that have left: the last of them was given under the keys of the loads
before it, which is what `Implements` already says of it.

*Expectation FIFOs.* The push is registered, one edge behind the decision that
looked at `tag_full`. `NoOverflow` holds because the dispatcher cannot be in
`D_IDLE`, where it decides, while a push is under way, so that each decision sees
a count that already includes the one before. `TagRoom` in `OcaDualProofs` says this.

*Two cores as one.* For each core the replies owed are, from the oldest: the one
`collect` has half merged or the core offers, those of the requests in the core, the one
`dispatch` is handing over. `TagsInv` pairs each place of that list with a place of the
expectation FIFO, the push under way as its last entry; front, middle and back
(`HalfDone` to `Record`) move in different actions and each has its lemma. From it, a core's next reply is a broadcast's exactly when the tag at
the head says so, which is `TagsDescribe`. The cores take broadcasts in one order
(`SameLoads`): what one has taken and the other has not is at most the frame that
`dispatch` still holds, so with cores that decide alike the key stores agree
whenever neither is ahead. `MergeInv` says the same of the way back: a merge
has the replies of one and the same load on its two sides, no load's reply is passed
on alone, and `trouble` is up exactly if a load that only one core took has been merged;
`FailClosed` follows. `KeyStoresNeverPart` needs `~CoresMayDiverge`: cores that decide
differently have different keys, and `FailClosed` is what is left then.

*Two cores as one device.* `OneServer` adds to those invariants what `OcaDualServer` speaks
of. `PartOk`, `Wholes`: the beats a core has are those of the frame it was sent, all of
them once it holds the frame. `AnswersRight`: a core answers under the last good load sent
before the frame it answers, which it must have taken by then because a core works in the
order of the stream (`InOrder`). `WorkOnce`: a frame of work that has been handed over is held by
one core or has been replied to, never both and never by two. A reply that
leaves the collector is then the server's `Answer`: its content is `AnswerTo`, and the barrier holds
because a load is merged only when it is the oldest frame of both cores, and a
frame behind a load is answered by neither before the load is. A last beat taken from the
decoder is `Accept`, so that `arrived` without the frame under way is what
the server has accepted, and `CycleRefines` puts both together for an edge. Under
`CoresMayDiverge` the refinement is false and not claimed: a load only one
engine took is reported as refused, and the work behind it may be answered under either key.

*FIFO.* The pointers never come further apart than `Depth`, so their wrap bits
tell full from empty (`LevelFacts`) and the distance moves by exactly the pushes and
pops accepted (`LevelMoves`). A push writes an address that none of the queue's
places is at (`PushLands`) and a pop renumbers the places by one (`PopShifts`); from these
the contents after an edge are those of `OcaQueue` place by place. The pointers
of the code are bit vectors and its depth a power of two; the model counts
modulo `2 * Depth`, which is the same thing for those depths and is proved for all.

*Serial line.* `owed` is what was pushed and not yet popped. As long as nothing tells of
trouble it is four pieces joined: the output queue, the byte on the line, the input
queue, in that order, which is `LossIsSeen`. The lemmas about one FIFO are used for
both, by `INSTANCE` with the variables of each, and an edge regroups the pieces:
`OutStep`, `LineMoves` and `InStep` are the three places where a byte goes from one to the
next, `CycleStep`, `InHeldStep` and `OutHeldStep` put them together for an
edge with no reset, and with either board's. A byte heard with a bad stop bit, refused by a
full queue or cut off by a reset raises what `LossIsSeen` asks for on the same
edge. `EndAssumption`, that END is among the values of a byte, is all that is asked of `Data`.

*Link.* `LinkInv` has two parts that matter. `Numbered`: the ids of one process are consecutive
modulo `Ids` in the order of its requests, and `next_id` is the one after the
last. `Carried`: every chunk anywhere on the way (line, input buffer, reader, device)
answers a request that was made, a decodable head carries that request's own
id, and so do the replies matched so far. Two requests of one process with the same id
are therefore `Ids` apart or more: a reply can be taken for another's only
after 65536 requests (`OwnUntilIdsComeRound`), and `OwnReply` holds outright under
`MaxRequests <= Ids`. That hypothesis is needed: ids do come round.

The other three are about `stream`, all that is on its way to whoever looks next:
reader, input buffer and line joined. A step takes some of its front (`OthersDrop`)
or is an answer of the device and adds to its end (`AnswerStream`); nothing else
happens to it, which with `FlowInv` (the reader holds no END, a command waits for its own
requests, the last made) is what each theorem rests on.

* `InSync`: while a command that found nothing left over meets no fault, the stream
  is whole undamaged replies, each to a request of the command still outstanding and each
  once, and so is what the device has. A frame judged then is such a reply, so the only check
  it can fail is that of its status: `ErrorsAreCaused`. When nothing is
  outstanding nothing is on its way: `NothingIsLeft`. `bench_pair` is the
  exception: a refusal of its first request ends it and leaves the second
  reply, so the theorem is about the other commands. It is `OcaLink`'s `Spec` that the theorem is
  about; the run that checks `ErrorsHaveCause` has the command line around it.
* `RepliesAreWhole`: the length of a reply to load, seal and open is not checked, so
  a short body is taken (hypothesis `"short" \notin Faults`). Without lost ENDs
  every head is followed by its tail (`Unshortened`). With them, two
  replies may be joined in one frame under the first one's header; in order,
  to one process and before ids come round (`InOrder`), a head that fits is that of
  the last request made, and no other head can follow it (`Strand`).
  Each part of `InOrder` is needed: with a second engine, an earlier process or an id come
  round, three requests are enough for TLC to put another reply behind a head that is
  taken. `link_line`
  has one process, one engine and lost ENDs, which is the second case.

*Command line.* `ExitIsTheContract` says what is left of an invocation when its process
has gone, so the invariant keeps account while it runs. `Stage`: it is at one call of its
script, and asks while it waits. `Waiting`: what that call has matched passed the
checks of the read it stands at. `Told`: the replies taken are those of the requests
answered, and each was `Sound`. What makes a reply sound is whose it is, which is the
link's argument once more: `Spans` says that the requests of the process are the
last of the log and no more than a self-test makes, so with as many ids as that
no two of them share one. `LinkKept` is the link's invariant; once an invocation has
ended only `Loose` of it is left, without what is said of the ids to come, because an
argument that cannot be packed takes an id that no request then carries. `Refused`: exit 2 comes
of the arguments alone. That `Invocations` are subcommands of
`cli.py` is an assumption of the module.

*Decoder.* The invariant has five parts. `Within`: pointers and lengths are in
range, and a frame being sent has a beat left that ends within the buffer, so that
`rd_ptr` never wraps in the middle of one; this needs that the words a length
takes, rounded up, are no more than the buffer has (`WordsOf`). `AsmInv`: the word being filled
is zero from the next byte on, across the start of a new word (`NextByte`).
`LastInv`: so the last word of a frame is zero behind its length from its END
until it is sent, `rd_ptr + beats_left` pointing to the same word
throughout. `ReadInv`: the read register holds the word it points to while a beat
is on offer. `WalkInv`: the walk has erased what lies below its address. `TailIsZero` is
`LastInv` read through `ReadInv`; `BeatHeld` is `ReadInv` on both sides of
a step that moves no pointer. The sizes are any with `Bytes % WordBytes = 0` and
`MinBytes` in `1..Bytes`; the generate blocks of `oca_slip_rx` allow fewer (words a
power of two).

*Decoder as `OcaSlip`.* What the bytes stand for is a fold over all of them (`Decoded`), and
what the decoder keeps is words and flags; the registers have to be read back. `FlattenStep`
unfolds the fold by one sequence (its recursive function is built by `Induct`, place by place), and
from it `DecodedStep` says what one raw byte adds to a frame, `FullStep` what one word adds to the
buffer's contents. `FrameInv` adds five parts to the invariant. `Escapes`: `err_esc` and
`esc_pend` are the verdict on the bytes since the last END. `Buffered`: unless that verdict is bad,
the full words and the word being filled hold what those bytes stand for (`Held`), or it did
not fit. `Resting`: nothing is kept of a frame while another is sent. `Streamed`: what has gone
out of the frame being sent is its first `rd_ptr` words. `Counted`: the counters are a function
on the three reasons. A byte stored adds itself to what is held, at the seam of two
words too (`StoreHolds`); an END accepts what the buffer holds once the tail is written
(`AcceptedIs`), refuses in the order of `Refusal` (`VerdictIs`), and the beat taken last completes
the frame that was waiting (`DrainStep`). So an END is `TakeEnd`, the last beat `Deliver`, a byte
`Take`, and any other edge a stutter. The invariant was checked by TLC at the bounds of
`slip_rx` before it was proved.

*Encoder.* `OcaSlipProofs` takes it by `INSTANCE` with registers of its own, because both ends
read the same code. What is on the wire stands for what has been walked of the beats, and what
is left of the beat (`Remains`) completes the frame (`TxSent`); an ESC is the last byte on the
wire only while its second half is due (`TxWire`), and then for END or ESC (`TxWalk`).

*Synthesis.* Whether the bitstream is of the report depends on who may write
between the two. `AloneInv`: a run that started beside no orphan has `build/` to
itself until it ends, and a calm directory has no orphan. With that, each stage says
what its tool has still to write and what of this run is there already
(`SynthInv`, `PnrInv`, `TimingInv`, `PackInv`): in `pnr` the report comes
before the configuration and each is of this run once written; past `pnr` both are; in
`pack` the bitstream is either still to come or of this run and whole. `KeptInv`
carries what the run found up to the first write of nextpnr. Together they are
inductive (`NextIInv`), for every design, any set of netlists and reports, every
subset of interruptions and any number of runs. `EarlyEndKeeps` and `SuccessMeans`
follow in one step: a run that reports 0 does so from `timing` of a design
without pins, or from `pack` with nothing left to write.

What a bitstream is made of was checked on the way. `CheckedInv` holds through every
interruption: each report, configuration and bitstream, in `build/` or still to be written by a
tool at work or left behind, is of a netlist that passed `CheckNetlist` (`Proper`); an
edit only takes away what is said of the constant. `JudgedInv` needs the directory to itself: the report judged and the
configuration packed are of one timing (`PnrRep`, `TimedRep`), so what `pack` writes
has passed (`PackRep`). `BitsAreSound` reads `Sound` off the two. A clock is compared
exactly when the constraint is on its net (`RealIsByNet`), which rests on how nextpnr
names clocks (`TimingsAssumption`), and a first PLL as described with a count of one is
all the PLLs there are. That a held flip-flop brings a floor or the
total down is the hypothesis `LossesShow`: it is what the numbers in the tables
are chosen for, a fact about netlists that no rule of the code gives.

*Runners.* The theorems are about any number of processes, each of which runs programs of
`hw/sim` (`OnlyTheTree`), `run_dual_fabric` with any override. The programs are
tables of up to fifty steps, and no step of a proof looks at one as a whole: all are of one
form (`Formed`), which joining two of them keeps (`FormedJoined`), so it is shown of a
guard, a suite and the verdict and carries over to each file (`TreeFormed`). A suite is its
build, unlink, simulation and grade, next to one another; what is mutated is
built in a directory of its own (`Proper`); only the verdict exits 0. The invariants then
follow a process through its program. `GuardsRun`: the guards already passed were in
the sources. That needs `ReadByExitCode \cap Shadowed = {}`: a guard whose bad
value is refused for another reason as well passes unseen where only the exit code is
read. The run has one shadowed guard, and it is one whose message is read. `BuiltProperly`
and `Benches`: each directory holds the model it is for or none, and a
testbench was told the parameter of what it simulates. `ContractKept`: as long as
nobody else has run, the suites behind the process were green, the
results on disk are those of the suite it is in, and nothing else was written.

## 6. What is only model-checked

* Liveness (`Answered`, `CommandEnds`, `InvocationEnds`, `RunEnds`) and everything that
  rests on fairness or `ENABLED`.
* `OwnReply` and `ErrorsHaveCause` of whole invocations: their theorems are about the link's own
  `Spec`, without the calls that fail before they are made.
* That the floors and the total of a design are set where a lost register is missed
  (`LossesShow`): it turns on the sums of the netlist check, over the netlists the run gives it.

## 7. What is not modelled, and why

* The arithmetic of ChaCha20 and Poly1305: covered by vectors, out of a model
  checker's reach. The MAC buffer between them: step 8.
* `src/oca.c` and `src/backend_sw.c`: a stateless wrapper around OpenSSL.
* The reference models and testbenches of `hw/sim`: pure functions of bytes, and the suites
  the runners are modelled as running. The toolchain script downloads and compiles, one
  tool after another.
* The console's RTL, `oca_clkrst` and the PLLs, the bring-up tops: step 10, or vendor
  primitives. What the scripts check of them is in `OcaSynth` and `OcaRunners`.
* UART bit timing, the heartbeat and the LEDs; the tty settings of the transport.
* The fake board's counters, bench clock and misbehaviour hooks.
* The values of the command line's arguments and the wording of its output.
* The 32-bit width of the bench's cycle count: ticks are the requests they stamp.
