------------------------------ MODULE OcaSlipRx ------------------------------
(***************************************************************************)
(* oca_slip_rx.sv: the SLIP decoder in front of the cores. A frame is      *)
(* assembled in a buffer of words and delivered, one beat per tready, only *)
(* once its END has shown it to be deliverable. One step of Next is one    *)
(* rising edge of clk; whether the FIFO upstream has a byte and whether    *)
(* the sink is ready is left to chance.                                    *)
(***************************************************************************)
EXTENDS Naturals, Sequences, SequencesExt

CONSTANTS
  Bytes, MinBytes, CntMax, Plain,
  WordBytes,   \* bytes of a word, 8 in the code
  MaxRaw       \* bound: bytes between two ENDs

ASSUME SizesAssumption ==
  /\ WordBytes \in Nat \ {0} /\ Bytes \in Nat \ {0} /\ Bytes % WordBytes = 0
  /\ MinBytes \in 1..Bytes /\ CntMax \in Nat \ {0} /\ MaxRaw \in Nat

VARIABLES
  state, clr_addr, len, asm_w, esc_pend, err_esc, err_long,
  mem, rd_ptr, rd_q, beats_left, last_keep, cnt,
  raw,        \* observed: the bytes taken since the last END
  got         \* observed: the bytes of the beats taken of this frame

vars == <<state, clr_addr, len, asm_w, esc_pend, err_esc, err_long,
          mem, rd_ptr, rd_q, beats_left, last_keep, cnt, raw, got>>

Words == Bytes \div WordBytes
Octet == {"END", "ESC", "ESC_END", "ESC_ESC"} \cup Plain
Zero == "00"
Cell == Octet \cup {Zero}
Lane == 0..(WordBytes - 1)
ZeroWord == [i \in Lane |-> Zero]
Counters == {"esc", "long", "short"}

\* Reset reaches the registers, not the array: it holds what it held.
Init ==
  /\ state = "S_CLEAR" /\ clr_addr = 0 /\ len = 0 /\ asm_w = ZeroWord
  /\ esc_pend = FALSE /\ err_esc = FALSE /\ err_long = FALSE
  /\ \E b \in Cell : mem = [w \in 0..(Words - 1) |-> [i \in Lane |-> b]]
  /\ rd_ptr = 0 /\ rd_q = ZeroWord /\ beats_left = 0 /\ last_keep = 0
  /\ cnt = [w \in Counters |-> 0]
  /\ raw = <<>> /\ got = <<>>

-----------------------------------------------------------------------------
(* Wires. *)

at_cap == len = Bytes
m_tvalid == state = "S_DRAIN"
m_tlast == beats_left = 1
m_tkeep == IF m_tlast THEN last_keep ELSE WordBytes

rd_next_always(m_tready) ==                 \* seeded fault: tready ignored
  IF m_tvalid THEN (rd_ptr + 1) % Words ELSE rd_ptr
rd_next(m_tready) ==
  IF m_tvalid /\ m_tready THEN (rd_ptr + 1) % Words ELSE rd_ptr

\* An aligned frame keeps all of its last word, not none of it.
end_keep == IF len % WordBytes = 0 THEN WordBytes ELSE len % WordBytes

\* The registered read, every cycle, of the memory as it was.
Read(ptr) == rd_q' = mem[ptr]
ReadKeep == rd_ptr' = rd_next(FALSE) /\ Read(rd_next(FALSE))

StreamKeep == UNCHANGED <<beats_left, last_keep>>
FrameKeep == UNCHANGED <<len, asm_w, esc_pend, err_esc, err_long>>

-----------------------------------------------------------------------------
clear_last_early == Words - 2               \* seeded fault
clear_last == Words - 1

Clear ==
  /\ state = "S_CLEAR"
  /\ mem' = [mem EXCEPT ![clr_addr] = ZeroWord]
  /\ clr_addr' = (clr_addr + 1) % Words
  /\ state' = IF clr_addr = clear_last THEN "S_RECV" ELSE "S_CLEAR"
  /\ ReadKeep /\ FrameKeep /\ StreamKeep /\ UNCHANGED <<cnt, raw, got>>

\* No byte upstream.
RecvIdle ==
  /\ state = "S_RECV"
  /\ ReadKeep /\ FrameKeep /\ StreamKeep
  /\ UNCHANGED <<state, clr_addr, mem, cnt, raw, got>>

\* A decoded byte goes into the word being filled, a full word to memory.
\* The word starts from zeros: a tail must not show the frame before it.
AsmKept(b) == [asm_w EXCEPT ![len % WordBytes] = b]     \* seeded fault
AsmAfter(b) ==
  IF len % WordBytes = WordBytes - 1 THEN ZeroWord ELSE [asm_w EXCEPT ![len % WordBytes] = b]

Store(b) ==
  IF at_cap
  THEN err_long' = TRUE /\ UNCHANGED <<len, asm_w, mem>>
  ELSE /\ len' = len + 1
       /\ asm_w' = AsmAfter(b)
       /\ mem' = IF len % WordBytes = WordBytes - 1
                 THEN [mem EXCEPT ![len \div WordBytes] = [asm_w EXCEPT ![WordBytes - 1] = b]]
                 ELSE mem
       /\ UNCHANGED err_long

RecvByte ==
  \E b \in Octet \ {"END"} :
    /\ state = "S_RECV" /\ Len(raw) < MaxRaw
    /\ raw' = Append(raw, b) /\ got' = <<>>
    /\ esc_pend' = (b = "ESC" /\ ~esc_pend)
    /\ \/ /\ esc_pend /\ b \notin {"ESC_END", "ESC_ESC"}
          /\ err_esc' = TRUE /\ UNCHANGED <<len, asm_w, err_long, mem>>
       \/ /\ esc_pend /\ b \in {"ESC_END", "ESC_ESC"}
          /\ Store(IF b = "ESC_END" THEN "END" ELSE "ESC") /\ UNCHANGED err_esc
       \/ /\ ~esc_pend /\ b # "ESC"
          /\ Store(b) /\ UNCHANGED err_esc
       \/ /\ ~esc_pend /\ b = "ESC"
          /\ UNCHANGED <<len, asm_w, err_long, err_esc, mem>>
    /\ ReadKeep /\ StreamKeep /\ UNCHANGED <<state, clr_addr, cnt>>

bump(c) == IF c = CntMax THEN c ELSE c + 1
Count(why) == cnt' = [cnt EXCEPT ![why] = bump(@)]

\* A pending escape does not reach past the END.
PendingKept == esc_pend                                 \* seeded fault
PendingEnds == FALSE

RecvEnd ==
  /\ state = "S_RECV"
  /\ raw' = <<>> /\ got' = <<>>
  /\ len' = 0 /\ asm_w' = ZeroWord /\ esc_pend' = PendingEnds
  /\ err_esc' = FALSE /\ err_long' = FALSE
  /\ mem' = IF len % WordBytes # 0 THEN [mem EXCEPT ![len \div WordBytes] = asm_w] ELSE mem
  /\ \/ /\ err_esc \/ esc_pend
        /\ Count("esc") /\ ReadKeep /\ StreamKeep /\ UNCHANGED state
     \/ /\ ~(err_esc \/ esc_pend) /\ err_long
        /\ Count("long") /\ ReadKeep /\ StreamKeep /\ UNCHANGED state
     \/ /\ ~(err_esc \/ esc_pend) /\ ~err_long /\ len = 0
        /\ ReadKeep /\ StreamKeep /\ UNCHANGED <<state, cnt>>
     \/ /\ ~(err_esc \/ esc_pend) /\ ~err_long /\ len \in 1..(MinBytes - 1)
        /\ Count("short") /\ ReadKeep /\ StreamKeep /\ UNCHANGED state
     \/ /\ ~(err_esc \/ esc_pend) /\ ~err_long /\ len >= MinBytes
        /\ rd_ptr' = 0 /\ Read(rd_next(FALSE))
        /\ beats_left' = (len + WordBytes - 1) \div WordBytes
        /\ last_keep' = end_keep
        /\ state' = "S_PRIME" /\ UNCHANGED cnt
  /\ UNCHANGED clr_addr

\* The read of word 0 is landing.
Prime ==
  /\ state = "S_PRIME" /\ state' = "S_DRAIN"
  /\ ReadKeep /\ FrameKeep /\ StreamKeep /\ UNCHANGED <<clr_addr, mem, cnt, raw, got>>

Drain ==
  /\ state = "S_DRAIN"
  /\ \E m_tready \in BOOLEAN :
       /\ rd_ptr' = rd_next(m_tready) /\ Read(rd_next(m_tready))
       /\ got' = IF m_tready THEN got \o [i \in 1..m_tkeep |-> rd_q[i - 1]] ELSE got
       /\ beats_left' = IF m_tready /\ ~m_tlast THEN beats_left - 1 ELSE beats_left
       /\ state' = IF m_tready /\ m_tlast THEN "S_RECV" ELSE "S_DRAIN"
  /\ FrameKeep /\ UNCHANGED <<clr_addr, mem, last_keep, cnt, raw>>

Next == Clear \/ RecvIdle \/ RecvByte \/ RecvEnd \/ Prime \/ Drain

Spec == Init /\ [][Next]_vars

-----------------------------------------------------------------------------
(* What the decoder guarantees. *)

\* A beat offered stands unchanged until it is taken, though its word is read
\* anew on every edge.
BeatHeld ==
  [][m_tvalid /\ got' = got /\ state' = "S_DRAIN" => rd_q' = rd_q]_vars

\* What the last beat carries past its length is zero, never the end of a
\* longer frame, which for a load-key is key bytes.
TailIsZero ==
  m_tvalid /\ m_tlast => \A i \in last_keep..(WordBytes - 1) : rd_q[i] = Zero

\* No byte is taken before the walk has erased the whole buffer, which still
\* held the last load-key's bytes when reset came.
Walked == [][state = "S_CLEAR" /\ state' = "S_RECV"
             => \A w \in DOMAIN mem' : mem'[w] = ZeroWord]_vars

\* The frame in the buffer, from the words and the keep of its last.
FrameBytes(words, keep) ==
  FlattenSeq([w \in 1..words |->
    [i \in 1..(IF w = words THEN keep ELSE WordBytes) |-> mem[w - 1][i - 1]]])

\* The decoder delivers exactly the frames that the bytes between ENDs stand
\* for, one at a time and whole, counts each frame it refuses once and under
\* the first reason that holds, and starts afresh after every END.
Slip == INSTANCE OcaSlip WITH
  pending   <- IF state \in {"S_PRIME", "S_DRAIN"}
               THEN FrameBytes(Len(got) \div WordBytes + beats_left, last_keep) ELSE <<>>,
  delivered <- IF state = "S_RECV" THEN got ELSE <<>>,
  refused   <- cnt
Implements == Slip!Spec
=============================================================================
