------------------------------ MODULE OcaProto ------------------------------
(***************************************************************************)
(* oca_proto.sv inside oca_core.sv: the four-stage pipeline RX, PROC,      *)
(* DRAIN and TX, the two packet buffers (oca_pktbuf.sv), the key store     *)
(* (oca_keystore.sv), and the AEAD engine as its header promises it to     *)
(* behave (chacha20_poly1305.sv).                                          *)
(*                                                                         *)
(* One step of Next is one rising edge of clk: every register moves at     *)
(* once, from the values all of them held before the edge, which is what   *)
(* the one-cycle pulses of this design (out_valid, done, start, the write  *)
(* and clear strobes) depend on. Each stage is an action for the registers *)
(* its always_ff block owns, a disjunct per state of its FSM.              *)
(*                                                                         *)
(* What is left to chance on each edge is what the code does not decide:   *)
(* whether the source offers a beat, whether the sink takes one, and how   *)
(* many cycles the engine spends on key setup, authentication and tag.     *)
(***************************************************************************)
EXTENDS OcaRequests

CONSTANTS
  MaxPackets,  \* bound: requests a behaviour may contain
  BufBeats,    \* beats a bank of the receive buffer holds
  BufWords,    \* words a bank of the transmit buffer holds
  ClrCycles,   \* edges the walk of oca_pktbuf takes out of reset
  ArgWords,    \* argument words P_ARGS reads, 4 in the code
  FeedReads,   \* reads per block in P_FEED, 9 in the code
  EncCycles    \* edges chacha20 spends on a block

ASSUME MaxPacketsAssumption == MaxPackets \in Nat
ASSUME BufferAssumption == BufBeats \in Nat /\ BufBeats > 2 /\ BufWords \in Nat
\* Both directions hold BYTES, so a request that fits has a body that fits.
ASSUME BodyFitsAssumption ==
  \A r \in Requests : r.op \in {"seal", "open"} => r.msg * BlockWords <= BufWords
ASSUME TimingAssumption ==
  /\ ClrCycles \in Nat /\ ArgWords \in Nat /\ FeedReads \in Nat
  /\ EncCycles \in Nat /\ ArgWords > 2 /\ EncCycles >= BlockWords

VARIABLES
  \* the request stream, and the beats of the current packet already taken
  arrived, src,
  \* RX
  rx_state, rx_wr_bank, rx_wr, rx_wr_clear, fill_par, keep_bad,
  \* PROC: FSM, banks and tokens; the descriptor; the rest of its registers
  pr_state, rx_rd_bank, free_par, crypto_cmd, eng_take_par,
  pd_put_par, pd, rd_cnt, pr,
  \* the pulses and values PROC drives into key store and engine
  ks_wr, ks_rd_slot, eng_start, eng_in, eng_key, eng_nonce,
  \* packet buffers and key store
  rxbuf, txbuf, clr_left, keys, rd_key,
  \* the engine
  eng_state, eng_timer, eng_cur, eng_msg, eng_out, eng_done, eng_err,
  \* DRAIN
  dr_state, outblk, out_left, done, dcur, dcur_valid, pd_get_par,
  eng_rel_par, cnt, tx_wr_bank, tx_wr, tx_wr_clear, rsp, rsp_pub_par,
  \* TX, and the responses that have left
  ts_state, beats, rsp_done_par, responses

rxVars    == <<arrived, src, rx_state, rx_wr_bank, rx_wr, rx_wr_clear, fill_par, keep_bad>>
procVars  == <<pr_state, rx_rd_bank, free_par, crypto_cmd, eng_take_par, pd_put_par,
               pd, rd_cnt, pr, ks_wr, ks_rd_slot, eng_start, eng_in, eng_key, eng_nonce>>
bufVars   == <<rxbuf, txbuf, clr_left, keys, rd_key>>
engVars   == <<eng_state, eng_timer, eng_cur, eng_msg, eng_out, eng_done, eng_err>>
drainVars == <<dr_state, outblk, out_left, done, dcur, dcur_valid, pd_get_par,
               eng_rel_par, cnt, tx_wr_bank, tx_wr, tx_wr_clear, rsp, rsp_pub_par>>
txVars    == <<ts_state, beats, rsp_done_par, responses>>
vars == <<rxVars, procVars, bufVars, engVars, drainVars, txVars>>

Bit == {0, 1}
Bank == {0, 1}
None == <<>>                       \* no beat, block, write or tag this cycle
Beat(p, b) == <<p, b>>
Flip(x) == 1 - x

\* The hand-offs: a pair of parity bits with one writer apiece, full when
\* they differ.
bank_full(b) == fill_par[b] # free_par[b]
pd_valid     == pd_put_par # pd_get_par
eng_owned    == eng_take_par # eng_rel_par
rsp_pending  == rsp_pub_par # rsp_done_par
drain_empty  == ~pd_valid /\ ~dcur_valid
eng_busy     == eng_state # "S_IDLE"
eng_in_ready == eng_state = "S_ACCEPT"
s_tready     == rx_state = "R_ACCEPT" /\ clr_left = 0

-----------------------------------------------------------------------------
(* Reset values. *)

ProcReset ==
  [hdr |-> 0, args |-> 0, req |-> 0, len |-> 0, status |-> "OK", lens |-> 0,
   lens_bad |-> TRUE, lens_blocks |-> 1, blk |-> None, i |-> 1, n |-> 1,
   t0 |-> 0, rx |-> 0, drop |-> 0]

NoDesc == [pid |-> 0, status |-> "OK", crypto |-> FALSE, engine |-> FALSE,
           tag |-> NoTag, snap |-> <<0, 0>>, t0 |-> 0, len |-> 0]

Init ==
  /\ arrived = <<>> /\ src = 0
  /\ rx_state = "R_CLEAR" /\ rx_wr_bank = 0 /\ rx_wr = None /\ rx_wr_clear = FALSE
  /\ fill_par = [b \in Bank |-> 0] /\ keep_bad = [b \in Bank |-> FALSE]
  /\ pr_state = "P_IDLE" /\ rx_rd_bank = 0 /\ free_par = [b \in Bank |-> 0]
  /\ crypto_cmd = FALSE /\ eng_take_par = 0 /\ pd_put_par = 0 /\ pd = NoDesc
  /\ rd_cnt = 0 /\ pr = ProcReset
  /\ ks_wr = None /\ ks_rd_slot = 0
  /\ eng_start = FALSE /\ eng_in = None /\ eng_key = 0 /\ eng_nonce = 0
  /\ rxbuf = [b \in Bank |-> <<>>] /\ txbuf = [b \in Bank |-> <<>>]
  /\ clr_left = ClrCycles
  /\ keys = [s \in 0..(NumSlots - 1) |-> 0] /\ rd_key = 0
  /\ eng_state = "S_IDLE" /\ eng_timer = 0 /\ eng_cur = None /\ eng_msg = NoTag
  /\ eng_out = None /\ eng_done = FALSE /\ eng_err = FALSE
  /\ dr_state = "D_IDLE" /\ outblk = None /\ out_left = 0
  /\ done = [seen |-> FALSE, tag |-> NoTag, to |-> 0]
  /\ dcur = NoDesc /\ dcur_valid = FALSE
  /\ pd_get_par = 0 /\ eng_rel_par = 0 /\ cnt = [done |-> 0, auth |-> 0]
  /\ tx_wr_bank = 0 /\ tx_wr = None /\ tx_wr_clear = FALSE
  /\ rsp = [pid |-> 0, status |-> "OK", extra |-> NoExtra, len |-> 0, bank |-> 0]
  /\ rsp_pub_par = 0
  /\ ts_state = "T_IDLE" /\ beats = <<>> /\ rsp_done_par = 0 /\ responses = <<>>

-----------------------------------------------------------------------------
(* RX: the request stream into one bank of the receive buffer. *)

RxClear ==
  /\ rx_state = "R_CLEAR"
  /\ keep_bad' = [keep_bad EXCEPT ![rx_wr_bank] = FALSE]
  /\ rx_state' = "R_ACCEPT"
  /\ rx_wr' = None /\ rx_wr_clear' = FALSE
  /\ UNCHANGED <<arrived, src, rx_wr_bank, fill_par>>

\* Take the next beat of the last packet of a: written unless it is empty.
TakeBeat(a) ==
  LET r    == a[Len(a)]
      b    == src + 1
      last == b = r.beats + (IF r.nul THEN 1 ELSE 0)
  IN  /\ arrived' = a
      /\ src' = IF last THEN 0 ELSE b
      /\ rx_wr' = IF b <= r.beats THEN Beat(Len(a), b) ELSE None
      /\ keep_bad' = [keep_bad EXCEPT ![rx_wr_bank] =
                        @ \/ (r.hdr = "keep" /\ b = 1 /\ ~last)]
      /\ rx_state' = IF last THEN "R_LAST" ELSE "R_ACCEPT"

RxAccept ==
  /\ s_tready
  /\ \/ /\ src = 0 /\ Len(arrived) < MaxPackets
        /\ \E r \in Requests : TakeBeat(Append(arrived, r))
     \/ src > 0 /\ TakeBeat(arrived)
  /\ rx_wr_clear' = FALSE
  /\ UNCHANGED <<rx_wr_bank, fill_par>>

\* No beat offered, or the buffers are still being zeroed.
RxIdle ==
  /\ rx_state = "R_ACCEPT"
  /\ rx_wr' = None /\ rx_wr_clear' = FALSE
  /\ UNCHANGED <<arrived, src, rx_state, rx_wr_bank, fill_par, keep_bad>>

\* The final beat's write lands during this cycle; the bank is PROC's next.
RxLast ==
  /\ rx_state = "R_LAST"
  /\ fill_par' = [fill_par EXCEPT ![rx_wr_bank] = Flip(@)]
  /\ rx_wr_bank' = Flip(rx_wr_bank)
  /\ rx_state' = "R_WAIT"
  /\ rx_wr' = None /\ rx_wr_clear' = FALSE
  /\ UNCHANGED <<arrived, src, keep_bad>>

\* Only the bank PROC has given back may be cleared.
NextBankUnchecked == TRUE          \* seeded fault: the wait is left out
NextBankFree == ~bank_full(rx_wr_bank)

RxWait ==
  /\ rx_state = "R_WAIT"
  /\ rx_wr_clear' = NextBankFree
  /\ rx_state' = IF NextBankFree THEN "R_CLEAR" ELSE "R_WAIT"
  /\ rx_wr' = None
  /\ UNCHANGED <<arrived, src, rx_wr_bank, fill_par, keep_bad>>

RX == RxClear \/ RxAccept \/ RxIdle \/ RxLast \/ RxWait

-----------------------------------------------------------------------------
(* PROC: parse, key lookup and write, and the engine's input side. *)

\* The count and the words of the bank PROC reads. A word of the packet that
\* was never written is a stale one, of no request in particular: 0.
rx_rd_count == Len(rxbuf[rx_rd_bank])
PidAt(b) == IF b <= rx_rd_count THEN rxbuf[rx_rd_bank][b][1] ELSE 0
BankWhole ==
  /\ rx_rd_count = arrived[pr.req].beats
  /\ \A b \in 1..rx_rd_count : rxbuf[rx_rd_bank][b] = Beat(pr.req, b)

\* The sequential reader: word k (from 0) stands on rx_rd_data in cycle k + 3
\* after the read was started, and rd_got counts the words before it.
ReadDoneEarly(words) == rd_cnt = words + 2     \* seeded fault: one word early
ReadDone(words) == rd_cnt = words + 3

\* Registered every cycle from the lengths, one cycle behind them.
JudgeLengths(p) ==
  [p EXCEPT !.lens_bad    = pr.lens = 0 \/ LenBad(arrived[pr.lens], pr.len),
            !.lens_blocks = IF pr.lens = 0 THEN 1 ELSE NumBlocks(arrived[pr.lens])]

NoPulse == ks_wr' = None /\ eng_start' = FALSE /\ eng_in' = None
ProcKeep == UNCHANGED <<rx_rd_bank, free_par, pd_put_par, pd>>
TokenKeep == UNCHANGED <<crypto_cmd, eng_take_par>>
EngKeep == UNCHANGED <<eng_key, eng_nonce>>

Refuse(p, status) ==
  /\ pr' = JudgeLengths([p EXCEPT !.status = status])
  /\ pr_state' = "P_ENDREQ"
  /\ rd_cnt' = rd_cnt + 1

\* A packet starts without the engine, whoever had it before.
TokenBitKept == crypto_cmd          \* seeded fault: the last packet's bit stays
TokenBitCleared == FALSE

PIdle ==
  /\ pr_state = "P_IDLE"
  /\ pr_state' = IF bank_full(rx_rd_bank) THEN "P_PARSE" ELSE "P_IDLE"
  /\ rd_cnt' = IF bank_full(rx_rd_bank) THEN 1 ELSE 0
  /\ crypto_cmd' = IF bank_full(rx_rd_bank) THEN TokenBitCleared ELSE crypto_cmd
  /\ pr' = JudgeLengths(pr)
  /\ NoPulse /\ ProcKeep /\ EngKeep /\ UNCHANGED <<eng_take_par, ks_rd_slot>>

PParse ==
  /\ pr_state = "P_PARSE"
  /\ pr' = JudgeLengths([pr EXCEPT !.hdr = IF rd_cnt = 3 THEN PidAt(1) ELSE @])
  /\ pr_state' = IF ReadDone(1) THEN "P_DISPATCH" ELSE "P_PARSE"
  /\ rd_cnt' = rd_cnt + 1
  /\ NoPulse /\ ProcKeep /\ TokenKeep /\ EngKeep /\ UNCHANGED ks_rd_slot

PDispatch ==
  LET h     == arrived[pr.hdr]
      short == rx_rd_count > 0 => h.hdr = "short"
      st    == IF keep_bad[rx_rd_bank] THEN "BAD_LENGTH" ELSE HeaderStatus(h)
      drop  == short \/ st \in {"BAD_MAGIC", "BAD_VERSION", "BAD_OPCODE"}
      p     == [pr EXCEPT !.req = pr.hdr, !.len = rx_rd_count, !.rx = @ + 1,
                          !.drop = IF drop THEN @ + 1 ELSE @]
  IN  /\ pr_state = "P_DISPATCH"
      /\ ks_rd_slot' = IF pr.hdr = 0 THEN ks_rd_slot ELSE h.slot
      /\ \/ /\ short
            /\ pr' = JudgeLengths(p) /\ pr_state' = "P_DROP" /\ rd_cnt' = 0
         \/ ~short /\ st # "OK" /\ Refuse(p, st)
         \/ /\ ~short /\ st = "OK"
            /\ pr' = JudgeLengths(p) /\ pr_state' = "P_ARGS" /\ rd_cnt' = 1
      /\ NoPulse /\ ProcKeep /\ TokenKeep /\ EngKeep

\* The four argument words land: the first fills bytes 8.., the second the
\* two lengths.
PArgsRead ==
  /\ pr_state = "P_ARGS" /\ ~ReadDone(ArgWords)
  /\ pr' = JudgeLengths([pr EXCEPT !.args = IF rd_cnt = 3 THEN PidAt(2) ELSE @,
                                   !.lens = IF rd_cnt = 4 THEN PidAt(2) ELSE @])
  /\ rd_cnt' = rd_cnt + 1
  /\ NoPulse /\ ProcKeep /\ TokenKeep /\ EngKeep /\ UNCHANGED <<pr_state, ks_rd_slot>>

PArgs ==
  LET r == arrived[pr.req]
      refusal ==
        CASE r.op = "load" ->
               IF r.slot >= NumSlots THEN "BAD_SLOT"
               ELSE IF pr.len # 2 THEN "BAD_LENGTH" ELSE "OK"
          [] r.op = "stats" -> "OK"
          [] OTHER -> IF rd_key = 0 THEN "BAD_SLOT"
                      ELSE IF pr.lens_bad THEN "BAD_LENGTH" ELSE "OK"
  IN  /\ pr_state = "P_ARGS" /\ ReadDone(ArgWords)
      /\ \/ /\ refusal # "OK" \/ r.op = "stats"
            /\ Refuse(pr, refusal) /\ EngKeep
         \/ /\ refusal = "OK" /\ r.op = "load"
            /\ pr_state' = "P_LOADKEY" /\ pr' = JudgeLengths(pr) /\ rd_cnt' = 0
            /\ EngKeep
         \/ /\ refusal = "OK" /\ Crypto(r)
            /\ eng_key' = rd_key /\ eng_nonce' = pr.args
            /\ pr' = JudgeLengths([pr EXCEPT !.status = "OK", !.i = 1,
                                             !.n = pr.lens_blocks])
            /\ pr_state' = "P_START" /\ rd_cnt' = 0
      /\ NoPulse /\ ProcKeep /\ TokenKeep /\ UNCHANGED ks_rd_slot

PLoadKey ==
  /\ pr_state = "P_LOADKEY"
  /\ ks_wr' = <<arrived[pr.req].slot, pr.args>>
  /\ eng_start' = FALSE /\ eng_in' = None
  /\ Refuse(pr, "OK")
  /\ ProcKeep /\ TokenKeep /\ EngKeep /\ UNCHANGED ks_rd_slot

\* The engine is taken as a token, and only once DRAIN holds nothing of any
\* earlier packet.
CanStartIfIdle == ~eng_busy                        \* seeded fault: `busy` alone
CanStartIfToken == ~eng_busy /\ ~eng_owned         \* seeded fault: DRAIN ignored
CanStart == ~eng_busy /\ ~eng_owned /\ drain_empty

PStart ==
  /\ pr_state = "P_START"
  /\ \/ /\ CanStart
        /\ eng_start' = TRUE /\ eng_take_par' = Flip(eng_take_par)
        /\ crypto_cmd' = TRUE
        /\ pr' = JudgeLengths([pr EXCEPT !.t0 = pr.req])
        /\ pr_state' = "P_FEED" /\ rd_cnt' = 1
     \/ /\ ~CanStart
        /\ eng_start' = FALSE /\ pr' = JudgeLengths(pr)
        /\ UNCHANGED <<pr_state, rd_cnt, crypto_cmd, eng_take_par>>
  /\ ks_wr' = None /\ eng_in' = None
  /\ ProcKeep /\ EngKeep /\ UNCHANGED ks_rd_slot

\* A block is read whole; bytes of another packet make it no block of this.
PFeed ==
  /\ pr_state = "P_FEED"
  /\ pr' = JudgeLengths(
             [pr EXCEPT !.blk = IF BankWhole THEN Block(arrived[pr.req], pr.req, pr.i)
                                ELSE <<0, 0>>])
  /\ pr_state' = IF ReadDone(FeedReads) THEN "P_PRESENT" ELSE "P_FEED"
  /\ rd_cnt' = rd_cnt + 1
  /\ NoPulse /\ ProcKeep /\ TokenKeep /\ EngKeep /\ UNCHANGED ks_rd_slot

PPresent ==
  /\ pr_state = "P_PRESENT"
  /\ eng_in' = IF ~eng_err /\ eng_in_ready
               THEN <<pr.blk, Ciphers(arrived[pr.req], pr.i), pr.i = pr.n>>
               ELSE None
  /\ pr_state' = CASE eng_err -> "P_ENDREQ"
                   [] ~eng_err /\ eng_in_ready -> "P_NEXTBLK"
                   [] OTHER -> "P_PRESENT"
  /\ pr' = JudgeLengths(pr)
  /\ ks_wr' = None /\ eng_start' = FALSE
  /\ ProcKeep /\ TokenKeep /\ EngKeep /\ UNCHANGED <<ks_rd_slot, rd_cnt>>

PNextBlk ==
  /\ pr_state = "P_NEXTBLK"
  /\ pr_state' = IF pr.i = pr.n THEN "P_ENDREQ" ELSE "P_FEED"
  /\ pr' = JudgeLengths([pr EXCEPT !.i = IF pr.i = pr.n THEN @ ELSE @ + 1])
  /\ rd_cnt' = 1
  /\ NoPulse /\ ProcKeep /\ TokenKeep /\ EngKeep /\ UNCHANGED ks_rd_slot

\* `err` is sticky until the next start: it concerns only an engine's owner.
EngineErrSticky == eng_err          \* seeded fault: not qualified
EngineFailed == crypto_cmd /\ eng_err
AwaitsAlways == TRUE                \* seeded fault: waits for a result that never comes
AwaitsResult == crypto_cmd /\ ~eng_err

\* The descriptor: everything DRAIN will judge this packet on, copied before
\* PROC parses the next one. pd_tag is the received tag, for a stats PROC's
\* two counters, for a bench the cycle it took the engine.
Descriptor ==
  LET r == arrived[pr.req]
  IN  [pid    |-> pr.req,
       status |-> IF EngineFailed THEN "ENGINE_ERR" ELSE pr.status,
       crypto |-> AwaitsResult,
       engine |-> crypto_cmd,
       tag    |-> IF r.op = "open" /\ pr.args # 0 THEN ReceivedTag(arrived, pr.args)
                  ELSE NoTag,
       snap   |-> IF r.op = "stats" THEN <<pr.rx, pr.drop>> ELSE <<0, 0>>,
       t0     |-> IF r.op = "bench" THEN pr.t0 ELSE 0,
       len    |-> 0]

PEndReq ==
  /\ pr_state = "P_ENDREQ"
  /\ \/ /\ ~pd_valid
        /\ pd' = Descriptor /\ pd_put_par' = Flip(pd_put_par)
        /\ free_par' = [free_par EXCEPT ![rx_rd_bank] = Flip(@)]
        /\ rx_rd_bank' = Flip(rx_rd_bank)
        /\ pr_state' = "P_IDLE"
     \/ pd_valid /\ UNCHANGED <<pd, pd_put_par, free_par, rx_rd_bank, pr_state>>
  /\ pr' = JudgeLengths(pr) /\ rd_cnt' = 0
  /\ NoPulse /\ TokenKeep /\ EngKeep /\ UNCHANGED ks_rd_slot

PDrop ==
  /\ pr_state = "P_DROP"
  /\ free_par' = [free_par EXCEPT ![rx_rd_bank] = Flip(@)]
  /\ rx_rd_bank' = Flip(rx_rd_bank)
  /\ pr_state' = "P_IDLE"
  /\ pr' = JudgeLengths(pr) /\ rd_cnt' = 0
  /\ NoPulse /\ TokenKeep /\ EngKeep /\ UNCHANGED <<pd, pd_put_par, ks_rd_slot>>

PROC ==
  \/ PIdle \/ PParse \/ PDispatch \/ PArgsRead \/ PArgs \/ PLoadKey \/ PStart
  \/ PFeed \/ PPresent \/ PNextBlk \/ PEndReq \/ PDrop

-----------------------------------------------------------------------------
(* The packet buffers and the key store. *)

\* One bank's content after an edge: a clear beats a write, a full bank takes
\* no word, and neither port does anything while the array is zeroed.
Written(buf, clear, word, size) ==
  IF clear THEN <<>>
  ELSE IF word # None /\ Len(buf) < size THEN Append(buf, word) ELSE buf

KeyWriteUnaddressed(w, s) == w # None                 \* seeded fault
KeyWriteHits(w, s) == w # None /\ w[1] = s

BUF ==
  /\ clr_left' = IF clr_left > 0 THEN clr_left - 1 ELSE 0
  /\ \/ clr_left > 0 /\ UNCHANGED <<rxbuf, txbuf>>
     \/ /\ clr_left = 0
        /\ rxbuf' = [rxbuf EXCEPT ![rx_wr_bank] = Written(@, rx_wr_clear, rx_wr, BufBeats)]
        /\ txbuf' = [txbuf EXCEPT ![tx_wr_bank] = Written(@, tx_wr_clear, tx_wr, BufWords)]
  /\ keys' = [s \in DOMAIN keys |->
                IF KeyWriteHits(ks_wr, s) THEN ks_wr[2] ELSE keys[s]]
  /\ rd_key' = IF ks_rd_slot < NumSlots THEN keys[ks_rd_slot] ELSE 0

-----------------------------------------------------------------------------
(* The engine: what chacha20_poly1305 does on the ports PROC and DRAIN see. *)

EngNoPulse == eng_out' = None /\ eng_done' = FALSE
EngMsgKeep == UNCHANGED <<eng_cur, eng_msg, eng_err>>

\* A start is honoured in S_IDLE and ignored everywhere else.
EngIdle ==
  /\ eng_state = "S_IDLE"
  /\ \/ /\ eng_start
        /\ eng_msg' = [key |-> eng_key, nonce |-> eng_nonce, over |-> <<>>]
        /\ eng_err' = FALSE /\ eng_state' = "S_KEY" /\ UNCHANGED eng_cur
     \/ ~eng_start /\ EngMsgKeep /\ UNCHANGED eng_state
  /\ EngNoPulse /\ UNCHANGED eng_timer

\* A wait of the engine ends: the one-time key, the MAC buffer.
EngReady ==
  /\ \/ eng_state = "S_KEY" /\ eng_state' = "S_ACCEPT"
     \/ /\ eng_state = "S_WAITBUF"
        /\ eng_state' = IF eng_cur[3] THEN "S_FIN" ELSE "S_ACCEPT"
  /\ EngNoPulse /\ EngMsgKeep /\ UNCHANGED eng_timer

\* The tag is ready: `done`, with the engine idle again on the same edge.
EngFin ==
  /\ eng_state = "S_FIN" /\ eng_state' = "S_IDLE"
  /\ eng_done' = TRUE /\ eng_out' = None
  /\ EngMsgKeep /\ UNCHANGED eng_timer

EngWaits ==
  /\ eng_state \in {"S_KEY", "S_WAITBUF", "S_FIN"}
  /\ EngNoPulse /\ EngMsgKeep /\ UNCHANGED <<eng_state, eng_timer>>

EngAccept ==
  /\ eng_state = "S_ACCEPT" /\ eng_in # None
  /\ eng_msg' = [eng_msg EXCEPT !.over = Append(@, eng_in[1])]
  /\ eng_cur' = eng_in
  /\ eng_state' = IF eng_in[2] THEN "S_ENC" ELSE "S_WAITBUF"
  /\ eng_timer' = EncCycles
  /\ EngNoPulse /\ UNCHANGED eng_err

\* A block refused: the message is abandoned, and no `done` will come.
EngAbort ==
  /\ EngineMayFault /\ eng_state = "S_ACCEPT" /\ eng_in # None
  /\ eng_err' = TRUE /\ eng_state' = "S_IDLE"
  /\ EngNoPulse /\ UNCHANGED <<eng_cur, eng_msg, eng_timer>>

EngNoBlock ==
  /\ eng_state = "S_ACCEPT" /\ eng_in = None
  /\ EngNoPulse /\ EngMsgKeep /\ UNCHANGED <<eng_state, eng_timer>>

EngEncrypt ==
  /\ eng_state = "S_ENC"
  /\ \/ /\ eng_timer > 1
        /\ eng_timer' = eng_timer - 1 /\ eng_out' = None /\ UNCHANGED eng_state
     \/ /\ eng_timer <= 1
        /\ eng_out' = eng_cur[1] /\ eng_state' = "S_WAITBUF" /\ UNCHANGED eng_timer
  /\ eng_done' = FALSE /\ EngMsgKeep

ENGINE ==
  \/ EngIdle \/ EngReady \/ EngFin \/ EngWaits
  \/ EngAccept \/ EngAbort \/ EngNoBlock \/ EngEncrypt

-----------------------------------------------------------------------------
(* DRAIN: the transmit buffer's write port, the tag check, publication. *)

tx_wr_count == Len(txbuf[tx_wr_bank])
op_of(d) == arrived[d.pid].op

\* `done` is one cycle wide and is caught in every state.
CaughtDone ==
  IF eng_done THEN [seen |-> TRUE, tag |-> eng_msg, to |-> eng_msg.nonce] ELSE done

CatchDone == done' = CaughtDone
DNoPulse == tx_wr' = None /\ tx_wr_clear' = FALSE
DKeepRsp == UNCHANGED <<eng_rel_par, tx_wr_bank, rsp, rsp_pub_par>>

\* A block to catch comes before a descriptor to take.
DCatch ==
  /\ dr_state = "D_IDLE" /\ eng_out # None
  /\ outblk' = eng_out /\ out_left' = BlockWords
  /\ dr_state' = "D_WRITE"
  /\ CatchDone /\ DNoPulse /\ DKeepRsp /\ UNCHANGED <<dcur, dcur_valid, pd_get_par, cnt>>

DTake ==
  /\ dr_state = "D_IDLE" /\ eng_out = None /\ pd_valid /\ ~dcur_valid
  /\ dcur' = pd /\ dcur_valid' = TRUE /\ pd_get_par' = Flip(pd_get_par)
  /\ CatchDone /\ DNoPulse /\ DKeepRsp /\ UNCHANGED <<dr_state, outblk, out_left, cnt>>

HasResult == dcur_valid /\ (~dcur.crypto \/ done.seen)

DResult ==
  /\ dr_state = "D_IDLE" /\ eng_out = None /\ HasResult
  /\ done' = [CaughtDone EXCEPT !.seen = FALSE]
  /\ dr_state' = "D_FIN"
  /\ DNoPulse /\ DKeepRsp
  /\ UNCHANGED <<outblk, out_left, dcur, dcur_valid, pd_get_par, cnt>>

DIdle ==
  /\ dr_state = "D_IDLE" /\ eng_out = None
  /\ ~(pd_valid /\ ~dcur_valid) /\ ~HasResult
  /\ CatchDone /\ DNoPulse /\ DKeepRsp
  /\ UNCHANGED <<dr_state, outblk, out_left, dcur, dcur_valid, pd_get_par, cnt>>

DWrite ==
  /\ dr_state = "D_WRITE"
  /\ tx_wr' = IF out_left > 0 THEN outblk ELSE None
  /\ out_left' = IF out_left > 0 THEN out_left - 1 ELSE 0
  /\ dr_state' = IF out_left > 0 THEN "D_WRITE" ELSE "D_IDLE"
  /\ tx_wr_clear' = FALSE
  /\ CatchDone /\ DKeepRsp /\ UNCHANGED <<outblk, dcur, dcur_valid, pd_get_par, cnt>>

\* The body is sized by the count of this packet's own bank.
DFin ==
  /\ dr_state = "D_FIN"
  /\ \/ /\ dcur.crypto /\ op_of(dcur) = "open"
        /\ dr_state' = "D_CHECK" /\ UNCHANGED dcur
     \/ /\ ~(dcur.crypto /\ op_of(dcur) = "open")
        /\ dcur' = [dcur EXCEPT !.len =
                      IF dcur.crypto /\ dcur.status = "OK" /\ op_of(dcur) # "bench"
                      THEN tx_wr_count ELSE 0]
        /\ dr_state' = "D_PUBLISH"
  /\ CatchDone /\ DNoPulse /\ DKeepRsp
  /\ UNCHANGED <<outblk, out_left, dcur_valid, pd_get_par, cnt>>

tag_unchecked == TRUE               \* seeded fault: every tag accepted
tag_match == done.tag = dcur.tag

DCheck ==
  /\ dr_state = "D_CHECK" /\ dr_state' = "D_PUBLISH"
  /\ \/ /\ tag_match
        /\ dcur' = [dcur EXCEPT !.len = tx_wr_count]
        /\ tx_wr_clear' = FALSE /\ UNCHANGED cnt
     \/ /\ ~tag_match
        /\ dcur' = [dcur EXCEPT !.status = "AUTH_FAIL", !.len = 0]
        /\ tx_wr_clear' = TRUE /\ cnt' = [cnt EXCEPT !.auth = @ + 1]
  /\ tx_wr' = None
  /\ CatchDone /\ DKeepRsp /\ UNCHANGED <<outblk, out_left, dcur_valid, pd_get_par>>

\* The extra field, of a successful seal, stats or bench.
DExtra ==
  LET op == op_of(dcur)
  IN  IF dcur.status # "OK" \/ op \in {"load", "open"} THEN NoExtra
      ELSE CASE op = "stats" -> [kind |-> "stats", rx |-> dcur.snap[1], drop |-> dcur.snap[2],
                                 done |-> cnt.done, auth |-> cnt.auth]
             [] op = "bench" -> [kind |-> "bench", from |-> dcur.t0, to |-> done.to]
             [] OTHER        -> [kind |-> "tag", tag |-> done.tag]

\* Who gives the engine back: the packet that took it, also when the engine
\* abandoned its message.
ReleasesOnResult(d) == d.crypto     \* seeded fault: one bit for two questions
ReleasesEngine(d) == d.engine

\* The previous response must have left: its registers and its bank are TX's.
PublishAtOnce == TRUE               \* seeded fault: the wait is left out
MayPublish == ~rsp_pending

\* The one point where a result becomes a response.
DPublish ==
  /\ dr_state = "D_PUBLISH"
  /\ \/ /\ MayPublish
        /\ rsp' = [pid |-> dcur.pid, status |-> dcur.status, extra |-> DExtra,
                   len |-> dcur.len, bank |-> tx_wr_bank]
        /\ rsp_pub_par' = Flip(rsp_pub_par)
        /\ cnt' = IF dcur.status = "OK" THEN [cnt EXCEPT !.done = @ + 1] ELSE cnt
        /\ dcur_valid' = FALSE
        /\ eng_rel_par' = IF ReleasesEngine(dcur) THEN Flip(eng_rel_par) ELSE eng_rel_par
        /\ tx_wr_bank' = Flip(tx_wr_bank)
        /\ dr_state' = "D_CLEAR"
     \/ ~MayPublish /\ DKeepRsp /\ UNCHANGED <<dr_state, cnt, dcur_valid>>
  /\ CatchDone /\ DNoPulse /\ UNCHANGED <<outblk, out_left, dcur, pd_get_par>>

\* The clear lands after the flip, in the bank written next.
DClear ==
  /\ dr_state = "D_CLEAR" /\ dr_state' = "D_IDLE"
  /\ tx_wr_clear' = TRUE /\ tx_wr' = None
  /\ CatchDone /\ DKeepRsp
  /\ UNCHANGED <<outblk, out_left, dcur, dcur_valid, pd_get_par, cnt>>

DRAIN ==
  DCatch \/ DTake \/ DResult \/ DIdle \/ DWrite \/ DFin \/ DCheck \/ DPublish \/ DClear

-----------------------------------------------------------------------------
(* TX: the transmit buffer's read port and the response stream. *)

TStart ==
  /\ ts_state = "T_IDLE"
  /\ ts_state' = IF rsp_pending THEN "T_STREAM" ELSE "T_IDLE"
  /\ beats' = IF rsp_pending THEN <<>> ELSE beats
  /\ UNCHANGED <<rsp_done_par, responses>>

\* The sink is not ready, or a beat of the header or extra field leaves.
TWaits == ts_state = "T_STREAM" /\ UNCHANGED txVars

TWord ==
  /\ ts_state = "T_STREAM" /\ Len(beats) < rsp.len
  /\ LET bank == txbuf[rsp.bank]
         k    == Len(beats) + 1
     IN  beats' = Append(beats, IF k <= Len(bank) THEN bank[k] ELSE <<0, 0>>)
  /\ UNCHANGED <<ts_state, rsp_done_par, responses>>

TLast ==
  /\ ts_state = "T_STREAM" /\ Len(beats) = rsp.len
  /\ responses' = Append(responses, [pid |-> rsp.pid, status |-> rsp.status,
                                     extra |-> rsp.extra, body |-> beats])
  /\ rsp_done_par' = Flip(rsp_done_par)
  /\ ts_state' = "T_IDLE" /\ UNCHANGED beats

TX == TStart \/ TWaits \/ TWord \/ TLast

-----------------------------------------------------------------------------
Next == RX /\ PROC /\ BUF /\ ENGINE /\ DRAIN /\ TX

Spec == Init /\ [][Next]_vars

\* The clock runs; the engine's waits end; a sink that is offered beats takes
\* them; a source that began a packet finishes it.
Fairness ==
  /\ WF_vars(Next)
  /\ WF_vars(Next /\ (EngReady \/ EngFin))
  /\ WF_vars(Next /\ (TWord \/ TLast))
  /\ WF_vars(Next /\ RxAccept /\ src > 0)

FairSpec == Spec /\ Fairness

-----------------------------------------------------------------------------
(* What the interlocks of the pipeline guarantee. *)

Packet == 0..Len(arrived)
Word == Nat \X Nat
DescFields == DOMAIN NoDesc

ControlTypeOK ==
  /\ rx_state \in {"R_CLEAR", "R_ACCEPT", "R_LAST", "R_WAIT"}
  /\ pr_state \in {"P_IDLE", "P_PARSE", "P_DISPATCH", "P_ARGS", "P_LOADKEY", "P_START",
                   "P_FEED", "P_PRESENT", "P_NEXTBLK", "P_ENDREQ", "P_DROP"}
  /\ dr_state \in {"D_IDLE", "D_WRITE", "D_FIN", "D_CHECK", "D_PUBLISH", "D_CLEAR"}
  /\ ts_state \in {"T_IDLE", "T_STREAM"}
  /\ eng_state \in {"S_IDLE", "S_KEY", "S_ACCEPT", "S_ENC", "S_WAITBUF", "S_FIN"}
  /\ rx_wr_bank \in Bank /\ rx_rd_bank \in Bank /\ tx_wr_bank \in Bank
  /\ fill_par \in [Bank -> Bit] /\ free_par \in [Bank -> Bit]
  /\ pd_put_par \in Bit /\ pd_get_par \in Bit
  /\ eng_take_par \in Bit /\ eng_rel_par \in Bit
  /\ rsp_pub_par \in Bit /\ rsp_done_par \in Bit
  /\ rx_wr_clear \in BOOLEAN /\ tx_wr_clear \in BOOLEAN
  /\ crypto_cmd \in BOOLEAN /\ eng_start \in BOOLEAN /\ dcur_valid \in BOOLEAN
  /\ clr_left \in 0..ClrCycles
  /\ DOMAIN rxbuf = Bank /\ DOMAIN txbuf = Bank
  /\ DOMAIN pd = DescFields /\ DOMAIN dcur = DescFields

\* The two interlocks between bank owners, as an inductive invariant: which
\* states of a stage go with which side of a hand-off, and when its pulses,
\* one cycle behind the state that raised them, can still be on their way.
BanksInterlocked ==
  /\ rx_state # "R_WAIT" => ~bank_full(rx_wr_bank)
  /\ rx_wr # None => rx_state \in {"R_ACCEPT", "R_LAST"}
  /\ rx_wr_clear => rx_state = "R_CLEAR"
  /\ pr_state # "P_IDLE" => bank_full(rx_rd_bank)
  /\ ts_state = "T_STREAM" => rsp_pending
  /\ rsp_pending => rsp.bank = Flip(tx_wr_bank)

\* The engine token: who holds it.
ProcOwns  == crypto_cmd /\ pr_state \in {"P_FEED", "P_PRESENT", "P_NEXTBLK", "P_ENDREQ"}
PdOwns    == pd_valid /\ pd.engine
DrainOwns == dcur_valid /\ dcur.engine
Owner     == IF ProcOwns THEN pr.req ELSE IF PdOwns THEN pd.pid ELSE dcur.pid

\* The token taken at P_START is held by exactly one packet until that packet
\* is published, never by two and never by none; a start meets an idle engine
\* and a block one that accepts, so neither is discarded in silence.
EngineOwned ==
  /\ eng_owned <=> ProcOwns \/ PdOwns \/ DrainOwns
  /\ ~(ProcOwns /\ PdOwns) /\ ~(ProcOwns /\ DrainOwns) /\ ~(PdOwns /\ DrainOwns)
  /\ eng_start => eng_state = "S_IDLE"
  /\ eng_in # None => eng_state = "S_ACCEPT"

\* What makes it inductive: where the token bit and the pulses can be up.
TokenStates ==
  /\ pr_state \in {"P_PARSE", "P_DISPATCH", "P_ARGS", "P_LOADKEY", "P_START", "P_DROP"}
       => ~crypto_cmd
  /\ dr_state \in {"D_FIN", "D_CHECK", "D_PUBLISH"} => dcur_valid
  /\ eng_start => pr_state = "P_FEED"
  /\ eng_in # None => pr_state = "P_NEXTBLK"

\* A result caught in `done` is that of the packet holding the token: it is
\* never stale when the next packet arrives.
ResultIsOwners ==
  done.seen \/ eng_done => eng_owned /\ eng_msg.nonce = Owner /\ (done.seen => done.tag = eng_msg)

\* out_valid has no back-pressure: DRAIN is free whenever a block comes out,
\* and it is a block of the packet holding the token.
DrainCatches == eng_out # None => dr_state = "D_IDLE" /\ eng_out[1] = Owner

\* While PROC is on a packet its bank does not change, and while TX streams a
\* response neither the published registers nor their bank do.
HeldBanksFrozen ==
  [][/\ pr_state # "P_IDLE" => rxbuf'[rx_rd_bank] = rxbuf[rx_rd_bank]
     /\ ts_state = "T_STREAM" => rsp' = rsp /\ txbuf'[rsp.bank] = txbuf[rsp.bank]]_vars

\* Every byte of a body on its way out is the named packet's own, and that
\* packet's tag, if it is an open, has verified.
OnlyVerifiedBytesLeave ==
  ts_state = "T_STREAM" =>
    \A k \in DOMAIN beats :
      /\ beats[k][1] = rsp.pid /\ rsp.status = "OK"
      /\ arrived[rsp.pid].op = "open" =>
           ReceivedTag(arrived, rsp.pid) = TagOf(arrived, rsp.pid)

\* Every request that came in whole, with a header, is answered.
Whole(n) == n \in DOMAIN arrived /\ (n < Len(arrived) \/ src = 0)
Answered ==
  \A n \in 1..MaxPackets :
    Whole(n) /\ arrived[n].hdr # "short" ~> \E k \in DOMAIN responses : responses[k].pid = n

\* The pipeline is one server that executes its requests one by one.
Server == INSTANCE OcaServer WITH
  accepted <- SubSeq(arrived, 1, IF src = 0 THEN Len(arrived) ELSE Len(arrived) - 1)
Implements == Server!Spec
=============================================================================
