--------------------------- MODULE OcaProtoProofs ---------------------------
(***************************************************************************)
(* Proofs about OcaProto, for every value of its constants, in three parts.*)
(*                                                                         *)
(* First, that no bank is written while its reader holds it, the engine    *)
(* token has exactly one owner, and a packet's bytes, engine result and    *)
(* tag stay its own from the beat that brings them in to the beat that     *)
(* takes them out. Next is a conjunction, one conjunct per stage, so each  *)
(* stage is first summed up by a lemma that says what its step can do to   *)
(* the registers; the invariant then follows a packet down the pipeline, a *)
(* part per stage.                                                         *)
(*                                                                         *)
(* Then, that OcaProto implements OcaServer: what leaves the pipeline is   *)
(* what a server answers that executes its requests one by one. The order  *)
(* of the packets, the key and the verdict of each, the message the engine *)
(* gets, the body it leaves, and the counters have a part of the invariant *)
(* apiece; after them the steps, mapped to the server's.                   *)
(*                                                                         *)
(* Last, that the fake board of the host's tests (OcaFakeBoard) answers    *)
(* every request as the pipeline does.                                     *)
(***************************************************************************)
EXTENDS OcaFakeBoard, FiniteSetTheorems, SequenceTheorems, WellFoundedInduction, TLAPS

-----------------------------------------------------------------------------
(* What one step of each stage can do. *)

\* RX gives a bank away in R_LAST and nowhere else, and a pulse it raises
\* travels with the state it goes to.
LEMMA RxStep ==
  ASSUME ControlTypeOK, RX
  PROVE  /\ rx_state' \in {"R_CLEAR", "R_ACCEPT", "R_LAST", "R_WAIT"}
         /\ rx_wr' # None => rx_state' \in {"R_ACCEPT", "R_LAST"}
         /\ rx_wr_clear' \in BOOLEAN
         /\ rx_wr_clear' => rx_state' = "R_CLEAR"
         /\ \/ /\ rx_state = "R_LAST" /\ rx_state' = "R_WAIT"
               /\ fill_par' = [fill_par EXCEPT ![rx_wr_bank] = Flip(@)]
               /\ rx_wr_bank' = Flip(rx_wr_bank)
            \/ /\ fill_par' = fill_par /\ rx_wr_bank' = rx_wr_bank
               /\ rx_state = "R_WAIT" /\ rx_state' # "R_WAIT" => ~bank_full(rx_wr_bank)
               /\ rx_state # "R_WAIT" => rx_state' # "R_WAIT"
<1>1. CASE RxClear
  BY <1>1 DEF RxClear, ControlTypeOK
<1>2. CASE RxAccept
  BY <1>2 DEF RxAccept, TakeBeat, s_tready, ControlTypeOK
<1>3. CASE RxIdle
  BY <1>3 DEF RxIdle, ControlTypeOK
<1>4. CASE RxLast
  BY <1>4 DEF RxLast, ControlTypeOK
<1>5. CASE RxWait
  BY <1>5 DEF RxWait, NextBankFree, bank_full, ControlTypeOK
<1> QED BY <1>1, <1>2, <1>3, <1>4, <1>5 DEF RX

\* PROC gives a bank back on its way to P_IDLE and only then; it takes the
\* engine in P_START, hands a descriptor over in P_ENDREQ.
LEMMA ProcStep ==
  ASSUME ControlTypeOK, PROC
  PROVE  /\ pr_state' \in {"P_IDLE", "P_PARSE", "P_DISPATCH", "P_ARGS", "P_LOADKEY", "P_START",
                           "P_FEED", "P_PRESENT", "P_NEXTBLK", "P_ENDREQ", "P_DROP"}
         /\ \/ /\ pr_state # "P_IDLE" /\ pr_state' = "P_IDLE"
               /\ free_par' = [free_par EXCEPT ![rx_rd_bank] = Flip(@)]
               /\ rx_rd_bank' = Flip(rx_rd_bank)
            \/ /\ free_par' = free_par /\ rx_rd_bank' = rx_rd_bank
               /\ pr_state = "P_IDLE" /\ pr_state' # "P_IDLE" => bank_full(rx_rd_bank)
<1>1. CASE PIdle
  BY <1>1 DEF PIdle, TokenBitCleared, ProcKeep, ControlTypeOK
<1>2. CASE PParse \/ PArgsRead \/ PLoadKey \/ PFeed \/ PPresent \/ PNextBlk
  BY <1>2 DEF PParse, PArgsRead, PLoadKey, PFeed, PPresent, PNextBlk, Refuse, ProcKeep,
              ControlTypeOK
<1>3. CASE PDispatch
  BY <1>3 DEF PDispatch, Refuse, ProcKeep, ControlTypeOK
<1>4. CASE PArgs
  BY <1>4 DEF PArgs, Refuse, ProcKeep, ControlTypeOK
<1>5. CASE PStart
  BY <1>5 DEF PStart, ProcKeep, ControlTypeOK
<1>6. CASE PEndReq
  BY <1>6 DEF PEndReq, ControlTypeOK
<1>7. CASE PDrop
  BY <1>7 DEF PDrop, ControlTypeOK
<1> QED BY <1>1, <1>2, <1>3, <1>4, <1>5, <1>6, <1>7 DEF PROC

\* What PROC's step does to the engine token and to the descriptor register.
LEMMA ProcTokenStep ==
  ASSUME ControlTypeOK, PROC
  PROVE  \/ /\ pr_state = "P_START" /\ pr_state' = "P_FEED" /\ CanStart
            /\ eng_start' = TRUE /\ eng_in' = None
            /\ crypto_cmd' = TRUE /\ eng_take_par' = Flip(eng_take_par)
            /\ pd' = pd /\ pd_put_par' = pd_put_par
         \/ /\ pr_state = "P_ENDREQ" /\ pr_state' = "P_IDLE" /\ ~pd_valid
            /\ eng_start' = FALSE /\ eng_in' = None
            /\ crypto_cmd' = crypto_cmd /\ eng_take_par' = eng_take_par
            /\ pd'.engine = crypto_cmd /\ DOMAIN pd' = DescFields
            /\ pd_put_par' = Flip(pd_put_par)
         \/ /\ eng_start' = FALSE /\ eng_take_par' = eng_take_par
            /\ pd' = pd /\ pd_put_par' = pd_put_par
            /\ eng_in' # None => /\ pr_state = "P_PRESENT" /\ pr_state' = "P_NEXTBLK"
                                 /\ eng_in_ready
            /\ \/ /\ pr_state = "P_IDLE" /\ pr_state' = "P_PARSE" /\ crypto_cmd' = FALSE
               \/ /\ crypto_cmd' = crypto_cmd
                  /\ \/ pr_state' = pr_state
                     \/ /\ pr_state \in {"P_PARSE", "P_DISPATCH", "P_ARGS", "P_LOADKEY"}
                        /\ pr_state' \in {"P_DISPATCH", "P_ARGS", "P_LOADKEY", "P_START",
                                          "P_ENDREQ", "P_DROP"}
                     \/ /\ pr_state \in {"P_FEED", "P_PRESENT", "P_NEXTBLK"}
                        /\ pr_state' \in {"P_FEED", "P_PRESENT", "P_NEXTBLK", "P_ENDREQ"}
                     \/ pr_state = "P_DROP" /\ pr_state' = "P_IDLE"
<1>1. CASE PIdle
  BY <1>1 DEF PIdle, TokenBitCleared, ProcKeep, NoPulse, ControlTypeOK
<1>2. CASE PParse \/ PArgsRead \/ PFeed \/ PNextBlk
  BY <1>2 DEF PParse, PArgsRead, PFeed, PNextBlk, ProcKeep, TokenKeep, NoPulse
<1>3. CASE PLoadKey
  BY <1>3 DEF PLoadKey, Refuse, ProcKeep, TokenKeep
<1>4. CASE PPresent
  BY <1>4 DEF PPresent, ProcKeep, TokenKeep
<1>5. CASE PDispatch
  BY <1>5 DEF PDispatch, Refuse, ProcKeep, TokenKeep, NoPulse
<1>6. CASE PArgs
  BY <1>6 DEF PArgs, Refuse, ProcKeep, TokenKeep, NoPulse
<1>7. CASE PStart
  BY <1>7 DEF PStart, ProcKeep
<1>8. CASE PEndReq
  BY <1>8 DEF PEndReq, TokenKeep, NoPulse, Descriptor, AwaitsResult, DescFields, NoDesc
<1>9. CASE PDrop
  BY <1>9 DEF PDrop, TokenKeep, NoPulse
<1> QED BY <1>1, <1>2, <1>3, <1>4, <1>5, <1>6, <1>7, <1>8, <1>9 DEF PROC

\* DRAIN publishes from the bank it wrote and moves to the other, only in
\* D_PUBLISH and only with no response pending; it takes a descriptor only
\* when it holds none.
LEMMA DrainStep ==
  ASSUME ControlTypeOK, DRAIN
  PROVE  /\ dr_state' \in {"D_IDLE", "D_WRITE", "D_FIN", "D_CHECK", "D_PUBLISH", "D_CLEAR"}
         /\ tx_wr_clear' \in BOOLEAN
         /\ DOMAIN dcur' = DescFields
         /\ \/ /\ dr_state = "D_PUBLISH" /\ dr_state' = "D_CLEAR" /\ ~rsp_pending
               /\ rsp'.bank = tx_wr_bank /\ tx_wr_bank' = Flip(tx_wr_bank)
               /\ rsp_pub_par' = Flip(rsp_pub_par)
               /\ dcur' = dcur /\ dcur_valid' = FALSE /\ pd_get_par' = pd_get_par
               /\ eng_rel_par' = IF dcur.engine THEN Flip(eng_rel_par) ELSE eng_rel_par
            \/ /\ rsp' = rsp /\ tx_wr_bank' = tx_wr_bank /\ rsp_pub_par' = rsp_pub_par
               /\ eng_rel_par' = eng_rel_par
               /\ \/ /\ dr_state = "D_IDLE" /\ dr_state' = "D_IDLE"
                     /\ pd_valid /\ ~dcur_valid
                     /\ dcur' = pd /\ dcur_valid' = TRUE /\ pd_get_par' = Flip(pd_get_par)
                  \/ /\ dcur_valid' = dcur_valid /\ pd_get_par' = pd_get_par
                     /\ dcur'.engine = dcur.engine
                     /\ \/ dr_state' \in {"D_IDLE", "D_WRITE", "D_CLEAR"}
                        \/ dr_state \in {"D_FIN", "D_CHECK", "D_PUBLISH"}
                        \/ dcur_valid
<1>1. CASE DCatch \/ DIdle \/ DWrite \/ DClear
  BY <1>1 DEF DCatch, DIdle, DWrite, DClear, DNoPulse, DKeepRsp, ControlTypeOK
<1>2. CASE DTake
  BY <1>2 DEF DTake, DNoPulse, DKeepRsp, ControlTypeOK
<1>3. CASE DResult
  BY <1>3 DEF DResult, HasResult, DNoPulse, DKeepRsp, ControlTypeOK
<1>4. CASE DFin
  BY <1>4 DEF DFin, DNoPulse, DKeepRsp, ControlTypeOK, DescFields, NoDesc
<1>5. CASE DCheck
  BY <1>5 DEF DCheck, DKeepRsp, ControlTypeOK, DescFields, NoDesc
<1>6. CASE DPublish
  <2>1. CASE MayPublish
    <3>1. rsp'.bank = tx_wr_bank
      BY <1>6, <2>1 DEF DPublish
    <3>2. eng_rel_par' = IF dcur.engine THEN Flip(eng_rel_par) ELSE eng_rel_par
      BY <1>6, <2>1, Zenon DEF DPublish, ReleasesEngine
    <3> QED
      BY <1>6, <2>1, <3>1, <3>2 DEF DPublish, MayPublish, DNoPulse, ControlTypeOK
  <2>2. CASE ~MayPublish
    BY <1>6, <2>2 DEF DPublish, DNoPulse, DKeepRsp, ControlTypeOK
  <2> QED BY <2>1, <2>2
<1> QED BY <1>1, <1>2, <1>3, <1>4, <1>5, <1>6 DEF DRAIN

\* TX takes a response up when one is pending and returns it when it has left.
LEMMA TxStep ==
  ASSUME ControlTypeOK, TX
  PROVE  /\ ts_state' \in {"T_IDLE", "T_STREAM"}
         /\ \/ /\ ts_state = "T_STREAM" /\ ts_state' = "T_IDLE"
               /\ rsp_done_par' = Flip(rsp_done_par)
            \/ /\ rsp_done_par' = rsp_done_par
               /\ ts_state = "T_IDLE" /\ ts_state' = "T_STREAM" => rsp_pending
BY DEF TX, TStart, TWaits, TWord, TLast, txVars, ControlTypeOK

\* The engine leaves S_IDLE only on a start, S_ACCEPT only on a block.
LEMMA EngineStep ==
  ASSUME ControlTypeOK, ENGINE
  PROVE  /\ eng_state' \in {"S_IDLE", "S_KEY", "S_ACCEPT", "S_ENC", "S_WAITBUF", "S_FIN"}
         /\ eng_state = "S_IDLE" /\ ~eng_start => eng_state' = "S_IDLE"
         /\ eng_state = "S_ACCEPT" /\ eng_in = None => eng_state' = "S_ACCEPT"
BY DEF ENGINE, EngIdle, EngReady, EngFin, EngWaits, EngAccept, EngAbort, EngNoBlock,
       EngEncrypt, ControlTypeOK

\* A bank not addressed, or addressed by neither a write nor a clear, keeps
\* its content.
LEMMA BufStep ==
  ASSUME ControlTypeOK, BUF
  PROVE  /\ clr_left' \in 0..ClrCycles
         /\ DOMAIN rxbuf' = Bank /\ DOMAIN txbuf' = Bank
         /\ \A b \in Bank :
              /\ b # rx_wr_bank \/ (rx_wr = None /\ ~rx_wr_clear) => rxbuf'[b] = rxbuf[b]
              /\ b # tx_wr_bank => txbuf'[b] = txbuf[b]
<1>1. clr_left' \in 0..ClrCycles
  BY TimingAssumption DEF BUF, ControlTypeOK
<1>2. CASE clr_left > 0
  BY <1>1, <1>2 DEF BUF, ControlTypeOK
<1>3. CASE ~(clr_left > 0)
  BY <1>1, <1>3 DEF BUF, Written, ControlTypeOK
<1> QED BY <1>2, <1>3

-----------------------------------------------------------------------------
(* Typing of the control registers. *)

LEMMA FlipBit == ASSUME NEW x \in Bit PROVE Flip(x) \in Bit /\ Flip(x) # x
BY DEF Bit, Flip

LEMMA InitControl == Init => ControlTypeOK
<1> SUFFICES ASSUME Init PROVE ControlTypeOK
  OBVIOUS
<1>1. DOMAIN pd = DescFields /\ DOMAIN dcur = DescFields
  BY DEF Init, DescFields
<1>2. DOMAIN rxbuf = Bank /\ DOMAIN txbuf = Bank
  BY DEF Init
<1>3. fill_par \in [Bank -> Bit] /\ free_par \in [Bank -> Bit]
  BY DEF Init, Bit
<1>4. /\ rx_state = "R_CLEAR" /\ pr_state = "P_IDLE" /\ dr_state = "D_IDLE"
      /\ ts_state = "T_IDLE" /\ eng_state = "S_IDLE"
      /\ ~rx_wr_clear /\ ~tx_wr_clear /\ ~crypto_cmd /\ ~eng_start /\ ~dcur_valid
      /\ {rx_wr_clear, tx_wr_clear, crypto_cmd, eng_start, dcur_valid} = {FALSE}
  BY DEF Init
<1>5. /\ rx_wr_bank = 0 /\ rx_rd_bank = 0 /\ tx_wr_bank = 0
      /\ pd_put_par = 0 /\ pd_get_par = 0 /\ eng_take_par = 0 /\ eng_rel_par = 0
      /\ rsp_pub_par = 0 /\ rsp_done_par = 0
  BY DEF Init
<1>6. clr_left \in 0..ClrCycles
  BY TimingAssumption DEF Init
<1> QED BY <1>1, <1>2, <1>3, <1>4, <1>5, <1>6 DEF ControlTypeOK, Bank, Bit

LEMMA NextControl ==
  ASSUME ControlTypeOK, Next
  PROVE  ControlTypeOK'
<1>1. RX /\ PROC /\ BUF /\ ENGINE /\ DRAIN /\ TX
  BY DEF Next
<1>2. /\ rx_state' \in {"R_CLEAR", "R_ACCEPT", "R_LAST", "R_WAIT"}
      /\ rx_wr_bank' \in Bank /\ fill_par' \in [Bank -> Bit] /\ rx_wr_clear' \in BOOLEAN
  BY <1>1, RxStep, FlipBit DEF ControlTypeOK, Bank, Bit
<1>3. /\ pr_state' \in {"P_IDLE", "P_PARSE", "P_DISPATCH", "P_ARGS", "P_LOADKEY", "P_START",
                        "P_FEED", "P_PRESENT", "P_NEXTBLK", "P_ENDREQ", "P_DROP"}
      /\ rx_rd_bank' \in Bank /\ free_par' \in [Bank -> Bit]
  BY <1>1, ProcStep, FlipBit DEF ControlTypeOK, Bank, Bit
<1>4. /\ eng_take_par' \in Bit /\ pd_put_par' \in Bit /\ crypto_cmd' \in BOOLEAN
      /\ eng_start' \in BOOLEAN /\ DOMAIN pd' = DescFields
  BY <1>1, ProcTokenStep, FlipBit DEF ControlTypeOK
<1>5. /\ dr_state' \in {"D_IDLE", "D_WRITE", "D_FIN", "D_CHECK", "D_PUBLISH", "D_CLEAR"}
      /\ tx_wr_clear' \in BOOLEAN /\ DOMAIN dcur' = DescFields
      /\ tx_wr_bank' \in Bank /\ rsp_pub_par' \in Bit /\ eng_rel_par' \in Bit
      /\ pd_get_par' \in Bit /\ dcur_valid' \in BOOLEAN
  BY <1>1, DrainStep, FlipBit DEF ControlTypeOK, Bank, Bit
<1>6. ts_state' \in {"T_IDLE", "T_STREAM"} /\ rsp_done_par' \in Bit
  BY <1>1, TxStep, FlipBit DEF ControlTypeOK
<1> QED BY <1>1, <1>2, <1>3, <1>4, <1>5, <1>6, EngineStep, BufStep DEF ControlTypeOK

LEMMA StutterControl == ASSUME ControlTypeOK, UNCHANGED vars PROVE ControlTypeOK'
BY DEF ControlTypeOK, vars, rxVars, procVars, bufVars, engVars, drainVars, txVars

\* The state and token registers of every stage keep their types.
THEOREM ControlTypes == Spec => []ControlTypeOK
<1>1. ControlTypeOK /\ [Next]_vars => ControlTypeOK'
  BY NextControl, StutterControl
<1> QED BY <1>1, InitControl, PTL DEF Spec

-----------------------------------------------------------------------------
(* The bank interlocks. *)

BankInv == ControlTypeOK /\ BanksInterlocked

LEMMA InitBanks == Init => BankInv
<1> SUFFICES ASSUME Init PROVE BanksInterlocked
  BY InitControl DEF BankInv
<1> QED BY DEF Init, BanksInterlocked, bank_full, rsp_pending, Bank, None

\* RX and PROC only ever flip the two sides of banks they own: RX that of a
\* bank that is not full, PROC that of one that is.
LEMMA NextBanks ==
  ASSUME BankInv, Next
  PROVE  BanksInterlocked'
<1>1. /\ ControlTypeOK /\ BanksInterlocked
      /\ RX /\ PROC /\ DRAIN /\ TX
  BY DEF BankInv, Next
<1>2. rx_state' # "R_WAIT" => ~bank_full(rx_wr_bank)'
  BY <1>1, RxStep, ProcStep DEF BanksInterlocked, ControlTypeOK, bank_full, Flip, Bank, Bit
<1>3. pr_state' # "P_IDLE" => bank_full(rx_rd_bank)'
  BY <1>1, RxStep, ProcStep DEF BanksInterlocked, ControlTypeOK, bank_full, Flip, Bank, Bit
<1>4. /\ rx_wr' # None => rx_state' \in {"R_ACCEPT", "R_LAST"}
      /\ rx_wr_clear' => rx_state' = "R_CLEAR"
  BY <1>1, RxStep
<1>5. ts_state' = "T_STREAM" => rsp_pending'
  BY <1>1, TxStep, DrainStep DEF BanksInterlocked, ControlTypeOK, rsp_pending, Flip, Bit
<1>6. rsp_pending' => rsp'.bank = Flip(tx_wr_bank)'
  <2>1. CASE rsp_pub_par' = rsp_pub_par
    <3>1. rsp' = rsp /\ tx_wr_bank' = tx_wr_bank
      BY <1>1, <2>1, DrainStep, FlipBit DEF ControlTypeOK
    <3>2. rsp_pending' => rsp_pending
      BY <1>1, <2>1, TxStep DEF BanksInterlocked, ControlTypeOK, rsp_pending, Flip, Bit
    <3> QED BY <1>1, <3>1, <3>2 DEF BanksInterlocked, Flip
  <2>2. CASE rsp_pub_par' # rsp_pub_par
    <3>1. rsp'.bank = tx_wr_bank /\ tx_wr_bank' = Flip(tx_wr_bank) /\ tx_wr_bank \in {0, 1}
      BY <1>1, <2>2, DrainStep DEF ControlTypeOK, Bank
    <3> QED BY <3>1 DEF Flip
  <2> QED BY <2>1, <2>2
<1> QED BY <1>2, <1>3, <1>4, <1>5, <1>6 DEF BanksInterlocked, bank_full, rsp_pending, None

LEMMA StutterBanks == ASSUME BankInv, UNCHANGED vars PROVE BankInv'
<1>1. ControlTypeOK'
  BY StutterControl DEF BankInv
<1>2. BanksInterlocked'
  BY DEF BankInv, BanksInterlocked, bank_full, rsp_pending, None,
         vars, rxVars, procVars, bufVars, drainVars, txVars
<1> QED BY <1>1, <1>2 DEF BankInv

\* The hand-off bits and the states of the stages always agree on who owns
\* each bank, and no pulse outlives the ownership it was raised under.
THEOREM BanksAreInterlocked == Spec => []BanksInterlocked
<1>1. BankInv /\ [Next]_vars => BankInv'
  BY NextControl, NextBanks, StutterBanks DEF BankInv
<1>2. BankInv => BanksInterlocked
  BY DEF BankInv
<1> QED BY <1>1, <1>2, InitBanks, PTL DEF Spec

\* No step changes a bank under its reader: the packet PROC is on, nor the
\* response TX is streaming.
THEOREM HeldBanksAreFrozen == Spec => HeldBanksFrozen
<1> DEFINE Frozen ==
      /\ pr_state # "P_IDLE" => rxbuf'[rx_rd_bank] = rxbuf[rx_rd_bank]
      /\ ts_state = "T_STREAM" => rsp' = rsp /\ txbuf'[rsp.bank] = txbuf[rsp.bank]
<1>1. ASSUME BankInv, Next PROVE Frozen
  <2>1. ControlTypeOK /\ BanksInterlocked /\ BUF /\ DRAIN
    BY <1>1 DEF BankInv, Next
  <2>2. ASSUME pr_state # "P_IDLE" PROVE rxbuf'[rx_rd_bank] = rxbuf[rx_rd_bank]
    <3>1. rx_rd_bank # rx_wr_bank \/ (rx_wr = None /\ ~rx_wr_clear)
      BY <2>1, <2>2 DEF BanksInterlocked
    <3>2. rx_rd_bank \in Bank
      BY <2>1 DEF ControlTypeOK
    <3> QED BY <2>1, <3>1, <3>2, BufStep
  <2>3. ASSUME ts_state = "T_STREAM" PROVE rsp' = rsp /\ txbuf'[rsp.bank] = txbuf[rsp.bank]
    <3>1. rsp_pending /\ rsp.bank \in Bank /\ rsp.bank # tx_wr_bank
      BY <2>1, <2>3 DEF BanksInterlocked, ControlTypeOK, Bank, Flip
    <3> QED BY <2>1, <3>1, DrainStep, BufStep
  <2> QED BY <2>2, <2>3
<1>2. ASSUME UNCHANGED vars PROVE Frozen
  BY <1>2 DEF vars, bufVars, drainVars
<1>3. BankInv /\ [Next]_vars => BankInv' /\ [Frozen]_vars
  BY <1>1, <1>2, NextControl, NextBanks, StutterBanks DEF BankInv
<1>4. Spec => [][Frozen]_vars
  BY <1>3, InitBanks, PTL DEF Spec
<1> QED BY <1>4 DEF HeldBanksFrozen

-----------------------------------------------------------------------------
(* The engine token. *)

TokenInv == ControlTypeOK /\ EngineOwned /\ TokenStates

LEMMA InitToken == Init => TokenInv
<1> SUFFICES ASSUME Init PROVE EngineOwned /\ TokenStates
  BY InitControl DEF TokenInv
<1> QED BY DEF Init, EngineOwned, TokenStates, ProcOwns, PdOwns, DrainOwns, pd_valid,
               eng_owned, NoDesc, None

\* A start is raised at an idle engine and a block at an accepting one, and
\* the engine is still there one cycle later, when it sees the pulse.
LEMMA NextPulses ==
  ASSUME TokenInv, Next
  PROVE  /\ eng_start' => eng_state' = "S_IDLE" /\ pr_state' = "P_FEED"
         /\ eng_in' # None => eng_state' = "S_ACCEPT" /\ pr_state' = "P_NEXTBLK"
<1>1. /\ ControlTypeOK /\ EngineOwned /\ TokenStates
      /\ PROC /\ ENGINE
  BY DEF TokenInv, Next
<1>2. ASSUME eng_start' PROVE eng_state' = "S_IDLE" /\ pr_state' = "P_FEED"
  <2>1. pr_state = "P_START" /\ pr_state' = "P_FEED" /\ CanStart
    BY <1>1, <1>2, ProcTokenStep
  <2>2. eng_state = "S_IDLE" /\ ~eng_start
    BY <1>1, <2>1 DEF CanStart, eng_busy, TokenStates
  <2> QED BY <1>1, <2>1, <2>2, EngineStep
<1>3. ASSUME eng_in' # None PROVE eng_state' = "S_ACCEPT" /\ pr_state' = "P_NEXTBLK"
  <2>1. pr_state = "P_PRESENT" /\ pr_state' = "P_NEXTBLK" /\ eng_in_ready
    BY <1>1, <1>3, ProcTokenStep
  <2>2. eng_state = "S_ACCEPT" /\ eng_in = None
    BY <1>1, <2>1 DEF eng_in_ready, TokenStates
  <2> QED BY <1>1, <2>1, <2>2, EngineStep
<1> QED BY <1>2, <1>3

LEMMA NextTokenStates ==
  ASSUME TokenInv, Next
  PROVE  TokenStates'
<1>1. ControlTypeOK /\ TokenStates /\ PROC /\ DRAIN
  BY DEF TokenInv, Next
<1>2. pr_state' \in {"P_PARSE", "P_DISPATCH", "P_ARGS", "P_LOADKEY", "P_START", "P_DROP"}
        => ~crypto_cmd'
  BY <1>1, ProcTokenStep DEF TokenStates
<1>3. dr_state' \in {"D_FIN", "D_CHECK", "D_PUBLISH"} => dcur_valid'
  BY <1>1, DrainStep DEF TokenStates
<1> QED BY <1>2, <1>3, NextPulses DEF TokenStates, None

\* The token moves with its packet: taken at P_START when nobody holds it,
\* from PROC into the descriptor, from there into DRAIN, and back.
LEMMA NextOwner ==
  ASSUME TokenInv, Next
  PROVE  /\ eng_owned' <=> ProcOwns' \/ PdOwns' \/ DrainOwns'
         /\ ~(ProcOwns' /\ PdOwns') /\ ~(ProcOwns' /\ DrainOwns') /\ ~(PdOwns' /\ DrainOwns')
<1> DEFINE Bits == /\ pd_put_par \in Bit /\ pd_get_par \in Bit
                   /\ eng_take_par \in Bit /\ eng_rel_par \in Bit
<1>1. /\ ControlTypeOK /\ EngineOwned /\ TokenStates /\ Bits
      /\ PROC /\ DRAIN
  BY DEF TokenInv, Next, ControlTypeOK
<1>2. CASE pr_state = "P_START" /\ pr_state' = "P_FEED"
  <2>1. /\ crypto_cmd' = TRUE /\ eng_take_par' = Flip(eng_take_par) /\ CanStart
        /\ pd' = pd /\ pd_put_par' = pd_put_par
    BY <1>1, <1>2, ProcTokenStep
  <2>2. ~eng_owned /\ ~pd_valid /\ ~dcur_valid
    BY <2>1 DEF CanStart, drain_empty
  <2>3. eng_rel_par' = eng_rel_par /\ pd_get_par' = pd_get_par /\ dcur_valid' = dcur_valid
    BY <1>1, <2>2, DrainStep DEF TokenStates
  <2> QED BY <1>1, <1>2, <2>1, <2>2, <2>3
          DEF ProcOwns, PdOwns, DrainOwns, pd_valid, eng_owned, Flip, Bit
<1>3. CASE pr_state = "P_ENDREQ" /\ pr_state' = "P_IDLE"
  <2>1. /\ ~pd_valid /\ crypto_cmd' = crypto_cmd /\ eng_take_par' = eng_take_par
        /\ pd'.engine = crypto_cmd /\ pd_put_par' = Flip(pd_put_par)
    BY <1>1, <1>3, ProcTokenStep
  <2>2. pd_get_par' = pd_get_par
    BY <1>1, <2>1, DrainStep
  <2>3. pd_valid' /\ ~ProcOwns' /\ (PdOwns' <=> ProcOwns) /\ ~PdOwns
    BY <1>1, <1>3, <2>1, <2>2 DEF pd_valid, PdOwns, ProcOwns, Flip, Bit, ControlTypeOK
  <2>4. \/ eng_rel_par' = eng_rel_par /\ (DrainOwns' <=> DrainOwns)
        \/ /\ eng_rel_par' = IF dcur.engine THEN Flip(eng_rel_par) ELSE eng_rel_par
           /\ dcur_valid /\ ~DrainOwns'
    BY <1>1, <2>1, DrainStep DEF DrainOwns, TokenStates
  <2> QED BY <1>1, <2>1, <2>3, <2>4 DEF EngineOwned, DrainOwns, eng_owned, Flip, Bit
<1>4. CASE ~(pr_state = "P_START" /\ pr_state' = "P_FEED")
           /\ ~(pr_state = "P_ENDREQ" /\ pr_state' = "P_IDLE")
  <2>1. /\ eng_take_par' = eng_take_par /\ pd' = pd /\ pd_put_par' = pd_put_par
        /\ ProcOwns' <=> ProcOwns
    <3>1. /\ eng_take_par' = eng_take_par /\ pd' = pd /\ pd_put_par' = pd_put_par
          /\ \/ pr_state = "P_IDLE" /\ crypto_cmd' = FALSE
             \/ crypto_cmd' = crypto_cmd /\ pr_state' = pr_state
             \/ crypto_cmd' = crypto_cmd /\ ~crypto_cmd
             \/ /\ crypto_cmd' = crypto_cmd
                /\ pr_state \in {"P_FEED", "P_PRESENT", "P_NEXTBLK"}
                /\ pr_state' \in {"P_FEED", "P_PRESENT", "P_NEXTBLK", "P_ENDREQ"}
      BY <1>1, <1>4, ProcTokenStep DEF TokenStates
    <3> QED BY <3>1 DEF ProcOwns
  <2>2. \/ /\ dr_state = "D_PUBLISH" /\ dcur_valid' = FALSE /\ pd_get_par' = pd_get_par
           /\ eng_rel_par' = IF dcur.engine THEN Flip(eng_rel_par) ELSE eng_rel_par
        \/ /\ eng_rel_par' = eng_rel_par
           /\ pd_valid /\ ~dcur_valid /\ dcur' = pd /\ dcur_valid' = TRUE
           /\ pd_get_par' = Flip(pd_get_par)
        \/ /\ eng_rel_par' = eng_rel_par /\ dcur_valid' = dcur_valid
           /\ pd_get_par' = pd_get_par /\ dcur'.engine = dcur.engine
    BY <1>1, DrainStep
  <2>3. CASE dr_state = "D_PUBLISH" /\ dcur_valid' = FALSE /\ pd_get_par' = pd_get_par
             /\ eng_rel_par' = IF dcur.engine THEN Flip(eng_rel_par) ELSE eng_rel_par
    <3>1. dcur_valid /\ ~DrainOwns' /\ (PdOwns' <=> PdOwns)
      BY <1>1, <2>1, <2>3 DEF TokenStates, DrainOwns, PdOwns, pd_valid
    <3> QED BY <1>1, <2>1, <2>3, <3>1 DEF EngineOwned, DrainOwns, eng_owned, Flip, Bit
  <2>4. CASE /\ eng_rel_par' = eng_rel_par
             /\ pd_valid /\ ~dcur_valid /\ dcur' = pd /\ dcur_valid' = TRUE
             /\ pd_get_par' = Flip(pd_get_par)
    <3>1. ~DrainOwns /\ (DrainOwns' <=> PdOwns) /\ ~PdOwns'
      BY <1>1, <2>1, <2>4 DEF DrainOwns, PdOwns, pd_valid, Flip, Bit
    <3> QED BY <1>1, <2>1, <2>4, <3>1 DEF EngineOwned, eng_owned
  <2>5. CASE /\ eng_rel_par' = eng_rel_par /\ dcur_valid' = dcur_valid
             /\ pd_get_par' = pd_get_par /\ dcur'.engine = dcur.engine
    <3>1. (DrainOwns' <=> DrainOwns) /\ (PdOwns' <=> PdOwns)
      BY <2>1, <2>5 DEF DrainOwns, PdOwns, pd_valid
    <3> QED BY <1>1, <2>1, <2>5, <3>1 DEF EngineOwned, eng_owned
  <2> QED BY <2>2, <2>3, <2>4, <2>5
<1> QED BY <1>2, <1>3, <1>4

LEMMA NextToken == ASSUME TokenInv, Next PROVE TokenInv'
<1>1. ControlTypeOK' /\ TokenStates'
  BY NextControl, NextTokenStates DEF TokenInv
<1>2. EngineOwned'
  BY NextOwner, NextPulses DEF EngineOwned
<1> QED BY <1>1, <1>2 DEF TokenInv

LEMMA StutterToken == ASSUME TokenInv, UNCHANGED vars PROVE TokenInv'
<1>1. ControlTypeOK'
  BY StutterControl DEF TokenInv
<1>2. EngineOwned' /\ TokenStates'
  BY DEF TokenInv, EngineOwned, TokenStates, ProcOwns, PdOwns, DrainOwns, pd_valid,
         eng_owned, None, vars, procVars, engVars, drainVars
<1> QED BY <1>1, <1>2 DEF TokenInv

\* The engine is held by exactly one packet from its start until that packet
\* is published, and neither a start nor a block is ever discarded.
THEOREM EngineHasOneOwner == Spec => []EngineOwned
<1>1. TokenInv /\ [Next]_vars => TokenInv'
  BY NextToken, StutterToken
<1>2. TokenInv => EngineOwned
  BY DEF TokenInv
<1> QED BY <1>1, <1>2, InitToken, PTL DEF Spec

-----------------------------------------------------------------------------
(* The request stream only grows, and what is known of a request stays.    *)

Extends(a, b) == DOMAIN a \subseteq DOMAIN b /\ \A p \in DOMAIN a : b[p] = a[p]

Arrivals == arrived \in Seq(Requests) /\ src \in Nat

LEMMA ArrivedGrows ==
  ASSUME Arrivals, RX
  PROVE  Arrivals' /\ Extends(arrived, arrived')
<1>1. CASE RxAccept
  <2>1. CASE src > 0 /\ TakeBeat(arrived)
    BY <2>1 DEF TakeBeat, Arrivals, Extends
  <2>2. CASE src = 0 /\ \E r \in Requests : TakeBeat(Append(arrived, r))
    <3>1. PICK r \in Requests : TakeBeat(Append(arrived, r))
      BY <2>2
    <3>2. arrived' = Append(arrived, r) /\ src' \in Nat
      BY <2>2, <3>1 DEF TakeBeat
    <3> QED BY <3>2 DEF Arrivals, Extends
  <2> QED BY <1>1, <2>1, <2>2 DEF RxAccept
<1>2. CASE RxClear \/ RxIdle \/ RxLast \/ RxWait
  BY <1>2 DEF RxClear, RxIdle, RxLast, RxWait, Arrivals, Extends
<1> QED BY <1>1, <1>2 DEF RX

LEMMA RequestFields ==
  ASSUME Arrivals, NEW p \in DOMAIN arrived
  PROVE  /\ p \in Nat /\ p > 0 /\ arrived[p] \in Requests
         /\ arrived[p].beats \in Nat /\ arrived[p].nul \in BOOLEAN
         /\ arrived[p].op \in Ops
BY RequestsAssumption DEF Arrivals, RequestType

\* The tag a packet carries and the tag it should carry are settled when it
\* arrives: they depend on no later packet.
LEMMA TagsSettled ==
  ASSUME NEW a \in Seq(Requests), NEW b, Extends(a, b), NEW n \in DOMAIN a
  PROVE  TagOf(b, n) = TagOf(a, n) /\ ReceivedTag(b, n) = ReceivedTag(a, n)
<1>1. ASSUME NEW m \in DOMAIN a PROVE TagOf(b, m) = TagOf(a, m)
  <2>1. b[m] = a[m] /\ \A k \in 1..(m - 1) : b[k] = a[k]
    BY <1>1 DEF Extends
  <2>2. KeyOf(b, m, b[m].slot) = KeyOf(a, m, a[m].slot)
    <3> DEFINE Newest(S) == IF S = {} THEN 0 ELSE CHOOSE k \in S : \A j \in S : j <= k
               Before(c) == {k \in 1..(m - 1) : Loads(c[k], c[m].slot)}
    <3>1. Before(a) = Before(b)
      BY <2>1
    <3>2. /\ KeyOf(a, m, a[m].slot) = Newest(Before(a))
          /\ KeyOf(b, m, b[m].slot) = Newest(Before(b))
      BY DEF KeyOf
    <3> HIDE DEF Newest, Before
    <3> QED BY <3>1, <3>2
  <2>3. [i \in 1..NumBlocks(b[m]) |-> Block(b[m], m, i)]
          = [i \in 1..NumBlocks(a[m]) |-> Block(a[m], m, i)]
    BY <2>1
  <2> QED BY <2>2, <2>3 DEF TagOf
<1>2. b[n] = a[n] /\ (n > 1 => n - 1 \in DOMAIN a)
  BY DEF Extends
<1> QED BY <1>1, <1>2 DEF ReceivedTag

-----------------------------------------------------------------------------
(* RX: the bank it fills holds the beats taken so far.                     *)

\* The first k beats of packet p, as far as a bank has room for them.
Cap(k) == IF k <= BufBeats THEN k ELSE BufBeats
Holds(buf, p, k) ==
  /\ buf \in Seq(Nat \X Nat) /\ Len(buf) = Cap(k)
  /\ \A i \in 1..Len(buf) : buf[i] = Beat(p, i)
Frame(buf, p) == p \in DOMAIN arrived /\ Holds(buf, p, arrived[p].beats)
Taken == IF src <= arrived[Len(arrived)].beats THEN src ELSE arrived[Len(arrived)].beats

\* The write bank as the pulse on its way will leave it.
RxLanding == Written(rxbuf[rx_wr_bank], rx_wr_clear, rx_wr, BufBeats)
TxLanding == Written(txbuf[tx_wr_bank], tx_wr_clear, tx_wr, BufWords)

\* While the arrays are zeroed no port does anything that would be lost.
Zeroing ==
  clr_left > 0 =>
    /\ rx_state \in {"R_CLEAR", "R_ACCEPT"} /\ arrived = <<>>
    /\ rx_wr = None /\ ~rx_wr_clear /\ \A b \in Bank : ~bank_full(b)
    /\ tx_wr = None /\ ~tx_wr_clear /\ dr_state = "D_IDLE"
    /\ ~pd_valid /\ ~dcur_valid /\ pr_state = "P_IDLE"
    /\ eng_state = "S_IDLE" /\ ~eng_start /\ eng_out = None

RxBankHolds ==
  /\ src > 0 => rx_state = "R_ACCEPT" /\ arrived # <<>>
  /\ rx_state = "R_CLEAR" => RxLanding = <<>>
  /\ rx_state = "R_ACCEPT" /\ src = 0 => RxLanding = <<>>
  /\ rx_state = "R_ACCEPT" /\ src > 0 => Holds(RxLanding, Len(arrived), Taken)
  /\ rx_state = "R_LAST" => Frame(RxLanding, Len(arrived))

FullBanksHold == \A b \in Bank : bank_full(b) => \E p \in DOMAIN arrived : Frame(rxbuf[b], p)

RxInv == BankInv /\ Arrivals /\ Zeroing /\ RxBankHolds /\ FullBanksHold

LEMMA InitRx == Init => RxInv
<1> SUFFICES ASSUME Init PROVE Arrivals /\ Zeroing /\ RxBankHolds /\ FullBanksHold
  BY InitBanks DEF RxInv
<1>1. \A b \in Bank : ~bank_full(b) /\ rxbuf[b] = <<>>
  BY DEF Init, bank_full
<1>2. ~pd_valid
  BY DEF Init, pd_valid
<1>3. RxLanding = <<>>
  BY DEF Init, RxLanding, Written, None, Bank
<1> QED BY <1>1, <1>2, <1>3 DEF Init, Arrivals, Zeroing, RxBankHolds, FullBanksHold

\* On every edge the write banks become what was on its way.
LEMMA Landing ==
  ASSUME RxInv, BUF
  PROVE  /\ rxbuf'[rx_wr_bank] = RxLanding /\ txbuf'[tx_wr_bank] = TxLanding
         /\ \A b \in Bank : /\ b # rx_wr_bank => rxbuf'[b] = rxbuf[b]
                            /\ b # tx_wr_bank => txbuf'[b] = txbuf[b]
<1>1. /\ DOMAIN rxbuf = Bank /\ DOMAIN txbuf = Bank /\ clr_left \in Nat
      /\ rx_wr_bank \in Bank /\ tx_wr_bank \in Bank
  BY TimingAssumption DEF RxInv, BankInv, ControlTypeOK
<1>2. CASE clr_left > 0
  <2>1. RxLanding = rxbuf[rx_wr_bank] /\ TxLanding = txbuf[tx_wr_bank]
    BY <1>2 DEF RxInv, Zeroing, RxLanding, TxLanding, Written
  <2> QED BY <1>2, <2>1 DEF BUF
<1>3. CASE clr_left = 0
  BY <1>1, <1>3 DEF BUF, RxLanding, TxLanding
<1> QED BY <1>1, <1>2, <1>3

\* One more beat on its way, into a bank that has room for it or not.
LEMMA OneMoreBeat ==
  ASSUME NEW buf, NEW p \in Nat, NEW k \in Nat, Holds(buf, p, k)
  PROVE  Holds(Written(buf, FALSE, Beat(p, k + 1), BufBeats), p, k + 1)
<1>1. Beat(p, k + 1) \in Nat \X Nat /\ Beat(p, k + 1) # None
  BY DEF Beat, None
<1>2. CASE k < BufBeats
  <2>1. buf \in Seq(Nat \X Nat) /\ Len(buf) = k
    BY <1>2, BufferAssumption DEF Holds, Cap
  <2>2. Written(buf, FALSE, Beat(p, k + 1), BufBeats) = Append(buf, Beat(p, k + 1))
    BY <1>1, <1>2, <2>1 DEF Written
  <2>3. Cap(k) = k /\ Cap(k + 1) = k + 1
    BY <1>2, BufferAssumption DEF Cap
  <2>4. \A i \in 1..(k + 1) : Append(buf, Beat(p, k + 1))[i] = Beat(p, i)
    BY <2>1 DEF Holds
  <2> DEFINE more == Append(buf, Beat(p, k + 1))
  <2>5. more \in Seq(Nat \X Nat) /\ Len(more) = k + 1
    BY <1>1, <2>1
  <2> HIDE DEF more
  <2> QED BY <2>2, <2>3, <2>4, <2>5 DEF Holds, more
<1>3. CASE ~(k < BufBeats)
  <2>1. Len(buf) = BufBeats /\ Cap(k + 1) = BufBeats
    BY <1>3, BufferAssumption DEF Holds, Cap
  <2>2. Written(buf, FALSE, Beat(p, k + 1), BufBeats) = buf
    BY <2>1, BufferAssumption DEF Written
  <2> QED BY <2>1, <2>2 DEF Holds
<1> QED BY <1>2, <1>3

LEMMA NoMoreBeat ==
  ASSUME NEW buf, NEW size PROVE Written(buf, FALSE, None, size) = buf
BY DEF Written

LEMMA NextZeroing == ASSUME RxInv, Next PROVE Zeroing'
<1> SUFFICES ASSUME clr_left' > 0 PROVE Zeroing'
  BY DEF Zeroing
<1>1. clr_left > 0 /\ clr_left \in Nat
  BY TimingAssumption DEF RxInv, BankInv, ControlTypeOK, Next, BUF
<1>2. Zeroing /\ clr_left # 0 /\ Arrivals /\ ControlTypeOK /\ RX /\ PROC /\ ENGINE /\ DRAIN
  BY <1>1 DEF RxInv, BankInv, Next
<1>3. /\ rx_state' \in {"R_CLEAR", "R_ACCEPT"} /\ arrived' = <<>>
      /\ rx_wr' = None /\ ~rx_wr_clear' /\ fill_par' = fill_par
  <2>1. rx_state # "R_LAST" /\ rx_state # "R_WAIT" /\ ~s_tready /\ arrived = <<>>
    BY <1>1, <1>2 DEF Zeroing, s_tready
  <2> QED BY <1>2, <2>1 DEF RX, RxClear, RxAccept, RxIdle, RxLast, RxWait
<1>4. pr_state' = "P_IDLE" /\ free_par' = free_par /\ pd_put_par' = pd_put_par /\ ~eng_start'
  <2>1. pr_state = "P_IDLE" /\ ~bank_full(rx_rd_bank)
    BY <1>1, <1>2 DEF Zeroing, ControlTypeOK
  <2>2. PIdle
    BY <1>2, <2>1 DEF PROC, PParse, PDispatch, PArgsRead, PArgs, PLoadKey, PStart, PFeed,
                      PPresent, PNextBlk, PEndReq, PDrop
  <2> QED BY <2>1, <2>2 DEF PIdle, ProcKeep, NoPulse
<1>5. /\ tx_wr' = None /\ ~tx_wr_clear' /\ dr_state' = "D_IDLE"
      /\ dcur_valid' = dcur_valid /\ pd_get_par' = pd_get_par
  <2>1. dr_state = "D_IDLE" /\ eng_out = None /\ ~pd_valid /\ ~dcur_valid
    BY <1>1, <1>2 DEF Zeroing
  <2>2. DIdle
    BY <1>2, <2>1 DEF DRAIN, DCatch, DTake, DResult, HasResult, DWrite, DFin, DCheck,
                      DPublish, DClear
  <2> QED BY <2>1, <2>2 DEF DIdle, DNoPulse
<1>6. eng_out' = None /\ eng_state' = "S_IDLE"
  <2>1. eng_state = "S_IDLE" /\ ~eng_start
    BY <1>1, <1>2 DEF Zeroing
  <2> QED BY <1>2, <2>1 DEF ENGINE, EngIdle, EngReady, EngFin, EngWaits,
             EngAccept, EngAbort, EngNoBlock, EngEncrypt, EngNoPulse
<1> QED BY <1>1, <1>2, <1>3, <1>4, <1>5, <1>6 DEF Zeroing, bank_full, pd_valid

LEMMA NextRxBank == ASSUME RxInv, Next PROVE RxBankHolds'
<1>1. /\ ControlTypeOK /\ BanksInterlocked /\ Arrivals /\ RxBankHolds
      /\ RX /\ BUF /\ Arrivals' /\ Extends(arrived, arrived')
  BY ArrivedGrows DEF RxInv, BankInv, Next
<1>2. rxbuf'[rx_wr_bank] = RxLanding
  BY <1>1, Landing
<1>3. CASE RxClear
  <2>1. /\ src = 0 /\ src' = 0 /\ rx_state' = "R_ACCEPT" /\ RxLanding = <<>>
        /\ rx_wr_bank' = rx_wr_bank /\ rx_wr' = None /\ rx_wr_clear' = FALSE
    BY <1>1, <1>3 DEF RxClear, RxBankHolds, Arrivals
  <2>2. RxLanding' = <<>>
    BY <1>2, <2>1, NoMoreBeat DEF RxLanding
  <2> QED BY <2>1, <2>2 DEF RxBankHolds
<1>4. CASE RxAccept
  <2>1. PICK a \in Seq(Requests) :
          /\ TakeBeat(a) /\ a # <<>>
          /\ Holds(RxLanding, Len(a), IF src <= a[Len(a)].beats THEN src ELSE a[Len(a)].beats)
    <3>1. CASE src > 0 /\ TakeBeat(arrived)
      BY <1>1, <1>4, <3>1 DEF RxBankHolds, Taken, RxAccept, s_tready, Arrivals
    <3>2. CASE src = 0 /\ \E r \in Requests : TakeBeat(Append(arrived, r))
      <4>1. PICK r \in Requests : TakeBeat(Append(arrived, r))
        BY <3>2
      <4> DEFINE a == Append(arrived, r)
      <4>2. a \in Seq(Requests) /\ a # <<>> /\ a[Len(a)] = r
        BY <1>1 DEF Arrivals
      <4>5. r.beats \in Nat
        BY RequestsAssumption DEF RequestType
      <4>3. RxLanding = <<>>
        BY <1>1, <1>4, <3>2 DEF RxBankHolds, RxAccept, s_tready
      <4>4. Holds(<<>>, Len(a), 0)
        BY BufferAssumption DEF Holds, Cap
      <4>6. (IF src <= a[Len(a)].beats THEN src ELSE a[Len(a)].beats) = 0
        BY <3>2, <4>2, <4>5
      <4>7. TakeBeat(a)
        BY <4>1
      <4> HIDE DEF a
      <4> QED BY <4>2, <4>3, <4>4, <4>6, <4>7
    <3> QED BY <1>4, <3>1, <3>2 DEF RxAccept
  <2> DEFINE p == Len(a)
             n == a[p].beats
             b == src + 1
             last == b = n + (IF a[p].nul THEN 1 ELSE 0)
  <2>2. /\ arrived' = a /\ src' = (IF last THEN 0 ELSE b)
        /\ rx_wr' = (IF b <= n THEN Beat(p, b) ELSE None)
        /\ rx_state' = (IF last THEN "R_LAST" ELSE "R_ACCEPT")
        /\ rx_wr_clear' = FALSE /\ rx_wr_bank' = rx_wr_bank
    BY <1>4, <2>1 DEF TakeBeat, RxAccept
  <2>3. p \in DOMAIN a /\ p \in Nat /\ n \in Nat /\ src \in Nat /\ a[p].nul \in BOOLEAN
    BY <1>1, <2>1, RequestsAssumption DEF Arrivals, RequestType
  <2>4. RxLanding' = Written(RxLanding, FALSE, rx_wr', BufBeats)
    BY <1>2, <2>2 DEF RxLanding
  <2>5. Holds(RxLanding', p, IF b <= n THEN b ELSE n)
    <3>1. CASE b <= n
      <4>1. Holds(RxLanding, p, src)
        BY <2>1, <2>3, <3>1
      <4> QED BY <2>2, <2>3, <2>4, <3>1, <4>1, OneMoreBeat
    <3>2. CASE ~(b <= n)
      <4>1. Holds(RxLanding, p, n)
        BY <2>1, <2>3, <3>2
      <4> QED BY <2>2, <2>4, <3>2, <4>1, NoMoreBeat
    <3> QED BY <3>1, <3>2
  <2>6. CASE last
    <3>1. Holds(RxLanding', p, n)
      BY <2>3, <2>5, <2>6
    <3> QED BY <2>2, <2>3, <2>6, <3>1 DEF RxBankHolds, Frame
  <2>7. CASE ~last
    BY <2>1, <2>2, <2>3, <2>5, <2>7 DEF RxBankHolds, Taken
  <2> QED BY <2>6, <2>7
<1>5. CASE RxIdle
  <2>1. /\ src' = src /\ arrived' = arrived /\ rx_state = "R_ACCEPT" /\ rx_state' = "R_ACCEPT"
        /\ rx_wr_bank' = rx_wr_bank /\ rx_wr' = None /\ rx_wr_clear' = FALSE
    BY <1>5 DEF RxIdle
  <2>2. RxLanding' = RxLanding
    BY <1>2, <2>1, NoMoreBeat DEF RxLanding
  <2> QED BY <1>1, <2>1, <2>2 DEF RxBankHolds, Taken
<1>6. CASE RxLast
  BY <1>1, <1>6 DEF RxLast, RxBankHolds, Arrivals
<1>7. CASE RxWait
  <2>1. src' = 0 /\ rx_state' \in {"R_CLEAR", "R_WAIT"}
    BY <1>1, <1>7 DEF RxWait, RxBankHolds, Arrivals
  <2>2. rx_state' = "R_CLEAR" => rx_wr_clear'
    BY <1>7 DEF RxWait
  <2> QED BY <2>1, <2>2 DEF RxBankHolds, RxLanding, Written
<1> QED BY <1>1, <1>3, <1>4, <1>5, <1>6, <1>7 DEF RX

LEMMA NextFullBanks == ASSUME RxInv, Next PROVE FullBanksHold'
<1>1. /\ ControlTypeOK /\ BanksInterlocked /\ Arrivals /\ RxBankHolds /\ FullBanksHold
      /\ RX /\ PROC /\ BUF /\ Arrivals' /\ Extends(arrived, arrived')
  BY ArrivedGrows DEF RxInv, BankInv, Next
<1> SUFFICES ASSUME NEW b \in Bank, bank_full(b)'
             PROVE  \E p \in DOMAIN arrived' : Frame(rxbuf[b], p)'
  BY DEF FullBanksHold
<1>2. ASSUME NEW p \in DOMAIN arrived, Frame(rxbuf'[b], p)
      PROVE  p \in DOMAIN arrived' /\ Frame(rxbuf[b], p)'
  BY <1>1, <1>2 DEF Frame, Extends, Holds
<1>3. CASE rx_state = "R_LAST" /\ b = rx_wr_bank
  BY <1>1, <1>2, <1>3, Landing DEF RxBankHolds, Frame
<1>4. CASE ~(rx_state = "R_LAST" /\ b = rx_wr_bank)
  <2>1. bank_full(b)
    BY <1>1, <1>4, RxStep, ProcStep DEF BanksInterlocked, ControlTypeOK, bank_full, Flip, Bank, Bit
  <2>2. rxbuf'[b] = rxbuf[b]
    BY <1>1, <1>4, <2>1, BufStep DEF BanksInterlocked
  <2> QED BY <1>1, <1>2, <2>1, <2>2 DEF FullBanksHold
<1> QED BY <1>3, <1>4

LEMMA NextRx == ASSUME RxInv, Next PROVE RxInv'
<1>1. BankInv' /\ Arrivals'
  BY NextControl, NextBanks, ArrivedGrows DEF RxInv, BankInv, Next
<1> QED BY <1>1, NextZeroing, NextRxBank, NextFullBanks DEF RxInv

LEMMA StutterRx == ASSUME RxInv, UNCHANGED vars PROVE RxInv'
<1>1. BankInv'
  BY StutterBanks DEF RxInv
<1> QED BY <1>1 DEF RxInv, Arrivals, Zeroing, RxBankHolds, FullBanksHold, Frame, Holds, Taken,
                    RxLanding, bank_full, pd_valid, vars, rxVars, procVars, bufVars, engVars,
                    drainVars, txVars

-----------------------------------------------------------------------------
(* PROC: what it has read of the packet in its bank.                       *)

OnPacket == pr_state \in {"P_ARGS", "P_LOADKEY", "P_START", "P_FEED", "P_PRESENT",
                          "P_NEXTBLK", "P_ENDREQ"}
Feeding == pr_state \in {"P_FEED", "P_PRESENT", "P_NEXTBLK"}

\* A packet that passed every check of the parser and needs the engine.
Accepted == pr_state = "P_START" \/ Feeding \/ (pr_state = "P_ENDREQ" /\ crypto_cmd)

\* The sequential reader's registers, by the cycle of the read.
Fetched ==
  /\ DOMAIN pr = DOMAIN ProcReset /\ rd_cnt \in Nat /\ pr.i \in Nat
  /\ pr_state = "P_PARSE" => rd_cnt \in 1..4 /\ (rd_cnt = 4 => pr.hdr = PidAt(1))
  /\ pr_state = "P_DISPATCH" => pr.hdr = PidAt(1)
  /\ OnPacket => Frame(rxbuf[rx_rd_bank], pr.req) /\ pr.len = rx_rd_count /\ pr.len > 0
  /\ pr_state = "P_ARGS" =>
       /\ rd_cnt \in 1..(ArgWords + 3)
       /\ rd_cnt > 3 => pr.args = PidAt(2)
       /\ rd_cnt > 4 => pr.lens = PidAt(2)
       /\ rd_cnt > 5 => (pr.lens_bad <=> pr.lens = 0 \/ LenBad(arrived[pr.lens], pr.len))

\* The blocks of packet p.
BlocksOf(p) == {p} \X Nat

\* What is given to the engine is the accepted packet's own.
Submitted ==
  /\ Accepted => /\ arrived[pr.req].beats = 2 /\ Crypto(arrived[pr.req])
                 /\ pr.status = "OK" /\ pr.args = pr.req /\ eng_nonce = pr.req
  /\ Feeding => crypto_cmd
  /\ pr_state = "P_PRESENT" => pr.blk \in BlocksOf(pr.req)
  /\ eng_in # None => eng_in[1] \in BlocksOf(pr.req)

ProcInv == RxInv /\ TokenInv /\ Fetched /\ Submitted

LEMMA InitProc == Init => ProcInv
<1> SUFFICES ASSUME Init PROVE Fetched /\ Submitted
  BY InitRx, InitToken DEF ProcInv
<1>1. pr = ProcReset /\ pr.i \in Nat
  BY DEF Init, ProcReset
<1> QED BY <1>1 DEF Init, Fetched, Submitted, Accepted, Feeding, OnPacket

LEMMA JudgedRegisters ==
  ASSUME NEW p, DOMAIN p = DOMAIN ProcReset
  PROVE  LET q == JudgeLengths(p)
         IN  /\ DOMAIN q = DOMAIN ProcReset
             /\ q.hdr = p.hdr /\ q.args = p.args /\ q.lens = p.lens /\ q.req = p.req
             /\ q.len = p.len /\ q.status = p.status /\ q.blk = p.blk /\ q.i = p.i
             /\ q.lens_bad = (pr.lens = 0 \/ LenBad(arrived[pr.lens], pr.len))
BY DEF JudgeLengths, ProcReset

LEMMA RefusedRegisters ==
  ASSUME NEW p, DOMAIN p = DOMAIN ProcReset, NEW status, Refuse(p, status)
  PROVE  /\ DOMAIN pr' = DOMAIN ProcReset /\ pr'.status = status
         /\ pr'.req = p.req /\ pr'.len = p.len /\ pr'.args = p.args /\ pr'.i = p.i
         /\ pr_state' = "P_ENDREQ" /\ rd_cnt' = rd_cnt + 1
<1> DEFINE q == [p EXCEPT !.status = status]
<1>1. /\ DOMAIN q = DOMAIN ProcReset /\ q.status = status
      /\ q.req = p.req /\ q.len = p.len /\ q.args = p.args /\ q.i = p.i
  BY DEF ProcReset
<1>2. pr' = JudgeLengths(q) /\ pr_state' = "P_ENDREQ" /\ rd_cnt' = rd_cnt + 1
  BY DEF Refuse
<1> HIDE DEF q
<1> QED BY <1>1, <1>2, JudgedRegisters

\* The bank PROC reads holds one packet, and stays as it is.
LEMMA HeldBank ==
  ASSUME RxInv, pr_state # "P_IDLE"
  PROVE  /\ \E p \in DOMAIN arrived : Frame(rxbuf[rx_rd_bank], p)
         /\ BUF => rxbuf'[rx_rd_bank] = rxbuf[rx_rd_bank]
<1>1. rx_rd_bank \in Bank /\ bank_full(rx_rd_bank)
  BY DEF RxInv, BankInv, ControlTypeOK, BanksInterlocked
<1> QED BY <1>1, BufStep DEF RxInv, BankInv, BanksInterlocked, FullBanksHold

LEMMA ReadWords ==
  ASSUME RxInv, NEW p \in DOMAIN arrived, Frame(rxbuf[rx_rd_bank], p)
  PROVE  /\ rx_rd_count \in Nat /\ rx_rd_count = Cap(arrived[p].beats)
         /\ \A b \in Nat \ {0} : PidAt(b) = IF b <= rx_rd_count THEN p ELSE 0
         /\ rx_rd_count = 2 => arrived[p].beats = 2
<1>1. arrived[p].beats \in Nat
  BY RequestFields DEF RxInv
<1>2. rx_rd_count \in Nat /\ rx_rd_count = Cap(arrived[p].beats)
  BY <1>1, BufferAssumption DEF Frame, Holds, rx_rd_count, Cap
<1>3. \A b \in 1..rx_rd_count : rxbuf[rx_rd_bank][b] = <<p, b>>
  BY DEF Frame, Holds, rx_rd_count, Beat
<1> QED BY <1>1, <1>2, <1>3, BufferAssumption DEF PidAt, Cap

LEMMA FrameStays ==
  ASSUME RxInv, RX, NEW buf, NEW p, Frame(buf, p)
  PROVE  p \in DOMAIN arrived' /\ arrived'[p] = arrived[p]
         /\ Holds(buf, p, arrived'[p].beats)
BY ArrivedGrows DEF RxInv, Extends, Frame

\* Past the parser PROC keeps to its packet, and to what it read of it.
LEMMA WorkStep ==
  ASSUME DOMAIN pr = DOMAIN ProcReset, pr.i \in Nat,
         PArgs \/ PLoadKey \/ PStart \/ PFeed \/ PPresent \/ PNextBlk \/ PEndReq
  PROVE  /\ DOMAIN pr' = DOMAIN ProcReset
         /\ pr'.req = pr.req /\ pr'.len = pr.len /\ pr'.args = pr.args /\ pr'.i \in Nat
         /\ pr'.status = pr.status \/ PArgs \/ PLoadKey
         /\ PArgs /\ pr_state' = "P_START" => pr'.status = "OK"
         /\ PFeed => pr'.blk = IF BankWhole THEN Block(arrived[pr.req], pr.req, pr.i)
                                ELSE <<0, 0>>
<1> DEFINE Keeps(q) == /\ DOMAIN q = DOMAIN ProcReset
                       /\ q.req = pr.req /\ q.len = pr.len /\ q.args = pr.args
                       /\ q.i \in Nat
<1>1. CASE PArgs
  <2> DEFINE q == [pr EXCEPT !.status = "OK", !.i = 1, !.n = pr.lens_blocks]
  <2>1. Keeps(q) /\ q.status = "OK"
    BY DEF ProcReset
  <2> HIDE DEF q
  <2>2. \/ \E st : Refuse(pr, st)
        \/ pr' = JudgeLengths(pr) /\ pr_state' = "P_LOADKEY"
        \/ pr' = JudgeLengths(q)
    BY <1>1 DEF PArgs, q
  <2> QED BY <1>1, <2>1, <2>2, JudgedRegisters, RefusedRegisters DEF PArgs, PFeed
<1>2. CASE PLoadKey
  BY <1>2, RefusedRegisters DEF PLoadKey, PArgs, PFeed
<1>3. CASE PStart
  <2> DEFINE q == [pr EXCEPT !.t0 = pr.req]
  <2>1. Keeps(q) /\ q.status = pr.status
    BY DEF ProcReset
  <2> HIDE DEF q
  <2>2. pr' = JudgeLengths(pr) \/ pr' = JudgeLengths(q)
    BY <1>3 DEF PStart, q
  <2> QED BY <1>3, <2>1, <2>2, JudgedRegisters DEF PStart, PArgs, PFeed
<1>4. CASE PFeed
  <2> DEFINE B == IF BankWhole THEN Block(arrived[pr.req], pr.req, pr.i) ELSE <<0, 0>>
             q == [pr EXCEPT !.blk = B]
  <2> HIDE DEF B
  <2>1. Keeps(q) /\ q.status = pr.status /\ q.blk = B
    BY DEF ProcReset
  <2>2. pr' = JudgeLengths(q)
    BY <1>4 DEF PFeed, B
  <2> HIDE DEF q
  <2>3. pr'.blk = B
    BY <2>1, <2>2, JudgedRegisters
  <2> QED BY <1>4, <2>1, <2>2, <2>3, JudgedRegisters DEF PFeed, PArgs, B
<1>5. CASE PPresent \/ PEndReq
  <2>1. pr' = JudgeLengths(pr)
    BY <1>5 DEF PPresent, PEndReq
  <2> QED BY <1>5, <2>1, JudgedRegisters DEF PPresent, PEndReq, PArgs, PFeed
<1>6. CASE PNextBlk
  <2> DEFINE q == [pr EXCEPT !.i = IF pr.i = pr.n THEN @ ELSE @ + 1]
  <2>1. Keeps(q) /\ q.status = pr.status
    BY DEF ProcReset
  <2>2. pr' = JudgeLengths(q)
    BY <1>6 DEF PNextBlk
  <2> HIDE DEF q
  <2> QED BY <1>6, <2>1, <2>2, JudgedRegisters DEF PNextBlk, PArgs, PFeed
<1> QED BY <1>1, <1>2, <1>3, <1>4, <1>5, <1>6

LEMMA NextFetched == ASSUME ProcInv, Next PROVE Fetched'
<1>1. /\ RxInv /\ Fetched /\ RX /\ PROC /\ BUF
      /\ DOMAIN pr = DOMAIN ProcReset /\ rd_cnt \in Nat /\ pr.i \in Nat
  BY DEF ProcInv, Next, Fetched
<1>2. ASSUME pr_state # "P_IDLE", rx_rd_bank' = rx_rd_bank
      PROVE  /\ rx_rd_count' = rx_rd_count /\ PidAt(1)' = PidAt(1) /\ PidAt(2)' = PidAt(2)
             /\ \A p : Frame(rxbuf[rx_rd_bank], p) => Frame(rxbuf[rx_rd_bank], p)'
  <2>1. rxbuf'[rx_rd_bank] = rxbuf[rx_rd_bank]
    BY <1>1, <1>2, HeldBank
  <2>2. rx_rd_count' = rx_rd_count /\ PidAt(1)' = PidAt(1) /\ PidAt(2)' = PidAt(2)
    BY <1>2, <2>1 DEF rx_rd_count, PidAt
  <2>3. ASSUME NEW p, Frame(rxbuf[rx_rd_bank], p) PROVE Frame(rxbuf[rx_rd_bank], p)'
    <3>1. p \in DOMAIN arrived' /\ Holds(rxbuf[rx_rd_bank], p, arrived'[p].beats)
      BY <1>1, <2>3, FrameStays
    <3> QED BY <1>2, <2>1, <3>1 DEF Frame, Holds
  <2> QED BY <2>2, <2>3
\* The states that keep the packet and what was read of it.
<1>3. ASSUME OnPacket, pr'.req = pr.req, pr'.len = pr.len, rx_rd_bank' = rx_rd_bank
      PROVE  Frame(rxbuf[rx_rd_bank], pr.req)' /\ pr'.len = rx_rd_count' /\ pr'.len > 0
  BY <1>1, <1>2, <1>3 DEF OnPacket, Fetched
<1>4. CASE PIdle
  <2>1. DOMAIN pr' = DOMAIN ProcReset /\ pr'.i \in Nat
    BY <1>1, <1>4, JudgedRegisters DEF PIdle
  <2> QED BY <1>4, <2>1 DEF PIdle, Fetched, OnPacket
<1>5. CASE PParse
  <2> DEFINE q == [pr EXCEPT !.hdr = IF rd_cnt = 3 THEN PidAt(1) ELSE @]
  <2>1. /\ DOMAIN q = DOMAIN ProcReset /\ q.i = pr.i
        /\ q.hdr = IF rd_cnt = 3 THEN PidAt(1) ELSE pr.hdr
    BY <1>1 DEF ProcReset
  <2>2. DOMAIN pr' = DOMAIN ProcReset /\ pr'.hdr = q.hdr /\ pr'.i = q.i
    <3> HIDE DEF q
    <3>1. pr' = JudgeLengths(q)
      BY <1>5 DEF PParse, q
    <3> QED BY <2>1, <3>1, JudgedRegisters
  <2>3. /\ pr_state = "P_PARSE" /\ rd_cnt' = rd_cnt + 1 /\ rx_rd_bank' = rx_rd_bank
        /\ pr_state' = IF rd_cnt = 4 THEN "P_DISPATCH" ELSE "P_PARSE"
    BY <1>5 DEF PParse, ReadDone, ProcKeep
  <2> QED BY <1>1, <1>2, <2>1, <2>2, <2>3 DEF Fetched, OnPacket
<1>6. CASE PDispatch
  <2>1. PICK p \in DOMAIN arrived : Frame(rxbuf[rx_rd_bank], p)
    BY <1>1, <1>6, HeldBank DEF PDispatch
  <2> DEFINE q == [pr EXCEPT !.req = pr.hdr, !.len = rx_rd_count, !.rx = @ + 1]
             d == [pr EXCEPT !.req = pr.hdr, !.len = rx_rd_count, !.rx = @ + 1, !.drop = @ + 1]
             k == [pr EXCEPT !.req = pr.hdr, !.len = rx_rd_count, !.rx = @ + 1, !.drop = @]
             Good(x) == /\ DOMAIN x = DOMAIN ProcReset /\ x.req = pr.hdr
                        /\ x.len = rx_rd_count /\ x.i = pr.i
  <2>2. Good(d) /\ Good(k)
    BY <1>1 DEF ProcReset
  <2>3. PICK x : /\ Good(x)
                 /\ \/ /\ pr' = JudgeLengths(x)
                       /\ pr_state' = "P_DROP" /\ rd_cnt' = 0
                    \/ /\ rx_rd_count > 0
                       /\ \E st : Refuse(x, st)
                    \/ /\ rx_rd_count > 0 /\ pr' = JudgeLengths(x)
                       /\ pr_state' = "P_ARGS" /\ rd_cnt' = 1
    <3> HIDE DEF Good
    <3> QED BY <1>6, <2>2 DEF PDispatch
  <2>4. CASE pr' = JudgeLengths(x) /\ pr_state' = "P_DROP" /\ rd_cnt' = 0
    BY <1>1, <2>3, <2>4, JudgedRegisters DEF Fetched, OnPacket
  <2>5. CASE ~(pr_state' = "P_DROP")
    <3>1. /\ rx_rd_count > 0 /\ rx_rd_bank' = rx_rd_bank /\ pr_state' \in {"P_ARGS", "P_ENDREQ"}
          /\ rd_cnt' = (IF pr_state' = "P_ARGS" THEN 1 ELSE rd_cnt + 1)
      BY <1>6, <2>3, <2>5 DEF PDispatch, Refuse, ProcKeep
    <3>2. DOMAIN pr' = DOMAIN ProcReset /\ pr'.req = pr.hdr /\ pr'.len = rx_rd_count /\ pr'.i = pr.i
      BY <2>3, <2>5, JudgedRegisters, RefusedRegisters
    <3>3. pr.hdr = p
      BY <1>1, <1>6, <2>1, <3>1, ReadWords DEF PDispatch, Fetched
    <3>4. Frame(rxbuf[rx_rd_bank], pr.req)' /\ pr'.len = rx_rd_count' /\ pr'.len > 0
      BY <1>2, <1>6, <2>1, <3>1, <3>2, <3>3 DEF PDispatch
    <3> QED BY <1>1, <3>1, <3>2, <3>4, TimingAssumption DEF Fetched
  <2> QED BY <2>3, <2>4, <2>5 DEF Refuse
<1>7. CASE PArgsRead
  <2>1. /\ pr_state = "P_ARGS" /\ pr_state' = "P_ARGS" /\ rx_rd_bank' = rx_rd_bank
        /\ rd_cnt' = rd_cnt + 1 /\ rd_cnt \in 1..(ArgWords + 3) /\ rd_cnt # ArgWords + 3
    BY <1>1, <1>7 DEF PArgsRead, ReadDone, ProcKeep, Fetched
  <2> DEFINE q == [pr EXCEPT !.args = IF rd_cnt = 3 THEN PidAt(2) ELSE @,
                             !.lens = IF rd_cnt = 4 THEN PidAt(2) ELSE @]
  <2>2. /\ DOMAIN q = DOMAIN ProcReset /\ q.req = pr.req /\ q.len = pr.len /\ q.i = pr.i
        /\ q.args = IF rd_cnt = 3 THEN PidAt(2) ELSE pr.args
        /\ q.lens = IF rd_cnt = 4 THEN PidAt(2) ELSE pr.lens
    BY <1>1 DEF ProcReset
  <2>3. /\ DOMAIN pr' = DOMAIN ProcReset /\ pr'.req = q.req /\ pr'.len = q.len
        /\ pr'.args = q.args /\ pr'.lens = q.lens /\ pr'.i = q.i
        /\ pr'.lens_bad = (pr.lens = 0 \/ LenBad(arrived[pr.lens], pr.len))
    <3> HIDE DEF q
    <3>1. pr' = JudgeLengths(q)
      BY <1>7 DEF PArgsRead, q
    <3> QED BY <2>2, <3>1, JudgedRegisters
  <2>4. Frame(rxbuf[rx_rd_bank], pr.req)' /\ pr'.len = rx_rd_count' /\ pr'.len > 0
    BY <1>3, <2>1, <2>2, <2>3 DEF OnPacket
  <2>5. rd_cnt' > 5 => (pr'.lens_bad <=> pr'.lens = 0 \/ LenBad(arrived'[pr'.lens], pr'.len))
    <3> SUFFICES ASSUME rd_cnt > 4
                 PROVE  pr'.lens_bad <=> pr'.lens = 0 \/ LenBad(arrived'[pr'.lens], pr'.len)
      BY <1>1, <2>1
    <3>1. pr'.lens = pr.lens /\ pr'.len = pr.len /\ pr.lens = PidAt(2)
      BY <1>1, <2>1, <2>2, <2>3 DEF Fetched
    <3>2. pr.req \in DOMAIN arrived /\ Frame(rxbuf[rx_rd_bank], pr.req)
      BY <1>1, <2>1 DEF Fetched, OnPacket, Frame
    <3>3. pr.lens = 0 \/ pr.lens = pr.req
      BY <1>1, <3>1, <3>2, ReadWords
    <3>4. arrived'[pr.req] = arrived[pr.req]
      BY <1>1, <3>2, FrameStays
    <3> QED BY <2>3, <3>1, <3>3, <3>4
  <2>6. PidAt(2)' = PidAt(2)
    BY <1>2, <2>1
  <2> QED BY <1>1, <2>1, <2>2, <2>3, <2>4, <2>5, <2>6, TimingAssumption DEF Fetched
<1>8. CASE PEndReq /\ pr_state' = "P_IDLE"
  BY <1>1, <1>8, JudgedRegisters DEF PEndReq, Fetched, OnPacket
<1>9. CASE PDrop
  BY <1>1, <1>9, JudgedRegisters DEF PDrop, Fetched, OnPacket
\* Every other step is on a packet, and keeps what it knows of it.
<1>10. CASE PArgs \/ PLoadKey \/ PStart \/ PFeed \/ PPresent \/ PNextBlk
            \/ (PEndReq /\ pr_state' # "P_IDLE")
  <2>1. /\ OnPacket /\ OnPacket' /\ pr_state' # "P_ARGS" /\ rx_rd_bank' = rx_rd_bank
        /\ rd_cnt' \in Nat
    BY <1>1, <1>10 DEF PArgs, PLoadKey, PStart, PFeed, PPresent, PNextBlk, PEndReq, Refuse,
                       ProcKeep, OnPacket
  <2>3. DOMAIN pr' = DOMAIN ProcReset /\ pr'.req = pr.req /\ pr'.len = pr.len /\ pr'.i \in Nat
    BY <1>1, <1>10, WorkStep
  <2> QED BY <1>3, <2>1, <2>3 DEF Fetched, OnPacket
<1> QED BY <1>1, <1>4, <1>5, <1>6, <1>7, <1>8, <1>9, <1>10 DEF PROC
LEMMA NextSubmitted == ASSUME ProcInv, Next PROVE Submitted'
<1>1. /\ RxInv /\ Fetched /\ Submitted /\ TokenStates /\ RX /\ PROC
      /\ DOMAIN pr = DOMAIN ProcReset /\ pr.i \in Nat
  BY DEF ProcInv, TokenInv, Next, Fetched
<1>2. ASSUME OnPacket
      PROVE  pr.req \in DOMAIN arrived /\ arrived'[pr.req] = arrived[pr.req]
  BY <1>1, <1>2, FrameStays DEF Fetched, Frame
<1>3. CASE PIdle \/ PParse \/ PDispatch \/ PArgsRead \/ PDrop
  <2>1. /\ pr_state' \notin {"P_START", "P_FEED", "P_PRESENT", "P_NEXTBLK"}
        /\ pr_state' = "P_ENDREQ" => ~crypto_cmd'
        /\ eng_in' = None
    BY <1>1, <1>3 DEF PIdle, PParse, PDispatch, PArgsRead, PDrop, Refuse, NoPulse, TokenKeep,
                      TokenStates
  <2> QED BY <2>1 DEF Submitted, Accepted, Feeding
<1>4. CASE PLoadKey
  BY <1>1, <1>4 DEF PLoadKey, Refuse, TokenKeep, TokenStates, Submitted, Accepted, Feeding
<1>5. CASE PArgs
  <2>1. /\ pr_state = "P_ARGS" /\ rd_cnt = ArgWords + 3 /\ eng_in' = None
        /\ crypto_cmd' = crypto_cmd /\ ~crypto_cmd
        /\ pr_state' \in {"P_ENDREQ", "P_LOADKEY", "P_START"}
    BY <1>1, <1>5 DEF PArgs, ReadDone, NoPulse, TokenKeep, Refuse, TokenStates
  <2>2. CASE pr_state' = "P_START"
    <3>1. Crypto(arrived[pr.req]) /\ ~pr.lens_bad /\ eng_nonce' = pr.args
      BY <1>5, <2>2 DEF PArgs, Refuse, Crypto
    <3>2. /\ pr.args = PidAt(2) /\ pr.lens = PidAt(2) /\ pr.len = rx_rd_count
          /\ ~(pr.lens = 0 \/ LenBad(arrived[pr.lens], pr.len))
          /\ Frame(rxbuf[rx_rd_bank], pr.req)
      BY <1>1, <2>1, <3>1, TimingAssumption DEF Fetched, OnPacket
    <3>3. rx_rd_count = 2
      BY <3>2 DEF LenBad
    <3>4. PidAt(2) = pr.req /\ arrived[pr.req].beats = 2
      BY <1>1, <3>2, <3>3, ReadWords DEF Frame
    <3>5. /\ pr'.req = pr.req /\ pr'.args = pr.args /\ pr'.status = "OK"
      BY <1>1, <1>5, <2>2, WorkStep
    <3>6. arrived'[pr.req] = arrived[pr.req]
      BY <1>2, <2>1 DEF OnPacket
    <3> QED BY <2>1, <2>2, <3>1, <3>2, <3>4, <3>5, <3>6 DEF Submitted, Feeding
  <2>3. CASE pr_state' # "P_START"
    BY <2>1, <2>3 DEF Submitted, Accepted, Feeding
  <2> QED BY <2>2, <2>3
<1>6. CASE PStart \/ PFeed \/ PPresent \/ PNextBlk \/ PEndReq
  <2>1. /\ OnPacket /\ eng_nonce' = eng_nonce
        /\ pr'.req = pr.req /\ pr'.args = pr.args /\ pr'.status = pr.status
    BY <1>1, <1>6, WorkStep DEF PStart, PFeed, PPresent, PNextBlk, PEndReq, PArgs, PLoadKey,
                                EngKeep, OnPacket
  <2>2. /\ Accepted' => Accepted
        /\ Feeding' => crypto_cmd'
        /\ pr_state' = "P_PRESENT" => (PFeed \/ PPresent)
        /\ eng_in' # None => PPresent
    BY <1>1, <1>6 DEF PStart, PFeed, PPresent, PNextBlk, PEndReq, Submitted, Accepted, Feeding,
                      NoPulse, TokenKeep
  <2>3. Accepted => /\ arrived'[pr'.req].beats = 2 /\ Crypto(arrived'[pr'.req])
                    /\ pr'.status = "OK" /\ pr'.args = pr'.req /\ eng_nonce' = pr'.req
    BY <1>1, <1>2, <2>1 DEF Submitted
  <2>4. CASE PFeed
    <3>1. arrived[pr.req].beats = 2 /\ Frame(rxbuf[rx_rd_bank], pr.req)
      BY <1>1, <2>1, <2>4 DEF PFeed, Submitted, Accepted, Feeding, Fetched
    <3>2. BankWhole
      BY <1>1, <3>1, BufferAssumption DEF BankWhole, Frame, Holds, Cap, rx_rd_count
    <3>3. pr'.blk = <<pr.req, IF arrived[pr.req].op = "bench" THEN 1 ELSE pr.i>>
      BY <1>1, <2>4, <3>2, WorkStep DEF Block
    <3>4. pr'.blk \in BlocksOf(pr'.req) /\ eng_in' = None
      BY <1>1, <2>1, <2>4, <3>3 DEF PFeed, NoPulse, BlocksOf
    <3> QED BY <2>2, <2>3, <3>4 DEF Submitted
  <2>5. CASE PPresent
    <3>1. pr.blk \in BlocksOf(pr.req) /\ pr'.blk = pr.blk
      BY <1>1, <2>5, JudgedRegisters DEF PPresent, Submitted
    <3>2. eng_in' # None => eng_in'[1] = pr.blk
      BY <2>5 DEF PPresent
    <3> QED BY <2>1, <2>2, <2>3, <3>1, <3>2 DEF Submitted
  <2>6. CASE ~PFeed /\ ~PPresent
    BY <2>2, <2>3, <2>6 DEF Submitted
  <2> QED BY <2>4, <2>5, <2>6
<1> QED BY <1>1, <1>3, <1>4, <1>5, <1>6 DEF PROC

LEMMA NextProc == ASSUME ProcInv, Next PROVE ProcInv'
BY NextRx, NextToken, NextFetched, NextSubmitted DEF ProcInv

LEMMA StutterProc == ASSUME ProcInv, UNCHANGED vars PROVE ProcInv'
<1>1. RxInv' /\ TokenInv'
  BY StutterRx, StutterToken DEF ProcInv
<1>2. Fetched' /\ Submitted'
  BY DEF ProcInv, Fetched, Submitted, Accepted, Feeding, OnPacket, Frame, Holds, PidAt, None,
         rx_rd_count, vars, rxVars, procVars, bufVars
<1> QED BY <1>1, <1>2 DEF ProcInv

-----------------------------------------------------------------------------
(* The engine: what it works on, and what it still owes, is its owner's.   *)

\* The engine is at work, or something of its last message is on its way.
Live == eng_state # "S_IDLE" \/ eng_start \/ eng_done \/ done.seen \/ eng_out # None

\* The token is handed down a pipeline that is empty below its holder.
NothingAhead ==
  /\ ProcOwns => ~pd_valid /\ ~dcur_valid
  /\ PdOwns => ~dcur_valid
  /\ dr_state = "D_CLEAR" => ~eng_owned /\ ~dcur_valid

EngineTypes ==
  /\ DOMAIN eng_msg = DOMAIN NoTag /\ DOMAIN done = {"seen", "tag", "to"}
  /\ eng_done \in BOOLEAN /\ eng_err \in BOOLEAN /\ done.seen \in BOOLEAN
  /\ pd.crypto \in BOOLEAN /\ dcur.crypto \in BOOLEAN /\ eng_timer \in Nat

EngineWorks ==
  /\ Live => eng_owned
  /\ DrainOwns /\ Live => dcur.crypto /\ dr_state \in {"D_IDLE", "D_WRITE"}
  /\ eng_start => eng_nonce = Owner
  /\ eng_state # "S_IDLE" \/ eng_done \/ done.seen => eng_msg.nonce = Owner
  /\ done.seen => done.tag = eng_msg /\ ~eng_done
  /\ done.seen \/ eng_done => eng_state = "S_IDLE" /\ ~eng_start
  /\ eng_err /\ ~eng_start => ~Live
  /\ PdOwns => (pd.crypto <=> ~eng_err)
  /\ DrainOwns => (dcur.crypto <=> ~eng_err)
  /\ eng_state = "S_ENC" => eng_cur[1] \in BlocksOf(Owner)
  /\ eng_out # None => eng_out \in BlocksOf(Owner) /\ eng_state = "S_WAITBUF"

EngineInv == ProcInv /\ NothingAhead /\ EngineTypes /\ EngineWorks

LEMMA InitEngine == Init => EngineInv
<1> SUFFICES ASSUME Init PROVE NothingAhead /\ EngineTypes /\ EngineWorks
  BY InitProc DEF EngineInv
<1>1. /\ ~ProcOwns /\ ~PdOwns /\ ~DrainOwns /\ ~Live
  BY DEF Init, ProcOwns, PdOwns, DrainOwns, pd_valid, Live
<1>2. /\ DOMAIN eng_msg = DOMAIN NoTag /\ DOMAIN done = {"seen", "tag", "to"}
      /\ done.seen = FALSE /\ pd.crypto = FALSE /\ dcur.crypto = FALSE
  BY DEF Init, NoDesc
<1> QED BY <1>1, <1>2 DEF Init, NothingAhead, EngineTypes, EngineWorks, Live

\* What a step of the engine can do.
LEMMA EngineMoves ==
  ASSUME ENGINE, DOMAIN eng_msg = DOMAIN NoTag, eng_timer \in Nat
  PROVE  /\ DOMAIN eng_msg' = DOMAIN NoTag /\ eng_done' \in BOOLEAN
         /\ eng_err \in BOOLEAN => eng_err' \in BOOLEAN
         /\ eng_state = "S_IDLE" /\ ~eng_start =>
              eng_state' = "S_IDLE" /\ eng_msg' = eng_msg /\ eng_err' = eng_err
         /\ eng_state = "S_IDLE" => ~eng_done' /\ eng_out' = None
         /\ eng_state = "S_IDLE" /\ eng_start => eng_msg'.nonce = eng_nonce /\ ~eng_err'
         /\ eng_state # "S_IDLE" => eng_msg'.nonce = eng_msg.nonce
         /\ eng_done' => eng_state = "S_FIN" /\ eng_state' = "S_IDLE"
         /\ eng_out' # None => /\ eng_state = "S_ENC" /\ eng_state' = "S_WAITBUF"
                               /\ eng_out' = eng_cur[1] /\ eng_timer <= 1
         /\ eng_state' = "S_ENC" =>
              \/ /\ eng_state = "S_ENC" /\ eng_cur' = eng_cur
                 /\ eng_timer > 1 /\ eng_timer' = eng_timer - 1
              \/ /\ eng_state = "S_ACCEPT" /\ eng_in # None
                 /\ eng_cur' = eng_in /\ eng_timer' = EncCycles
         /\ \/ eng_err' = eng_err
            \/ eng_state = "S_IDLE" /\ eng_start
            \/ /\ eng_state = "S_ACCEPT" /\ eng_in # None
               /\ eng_state' = "S_IDLE" /\ ~eng_done' /\ eng_out' = None
         /\ eng_timer' \in Nat
<1>1. CASE EngAccept
  <2> DEFINE m == [eng_msg EXCEPT !.over = Append(@, eng_in[1])]
  <2>1. DOMAIN m = DOMAIN NoTag /\ m.nonce = eng_msg.nonce
    BY DEF NoTag
  <2> HIDE DEF m
  <2>2. eng_msg' = m
    BY <1>1 DEF EngAccept, m
  <2> QED BY <1>1, <2>1, <2>2, TimingAssumption DEF EngAccept, EngNoPulse
<1>2. CASE EngIdle
  <2> DEFINE m == [key |-> eng_key, nonce |-> eng_nonce, over |-> <<>>]
  <2>1. DOMAIN m = DOMAIN NoTag /\ m.nonce = eng_nonce
    BY DEF NoTag
  <2> HIDE DEF m
  <2>2. CASE eng_start
    <3>1. eng_msg' = m /\ eng_err' = FALSE /\ eng_state' = "S_KEY"
      BY <1>2, <2>2 DEF EngIdle, m
    <3> QED BY <1>2, <2>1, <2>2, <3>1 DEF EngIdle, EngNoPulse
  <2>3. CASE ~eng_start
    BY <1>2, <2>3 DEF EngIdle, EngNoPulse, EngMsgKeep
  <2> QED BY <2>2, <2>3
<1>3. CASE EngReady \/ EngWaits \/ EngNoBlock
  BY <1>3 DEF EngReady, EngWaits, EngNoBlock, EngNoPulse, EngMsgKeep
<1>4. CASE EngEncrypt
  <2>1. CASE eng_timer > 1
    <3>1. /\ eng_state = "S_ENC" /\ eng_state' = "S_ENC" /\ eng_timer' = eng_timer - 1
          /\ eng_out' = None /\ eng_done' = FALSE
          /\ eng_cur' = eng_cur /\ eng_msg' = eng_msg /\ eng_err' = eng_err
      BY <1>4, <2>1 DEF EngEncrypt, EngMsgKeep
    <3>2. eng_timer' \in Nat
      BY <2>1, <3>1
    <3> QED BY <2>1, <3>1, <3>2
  <2>2. CASE ~(eng_timer > 1)
    BY <1>4, <2>2 DEF EngEncrypt, EngMsgKeep
  <2> QED BY <2>1, <2>2
<1>5. CASE EngFin
  BY <1>5 DEF EngFin, EngMsgKeep
<1>6. CASE EngAbort
  BY <1>6 DEF EngAbort, EngNoPulse
<1> QED BY <1>1, <1>2, <1>3, <1>4, <1>5, <1>6 DEF ENGINE

\* What a step of DRAIN does to the result it caught and to its descriptor.
LEMMA DoneStep ==
  ASSUME DRAIN, DOMAIN done = {"seen", "tag", "to"}, done.seen \in BOOLEAN
  PROVE  /\ DOMAIN done' = {"seen", "tag", "to"} /\ done'.seen \in BOOLEAN
         /\ done'.seen => done.seen \/ eng_done
         /\ done'.tag = IF eng_done THEN eng_msg ELSE done.tag
         /\ dr_state = "D_IDLE" /\ dr_state' = "D_FIN" => ~done'.seen
<1> DEFINE c == [seen |-> TRUE, tag |-> eng_msg, to |-> eng_msg.nonce]
<1>1. /\ DOMAIN c = {"seen", "tag", "to"} /\ c.seen = TRUE /\ c.tag = eng_msg
  OBVIOUS
<1> HIDE DEF c
<1>2. CaughtDone = IF eng_done THEN c ELSE done
  BY DEF CaughtDone, c
<1>3. CASE DResult
  <2>1. done' = [CaughtDone EXCEPT !.seen = FALSE]
    BY <1>3 DEF DResult
  <2>2. /\ DOMAIN CaughtDone = {"seen", "tag", "to"}
        /\ CaughtDone.tag = IF eng_done THEN eng_msg ELSE done.tag
    BY <1>1, <1>2
  <2> HIDE DEF c
  <2>3. DOMAIN done' = {"seen", "tag", "to"} /\ done'.seen = FALSE /\ done'.tag = CaughtDone.tag
    BY <2>1, <2>2
  <2> QED BY <2>2, <2>3
<1>4. CASE ~DResult
  <2>1. done' = CaughtDone
    BY <1>4 DEF DRAIN, DCatch, DTake, DIdle, DWrite, DFin, DCheck, DPublish, DClear, CatchDone
  <2>2. ~(dr_state = "D_IDLE" /\ dr_state' = "D_FIN")
    BY <1>4 DEF DRAIN, DCatch, DTake, DIdle, DWrite, DFin, DCheck, DPublish, DClear
  <2> QED BY <1>1, <1>2, <2>1, <2>2
<1> QED BY <1>3, <1>4

LEMMA DescStep ==
  ASSUME ControlTypeOK, DRAIN
  PROVE  \/ DTake /\ dcur' = pd
         \/ /\ ~DTake
            /\ dcur'.pid = dcur.pid /\ dcur'.crypto = dcur.crypto
            /\ dcur'.engine = dcur.engine /\ dcur'.tag = dcur.tag
<1>1. DTake => dcur' = pd
  BY DEF DTake
<1>2. CASE DFin
  BY <1>1, <1>2 DEF DFin, ControlTypeOK, DescFields, NoDesc
<1>3. CASE DCheck
  <2> DEFINE d(n) == [dcur EXCEPT !.len = n]
             x == [dcur EXCEPT !.status = "AUTH_FAIL", !.len = 0]
             Keeps(q) == /\ q.pid = dcur.pid /\ q.crypto = dcur.crypto
                         /\ q.engine = dcur.engine /\ q.tag = dcur.tag
  <2>1. Keeps(x) /\ \A n : Keeps(d(n))
    BY DEF ControlTypeOK, DescFields, NoDesc
  <2>2. dcur' = x \/ dcur' = d(tx_wr_count)
    BY <1>3 DEF DCheck
  <2> HIDE DEF d, x
  <2> QED BY <1>1, <2>1, <2>2
<1>4. CASE DCatch \/ DIdle \/ DWrite \/ DClear \/ DResult \/ DPublish
  <2>1. dcur' = dcur
    BY <1>4 DEF DCatch, DIdle, DWrite, DClear, DResult, DPublish
  <2> QED BY <2>1, <1>1
<1> QED BY <1>1, <1>2, <1>3, <1>4 DEF DRAIN

LEMMA WorkingStep ==
  ASSUME PROC, DOMAIN pr = DOMAIN ProcReset, pr.i \in Nat,
         pr_state \in {"P_START", "P_FEED", "P_PRESENT", "P_NEXTBLK", "P_ENDREQ"}
  PROVE  pr'.req = pr.req /\ eng_nonce' = eng_nonce
<1>1. PStart \/ PFeed \/ PPresent \/ PNextBlk \/ PEndReq
  BY DEF PROC, PIdle, PParse, PDispatch, PArgsRead, PArgs, PLoadKey, PDrop
<1> QED BY <1>1, WorkStep DEF PStart, PFeed, PPresent, PNextBlk, PEndReq, EngKeep

\* The descriptor PROC hands over is that of its packet.
LEMMA EndReqStep ==
  ASSUME PROC, pr_state = "P_ENDREQ", pr_state' = "P_IDLE"
  PROVE  pd' = Descriptor
BY DEF PROC, PIdle, PParse, PDispatch, PArgsRead, PArgs, PLoadKey, PStart, PFeed, PPresent,
       PNextBlk, PEndReq, PDrop

\* DRAIN takes a descriptor when it has none, gives it up in D_PUBLISH, and
\* keeps it on every other step.
LEMMA DrainHands ==
  ASSUME ControlTypeOK, TokenStates, DRAIN
  PROVE  \/ /\ DTake /\ dr_state = "D_IDLE" /\ dr_state' = "D_IDLE" /\ eng_out = None
            /\ pd_valid /\ ~dcur_valid /\ dcur' = pd /\ dcur_valid'
            /\ pd_get_par' = Flip(pd_get_par)
         \/ /\ ~DTake /\ dr_state = "D_PUBLISH" /\ dr_state' = "D_CLEAR"
            /\ dcur_valid /\ ~dcur_valid' /\ pd_get_par' = pd_get_par
         \/ /\ ~DTake /\ (dcur_valid' <=> dcur_valid) /\ pd_get_par' = pd_get_par
            /\ dcur'.engine = dcur.engine /\ dr_state' # "D_CLEAR"
<1>1. CASE DTake
  BY <1>1 DEF DTake
<1>2. CASE DPublish /\ dr_state' = "D_CLEAR"
  BY <1>2 DEF DPublish, DTake, TokenStates, MayPublish
<1>3. CASE ~DTake /\ ~(DPublish /\ dr_state' = "D_CLEAR")
  <2>1. dcur'.engine = dcur.engine
    BY <1>3, DescStep
  <2>2. dcur_valid' = dcur_valid /\ pd_get_par' = pd_get_par /\ dr_state' # "D_CLEAR"
    BY <1>3 DEF DRAIN, DCatch, DResult, DIdle, DWrite, DFin, DCheck, DPublish, DClear, MayPublish
  <2> QED BY <1>3, <2>1, <2>2
<1> QED BY <1>1, <1>2, <1>3

\* The engine changes hands in one direction only, one holder at a time.
LEMMA TokenMoves ==
  ASSUME ProcInv, NothingAhead, Next
  PROVE  \/ ~eng_owned /\ ~eng_owned' /\ ~eng_start'
         \/ /\ ~eng_owned /\ eng_owned' /\ ProcOwns' /\ eng_start' /\ CanStart
            /\ pr'.req = pr.req /\ eng_nonce' = pr.req /\ ~pd_valid' /\ ~dcur_valid'
         \/ /\ eng_owned /\ eng_owned' /\ ~eng_start'
            /\ \/ ProcOwns /\ ProcOwns' /\ pr'.req = pr.req /\ ~pd_valid' /\ ~dcur_valid'
               \/ /\ ProcOwns /\ PdOwns' /\ ~dcur_valid'
                  /\ pr_state = "P_ENDREQ" /\ pd' = Descriptor
               \/ PdOwns /\ PdOwns' /\ pd' = pd /\ ~dcur_valid'
               \/ PdOwns /\ DrainOwns' /\ DTake /\ dcur' = pd
               \/ DrainOwns /\ DrainOwns' /\ ~DTake
         \/ eng_owned /\ ~eng_owned' /\ DrainOwns /\ dr_state = "D_PUBLISH" /\ ~eng_start'
<1>1. /\ ControlTypeOK /\ EngineOwned /\ TokenStates /\ PROC /\ DRAIN /\ Fetched /\ Submitted
      /\ DOMAIN pr = DOMAIN ProcReset /\ pr.i \in Nat
  BY DEF ProcInv, TokenInv, Next, Fetched
<1>2. EngineOwned'
  BY NextToken DEF ProcInv, TokenInv
<1>3. CASE pr_state = "P_START" /\ pr_state' = "P_FEED"
  <2>1. /\ CanStart /\ eng_start' /\ pd' = pd /\ pd_put_par' = pd_put_par
        /\ crypto_cmd' /\ ProcOwns'
    BY <1>1, <1>3, ProcTokenStep DEF ProcOwns
  <2>2. ~eng_owned /\ ~pd_valid /\ ~dcur_valid /\ eng_owned'
    BY <1>2, <2>1 DEF CanStart, drain_empty, EngineOwned
  <2>3. ~pd_valid' /\ ~dcur_valid'
    BY <1>1, <2>1, <2>2, DrainHands DEF pd_valid
  <2>4. pr'.req = pr.req /\ eng_nonce' = pr.req
    BY <1>1, <1>3, WorkingStep DEF Submitted, Accepted
  <2> QED BY <2>1, <2>2, <2>3, <2>4
<1>4. CASE pr_state = "P_ENDREQ" /\ pr_state' = "P_IDLE"
  <2>1. /\ ~pd_valid /\ ~eng_start' /\ pd' = Descriptor /\ pd'.engine = crypto_cmd
        /\ pd_put_par' = Flip(pd_put_par) /\ eng_take_par' = eng_take_par
    BY <1>1, <1>4, ProcTokenStep, EndReqStep
  <2>2. pd_get_par' = pd_get_par /\ ~DTake /\ pd_valid' /\ ~ProcOwns'
    <3>1. pd_get_par' = pd_get_par /\ ~DTake
      BY <1>1, <2>1, DrainHands
    <3> QED BY <1>1, <1>4, <2>1, <3>1 DEF pd_valid, ControlTypeOK, Flip, Bit, ProcOwns
  <2>3. CASE ProcOwns
    <3>1. dcur_valid' = dcur_valid /\ ~dcur_valid
      BY <1>1, <2>1, <2>3, DrainStep DEF NothingAhead, TokenStates
    <3> QED BY <1>1, <1>2, <1>4, <2>1, <2>2, <2>3, <3>1 DEF EngineOwned, ProcOwns, PdOwns
  <2>4. CASE ~ProcOwns
    <3>1. ~PdOwns /\ ~PdOwns' /\ ~crypto_cmd
      BY <1>4, <2>1, <2>4 DEF PdOwns, ProcOwns
    <3>2. \/ DrainOwns' <=> DrainOwns
          \/ dr_state = "D_PUBLISH"
      BY <1>1, <2>2, DrainHands DEF DrainOwns
    <3>3. DrainOwns' => DrainOwns
      BY <1>1, <2>2, DrainHands DEF DrainOwns
    <3> QED BY <1>1, <1>2, <2>1, <2>2, <2>4, <3>1, <3>2, <3>3 DEF EngineOwned
  <2> QED BY <2>3, <2>4
<1>5. CASE ~(pr_state = "P_START" /\ pr_state' = "P_FEED")
           /\ ~(pr_state = "P_ENDREQ" /\ pr_state' = "P_IDLE")
  <2>1. /\ ~eng_start' /\ pd' = pd /\ pd_put_par' = pd_put_par
        /\ ProcOwns' => ProcOwns
        /\ ProcOwns => ProcOwns'
    <3>1. /\ ~eng_start' /\ eng_take_par' = eng_take_par /\ pd' = pd /\ pd_put_par' = pd_put_par
          /\ \/ pr_state = "P_IDLE" /\ crypto_cmd' = FALSE
             \/ crypto_cmd' = crypto_cmd /\ pr_state' = pr_state
             \/ crypto_cmd' = crypto_cmd /\ ~crypto_cmd
             \/ /\ crypto_cmd' = crypto_cmd
                /\ pr_state \in {"P_FEED", "P_PRESENT", "P_NEXTBLK"}
                /\ pr_state' \in {"P_FEED", "P_PRESENT", "P_NEXTBLK", "P_ENDREQ"}
      BY <1>1, <1>5, ProcTokenStep DEF TokenStates
    <3> QED BY <3>1 DEF ProcOwns
  <2>2. CASE ProcOwns
    <3>1. ~pd_valid /\ ~dcur_valid /\ pr'.req = pr.req
      BY <1>1, <2>2, WorkingStep DEF NothingAhead, ProcOwns
    <3>2. ~pd_valid' /\ ~dcur_valid'
      BY <1>1, <2>1, <3>1, DrainHands DEF pd_valid
    <3> QED BY <1>1, <1>2, <2>1, <2>2, <3>1, <3>2 DEF EngineOwned
  <2>3. CASE PdOwns
    <3>1. ~dcur_valid /\ pd_valid /\ pd.engine /\ ~ProcOwns'
      BY <1>1, <2>1, <2>3 DEF NothingAhead, PdOwns, EngineOwned
    <3>2. CASE DTake
      <4>1. dcur' = pd /\ DrainOwns'
        BY <3>1, <3>2 DEF DTake, DrainOwns
      <4> QED BY <1>1, <1>2, <2>1, <2>3, <3>2, <4>1 DEF EngineOwned
    <3>3. CASE ~DTake
      <4>1. pd_get_par' = pd_get_par /\ dcur_valid' = dcur_valid
        BY <1>1, <3>1, <3>3 DEF DRAIN, DCatch, DIdle, DResult, HasResult, DWrite, DFin, DCheck,
                                DPublish, DClear, TokenStates
      <4> QED BY <1>1, <1>2, <2>1, <2>3, <3>1, <4>1 DEF EngineOwned, PdOwns, pd_valid
    <3> QED BY <3>2, <3>3
  <2>4. CASE ~ProcOwns /\ ~PdOwns
    <3>1. ~ProcOwns' /\ (DrainOwns' => DrainOwns) /\ ~PdOwns'
      <4>1. CASE DTake
        BY <1>1, <2>1, <2>4, <4>1, DrainHands DEF DrainOwns, PdOwns, pd_valid, ControlTypeOK,
             Flip, Bit
      <4>2. CASE ~DTake
        BY <1>1, <2>1, <2>4, <4>2, DrainHands DEF DrainOwns, PdOwns, pd_valid
      <4> QED BY <4>1, <4>2
    <3>2. (DrainOwns => DrainOwns' \/ dr_state = "D_PUBLISH") /\ (DrainOwns => ~DTake)
      BY <1>1, DrainHands DEF DrainOwns
    <3> QED BY <1>1, <1>2, <2>1, <2>4, <3>1, <3>2 DEF EngineOwned
  <2> QED BY <2>2, <2>3, <2>4
<1> QED BY <1>3, <1>4, <1>5

LEMMA NextNothingAhead == ASSUME EngineInv, Next PROVE NothingAhead'
<1>1. /\ ProcInv /\ NothingAhead /\ ControlTypeOK /\ EngineOwned /\ TokenStates
      /\ PROC /\ DRAIN /\ EngineOwned'
  BY NextToken DEF EngineInv, ProcInv, TokenInv, Next
<1>2. (ProcOwns' => ~pd_valid' /\ ~dcur_valid') /\ (PdOwns' => ~dcur_valid')
  BY <1>1, TokenMoves DEF EngineOwned, PdOwns
<1>3. ASSUME dr_state' = "D_CLEAR" PROVE ~eng_owned' /\ ~dcur_valid'
  <2>1. dr_state = "D_PUBLISH" /\ dcur_valid /\ ~dcur_valid' /\ pd_get_par' = pd_get_par
    BY <1>1, <1>3, DrainHands
  <2>2. ~CanStart /\ ~ProcOwns /\ ~PdOwns /\ ~DrainOwns'
    BY <1>1, <2>1 DEF CanStart, drain_empty, NothingAhead, DrainOwns
  <2> QED BY <1>1, <2>1, <2>2, TokenMoves
<1> QED BY <1>2, <1>3 DEF NothingAhead

LEMMA NextEngineTypes == ASSUME EngineInv, Next PROVE EngineTypes'
<1>1. /\ ControlTypeOK /\ EngineTypes /\ PROC /\ ENGINE /\ DRAIN
  BY DEF EngineInv, ProcInv, TokenInv, Next
<1>2. pd'.crypto \in BOOLEAN
  <2>1. CASE pr_state = "P_ENDREQ" /\ pr_state' = "P_IDLE"
    <3>1. pd'.crypto = AwaitsResult
      BY <1>1, <2>1, EndReqStep DEF Descriptor
    <3>2. AwaitsResult \in BOOLEAN
      BY DEF AwaitsResult
    <3> QED BY <3>1, <3>2
  <2>2. CASE ~(pr_state = "P_ENDREQ" /\ pr_state' = "P_IDLE")
    BY <1>1, <2>2, ProcTokenStep DEF EngineTypes
  <2> QED BY <2>1, <2>2
<1>3. dcur'.crypto \in BOOLEAN
  BY <1>1, DescStep DEF EngineTypes
<1> QED BY <1>1, <1>2, <1>3, EngineMoves, DoneStep DEF EngineTypes

\* The packet the token belongs to stays the same while it is held.
LEMMA OwnerStays ==
  ASSUME EngineInv, Next, eng_owned, eng_owned'
  PROVE  Owner' = Owner
<1>1. /\ ProcInv /\ NothingAhead /\ DRAIN /\ EngineOwned /\ EngineOwned' /\ ControlTypeOK
  BY NextToken DEF EngineInv, ProcInv, TokenInv, Next
<1>2. CASE ProcOwns /\ ProcOwns' /\ pr'.req = pr.req
  BY <1>2 DEF Owner
<1>3. CASE ProcOwns /\ PdOwns' /\ pd' = Descriptor
  BY <1>1, <1>3 DEF Owner, EngineOwned, Descriptor
<1>4. CASE PdOwns /\ PdOwns' /\ pd' = pd
  BY <1>1, <1>4 DEF Owner, EngineOwned
<1>5. CASE PdOwns /\ DrainOwns' /\ dcur' = pd
  BY <1>1, <1>5 DEF Owner, EngineOwned
<1>6. CASE DrainOwns /\ DrainOwns' /\ ~DTake
  BY <1>1, <1>6, DescStep DEF Owner, EngineOwned
<1> QED BY <1>1, <1>2, <1>3, <1>4, <1>5, <1>6, TokenMoves

\* Nothing of the engine comes to life but by a start.
LEMMA LiveSteps ==
  ASSUME EngineInv, Next
  PROVE  /\ Live' => Live \/ eng_start'
         /\ Live => eng_owned' /\ ~eng_start'
         /\ Live => Owner' = Owner
<1>1. /\ ProcInv /\ NothingAhead /\ EngineTypes /\ EngineWorks /\ ENGINE /\ DRAIN
      /\ EngineOwned /\ EngineOwned'
  BY NextToken DEF EngineInv, ProcInv, TokenInv, Next
<1>2. ASSUME Live', ~Live PROVE eng_start'
  <2>1. eng_state = "S_IDLE" /\ ~eng_start /\ ~eng_done /\ ~done.seen
    BY <1>2 DEF Live
  <2> QED BY <1>1, <1>2, <2>1, EngineMoves, DoneStep DEF Live, EngineTypes
<1>3. ASSUME Live PROVE eng_owned' /\ ~eng_start' /\ Owner' = Owner
  <2>1. eng_owned /\ ~(DrainOwns /\ dr_state = "D_PUBLISH")
    BY <1>1, <1>3 DEF EngineWorks
  <2>2. eng_owned' /\ ~eng_start'
    BY <1>1, <2>1, TokenMoves
  <2> QED BY <2>1, <2>2, OwnerStays
<1> QED BY <1>2, <1>3

LEMMA NextEngineWorks == ASSUME EngineInv, Next PROVE EngineWorks'
<1>1. /\ ProcInv /\ NothingAhead /\ EngineTypes /\ EngineWorks /\ ControlTypeOK
      /\ PROC /\ ENGINE /\ DRAIN /\ EngineOwned /\ EngineOwned' /\ TokenStates /\ Submitted
  BY NextToken DEF EngineInv, ProcInv, TokenInv, Next
<1>2. DOMAIN eng_msg = DOMAIN NoTag /\ eng_timer \in Nat /\ DOMAIN done = {"seen", "tag", "to"}
      /\ done.seen \in BOOLEAN /\ eng_done \in BOOLEAN /\ eng_err \in BOOLEAN
  BY <1>1 DEF EngineTypes
\* A start and a block come from the packet PROC is on.
<1>3. eng_start \/ eng_in # None => ProcOwns
  BY <1>1 DEF TokenStates, Submitted, Feeding, ProcOwns
<1>4. eng_start' => eng_nonce' = Owner' /\ ~Live /\ ~eng_owned
  BY <1>1, TokenMoves DEF Owner, EngineWorks
<1>5. eng_err' = eng_err \/ ProcOwns
  BY <1>1, <1>2, <1>3, EngineMoves
<1>6. Live' => eng_owned'
  BY <1>1, LiveSteps, TokenMoves
<1>7. ASSUME DrainOwns', Live' PROVE dcur'.crypto /\ dr_state' \in {"D_IDLE", "D_WRITE"}
  <2>1. Live /\ ~eng_start'
    BY <1>1, <1>7, LiveSteps, TokenMoves DEF EngineOwned
  <2>2. \/ PdOwns /\ DTake /\ dcur' = pd
        \/ DrainOwns /\ ~DTake
    BY <1>1, <1>7, <2>1, LiveSteps, TokenMoves DEF EngineOwned
  <2>3. CASE PdOwns /\ DTake /\ dcur' = pd
    <3>1. ~eng_start /\ ~eng_err
      BY <1>1, <1>3, <2>1, <2>3 DEF EngineOwned, EngineWorks
    <3> QED BY <1>1, <2>3, <3>1 DEF EngineWorks, DTake
  <2>4. CASE DrainOwns /\ ~DTake
    <3>1. dcur.crypto /\ dr_state \in {"D_IDLE", "D_WRITE"} /\ dcur'.crypto = dcur.crypto
      BY <1>1, <2>1, <2>4, DescStep DEF EngineWorks
    <3>2. CASE DResult
      <4>1. done.seen /\ dr_state' = "D_FIN" /\ dr_state = "D_IDLE"
        BY <3>1, <3>2 DEF DResult, HasResult
      <4>2. eng_state = "S_IDLE" /\ ~eng_start
        BY <1>1, <4>1 DEF EngineWorks
      <4>3. ~Live'
        BY <1>1, <1>2, <2>1, <4>1, <4>2, EngineMoves, DoneStep DEF Live
      <4> QED BY <1>7, <4>3
    <3>3. CASE ~DResult
      BY <1>1, <3>1, <3>3 DEF DRAIN, DCatch, DTake, DIdle, DWrite, DFin, DCheck, DPublish, DClear
    <3> QED BY <3>2, <3>3
  <2> QED BY <2>2, <2>3, <2>4
<1>8. eng_state' # "S_IDLE" \/ eng_done' \/ done'.seen => eng_msg'.nonce = Owner'
  <2>1. CASE eng_state = "S_IDLE" /\ eng_start
    <3>1. Live /\ eng_nonce = Owner
      BY <1>1, <2>1 DEF Live, EngineWorks
    <3> QED BY <1>1, <1>2, <2>1, <3>1, LiveSteps, EngineMoves
  <2>2. CASE eng_state = "S_IDLE" /\ ~eng_start
    <3>1. eng_state' = "S_IDLE" /\ ~eng_done' /\ eng_msg' = eng_msg
          /\ (done'.seen => done.seen \/ eng_done)
      BY <1>1, <1>2, <2>2, EngineMoves, DoneStep
    <3>2. done.seen \/ eng_done => Live /\ eng_msg.nonce = Owner
      BY <1>1 DEF Live, EngineWorks
    <3> QED BY <3>1, <3>2, LiveSteps
  <2>3. CASE eng_state # "S_IDLE"
    <3>1. Live /\ eng_msg.nonce = Owner
      BY <1>1, <2>3 DEF Live, EngineWorks
    <3> QED BY <1>1, <1>2, <2>3, <3>1, LiveSteps, EngineMoves
  <2> QED BY <2>1, <2>2, <2>3
<1>9. /\ done'.seen => done'.tag = eng_msg' /\ ~eng_done'
      /\ done'.seen \/ eng_done' => eng_state' = "S_IDLE" /\ ~eng_start'
  <2>1. ASSUME done'.seen
        PROVE  done'.tag = eng_msg' /\ ~eng_done' /\ eng_state' = "S_IDLE" /\ ~eng_start'
    <3>1. done.seen \/ eng_done
      BY <1>1, <1>2, <2>1, DoneStep
    <3>2. eng_state = "S_IDLE" /\ ~eng_start /\ Live
      BY <1>1, <3>1 DEF EngineWorks, Live
    <3>3. eng_state' = "S_IDLE" /\ ~eng_done' /\ eng_msg' = eng_msg /\ ~eng_start'
      BY <1>1, <1>2, <3>2, EngineMoves, LiveSteps
    <3>4. done'.tag = eng_msg
      BY <1>1, <1>2, <3>1, DoneStep DEF EngineWorks
    <3> QED BY <3>3, <3>4
  <2>2. ASSUME eng_done' PROVE eng_state' = "S_IDLE" /\ ~eng_start'
    BY <1>1, <1>2, <2>2, EngineMoves, LiveSteps DEF Live
  <2> QED BY <2>1, <2>2
<1>10. eng_err' /\ ~eng_start' => ~Live'
  <2> SUFFICES ASSUME eng_err', ~eng_start' PROVE ~Live'
    OBVIOUS
  <2>1. CASE eng_err /\ ~eng_start
    BY <1>1, <2>1, LiveSteps DEF EngineWorks
  <2>2. CASE eng_start
    BY <1>1, <1>2, <2>2, EngineMoves DEF EngineOwned
  <2>3. CASE ~eng_err /\ ~eng_start
    <3>1. eng_state = "S_ACCEPT" /\ eng_state' = "S_IDLE" /\ ~eng_done' /\ eng_out' = None
      BY <1>1, <1>2, <2>3, EngineMoves
    <3>2. ~done.seen /\ ~eng_done
      BY <1>1, <3>1 DEF EngineWorks
    <3> QED BY <1>1, <1>2, <3>1, <3>2, DoneStep DEF Live
  <2> QED BY <2>1, <2>2, <2>3
<1>11. PdOwns' => (pd'.crypto <=> ~eng_err')
  <2> SUFFICES ASSUME PdOwns' PROVE pd'.crypto <=> ~eng_err'
    OBVIOUS
  <2>1. \/ ProcOwns /\ pr_state = "P_ENDREQ" /\ pd' = Descriptor
        \/ PdOwns /\ pd' = pd
    BY <1>1, TokenMoves DEF EngineOwned
  <2>2. CASE ProcOwns /\ pr_state = "P_ENDREQ" /\ pd' = Descriptor
    <3>1. pd'.crypto = (crypto_cmd /\ ~eng_err) /\ crypto_cmd
      BY <2>2 DEF Descriptor, AwaitsResult, ProcOwns
    <3>2. eng_err' = eng_err
      BY <1>1, <1>2, <2>2, EngineMoves DEF TokenStates
    <3> QED BY <3>1, <3>2
  <2>3. CASE PdOwns /\ pd' = pd
    BY <1>1, <1>5, <2>3 DEF EngineOwned, EngineWorks
  <2> QED BY <2>1, <2>2, <2>3
<1>12. DrainOwns' => (dcur'.crypto <=> ~eng_err')
  <2> SUFFICES ASSUME DrainOwns' PROVE dcur'.crypto <=> ~eng_err'
    OBVIOUS
  <2>1. \/ PdOwns /\ dcur' = pd
        \/ DrainOwns /\ ~DTake
    BY <1>1, TokenMoves DEF EngineOwned
  <2>2. CASE PdOwns /\ dcur' = pd
    BY <1>1, <1>5, <2>2 DEF EngineOwned, EngineWorks
  <2>3. CASE DrainOwns /\ ~DTake
    <3>1. dcur'.crypto = dcur.crypto
      BY <1>1, <2>3, DescStep
    <3> QED BY <1>1, <1>5, <2>3, <3>1 DEF EngineOwned, EngineWorks
  <2> QED BY <2>1, <2>2, <2>3
<1>13. eng_state' = "S_ENC" => eng_cur'[1] \in BlocksOf(Owner')
  <2> SUFFICES ASSUME eng_state' = "S_ENC" PROVE eng_cur'[1] \in BlocksOf(Owner')
    OBVIOUS
  <2>1. CASE eng_state = "S_ENC" /\ eng_cur' = eng_cur
    BY <1>1, <2>1, LiveSteps DEF EngineWorks, Live
  <2>2. CASE eng_state = "S_ACCEPT" /\ eng_in # None /\ eng_cur' = eng_in
    <3>1. eng_in[1] \in BlocksOf(Owner)
      BY <1>1, <1>3, <2>2 DEF Submitted, Owner
    <3> QED BY <2>2, <3>1, LiveSteps DEF Live
  <2> QED BY <1>1, <1>2, <2>1, <2>2, EngineMoves
<1>14. eng_out' # None => eng_out' \in BlocksOf(Owner') /\ eng_state' = "S_WAITBUF"
  BY <1>1, <1>2, EngineMoves, LiveSteps DEF EngineWorks, Live
<1> QED BY <1>4, <1>6, <1>7, <1>8, <1>9, <1>10, <1>11, <1>12, <1>13, <1>14
        DEF EngineWorks, None, BlocksOf

LEMMA NextEngine == ASSUME EngineInv, Next PROVE EngineInv'
BY NextProc, NextNothingAhead, NextEngineTypes, NextEngineWorks DEF EngineInv

LEMMA StutterEngine == ASSUME EngineInv, UNCHANGED vars PROVE EngineInv'
<1>1. ProcInv'
  BY StutterProc DEF EngineInv
<1>2. /\ ProcOwns' = ProcOwns /\ PdOwns' = PdOwns /\ DrainOwns' = DrainOwns /\ Owner' = Owner
      /\ Live' = Live /\ eng_owned' = eng_owned /\ pd_valid' = pd_valid
  BY DEF ProcOwns, PdOwns, DrainOwns, Owner, Live, eng_owned, pd_valid, None,
         vars, procVars, engVars, drainVars
<1>3. NothingAhead' /\ EngineTypes' /\ EngineWorks'
  BY <1>2 DEF EngineInv, NothingAhead, EngineTypes, EngineWorks, None,
              vars, procVars, engVars, drainVars
<1> QED BY <1>1, <1>3 DEF EngineInv

\* A result the engine has announced, caught in `done` or not, is that of
\* the packet holding the token: it is never stale when the next one arrives.
THEOREM ResultsAreTheOwners == Spec => []ResultIsOwners
<1>1. EngineInv /\ [Next]_vars => EngineInv'
  BY NextEngine, StutterEngine
<1>2. EngineInv => ResultIsOwners
  BY DEF EngineInv, EngineWorks, Live, ResultIsOwners
<1> QED BY <1>1, <1>2, InitEngine, PTL DEF Spec

-----------------------------------------------------------------------------
(* DRAIN is in time: out_valid has no back-pressure, and needs none.        *)

\* A block is out of the transmit port before the engine has the next one.
DrainInTime ==
  /\ eng_out # None => dr_state = "D_IDLE"
  /\ out_left \in 0..BlockWords
  /\ dr_state = "D_WRITE" =>
       /\ eng_owned
       /\ eng_in # None => out_left < BlockWords
       /\ eng_state = "S_ENC" => out_left < eng_timer

TimedInv == EngineInv /\ DrainInTime

LEMMA InitTimed == Init => TimedInv
BY InitEngine, BlockWordsAssumption DEF Init, TimedInv, DrainInTime

\* While the engine owes something, DRAIN is writing or waiting for it.
LEMMA LiveDrain ==
  ASSUME EngineInv, Live
  PROVE  /\ dr_state \in {"D_IDLE", "D_WRITE"}
         /\ dcur_valid => DrainOwns /\ dcur.crypto
<1>1. /\ NothingAhead /\ EngineWorks /\ ControlTypeOK /\ EngineOwned /\ TokenStates
  BY DEF EngineInv, ProcInv, TokenInv
<1>2. eng_owned /\ dr_state # "D_CLEAR"
  BY <1>1 DEF EngineWorks, NothingAhead
<1>3. dcur_valid => DrainOwns
  BY <1>1, <1>2 DEF EngineOwned, NothingAhead
<1> QED BY <1>1, <1>2, <1>3 DEF EngineWorks, TokenStates, ControlTypeOK

LEMMA NextTimed == ASSUME TimedInv, Next PROVE TimedInv'
<1>1. /\ EngineInv /\ EngineTypes /\ EngineWorks /\ ControlTypeOK /\ TokenStates /\ DrainInTime
      /\ DRAIN /\ ENGINE /\ PROC /\ eng_timer \in Nat /\ DOMAIN eng_msg = DOMAIN NoTag
  BY DEF TimedInv, EngineInv, ProcInv, TokenInv, Next, EngineTypes
<1>2. ASSUME eng_out' # None PROVE dr_state' = "D_IDLE"
  <2>1. eng_state = "S_ENC" /\ eng_timer <= 1 /\ Live /\ eng_out = None /\ ~done.seen
    BY <1>1, <1>2, EngineMoves DEF EngineWorks, Live
  <2>2. CASE dr_state = "D_WRITE"
    <3>1. out_left = 0
      BY <1>1, <2>1, <2>2 DEF DrainInTime
    <3> QED BY <1>1, <2>2, <3>1 DEF DRAIN, DCatch, DTake, DResult, DIdle, DWrite, DFin, DCheck,
                                    DPublish, DClear
  <2>3. CASE dr_state = "D_IDLE"
    <3>1. ~HasResult
      BY <1>1, <2>1, LiveDrain DEF HasResult
    <3> QED BY <1>1, <2>1, <2>3, <3>1 DEF DRAIN, DCatch, DTake, DResult, DIdle, DWrite, DFin,
                                          DCheck, DPublish, DClear
  <2> QED BY <1>1, <2>1, <2>2, <2>3, LiveDrain
<1>3. out_left' \in 0..BlockWords
  BY <1>1, BlockWordsAssumption DEF DRAIN, DCatch, DTake, DResult, DIdle, DWrite, DFin, DCheck,
       DPublish, DClear, DrainInTime
<1>4. ASSUME dr_state' = "D_WRITE"
      PROVE  /\ eng_owned'
             /\ eng_in' # None => out_left' < BlockWords
             /\ eng_state' = "S_ENC" => out_left' < eng_timer'
  <2>1. \/ DCatch /\ eng_out # None
        \/ dr_state = "D_WRITE" /\ out_left > 0 /\ out_left' = out_left - 1
    BY <1>1, <1>4 DEF DRAIN, DCatch, DTake, DResult, DIdle, DWrite, DFin, DCheck,
                      DPublish, DClear
  <2>2. CASE DCatch /\ eng_out # None
    <3>1. eng_state = "S_WAITBUF" /\ Live
      BY <1>1, <2>2 DEF EngineWorks, Live
    <3>2. eng_state' # "S_ENC"
      BY <1>1, <3>1, EngineMoves
    <3>3. eng_in' = None
      BY <1>1, <3>1, ProcTokenStep DEF eng_in_ready
    <3>4. eng_owned'
      BY <1>1, <3>1, LiveSteps
    <3> QED BY <3>2, <3>3, <3>4
  <2>3. CASE dr_state = "D_WRITE" /\ out_left > 0 /\ out_left' = out_left - 1
    <3>1. out_left \in 1..BlockWords
      BY <1>1, <2>3 DEF DrainInTime
    <3>2. eng_owned'
      BY <1>1, <2>3, TokenMoves DEF EngineInv, DrainInTime
    <3>3. out_left' < BlockWords
      BY <2>3, <3>1, BlockWordsAssumption
    <3>4. ASSUME eng_state' = "S_ENC" PROVE out_left' < eng_timer'
      <4>1. CASE eng_state = "S_ENC" /\ eng_timer > 1 /\ eng_timer' = eng_timer - 1
        <5>1. out_left < eng_timer
          BY <1>1, <2>3, <4>1 DEF DrainInTime
        <5> QED BY <1>1, <2>3, <3>1, <4>1, <5>1
      <4>2. CASE eng_in # None /\ eng_timer' = EncCycles
        <5>1. out_left < BlockWords
          BY <1>1, <2>3, <4>2 DEF DrainInTime
        <5> QED BY <2>3, <3>1, <4>2, <5>1, TimingAssumption, BlockWordsAssumption
      <4> QED BY <1>1, <3>4, <4>1, <4>2, EngineMoves
    <3> QED BY <3>2, <3>3, <3>4
  <2> QED BY <2>1, <2>2, <2>3
<1> QED BY <1>2, <1>3, <1>4, NextEngine DEF TimedInv, DrainInTime, None

LEMMA StutterTimed == ASSUME TimedInv, UNCHANGED vars PROVE TimedInv'
<1>1. EngineInv'
  BY StutterEngine DEF TimedInv
<1>2. DrainInTime'
  BY DEF TimedInv, DrainInTime, eng_owned, None, vars, procVars, engVars, drainVars
<1> QED BY <1>1, <1>2 DEF TimedInv

\* Whatever block comes out, DRAIN is there to take it, and it is a block of
\* the packet holding the token: chacha20 needs at least as many edges for a
\* block as DRAIN does to write one, for every build that keeps that margin.
THEOREM DrainIsInTime == Spec => []DrainCatches
<1>1. TimedInv /\ [Next]_vars => TimedInv'
  BY NextTimed, StutterTimed
<1>2. TimedInv => DrainCatches
  BY DEF TimedInv, EngineInv, EngineWorks, DrainInTime, DrainCatches, BlocksOf
<1> QED BY <1>1, <1>2, InitTimed, PTL DEF Spec

-----------------------------------------------------------------------------
(* The descriptors: what DRAIN judges a packet on is the packet's own.      *)

Verified(p) == arrived[p].op = "open" => ReceivedTag(arrived, p) = TagOf(arrived, p)

\* d promises an engine result for its packet.
Promises(d) ==
  /\ d.engine
  /\ arrived[d.pid].op = "open" => d.tag = ReceivedTag(arrived, d.pid)

Descriptors ==
  /\ pd.len = 0
  /\ pd_valid => pd.pid \in DOMAIN arrived
  /\ dcur_valid => dcur.pid \in DOMAIN arrived
  /\ pd_valid /\ pd.crypto => Promises(pd) /\ pd.status = "OK"
  /\ dcur_valid /\ dcur.crypto =>
       /\ Promises(dcur)
       /\ dr_state # "D_PUBLISH" => dcur.status = "OK"
       /\ dr_state \in {"D_FIN", "D_CHECK"} => done.tag.nonce = dcur.pid
  /\ dr_state = "D_CHECK" => dcur.crypto

DescInv == TimedInv /\ Descriptors

LEMMA InitDesc == Init => DescInv
<1> SUFFICES ASSUME Init PROVE Descriptors
  BY InitTimed DEF DescInv
<1>1. pd.len = 0 /\ ~pd_valid /\ ~dcur_valid
  BY DEF Init, NoDesc, pd_valid
<1> QED BY <1>1 DEF Init, Descriptors

\* A tag under the packet's own nonce is the packet's own tag.
LEMMA OwnNonceOwnTag ==
  ASSUME Arrivals, NEW p \in DOMAIN arrived, ReceivedTag(arrived, p).nonce = p
  PROVE  ReceivedTag(arrived, p) = TagOf(arrived, p)
<1>1. p \in Nat /\ p > 0
  BY RequestFields
<1>2. \A m : TagOf(arrived, m).nonce = m
  BY DEF TagOf
<1>3. NoTag.nonce = 0
  BY DEF NoTag
<1>4. \/ ReceivedTag(arrived, p) = TagOf(arrived, p)
      \/ ReceivedTag(arrived, p) = TagOf(arrived, p - 1)
      \/ ReceivedTag(arrived, p) = NoTag
  BY DEF ReceivedTag
<1>5. ReceivedTag(arrived, p) # TagOf(arrived, p - 1)
  <2>1. TagOf(arrived, p - 1).nonce = p - 1 /\ p - 1 # p
    BY <1>1, <1>2
  <2> QED BY <2>1
<1> QED BY <1>1, <1>3, <1>4, <1>5

\* What is known of a packet stays when later ones arrive.
LEMMA PacketStays ==
  ASSUME Arrivals, Extends(arrived, arrived'), NEW p \in DOMAIN arrived
  PROVE  /\ p \in DOMAIN arrived' /\ arrived'[p] = arrived[p]
         /\ ReceivedTag(arrived', p) = ReceivedTag(arrived, p)
         /\ Verified(p) => Verified(p)'
<1>1. ReceivedTag(arrived', p) = ReceivedTag(arrived, p) /\ TagOf(arrived', p) = TagOf(arrived, p)
  BY TagsSettled DEF Arrivals
<1> QED BY <1>1 DEF Extends, Verified

\* The descriptor of the packet PROC is at the end of.
LEMMA NewDescriptor ==
  ASSUME ProcInv, EngineTypes, pr_state = "P_ENDREQ"
  PROVE  /\ Descriptor.pid = pr.req /\ pr.req \in DOMAIN arrived /\ Descriptor.len = 0
         /\ Descriptor.crypto => Promises(Descriptor) /\ Descriptor.status = "OK"
<1>1. Fetched /\ Submitted /\ Arrivals
  BY DEF ProcInv, RxInv
<1>2. pr.req \in DOMAIN arrived /\ pr.req # 0
  BY <1>1, RequestFields DEF Fetched, OnPacket, Frame
<1>3. Descriptor.pid = pr.req /\ Descriptor.len = 0
  BY DEF Descriptor
<1>4. ASSUME Descriptor.crypto PROVE Promises(Descriptor) /\ Descriptor.status = "OK"
  <2>1. crypto_cmd /\ ~eng_err
    <3>1. Descriptor.crypto = AwaitsResult
      BY DEF Descriptor
    <3> QED BY <1>4, <3>1 DEF AwaitsResult
  <2>2. pr.status = "OK" /\ pr.args = pr.req
    BY <1>1, <2>1 DEF Submitted, Accepted
  <2>3. Descriptor.status = "OK" /\ Descriptor.engine
    BY <2>1, <2>2 DEF Descriptor, EngineFailed
  <2>4. arrived[pr.req].op = "open" => Descriptor.tag = ReceivedTag(arrived, pr.req)
    BY <1>2, <2>2 DEF Descriptor
  <2> QED BY <1>3, <2>3, <2>4 DEF Promises
<1> QED BY <1>2, <1>3, <1>4

LEMMA NextDescriptors == ASSUME DescInv, Next PROVE Descriptors'
<1>1. /\ EngineInv /\ ProcInv /\ NothingAhead /\ EngineTypes /\ EngineWorks /\ ControlTypeOK
      /\ TokenStates /\ EngineOwned /\ Descriptors /\ PROC /\ DRAIN
      /\ Arrivals /\ Extends(arrived, arrived')
  BY ArrivedGrows DEF DescInv, TimedInv, EngineInv, ProcInv, TokenInv, RxInv, Next
<1>2. ASSUME NEW d, NEW e, d.pid \in DOMAIN arrived, Promises(d),
             e.pid = d.pid, e.engine = d.engine, e.tag = d.tag
      PROVE  e.engine /\ (arrived'[e.pid].op = "open" => e.tag = ReceivedTag(arrived', e.pid))
  BY <1>1, <1>2, PacketStays DEF Promises
\* PROC's side of the hand-off.
<1>3. /\ pd'.len = 0
      /\ pd_valid' => pd'.pid \in DOMAIN arrived'
      /\ pd_valid' /\ pd'.crypto => Promises(pd)' /\ pd'.status = "OK"
  <2>1. CASE pr_state = "P_ENDREQ" /\ pr_state' = "P_IDLE"
    <3>1. pd' = Descriptor
      BY <1>1, <2>1, EndReqStep
    <3>2. /\ pd'.pid \in DOMAIN arrived /\ pd'.len = 0
          /\ pd'.crypto => pd'.status = "OK" /\ Promises(pd')
      BY <1>1, <2>1, <3>1, NewDescriptor
    <3> QED BY <1>1, <1>2, <3>2, PacketStays DEF Promises
  <2>2. CASE ~(pr_state = "P_ENDREQ" /\ pr_state' = "P_IDLE")
    <3>1. pd' = pd /\ pd_put_par' = pd_put_par
      BY <1>1, <2>2, ProcTokenStep
    <3>2. pd_valid' => pd_valid
      BY <1>1, <3>1, DrainHands DEF pd_valid, ControlTypeOK, Flip, Bit
    <3> QED BY <1>1, <1>2, <3>1, <3>2, PacketStays DEF Descriptors, Promises
  <2> QED BY <2>1, <2>2
\* DRAIN's side.
<1>4. CASE DTake
  <2>1. /\ pd_valid /\ dcur' = pd /\ dr_state' = "D_IDLE"
    BY <1>4 DEF DTake
  <2> QED BY <1>1, <1>2, <1>3, <2>1, PacketStays DEF Descriptors, Promises
<1>5. CASE ~DTake
  <2>1. /\ dcur'.pid = dcur.pid /\ dcur'.crypto = dcur.crypto
        /\ dcur'.engine = dcur.engine /\ dcur'.tag = dcur.tag
        /\ dcur_valid' => dcur_valid
    BY <1>1, <1>5, DescStep, DrainHands
  <2>2. dcur_valid' => dcur'.pid \in DOMAIN arrived'
    BY <1>1, <2>1, PacketStays DEF Descriptors
  <2>3. dcur_valid' /\ dcur'.crypto => Promises(dcur)'
    BY <1>1, <1>2, <2>1 DEF Descriptors, Promises
  <2>4. dcur_valid' /\ dcur'.crypto /\ dr_state' # "D_PUBLISH" => dcur'.status = "OK"
    <3> SUFFICES ASSUME dcur_valid', dcur'.crypto, dr_state' # "D_PUBLISH"
                 PROVE  dcur'.status = "OK"
      OBVIOUS
    <3>1. dr_state # "D_PUBLISH"
      BY <1>1, <1>5 DEF DRAIN, DCatch, DResult, DIdle, DWrite, DFin, DCheck, DPublish, DClear
    <3>2. dcur' = dcur
      BY <1>1, <1>5 DEF DRAIN, DCatch, DResult, DIdle, DWrite, DFin, DCheck, DPublish, DClear
    <3> QED BY <1>1, <2>1, <3>1, <3>2 DEF Descriptors
  <2>5. ASSUME dcur_valid', dcur'.crypto, dr_state' \in {"D_FIN", "D_CHECK"}
        PROVE  done'.tag.nonce = dcur'.pid
    <3>1. dcur_valid /\ dcur.crypto /\ DrainOwns
      BY <1>1, <2>1, <2>5 DEF Descriptors, Promises, DrainOwns
    <3>2. DOMAIN done = {"seen", "tag", "to"} /\ done.seen \in BOOLEAN
      BY <1>1 DEF EngineTypes
    <3>3. DResult \/ DFin
      BY <1>1, <1>5, <2>5 DEF DRAIN, DCatch, DIdle, DWrite, DCheck, DPublish, DClear
    <3>4. CASE DResult
      <4>1. done.seen
        BY <3>1, <3>4 DEF DResult, HasResult
      <4>2. done.tag = eng_msg /\ ~eng_done /\ eng_msg.nonce = Owner
        BY <1>1, <4>1 DEF EngineWorks
      <4>3. Owner = dcur.pid
        BY <1>1, <3>1 DEF Owner, EngineOwned
      <4> QED BY <1>1, <2>1, <3>2, <4>2, <4>3, DoneStep
    <3>5. CASE DFin
      <4>1. dr_state = "D_FIN"
        BY <3>5 DEF DFin
      <4>2. ~eng_done
        BY <1>1, <3>1, <4>1 DEF EngineWorks, Live
      <4> QED BY <1>1, <2>1, <3>1, <3>2, <4>1, <4>2, DoneStep DEF Descriptors
    <3> QED BY <3>3, <3>4, <3>5
  <2>6. dr_state' = "D_CHECK" => dcur'.crypto
    BY <1>1, <1>5, <2>1 DEF DRAIN, DCatch, DResult, DIdle, DWrite, DFin, DCheck, DPublish, DClear
  <2> QED BY <1>3, <2>2, <2>3, <2>4, <2>5, <2>6 DEF Descriptors
<1> QED BY <1>4, <1>5

LEMMA NextDesc == ASSUME DescInv, Next PROVE DescInv'
BY NextTimed, NextDescriptors DEF DescInv

LEMMA StutterDesc == ASSUME DescInv, UNCHANGED vars PROVE DescInv'
<1>1. TimedInv'
  BY StutterTimed DEF DescInv
<1>2. Descriptors'
  BY DEF DescInv, Descriptors, Promises, pd_valid, vars, rxVars, procVars, drainVars
<1> QED BY <1>1, <1>2 DEF DescInv

-----------------------------------------------------------------------------
(* The bodies: only the owner's words reach the bank, and only a packet     *)
(* that has verified publishes any.                                         *)

OfPacket(words, p) == words \in Seq(BlocksOf(p))

TxBankHolds ==
  /\ tx_wr # None => dr_state = "D_WRITE" /\ tx_wr \in BlocksOf(Owner)
  /\ dr_state = "D_WRITE" => outblk \in BlocksOf(Owner)
  /\ dr_state \in {"D_FIN", "D_CHECK"} => ~tx_wr_clear
  /\ eng_owned => OfPacket(TxLanding, Owner)
  /\ ~eng_owned /\ dr_state # "D_CLEAR" => TxLanding = <<>>

\* The response to publish, and the response that was published.
BodyReady ==
  /\ dcur.len \in Nat
  /\ dr_state = "D_PUBLISH" /\ dcur.len > 0 =>
       /\ dcur.status = "OK" /\ dcur.engine /\ ~tx_wr_clear
       /\ dcur.len = tx_wr_count /\ Verified(dcur.pid)

BodyPublished ==
  /\ rsp.len \in Nat
  /\ rsp_pending /\ rsp.len > 0 =>
       /\ rsp.pid \in DOMAIN arrived /\ rsp.status = "OK" /\ Verified(rsp.pid)
       /\ rsp.len <= Len(txbuf[rsp.bank]) /\ OfPacket(txbuf[rsp.bank], rsp.pid)

BodyLeaves == ts_state = "T_STREAM" => Len(beats) <= rsp.len /\ OfPacket(beats, rsp.pid)

BodyInv == DescInv /\ TxBankHolds /\ BodyReady /\ BodyPublished /\ BodyLeaves

LEMMA InitBody == Init => BodyInv
<1> SUFFICES ASSUME Init PROVE TxBankHolds /\ BodyReady /\ BodyPublished /\ BodyLeaves
  BY InitDesc DEF BodyInv
<1>1. dcur.len = 0 /\ rsp.len = 0 /\ ~eng_owned /\ TxLanding = <<>>
  BY DEF Init, NoDesc, eng_owned, TxLanding, Written, None, Bank
<1> QED BY <1>1 DEF Init, TxBankHolds, BodyReady, BodyPublished, BodyLeaves

\* The invariants of the stages, and the steps they take, in one place.
LEMMA BodyFacts ==
  ASSUME BodyInv
  PROVE  /\ DescInv /\ EngineInv /\ ProcInv /\ RxInv /\ NothingAhead /\ EngineTypes /\ EngineWorks
         /\ ControlTypeOK /\ BanksInterlocked /\ TokenStates /\ EngineOwned /\ DrainInTime
         /\ Descriptors /\ TxBankHolds /\ BodyReady /\ BodyPublished /\ BodyLeaves /\ Arrivals
BY DEF BodyInv, DescInv, TimedInv, EngineInv, ProcInv, TokenInv, RxInv, BankInv

\* No word and no clear is on its way: the bank is as it will be.
LEMMA QuietBank ==
  ASSUME BodyInv, dr_state # "D_WRITE", ~tx_wr_clear
  PROVE  TxLanding = txbuf[tx_wr_bank]
BY BodyFacts DEF TxBankHolds, TxLanding, Written

LEMMA OwnerIsDrains ==
  ASSUME EngineOwned, DrainOwns
  PROVE  eng_owned /\ Owner = dcur.pid
BY DEF EngineOwned, Owner

\* DRAIN's port, one step on.
LEMMA TxPortStep ==
  ASSUME BodyInv, Next
  PROVE  /\ tx_wr' # None => /\ dr_state = "D_WRITE" /\ dr_state' = "D_WRITE"
                             /\ tx_wr' = outblk
         /\ dr_state' = "D_CLEAR" <=> tx_wr_bank' # tx_wr_bank
         /\ dr_state = "D_CLEAR" => tx_wr_clear' /\ dr_state' = "D_IDLE"
         /\ dr_state' \in {"D_FIN", "D_CHECK"} => ~tx_wr_clear'
         /\ tx_wr_bank' = tx_wr_bank =>
              TxLanding' = Written(TxLanding, tx_wr_clear', tx_wr', BufWords)
<1>1. DRAIN /\ BUF /\ ControlTypeOK /\ RxInv
  BY BodyFacts DEF Next
<1>2. tx_wr' # None => /\ dr_state = "D_WRITE" /\ dr_state' = "D_WRITE" /\ tx_wr' = outblk
  BY <1>1 DEF DRAIN, DCatch, DTake, DResult, DIdle, DWrite, DFin, DCheck, DPublish, DClear, DNoPulse
<1>3. dr_state' = "D_CLEAR" <=> tx_wr_bank' # tx_wr_bank
  BY <1>1, FlipBit DEF DRAIN, DCatch, DTake, DResult, DIdle, DWrite, DFin, DCheck, DPublish, DClear,
       DKeepRsp, ControlTypeOK, Bank, Bit
<1>4. /\ dr_state = "D_CLEAR" => tx_wr_clear' /\ dr_state' = "D_IDLE"
      /\ dr_state' \in {"D_FIN", "D_CHECK"} => ~tx_wr_clear'
  BY <1>1 DEF DRAIN, DCatch, DTake, DResult, DIdle, DWrite, DFin, DCheck, DPublish, DClear, DNoPulse
<1>5. tx_wr_bank' = tx_wr_bank => TxLanding' = Written(TxLanding, tx_wr_clear', tx_wr', BufWords)
  BY <1>1, Landing DEF TxLanding
<1> QED BY <1>2, <1>3, <1>4, <1>5

LEMMA NextTxBank == ASSUME BodyInv, Next PROVE TxBankHolds'
<1>1. /\ EngineInv /\ ProcInv /\ NothingAhead /\ EngineWorks /\ EngineOwned /\ TokenStates
      /\ DrainInTime /\ TxBankHolds /\ DRAIN /\ ControlTypeOK /\ NothingAhead' /\ EngineOwned'
  BY BodyFacts, NextNothingAhead, NextToken DEF Next, ProcInv, TokenInv
\* Nobody holds the engine: the bank stays, or is made, empty.
<1>2. ASSUME ~eng_owned, dr_state' # "D_CLEAR" PROVE TxLanding' = <<>>
  <2>1. dr_state # "D_WRITE"
    BY <1>1, <1>2 DEF DrainInTime
  <2>2. tx_wr' = None /\ tx_wr_bank' = tx_wr_bank
    BY <1>2, <2>1, TxPortStep
  <2>3. CASE dr_state = "D_CLEAR"
    BY <2>2, <2>3, TxPortStep DEF Written
  <2>4. CASE dr_state # "D_CLEAR"
    BY <1>1, <1>2, <2>2, <2>4, TxPortStep DEF TxBankHolds, Written
  <2> QED BY <2>3, <2>4
\* Somebody keeps it: what is written is his.
<1>3. ASSUME eng_owned, eng_owned' PROVE Owner' = Owner /\ OfPacket(TxLanding', Owner)
  <2>1. Owner' = Owner
    BY <1>1, <1>3, OwnerStays
  <2>2. dr_state' # "D_CLEAR" /\ tx_wr_bank' = tx_wr_bank
    BY <1>1, <1>3, TxPortStep DEF NothingAhead
  <2>3. OfPacket(TxLanding, Owner) /\ (tx_wr' # None => tx_wr' \in BlocksOf(Owner))
    BY <1>1, <1>3, TxPortStep DEF TxBankHolds
  <2>4. OfPacket(Written(TxLanding, tx_wr_clear', tx_wr', BufWords), Owner)
    BY <2>3 DEF OfPacket, Written
  <2> QED BY <2>1, <2>2, <2>4, TxPortStep
<1>4. ASSUME eng_owned' PROVE OfPacket(TxLanding', Owner')
  <2>1. CASE eng_owned
    BY <1>3, <1>4, <2>1
  <2>2. CASE ~eng_owned
    <3>1. dr_state' # "D_CLEAR"
      BY <1>1, <1>4 DEF NothingAhead
    <3>2. TxLanding' = <<>>
      BY <1>2, <2>2, <3>1
    <3>3. <<>> \in Seq(BlocksOf(Owner'))
      OBVIOUS
    <3> QED BY <3>2, <3>3 DEF OfPacket
  <2> QED BY <2>1, <2>2
<1>5. ~eng_owned' /\ dr_state' # "D_CLEAR" => TxLanding' = <<>>
  <2>1. eng_owned /\ ~eng_owned' => dr_state' = "D_CLEAR"
    BY <1>1, TokenMoves, DrainHands DEF DrainOwns, EngineOwned
  <2> QED BY <1>2, <2>1
<1>6. ASSUME dr_state' = "D_WRITE" PROVE outblk' \in BlocksOf(Owner')
  <2>1. \/ DCatch /\ outblk' = eng_out /\ eng_out # None
        \/ dr_state = "D_WRITE" /\ outblk' = outblk
    BY <1>1, <1>6 DEF DRAIN, DCatch, DTake, DResult, DIdle, DWrite, DFin, DCheck, DPublish, DClear
  <2>2. CASE DCatch /\ outblk' = eng_out /\ eng_out # None
    BY <1>1, <2>2, LiveSteps DEF Live, EngineWorks
  <2>3. CASE dr_state = "D_WRITE" /\ outblk' = outblk
    <3>1. eng_owned /\ eng_owned'
      BY <1>1, <2>3, TokenMoves DEF DrainInTime
    <3> QED BY <1>1, <1>3, <2>3, <3>1 DEF TxBankHolds
  <2> QED BY <2>1, <2>2, <2>3
<1>7. tx_wr' # None => dr_state' = "D_WRITE" /\ tx_wr' \in BlocksOf(Owner')
  <2>1. ASSUME tx_wr' # None PROVE tx_wr' \in BlocksOf(Owner')
    <3>1. dr_state = "D_WRITE" /\ tx_wr' = outblk
      BY <2>1, TxPortStep
    <3>2. eng_owned /\ eng_owned'
      BY <1>1, <3>1, TokenMoves DEF DrainInTime
    <3> QED BY <1>1, <1>3, <3>1, <3>2 DEF TxBankHolds
  <2> QED BY <2>1, TxPortStep
<1> QED BY <1>4, <1>5, <1>6, <1>7, TxPortStep DEF TxBankHolds, None, OfPacket, BlocksOf

LEMMA NextBodyReady == ASSUME BodyInv, Next PROVE BodyReady'
<1>1. /\ ControlTypeOK /\ Descriptors /\ EngineOwned /\ TokenStates /\ BodyReady /\ TxBankHolds
      /\ EngineTypes /\ DRAIN /\ BUF /\ RxInv /\ Arrivals /\ Extends(arrived, arrived')
  BY BodyFacts, ArrivedGrows DEF Next
<1>2. ASSUME dr_state \in {"D_FIN", "D_CHECK", "D_PUBLISH"}, ~tx_wr_clear, tx_wr_bank' = tx_wr_bank
      PROVE  tx_wr_count' = tx_wr_count
  BY <1>1, <1>2, QuietBank, Landing DEF tx_wr_count
<1>3. dcur'.len \in Nat /\ DOMAIN dcur = DescFields
  <2>1. DOMAIN dcur = DescFields /\ dcur.len \in Nat /\ pd.len = 0
    BY <1>1 DEF ControlTypeOK, BodyReady, Descriptors
  <2>2. ASSUME ~tx_wr_clear, dr_state \in {"D_FIN", "D_CHECK"} PROVE tx_wr_count \in Nat
    <3>1. TxLanding = txbuf[tx_wr_bank]
      BY <2>2, QuietBank
    <3>2. CASE eng_owned
      <4>1. TxLanding \in Seq(BlocksOf(Owner))
        BY <1>1, <3>2 DEF TxBankHolds, OfPacket
      <4> QED BY <3>1, <4>1 DEF tx_wr_count
    <3>3. CASE ~eng_owned
      BY <1>1, <2>2, <3>1, <3>3 DEF TxBankHolds, tx_wr_count
    <3> QED BY <3>2, <3>3
  <2>3. CASE DFin \/ DCheck
    <3>1. tx_wr_count \in Nat
      BY <1>1, <2>2, <2>3 DEF TxBankHolds, DFin, DCheck
    <3>2. ASSUME NEW n \in Nat
          PROVE  /\ [dcur EXCEPT !.len = n].len \in Nat
                 /\ [dcur EXCEPT !.status = "AUTH_FAIL", !.len = n].len \in Nat
      BY <2>1 DEF DescFields, NoDesc
    <3>3. \/ dcur' = dcur \/ dcur' = [dcur EXCEPT !.len = 0]
          \/ dcur' = [dcur EXCEPT !.len = tx_wr_count]
          \/ dcur' = [dcur EXCEPT !.status = "AUTH_FAIL", !.len = 0]
      BY <2>3 DEF DFin, DCheck
    <3> QED BY <2>1, <3>1, <3>2, <3>3
  <2>4. CASE ~DFin /\ ~DCheck
    BY <1>1, <2>1, <2>4 DEF DRAIN, DCatch, DTake, DResult, DIdle, DWrite, DPublish, DClear
  <2> QED BY <2>1, <2>3, <2>4
<1>4. CASE DFin
  <2>1. dcur_valid /\ dr_state = "D_FIN" /\ ~tx_wr_clear /\ tx_wr_bank' = tx_wr_bank
    BY <1>1, <1>4 DEF DFin, TokenStates, TxBankHolds, DKeepRsp
  <2> SUFFICES ASSUME dr_state' = "D_PUBLISH", dcur'.len > 0
               PROVE  BodyReady'
    BY <1>3 DEF BodyReady
  <2>2. /\ dcur.crypto /\ dcur.status = "OK" /\ op_of(dcur) # "open"
        /\ dcur' = [dcur EXCEPT !.len = tx_wr_count]
    BY <1>1, <1>3, <1>4 DEF DFin, DescFields, NoDesc
  <2>3. /\ dcur'.status = "OK" /\ dcur'.engine /\ dcur'.pid = dcur.pid /\ dcur'.len = tx_wr_count
    BY <1>1, <1>3, <2>1, <2>2 DEF Descriptors, Promises, DescFields, NoDesc
  <2>4. Verified(dcur.pid)'
    BY <1>1, <2>1, <2>2, <2>3, PacketStays DEF Descriptors, op_of, Verified
  <2> QED BY <1>2, <1>3, <1>4, <2>1, <2>3, <2>4 DEF BodyReady, DFin, DNoPulse
<1>5. CASE DCheck
  <2>1. /\ dcur_valid /\ dr_state = "D_CHECK" /\ dcur.crypto
        /\ ~tx_wr_clear /\ tx_wr_bank' = tx_wr_bank
    BY <1>1, <1>5 DEF DCheck, TokenStates, TxBankHolds, DKeepRsp, Descriptors
  <2> SUFFICES ASSUME dcur'.len > 0
               PROVE  BodyReady'
    BY <1>3 DEF BodyReady
  <2>2. tag_match /\ dcur' = [dcur EXCEPT !.len = tx_wr_count] /\ ~tx_wr_clear'
    <3> DEFINE failed == [dcur EXCEPT !.status = "AUTH_FAIL", !.len = 0]
    <3>1. failed.len = 0
      BY <1>3 DEF DescFields, NoDesc
    <3>2. ~tag_match => dcur' = failed
      BY <1>5 DEF DCheck
    <3> HIDE DEF failed
    <3>3. tag_match
      BY <3>1, <3>2
    <3> QED BY <1>5, <3>3 DEF DCheck
  <2>3. /\ dcur'.status = "OK" /\ dcur'.engine /\ dcur'.pid = dcur.pid /\ dcur'.len = tx_wr_count
    BY <1>1, <1>3, <2>1, <2>2 DEF Descriptors, Promises, DescFields, NoDesc
  <2>4. Verified(dcur.pid)
    <3>1. done.tag = dcur.tag /\ done.tag.nonce = dcur.pid /\ dcur.pid \in DOMAIN arrived
      BY <1>1, <2>1, <2>2 DEF Descriptors, tag_match
    <3> QED BY <1>1, <2>1, <3>1, OwnNonceOwnTag DEF Descriptors, Promises, Verified
  <2>5. Verified(dcur.pid)'
    BY <1>1, <2>1, <2>3, <2>4, PacketStays DEF Descriptors, Verified
  <2> QED BY <1>2, <1>3, <2>1, <2>2, <2>3, <2>5 DEF BodyReady
<1>6. CASE ~DFin /\ ~DCheck
  <2>1. CASE DTake
    BY <1>1, <1>3, <2>1 DEF DTake, BodyReady
  <2>2. CASE ~DTake
    <3> SUFFICES ASSUME dr_state' = "D_PUBLISH", dcur'.len > 0
                 PROVE  BodyReady'
      BY <1>3 DEF BodyReady
    <3>1. /\ dr_state = "D_PUBLISH" /\ dcur' = dcur /\ tx_wr_bank' = tx_wr_bank /\ ~tx_wr_clear'
      BY <1>1, <1>6, <2>2 DEF DRAIN, DCatch, DResult, DIdle, DWrite, DPublish, DClear,
           DNoPulse, DKeepRsp
    <3>2. /\ dcur.status = "OK" /\ dcur.engine /\ ~tx_wr_clear
          /\ dcur.len = tx_wr_count /\ Verified(dcur.pid) /\ dcur.pid \in DOMAIN arrived
      BY <1>1, <3>1 DEF BodyReady, Descriptors, TokenStates
    <3>3. Verified(dcur.pid)'
      BY <1>1, <3>1, <3>2, PacketStays DEF Verified
    <3> QED BY <1>2, <1>3, <3>1, <3>2, <3>3 DEF BodyReady
  <2> QED BY <2>1, <2>2
<1> QED BY <1>4, <1>5, <1>6

\* DRAIN either publishes the packet it is on or leaves the response alone.
LEMMA PublishStep ==
  ASSUME DRAIN, ControlTypeOK
  PROVE  \/ /\ dr_state = "D_PUBLISH" /\ ~rsp_pending /\ tx_wr_bank' = Flip(tx_wr_bank)
            /\ rsp'.pid = dcur.pid /\ rsp'.status = dcur.status /\ rsp'.len = dcur.len
            /\ rsp'.bank = tx_wr_bank
         \/ rsp' = rsp /\ rsp_pub_par' = rsp_pub_par
<1>1. CASE DPublish /\ MayPublish
  <2> DEFINE r == [pid |-> dcur.pid, status |-> dcur.status, extra |-> DExtra,
                   len |-> dcur.len, bank |-> tx_wr_bank]
  <2>1. r.pid = dcur.pid /\ r.status = dcur.status /\ r.len = dcur.len /\ r.bank = tx_wr_bank
    OBVIOUS
  <2>2. /\ rsp' = r /\ dr_state = "D_PUBLISH" /\ tx_wr_bank' = Flip(tx_wr_bank)
        /\ ~rsp_pending
    BY <1>1 DEF DPublish, MayPublish
  <2> HIDE DEF r
  <2> QED BY <2>1, <2>2
<1>2. CASE ~(DPublish /\ MayPublish)
  BY <1>2 DEF DRAIN, DCatch, DTake, DResult, DIdle, DWrite, DFin, DCheck, DPublish, DClear, DKeepRsp
<1> QED BY <1>1, <1>2

\* Nothing moves under a response that is published.
LEMMA PublishedStays ==
  ASSUME BodyInv, Next, rsp_pending
  PROVE  /\ rsp' = rsp /\ rsp_pub_par' = rsp_pub_par /\ rsp.bank \in Bank
         /\ txbuf'[rsp.bank] = txbuf[rsp.bank]
<1>1. /\ ControlTypeOK /\ BanksInterlocked /\ DRAIN /\ BUF /\ RxInv
  BY BodyFacts DEF Next
<1>2. rsp.bank \in Bank /\ rsp.bank # tx_wr_bank
  BY <1>1, FlipBit DEF BanksInterlocked, ControlTypeOK, Bank, Bit
<1> QED BY <1>1, <1>2, PublishStep, BufStep

LEMMA NextBodyPublished == ASSUME BodyInv, Next PROVE BodyPublished'
<1>1. /\ ControlTypeOK /\ Descriptors /\ EngineOwned /\ TokenStates /\ BanksInterlocked
      /\ BodyReady /\ BodyPublished /\ TxBankHolds /\ DRAIN /\ TX /\ BUF /\ RxInv
      /\ Arrivals /\ Extends(arrived, arrived')
  BY BodyFacts, ArrivedGrows DEF Next
<1>2. CASE /\ dr_state = "D_PUBLISH" /\ tx_wr_bank' = Flip(tx_wr_bank)
           /\ rsp'.pid = dcur.pid /\ rsp'.status = dcur.status /\ rsp'.len = dcur.len
           /\ rsp'.bank = tx_wr_bank
  <2>1. rsp'.len \in Nat
    BY <1>1, <1>2 DEF BodyReady
  <2> SUFFICES ASSUME rsp'.len > 0 PROVE BodyPublished'
    BY <2>1 DEF BodyPublished
  <2>2. /\ dcur.status = "OK" /\ dcur.engine /\ ~tx_wr_clear /\ dcur_valid
        /\ dcur.len = tx_wr_count /\ Verified(dcur.pid) /\ dcur.pid \in DOMAIN arrived
    BY <1>1, <1>2 DEF BodyReady, Descriptors, TokenStates
  <2>3. rsp'.pid \in DOMAIN arrived'
    BY <1>1, <1>2, <2>2, PacketStays
  <2>4. Verified(rsp.pid)'
    BY <1>1, <1>2, <2>2, PacketStays DEF Verified
  <2>5. TxLanding = txbuf[tx_wr_bank] /\ OfPacket(TxLanding, dcur.pid)
    BY <1>1, <1>2, <2>2, QuietBank, OwnerIsDrains DEF TxBankHolds, DrainOwns
  <2>6. txbuf'[rsp'.bank] = txbuf[tx_wr_bank]
    BY <1>1, <1>2, <2>5, Landing
  <2>7. OfPacket(txbuf'[rsp'.bank], rsp'.pid) /\ rsp'.len <= Len(txbuf'[rsp'.bank])
    BY <1>2, <2>2, <2>5, <2>6 DEF tx_wr_count, OfPacket
  <2> QED BY <1>2, <2>1, <2>2, <2>3, <2>4, <2>7 DEF BodyPublished, OfPacket
<1>3. CASE rsp' = rsp /\ rsp_pub_par' = rsp_pub_par
  <2>1. rsp_pending' => rsp_pending
    BY <1>1, <1>3, TxStep DEF rsp_pending, BanksInterlocked, ControlTypeOK
  <2>2. rsp_pending => txbuf'[rsp.bank] = txbuf[rsp.bank]
    BY PublishedStays
  <2>3. rsp.pid \in DOMAIN arrived /\ Verified(rsp.pid) =>
          rsp.pid \in DOMAIN arrived' /\ Verified(rsp.pid)'
    BY <1>1, <1>3, PacketStays DEF Verified
  <2> QED BY <1>1, <1>3, <2>1, <2>2, <2>3 DEF BodyPublished, OfPacket
<1> QED BY <1>1, <1>2, <1>3, PublishStep

LEMMA NextBodyLeaves == ASSUME BodyInv, Next PROVE BodyLeaves'
<1>1. /\ BanksInterlocked /\ BodyPublished /\ BodyLeaves /\ TX
  BY BodyFacts DEF Next
<1>2. CASE TStart
  <2>1. ts_state' = "T_STREAM" => rsp_pending /\ beats' = <<>>
    BY <1>2 DEF TStart
  <2>2. <<>> \in Seq(BlocksOf(rsp'.pid)) /\ Len(<<>>) = 0
    OBVIOUS
  <2> QED BY <1>1, <2>1, <2>2, PublishedStays DEF BodyLeaves, OfPacket, BodyPublished
<1>3. CASE ts_state = "T_STREAM" /\ beats' = beats
  <2>1. rsp' = rsp
    BY <1>1, <1>3, PublishedStays DEF BanksInterlocked
  <2> QED BY <1>1, <1>3, <2>1 DEF BodyLeaves, OfPacket
<1>4. CASE TWord
  <2>1. ts_state = "T_STREAM" /\ Len(beats) < rsp.len /\ rsp_pending /\ rsp' = rsp
    BY <1>1, <1>4, PublishedStays DEF TWord, BanksInterlocked
  <2>2. beats \in Seq(BlocksOf(rsp.pid)) /\ Len(beats) \in Nat /\ rsp.len \in Nat
    BY <1>1, <2>1 DEF BodyLeaves, OfPacket, BodyPublished
  <2> DEFINE bank == txbuf[rsp.bank]
             k == Len(beats) + 1
  <2>3. bank \in Seq(BlocksOf(rsp.pid)) /\ k \in 1..Len(bank)
    BY <1>1, <2>1, <2>2 DEF BodyPublished, OfPacket
  <2>4. beats' = Append(beats, bank[k])
    BY <1>4, <2>3 DEF TWord
  <2>5. bank[k] \in BlocksOf(rsp.pid)
    BY <2>3
  <2> HIDE DEF bank
  <2>6. beats' \in Seq(BlocksOf(rsp.pid)) /\ Len(beats') = k
    BY <2>2, <2>4, <2>5
  <2> QED BY <2>1, <2>2, <2>6 DEF BodyLeaves, OfPacket
<1>5. CASE TLast
  BY <1>5 DEF TLast, BodyLeaves
<1> QED BY <1>1, <1>2, <1>3, <1>4, <1>5 DEF TX, TWaits, txVars

LEMMA NextBody == ASSUME BodyInv, Next PROVE BodyInv'
BY NextDesc, NextTxBank, NextBodyReady, NextBodyPublished, NextBodyLeaves DEF BodyInv

LEMMA StutterBody == ASSUME BodyInv, UNCHANGED vars PROVE BodyInv'
<1>1. DescInv'
  BY StutterDesc DEF BodyInv
<1>2. UNCHANGED <<Owner, TxLanding>> /\ (eng_owned' <=> eng_owned) /\ (rsp_pending' <=> rsp_pending)
  BY DEF Owner, ProcOwns, PdOwns, pd_valid, TxLanding, eng_owned, rsp_pending,
         vars, procVars, bufVars, drainVars, txVars
<1>3. TxBankHolds'
  BY <1>2 DEF BodyInv, TxBankHolds, OfPacket, vars, drainVars
<1>4. BodyReady' /\ BodyPublished' /\ BodyLeaves'
  BY <1>2 DEF BodyInv, BodyReady, BodyPublished, BodyLeaves, OfPacket, Verified, tx_wr_count,
         vars, rxVars, bufVars, drainVars, txVars
<1> QED BY <1>1, <1>3, <1>4 DEF BodyInv

\* No word of a body belongs to another packet than the response names, and
\* an open has words to send only if the tag it brought is the tag of what
\* it brought: D_CHECK is passed by no packet on another packet's result.
THEOREM BodiesAreVerified == Spec => []OnlyVerifiedBytesLeave
<1>1. BodyInv /\ [Next]_vars => BodyInv'
  BY NextBody, StutterBody
<1>2. ASSUME BodyInv PROVE OnlyVerifiedBytesLeave
  <2> SUFFICES ASSUME ts_state = "T_STREAM", NEW k \in DOMAIN beats
               PROVE  /\ beats[k][1] = rsp.pid /\ rsp.status = "OK"
                      /\ arrived[rsp.pid].op = "open" =>
                           ReceivedTag(arrived, rsp.pid) = TagOf(arrived, rsp.pid)
    BY DEF OnlyVerifiedBytesLeave
  <2>1. beats \in Seq(BlocksOf(rsp.pid)) /\ Len(beats) <= rsp.len /\ rsp.len \in Nat /\ rsp_pending
    BY <1>2, BodyFacts DEF BodyLeaves, OfPacket, BodyPublished, BanksInterlocked
  <2>2. beats[k] \in BlocksOf(rsp.pid) /\ rsp.len > 0
    BY <2>1
  <2>3. rsp.status = "OK" /\ Verified(rsp.pid)
    BY <1>2, <2>1, <2>2, BodyFacts DEF BodyPublished
  <2> QED BY <2>2, <2>3 DEF BlocksOf, Verified
<1> QED BY <1>1, <1>2, InitBody, PTL DEF Spec

-----------------------------------------------------------------------------
(* The pipeline as a server: the second part.                              *)

-----------------------------------------------------------------------------
(* What a step of PROC does to its registers.                              *)

Lengths == {"lens_bad", "lens_blocks"}
SameBut(fields, p, q) == \A f \in DOMAIN ProcReset \ (fields \cup Lengths) : q[f] = p[f]

LEMMA Judgement ==
  ASSUME NEW p, DOMAIN p = DOMAIN ProcReset
  PROVE  LET q == JudgeLengths(p)
         IN  /\ DOMAIN q = DOMAIN ProcReset /\ SameBut({}, p, q)
             /\ q.lens_blocks = IF pr.lens = 0 THEN 1 ELSE NumBlocks(arrived[pr.lens])
BY DEF JudgeLengths, ProcReset, SameBut, Lengths

LEMMA SameTwice ==
  ASSUME NEW X, NEW p, NEW q, NEW r, SameBut(X, p, q), SameBut({}, q, r)
  PROVE  SameBut(X, p, r)
BY DEF SameBut

\* The registers after a refusal.
LEMMA Refusal ==
  ASSUME NEW p, NEW X, DOMAIN p = DOMAIN ProcReset, SameBut(X, pr, p),
         NEW status, Refuse(p, status)
  PROVE  /\ DOMAIN pr' = DOMAIN ProcReset /\ SameBut(X \cup {"status"}, pr, pr')
         /\ pr'.status = status /\ pr_state' = "P_ENDREQ"
         /\ pr'.rx = p.rx /\ pr'.drop = p.drop /\ pr'.req = p.req /\ pr'.len = p.len
<1> DEFINE q == [p EXCEPT !.status = status]
<1>1. /\ DOMAIN q = DOMAIN ProcReset /\ q.status = status /\ SameBut(X \cup {"status"}, pr, q)
      /\ q.rx = p.rx /\ q.drop = p.drop /\ q.req = p.req /\ q.len = p.len
  BY DEF ProcReset, SameBut
<1>2. pr' = JudgeLengths(q) /\ pr_state' = "P_ENDREQ"
  BY DEF Refuse
<1> HIDE DEF q
<1>3. DOMAIN pr' = DOMAIN ProcReset /\ SameBut({}, q, pr')
  BY <1>1, <1>2, Judgement
<1>4. SameBut(X \cup {"status"}, pr, pr')
  BY <1>1, <1>3, SameTwice
<1>5. /\ pr'.status = q.status /\ pr'.rx = q.rx /\ pr'.drop = q.drop
      /\ pr'.req = q.req /\ pr'.len = q.len
  BY <1>3 DEF SameBut, ProcReset, Lengths
<1> QED BY <1>1, <1>2, <1>3, <1>4, <1>5

LEMMA QuietStep ==
  ASSUME DOMAIN pr = DOMAIN ProcReset, PIdle \/ PDrop \/ PPresent \/ PEndReq
  PROVE  DOMAIN pr' = DOMAIN ProcReset /\ SameBut({}, pr, pr')
BY Judgement DEF PIdle, PDrop, PPresent, PEndReq

LEMMA ParseStep ==
  ASSUME DOMAIN pr = DOMAIN ProcReset, PParse
  PROVE  DOMAIN pr' = DOMAIN ProcReset /\ SameBut({"hdr"}, pr, pr')
<1> DEFINE q == [pr EXCEPT !.hdr = IF rd_cnt = 3 THEN PidAt(1) ELSE @]
<1>1. DOMAIN q = DOMAIN ProcReset /\ SameBut({"hdr"}, pr, q)
  BY DEF ProcReset, SameBut
<1>2. pr' = JudgeLengths(q)
  BY DEF PParse
<1> HIDE DEF q
<1> QED BY <1>1, <1>2, Judgement, SameTwice

LEMMA ArgsReadStep ==
  ASSUME DOMAIN pr = DOMAIN ProcReset, PArgsRead
  PROVE  DOMAIN pr' = DOMAIN ProcReset /\ SameBut({"args", "lens"}, pr, pr')
<1> DEFINE q == [pr EXCEPT !.args = IF rd_cnt = 3 THEN PidAt(2) ELSE @,
                           !.lens = IF rd_cnt = 4 THEN PidAt(2) ELSE @]
<1>1. DOMAIN q = DOMAIN ProcReset /\ SameBut({"args", "lens"}, pr, q)
  BY DEF ProcReset, SameBut
<1>2. pr' = JudgeLengths(q)
  BY DEF PArgsRead
<1> HIDE DEF q
<1> QED BY <1>1, <1>2, Judgement, SameTwice

LEMMA FeedStep ==
  ASSUME DOMAIN pr = DOMAIN ProcReset, PFeed
  PROVE  DOMAIN pr' = DOMAIN ProcReset /\ SameBut({"blk"}, pr, pr')
<1> DEFINE B == IF BankWhole THEN Block(arrived[pr.req], pr.req, pr.i) ELSE <<0, 0>>
           q == [pr EXCEPT !.blk = B]
<1> HIDE DEF B
<1>1. DOMAIN q = DOMAIN ProcReset /\ SameBut({"blk"}, pr, q)
  BY DEF ProcReset, SameBut
<1>2. pr' = JudgeLengths(q)
  BY DEF PFeed, B
<1> HIDE DEF q
<1> QED BY <1>1, <1>2, Judgement, SameTwice

LEMMA NextBlkStep ==
  ASSUME DOMAIN pr = DOMAIN ProcReset, PNextBlk
  PROVE  /\ DOMAIN pr' = DOMAIN ProcReset /\ SameBut({"i"}, pr, pr')
         /\ pr'.i = IF pr.i = pr.n THEN pr.i ELSE pr.i + 1
<1> DEFINE I == IF pr.i = pr.n THEN pr.i ELSE pr.i + 1
           q == [pr EXCEPT !.i = I]
<1>1. DOMAIN q = DOMAIN ProcReset /\ SameBut({"i"}, pr, q) /\ q.i = I
  BY DEF ProcReset, SameBut
<1>2. pr' = JudgeLengths(q)
  BY DEF PNextBlk
<1> HIDE DEF q
<1>3. pr'.i = q.i
  BY <1>1, <1>2, Judgement DEF SameBut, ProcReset, Lengths
<1> QED BY <1>1, <1>2, <1>3, Judgement, SameTwice

LEMMA StartStep ==
  ASSUME DOMAIN pr = DOMAIN ProcReset, PStart
  PROVE  /\ DOMAIN pr' = DOMAIN ProcReset /\ SameBut({"t0"}, pr, pr')
         /\ pr_state' = "P_FEED" => pr'.t0 = pr.req
<1> DEFINE q == [pr EXCEPT !.t0 = pr.req]
<1>1. DOMAIN q = DOMAIN ProcReset /\ SameBut({"t0"}, pr, q) /\ q.t0 = pr.req /\ SameBut({"t0"}, pr, pr)
  BY DEF ProcReset, SameBut
<1> HIDE DEF q
<1>2. CASE CanStart
  <2>1. pr' = JudgeLengths(q)
    BY <1>2 DEF PStart, q
  <2>2. pr'.t0 = q.t0
    BY <1>1, <2>1, Judgement DEF SameBut, ProcReset, Lengths
  <2> QED BY <1>1, <2>1, <2>2, Judgement, SameTwice
<1>3. CASE ~CanStart
  <2>1. pr' = JudgeLengths(pr) /\ pr_state' = "P_START"
    BY <1>3 DEF PStart
  <2> QED BY <1>1, <2>1, Judgement, SameTwice
<1> QED BY <1>2, <1>3

LEMMA LoadKeyStep ==
  ASSUME DOMAIN pr = DOMAIN ProcReset, PLoadKey
  PROVE  /\ DOMAIN pr' = DOMAIN ProcReset /\ SameBut({"status"}, pr, pr')
         /\ pr'.status = "OK" /\ pr_state' = "P_ENDREQ"
<1>1. Refuse(pr, "OK") /\ SameBut({}, pr, pr)
  BY DEF PLoadKey, SameBut
<1>2. SameBut({} \cup {"status"}, pr, pr')
  BY <1>1, Refusal
<1> QED BY <1>1, <1>2, Refusal DEF SameBut

\* The parse of the header, and what it decides.
NoHeader == rx_rd_count > 0 => arrived[pr.hdr].hdr = "short"
HeadVerdict == IF keep_bad[rx_rd_bank] THEN "BAD_LENGTH" ELSE HeaderStatus(arrived[pr.hdr])
Unanswerable == NoHeader \/ HeadVerdict \in {"BAD_MAGIC", "BAD_VERSION", "BAD_OPCODE"}

LEMMA DispatchStep ==
  ASSUME DOMAIN pr = DOMAIN ProcReset, PDispatch
  PROVE  /\ DOMAIN pr' = DOMAIN ProcReset
         /\ SameBut({"req", "len", "rx", "drop", "status"}, pr, pr')
         /\ pr'.req = pr.hdr /\ pr'.len = rx_rd_count /\ pr'.rx = pr.rx + 1
         /\ pr'.drop = IF Unanswerable THEN pr.drop + 1 ELSE pr.drop
         /\ \/ NoHeader /\ pr_state' = "P_DROP"
            \/ /\ ~NoHeader /\ HeadVerdict # "OK"
               /\ pr_state' = "P_ENDREQ" /\ pr'.status = HeadVerdict
            \/ ~NoHeader /\ HeadVerdict = "OK" /\ pr_state' = "P_ARGS" /\ rd_cnt' = 1
<1> DEFINE D == IF Unanswerable THEN pr.drop + 1 ELSE pr.drop
           p == [pr EXCEPT !.req = pr.hdr, !.len = rx_rd_count, !.rx = @ + 1, !.drop = D]
           X == {"req", "len", "rx", "drop"}
<1>1. \/ NoHeader /\ pr' = JudgeLengths(p) /\ pr_state' = "P_DROP"
      \/ ~NoHeader /\ HeadVerdict # "OK" /\ Refuse(p, HeadVerdict)
      \/ ~NoHeader /\ HeadVerdict = "OK" /\ pr' = JudgeLengths(p) /\ pr_state' = "P_ARGS" /\ rd_cnt' = 1
  BY DEF PDispatch, NoHeader, HeadVerdict, Unanswerable
<1> HIDE DEF D
<1>2. /\ DOMAIN p = DOMAIN ProcReset /\ SameBut(X, pr, p)
      /\ p.req = pr.hdr /\ p.len = rx_rd_count /\ p.rx = pr.rx + 1 /\ p.drop = D
  BY DEF ProcReset, SameBut
<1> HIDE DEF p
<1>3. CASE pr' = JudgeLengths(p) /\ pr_state' # "P_ENDREQ"
  <2>1. DOMAIN pr' = DOMAIN ProcReset /\ SameBut({}, p, pr')
    BY <1>2, <1>3, Judgement
  <2>2. pr'.req = p.req /\ pr'.len = p.len /\ pr'.rx = p.rx /\ pr'.drop = p.drop
    BY <2>1 DEF SameBut, ProcReset, Lengths
  <2>3. SameBut(X \cup {"status"}, pr, pr')
    BY <1>2, <2>1 DEF SameBut
  <2>4. \/ NoHeader /\ pr_state' = "P_DROP"
        \/ ~NoHeader /\ HeadVerdict = "OK" /\ pr_state' = "P_ARGS" /\ rd_cnt' = 1
    BY <1>1, <1>3, Zenon DEF Refuse
  <2>5. X \cup {"status"} = {"req", "len", "rx", "drop", "status"}
    OBVIOUS
  <2> QED BY <1>2, <2>1, <2>2, <2>3, <2>4, <2>5 DEF D
<1>4. CASE ~NoHeader /\ HeadVerdict # "OK" /\ Refuse(p, HeadVerdict)
  <2>1. /\ DOMAIN pr' = DOMAIN ProcReset /\ SameBut(X \cup {"status"}, pr, pr')
        /\ pr'.status = HeadVerdict /\ pr_state' = "P_ENDREQ"
        /\ pr'.rx = p.rx /\ pr'.drop = p.drop /\ pr'.req = p.req /\ pr'.len = p.len
    BY <1>2, <1>4, Refusal
  <2>2. X \cup {"status"} = {"req", "len", "rx", "drop", "status"}
    OBVIOUS
  <2> QED BY <1>2, <1>4, <2>1, <2>2 DEF D
<1> QED BY <1>1, <1>3, <1>4

\* The parse of the arguments, and what it decides.
ArgsVerdict ==
  LET r == arrived[pr.req]
  IN  CASE r.op = "load" ->
             IF r.slot >= NumSlots THEN "BAD_SLOT" ELSE IF pr.len # 2 THEN "BAD_LENGTH" ELSE "OK"
        [] r.op = "stats" -> "OK"
        [] OTHER -> IF rd_key = 0 THEN "BAD_SLOT" ELSE IF pr.lens_bad THEN "BAD_LENGTH" ELSE "OK"

LEMMA ArgsStep ==
  ASSUME DOMAIN pr = DOMAIN ProcReset, PArgs
  PROVE  /\ DOMAIN pr' = DOMAIN ProcReset /\ SameBut({"status", "i", "n"}, pr, pr')
         /\ LET op == arrived[pr.req].op
            IN \/ /\ ArgsVerdict # "OK" \/ op = "stats"
                  /\ pr_state' = "P_ENDREQ" /\ pr'.status = ArgsVerdict
               \/ ArgsVerdict = "OK" /\ op = "load" /\ pr_state' = "P_LOADKEY"
               \/ /\ ArgsVerdict = "OK" /\ Crypto(arrived[pr.req]) /\ pr_state' = "P_START"
                  /\ eng_key' = rd_key /\ pr'.i = 1 /\ pr'.n = pr.lens_blocks
<1> DEFINE q == [pr EXCEPT !.status = "OK", !.i = 1, !.n = pr.lens_blocks]
<1>1. /\ DOMAIN q = DOMAIN ProcReset /\ SameBut({"status", "i", "n"}, pr, q) /\ SameBut({}, pr, pr)
      /\ q.i = 1 /\ q.n = pr.lens_blocks
  BY DEF ProcReset, SameBut
<1>2. LET op == arrived[pr.req].op
      IN \/ /\ ArgsVerdict # "OK" \/ op = "stats"
            /\ Refuse(pr, ArgsVerdict)
         \/ ArgsVerdict = "OK" /\ op = "load" /\ pr_state' = "P_LOADKEY" /\ pr' = JudgeLengths(pr)
         \/ /\ ArgsVerdict = "OK" /\ Crypto(arrived[pr.req]) /\ pr_state' = "P_START"
            /\ eng_key' = rd_key /\ pr' = JudgeLengths(q)
  BY DEF PArgs, ArgsVerdict
<1> HIDE DEF q
<1>3. ASSUME Refuse(pr, ArgsVerdict)
      PROVE  /\ DOMAIN pr' = DOMAIN ProcReset /\ SameBut({"status", "i", "n"}, pr, pr')
             /\ pr_state' = "P_ENDREQ" /\ pr'.status = ArgsVerdict
  <2>1. SameBut({} \cup {"status"}, pr, pr')
    BY <1>1, <1>3, Refusal
  <2> QED BY <1>1, <1>3, <2>1, Refusal DEF SameBut
<1>4. ASSUME pr' = JudgeLengths(pr)
      PROVE  DOMAIN pr' = DOMAIN ProcReset /\ SameBut({"status", "i", "n"}, pr, pr')
  BY <1>4, Judgement DEF SameBut
<1>5. ASSUME pr' = JudgeLengths(q)
      PROVE  /\ DOMAIN pr' = DOMAIN ProcReset /\ SameBut({"status", "i", "n"}, pr, pr')
             /\ pr'.i = 1 /\ pr'.n = pr.lens_blocks
  <2>1. DOMAIN pr' = DOMAIN ProcReset /\ SameBut({}, q, pr')
    BY <1>1, <1>5, Judgement
  <2>2. pr'.i = q.i /\ pr'.n = q.n
    BY <2>1 DEF SameBut, ProcReset, Lengths
  <2> QED BY <1>1, <2>1, <2>2, SameTwice
<1> QED BY <1>2, <1>3, <1>4, <1>5

-----------------------------------------------------------------------------
(* Packets come to PROC one after the other, and it counts them.           *)

\* The packet PROC is on is the one it counted last, until it gives its bank back.
InHand == OnPacket \/ pr_state = "P_DROP"
Freed == IF InHand THEN pr.rx - 1 ELSE pr.rx
Coming == IF src > 0 \/ rx_state = "R_LAST" THEN 1 ELSE 0
Full(b) == IF bank_full(b) THEN 1 ELSE 0
\* What bank b is known to hold: packet n, and whether its header had a gap.
Brings(b, n) == Frame(rxbuf[b], n) /\ (keep_bad[b] <=> arrived[n].hdr = "keep")

BanksInOrder ==
  /\ pr.rx \in Nat /\ (InHand => pr.rx > 0) /\ DOMAIN keep_bad = Bank
  /\ bank_full(rx_rd_bank) => Brings(rx_rd_bank, Freed + 1)
  /\ bank_full(Flip(rx_rd_bank)) =>
       bank_full(rx_rd_bank) /\ Brings(Flip(rx_rd_bank), Freed + 2)
  /\ Len(arrived) = Freed + Full(0) + Full(1) + Coming
  /\ rx_wr_bank = IF Full(0) = Full(1) THEN rx_rd_bank ELSE Flip(rx_rd_bank)
  /\ rx_state = "R_ACCEPT" /\ src = 0 => ~keep_bad[rx_wr_bank]
  /\ Coming = 1 => (keep_bad[rx_wr_bank] <=> arrived[Len(arrived)].hdr = "keep")

OrderInv == BodyInv /\ BanksInOrder

LEMMA InitOrder == Init => OrderInv
<1> SUFFICES ASSUME Init PROVE BanksInOrder
  BY InitBody DEF OrderInv
<1>1. /\ pr.rx = 0 /\ ~InHand /\ Coming = 0 /\ arrived = <<>> /\ rx_wr_bank = 0 /\ rx_rd_bank = 0
      /\ rx_state = "R_CLEAR" /\ DOMAIN keep_bad = Bank
  BY DEF Init, ProcReset, InHand, OnPacket, Coming
<1>2. ~bank_full(0) /\ ~bank_full(1) /\ Flip(0) = 1
  BY DEF Init, bank_full, Bank, Flip
<1> QED BY <1>1, <1>2 DEF BanksInOrder, Freed, Full

LEMMA ProcPacket ==
  ASSUME DOMAIN pr = DOMAIN ProcReset, pr.rx \in Nat, InHand => pr.rx > 0, PROC
  PROVE  /\ pr'.rx \in Nat /\ (InHand => pr.rx > 0)'
         /\ \/ free_par' = free_par /\ rx_rd_bank' = rx_rd_bank /\ Freed' = Freed
            \/ /\ InHand /\ ~InHand' /\ Freed' = Freed + 1
               /\ free_par' = [free_par EXCEPT ![rx_rd_bank] = Flip(@)]
               /\ rx_rd_bank' = Flip(rx_rd_bank)
<1> USE DEF InHand, OnPacket, Freed
<1>1. CASE PDispatch
  <2>1. pr'.rx = pr.rx + 1 /\ pr_state' \in {"P_DROP", "P_ENDREQ", "P_ARGS"}
    BY <1>1, DispatchStep
  <2>2. pr_state = "P_DISPATCH" /\ free_par' = free_par /\ rx_rd_bank' = rx_rd_bank
    BY <1>1 DEF PDispatch, ProcKeep
  <2> QED BY <2>1, <2>2
<1>2. CASE ~PDispatch
  <2>1. pr'.rx = pr.rx
    <3> DEFINE S(X) == SameBut(X, pr, pr') /\ "rx" \notin X
    <3>1. \E X : S(X)
      BY <1>2, QuietStep, ParseStep, ArgsReadStep, ArgsStep, LoadKeyStep, StartStep, FeedStep,
         NextBlkStep DEF PROC
    <3> QED BY <3>1 DEF SameBut, ProcReset, Lengths
  <2>2. CASE PIdle \/ PParse
    BY <2>1, <2>2 DEF PIdle, PParse, ProcKeep
  <2>3. CASE PArgsRead \/ PLoadKey \/ PStart \/ PFeed \/ PPresent \/ PNextBlk
    BY <2>1, <2>3 DEF PArgsRead, PLoadKey, Refuse, PStart, PFeed, PPresent, PNextBlk, ProcKeep
  <2>4. CASE PArgs
    <3>1. pr_state = "P_ARGS" /\ free_par' = free_par /\ rx_rd_bank' = rx_rd_bank
      BY <2>4 DEF PArgs, ProcKeep
    <3>2. pr_state' \in {"P_ENDREQ", "P_LOADKEY", "P_START"}
      BY <2>4, ArgsStep
    <3> QED BY <2>1, <3>1, <3>2
  <2>5. CASE PEndReq \/ PDrop
    BY <2>1, <2>5 DEF PEndReq, PDrop
  <2> QED BY <1>2, <2>2, <2>3, <2>4, <2>5 DEF PROC
<1> QED BY <1>1, <1>2

LEMMA BeatPacket ==
  ASSUME Arrivals, DOMAIN keep_bad = Bank, rx_wr_bank \in Bank,
         NEW a \in Seq(Requests), Len(a) > 0, TakeBeat(a),
         \/ src = 0 /\ ~keep_bad[rx_wr_bank]
         \/ src > 0 /\ (keep_bad[rx_wr_bank] <=> a[Len(a)].hdr = "keep")
  PROVE  /\ Coming' = 1 /\ DOMAIN keep_bad' = Bank
         /\ keep_bad'[rx_wr_bank] <=> a[Len(a)].hdr = "keep"
         /\ \A b \in Bank : b # rx_wr_bank => keep_bad'[b] = keep_bad[b]
<1> DEFINE r == a[Len(a)]
           b == src + 1
           last == b = r.beats + (IF r.nul THEN 1 ELSE 0)
<1>1. /\ src' = IF last THEN 0 ELSE b
      /\ rx_state' = IF last THEN "R_LAST" ELSE "R_ACCEPT"
      /\ keep_bad' = [keep_bad EXCEPT ![rx_wr_bank] = @ \/ (r.hdr = "keep" /\ b = 1 /\ ~last)]
  BY DEF TakeBeat
<1>2. r \in Requests /\ r.beats \in Nat /\ r.nul \in BOOLEAN /\ src \in Nat
  BY RequestsAssumption DEF RequestType, Arrivals
<1>3. src = 0 /\ r.hdr = "keep" => ~last
  BY <1>2, ShapesAssumption
<1>4. Coming' = 1
  BY <1>1, <1>2 DEF Coming
<1> HIDE DEF last, r
<1>5. keep_bad'[rx_wr_bank] <=> keep_bad[rx_wr_bank] \/ (r.hdr = "keep" /\ b = 1 /\ ~last)
  BY <1>1
<1>6. b = 1 <=> src = 0
  BY <1>2
<1>7. keep_bad'[rx_wr_bank] <=> r.hdr = "keep"
  <2>1. CASE src = 0
    BY <1>3, <1>5, <1>6, <2>1
  <2>2. CASE src # 0
    BY <1>2, <1>5, <1>6, <2>2 DEF r
  <2> QED BY <2>1, <2>2
<1> QED BY <1>1, <1>4, <1>7 DEF r

LEMMA RxPacket ==
  ASSUME OrderInv, RX
  PROVE  /\ DOMAIN keep_bad' = Bank
         /\ \A b \in Bank : bank_full(b) => keep_bad'[b] = keep_bad[b]
         /\ (rx_state = "R_ACCEPT" /\ src = 0)' => ~keep_bad'[rx_wr_bank']
         /\ Coming' = 1 => (keep_bad'[rx_wr_bank'] <=> arrived'[Len(arrived')].hdr = "keep")
         /\ \/ /\ rx_state = "R_LAST" /\ Coming = 1 /\ Coming' = 0
               /\ arrived' = arrived /\ keep_bad' = keep_bad
               /\ fill_par' = [fill_par EXCEPT ![rx_wr_bank] = Flip(@)]
               /\ rx_wr_bank' = Flip(rx_wr_bank)
            \/ /\ rx_state # "R_LAST" /\ fill_par' = fill_par /\ rx_wr_bank' = rx_wr_bank
               /\ Len(arrived') - Coming' = Len(arrived) - Coming
<1>1. /\ Arrivals /\ ControlTypeOK /\ BanksInterlocked /\ BanksInOrder /\ RxBankHolds
      /\ rx_wr_bank \in Bank /\ DOMAIN keep_bad = Bank
  BY BodyFacts DEF OrderInv, RxInv, BanksInOrder, ControlTypeOK
<1>2. Len(arrived) \in Nat /\ Coming \in {0, 1} /\ src \in Nat
  BY <1>1 DEF Arrivals, Coming
<1>3. CASE RxClear
  <2>1. src = 0 /\ Coming = 0 /\ ~bank_full(rx_wr_bank)
    BY <1>1, <1>2, <1>3 DEF RxClear, RxBankHolds, Coming, BanksInterlocked
  <2>2. /\ keep_bad' = [keep_bad EXCEPT ![rx_wr_bank] = FALSE] /\ rx_state' = "R_ACCEPT"
        /\ UNCHANGED <<arrived, src, rx_wr_bank, fill_par>> /\ rx_state # "R_LAST"
    BY <1>3 DEF RxClear
  <2>3. Coming' = 0
    BY <2>1, <2>2 DEF Coming
  <2>4. ~keep_bad'[rx_wr_bank'] /\ DOMAIN keep_bad' = Bank
    BY <1>1, <2>2
  <2>5. \A b \in Bank : bank_full(b) => keep_bad'[b] = keep_bad[b]
    BY <1>1, <2>1, <2>2
  <2>6. Coming' # 1 /\ Len(arrived') - Coming' = Len(arrived) - Coming
    BY <1>2, <2>1, <2>2, <2>3
  <2> QED BY <2>2, <2>4, <2>5, <2>6, Zenon
<1>4. CASE RxAccept
  <2>1. PICK a \in Seq(Requests) :
          /\ TakeBeat(a) /\ Len(a) > 0
          /\ \/ src = 0 /\ Len(a) = Len(arrived) + 1
             \/ src > 0 /\ a = arrived
    <3>1. CASE src = 0
      <4>1. PICK r \in Requests : TakeBeat(Append(arrived, r))
        BY <1>4, <3>1 DEF RxAccept
      <4>2. Append(arrived, r) \in Seq(Requests) /\ Len(Append(arrived, r)) = Len(arrived) + 1
        BY <1>1 DEF Arrivals
      <4>3. Len(Append(arrived, r)) > 0
        BY <1>2, <4>2
      <4> QED BY <3>1, <4>1, <4>2, <4>3, Zenon
    <3>2. CASE src > 0
      BY <1>1, <1>4, <3>2 DEF RxAccept, Arrivals, RxBankHolds
    <3> QED BY <1>2, <3>1, <3>2
  <2>2. /\ rx_state = "R_ACCEPT" /\ arrived' = a /\ ~bank_full(rx_wr_bank)
        /\ UNCHANGED <<rx_wr_bank, fill_par>>
    BY <1>1, <1>4, <2>1 DEF RxAccept, s_tready, TakeBeat, BanksInterlocked
  <2>3. Coming = IF src = 0 THEN 0 ELSE 1
    BY <1>2, <2>2 DEF Coming
  <2>4. \/ src = 0 /\ ~keep_bad[rx_wr_bank]
        \/ src > 0 /\ (keep_bad[rx_wr_bank] <=> a[Len(a)].hdr = "keep")
    BY <1>1, <1>2, <2>1, <2>2, <2>3 DEF BanksInOrder
  <2>5. /\ Coming' = 1 /\ DOMAIN keep_bad' = Bank
        /\ keep_bad'[rx_wr_bank] <=> a[Len(a)].hdr = "keep"
        /\ \A b \in Bank : b # rx_wr_bank => keep_bad'[b] = keep_bad[b]
    BY <1>1, <2>1, <2>4, BeatPacket
  <2>6. Len(arrived') - Coming' = Len(arrived) - Coming
    BY <1>2, <2>1, <2>2, <2>3, <2>5
  <2>7. ~(rx_state = "R_ACCEPT" /\ src = 0)'
    BY <1>2, <1>4, <2>1 DEF TakeBeat
  <2> QED BY <2>2, <2>5, <2>6, <2>7
<1>5. CASE RxIdle
  <2>1. UNCHANGED <<arrived, src, rx_state, rx_wr_bank, fill_par, keep_bad>> /\ rx_state = "R_ACCEPT"
    BY <1>5 DEF RxIdle
  <2>2. Coming' = Coming
    BY <2>1 DEF Coming
  <2> QED BY <1>1, <1>2, <2>1, <2>2 DEF BanksInOrder
<1>6. CASE RxLast
  <2>1. /\ rx_state = "R_LAST" /\ rx_state' = "R_WAIT" /\ src' = src
        /\ fill_par' = [fill_par EXCEPT ![rx_wr_bank] = Flip(@)] /\ rx_wr_bank' = Flip(rx_wr_bank)
        /\ arrived' = arrived /\ keep_bad' = keep_bad
    BY <1>6 DEF RxLast
  <2>2. src = 0
    BY <1>1, <1>2, <2>1 DEF RxBankHolds
  <2>3. Coming = 1 /\ Coming' = 0
    BY <2>1, <2>2 DEF Coming
  <2> QED BY <1>1, <2>1, <2>2, <2>3
<1>7. CASE RxWait
  <2>1. UNCHANGED <<arrived, src, rx_wr_bank, fill_par, keep_bad>> /\ rx_state = "R_WAIT"
        /\ rx_state' \in {"R_CLEAR", "R_WAIT"}
    BY <1>7 DEF RxWait
  <2>2. src = 0
    BY <1>1, <1>2, <2>1 DEF RxBankHolds
  <2>3. Coming = 0 /\ Coming' = 0
    BY <2>1, <2>2 DEF Coming
  <2> QED BY <1>1, <1>2, <2>1, <2>3
<1> QED BY <1>3, <1>4, <1>5, <1>6, <1>7 DEF RX

\* On every edge a full bank keeps what it brings, and the one RX gives away
\* brings the packet that arrived last.
LEMMA NextBrings ==
  ASSUME OrderInv, Next
  PROVE  /\ \A b \in Bank, n \in DOMAIN arrived : bank_full(b) /\ Brings(b, n) => Brings(b, n)'
         /\ \A b \in Bank, n \in DOMAIN arrived :
              rx_state = "R_LAST" /\ b = rx_wr_bank /\ n = Len(arrived) => Brings(b, n)'
<1>1. /\ ControlTypeOK /\ BanksInterlocked /\ RxInv /\ RxBankHolds /\ BanksInOrder
      /\ RX /\ BUF /\ Arrivals /\ Extends(arrived, arrived') /\ rx_wr_bank \in Bank
  BY BodyFacts, ArrivedGrows DEF OrderInv, RxInv, Next, ControlTypeOK
<1>2. ASSUME NEW n \in DOMAIN arrived, NEW b \in Bank, Frame(rxbuf'[b], n),
             keep_bad'[b] <=> arrived[n].hdr = "keep"
      PROVE  Brings(b, n)'
  BY <1>1, <1>2 DEF Brings, Frame, Extends, Holds
<1>3. ASSUME NEW b \in Bank, NEW n \in DOMAIN arrived, bank_full(b), Brings(b, n)
      PROVE  Brings(b, n)'
  <2>1. rxbuf'[b] = rxbuf[b]
    BY <1>1, <1>3, BufStep DEF BanksInterlocked
  <2>2. keep_bad'[b] = keep_bad[b]
    BY <1>1, <1>3, RxPacket
  <2> QED BY <1>2, <1>3, <2>1, <2>2 DEF Brings
<1>4. ASSUME NEW b \in Bank, NEW n \in DOMAIN arrived,
             rx_state = "R_LAST", b = rx_wr_bank, n = Len(arrived)
      PROVE  Brings(b, n)'
  <2>1. Frame(rxbuf'[b], n)
    BY <1>1, <1>4, Landing DEF RxBankHolds
  <2>2. Coming = 1 /\ keep_bad' = keep_bad
    BY <1>1, <1>4, RxPacket
  <2>3. keep_bad[b] <=> arrived[n].hdr = "keep"
    BY <1>1, <1>4, <2>2 DEF BanksInOrder
  <2> QED BY <1>2, <2>1, <2>2, <2>3
<1> QED BY <1>3, <1>4

\* Which banks are full after an edge.
LEMMA NextFull ==
  ASSUME OrderInv, RX, PROC
  PROVE  \A b \in Bank :
           bank_full(b)' <=> \/ rx_state = "R_LAST" /\ b = rx_wr_bank
                             \/ bank_full(b) /\ (rx_rd_bank' # rx_rd_bank => b # rx_rd_bank)
<1>0. ControlTypeOK /\ BanksInterlocked
  BY BodyFacts DEF OrderInv
<1>1. ASSUME NEW b \in Bank
      PROVE  /\ fill_par'[b] = IF rx_state = "R_LAST" /\ b = rx_wr_bank THEN Flip(fill_par[b])
                               ELSE fill_par[b]
             /\ free_par'[b] = IF rx_rd_bank' # rx_rd_bank /\ b = rx_rd_bank
                               THEN Flip(free_par[b]) ELSE free_par[b]
             /\ fill_par[b] \in Bit /\ free_par[b] \in Bit
  <2>1. fill_par' = IF rx_state = "R_LAST" THEN [fill_par EXCEPT ![rx_wr_bank] = Flip(@)]
                    ELSE fill_par
    BY RxPacket
  <2>2. free_par' = IF rx_rd_bank' # rx_rd_bank THEN [free_par EXCEPT ![rx_rd_bank] = Flip(@)]
                    ELSE free_par
    BY <1>0, ProcStep, FlipBit DEF ControlTypeOK, Bank, Bit
  <2> QED BY <1>0, <1>1, <2>1, <2>2 DEF ControlTypeOK
<1>2. /\ rx_state = "R_LAST" => ~bank_full(rx_wr_bank)
      /\ rx_rd_bank' # rx_rd_bank => bank_full(rx_rd_bank)
      /\ rx_wr_bank \in Bank /\ rx_rd_bank \in Bank
  BY <1>0, ProcStep DEF BanksInterlocked, ControlTypeOK
<1> QED BY <1>1, <1>2 DEF bank_full, Flip, Bit

\* Two banks handed over in turn: f before the edge, g after it.
LEMMA HandOver ==
  ASSUME NEW rd \in {0, 1}, NEW rd1 \in {0, 1}, NEW wr \in {0, 1}, NEW last \in BOOLEAN,
         NEW f0 \in {0, 1}, NEW f1 \in {0, 1}, NEW g0 \in {0, 1}, NEW g1 \in {0, 1},
         wr = IF f0 = f1 THEN rd ELSE Flip(rd),
         (IF rd = 0 THEN f1 ELSE f0) = 1 => (IF rd = 0 THEN f0 ELSE f1) = 1,
         rd1 # rd => (IF rd = 0 THEN f0 ELSE f1) = 1,
         last => (IF wr = 0 THEN f0 ELSE f1) # 1,
         g0 = 1 <=> (last /\ wr = 0) \/ (f0 = 1 /\ (rd1 # rd => rd # 0)),
         g1 = 1 <=> (last /\ wr = 1) \/ (f1 = 1 /\ (rd1 # rd => rd # 1))
  PROVE  /\ g0 + g1 + (IF rd1 = rd THEN 0 ELSE 1) = f0 + f1 + (IF last THEN 1 ELSE 0)
         /\ (IF last THEN Flip(wr) ELSE wr) = IF g0 = g1 THEN rd1 ELSE Flip(rd1)
         /\ (IF rd1 = 0 THEN g1 ELSE g0) = 1 => (IF rd1 = 0 THEN g0 ELSE g1) = 1
<1>1. CASE rd = 0
  BY <1>1 DEF Flip
<1>2. CASE rd = 1
  BY <1>2 DEF Flip
<1> QED BY <1>1, <1>2

LEMMA NextBanksInOrder ==
  ASSUME OrderInv, Next
  PROVE  BanksInOrder'
<1>1. /\ ControlTypeOK /\ BanksInterlocked /\ RxInv /\ BanksInOrder /\ DOMAIN pr = DOMAIN ProcReset
      /\ RX /\ PROC /\ Arrivals /\ Arrivals' /\ pr.rx \in Nat /\ (InHand => pr.rx > 0)
      /\ rx_wr_bank \in {0, 1} /\ rx_rd_bank \in {0, 1}
  <2>1. BodyInv /\ BanksInOrder /\ RX /\ PROC
    BY DEF OrderInv, Next
  <2>2. /\ RxInv /\ ControlTypeOK /\ BanksInterlocked /\ DOMAIN pr = DOMAIN ProcReset
    BY <2>1, BodyFacts DEF ProcInv, Fetched
  <2>3. Arrivals /\ Arrivals'
    BY <2>1, <2>2, ArrivedGrows DEF RxInv
  <2> QED BY <2>1, <2>2, <2>3 DEF ControlTypeOK, BanksInOrder, Bank
<1>2. /\ pr'.rx \in Nat /\ (InHand => pr.rx > 0)'
      /\ \/ rx_rd_bank' = rx_rd_bank /\ Freed' = Freed
         \/ rx_rd_bank' = Flip(rx_rd_bank) /\ Freed' = Freed + 1 /\ bank_full(rx_rd_bank)
  <2>1. InHand => bank_full(rx_rd_bank)
    BY <1>1 DEF InHand, OnPacket, BanksInterlocked
  <2> QED BY <1>1, <2>1, ProcPacket
<1> DEFINE B(b) == bank_full(b)
           last == rx_state = "R_LAST"
           rd == rx_rd_bank
           wr == rx_wr_bank
<1>3. \A b \in Bank : B(b)' <=> (last /\ b = wr) \/ (B(b) /\ (rd' # rd => b # rd))
  BY <1>1, NextFull DEF OrderInv
<1>4. /\ rx_wr_bank' = IF last THEN Flip(wr) ELSE wr
      /\ Len(arrived') + Coming = Len(arrived) + Coming' + (IF last THEN 1 ELSE 0)
  <2>1. Len(arrived) \in Nat /\ Len(arrived') \in Nat
    BY <1>1 DEF Arrivals
  <2>2. Coming \in {0, 1} /\ Coming' \in {0, 1}
    BY DEF Coming
  <2>3. CASE last
    <3>1. Coming = 1 /\ Coming' = 0 /\ arrived' = arrived /\ wr' = Flip(wr)
      BY <1>1, <2>3, RxPacket
    <3> QED BY <2>1, <2>3, <3>1
  <2>4. CASE ~last
    <3>1. wr' = wr /\ Len(arrived') - Coming' = Len(arrived) - Coming
      BY <1>1, <2>4, RxPacket
    <3> QED BY <2>1, <2>2, <2>4, <3>1
  <2> QED BY <2>3, <2>4
<1>5. /\ Len(arrived) \in Nat /\ Len(arrived') \in Nat /\ Freed \in Nat
      /\ Coming \in {0, 1} /\ Coming' \in {0, 1}
  BY <1>1 DEF Arrivals, Freed, Coming
<1>6. /\ B(rd) => Brings(rd, Freed + 1)
      /\ B(Flip(rd)) => B(rd) /\ Brings(Flip(rd), Freed + 2)
      /\ Len(arrived) = Freed + Full(0) + Full(1) + Coming
      /\ wr = IF Full(0) = Full(1) THEN rd ELSE Flip(rd)
      /\ last => Coming = 1 /\ Coming' = 0 /\ arrived' = arrived /\ ~B(wr)
  BY <1>1, RxPacket DEF BanksInOrder, BanksInterlocked
<1>7. /\ \A b \in Bank : B(b) => \A n \in DOMAIN arrived : Brings(b, n) => Brings(b, n)'
      /\ \A b \in Bank, n \in DOMAIN arrived : last /\ b = wr /\ n = Len(arrived) => Brings(b, n)'
  BY NextBrings
<1>8. \A b \in Bank, n \in Nat : Brings(b, n) => n \in DOMAIN arrived
  BY DEF Brings, Frame
<1>9. /\ Len(arrived') = Freed' + Full(0)' + Full(1)' + Coming'
      /\ wr' = IF Full(0)' = Full(1)' THEN rd' ELSE Flip(rd')
      /\ (B(Flip(rd)) => B(rd))'
  <2>1. /\ Full(0) \in {0, 1} /\ Full(1) \in {0, 1} /\ Full(0)' \in {0, 1} /\ Full(1)' \in {0, 1}
        /\ \A b \in Bank : (Full(b) = 1 <=> B(b)) /\ (Full(b)' = 1 <=> B(b)')
    BY DEF Full
  <2>2. \A b \in Bank : Full(b)' = 1 <=> (last /\ b = wr)
                                          \/ (Full(b) = 1 /\ (rd' # rd => b # rd))
    BY <1>3, <2>1
  <2>3. /\ Full(Flip(rd)) = 1 => Full(rd) = 1
        /\ rd' # rd => Full(rd) = 1
        /\ last => Full(wr) # 1
    BY <1>1, <1>2, <1>6, <2>1 DEF Flip, Bank
  <2>4. rd' \in {0, 1} /\ last \in BOOLEAN
    BY <1>1, <1>2 DEF Flip
  <2>5. /\ Full(0)' = 1 <=> (last /\ wr = 0) \/ (Full(0) = 1 /\ (rd' # rd => rd # 0))
        /\ Full(1)' = 1 <=> (last /\ wr = 1) \/ (Full(1) = 1 /\ (rd' # rd => rd # 1))
    BY <2>2 DEF Bank
  <2>6. /\ Full(rd) = IF rd = 0 THEN Full(0) ELSE Full(1)
        /\ Full(Flip(rd)) = IF rd = 0 THEN Full(1) ELSE Full(0)
        /\ Full(wr) = IF wr = 0 THEN Full(0) ELSE Full(1)
        /\ Full(rd)' = IF rd' = 0 THEN Full(0)' ELSE Full(1)'
        /\ Full(Flip(rd))' = IF rd' = 0 THEN Full(1)' ELSE Full(0)'
    BY <1>1, <2>4 DEF Flip, Full, bank_full
  <2> HIDE DEF rd, wr, last
  <2>7. /\ Full(0)' + Full(1)' + (IF rd' = rd THEN 0 ELSE 1)
             = Full(0) + Full(1) + (IF last THEN 1 ELSE 0)
        /\ (IF last THEN Flip(wr) ELSE wr) = IF Full(0)' = Full(1)' THEN rd' ELSE Flip(rd')
        /\ (IF rd' = 0 THEN Full(1)' ELSE Full(0)') = 1
             => (IF rd' = 0 THEN Full(0)' ELSE Full(1)') = 1
    <3>1. rd \in {0, 1} /\ wr \in {0, 1} /\ wr = IF Full(0) = Full(1) THEN rd ELSE Flip(rd)
      BY <1>1, <1>6 DEF rd, wr
    <3> QED BY <2>1, <2>3, <2>4, <2>5, <2>6, <3>1, HandOver
  <2>8. Freed' = Freed + (IF rd' = rd THEN 0 ELSE 1)
    BY <1>1, <1>2, <1>5 DEF Flip, rd
  <2>9. (Full(Flip(rd))' = 1 => Full(rd)' = 1) => (B(Flip(rd)) => B(rd))'
    BY <2>4 DEF Full, Flip
  <2>10. Len(arrived') = Freed' + Full(0)' + Full(1)' + Coming'
    <3>1. PICK d \in Nat : d = IF rd' = rd THEN 0 ELSE 1
      OBVIOUS
    <3>2. PICK l \in Nat : l = IF last THEN 1 ELSE 0
      OBVIOUS
    <3>3. Freed' = Freed + d /\ Full(0)' + Full(1)' + d = Full(0) + Full(1) + l
      BY <2>7, <2>8, <3>1, <3>2
    <3>4. Len(arrived') + Coming = Len(arrived) + Coming' + l
      BY <1>4, <3>2
    <3>5. Len(arrived) = Freed + Full(0) + Full(1) + Coming
      BY <1>6
    <3>6. PICK x \in Nat, c \in Nat, g0 \in Nat, g1 \in Nat, n \in Nat :
            x = Freed' /\ c = Coming' /\ g0 = Full(0)' /\ g1 = Full(1)' /\ n = Len(arrived')
      <4>1. Freed' \in Nat
        BY <1>5, <3>1, <3>3
      <4>2. Coming' \in Nat /\ Len(arrived') \in Nat
        BY <1>5
      <4>3. Full(0)' \in Nat /\ Full(1)' \in Nat
        BY <2>1
      <4> QED BY <4>1, <4>2, <4>3, Zenon
    <3>7. PICK f0 \in Nat, f1 \in Nat, y \in Nat, b \in Nat, m \in Nat :
            f0 = Full(0) /\ f1 = Full(1) /\ y = Freed /\ b = Coming /\ m = Len(arrived)
      BY <1>5, <2>1
    <3>8. x = y + d /\ g0 + g1 + d = f0 + f1 + l /\ n + b = m + c + l /\ m = y + f0 + f1 + b
      BY <3>3, <3>4, <3>5, <3>6, <3>7
    <3>9. d \in Nat /\ l \in Nat
      BY <3>1, <3>2
    <3>10. n = x + g0 + g1 + c
      BY <3>8, <3>9
    <3> QED BY <3>6, <3>10
  <2>11. wr' = IF Full(0)' = Full(1)' THEN rd' ELSE Flip(rd')
    BY <1>4, <2>7 DEF wr
  <2>12. (B(Flip(rd)) => B(rd))'
    BY <2>6, <2>7, <2>9
  <2> QED BY <2>10, <2>11, <2>12
<1>10. ASSUME NEW b \in Bank, NEW n \in Nat, B(b)',
              B(b) => Brings(b, n), last /\ b = wr => n = Len(arrived)
       PROVE  Brings(b, n)'
  <2>1. CASE last /\ b = wr
    <3>1. Len(arrived) > 0
      BY <1>5, <1>6, <2>1 DEF Full
    <3>2. n \in DOMAIN arrived
      BY <1>1, <1>10, <2>1, <3>1 DEF Arrivals
    <3> QED BY <1>7, <1>10, <2>1, <3>2
  <2>2. CASE ~(last /\ b = wr)
    <3>1. B(b) /\ n \in DOMAIN arrived
      BY <1>3, <1>8, <1>10, <2>2
    <3> QED BY <1>7, <1>10, <3>1
  <2> QED BY <2>1, <2>2
<1>11. last => \/ wr = rd /\ Len(arrived) = Freed + 1 /\ ~B(rd) /\ ~B(Flip(rd))
               \/ wr = Flip(rd) /\ Len(arrived) = Freed + 2 /\ B(rd)
  <2>1. Full(0) = IF B(0) THEN 1 ELSE 0
    BY DEF Full
  <2>2. Full(1) = IF B(1) THEN 1 ELSE 0
    BY DEF Full
  <2> HIDE DEF B
  <2>3. CASE rd = 0
    BY <1>1, <1>5, <1>6, <2>1, <2>2, <2>3 DEF Flip
  <2>4. CASE rd = 1
    BY <1>1, <1>5, <1>6, <2>1, <2>2, <2>4 DEF Flip
  <2> QED BY <1>1, <2>3, <2>4
<1>12. (B(rd) => Brings(rd, Freed + 1))' /\ (B(Flip(rd)) => Brings(Flip(rd), Freed + 2))'
  <2>1. /\ rd' \in Bank /\ Flip(rd)' \in Bank /\ rd \in Bank /\ Flip(rd) \in Bank
        /\ rd # Flip(rd) /\ Flip(Flip(rd)) = rd /\ Flip(rd)' = Flip(rd')
        /\ Freed' + 1 \in Nat /\ Freed' + 2 \in Nat /\ Freed + 1 \in Nat /\ Freed + 2 \in Nat
    BY <1>1, <1>2, <1>5 DEF Flip, Bank
  <2> HIDE DEF B, rd, wr, last
  <2>2. CASE rd' = rd /\ Freed' = Freed
    BY <1>6, <1>10, <1>11, <2>1, <2>2
  <2>3. CASE rd' = Flip(rd) /\ Freed' = Freed + 1 /\ B(rd)
    <3>1. B(Flip(rd))' => FALSE
      BY <1>3, <1>11, <2>1, <2>3
    <3>2. (Freed + 1) + 1 = Freed + 2
      BY <1>5
    <3> QED BY <1>6, <1>10, <1>11, <2>1, <2>3, <3>1, <3>2
  <2> QED BY <1>2, <2>2, <2>3 DEF B, rd
<1>13. DOMAIN keep_bad' = Bank
       /\ (rx_state = "R_ACCEPT" /\ src = 0 => ~keep_bad[rx_wr_bank])'
       /\ (Coming = 1 => (keep_bad[rx_wr_bank] <=> arrived[Len(arrived)].hdr = "keep"))'
  BY <1>1, RxPacket
<1> QED BY <1>2, <1>9, <1>12, <1>13 DEF BanksInOrder

LEMMA NextOrder == ASSUME OrderInv, Next PROVE OrderInv'
BY NextBody, NextBanksInOrder DEF OrderInv

LEMMA StutterOrder == ASSUME OrderInv, UNCHANGED vars PROVE OrderInv'
<1>1. BodyInv'
  BY StutterBody DEF OrderInv
<1> QED BY <1>1 DEF OrderInv, BanksInOrder, InHand, OnPacket, Freed, Coming, Full, Brings, Frame, Holds,
                    bank_full, vars, rxVars, procVars, bufVars

-----------------------------------------------------------------------------
(* They are answered in that order, but for those that have no answer.     *)

\* Packet n of a is the first after x to have an answer; none up to n has one.
Follows(a, x, n) ==
  /\ x \in Nat /\ n \in DOMAIN a /\ n > x /\ a[n].hdr # "short"
  /\ \A m \in (x + 1)..(n - 1) : a[m].hdr = "short"
Skipped(a, x, n) ==
  /\ x \in Nat /\ n \in Nat /\ x <= n /\ n <= Len(a)
  /\ \A m \in (x + 1)..n : a[m].hdr = "short"

\* The last packet that has left each stage.
Left      == IF responses = <<>> THEN 0 ELSE responses[Len(responses)].pid
Published == IF rsp_pending THEN rsp.pid ELSE Left
Drained   == IF dcur_valid THEN dcur.pid ELSE Published
Described == IF pd_valid THEN pd.pid ELSE Drained

AnswersInOrder ==
  /\ \E S : responses \in Seq(S)
  /\ rsp_pending => Follows(arrived, Left, rsp.pid)
  /\ dcur_valid => Follows(arrived, Published, dcur.pid)
  /\ pd_valid => Follows(arrived, Drained, pd.pid)
  /\ OnPacket => pr.req = pr.rx /\ Follows(arrived, Described, pr.rx)
  /\ ~OnPacket => Skipped(arrived, Described, pr.rx)

AnswerInv == OrderInv /\ AnswersInOrder

LEMMA InitAnswer == Init => AnswerInv
<1> SUFFICES ASSUME Init PROVE AnswersInOrder
  BY InitOrder DEF AnswerInv
<1>1. ~rsp_pending /\ ~dcur_valid /\ ~pd_valid /\ ~OnPacket /\ pr.rx = 0 /\ responses = <<>> /\ arrived = <<>>
  BY DEF Init, rsp_pending, pd_valid, OnPacket, ProcReset
<1>2. Described = 0
  BY <1>1 DEF Described, Drained, Published, Left
<1>3. responses \in Seq({})
  BY <1>1
<1>4. Skipped(arrived, Described, pr.rx)
  BY <1>1, <1>2 DEF Skipped
<1> QED BY <1>1, <1>3, <1>4 DEF AnswersInOrder

LEMMA FollowStays ==
  ASSUME Arrivals, Arrivals', Extends(arrived, arrived'), NEW x, NEW n
  PROVE  /\ Follows(arrived, x, n) => Follows(arrived', x, n)
         /\ Skipped(arrived, x, n) => Skipped(arrived', x, n)
<1>1. DOMAIN arrived = 1..Len(arrived) /\ DOMAIN arrived' = 1..Len(arrived')
      /\ Len(arrived) \in Nat /\ Len(arrived') \in Nat
  BY DEF Arrivals
<1>2. Len(arrived) <= Len(arrived') /\ \A m \in 1..Len(arrived) : arrived'[m] = arrived[m]
  <2>1. Len(arrived) > 0 => Len(arrived) \in 1..Len(arrived')
    BY <1>1 DEF Extends
  <2> QED BY <1>1, <2>1 DEF Extends
<1>3. ASSUME Follows(arrived, x, n) PROVE Follows(arrived', x, n)
  BY <1>1, <1>2, <1>3 DEF Follows
<1>4. ASSUME Skipped(arrived, x, n) PROVE Skipped(arrived', x, n)
  BY <1>1, <1>2, <1>4 DEF Skipped
<1> QED BY <1>3, <1>4

LEMMA FollowMoves ==
  ASSUME NEW a, NEW T, a \in Seq(T), NEW x, NEW n
  PROVE  /\ Follows(a, x, n) => Skipped(a, n, n)
         /\ Skipped(a, x, n) /\ n + 1 \in DOMAIN a =>
              IF a[n + 1].hdr = "short" THEN Skipped(a, x, n + 1) ELSE Follows(a, x, n + 1)
BY DEF Follows, Skipped

\* What PROC does to the packets it counts and describes.
LEMMA ProcAnswer ==
  ASSUME OrderInv, PROC
  PROVE  \/ /\ OnPacket /\ ~OnPacket' /\ ~pd_valid /\ pr'.rx = pr.rx
            /\ pd'.pid = pr.req /\ pd_put_par' = Flip(pd_put_par)
         \/ /\ ~OnPacket /\ pr'.rx = pr.rx + 1 /\ pr.rx + 1 \in DOMAIN arrived
            /\ pd' = pd /\ pd_put_par' = pd_put_par
            /\ IF arrived[pr.rx + 1].hdr = "short" THEN ~OnPacket'
               ELSE OnPacket' /\ pr'.req = pr.rx + 1
         \/ /\ pr'.rx = pr.rx /\ pd' = pd /\ pd_put_par' = pd_put_par
            /\ OnPacket' <=> OnPacket
            /\ OnPacket => pr'.req = pr.req
<1>1. /\ ControlTypeOK /\ BanksInterlocked /\ RxInv /\ BanksInOrder /\ DOMAIN pr = DOMAIN ProcReset
      /\ Fetched /\ Arrivals /\ pr.i \in Nat /\ pr.rx \in Nat
  BY BodyFacts DEF OrderInv, BanksInOrder, ProcInv, Fetched
<1>2. CASE PDispatch
  <2>1. /\ pr_state = "P_DISPATCH" /\ ~OnPacket /\ ~InHand /\ bank_full(rx_rd_bank)
        /\ pd' = pd /\ pd_put_par' = pd_put_par
    BY <1>1, <1>2 DEF PDispatch, OnPacket, InHand, BanksInterlocked, ProcKeep
  <2>2. Brings(rx_rd_bank, pr.rx + 1)
    BY <1>1, <2>1 DEF BanksInOrder, Freed
  <2> DEFINE n == pr.rx + 1
  <2>3. /\ n \in DOMAIN arrived /\ arrived[n] \in Requests /\ arrived[n].beats \in Nat
        /\ Frame(rxbuf[rx_rd_bank], n)
    BY <1>1, <2>2, RequestFields DEF Brings, Frame
  <2>4. rx_rd_count \in Nat /\ (rx_rd_count > 0 => pr.hdr = n)
        /\ (rx_rd_count = 0 => arrived[n].hdr = "short")
    <3>1. rx_rd_count \in Nat /\ rx_rd_count = Cap(arrived[n].beats)
          /\ PidAt(1) = IF 1 <= rx_rd_count THEN n ELSE 0
      BY <1>1, <2>3, ReadWords
    <3>2. pr.hdr = PidAt(1)
      BY <1>1, <2>1 DEF Fetched
    <3>3. rx_rd_count = 0 => arrived[n].beats = 0
      BY <2>3, <3>1, BufferAssumption DEF Cap
    <3> QED BY <2>3, <3>1, <3>2, <3>3, ShapesAssumption
  <2>5. NoHeader <=> arrived[n].hdr = "short"
    BY <2>4 DEF NoHeader
  <2>6. /\ pr'.req = pr.hdr /\ pr'.rx = n
        /\ \/ NoHeader /\ pr_state' = "P_DROP"
           \/ ~NoHeader /\ pr_state' \in {"P_ENDREQ", "P_ARGS"}
    BY <1>1, <1>2, DispatchStep
  <2>7. ~NoHeader => pr.hdr = n
    BY <2>4 DEF NoHeader
  <2> QED BY <2>1, <2>3, <2>5, <2>6, <2>7 DEF OnPacket
<1>3. CASE PArgsRead \/ PArgs \/ PLoadKey \/ PStart \/ PFeed \/ PPresent \/ PNextBlk \/ PEndReq
  <2>1. pr'.req = pr.req
    <3>1. CASE PArgsRead
      BY <1>1, <3>1, ArgsReadStep DEF SameBut, ProcReset, Lengths
    <3> QED BY <1>1, <1>3, <3>1, WorkStep
  <2>2. pr'.rx = pr.rx
    BY <1>1, <1>3, ArgsReadStep, ArgsStep, LoadKeyStep, StartStep, FeedStep, QuietStep, NextBlkStep
       DEF SameBut, ProcReset, Lengths
  <2>3. CASE PEndReq /\ ~pd_valid
    BY <2>2, <2>3 DEF PEndReq, OnPacket, Descriptor
  <2>4. CASE ~(PEndReq /\ ~pd_valid)
    <3>1. pd' = pd /\ pd_put_par' = pd_put_par
      BY <1>3, <2>4 DEF PArgsRead, PArgs, PLoadKey, PStart, PFeed, PPresent, PNextBlk, PEndReq, ProcKeep
    <3>2. OnPacket /\ OnPacket'
      <4>1. CASE PArgs
        BY <1>1, <4>1, ArgsStep DEF PArgs, OnPacket
      <4> QED BY <1>3, <2>4, <4>1
           DEF PArgsRead, PLoadKey, Refuse, PStart, PFeed, PPresent, PNextBlk, PEndReq, OnPacket
    <3> QED BY <2>1, <2>2, <3>1, <3>2
  <2> QED BY <2>3, <2>4
<1>4. CASE PIdle \/ PParse \/ PDrop
  <2>1. pr'.rx = pr.rx
    BY <1>1, <1>4, QuietStep, ParseStep DEF SameBut, ProcReset, Lengths
  <2>2. pd' = pd /\ pd_put_par' = pd_put_par /\ ~OnPacket /\ ~OnPacket'
    BY <1>4 DEF PIdle, PParse, PDrop, ProcKeep, OnPacket
  <2> QED BY <2>1, <2>2
<1> QED BY <1>2, <1>3, <1>4 DEF PROC

\* The last beat of a response makes it the last answered.
LEMMA LeftStep ==
  ASSUME BanksInterlocked, TX, \E S : responses \in Seq(S)
  PROVE  /\ \E S : responses' \in Seq(S)
         /\ \/ /\ rsp_pending /\ rsp_done_par' = Flip(rsp_done_par) /\ Left' = rsp.pid
               /\ responses' = Append(responses, [pid |-> rsp.pid, status |-> rsp.status,
                                                  extra |-> rsp.extra, body |-> beats])
            \/ rsp_done_par' = rsp_done_par /\ responses' = responses /\ Left' = Left
<1>1. CASE TLast
  <2> DEFINE e == [pid |-> rsp.pid, status |-> rsp.status, extra |-> rsp.extra, body |-> beats]
  <2>1. e.pid = rsp.pid
    OBVIOUS
  <2>2. responses' = Append(responses, e) /\ rsp_pending /\ rsp_done_par' = Flip(rsp_done_par)
    BY <1>1 DEF TLast, BanksInterlocked
  <2> HIDE DEF e
  <2>3. PICK S : responses \in Seq(S)
    OBVIOUS
  <2>4. responses \in Seq(S \cup {e}) /\ e \in S \cup {e}
    BY <2>3
  <2>5. responses' \in Seq(S \cup {e}) /\ responses' # <<>> /\ responses'[Len(responses')] = e
    BY <2>2, <2>4
  <2>6. Left' = rsp.pid
    BY <2>1, <2>5 DEF Left
  <2> QED BY <2>2, <2>5, <2>6 DEF e
<1>2. CASE ~TLast
  <2>1. responses' = responses /\ rsp_done_par' = rsp_done_par
    BY <1>2 DEF TX, TStart, TWaits, TWord, txVars
  <2> QED BY <2>1 DEF Left
<1> QED BY <1>1, <1>2

Publishing == dr_state = "D_PUBLISH" /\ dr_state' = "D_CLEAR"

LEMMA NextPublished ==
  ASSUME AnswerInv, Next
  PROVE  /\ rsp_pending' => Follows(arrived', Left', rsp'.pid)
         /\ Published' = IF Publishing THEN dcur.pid ELSE Published
         /\ Publishing => dcur_valid /\ ~dcur_valid' /\ ~rsp_pending
<1>1. /\ ControlTypeOK /\ BanksInterlocked /\ Arrivals /\ AnswersInOrder /\ RX /\ DRAIN /\ TX
      /\ Arrivals' /\ Extends(arrived, arrived') /\ TokenStates
  BY BodyFacts, ArrivedGrows DEF AnswerInv, OrderInv, Next
<1>2. \/ rsp_pending /\ rsp_done_par' = Flip(rsp_done_par) /\ Left' = rsp.pid
      \/ rsp_done_par' = rsp_done_par /\ Left' = Left
  BY <1>1, LeftStep DEF AnswersInOrder
<1>3. /\ rsp_pub_par \in Bit /\ rsp_done_par \in Bit
  BY <1>1 DEF ControlTypeOK
<1>4. CASE Publishing
  <2>1. ~rsp_pending /\ rsp_pub_par' = Flip(rsp_pub_par) /\ ~dcur_valid' /\ rsp'.pid = dcur.pid
    <3>1. DPublish /\ MayPublish
      BY <1>1, <1>4 DEF Publishing, DRAIN, DCatch, DTake, DResult, DIdle, DWrite, DFin, DCheck, DPublish, DClear
    <3>2. ~rsp_pending /\ rsp_pub_par' = Flip(rsp_pub_par) /\ dcur_valid' = FALSE
      BY <3>1 DEF DPublish, MayPublish
    <3>3. rsp_pub_par' # rsp_pub_par
      BY <1>3, <3>2, FlipBit
    <3> QED BY <1>1, <3>2, <3>3, PublishStep
  <2>2. dcur_valid /\ Left' = Left /\ rsp_done_par' = rsp_done_par
    BY <1>1, <1>2, <1>4, <2>1 DEF TokenStates, Publishing
  <2>3. rsp_pending'
    BY <1>3, <2>1, <2>2 DEF rsp_pending, Flip, Bit
  <2>4. Published = Left /\ Published' = dcur.pid
    BY <2>1, <2>3 DEF Published
  <2>5. Follows(arrived', Left, dcur.pid)
    BY <1>1, <2>2, <2>4, FollowStays DEF AnswersInOrder
  <2> QED BY <1>4, <2>1, <2>2, <2>4, <2>5
<1>5. CASE ~Publishing
  <2>1. rsp' = rsp /\ rsp_pub_par' = rsp_pub_par
    BY <1>1, <1>5 DEF Publishing, DRAIN, DCatch, DTake, DResult, DIdle, DWrite, DFin, DCheck, DPublish,
                      DClear, DKeepRsp
  <2>2. CASE rsp_pending /\ rsp_done_par' = Flip(rsp_done_par) /\ Left' = rsp.pid
    <3>1. ~rsp_pending'
      BY <1>3, <2>1, <2>2 DEF rsp_pending, Flip, Bit
    <3> QED BY <1>5, <2>2, <3>1 DEF Published
  <2>3. CASE rsp_done_par' = rsp_done_par /\ Left' = Left
    <3>1. rsp_pending' <=> rsp_pending
      BY <2>1, <2>3 DEF rsp_pending
    <3>2. Published' = Published
      BY <2>1, <2>3, <3>1 DEF Published
    <3>3. rsp_pending => Follows(arrived', Left, rsp.pid)
      BY <1>1, FollowStays DEF AnswersInOrder
    <3> QED BY <1>5, <2>1, <2>3, <3>1, <3>2, <3>3
  <2> QED BY <1>2, <2>2, <2>3
<1> QED BY <1>4, <1>5

LEMMA NextDrained ==
  ASSUME AnswerInv, Next
  PROVE  /\ dcur_valid' => Follows(arrived', Published', dcur'.pid)
         /\ Drained' = IF DTake THEN pd.pid ELSE Drained
         /\ DTake => pd_valid /\ pd_get_par' = Flip(pd_get_par)
         /\ ~DTake => pd_get_par' = pd_get_par
<1>1. /\ ControlTypeOK /\ BanksInterlocked /\ Arrivals /\ AnswersInOrder /\ RX /\ DRAIN
      /\ Arrivals' /\ Extends(arrived, arrived') /\ TokenStates
  BY BodyFacts, ArrivedGrows DEF AnswerInv, OrderInv, Next
<1>2. CASE DTake
  <2>1. /\ dr_state = "D_IDLE" /\ pd_valid /\ ~dcur_valid /\ dcur' = pd /\ dcur_valid'
        /\ pd_get_par' = Flip(pd_get_par)
    BY <1>1, <1>2 DEF DTake
  <2>2. Published' = Published
    BY <2>1, NextPublished DEF Publishing
  <2>3. Drained = Published /\ Drained' = pd.pid
    BY <2>1 DEF Drained
  <2>4. Follows(arrived', Published, pd.pid)
    BY <1>1, <2>1, <2>3, FollowStays DEF AnswersInOrder
  <2> QED BY <1>2, <2>1, <2>2, <2>3, <2>4
<1>3. CASE ~DTake
  <2>1. dcur'.pid = dcur.pid /\ pd_get_par' = pd_get_par
    BY <1>1, <1>3, DescStep, DrainHands
  <2>2. CASE Publishing
    <3>1. Drained = dcur.pid /\ ~dcur_valid' /\ Published' = dcur.pid
      BY <2>2, NextPublished DEF Drained
    <3>2. Drained' = Published'
      BY <3>1 DEF Drained
    <3> QED BY <1>3, <2>1, <3>1, <3>2
  <2>3. CASE ~Publishing
    <3>1. (dcur_valid' <=> dcur_valid) /\ Published' = Published
      BY <1>1, <1>3, <2>3, DrainHands, NextPublished DEF Publishing
    <3>2. dcur_valid => Follows(arrived', Published, dcur.pid)
      BY <1>1, FollowStays DEF AnswersInOrder
    <3>3. Drained' = Drained
      BY <2>1, <3>1 DEF Drained
    <3> QED BY <1>3, <2>1, <3>1, <3>2, <3>3
  <2> QED BY <2>2, <2>3
<1> QED BY <1>2, <1>3

LEMMA NextDescribed ==
  ASSUME AnswerInv, Next
  PROVE  /\ pd_valid' => Follows(arrived', Drained', pd'.pid)
         /\ Described' = IF pd_put_par' # pd_put_par THEN pr.req ELSE Described
<1>1. /\ ControlTypeOK /\ Arrivals /\ AnswersInOrder /\ RX /\ PROC /\ OrderInv
      /\ Arrivals' /\ Extends(arrived, arrived') /\ pd_put_par \in Bit /\ pd_get_par \in Bit
  BY BodyFacts, ArrivedGrows DEF AnswerInv, OrderInv, Next, ControlTypeOK
<1>2. CASE pd_put_par' # pd_put_par
  <2>1. OnPacket /\ ~pd_valid /\ pd'.pid = pr.req /\ pd_put_par' = Flip(pd_put_par)
    BY <1>1, <1>2, ProcAnswer
  <2>2. ~DTake /\ pd_get_par' = pd_get_par /\ Drained' = Drained
    BY <2>1, NextDrained
  <2>3. Described = Drained /\ Described' = pr.req
    <3>1. pd_valid'
      BY <1>1, <2>1, <2>2 DEF pd_valid, Flip, Bit
    <3> QED BY <2>1, <3>1 DEF Described
  <2>4. Follows(arrived', Drained, pr.req)
    BY <1>1, <2>1, <2>3, FollowStays DEF AnswersInOrder
  <2> QED BY <1>2, <2>1, <2>2, <2>3, <2>4
<1>3. CASE pd_put_par' = pd_put_par
  <2>1. pd' = pd
    BY <1>1, <1>3, ProcAnswer, FlipBit
  <2>2. CASE DTake
    <3>1. pd_valid /\ ~pd_valid'
      BY <1>1, <1>3, <2>2, NextDrained DEF pd_valid, Flip, Bit
    <3>2. Described' = pd.pid /\ Described = pd.pid
      BY <2>2, <3>1, NextDrained DEF Described
    <3> QED BY <1>3, <3>1, <3>2
  <2>3. CASE ~DTake
    <3>1. (pd_valid' <=> pd_valid) /\ Drained' = Drained
      BY <1>3, <2>3, NextDrained DEF pd_valid
    <3>2. pd_valid => Follows(arrived', Drained, pd.pid)
      BY <1>1, FollowStays DEF AnswersInOrder
    <3>3. Described' = Described
      BY <2>1, <3>1 DEF Described
    <3> QED BY <1>3, <2>1, <3>1, <3>2, <3>3
  <2> QED BY <2>2, <2>3
<1> QED BY <1>2, <1>3

LEMMA NextAnswersInOrder == ASSUME AnswerInv, Next PROVE AnswersInOrder'
<1>1. /\ BanksInterlocked /\ Arrivals /\ AnswersInOrder /\ RX /\ PROC /\ TX /\ OrderInv /\ pr.rx \in Nat
      /\ ControlTypeOK /\ Arrivals' /\ Extends(arrived, arrived')
  BY BodyFacts, ArrivedGrows DEF AnswerInv, OrderInv, Next, BanksInOrder
<1>2. \E S : responses' \in Seq(S)
  BY <1>1, LeftStep DEF AnswersInOrder
<1>3. /\ rsp_pending' => Follows(arrived', Left', rsp'.pid)
      /\ dcur_valid' => Follows(arrived', Published', dcur'.pid)
      /\ pd_valid' => Follows(arrived', Drained', pd'.pid)
      /\ Described' = IF pd_put_par' # pd_put_par THEN pr.req ELSE Described
  BY NextPublished, NextDrained, NextDescribed
<1>4. /\ OnPacket' => pr'.req = pr'.rx /\ Follows(arrived', Described', pr'.rx)
      /\ ~OnPacket' => Skipped(arrived', Described', pr'.rx)
  <2>1. CASE /\ OnPacket /\ ~OnPacket' /\ pr'.rx = pr.rx
             /\ pd_put_par' = Flip(pd_put_par)
    <3>1. Described' = pr.rx /\ Follows(arrived, Described, pr.rx)
      BY <1>1, <1>3, <2>1, FlipBit DEF AnswersInOrder, ControlTypeOK
    <3>2. Skipped(arrived', pr.rx, pr.rx)
      BY <1>1, <3>1, FollowMoves, FollowStays DEF Arrivals
    <3> QED BY <2>1, <3>1, <3>2
  <2>2. CASE /\ ~OnPacket /\ pr'.rx = pr.rx + 1 /\ pr.rx + 1 \in DOMAIN arrived
             /\ pd_put_par' = pd_put_par
             /\ IF arrived[pr.rx + 1].hdr = "short" THEN ~OnPacket'
                ELSE OnPacket' /\ pr'.req = pr.rx + 1
    <3>1. Described' = Described /\ Skipped(arrived, Described, pr.rx)
      BY <1>1, <1>3, <2>2 DEF AnswersInOrder
    <3>2. IF arrived[pr.rx + 1].hdr = "short" THEN Skipped(arrived, Described, pr.rx + 1)
                                             ELSE Follows(arrived, Described, pr.rx + 1)
      BY <1>1, <2>2, <3>1, FollowMoves DEF Arrivals
    <3> QED BY <1>1, <2>2, <3>1, <3>2, FollowStays
  <2>3. CASE /\ pr'.rx = pr.rx /\ pd_put_par' = pd_put_par
             /\ OnPacket' <=> OnPacket
             /\ OnPacket => pr'.req = pr.req
    <3>1. Described' = Described
      BY <1>3, <2>3
    <3> QED BY <1>1, <2>3, <3>1, FollowStays DEF AnswersInOrder
  <2> QED BY <1>1, <2>1, <2>2, <2>3, ProcAnswer
<1> QED BY <1>2, <1>3, <1>4 DEF AnswersInOrder

LEMMA NextAnswer == ASSUME AnswerInv, Next PROVE AnswerInv'
BY NextOrder, NextAnswersInOrder DEF AnswerInv

LEMMA StutterAnswer == ASSUME AnswerInv, UNCHANGED vars PROVE AnswerInv'
<1>1. OrderInv'
  BY StutterOrder DEF AnswerInv
<1>2. /\ UNCHANGED <<responses, arrived, rsp, dcur, dcur_valid, pd, pr, pr_state>>
      /\ UNCHANGED <<rsp_pub_par, rsp_done_par, pd_put_par, pd_get_par>>
  BY DEF vars, rxVars, procVars, drainVars, txVars
<1> QED BY <1>1, <1>2 DEF AnswerInv, AnswersInOrder, Left, Published, Drained, Described, OnPacket,
                          rsp_pending, pd_valid

-----------------------------------------------------------------------------
(* The keys: a request is judged on the key loaded last before it.         *)

LEMMA KeyStep ==
  ASSUME NEW a, NEW n \in Nat, n > 0, NEW s
  PROVE  KeyOf(a, n + 1, s) = IF Loads(a[n], s) THEN n ELSE KeyOf(a, n, s)
<1> DEFINE Newest(S) == IF S = {} THEN 0 ELSE CHOOSE m \in S : \A k \in S : k <= m
           Before(i) == {m \in 1..(i - 1) : Loads(a[m], s)}
<1>1. \A i : KeyOf(a, i, s) = Newest(Before(i))
  BY DEF KeyOf
<1>2. CASE Loads(a[n], s)
  <2>1. n \in Before(n + 1) /\ \A k \in Before(n + 1) : k \in Nat /\ k <= n
    BY <1>2
  <2> HIDE DEF Before
  <2>2. \A m \in Before(n + 1) : (\A k \in Before(n + 1) : k <= m) <=> m = n
    BY <2>1
  <2>3. (CHOOSE m \in Before(n + 1) : \A k \in Before(n + 1) : k <= m) = n
    BY <2>1, <2>2
  <2> QED BY <1>1, <1>2, <2>1, <2>3
<1>3. CASE ~Loads(a[n], s)
  <2>1. Before(n + 1) = Before(n)
    BY <1>3
  <2> HIDE DEF Before, Newest
  <2> QED BY <1>1, <1>3, <2>1
<1> QED BY <1>2, <1>3

LEMMA KeyStays ==
  ASSUME Arrivals, Extends(arrived, arrived'), NEW n \in Nat, n <= Len(arrived) + 1, NEW s
  PROVE  KeyOf(arrived', n, s) = KeyOf(arrived, n, s)
<1> DEFINE Newest(S) == IF S = {} THEN 0 ELSE CHOOSE m \in S : \A k \in S : k <= m
           Before(a) == {m \in 1..(n - 1) : Loads(a[m], s)}
<1>1. \A m \in 1..(n - 1) : m \in DOMAIN arrived
  BY DEF Arrivals
<1>2. Before(arrived') = Before(arrived)
  BY <1>1 DEF Extends
<1>3. KeyOf(arrived, n, s) = Newest(Before(arrived)) /\ KeyOf(arrived', n, s) = Newest(Before(arrived'))
  BY DEF KeyOf
<1> HIDE DEF Newest, Before
<1> QED BY <1>2, <1>3

\* What is known of a request, and of the one PROC is on.
LEMMA RequestTypes ==
  ASSUME Arrivals, NEW p \in DOMAIN arrived
  PROVE  /\ p \in Nat /\ p > 0 /\ p <= Len(arrived)
         /\ arrived[p].op \in Ops /\ arrived[p].hdr \in Headers
         /\ arrived[p].slot \in Nat /\ arrived[p].slot <= NumSlots /\ NumSlots \in Nat
         /\ arrived[p].beats \in Nat /\ arrived[p].aad \in Nat /\ arrived[p].msg \in Nat
<1>1. arrived[p] \in RequestType /\ p \in 1..Len(arrived) /\ Len(arrived) \in Nat
  BY RequestsAssumption DEF Arrivals
<1> QED BY <1>1, NumSlotsAssumption DEF RequestType

LEMMA PacketInHand ==
  ASSUME AnswerInv
  PROVE  /\ pr.rx \in Nat /\ pr.rx <= Len(arrived) /\ Len(arrived) \in Nat
         /\ OnPacket =>
              /\ pr.rx \in DOMAIN arrived /\ pr.rx > 0 /\ pr.req = pr.rx /\ pr.len \in Nat
              /\ pr.len = 2 <=> arrived[pr.rx].beats = 2
              /\ pr.len = rx_rd_count /\ PidAt(2) = IF pr.len >= 2 THEN pr.rx ELSE 0
<1>1. /\ Arrivals /\ BanksInOrder /\ Fetched /\ AnswersInOrder /\ RxInv /\ pr.rx \in Nat /\ Len(arrived) \in Nat
  BY BodyFacts DEF AnswerInv, OrderInv, BanksInOrder, ProcInv, Arrivals
<1>2. CASE OnPacket
  <2>1. pr.req = pr.rx /\ pr.rx \in DOMAIN arrived /\ Frame(rxbuf[rx_rd_bank], pr.rx) /\ pr.len = rx_rd_count
    BY <1>1, <1>2 DEF AnswersInOrder, Follows, Fetched
  <2>2. arrived[pr.rx].beats \in Nat /\ pr.rx > 0 /\ pr.rx <= Len(arrived)
    BY <1>1, <2>1, RequestTypes
  <2>3. pr.len = Cap(arrived[pr.rx].beats) /\ pr.len \in Nat
    BY <1>1, <2>1, ReadWords
  <2>4. PidAt(2) = IF pr.len >= 2 THEN pr.rx ELSE 0
    BY <1>1, <2>1, <2>3, ReadWords
  <2>5. pr.len = 2 <=> arrived[pr.rx].beats = 2
    BY <2>2, <2>3, BufferAssumption DEF Cap
  <2> QED BY <1>1, <2>1, <2>2, <2>3, <2>4, <2>5
<1>3. CASE ~OnPacket
  BY <1>1, <1>3 DEF AnswersInOrder, Skipped
<1> QED BY <1>2, <1>3

\* The packet whose key the slots stand for, and the key they will hold.
Arguing == pr_state \in {"P_ARGS", "P_LOADKEY"}
Judging == IF Arguing THEN pr.rx ELSE pr.rx + 1
KeyNow(s) == IF KeyWriteHits(ks_wr, s) THEN ks_wr[2] ELSE keys[s]
KeyFor(n) == KeyOf(arrived, n, arrived[n].slot)

KeysInForce ==
  /\ DOMAIN keys = 0..(NumSlots - 1)
  /\ \A s \in 0..(NumSlots - 1) : KeyNow(s) = KeyOf(arrived, Judging, s)
  /\ ks_wr # None => pr_state = "P_ENDREQ"
  /\ Arguing => arrived[pr.rx].hdr = "ok" /\ arrived[pr.rx].op # "unknown"
  /\ pr_state = "P_LOADKEY" => Loads(arrived[pr.rx], arrived[pr.rx].slot) /\ pr.args = pr.rx
  /\ pr_state = "P_ARGS" => ks_rd_slot = arrived[pr.rx].slot
  /\ pr_state = "P_ARGS" /\ rd_cnt > 1 => rd_key = KeyFor(pr.rx)

KeyInv == AnswerInv /\ KeysInForce

LEMMA InitKey == Init => KeyInv
<1> SUFFICES ASSUME Init PROVE KeysInForce
  BY InitAnswer DEF KeyInv
<1>1. /\ ~Arguing /\ pr.rx = 0 /\ ks_wr = None /\ pr_state = "P_IDLE" /\ Judging = 1
      /\ keys = [s \in 0..(NumSlots - 1) |-> 0]
  BY DEF Init, Arguing, Judging, ProcReset
<1>2. \A s : KeyOf(arrived, 1, s) = 0
  BY DEF KeyOf
<1> QED BY <1>1, <1>2 DEF KeysInForce, KeyNow, KeyWriteHits

\* What the parse finds of the packet at its head.
LEMMA DispatchFinds ==
  ASSUME AnswerInv, PDispatch
  PROVE  LET n == pr.rx + 1
         IN  /\ pr'.rx = n /\ n \in DOMAIN arrived
             /\ ks_wr' = None /\ eng_key' = eng_key /\ eng_start' = FALSE
             /\ NoHeader => arrived[n].hdr = "short" /\ pr_state' = "P_DROP"
             /\ ~NoHeader => /\ arrived[n].hdr # "short" /\ pr.hdr = n /\ HeadVerdict = HeaderStatus(arrived[n])
                             /\ ks_rd_slot' = arrived[n].slot
                             /\ IF HeadVerdict = "OK" THEN pr_state' = "P_ARGS" /\ rd_cnt' = 1
                                ELSE pr_state' = "P_ENDREQ" /\ pr'.status = HeadVerdict
             /\ pr'.drop = IF HeaderDropped(arrived[n]) THEN pr.drop + 1 ELSE pr.drop
<1>1. /\ ControlTypeOK /\ BanksInterlocked /\ RxInv /\ BanksInOrder /\ DOMAIN pr = DOMAIN ProcReset
      /\ Fetched /\ Arrivals /\ pr.rx \in Nat
  BY BodyFacts DEF AnswerInv, OrderInv, BanksInOrder, ProcInv, Fetched
<1>2. /\ pr_state = "P_DISPATCH" /\ ~InHand /\ bank_full(rx_rd_bank)
      /\ ks_wr' = None /\ eng_key' = eng_key /\ eng_start' = FALSE
      /\ ks_rd_slot' = IF pr.hdr = 0 THEN ks_rd_slot ELSE arrived[pr.hdr].slot
  BY <1>1 DEF PDispatch, OnPacket, InHand, BanksInterlocked, NoPulse, EngKeep
<1>3. Brings(rx_rd_bank, pr.rx + 1)
  BY <1>1, <1>2 DEF BanksInOrder, Freed
<1> DEFINE n == pr.rx + 1
<1>4. /\ n \in DOMAIN arrived /\ arrived[n] \in Requests /\ arrived[n].beats \in Nat /\ n # 0
      /\ Frame(rxbuf[rx_rd_bank], n) /\ (keep_bad[rx_rd_bank] <=> arrived[n].hdr = "keep")
  BY <1>1, <1>3, RequestFields DEF Brings, Frame
<1>5. rx_rd_count \in Nat /\ (rx_rd_count > 0 => pr.hdr = n)
      /\ (rx_rd_count = 0 => arrived[n].hdr = "short")
  <2>1. rx_rd_count \in Nat /\ rx_rd_count = Cap(arrived[n].beats)
        /\ PidAt(1) = IF 1 <= rx_rd_count THEN n ELSE 0
    BY <1>1, <1>4, ReadWords
  <2>2. pr.hdr = PidAt(1)
    BY <1>1, <1>2 DEF Fetched
  <2>3. rx_rd_count = 0 => arrived[n].beats = 0
    BY <1>4, <2>1, BufferAssumption DEF Cap
  <2> QED BY <1>4, <2>1, <2>2, <2>3, ShapesAssumption
<1>6. NoHeader <=> arrived[n].hdr = "short"
  BY <1>5 DEF NoHeader
<1>7. ~NoHeader => pr.hdr = n /\ HeadVerdict = HeaderStatus(arrived[n])
  <2>1. ~NoHeader => pr.hdr = n
    BY <1>5 DEF NoHeader
  <2>2. arrived[n].hdr = "keep" => HeaderStatus(arrived[n]) = "BAD_LENGTH"
    BY DEF HeaderStatus
  <2> QED BY <1>4, <2>1, <2>2 DEF HeadVerdict
<1>8. Unanswerable <=> HeaderDropped(arrived[n])
  BY <1>6, <1>7 DEF Unanswerable, HeaderDropped
<1> QED BY <1>1, <1>2, <1>4, <1>6, <1>7, <1>8, DispatchStep

\* What the parse of the arguments decides.
LEMMA ArgsFind ==
  ASSUME KeyInv, PArgs
  PROVE  LET r == arrived[pr.rx]
         IN  /\ rd_key = KeyFor(pr.rx) /\ rd_cnt > 5
             /\ ArgsVerdict = IF r.op = "load" /\ r.slot >= NumSlots THEN "BAD_SLOT"
                              ELSE IF Crypto(r) /\ KeyFor(pr.rx) = 0 THEN "BAD_SLOT"
                              ELSE IF r.op # "stats" /\ LenBad(r, r.beats) THEN "BAD_LENGTH"
                              ELSE "OK"
             /\ ArgsVerdict = "OK" /\ r.op # "stats" =>
                  r.beats = 2 /\ pr.args = pr.rx /\ pr.lens = pr.rx
<1>1. /\ pr_state = "P_ARGS" /\ rd_cnt = ArgWords + 3 /\ OnPacket /\ Arguing
  BY DEF PArgs, ReadDone, OnPacket, Arguing
<1>2. rd_cnt \in Nat /\ rd_cnt > 5
  BY <1>1, TimingAssumption
<1>3. /\ Fetched /\ KeysInForce /\ Arrivals
  BY BodyFacts DEF KeyInv, AnswerInv, OrderInv, ProcInv
<1> DEFINE r == arrived[pr.rx]
<1>4. /\ pr.req = pr.rx /\ pr.rx \in DOMAIN arrived /\ pr.rx > 0 /\ pr.len \in Nat
      /\ pr.len = 2 <=> r.beats = 2
      /\ PidAt(2) = IF pr.len >= 2 THEN pr.rx ELSE 0
  BY <1>1, PacketInHand DEF KeyInv
<1>5. pr.args = PidAt(2) /\ pr.lens = PidAt(2) /\ (pr.lens_bad <=> pr.lens = 0 \/ LenBad(arrived[pr.lens], pr.len))
  BY <1>1, <1>2, <1>3 DEF Fetched
<1>6. rd_key = KeyFor(pr.rx) /\ r.op \in Ops /\ r.op # "unknown"
  BY <1>1, <1>2, <1>3, <1>4, RequestTypes DEF KeysInForce
<1>7. pr.lens_bad <=> LenBad(r, r.beats)
  BY <1>4, <1>5 DEF LenBad
<1>8. r.op = "load" => (pr.len # 2 <=> LenBad(r, r.beats))
  BY <1>4 DEF LenBad
<1>9. Crypto(r) <=> r.op # "load" /\ r.op # "stats"
  BY <1>6 DEF Ops, Crypto
<1>10. ArgsVerdict = IF r.op = "load" /\ r.slot >= NumSlots THEN "BAD_SLOT"
                     ELSE IF Crypto(r) /\ KeyFor(pr.rx) = 0 THEN "BAD_SLOT"
                     ELSE IF r.op # "stats" /\ LenBad(r, r.beats) THEN "BAD_LENGTH"
                     ELSE "OK"
  <2>1. CASE r.op = "load"
    BY <1>4, <1>8, <1>9, <2>1 DEF ArgsVerdict
  <2>2. CASE r.op = "stats"
    BY <1>4, <1>9, <2>2 DEF ArgsVerdict
  <2>3. CASE r.op # "load" /\ r.op # "stats"
    BY <1>4, <1>6, <1>7, <1>9, <2>3 DEF ArgsVerdict
  <2> QED BY <2>1, <2>2, <2>3
<1>11. ArgsVerdict = "OK" /\ r.op # "stats" => ~LenBad(r, r.beats)
  BY <1>9, <1>10
<1>12. ~LenBad(r, r.beats) => r.beats = 2
  BY DEF LenBad
<1> QED BY <1>2, <1>4, <1>5, <1>6, <1>10, <1>11, <1>12

\* PROC moves on from the packet the slots stand for without a word to the
\* key store, or with the key that packet loads.
LEMMA JudgingStep ==
  ASSUME KeyInv, PROC
  PROVE  /\ ks_wr' # None => pr_state' = "P_ENDREQ"
         /\ Arguing' => /\ pr'.rx \in DOMAIN arrived /\ arrived[pr'.rx].hdr = "ok"
                        /\ arrived[pr'.rx].op # "unknown"
         /\ pr_state' = "P_LOADKEY" => Loads(arrived[pr'.rx], arrived[pr'.rx].slot) /\ pr'.args = pr'.rx
         /\ pr_state' = "P_ARGS" => /\ ks_rd_slot' = arrived[pr'.rx].slot
                                    /\ rd_cnt' > 1 => pr_state = "P_ARGS" /\ pr'.rx = pr.rx
         /\ \/ Judging' = Judging /\ ks_wr' = None
            \/ /\ Judging' = Judging + 1 /\ Judging \in DOMAIN arrived
               /\ \/ ks_wr' = None /\ \A s : ~Loads(arrived[Judging], s)
                  \/ ks_wr' = <<arrived[Judging].slot, Judging>> /\ Loads(arrived[Judging], arrived[Judging].slot)
<1>1. /\ KeysInForce /\ Fetched /\ DOMAIN pr = DOMAIN ProcReset /\ AnswerInv /\ Arrivals /\ pr.rx \in Nat
  BY BodyFacts, PacketInHand DEF KeyInv, AnswerInv, OrderInv, ProcInv, Fetched
<1>2. CASE PDispatch
  <2> DEFINE n == pr.rx + 1
  <2>1. /\ pr'.rx = n /\ n \in DOMAIN arrived /\ ks_wr' = None /\ ~Arguing /\ pr_state = "P_DISPATCH"
    BY <1>1, <1>2, DispatchFinds DEF PDispatch, Arguing
  <2>2. Judging = n /\ n + 1 = pr'.rx + 1
    BY <2>1 DEF Judging
  <2>3. CASE NoHeader
    <3>1. pr_state' = "P_DROP" /\ arrived[n].hdr = "short"
      BY <1>1, <1>2, <2>3, DispatchFinds
    <3>2. Judging' = n + 1 /\ ~Arguing'
      BY <2>1, <3>1 DEF Judging, Arguing
    <3> QED BY <2>1, <2>2, <3>1, <3>2 DEF Arguing, Loads
  <2>4. CASE ~NoHeader /\ HeaderStatus(arrived[n]) = "OK"
    <3>1. pr_state' = "P_ARGS" /\ rd_cnt' = 1 /\ ks_rd_slot' = arrived[n].slot /\ arrived[n].hdr # "short"
      BY <1>1, <1>2, <2>4, DispatchFinds
    <3>2. arrived[n].hdr = "ok" /\ arrived[n].op # "unknown"
      BY <1>1, <2>1, <2>4, <3>1, RequestTypes DEF HeaderStatus, Headers
    <3>3. Judging' = n
      BY <2>1, <3>1 DEF Judging, Arguing
    <3> QED BY <2>1, <2>2, <3>1, <3>2, <3>3
  <2>5. CASE ~NoHeader /\ HeaderStatus(arrived[n]) # "OK"
    <3>1. pr_state' = "P_ENDREQ"
      BY <1>1, <1>2, <2>5, DispatchFinds
    <3>2. Judging' = n + 1 /\ ~Arguing'
      BY <2>1, <3>1 DEF Judging, Arguing
    <3>3. \A s : ~Loads(arrived[n], s)
      BY <2>5 DEF Loads, HeaderStatus
    <3> QED BY <2>1, <2>2, <3>1, <3>2, <3>3 DEF Arguing
  <2> QED BY <2>3, <2>4, <2>5
<1>3. CASE PArgsRead
  <2>1. pr'.rx = pr.rx
    BY <1>1, <1>3, ArgsReadStep DEF SameBut, ProcReset, Lengths
  <2>2. pr_state = "P_ARGS" /\ pr_state' = "P_ARGS" /\ ks_wr' = None /\ ks_rd_slot' = ks_rd_slot
    BY <1>3 DEF PArgsRead, NoPulse
  <2>3. Judging' = Judging /\ pr.rx \in DOMAIN arrived
    BY <1>1, <2>1, <2>2, PacketInHand DEF Judging, Arguing, OnPacket
  <2> QED BY <1>1, <2>1, <2>2, <2>3 DEF KeysInForce, Arguing
<1>4. CASE PArgs
  <2> DEFINE r == arrived[pr.rx]
  <2>1. pr'.rx = pr.rx /\ pr'.args = pr.args
    BY <1>1, <1>4, ArgsStep DEF SameBut, ProcReset, Lengths
  <2>2. /\ pr_state = "P_ARGS" /\ Arguing /\ ks_wr' = None /\ OnPacket
    BY <1>4 DEF PArgs, NoPulse, Arguing, OnPacket
  <2>3. pr.rx \in DOMAIN arrived /\ Judging = pr.rx /\ pr.req = pr.rx /\ r.hdr = "ok" /\ r.op # "unknown"
    BY <1>1, <2>2, PacketInHand DEF Judging, KeysInForce
  <2>4. /\ ArgsVerdict = IF r.op = "load" /\ r.slot >= NumSlots THEN "BAD_SLOT"
                         ELSE IF Crypto(r) /\ KeyFor(pr.rx) = 0 THEN "BAD_SLOT"
                         ELSE IF r.op # "stats" /\ LenBad(r, r.beats) THEN "BAD_LENGTH"
                         ELSE "OK"
        /\ ArgsVerdict = "OK" /\ r.op # "stats" => r.beats = 2 /\ pr.args = pr.rx
    BY <1>4, ArgsFind
  <2>5. CASE pr_state' = "P_LOADKEY"
    <3>1. ArgsVerdict = "OK" /\ r.op = "load"
      BY <1>1, <1>4, <2>3, <2>5, ArgsStep
    <3>2. Loads(r, r.slot) /\ pr.args = pr.rx
      <4>1. ~(r.slot >= NumSlots) /\ ~LenBad(r, r.beats) /\ pr.args = pr.rx
        BY <2>4, <3>1 DEF Crypto
      <4> QED BY <1>1, <2>3, <3>1, <4>1, RequestTypes DEF Loads
    <3>3. Judging' = pr.rx
      BY <2>1, <2>5 DEF Judging, Arguing
    <3> QED BY <2>1, <2>2, <2>3, <2>5, <3>2, <3>3
  <2>6. CASE pr_state' \in {"P_ENDREQ", "P_START"}
    <3>1. \A s : ~Loads(r, s)
      <4>1. CASE r.op = "load"
        <5>1. ArgsVerdict # "OK"
          BY <1>1, <1>4, <2>3, <2>6, <4>1, ArgsStep DEF Crypto
        <5>2. r.slot >= NumSlots \/ LenBad(r, r.beats)
          BY <2>4, <4>1, <5>1 DEF Crypto
        <5> QED BY <1>1, <2>3, <5>2, RequestTypes DEF Loads
      <4> QED BY <4>1 DEF Loads
    <3>2. Judging' = pr.rx + 1 /\ ~Arguing'
      BY <2>1, <2>6 DEF Judging, Arguing
    <3> QED BY <2>2, <2>3, <2>6, <3>1, <3>2
  <2> QED BY <1>1, <1>4, <2>5, <2>6, ArgsStep
<1>5. CASE PLoadKey
  <2>1. pr'.rx = pr.rx /\ pr_state = "P_LOADKEY" /\ pr_state' = "P_ENDREQ" /\ Arguing /\ ~Arguing' /\ OnPacket
    BY <1>1, <1>5, LoadKeyStep DEF PLoadKey, SameBut, ProcReset, Lengths, Arguing, OnPacket
  <2>2. pr.rx \in DOMAIN arrived /\ pr.req = pr.rx
    BY <1>1, <2>1, PacketInHand
  <2>3. ks_wr' = <<arrived[pr.rx].slot, pr.rx>> /\ Loads(arrived[pr.rx], arrived[pr.rx].slot)
    BY <1>1, <1>5, <2>1, <2>2 DEF PLoadKey, KeysInForce
  <2>4. Judging = pr.rx /\ Judging' = pr.rx + 1
    BY <2>1 DEF Judging
  <2> QED BY <2>1, <2>2, <2>3, <2>4
<1>6. CASE PStart \/ PFeed \/ PPresent \/ PNextBlk \/ PEndReq \/ PIdle \/ PParse \/ PDrop
  <2>1. pr'.rx = pr.rx
    BY <1>1, <1>6, StartStep, FeedStep, QuietStep, NextBlkStep, ParseStep
       DEF SameBut, ProcReset, Lengths
  <2>2. ~Arguing /\ ~Arguing' /\ ks_wr' = None
    BY <1>6 DEF PStart, PFeed, PPresent, PNextBlk, PEndReq, PIdle, PParse, PDrop, NoPulse, Arguing
  <2>3. Judging' = Judging
    BY <2>1, <2>2 DEF Judging
  <2> QED BY <2>2, <2>3 DEF Arguing
<1> QED BY <1>2, <1>3, <1>4, <1>5, <1>6 DEF PROC

LEMMA NextKeysInForce == ASSUME KeyInv, Next PROVE KeysInForce'
<1>1. /\ KeysInForce /\ PROC /\ BUF /\ RX /\ AnswerInv /\ Arrivals /\ Arrivals' /\ Extends(arrived, arrived')
      /\ pr.rx \in Nat /\ pr.rx <= Len(arrived) /\ Len(arrived) \in Nat
  BY BodyFacts, PacketInHand, ArrivedGrows DEF KeyInv, AnswerInv, OrderInv, Next
<1>2. Judging \in Nat /\ Judging > 0 /\ Judging <= Len(arrived) + 1
  <2>1. Arguing => pr.rx > 0
    BY <1>1, PacketInHand DEF Arguing, OnPacket
  <2> QED BY <1>1, <2>1 DEF Judging
<1>3. DOMAIN keys' = 0..(NumSlots - 1) /\ \A s \in 0..(NumSlots - 1) : keys'[s] = KeyNow(s)
  BY <1>1 DEF BUF, KeysInForce, KeyNow
<1>4. ASSUME NEW s \in 0..(NumSlots - 1)
      PROVE  KeyNow(s)' = KeyOf(arrived', Judging', s)
  <2>1. keys'[s] = KeyOf(arrived, Judging, s)
    BY <1>1, <1>3, <1>4 DEF KeysInForce
  <2>2. KeyOf(arrived', Judging, s) = KeyOf(arrived, Judging, s)
    BY <1>1, <1>2, KeyStays
  <2>3. CASE Judging' = Judging /\ ks_wr' = None
    <3>1. KeyNow(s)' = keys'[s]
      BY <2>3 DEF KeyNow, KeyWriteHits
    <3> QED BY <2>1, <2>2, <2>3, <3>1
  <2>4. CASE /\ Judging' = Judging + 1 /\ Judging \in DOMAIN arrived
             /\ ks_wr' = None /\ \A t : ~Loads(arrived[Judging], t)
    <3>1. KeyNow(s)' = keys'[s]
      BY <2>4 DEF KeyNow, KeyWriteHits
    <3>2. ~Loads(arrived'[Judging], s)
      BY <1>1, <2>4 DEF Extends
    <3>3. KeyOf(arrived', Judging + 1, s) = KeyOf(arrived', Judging, s)
      BY <1>2, <3>2, KeyStep
    <3> QED BY <2>1, <2>2, <2>4, <3>1, <3>3
  <2>5. CASE /\ Judging' = Judging + 1 /\ Judging \in DOMAIN arrived
             /\ ks_wr' = <<arrived[Judging].slot, Judging>> /\ Loads(arrived[Judging], arrived[Judging].slot)
    <3>1. KeyNow(s)' = IF arrived[Judging].slot = s THEN Judging ELSE keys'[s]
      BY <2>5 DEF KeyNow, KeyWriteHits, None
    <3>2. Loads(arrived'[Judging], s) <=> arrived[Judging].slot = s
      <4>1. arrived'[Judging] = arrived[Judging]
        BY <1>1, <2>5 DEF Extends
      <4> QED BY <2>5, <4>1 DEF Loads
    <3>3. KeyOf(arrived', Judging + 1, s) = IF arrived[Judging].slot = s THEN Judging
                                            ELSE KeyOf(arrived', Judging, s)
      BY <1>2, <3>2, KeyStep
    <3> QED BY <2>1, <2>2, <2>5, <3>1, <3>3
  <2> QED BY <1>1, <2>3, <2>4, <2>5, JudgingStep
<1>5. /\ ks_wr' # None => pr_state' = "P_ENDREQ"
      /\ Arguing' => arrived'[pr'.rx].hdr = "ok" /\ arrived'[pr'.rx].op # "unknown"
      /\ pr_state' = "P_LOADKEY" => Loads(arrived'[pr'.rx], arrived'[pr'.rx].slot) /\ pr'.args = pr'.rx
      /\ pr_state' = "P_ARGS" => ks_rd_slot' = arrived'[pr'.rx].slot
  <2>1. Arguing' => pr'.rx \in DOMAIN arrived
    BY <1>1, JudgingStep
  <2>2. pr'.rx \in DOMAIN arrived => arrived'[pr'.rx] = arrived[pr'.rx]
    BY <1>1 DEF Extends
  <2>3. pr_state' \in {"P_ARGS", "P_LOADKEY"} <=> Arguing'
    BY DEF Arguing
  <2> QED BY <1>1, <2>1, <2>2, <2>3, JudgingStep
<1>6. ASSUME pr_state' = "P_ARGS", rd_cnt' > 1
      PROVE  rd_key' = KeyFor(pr.rx)' /\ pr'.rx = pr.rx
  <2>1. pr_state = "P_ARGS" /\ pr'.rx = pr.rx
    BY <1>1, <1>6, JudgingStep
  <2>2. ks_wr = None /\ ks_rd_slot = arrived[pr.rx].slot /\ Judging = pr.rx /\ pr.rx \in DOMAIN arrived
    BY <1>1, <2>1, PacketInHand DEF KeysInForce, Judging, Arguing, OnPacket
  <2> DEFINE s == arrived[pr.rx].slot
  <2>3. s \in Nat /\ NumSlots \in Nat
    BY <1>1, <2>2, RequestTypes
  <2>4. rd_key' = KeyOf(arrived, pr.rx, s)
    <3>1. CASE s < NumSlots
      <4>1. s \in 0..(NumSlots - 1)
        BY <2>3, <3>1
      <4>2. rd_key' = keys[s] /\ KeyNow(s) = keys[s]
        BY <1>1, <2>2, <3>1 DEF BUF, KeyNow, KeyWriteHits
      <4> QED BY <1>1, <2>2, <4>1, <4>2 DEF KeysInForce
    <3>2. CASE ~(s < NumSlots)
      <4>1. \A m : ~Loads(arrived[m], s)
        BY <3>2 DEF Loads
      <4>2. KeyOf(arrived, pr.rx, s) = 0
        BY <4>1 DEF KeyOf
      <4> QED BY <1>1, <2>2, <3>2, <4>2 DEF BUF
    <3> QED BY <3>1, <3>2
  <2>5. KeyOf(arrived', pr.rx, s) = KeyOf(arrived, pr.rx, s) /\ arrived'[pr.rx] = arrived[pr.rx]
    BY <1>1, <2>2, KeyStays DEF Extends
  <2> QED BY <2>1, <2>4, <2>5 DEF KeyFor
<1> QED BY <1>3, <1>4, <1>5, <1>6 DEF KeysInForce

LEMMA NextKey == ASSUME KeyInv, Next PROVE KeyInv'
BY NextAnswer, NextKeysInForce DEF KeyInv

LEMMA StutterKey == ASSUME KeyInv, UNCHANGED vars PROVE KeyInv'
<1>1. AnswerInv'
  BY StutterAnswer DEF KeyInv
<1>2. UNCHANGED <<arrived, pr, pr_state, rd_cnt, ks_wr, ks_rd_slot, keys, rd_key>>
  BY DEF vars, rxVars, procVars, bufVars
<1> QED BY <1>1, <1>2 DEF KeyInv, KeysInForce, KeyNow, KeyFor, Judging, Arguing


-----------------------------------------------------------------------------
(* The verdicts PROC reaches are the server's, but for the tag.            *)

\* What is wrong with request n of a before its bytes reach the engine.
Fault(a, n) ==
  LET r == a[n]
  IN  IF HeaderStatus(r) # "OK" THEN HeaderStatus(r)
      ELSE IF r.op = "stats" THEN "OK"
      ELSE IF r.op = "load" /\ r.slot >= NumSlots THEN "BAD_SLOT"
      ELSE IF Crypto(r) /\ KeyOf(a, n, r.slot) = 0 THEN "BAD_SLOT"
      ELSE IF LenBad(r, r.beats) THEN "BAD_LENGTH"
      ELSE "OK"
\* Its bytes do reach the engine.
Admitted(a, n) == a[n].hdr = "ok" /\ Crypto(a[n]) /\ Fault(a, n) = "OK"
Dropped(a, n) == {m \in 1..n : HeaderDropped(a[m])}
Drops(a, n) == Cardinality(Dropped(a, n))

LEMMA DropsStep ==
  ASSUME NEW a, NEW n \in Nat
  PROVE  /\ IsFiniteSet(Dropped(a, n)) /\ Drops(a, 0) = 0 /\ Drops(a, n) \in Nat
         /\ Drops(a, n + 1) = IF HeaderDropped(a[n + 1]) THEN Drops(a, n) + 1 ELSE Drops(a, n)
<1>1. IsFiniteSet(1..n)
  BY FS_Interval
<1>2. IsFiniteSet(Dropped(a, n))
  BY <1>1, FS_Subset DEF Dropped
<1>3. Dropped(a, 0) = {}
  BY DEF Dropped
<1>4. Dropped(a, n + 1) = IF HeaderDropped(a[n + 1]) THEN Dropped(a, n) \cup {n + 1} ELSE Dropped(a, n)
  BY DEF Dropped
<1>5. n + 1 \notin Dropped(a, n)
  BY DEF Dropped
<1>6. Cardinality(Dropped(a, n) \cup {n + 1}) = Cardinality(Dropped(a, n)) + 1
  BY <1>2, <1>5, FS_AddElement
<1>7. Cardinality(Dropped(a, n)) \in Nat /\ Cardinality({}) = 0
  BY <1>2, FS_CardinalityType, FS_EmptySet
<1> QED BY <1>2, <1>3, <1>4, <1>6, <1>7 DEF Drops

LEMMA JudgementStays ==
  ASSUME Arrivals, Extends(arrived, arrived'), NEW n \in Nat, n <= Len(arrived)
  PROVE  /\ Drops(arrived', n) = Drops(arrived, n)
         /\ n \in DOMAIN arrived =>
              /\ arrived'[n] = arrived[n] /\ KeyFor(n)' = KeyFor(n)
              /\ Fault(arrived', n) = Fault(arrived, n)
              /\ Admitted(arrived', n) <=> Admitted(arrived, n)
<1>1. \A m \in 1..n : arrived'[m] = arrived[m]
  BY DEF Arrivals, Extends
<1>2. Dropped(arrived', n) = Dropped(arrived, n)
  BY <1>1 DEF Dropped
<1>3. ASSUME n \in DOMAIN arrived
      PROVE  /\ arrived'[n] = arrived[n] /\ KeyFor(n)' = KeyFor(n)
             /\ Fault(arrived', n) = Fault(arrived, n)
             /\ Admitted(arrived', n) <=> Admitted(arrived, n)
  <2>1. arrived'[n] = arrived[n]
    BY <1>3 DEF Extends
  <2>2. \A s : KeyOf(arrived', n, s) = KeyOf(arrived, n, s)
    <3> TAKE s
    <3>1. n <= Len(arrived) + 1
      BY DEF Arrivals
    <3> QED BY <3>1, KeyStays
  <2>3. KeyFor(n)' = KeyFor(n)
    BY <2>1, <2>2 DEF KeyFor
  <2>4. Fault(arrived', n) = Fault(arrived, n)
    BY <2>1, <2>2 DEF Fault
  <2> QED BY <2>1, <2>3, <2>4 DEF Admitted
<1> QED BY <1>2, <1>3 DEF Drops


Judged ==
  /\ pr.drop = Drops(arrived, pr.rx)
  /\ pr_state = "P_ARGS" /\ rd_cnt > 5 /\ pr.lens # 0 => pr.lens_blocks = NumBlocks(arrived[pr.rx])
  /\ pr_state = "P_ENDREQ" /\ ~crypto_cmd =>
       ~Admitted(arrived, pr.rx) /\ pr.status = Fault(arrived, pr.rx)
  /\ Accepted => /\ Admitted(arrived, pr.rx)
                 /\ pr.n = NumBlocks(arrived[pr.rx]) /\ pr.i \in 1..pr.n
  /\ pr_state = "P_START" \/ eng_start => eng_key = KeyFor(pr.rx)
  /\ Accepted /\ pr_state # "P_START" => pr.t0 = pr.rx
  /\ Accepted /\ pr_state = "P_ENDREQ" /\ ~eng_err => pr.i = pr.n

JudgeInv == KeyInv /\ Judged

LEMMA InitJudge == Init => JudgeInv
<1> SUFFICES ASSUME Init PROVE Judged
  BY InitKey DEF JudgeInv
<1>1. pr_state = "P_IDLE" /\ pr.drop = 0 /\ pr.rx = 0 /\ ~eng_start
  BY DEF Init, ProcReset
<1> QED BY <1>1, DropsStep DEF Judged, Accepted, Feeding

\* The verdict on the arguments completes the verdict on the request.
LEMMA ArgsVerdictIsFault ==
  ASSUME KeyInv, PArgs
  PROVE  /\ pr.rx \in DOMAIN arrived /\ arrived[pr.rx].hdr = "ok" /\ pr.req = pr.rx /\ rd_cnt > 5
         /\ ArgsVerdict = Fault(arrived, pr.rx) /\ rd_key = KeyFor(pr.rx)
         /\ ArgsVerdict = "OK" /\ arrived[pr.rx].op # "stats" => pr.lens = pr.rx /\ pr.rx > 0
<1> DEFINE r == arrived[pr.rx]
<1>1. OnPacket /\ Arguing /\ KeysInForce /\ AnswerInv
  BY DEF PArgs, OnPacket, Arguing, KeyInv
<1>2. pr.rx \in DOMAIN arrived /\ r.hdr = "ok" /\ pr.req = pr.rx /\ r.op # "unknown" /\ pr.rx > 0
  BY <1>1, PacketInHand DEF KeysInForce
<1>3. HeaderStatus(r) = "OK"
  BY <1>2 DEF HeaderStatus
<1>4. Fault(arrived, pr.rx) = IF r.op = "stats" THEN "OK"
                              ELSE IF r.op = "load" /\ r.slot >= NumSlots THEN "BAD_SLOT"
                              ELSE IF Crypto(r) /\ KeyFor(pr.rx) = 0 THEN "BAD_SLOT"
                              ELSE IF LenBad(r, r.beats) THEN "BAD_LENGTH" ELSE "OK"
  BY <1>3 DEF Fault, KeyFor
<1>5. ArgsVerdict = Fault(arrived, pr.rx)
  <2>1. CASE r.op = "stats"
    BY <1>4, <2>1, ArgsFind DEF Crypto
  <2>2. CASE r.op # "stats"
    BY <1>4, <2>2, ArgsFind
  <2> QED BY <2>1, <2>2
<1> QED BY <1>2, <1>5, ArgsFind

\* What a step of PROC makes of the packet it is on, or of the next one.
LEMMA JudgedStep ==
  ASSUME JudgeInv, PROC
  PROVE  /\ pr'.rx \in Nat /\ pr'.rx <= Len(arrived)
         /\ OnPacket' => pr'.rx \in DOMAIN arrived
         /\ pr'.drop = Drops(arrived, pr'.rx)
         /\ pr_state' = "P_ARGS" /\ rd_cnt' > 5 /\ pr'.lens # 0 =>
              pr'.lens_blocks = NumBlocks(arrived[pr'.rx])
         /\ pr_state' = "P_ENDREQ" /\ ~crypto_cmd' =>
              ~Admitted(arrived, pr'.rx) /\ pr'.status = Fault(arrived, pr'.rx)
         /\ Accepted' => /\ Admitted(arrived, pr'.rx)
                         /\ pr'.n = NumBlocks(arrived[pr'.rx]) /\ pr'.i \in 1..pr'.n
         /\ pr_state' = "P_START" \/ eng_start' => eng_key' = KeyFor(pr'.rx)
         /\ Accepted' /\ pr_state' # "P_START" => pr'.t0 = pr'.rx
         /\ Accepted' /\ pr_state' = "P_ENDREQ" => eng_err \/ pr'.i = pr'.n
<1>1. /\ Judged /\ KeyInv /\ AnswerInv /\ DOMAIN pr = DOMAIN ProcReset /\ Fetched /\ Arrivals /\ TokenStates
      /\ pr.rx \in Nat /\ pr.rx <= Len(arrived) /\ Len(arrived) \in Nat /\ Submitted
      /\ OnPacket => pr.rx \in DOMAIN arrived /\ pr.req = pr.rx /\ pr.rx > 0
  BY BodyFacts, PacketInHand DEF JudgeInv, KeyInv, AnswerInv, OrderInv, ProcInv, Fetched
<1>2. CASE PDispatch
  <2> DEFINE n == pr.rx + 1
  <2>1. /\ pr'.rx = n /\ n \in DOMAIN arrived /\ ~crypto_cmd /\ eng_start' = FALSE
        /\ pr'.drop = IF HeaderDropped(arrived[n]) THEN pr.drop + 1 ELSE pr.drop
        /\ crypto_cmd' = crypto_cmd
    BY <1>1, <1>2, DispatchFinds DEF PDispatch, TokenStates, TokenKeep
  <2>2. n \in Nat /\ n <= Len(arrived)
    BY <1>1, <2>1, RequestTypes
  <2>3. pr'.drop = Drops(arrived, n)
    <3>1. pr.drop = Drops(arrived, pr.rx)
      BY <1>1 DEF Judged
    <3>2. Drops(arrived, pr.rx + 1) = IF HeaderDropped(arrived[pr.rx + 1]) THEN Drops(arrived, pr.rx) + 1
                                      ELSE Drops(arrived, pr.rx)
      BY <1>1, DropsStep
    <3> QED BY <2>1, <3>1, <3>2
  <2>4. pr_state' = "P_DROP" \/ (pr_state' = "P_ARGS" /\ rd_cnt' = 1)
        \/ (pr_state' = "P_ENDREQ" /\ pr'.status = HeadVerdict /\ HeadVerdict # "OK"
            /\ HeadVerdict = HeaderStatus(arrived[n]))
    BY <1>1, <1>2, DispatchFinds
  <2>5. HeaderStatus(arrived[n]) # "OK" =>
          ~Admitted(arrived, n) /\ Fault(arrived, n) = HeaderStatus(arrived[n])
    BY DEF Fault, Admitted
  <2>6. ~Accepted' /\ pr_state' # "P_START"
    BY <2>1, <2>4 DEF Accepted, Feeding
  <2> QED BY <2>1, <2>2, <2>3, <2>4, <2>5, <2>6
<1>3. CASE PArgsRead
  <2>1. /\ pr'.rx = pr.rx /\ pr'.drop = pr.drop
    BY <1>1, <1>3, ArgsReadStep DEF SameBut, ProcReset, Lengths
  <2>2. pr_state = "P_ARGS" /\ pr_state' = "P_ARGS" /\ rd_cnt' = rd_cnt + 1 /\ eng_start' = FALSE /\ OnPacket
    BY <1>3 DEF PArgsRead, NoPulse, OnPacket
  <2>3. ASSUME rd_cnt' > 5, pr'.lens # 0
        PROVE  pr'.lens_blocks = NumBlocks(arrived[pr.rx])
    <3> DEFINE q == [pr EXCEPT !.args = IF rd_cnt = 3 THEN PidAt(2) ELSE @,
                               !.lens = IF rd_cnt = 4 THEN PidAt(2) ELSE @]
    <3>1. rd_cnt \in Nat /\ rd_cnt > 4
      BY <1>1, <2>2, <2>3 DEF Fetched
    <3>2. DOMAIN q = DOMAIN ProcReset /\ q.lens = pr.lens
      BY <1>1, <3>1 DEF ProcReset
    <3>3. pr' = JudgeLengths(q)
      BY <1>3 DEF PArgsRead
    <3> HIDE DEF q
    <3>4. pr'.lens = pr.lens /\ pr'.lens_blocks = IF pr.lens = 0 THEN 1 ELSE NumBlocks(arrived[pr.lens])
      BY <3>2, <3>3, Judgement DEF SameBut, ProcReset, Lengths
    <3>5. pr.lens = PidAt(2) /\ PidAt(2) \in {0, pr.rx}
      BY <1>1, <2>2, <3>1, PacketInHand DEF Fetched
    <3> QED BY <2>3, <3>4, <3>5
  <2>4. ~Accepted'
    BY <2>2 DEF Accepted, Feeding
  <2> QED BY <1>1, <2>1, <2>2, <2>3, <2>4 DEF Judged
<1>4. CASE PArgs
  <2> DEFINE r == arrived[pr.rx]
  <2>1. /\ pr'.rx = pr.rx /\ pr'.drop = pr.drop /\ crypto_cmd' = crypto_cmd /\ ~crypto_cmd /\ eng_start' = FALSE
        /\ pr_state = "P_ARGS" /\ OnPacket
    BY <1>1, <1>4, ArgsStep DEF SameBut, ProcReset, Lengths, PArgs, TokenKeep, NoPulse, TokenStates, OnPacket
  <2>2. /\ r.hdr = "ok" /\ ArgsVerdict = Fault(arrived, pr.rx) /\ rd_key = KeyFor(pr.rx) /\ rd_cnt > 5
        /\ ArgsVerdict = "OK" /\ r.op # "stats" => pr.lens = pr.rx /\ pr.rx > 0
    BY <1>1, <1>4, ArgsVerdictIsFault
  <2>3. \/ (ArgsVerdict # "OK" \/ r.op = "stats") /\ pr_state' = "P_ENDREQ" /\ pr'.status = ArgsVerdict
        \/ pr_state' = "P_LOADKEY"
        \/ /\ ArgsVerdict = "OK" /\ Crypto(r) /\ pr_state' = "P_START"
           /\ eng_key' = rd_key /\ pr'.i = 1 /\ pr'.n = pr.lens_blocks
    BY <1>1, <1>4, <2>1, ArgsStep
  <2>4. CASE (ArgsVerdict # "OK" \/ r.op = "stats") /\ pr_state' = "P_ENDREQ" /\ pr'.status = ArgsVerdict
    <3>1. ~Admitted(arrived, pr.rx)
      BY <2>2, <2>4 DEF Admitted, Crypto
    <3> QED BY <1>1, <2>1, <2>2, <2>4, <3>1 DEF Judged, Accepted, Feeding
  <2>5. CASE pr_state' = "P_LOADKEY"
    BY <1>1, <2>1, <2>5 DEF Judged, Accepted, Feeding
  <2>6. CASE /\ ArgsVerdict = "OK" /\ Crypto(r) /\ pr_state' = "P_START"
             /\ eng_key' = rd_key /\ pr'.i = 1 /\ pr'.n = pr.lens_blocks
    <3>1. Admitted(arrived, pr.rx) /\ pr.lens # 0
      BY <1>1, <2>2, <2>6 DEF Admitted, Crypto
    <3>2. pr'.n = NumBlocks(r)
      BY <1>1, <2>1, <2>2, <2>6, <3>1 DEF Judged
    <3>3. NumBlocks(r) \in Nat /\ NumBlocks(r) > 0
      BY <1>1, <2>1, RequestTypes DEF NumBlocks
    <3> QED BY <1>1, <2>1, <2>2, <2>6, <3>1, <3>2, <3>3 DEF Judged
  <2> QED BY <2>3, <2>4, <2>5, <2>6
<1>5. CASE PLoadKey
  <2>1. /\ pr'.rx = pr.rx /\ pr'.drop = pr.drop /\ pr'.status = "OK" /\ pr_state' = "P_ENDREQ"
        /\ pr_state = "P_LOADKEY" /\ OnPacket /\ eng_start' = FALSE /\ ~crypto_cmd'
    BY <1>1, <1>5, LoadKeyStep DEF SameBut, ProcReset, Lengths, PLoadKey, TokenKeep, TokenStates, OnPacket
  <2>2. Loads(arrived[pr.rx], arrived[pr.rx].slot)
    BY <1>1, <2>1 DEF KeyInv, KeysInForce
  <2>3. pr.rx \in DOMAIN arrived /\ arrived[pr.rx].slot \in Nat /\ NumSlots \in Nat
    BY <1>1, <2>1, RequestTypes
  <2>4. ~Admitted(arrived, pr.rx) /\ Fault(arrived, pr.rx) = "OK"
    <3>1. HeaderStatus(arrived[pr.rx]) = "OK" /\ ~Crypto(arrived[pr.rx])
      BY <2>2 DEF Loads, HeaderStatus, Crypto
    <3> QED BY <2>2, <2>3, <3>1 DEF Loads, Fault, Admitted
  <2>5. ~Accepted'
    BY <2>1 DEF Accepted, Feeding
  <2> QED BY <1>1, <2>1, <2>3, <2>4, <2>5 DEF Judged
<1>6. CASE PStart
  <2>1. /\ pr'.rx = pr.rx /\ pr'.drop = pr.drop /\ pr'.n = pr.n /\ pr'.i = pr.i
        /\ pr_state' = "P_FEED" => pr'.t0 = pr.req
    BY <1>1, <1>6, StartStep DEF SameBut, ProcReset, Lengths
  <2>2. pr_state = "P_START" /\ OnPacket /\ Accepted /\ eng_key' = eng_key /\ pr_state' \in {"P_START", "P_FEED"}
    BY <1>6 DEF PStart, OnPacket, Accepted, EngKeep
  <2> QED BY <1>1, <2>1, <2>2 DEF Judged
<1>7. CASE PFeed \/ PPresent
  <2>1. /\ pr'.rx = pr.rx /\ pr'.drop = pr.drop /\ pr'.n = pr.n /\ pr'.i = pr.i /\ pr'.t0 = pr.t0
    BY <1>1, <1>7, FeedStep, QuietStep DEF SameBut, ProcReset, Lengths
  <2>2. /\ pr_state \in {"P_FEED", "P_PRESENT"} /\ OnPacket /\ Accepted /\ crypto_cmd /\ crypto_cmd' = crypto_cmd
        /\ eng_start' = FALSE
    BY <1>1, <1>7 DEF PFeed, PPresent, OnPacket, Accepted, Feeding, Submitted, TokenKeep, NoPulse
  <2>3. pr_state' \in {"P_FEED", "P_PRESENT", "P_NEXTBLK", "P_ENDREQ"} /\ (pr_state' = "P_ENDREQ" => eng_err)
    BY <1>7 DEF PFeed, PPresent
  <2> QED BY <1>1, <2>1, <2>2, <2>3 DEF Judged
<1>8. CASE PNextBlk
  <2>1. /\ pr'.rx = pr.rx /\ pr'.drop = pr.drop /\ pr'.n = pr.n /\ pr'.t0 = pr.t0
        /\ pr'.i = IF pr.i = pr.n THEN pr.i ELSE pr.i + 1
    BY <1>1, <1>8, NextBlkStep DEF SameBut, ProcReset, Lengths
  <2>2. /\ pr_state = "P_NEXTBLK" /\ OnPacket /\ Accepted /\ crypto_cmd /\ crypto_cmd' = crypto_cmd
        /\ eng_start' = FALSE
        /\ pr_state' = IF pr.i = pr.n THEN "P_ENDREQ" ELSE "P_FEED"
    BY <1>1, <1>8 DEF PNextBlk, OnPacket, Accepted, Feeding, Submitted, TokenKeep, NoPulse
  <2>3. pr.n \in Nat /\ pr.i \in 1..pr.n
    <3>1. NumBlocks(arrived[pr.rx]) \in Nat
      BY <1>1, <2>2, RequestTypes DEF NumBlocks
    <3> QED BY <1>1, <2>2, <3>1 DEF Judged
  <2>4. pr'.i \in 1..pr.n
    BY <2>1, <2>3
  <2> QED BY <1>1, <2>1, <2>2, <2>4 DEF Judged
<1>9. CASE PEndReq
  <2>1. /\ pr'.rx = pr.rx /\ pr'.drop = pr.drop /\ pr'.n = pr.n /\ pr'.i = pr.i /\ pr'.t0 = pr.t0
        /\ pr'.status = pr.status
    BY <1>1, <1>9, QuietStep DEF SameBut, ProcReset, Lengths
  <2>2. /\ pr_state = "P_ENDREQ" /\ OnPacket /\ crypto_cmd' = crypto_cmd /\ eng_start' = FALSE
        /\ pr_state' \in {"P_IDLE", "P_ENDREQ"}
    BY <1>9 DEF PEndReq, OnPacket, TokenKeep, NoPulse
  <2>3. Accepted' => Accepted
    BY <2>2 DEF Accepted, Feeding
  <2> QED BY <1>1, <2>1, <2>2, <2>3 DEF Judged
<1>10. CASE PIdle \/ PParse \/ PDrop
  <2>1. pr'.rx = pr.rx /\ pr'.drop = pr.drop
    BY <1>1, <1>10, QuietStep, ParseStep DEF SameBut, ProcReset, Lengths
  <2>2. pr_state' \in {"P_IDLE", "P_PARSE", "P_DISPATCH"} /\ eng_start' = FALSE
    BY <1>10 DEF PIdle, PParse, PDrop, NoPulse
  <2> QED BY <1>1, <2>1, <2>2 DEF Judged, Accepted, Feeding, OnPacket
<1> QED BY <1>2, <1>3, <1>4, <1>5, <1>6, <1>7, <1>8, <1>9, <1>10 DEF PROC

LEMMA NextJudged == ASSUME JudgeInv, Next PROVE Judged'
<1>1. /\ PROC /\ ENGINE /\ RX /\ Arrivals /\ Extends(arrived, arrived') /\ EngineTypes /\ EngineOwned
      /\ TokenStates /\ ControlTypeOK /\ Submitted /\ Judged
  BY BodyFacts, ArrivedGrows DEF JudgeInv, KeyInv, AnswerInv, OrderInv, Next, ProcInv
<1>2. /\ pr'.rx \in Nat /\ pr'.rx <= Len(arrived)
      /\ OnPacket' => pr'.rx \in DOMAIN arrived
  BY <1>1, JudgedStep
<1>3. /\ Drops(arrived', pr'.rx) = Drops(arrived, pr'.rx)
      /\ OnPacket' =>
           /\ arrived'[pr'.rx] = arrived[pr'.rx] /\ KeyFor(pr'.rx) = KeyOf(arrived', pr'.rx, arrived'[pr'.rx].slot)
           /\ Fault(arrived', pr'.rx) = Fault(arrived, pr'.rx)
           /\ Admitted(arrived', pr'.rx) <=> Admitted(arrived, pr'.rx)
  <2>1. PICK n \in Nat : n = pr'.rx
    BY <1>2
  <2>2. n <= Len(arrived) /\ (OnPacket' => n \in DOMAIN arrived)
    BY <1>2, <2>1
  <2>3. KeyFor(n)' = KeyOf(arrived', n, arrived'[n].slot)
    BY DEF KeyFor
  <2> QED BY <1>1, <2>1, <2>2, <2>3, JudgementStays
<1>4. Accepted' => OnPacket'
  BY DEF Accepted, Feeding, OnPacket
<1>5. Accepted' /\ pr_state' = "P_ENDREQ" /\ ~eng_err' => ~eng_err
  <2>1. eng_start => pr_state = "P_FEED"
    BY <1>1 DEF TokenStates
  <2>2. eng_err' = eng_err \/ (eng_state = "S_IDLE" /\ eng_start) \/ (eng_state = "S_ACCEPT" /\ eng_in # None)
    BY <1>1, EngineMoves DEF EngineTypes
  <2>3. eng_err => pr_state' # "P_ENDREQ" \/ ~eng_start
    BY <1>1, <2>1 DEF PROC, PIdle, PParse, PDispatch, PArgsRead, PArgs, PLoadKey, PStart, PFeed, PPresent,
       PNextBlk, PEndReq, PDrop
  <2>4. eng_err /\ ~eng_start => eng_err'
    BY <1>1 DEF ENGINE, EngIdle, EngReady, EngFin, EngWaits, EngAccept, EngAbort, EngNoBlock, EngEncrypt, EngMsgKeep
  <2> QED BY <1>1, <2>3, <2>4 DEF EngineTypes
<1>6. eng_start' => pr_state' = "P_FEED"
  BY <1>1, NextPulses, BodyFacts DEF JudgeInv, KeyInv, AnswerInv, OrderInv, ProcInv
<1> QED BY <1>1, <1>2, <1>3, <1>4, <1>5, <1>6, JudgedStep DEF Judged, KeyFor, OnPacket

LEMMA NextJudge == ASSUME JudgeInv, Next PROVE JudgeInv'
BY NextKey, NextJudged DEF JudgeInv

LEMMA StutterJudge == ASSUME JudgeInv, UNCHANGED vars PROVE JudgeInv'
<1>1. KeyInv'
  BY StutterKey DEF JudgeInv
<1>2. UNCHANGED <<arrived, pr, pr_state, rd_cnt, crypto_cmd, eng_start, eng_key, eng_err>>
  BY DEF vars, rxVars, procVars, engVars
<1> QED BY <1>1, <1>2 DEF JudgeInv, Judged, KeyFor, Accepted, Feeding, Drops, Dropped


-----------------------------------------------------------------------------
(* The engine is given the whole message of its owner, block by block.     *)

Blocks(p, k) == [i \in 1..k |-> Block(arrived[p], p, i)]
\* The engine has the first k blocks of packet p.
EngineHas(p, k) ==
  /\ eng_msg = [key |-> KeyFor(p), nonce |-> p, over |-> Blocks(p, k)]
  /\ eng_state = "S_ENC" => Ciphers(arrived[p], k) /\ eng_cur[1] = Block(arrived[p], p, k)
  /\ eng_out # None => Ciphers(arrived[p], k) /\ eng_out = Block(arrived[p], p, k)

Working == eng_owned /\ ~eng_start /\ ~eng_err
Fed == IF Feeding THEN pr.i - 1 ELSE NumBlocks(arrived[Owner])

Absorbed ==
  /\ Working => Owner \in DOMAIN arrived /\ Admitted(arrived, Owner) /\ EngineHas(Owner, Fed)
  /\ Working /\ Feeding =>
       eng_state \in {"S_KEY", "S_ACCEPT", "S_ENC", "S_WAITBUF"} /\ ~done.seen /\ ~eng_done
  /\ Working /\ ~Feeding => eng_state \in {"S_ENC", "S_WAITBUF", "S_FIN", "S_IDLE"}
  /\ Working /\ eng_state \in {"S_ENC", "S_WAITBUF"} => (eng_cur[3] <=> ~Feeding)
  /\ pr_state = "P_START" \/ eng_start => pr.i = 1
  /\ pr_state = "P_PRESENT" => pr.blk = Block(arrived[pr.rx], pr.rx, pr.i)
  /\ pr_state = "P_NEXTBLK" => /\ eng_in # None /\ eng_in[1] = Block(arrived[pr.rx], pr.rx, pr.i)
                               /\ eng_in[2] <=> Ciphers(arrived[pr.rx], pr.i)
                               /\ eng_in[3] <=> pr.i = pr.n

AbsorbInv == JudgeInv /\ Absorbed

LEMMA InitAbsorb == Init => AbsorbInv
<1> SUFFICES ASSUME Init PROVE Absorbed
  BY InitJudge DEF AbsorbInv
<1> QED BY DEF Init, Absorbed, Working, eng_owned

LEMMA BlocksGrow ==
  ASSUME NEW p, NEW k \in Nat
  PROVE  /\ Blocks(p, 0) = <<>> /\ Len(Blocks(p, k)) = k
         /\ Append(Blocks(p, k), Block(arrived[p], p, k + 1)) = Blocks(p, k + 1)
<1> DEFINE B(i) == Block(arrived[p], p, i)
           S == {B(i) : i \in Nat}
<1> HIDE DEF B
<1>1. \A n \in Nat : [i \in 1..n |-> B(i)] \in Seq(S) /\ Len([i \in 1..n |-> B(i)]) = n
  OBVIOUS
<1>2. [i \in 1..0 |-> B(i)] = <<>>
  OBVIOUS
<1>3. Append([i \in 1..k |-> B(i)], B(k + 1)) = [i \in 1..(k + 1) |-> B(i)]
  <2> DEFINE s == [i \in 1..k |-> B(i)]
             t == [i \in 1..(k + 1) |-> B(i)]
  <2>1. s \in Seq(S) /\ Len(s) = k /\ t \in Seq(S) /\ Len(t) = k + 1 /\ B(k + 1) \in S
    BY <1>1
  <2>2. \A i \in 1..k : s[i] = B(i)
    OBVIOUS
  <2>3. \A i \in 1..(k + 1) : t[i] = B(i)
    OBVIOUS
  <2> HIDE DEF s, t
  <2>4. Append(s, B(k + 1)) \in Seq(S) /\ Len(Append(s, B(k + 1))) = k + 1
    BY <2>1
  <2>5. \A i \in 1..(k + 1) : Append(s, B(k + 1))[i] = t[i]
    BY <2>1, <2>2, <2>3
  <2>6. Append(s, B(k + 1)) = t
    BY <2>1, <2>4, <2>5
  <2> QED BY <2>6 DEF s, t
<1> QED BY <1>1, <1>2, <1>3 DEF Blocks, B

LEMMA EngineKeeps ==
  ASSUME ENGINE, Arrivals, Extends(arrived, arrived'), NEW p \in DOMAIN arrived, NEW k \in Nat,
         EngineHas(p, k), eng_in = None, ~eng_start
  PROVE  EngineHas(p, k)'
<1>1. arrived'[p] = arrived[p] /\ KeyFor(p)' = KeyFor(p)
  <2>1. p \in Nat /\ p <= Len(arrived)
    BY RequestTypes
  <2> QED BY <2>1, JudgementStays
<1>2. Blocks(p, k)' = Blocks(p, k)
  BY <1>1 DEF Blocks
<1>3. eng_msg' = eng_msg /\ (eng_state' = "S_ENC" => eng_state = "S_ENC" /\ eng_cur' = eng_cur)
      /\ (eng_out' # None => eng_state = "S_ENC" /\ eng_out' = eng_cur[1])
  BY DEF ENGINE, EngIdle, EngReady, EngFin, EngWaits, EngAccept, EngAbort, EngNoBlock, EngEncrypt,
         EngMsgKeep, EngNoPulse
<1> QED BY <1>1, <1>2, <1>3 DEF EngineHas

LEMMA EngineTakes ==
  ASSUME ENGINE, EngineTypes, Arrivals, Extends(arrived, arrived'), NEW p \in DOMAIN arrived, NEW k \in Nat,
         EngineHas(p, k), eng_in # None, eng_state = "S_ACCEPT", ~eng_err, ~eng_err',
         eng_in[1] = Block(arrived[p], p, k + 1), eng_in[2] <=> Ciphers(arrived[p], k + 1)
  PROVE  EngineHas(p, k + 1)' /\ eng_cur' = eng_in /\ eng_state' \in {"S_ENC", "S_WAITBUF"} /\ ~eng_done'
<1>1. arrived'[p] = arrived[p] /\ KeyFor(p)' = KeyFor(p)
  <2>1. p \in Nat /\ p <= Len(arrived)
    BY RequestTypes
  <2> QED BY <2>1, JudgementStays
<1>2. EngAccept
  BY DEF ENGINE, EngIdle, EngReady, EngFin, EngWaits, EngAccept, EngAbort, EngNoBlock, EngEncrypt, EngineTypes
<1>3. /\ eng_msg' = [eng_msg EXCEPT !.over = Append(@, eng_in[1])] /\ eng_cur' = eng_in
      /\ eng_state' = (IF eng_in[2] THEN "S_ENC" ELSE "S_WAITBUF") /\ eng_out' = None /\ eng_done' = FALSE
  BY <1>2 DEF EngAccept, EngNoPulse
<1>4. eng_msg = [key |-> KeyFor(p), nonce |-> p, over |-> Blocks(p, k)]
  BY DEF EngineHas
<1>5. Append(Blocks(p, k), eng_in[1]) = Blocks(p, k + 1)
  BY BlocksGrow
<1>6. Blocks(p, k + 1)' = Blocks(p, k + 1)
  BY <1>1 DEF Blocks
<1> HIDE DEF Blocks
<1>7. eng_msg' = [key |-> KeyFor(p)', nonce |-> p, over |-> Blocks(p, k + 1)']
  BY <1>1, <1>3, <1>4, <1>5, <1>6
<1>8. eng_state' = "S_ENC" => Ciphers(arrived'[p], k + 1) /\ eng_cur'[1] = Block(arrived'[p], p, k + 1)
  BY <1>1, <1>3
<1> QED BY <1>3, <1>7, <1>8 DEF EngineHas


\* What PROC prepares for the engine is of its packet.
LEMMA PresentStep ==
  ASSUME AbsorbInv, PROC
  PROVE  /\ pr_state' = "P_START" \/ eng_start' => pr'.i = 1
         /\ pr_state' = "P_PRESENT" => pr'.blk = Block(arrived[pr'.rx], pr'.rx, pr'.i)
         /\ pr_state' = "P_NEXTBLK" => /\ eng_in' # None /\ eng_in'[1] = Block(arrived[pr'.rx], pr'.rx, pr'.i)
                                       /\ eng_in'[2] <=> Ciphers(arrived[pr'.rx], pr'.i)
                                       /\ eng_in'[3] <=> pr'.i = pr'.n
<1>1. /\ Absorbed /\ JudgeInv /\ KeyInv /\ AnswerInv /\ ProcInv /\ RxInv /\ Fetched /\ Submitted
      /\ DOMAIN pr = DOMAIN ProcReset /\ pr.i \in Nat
      /\ OnPacket => pr.rx \in DOMAIN arrived /\ pr.req = pr.rx
  BY BodyFacts, PacketInHand DEF AbsorbInv, JudgeInv, KeyInv, AnswerInv, OrderInv, ProcInv, Fetched
<1>2. CASE PArgs
  <2>1. eng_start' = FALSE
    BY <1>2 DEF PArgs, NoPulse
  <2> QED BY <1>1, <1>2, <2>1, ArgsStep
<1>3. CASE PStart
  <2>1. pr'.i = pr.i
    BY <1>1, <1>3, StartStep DEF SameBut, ProcReset, Lengths
  <2>2. pr_state = "P_START" /\ pr_state' \in {"P_START", "P_FEED"}
    BY <1>3 DEF PStart
  <2> QED BY <1>1, <2>1, <2>2 DEF Absorbed
<1>4. CASE PFeed
  <2>1. pr'.rx = pr.rx /\ pr'.i = pr.i
    BY <1>1, <1>4, FeedStep DEF SameBut, ProcReset, Lengths
  <2>2. pr_state = "P_FEED" /\ pr_state' \in {"P_FEED", "P_PRESENT"} /\ eng_start' = FALSE /\ OnPacket /\ Accepted
    BY <1>4 DEF PFeed, NoPulse, OnPacket, Accepted, Feeding
  <2>3. arrived[pr.req].beats = 2 /\ Frame(rxbuf[rx_rd_bank], pr.req)
    BY <1>1, <2>2 DEF Submitted, Fetched
  <2>4. BankWhole
    BY <1>1, <2>3, BufferAssumption DEF BankWhole, Frame, Holds, Cap, rx_rd_count
  <2>5. pr'.blk = Block(arrived[pr.req], pr.req, pr.i)
    BY <1>1, <1>4, <2>4, WorkStep
  <2> QED BY <1>1, <2>1, <2>2, <2>5
<1>5. CASE PPresent
  <2>1. pr'.rx = pr.rx /\ pr'.i = pr.i /\ pr'.n = pr.n /\ pr'.blk = pr.blk
    BY <1>1, <1>5, QuietStep DEF SameBut, ProcReset, Lengths
  <2>2. /\ pr_state = "P_PRESENT" /\ OnPacket /\ eng_start' = FALSE
        /\ pr_state' \in {"P_PRESENT", "P_NEXTBLK", "P_ENDREQ"}
        /\ pr_state' = "P_NEXTBLK" => ~eng_err /\ eng_in_ready
    BY <1>5 DEF PPresent, OnPacket
  <2>3. pr.blk = Block(arrived[pr.rx], pr.rx, pr.i)
    BY <1>1, <2>2 DEF Absorbed
  <2>4. ASSUME pr_state' = "P_NEXTBLK"
        PROVE  /\ eng_in' # None /\ eng_in'[1] = Block(arrived[pr'.rx], pr'.rx, pr'.i)
               /\ eng_in'[2] <=> Ciphers(arrived[pr'.rx], pr'.i)
               /\ eng_in'[3] <=> pr'.i = pr'.n
    <3>1. eng_in' = <<pr.blk, Ciphers(arrived[pr.req], pr.i), pr.i = pr.n>>
      BY <1>5, <2>2, <2>4 DEF PPresent
    <3> DEFINE C == Ciphers(arrived[pr.req], pr.i)
               L == pr.i = pr.n
    <3> HIDE DEF C, L
    <3>2. eng_in' = <<pr.blk, C, L>>
      BY <3>1 DEF C, L
    <3>3. eng_in' # None /\ eng_in'[1] = pr.blk /\ (eng_in'[2] = C) /\ (eng_in'[3] = L)
      BY <3>2 DEF None
    <3>4. (C <=> Ciphers(arrived[pr.rx], pr.i)) /\ (L <=> pr.i = pr.n)
      BY <1>1, <2>2 DEF C, L
    <3> QED BY <2>1, <2>3, <3>3, <3>4
  <2> QED BY <2>1, <2>2, <2>3, <2>4
<1>6. CASE PIdle \/ PParse \/ PDispatch \/ PArgsRead \/ PLoadKey \/ PNextBlk \/ PEndReq \/ PDrop
  BY <1>6 DEF PIdle, PParse, PDispatch, PArgsRead, PLoadKey, Refuse, PNextBlk, PEndReq, PDrop, NoPulse
<1> QED BY <1>2, <1>3, <1>4, <1>5, <1>6 DEF PROC

\* Everything the proof about the engine needs of the other invariants.
LEMMA AbsorbFacts ==
  ASSUME AbsorbInv
  PROVE  /\ Absorbed /\ Judged /\ KeyInv /\ AnswerInv /\ OrderInv /\ BodyInv /\ EngineInv /\ ProcInv /\ EngineWorks
         /\ EngineTypes /\ Submitted /\ Fetched /\ TokenStates /\ EngineOwned /\ ControlTypeOK /\ Arrivals
         /\ NothingAhead /\ Descriptors /\ BanksInterlocked
         /\ DOMAIN pr = DOMAIN ProcReset /\ pr.rx \in Nat
         /\ OnPacket => pr.rx \in DOMAIN arrived /\ pr.req = pr.rx
BY BodyFacts, PacketInHand DEF AbsorbInv, JudgeInv, KeyInv, AnswerInv, OrderInv, ProcInv, Fetched

LEMMA FeedingOwns ==
  ASSUME AbsorbInv, Feeding
  PROVE  /\ ProcOwns /\ eng_owned /\ Owner = pr.rx /\ pr.rx \in DOMAIN arrived /\ Accepted /\ OnPacket
         /\ Admitted(arrived, pr.rx) /\ pr.n = NumBlocks(arrived[pr.rx]) /\ pr.n \in Nat /\ pr.i \in 1..pr.n
<1>1. ProcOwns /\ OnPacket /\ Accepted
  BY AbsorbFacts DEF Feeding, Submitted, ProcOwns, OnPacket, Accepted
<1>2. pr.rx \in DOMAIN arrived /\ pr.req = pr.rx /\ Arrivals
  BY <1>1, AbsorbFacts
<1>3. NumBlocks(arrived[pr.rx]) \in Nat
  BY <1>2, RequestTypes DEF NumBlocks
<1> QED BY <1>1, <1>2, <1>3, AbsorbFacts DEF Judged, EngineOwned, Owner

LEMMA WorkingMoves ==
  ASSUME AbsorbInv, Next, Working'
  PROVE  eng_owned /\ Owner' = Owner /\ (eng_start \/ Working)
<1>1. EngineInv /\ ProcInv /\ NothingAhead /\ ENGINE /\ EngineTypes
  BY AbsorbFacts DEF Next
<1>2. eng_owned
  BY <1>1, TokenMoves DEF Working
<1>3. Owner' = Owner
  BY <1>1, <1>2, OwnerStays DEF Working
<1>4. eng_err /\ ~eng_start => eng_err'
  BY <1>1 DEF ENGINE, EngIdle, EngReady, EngFin, EngWaits, EngAccept, EngAbort, EngNoBlock, EngEncrypt, EngMsgKeep
<1> QED BY <1>1, <1>2, <1>3, <1>4 DEF Working, EngineTypes


\* The engine's side of a step on which nothing is started and no block given.
LEMMA EngineRuns ==
  ASSUME ENGINE, EngineTypes, eng_in = None, ~eng_start
  PROVE  /\ eng_cur' = eng_cur
         /\ eng_state = "S_KEY" => eng_state' \in {"S_KEY", "S_ACCEPT"} /\ ~eng_done'
         /\ eng_state = "S_ACCEPT" => eng_state' = "S_ACCEPT" /\ ~eng_done'
         /\ eng_state = "S_ENC" => eng_state' \in {"S_ENC", "S_WAITBUF"} /\ ~eng_done'
         /\ eng_state = "S_WAITBUF" => /\ eng_state' \in {"S_WAITBUF", IF eng_cur[3] THEN "S_FIN" ELSE "S_ACCEPT"}
                                       /\ ~eng_done'
         /\ eng_state = "S_FIN" => eng_state' \in {"S_FIN", "S_IDLE"}
         /\ eng_state = "S_IDLE" => eng_state' = "S_IDLE"
BY DEF ENGINE, EngIdle, EngReady, EngFin, EngWaits, EngAccept, EngAbort, EngNoBlock, EngEncrypt,
       EngMsgKeep, EngNoPulse

LEMMA NextWorking ==
  ASSUME AbsorbInv, Next, Working'
  PROVE  /\ Owner' \in DOMAIN arrived' /\ Admitted(arrived', Owner') /\ EngineHas(Owner, Fed)'
         /\ Feeding' => eng_state' \in {"S_KEY", "S_ACCEPT", "S_ENC", "S_WAITBUF"} /\ ~done'.seen /\ ~eng_done'
         /\ ~Feeding' => eng_state' \in {"S_ENC", "S_WAITBUF", "S_FIN", "S_IDLE"}
         /\ eng_state' \in {"S_ENC", "S_WAITBUF"} => (eng_cur'[3] <=> ~Feeding')
<1>1. /\ Absorbed /\ Judged /\ EngineWorks /\ EngineTypes /\ Submitted /\ TokenStates /\ EngineOwned /\ Arrivals
      /\ DOMAIN pr = DOMAIN ProcReset /\ PROC /\ ENGINE /\ DRAIN /\ RX /\ Extends(arrived, arrived')
  BY AbsorbFacts, ArrivedGrows DEF Next
<1>2. eng_owned /\ Owner' = Owner /\ (eng_start \/ Working) /\ ~eng_err'
  BY WorkingMoves DEF Working
<1>3. done'.seen => done.seen \/ eng_done
  BY <1>1, DoneStep DEF EngineTypes
\* What is concluded of the owner and of the blocks it has given.
<1>4. ASSUME NEW p \in DOMAIN arrived, NEW k, p = Owner, Admitted(arrived, p), EngineHas(p, k)', k = Fed'
      PROVE  Owner' \in DOMAIN arrived' /\ Admitted(arrived', Owner') /\ EngineHas(Owner, Fed)'
  <2>1. p \in Nat /\ p <= Len(arrived)
    BY <1>1, RequestTypes
  <2>2. Admitted(arrived', p) /\ p \in DOMAIN arrived'
    BY <1>1, <1>4, <2>1, JudgementStays DEF Extends
  <2>3. (p = Owner)' /\ (k = Fed)'
    BY <1>2, <1>4
  <2>4. EngineHas(Owner, Fed)'
    BY <1>4, <2>3 DEF EngineHas, Blocks, KeyFor
  <2> QED BY <1>2, <1>4, <2>2, <2>4
<1>5. CASE eng_start
  <2>1. pr_state = "P_FEED" /\ Feeding /\ eng_state = "S_IDLE" /\ ~done.seen /\ ~eng_done /\ eng_out = None
    BY <1>1, <1>5 DEF TokenStates, Feeding, EngineOwned, EngineWorks
  <2>2. PFeed
    BY <1>1, <2>1 DEF PROC, PIdle, PParse, PDispatch, PArgsRead, PArgs, PLoadKey, PStart, PFeed, PPresent,
       PNextBlk, PEndReq, PDrop
  <2>3. Feeding' /\ pr'.i = 1
    <3>1. pr'.i = pr.i /\ pr_state' \in {"P_FEED", "P_PRESENT"}
      BY <1>1, <2>2, FeedStep DEF SameBut, ProcReset, Lengths, PFeed
    <3> QED BY <1>1, <1>5, <3>1 DEF Absorbed, Feeding
  <2>4. /\ Owner = pr.rx /\ pr.rx \in DOMAIN arrived /\ Admitted(arrived, pr.rx) /\ pr.req = pr.rx
        /\ eng_key = KeyFor(pr.rx) /\ eng_nonce = pr.rx
    BY <1>1, <1>5, <2>1, FeedingOwns, AbsorbFacts DEF Judged, Submitted
  <2>5. /\ eng_msg' = [key |-> eng_key, nonce |-> eng_nonce, over |-> <<>>] /\ eng_state' = "S_KEY"
        /\ eng_out' = None /\ ~eng_done'
    BY <1>1, <1>5, <2>1 DEF ENGINE, EngIdle, EngReady, EngFin, EngWaits, EngAccept, EngAbort, EngNoBlock,
       EngEncrypt, EngNoPulse
  <2>6. PICK p \in DOMAIN arrived : p = pr.rx
    BY <2>4
  <2>7. KeyFor(p)' = KeyFor(p)
    <3>1. p \in Nat /\ p <= Len(arrived)
      BY <1>1, RequestTypes
    <3> QED BY <1>1, <3>1, JudgementStays
  <2>8. EngineHas(p, 0)'
    <3>1. Blocks(p, 0)' = <<>>
      BY DEF Blocks
    <3> QED BY <2>4, <2>5, <2>6, <2>7, <3>1 DEF EngineHas
  <2>9. Fed' = 0
    BY <2>3 DEF Fed
  <2> QED BY <1>3, <1>4, <2>1, <2>3, <2>4, <2>5, <2>6, <2>8, <2>9
<1>6. CASE Working /\ ~Feeding
  <2>1. ~Feeding' /\ eng_in = None
    <3>1. pr_state' # "P_FEED" \/ pr_state # "P_START"
      BY <1>1, <1>2 DEF PROC, PIdle, PParse, PDispatch, PArgsRead, PArgs, PLoadKey, PStart, PFeed, PPresent,
         PNextBlk, PEndReq, PDrop, CanStart
    <3>2. Feeding' => pr_state = "P_START" /\ pr_state' = "P_FEED"
      BY <1>1, <1>6 DEF PROC, PIdle, PParse, PDispatch, PArgsRead, PArgs, PLoadKey, PStart, PFeed, PPresent,
         PNextBlk, PEndReq, PDrop, Feeding, Refuse
    <3> QED BY <1>1, <1>6, <3>1, <3>2 DEF TokenStates, Feeding
  <2>2. PICK p \in DOMAIN arrived : p = Owner
    BY <1>1, <1>6 DEF Absorbed
  <2>3. p \in Nat /\ p <= Len(arrived) /\ NumBlocks(arrived[p]) \in Nat
    BY <1>1, RequestTypes DEF NumBlocks
  <2>4. PICK k \in Nat : k = NumBlocks(arrived[p])
    BY <2>3
  <2>5. Admitted(arrived, p) /\ EngineHas(p, k) /\ ~eng_start
    BY <1>1, <1>6, <2>2, <2>4 DEF Absorbed, Fed, Working
  <2>6. EngineHas(p, k)'
    BY <1>1, <2>1, <2>5, EngineKeeps
  <2>7. k = Fed'
    <3>1. arrived'[p] = arrived[p] /\ Owner' = p
      BY <1>1, <1>2, <2>2 DEF Extends
    <3> QED BY <2>1, <2>4, <3>1 DEF Fed
  <2>8. /\ eng_state' \in {"S_ENC", "S_WAITBUF", "S_FIN", "S_IDLE"}
        /\ eng_state' \in {"S_ENC", "S_WAITBUF"} => eng_cur'[3]
    <3>1. /\ eng_state \in {"S_ENC", "S_WAITBUF", "S_FIN", "S_IDLE"}
          /\ eng_state \in {"S_ENC", "S_WAITBUF"} => eng_cur[3]
      BY <1>1, <1>6 DEF Absorbed
    <3> QED BY <1>1, <2>1, <2>5, <3>1, EngineRuns
  <2> QED BY <1>4, <2>1, <2>2, <2>5, <2>6, <2>7, <2>8
<1>7. CASE Working /\ Feeding
  <2>1. PICK p \in DOMAIN arrived : p = pr.rx
    BY <1>7, FeedingOwns
  <2>2. /\ p = Owner /\ Admitted(arrived, p) /\ pr.n = NumBlocks(arrived[p]) /\ pr.n \in Nat /\ pr.i \in 1..pr.n
    BY <1>7, <2>1, FeedingOwns
  <2>3. PICK k \in Nat : k + 1 = pr.i
    <3>1. pr.i - 1 \in Nat /\ (pr.i - 1) + 1 = pr.i
      BY <2>2
    <3> QED BY <3>1
  <2>4. EngineHas(p, k) /\ ~eng_start /\ ~eng_err
    <3>1. Fed = k
      BY <1>7, <2>3 DEF Fed
    <3> QED BY <1>1, <1>7, <2>2, <3>1 DEF Absorbed, Working
  <2>5. /\ eng_state \in {"S_KEY", "S_ACCEPT", "S_ENC", "S_WAITBUF"} /\ ~done.seen /\ ~eng_done
        /\ eng_state \in {"S_ENC", "S_WAITBUF"} => ~eng_cur[3]
    BY <1>1, <1>7 DEF Absorbed
  <2>6. CASE PFeed \/ PPresent
    <3>1. eng_in = None /\ Feeding'
      BY <1>1, <2>4, <2>6 DEF TokenStates, PFeed, PPresent, Feeding
    <3>2. pr'.i = pr.i
      BY <1>1, <2>6, FeedStep, QuietStep DEF SameBut, ProcReset, Lengths
    <3>3. EngineHas(p, k)'
      BY <1>1, <2>4, <3>1, EngineKeeps
    <3>4. k = Fed'
      BY <2>3, <3>1, <3>2 DEF Fed
    <3>5. /\ eng_state' \in {"S_KEY", "S_ACCEPT", "S_ENC", "S_WAITBUF"} /\ ~eng_done'
          /\ eng_state' \in {"S_ENC", "S_WAITBUF"} => ~eng_cur'[3]
      BY <1>1, <2>4, <2>5, <3>1, EngineRuns
    <3> QED BY <1>3, <1>4, <2>2, <2>5, <3>1, <3>3, <3>4, <3>5
  <2>7. CASE PNextBlk
    <3>1. /\ eng_in # None /\ eng_in[1] = Block(arrived[p], p, k + 1)
          /\ eng_in[2] <=> Ciphers(arrived[p], k + 1)
          /\ eng_in[3] <=> pr.i = pr.n
      BY <1>1, <2>1, <2>3, <2>7 DEF PNextBlk, Absorbed
    <3>2. eng_state = "S_ACCEPT"
      BY <1>1, <3>1 DEF EngineOwned
    <3>3. EngineHas(p, k + 1)' /\ eng_cur' = eng_in /\ eng_state' \in {"S_ENC", "S_WAITBUF"} /\ ~eng_done'
      BY <1>1, <1>2, <2>4, <3>1, <3>2, EngineTakes
    <3>4. pr'.i = (IF pr.i = pr.n THEN pr.i ELSE pr.i + 1) /\ (Feeding' <=> pr.i # pr.n)
      BY <1>1, <2>7, NextBlkStep DEF PNextBlk, Feeding
    <3>5. k + 1 = Fed'
      <4>1. arrived'[p] = arrived[p] /\ Owner' = p
        BY <1>1, <1>2, <2>2 DEF Extends
      <4>2. CASE pr.i = pr.n
        BY <2>2, <2>3, <3>4, <4>1, <4>2 DEF Fed
      <4>3. CASE pr.i # pr.n
        BY <2>3, <3>4, <4>3 DEF Fed
      <4> QED BY <4>2, <4>3
    <3>6. eng_cur'[3] <=> ~Feeding'
      BY <3>1, <3>3, <3>4
    <3> QED BY <1>3, <1>4, <2>2, <2>5, <3>3, <3>5, <3>6
  <2> QED BY <1>1, <1>7, <2>6, <2>7 DEF PROC, PIdle, PParse, PDispatch, PArgsRead, PArgs, PLoadKey, PStart,
             PEndReq, PDrop, Feeding
<1> QED BY <1>2, <1>5, <1>6, <1>7

LEMMA NextAbsorbed == ASSUME AbsorbInv, Next PROVE Absorbed'
<1>1. PROC /\ RX /\ Arrivals /\ Extends(arrived, arrived') /\ JudgeInv
  BY AbsorbFacts, ArrivedGrows DEF Next, AbsorbInv
<1>2. OnPacket' => arrived'[pr'.rx] = arrived[pr'.rx]
  BY <1>1, JudgedStep DEF Extends
<1>3. /\ pr_state' = "P_START" \/ eng_start' => pr'.i = 1
      /\ pr_state' = "P_PRESENT" => pr'.blk = Block(arrived'[pr'.rx], pr'.rx, pr'.i)
      /\ pr_state' = "P_NEXTBLK" => /\ eng_in' # None /\ eng_in'[1] = Block(arrived'[pr'.rx], pr'.rx, pr'.i)
                                    /\ eng_in'[2] <=> Ciphers(arrived'[pr'.rx], pr'.i)
                                    /\ eng_in'[3] <=> pr'.i = pr'.n
  BY <1>1, <1>2, PresentStep DEF OnPacket
<1>4. Working' => /\ Owner' \in DOMAIN arrived' /\ Admitted(arrived', Owner') /\ EngineHas(Owner, Fed)'
                  /\ Feeding' => eng_state' \in {"S_KEY", "S_ACCEPT", "S_ENC", "S_WAITBUF"} /\ ~done'.seen /\ ~eng_done'
                  /\ ~Feeding' => eng_state' \in {"S_ENC", "S_WAITBUF", "S_FIN", "S_IDLE"}
                  /\ eng_state' \in {"S_ENC", "S_WAITBUF"} => (eng_cur'[3] <=> ~Feeding')
  BY NextWorking
<1> QED BY <1>3, <1>4, Zenon DEF Absorbed, None

LEMMA NextAbsorb == ASSUME AbsorbInv, Next PROVE AbsorbInv'
BY NextJudge, NextAbsorbed DEF AbsorbInv

LEMMA StutterAbsorb == ASSUME AbsorbInv, UNCHANGED vars PROVE AbsorbInv'
<1>1. JudgeInv'
  BY StutterJudge DEF AbsorbInv
<1>2. /\ UNCHANGED <<arrived, pr, pr_state, eng_in, eng_start, eng_err, eng_state, eng_msg, eng_cur, eng_out>>
      /\ UNCHANGED <<eng_done, done, eng_take_par, eng_rel_par, crypto_cmd, pd, pd_put_par, pd_get_par, dcur>>
  BY DEF vars, rxVars, procVars, engVars, drainVars
<1>3. /\ (Working' <=> Working) /\ (Feeding' <=> Feeding) /\ Owner' = Owner /\ Fed' = Fed
  BY <1>2 DEF Working, Feeding, Owner, Fed, eng_owned, ProcOwns, PdOwns, pd_valid
<1>4. EngineHas(Owner, Fed)' <=> EngineHas(Owner, Fed)
  BY <1>2, <1>3 DEF EngineHas, KeyFor, Blocks
<1> QED BY <1>1, <1>2, <1>3, <1>4 DEF AbsorbInv, Absorbed, None

-----------------------------------------------------------------------------
(* The body in the transmit bank is the owner's cipher blocks, word by     *)
(* word, as far as the engine has put them out.                            *)

\* Word j of the body of packet p.
BodyWord(p, j) == <<p, arrived[p].aad + 1 + ((j - 1) \div BlockWords)>>
Words(p, buf, n) ==
  buf \in Seq(BlocksOf(p)) /\ Len(buf) = n /\ \A j \in 1..n : buf[j] = BodyWord(p, j)

HasBody(p) == arrived[p].op \in {"seal", "open"}
Owing == IF eng_state = "S_ENC" \/ eng_out # None THEN 1 ELSE 0
\* Of k blocks of packet p given to the engine, DRAIN has taken m.
Caught(p, k, m) ==
  IF Ciphers(arrived[p], k) THEN arrived[p].aad + m + Owing = k ELSE m = 0
\* The m-th of them is written but for its last words.
Writing(p, m, n) ==
  IF dr_state = "D_WRITE" THEN n + out_left = m * BlockWords /\ m > 0 /\ outblk = <<p, arrived[p].aad + m>>
  ELSE n = m * BlockWords
Judges == dr_state \in {"D_FIN", "D_CHECK", "D_PUBLISH"}

Grown(p, k) == \E m, n \in Nat : Caught(p, k, m) /\ Writing(p, m, n) /\ Words(p, TxLanding, n)
BodyWhole(p) == ~tx_wr_clear /\ Words(p, TxLanding, arrived[p].msg * BlockWords)

BodyGrows ==
  /\ done.to = done.tag.nonce
  /\ eng_start => TxLanding = <<>> /\ dr_state = "D_IDLE"
  /\ Working /\ HasBody(Owner) /\ ~Judges => Grown(Owner, Fed)
  /\ Judges /\ dcur.crypto =>
       /\ done.tag = TagOf(arrived, dcur.pid) /\ done.to = dcur.pid
       /\ HasBody(dcur.pid) /\ (dr_state = "D_PUBLISH" => dcur.status = "OK") => BodyWhole(dcur.pid)

GrowInv == AbsorbInv /\ BodyGrows

LEMMA InitGrow == Init => GrowInv
<1> SUFFICES ASSUME Init PROVE BodyGrows
  BY InitAbsorb DEF GrowInv
<1>1. done = [seen |-> FALSE, tag |-> NoTag, to |-> 0]
  BY DEF Init
<1>2. done.to = done.tag.nonce
  BY <1>1 DEF NoTag
<1>3. ~eng_start /\ ~Working /\ ~Judges
  BY DEF Init, Working, eng_owned, Judges
<1> QED BY <1>2, <1>3 DEF BodyGrows

\* One word more, and the place of a word in its block.
LEMMA WordPlace ==
  ASSUME NEW m \in Nat, NEW n \in Nat, NEW left \in Nat, n + left = m * BlockWords,
         m > 0, 0 < left, left <= BlockWords
  PROVE  (n \div BlockWords) + 1 = m
<1>1. PICK b \in Nat : b = BlockWords /\ b > 0
  BY BlockWordsAssumption
<1>2. PICK q \in Nat : q + 1 = m
  <2>1. m - 1 \in Nat /\ (m - 1) + 1 = m
    OBVIOUS
  <2> QED BY <2>1
<1>3. m * b = q * b + b
  BY <1>2
<1>4. q * b <= n /\ n < q * b + b
  BY <1>1, <1>3
<1>5. n \div b = q
  BY <1>1, <1>4
<1> QED BY <1>1, <1>2, <1>5

LEMMA OneMoreWord ==
  ASSUME Arrivals, NEW p \in DOMAIN arrived, NEW buf, NEW n \in Nat, NEW m \in Nat, Words(p, buf, n),
         (n \div BlockWords) + 1 = m
  PROVE  Words(p, Append(buf, <<p, arrived[p].aad + m>>), n + 1)
<1>1. arrived[p].aad \in Nat
  BY RequestTypes
<1> DEFINE w == <<p, arrived[p].aad + m>>
<1>2. w \in BlocksOf(p)
  BY <1>1 DEF BlocksOf
<1>3. BodyWord(p, n + 1) = w
  <2>1. (n + 1) - 1 = n
    OBVIOUS
  <2>2. BodyWord(p, n + 1) = <<p, arrived[p].aad + 1 + (n \div BlockWords)>>
    BY <2>1 DEF BodyWord
  <2>3. n \div BlockWords \in Nat
    BY BlockWordsAssumption
  <2>4. PICK q \in Nat : q = n \div BlockWords
    BY <2>3
  <2>5. arrived[p].aad + 1 + q = arrived[p].aad + m
    BY <1>1, <2>4
  <2> QED BY <2>2, <2>4, <2>5
<1> HIDE DEF w
<1>4. buf \in Seq(BlocksOf(p)) /\ Len(buf) = n /\ \A j \in 1..n : buf[j] = BodyWord(p, j)
  BY DEF Words
<1>5. Append(buf, w) \in Seq(BlocksOf(p)) /\ Len(Append(buf, w)) = n + 1
  BY <1>2, <1>4
<1>6. \A j \in 1..(n + 1) : Append(buf, w)[j] = BodyWord(p, j)
  BY <1>3, <1>4
<1> QED BY <1>5, <1>6 DEF Words, w

LEMMA FedMoves ==
  ASSUME AbsorbInv, Next, Working, Working'
  PROVE  /\ Owner \in DOMAIN arrived /\ Fed \in Nat /\ Fed' \in Nat /\ Fed <= NumBlocks(arrived[Owner])
         /\ \/ eng_in = None /\ Fed' = Fed
            \/ /\ eng_in # None /\ eng_state = "S_ACCEPT" /\ Fed' = Fed + 1
               /\ eng_in[2] <=> Ciphers(arrived[Owner], Fed + 1)
               /\ eng_state' = IF eng_in[2] THEN "S_ENC" ELSE "S_WAITBUF"
               /\ eng_out' = None
<1>1. /\ Absorbed /\ Judged /\ EngineTypes /\ Submitted /\ TokenStates /\ EngineOwned /\ Arrivals
      /\ DOMAIN pr = DOMAIN ProcReset /\ PROC /\ ENGINE /\ RX /\ Extends(arrived, arrived')
  BY AbsorbFacts, ArrivedGrows DEF Next
<1>2. Owner' = Owner /\ ~eng_start /\ ~eng_err' /\ ~eng_err /\ eng_owned
  BY WorkingMoves DEF Working
<1>3. PICK p \in DOMAIN arrived : p = Owner
  BY <1>1 DEF Absorbed
<1>4. NumBlocks(arrived[p]) \in Nat /\ arrived'[p] = arrived[p]
  BY <1>1, RequestTypes DEF NumBlocks, Extends
<1>5. PICK t \in Nat : t = NumBlocks(arrived[p])
  BY <1>4
<1>6. CASE ~Feeding
  <2>1. ~Feeding' /\ eng_in = None
    <3>1. pr_state' # "P_FEED" \/ pr_state # "P_START"
      BY <1>1, <1>2 DEF PROC, PIdle, PParse, PDispatch, PArgsRead, PArgs, PLoadKey, PStart, PFeed, PPresent,
         PNextBlk, PEndReq, PDrop, CanStart
    <3>2. Feeding' => pr_state = "P_START" /\ pr_state' = "P_FEED"
      BY <1>1, <1>6 DEF PROC, PIdle, PParse, PDispatch, PArgsRead, PArgs, PLoadKey, PStart, PFeed, PPresent,
         PNextBlk, PEndReq, PDrop, Feeding, Refuse
    <3> QED BY <1>1, <1>6, <3>1, <3>2 DEF TokenStates, Feeding
  <2>2. Fed = t /\ Fed' = t
    BY <1>2, <1>3, <1>4, <1>5, <1>6, <2>1 DEF Fed
  <2> QED BY <1>3, <1>5, <2>1, <2>2
<1>7. CASE Feeding
  <2>1. p = pr.rx /\ pr.n = t /\ pr.i \in 1..pr.n
    BY <1>3, <1>5, <1>7, FeedingOwns
  <2>2. PICK k \in Nat : k + 1 = pr.i
    <3>1. pr.i - 1 \in Nat /\ (pr.i - 1) + 1 = pr.i
      BY <2>1
    <3> QED BY <3>1
  <2>3. Fed = k /\ k <= t
    BY <1>7, <2>1, <2>2 DEF Fed
  <2>4. CASE PFeed \/ PPresent
    <3>1. eng_in = None /\ Feeding'
      BY <1>1, <1>2, <2>4 DEF TokenStates, PFeed, PPresent, Feeding
    <3>2. pr'.i = pr.i
      BY <1>1, <2>4, FeedStep, QuietStep DEF SameBut, ProcReset, Lengths
    <3>3. Fed' = k
      BY <2>2, <3>1, <3>2 DEF Fed
    <3> QED BY <1>3, <1>5, <2>3, <3>1, <3>3
  <2>5. CASE PNextBlk
    <3>1. eng_in # None /\ (eng_in[2] <=> Ciphers(arrived[p], k + 1))
      BY <1>1, <2>1, <2>2, <2>5 DEF PNextBlk, Absorbed
    <3>2. eng_state = "S_ACCEPT"
      BY <1>1, <3>1 DEF EngineOwned
    <3>3. EngAccept
      BY <1>1, <1>2, <3>1, <3>2 DEF ENGINE, EngIdle, EngReady, EngFin, EngWaits, EngAccept, EngAbort, EngNoBlock,
         EngEncrypt, EngineTypes
    <3>4. eng_state' = (IF eng_in[2] THEN "S_ENC" ELSE "S_WAITBUF") /\ eng_out' = None
      BY <3>3 DEF EngAccept, EngNoPulse
    <3>5. pr'.i = (IF pr.i = pr.n THEN pr.i ELSE pr.i + 1) /\ (Feeding' <=> pr.i # pr.n)
      BY <1>1, <2>5, NextBlkStep DEF PNextBlk, Feeding
    <3>6. Fed' = k + 1
      <4>1. CASE pr.i = pr.n
        BY <1>2, <1>3, <1>4, <1>5, <2>1, <2>2, <3>5, <4>1 DEF Fed
      <4>2. CASE pr.i # pr.n
        BY <2>2, <3>5, <4>2 DEF Fed
      <4> QED BY <4>1, <4>2
    <3> QED BY <1>3, <1>5, <2>3, <3>1, <3>2, <3>4, <3>6
  <2> QED BY <1>1, <1>7, <2>4, <2>5 DEF PROC, PIdle, PParse, PDispatch, PArgsRead, PArgs, PLoadKey, PStart,
             PEndReq, PDrop, Feeding
<1> QED BY <1>6, <1>7

\* DRAIN catches a block the moment the engine puts it out.
LEMMA CaughtStep ==
  ASSUME GrowInv, Next, Working, Working', NEW m \in Nat, NEW p \in DOMAIN arrived, p = Owner,
         Caught(p, Fed, m)
  PROVE  \A k \in Nat : k = Fed' =>
           /\ eng_out = None => Caught(p, k, m)'
           /\ eng_out # None => Caught(p, k, m + 1)'
<1>1. /\ AbsorbInv /\ Absorbed /\ EngineWorks /\ EngineTypes /\ Arrivals /\ ENGINE /\ Extends(arrived, arrived')
  BY AbsorbFacts, ArrivedGrows DEF Next, GrowInv
<1>2. arrived'[p] = arrived[p] /\ arrived[p].aad \in Nat /\ arrived[p].msg \in Nat
  BY <1>1, RequestTypes DEF Extends
<1>3. PICK a \in Nat : a = arrived[p].aad
  BY <1>2
<1>4. PICK j \in Nat : j = Fed
  BY <1>1, FedMoves
<1>5. EngineHas(p, j) /\ ~eng_start
  BY <1>1, <1>4 DEF Absorbed, Working
<1>6. TAKE k \in Nat
<1>7. HAVE k = Fed'
<1>8. CASE eng_in = None
  <2>1. k = j
    BY <1>1, <1>4, <1>7, <1>8, FedMoves
  <2>2. eng_out # None => eng_state = "S_WAITBUF"
    BY <1>1 DEF EngineWorks
  <2>3. (eng_state' = "S_ENC" \/ eng_out' # None) <=> eng_state = "S_ENC"
    <3>1. eng_state = "S_ENC" => eng_cur[1] # None
      <4>1. ASSUME NEW o, NEW x \in BlocksOf(o) PROVE x # None
        <5>1. PICK a1 \in {o}, b1 \in Nat : x = <<a1, b1>>
          BY DEF BlocksOf
        <5>2. <<a1, b1>> # <<>>
          OBVIOUS
        <5> QED BY <5>1, <5>2 DEF None
      <4> QED BY <1>1, <4>1 DEF EngineWorks
    <3>2. CASE EngEncrypt
      BY <3>1, <3>2 DEF EngEncrypt
    <3>3. CASE EngIdle \/ EngReady \/ EngFin \/ EngWaits \/ EngNoBlock
      BY <1>5, <3>3 DEF EngIdle, EngReady, EngFin, EngWaits, EngNoBlock, EngNoPulse
    <3> QED BY <1>1, <1>8, <3>2, <3>3 DEF ENGINE, EngAccept, EngAbort
  <2>4. Owing' = (IF eng_state = "S_ENC" THEN 1 ELSE 0)
    BY <2>3 DEF Owing
  <2>5. Owing = IF eng_out # None THEN 1 ELSE Owing'
    BY <2>2, <2>4 DEF Owing
  <2>6. eng_out # None => Ciphers(arrived[p], j) /\ Owing' = 0
    BY <1>5, <2>2, <2>4 DEF EngineHas
  <2>7. PICK o \in Nat : o = Owing'
    BY <2>4
  <2>8. Caught(p, j, m)
    BY <1>4
  <2>9. CASE eng_out = None
    BY <1>2, <2>1, <2>5, <2>8, <2>9 DEF Caught
  <2>10. CASE eng_out # None
    <3>1. Ciphers(arrived[p], j) /\ a + m + 1 = j /\ o = 0
      BY <1>3, <2>5, <2>6, <2>7, <2>8, <2>10 DEF Caught
    <3>2. a + (m + 1) + o = j
      BY <3>1
    <3> QED BY <1>2, <1>3, <2>1, <2>7, <2>10, <3>1, <3>2 DEF Caught
  <2> QED BY <2>9, <2>10
<1>9. CASE eng_in # None
  <2>1. /\ eng_state = "S_ACCEPT" /\ k = j + 1 /\ (eng_in[2] <=> Ciphers(arrived[p], j + 1))
        /\ eng_state' = (IF eng_in[2] THEN "S_ENC" ELSE "S_WAITBUF") /\ eng_out' = None
    BY <1>1, <1>4, <1>7, <1>9, FedMoves
  <2>2. eng_out = None /\ Owing = 0
    BY <1>1, <2>1 DEF EngineWorks, Owing
  <2>3. Owing' = IF Ciphers(arrived[p], k) THEN 1 ELSE 0
    BY <2>1 DEF Owing
  <2>4. IF Ciphers(arrived[p], j) THEN a + m = j ELSE m = 0
    BY <1>3, <1>4, <2>2 DEF Caught
  <2>5. PICK g \in Nat : g = arrived[p].msg
    BY <1>2
  <2>6. /\ Ciphers(arrived[p], j) <=> (g > 0 /\ j > a)
        /\ Ciphers(arrived[p], k) <=> (g > 0 /\ k > a)
    BY <1>3, <2>5 DEF Ciphers
  <2>7. IF Ciphers(arrived[p], k) THEN a + m + 1 = k ELSE m = 0
    BY <2>1, <2>4, <2>6
  <2> QED BY <1>2, <1>3, <2>2, <2>3, <2>7 DEF Caught
<1> QED BY <1>8, <1>9

\* The words of a body fit the bank, so none of them is lost.
LEMMA RoomForBody ==
  ASSUME Arrivals, NEW p \in DOMAIN arrived, HasBody(p), NEW j \in Nat, NEW m \in Nat,
         j <= NumBlocks(arrived[p]), m > 0, Caught(p, j, m)
  PROVE  m <= arrived[p].msg /\ m * BlockWords <= BufWords
<1>1. PICK a, g, b \in Nat : a = arrived[p].aad /\ g = arrived[p].msg /\ b = BlockWords
  BY RequestTypes, BlockWordsAssumption
<1>2. PICK o \in Nat : o = Owing
  BY DEF Owing
<1>3. NumBlocks(arrived[p]) = IF a + g = 0 THEN 1 ELSE a + g
  BY <1>1 DEF NumBlocks
<1>4. a + m + o = j /\ g > 0
  BY <1>1, <1>2 DEF Caught, Ciphers
<1>5. m <= g
  BY <1>3, <1>4
<1>6. m * b <= g * b
  BY <1>5
<1>7. arrived[p].msg * BlockWords <= BufWords
  BY BodyFitsAssumption DEF HasBody, Arrivals
<1>8. m * b <= BufWords
  <2>1. g * b <= BufWords /\ g * b \in Nat /\ m * b \in Nat
    BY <1>1, <1>7
  <2> QED BY <1>6, <2>1, BufferAssumption
<1> QED BY <1>1, <1>5, <1>8

LEMMA GrowFacts ==
  ASSUME GrowInv
  PROVE  /\ AbsorbInv /\ BodyGrows /\ Absorbed /\ Judged /\ BodyInv /\ EngineInv /\ EngineWorks /\ EngineTypes
         /\ TokenStates /\ EngineOwned /\ ControlTypeOK /\ Arrivals /\ NothingAhead /\ Descriptors
         /\ DrainInTime /\ TxBankHolds /\ BodyReady
BY AbsorbFacts, BodyFacts DEF GrowInv

LEMMA GrownStep ==
  ASSUME GrowInv, Next, Working, Working', ~Judges, ~Judges', HasBody(Owner)
  PROVE  Grown(Owner, Fed)'
<1>1. /\ AbsorbInv /\ BodyGrows /\ Absorbed /\ Arrivals /\ ControlTypeOK /\ BodyInv /\ DrainInTime
      /\ DRAIN /\ RX /\ Extends(arrived, arrived') /\ EngineOwned' /\ NothingAhead'
  BY GrowFacts, ArrivedGrows, NextToken, NextNothingAhead DEF Next, EngineInv, ProcInv, TokenInv
<1>2. PICK p \in DOMAIN arrived : p = Owner
  BY <1>1, FedMoves
<1>3. PICK j, k \in Nat : j = Fed /\ k = Fed' /\ j <= NumBlocks(arrived[p])
  BY <1>1, <1>2, FedMoves
<1>4. PICK m, n \in Nat : Caught(p, j, m) /\ Writing(p, m, n) /\ Words(p, TxLanding, n)
  <2>1. Grown(p, j)
    BY <1>1, <1>2, <1>3 DEF BodyGrows
  <2> QED BY <2>1 DEF Grown
<1>5. Owner' = p /\ arrived'[p] = arrived[p] /\ HasBody(p)
  BY <1>1, <1>2, WorkingMoves DEF Extends
<1>6. dr_state \in {"D_IDLE", "D_WRITE"} /\ dr_state' \in {"D_IDLE", "D_WRITE"}
  <2>1. dr_state # "D_CLEAR" /\ eng_owned /\ eng_owned'
    BY GrowFacts DEF NothingAhead, Working
  <2>2. dr_state' # "D_CLEAR"
    BY <1>1, <2>1 DEF NothingAhead
  <2>3. ControlTypeOK'
    BY <1>1, NextControl
  <2> QED BY <1>1, <2>1, <2>2, <2>3 DEF Judges, ControlTypeOK
<1>7. TxLanding' = Written(TxLanding, tx_wr_clear', tx_wr', BufWords)
  BY <1>1, <1>6, TxPortStep
<1>8. /\ eng_out = None => Caught(p, k, m)'
      /\ eng_out # None => Caught(p, k, m + 1)'
  BY <1>2, <1>3, <1>4, CaughtStep
<1>9. PICK b \in Nat : b = BlockWords /\ b > 0
  BY BlockWordsAssumption
\* It is enough to say what was taken, what is being written and what landed.
<1>10. ASSUME NEW x \in Nat, NEW y \in Nat, Caught(p, k, x)', Writing(p, x, y)', Words(p, TxLanding', y)
       PROVE  Grown(Owner, Fed)'
  <2>1. Words(p, TxLanding, y)'
    BY <1>5, <1>10 DEF Words, BodyWord
  <2>2. (Owner = p)' /\ (Fed = k)'
    BY <1>3, <1>5
  <2>3. Caught(Owner, Fed, x)' /\ Writing(Owner, x, y)' /\ Words(Owner, TxLanding, y)'
    BY <1>10, <2>1, <2>2 DEF Caught, Writing, Words, BodyWord, BlocksOf, Owing
  <2> QED BY <2>3 DEF Grown
<1>11. CASE eng_out # None
  <2>1. dr_state = "D_IDLE" /\ DCatch
    BY <1>1, <1>6, <1>11 DEF DrainInTime, DRAIN, DCatch, DTake, DResult, DIdle, DWrite, DFin, DCheck, DPublish, DClear
  <2>2. /\ outblk' = eng_out /\ out_left' = b /\ dr_state' = "D_WRITE"
        /\ tx_wr' = None /\ tx_wr_clear' = FALSE
    BY <1>9, <2>1 DEF DCatch, DNoPulse
  <2>3. Ciphers(arrived[p], j) /\ eng_out = Block(arrived[p], p, j)
    BY <1>1, <1>2, <1>3, <1>11 DEF Absorbed, EngineHas
  <2>4. eng_out = <<p, j>>
    BY <1>5, <2>3 DEF Block, HasBody
  <2>5. arrived[p].aad + m + 1 = j
    BY <1>4, <1>11, <2>3 DEF Caught, Owing
  <2>6. PICK a \in Nat : a = arrived[p].aad
    BY <1>1, RequestTypes
  <2>7. j = a + (m + 1)
    BY <2>5, <2>6
  <2>8. n = m * b
    BY <1>4, <1>9, <2>1 DEF Writing
  <2>9. n + b = (m + 1) * b
    BY <2>8
  <2>10. Writing(p, m + 1, n)'
    BY <1>5, <1>9, <2>2, <2>4, <2>6, <2>7, <2>9 DEF Writing
  <2>11. TxLanding' = TxLanding
    BY <1>7, <2>2 DEF Written
  <2> QED BY <1>4, <1>8, <1>10, <1>11, <2>10, <2>11
<1>12. CASE eng_out = None /\ dr_state = "D_IDLE"
  <2>1. dr_state' = "D_IDLE" /\ tx_wr' = None /\ tx_wr_clear' = FALSE
    BY <1>1, <1>6, <1>12 DEF DRAIN, DCatch, DTake, DResult, DIdle, DWrite, DFin, DCheck, DPublish, DClear, DNoPulse
  <2>2. TxLanding' = TxLanding
    BY <1>7, <2>1 DEF Written
  <2>3. Writing(p, m, n)'
    BY <1>4, <1>12, <2>1 DEF Writing
  <2> QED BY <1>4, <1>8, <1>10, <1>12, <2>2, <2>3
<1>13. CASE eng_out = None /\ dr_state = "D_WRITE"
  <2>1. PICK left \in Nat : left = out_left /\ left <= b
    BY <1>1, <1>9 DEF DrainInTime
  <2>2. n + left = m * BlockWords /\ m > 0 /\ outblk = <<p, arrived[p].aad + m>>
    BY <1>4, <1>13, <2>1 DEF Writing
  <2>3. DWrite
    BY <1>1, <1>13 DEF DRAIN, DCatch, DTake, DResult, DIdle, DWrite, DFin, DCheck, DPublish, DClear
  <2>4. CASE left > 0
    <3>1. /\ tx_wr' = outblk /\ out_left' + 1 = left /\ out_left' \in Nat /\ dr_state' = "D_WRITE" /\ tx_wr_clear' = FALSE
          /\ outblk' = outblk
      BY <2>1, <2>3, <2>4 DEF DWrite
    <3>2. PICK q \in Nat : q = out_left' /\ q + 1 = left
      BY <3>1
    <3>3. m * BlockWords <= BufWords
      BY <1>1, <1>3, <1>4, <1>5, <2>2, RoomForBody
    <3>4. Len(TxLanding) = n
      BY <1>4 DEF Words
    <3>5. n < BufWords
      <4>1. m * b \in Nat /\ n + left = m * b /\ m * b <= BufWords /\ BufWords \in Nat
        BY <1>9, <2>2, <3>3, BufferAssumption
      <4> QED BY <2>4, <4>1
    <3>6. outblk # None
      BY <2>2 DEF None
    <3>7. TxLanding' = Append(TxLanding, <<p, arrived[p].aad + m>>)
      BY <1>7, <2>2, <3>1, <3>4, <3>5, <3>6 DEF Written
    <3>8. (n \div BlockWords) + 1 = m
      BY <1>9, <2>1, <2>2, <2>4, WordPlace
    <3>9. Words(p, TxLanding', n + 1)
      BY <1>1, <1>4, <3>7, <3>8, OneMoreWord
    <3>10. (n + 1) + q = m * BlockWords
      <4>1. PICK w \in Nat : w = m * BlockWords
        BY <1>9
      <4>2. n + (q + 1) = w
        BY <2>2, <3>2, <4>1
      <4>3. (n + 1) + q = w
        BY <4>2
      <4> QED BY <4>1, <4>3
    <3>11. Writing(p, m, n + 1)'
      BY <1>5, <2>2, <3>1, <3>2, <3>10 DEF Writing
    <3> QED BY <1>8, <1>10, <1>13, <3>9, <3>11
  <2>5. CASE left = 0
    <3>1. dr_state' = "D_IDLE" /\ tx_wr' = None /\ tx_wr_clear' = FALSE
      BY <2>1, <2>3, <2>5 DEF DWrite
    <3>2. TxLanding' = TxLanding
      BY <1>7, <3>1 DEF Written
    <3>3. n = m * BlockWords
      <4>1. m * BlockWords \in Nat
        BY <1>9
      <4> QED BY <2>2, <2>5, <4>1
    <3>4. Writing(p, m, n)'
      BY <3>1, <3>3 DEF Writing
    <3> QED BY <1>4, <1>8, <1>10, <1>13, <3>2, <3>4
  <2> QED BY <2>1, <2>4, <2>5
<1> QED BY <1>6, <1>11, <1>12, <1>13

LEMMA DoneTo ==
  ASSUME DRAIN, EngineTypes, done.to = done.tag.nonce
  PROVE  done'.to = done'.tag.nonce
<1> DEFINE c == [seen |-> TRUE, tag |-> eng_msg, to |-> eng_msg.nonce]
<1>1. DOMAIN c = {"seen", "tag", "to"} /\ c.to = c.tag.nonce
  OBVIOUS
<1> HIDE DEF c
<1>2. CaughtDone = c \/ CaughtDone = done
  BY DEF CaughtDone, c
<1>3. CaughtDone.to = CaughtDone.tag.nonce /\ DOMAIN CaughtDone = {"seen", "tag", "to"}
  BY <1>1, <1>2 DEF EngineTypes
<1>4. done' = CaughtDone \/ done' = [CaughtDone EXCEPT !.seen = FALSE]
  BY DEF DRAIN, DCatch, DTake, DResult, DIdle, DWrite, DFin, DCheck, DPublish, DClear, CatchDone
<1> QED BY <1>3, <1>4

\* The engine starts on an empty bank.
LEMMA StartsEmpty ==
  ASSUME GrowInv, Next
  PROVE  /\ eng_start' => TxLanding' = <<>> /\ dr_state' = "D_IDLE"
         /\ eng_start => TxLanding' = <<>> /\ dr_state' = "D_IDLE"
<1>1. /\ BodyGrows /\ BodyInv /\ ProcInv /\ NothingAhead /\ EngineWorks /\ ControlTypeOK /\ TokenStates /\ EngineOwned
      /\ DrainInTime /\ TxBankHolds /\ DRAIN /\ ENGINE /\ EngineTypes /\ NothingAhead' /\ EngineOwned' /\ ControlTypeOK'
  BY GrowFacts, BodyFacts, NextNothingAhead, NextToken, NextControl DEF Next, ProcInv, TokenInv
<1>2. ASSUME eng_start' PROVE TxLanding' = <<>> /\ dr_state' = "D_IDLE"
  <2>1. ~eng_owned /\ eng_owned' /\ CanStart
    BY <1>1, <1>2, TokenMoves
  <2>2. ~pd_valid /\ ~dcur_valid /\ eng_out = None /\ dr_state # "D_WRITE" /\ dr_state' # "D_CLEAR"
    BY <1>1, <2>1 DEF CanStart, drain_empty, EngineWorks, Live, DrainInTime, NothingAhead
  <2>3. dr_state \in {"D_IDLE", "D_CLEAR"}
    BY <1>1, <2>2 DEF TokenStates, ControlTypeOK
  <2>4. dr_state' = "D_IDLE" /\ tx_wr' = None
    BY <1>1, <2>2, <2>3 DEF DRAIN, DCatch, DTake, DResult, HasResult, DIdle, DWrite, DFin, DCheck, DPublish, DClear,
       DNoPulse
  <2>5. TxLanding' = Written(TxLanding, tx_wr_clear', tx_wr', BufWords)
    BY <1>1, <2>4, TxPortStep
  <2>6. CASE dr_state = "D_CLEAR"
    BY <1>1, <2>4, <2>5, <2>6, TxPortStep DEF Written
  <2>7. CASE dr_state = "D_IDLE"
    BY <1>1, <2>1, <2>4, <2>5, <2>7 DEF TxBankHolds, Written
  <2> QED BY <2>3, <2>4, <2>6, <2>7
<1>3. ASSUME eng_start PROVE TxLanding' = <<>> /\ dr_state' = "D_IDLE"
  <2>1. TxLanding = <<>> /\ dr_state = "D_IDLE" /\ pr_state = "P_FEED" /\ eng_owned /\ eng_state = "S_IDLE"
    BY <1>1, <1>3 DEF BodyGrows, TokenStates, EngineWorks, Live, EngineOwned
  <2>2. Feeding /\ AbsorbInv
    BY <2>1 DEF Feeding, GrowInv
  <2>3. ~dcur_valid /\ ~pd_valid /\ eng_out = None
    BY <1>1, <1>3, <2>1, <2>2, FeedingOwns DEF NothingAhead, EngineWorks
  <2>4. dr_state' = "D_IDLE" /\ tx_wr' = None /\ tx_wr_clear' = FALSE
    BY <1>1, <2>1, <2>3 DEF DRAIN, DCatch, DTake, DResult, HasResult, DIdle, DWrite, DFin, DCheck, DPublish, DClear,
       DNoPulse
  <2> QED BY <1>1, <2>1, <2>4, TxPortStep DEF Written
<1> QED BY <1>2, <1>3

LEMMA NextGrown ==
  ASSUME GrowInv, Next, Working', HasBody(Owner)', ~Judges'
  PROVE  Grown(Owner, Fed)'
<1>1. /\ AbsorbInv /\ Absorbed /\ Arrivals /\ ControlTypeOK /\ DRAIN /\ RX /\ PROC /\ Extends(arrived, arrived') /\ NothingAhead'
      /\ TokenStates /\ Judged /\ DOMAIN pr = DOMAIN ProcReset /\ EngineWorks /\ ENGINE
  BY GrowFacts, AbsorbFacts, ArrivedGrows, NextNothingAhead DEF Next
<1>2. eng_owned /\ Owner' = Owner /\ (eng_start \/ Working)
  BY <1>1, WorkingMoves
<1>3. ~Judges
  <2>1. eng_owned'
    BY DEF Working
  <2>2. dr_state' # "D_CLEAR"
    BY <1>1, <2>1 DEF NothingAhead
  <2> QED BY <1>1, <2>2 DEF Judges, DRAIN, DCatch, DTake, DResult, DIdle, DWrite, DFin, DCheck, DPublish, DClear
<1>4. CASE Working
  <2>1. Owner \in DOMAIN arrived
    BY <1>1, <1>4 DEF Absorbed
  <2>2. HasBody(Owner)
    BY <1>1, <1>2, <2>1 DEF HasBody, Extends
  <2> QED BY <1>3, <1>4, <2>2, GrownStep
<1>5. CASE eng_start
  <2>1. pr_state = "P_FEED" /\ Feeding /\ pr.i = 1
    BY <1>1, <1>5 DEF TokenStates, Feeding, Absorbed
  <2>2. PICK p \in DOMAIN arrived : p = Owner /\ p = pr.rx
    BY <1>1, <2>1, FeedingOwns
  <2>3. PFeed
    BY <1>1, <2>1 DEF PROC, PIdle, PParse, PDispatch, PArgsRead, PArgs, PLoadKey, PStart, PFeed, PPresent,
       PNextBlk, PEndReq, PDrop
  <2>4. Fed' = 0
    <3>1. pr'.i = pr.i /\ pr_state' \in {"P_FEED", "P_PRESENT"}
      BY <1>1, <2>3, FeedStep DEF SameBut, ProcReset, Lengths, PFeed
    <3> QED BY <2>1, <3>1 DEF Fed, Feeding
  <2>5. TxLanding' = <<>> /\ dr_state' = "D_IDLE"
    BY <1>5, StartsEmpty
  <2>6. arrived'[p] = arrived[p] /\ arrived[p].aad \in Nat
    BY <1>1, RequestTypes DEF Extends
  <2>7. ~Ciphers(arrived'[p], 0)
    BY <2>6 DEF Ciphers
  <2>8. Caught(p, 0, 0)'
    BY <2>7 DEF Caught
  <2>9. Writing(p, 0, 0)'
    <3>1. 0 * BlockWords = 0
      BY BlockWordsAssumption
    <3> QED BY <2>5, <3>1 DEF Writing
  <2>10. Words(p, TxLanding, 0)'
    <3>1. <<>> \in Seq(BlocksOf(p)) /\ Len(<<>>) = 0
      OBVIOUS
    <3> QED BY <2>5, <3>1 DEF Words, BlocksOf
  <2>11. (Owner = p)' /\ (Fed = 0)'
    BY <1>2, <2>2, <2>4
  <2>12. Caught(Owner, Fed, 0)' /\ Writing(Owner, 0, 0)' /\ Words(Owner, TxLanding, 0)'
    BY <2>8, <2>9, <2>10, <2>11 DEF Caught, Writing, Words, BodyWord, BlocksOf, Owing
  <2> QED BY <2>12 DEF Grown
<1> QED BY <1>2, <1>4, <1>5

LEMMA JudgingFacts ==
  ASSUME GrowInv, Judges, dcur.crypto
  PROVE  /\ DrainOwns /\ eng_owned /\ Owner = dcur.pid /\ dcur.pid \in DOMAIN arrived /\ ~Live
         /\ Promises(dcur)
<1>1. TokenStates /\ Descriptors /\ EngineOwned /\ EngineWorks
  BY GrowFacts
<1>2. dcur_valid /\ Promises(dcur) /\ dcur.pid \in DOMAIN arrived
  BY <1>1 DEF TokenStates, Judges, Descriptors
<1>3. DrainOwns
  BY <1>2 DEF DrainOwns, Promises
<1> QED BY <1>1, <1>2, <1>3, OwnerIsDrains DEF EngineWorks, Judges

\* The verdict begins on the whole body and on the tag of the packet.
LEMMA BeginsJudging ==
  ASSUME GrowInv, Next, ~Judges, Judges', dcur'.crypto
  PROVE  /\ done'.tag = TagOf(arrived', dcur'.pid) /\ done'.to = dcur'.pid
         /\ HasBody(dcur.pid)' => BodyWhole(dcur.pid)'
<1>1. /\ AbsorbInv /\ BodyGrows /\ Absorbed /\ Arrivals /\ EngineWorks /\ EngineTypes /\ DRAIN /\ RX /\ BodyInv
      /\ Extends(arrived, arrived') /\ Descriptors /\ EngineOwned /\ arrived \in Seq(Requests)
  BY GrowFacts, ArrivedGrows DEF Next, Arrivals
<1>2. /\ dr_state = "D_IDLE" /\ dr_state' = "D_FIN" /\ eng_out = None /\ HasResult /\ dcur' = dcur
      /\ tx_wr' = None /\ tx_wr_clear' = FALSE /\ tx_wr_bank' = tx_wr_bank
  BY <1>1 DEF Judges, DRAIN, DCatch, DTake, DResult, DIdle, DWrite, DFin, DCheck, DPublish, DClear, DNoPulse,
     DKeepRsp
<1>3. dcur_valid /\ done.seen /\ dcur.crypto
  BY <1>2 DEF HasResult
<1>4. DrainOwns
  BY <1>1, <1>3 DEF Descriptors, Promises, DrainOwns
<1>5. eng_owned /\ Owner = dcur.pid
  BY <1>1, <1>4, OwnerIsDrains
<1>6. ~eng_start /\ ~eng_done /\ eng_state = "S_IDLE" /\ done.tag = eng_msg /\ ~eng_err
  BY <1>1, <1>3, <1>4 DEF EngineWorks
<1>7. Working /\ ~Feeding
  BY <1>1, <1>3, <1>5, <1>6 DEF Working, Absorbed
<1>8. PICK p \in DOMAIN arrived : p = Owner
  BY <1>1, <1>7 DEF Absorbed
<1>9. arrived'[p] = arrived[p] /\ TagOf(arrived', p) = TagOf(arrived, p)
  BY <1>1, TagsSettled DEF Extends
<1>10. PICK a, g, t \in Nat : a = arrived[p].aad /\ g = arrived[p].msg /\ t = NumBlocks(arrived[p])
  <2>1. arrived[p].aad \in Nat /\ arrived[p].msg \in Nat
    BY <1>1, RequestTypes
  <2>2. NumBlocks(arrived[p]) \in Nat
    BY <2>1 DEF NumBlocks
  <2> QED BY <2>1, <2>2
<1>11. Fed = t
  BY <1>7, <1>8, <1>10 DEF Fed
<1>12. eng_msg = TagOf(arrived, p)
  <2>1. EngineHas(p, t)
    BY <1>1, <1>7, <1>8, <1>11 DEF Absorbed
  <2> QED BY <1>10, <2>1 DEF EngineHas, TagOf, KeyFor, Blocks
<1>13. done'.tag = eng_msg /\ done'.to = p
  <2>1. done'.tag = done.tag
    BY <1>1, <1>6, DoneStep DEF EngineTypes
  <2>2. done'.to = done'.tag.nonce
    BY <1>1, DoneTo DEF BodyGrows
  <2>3. TagOf(arrived, p).nonce = p
    BY DEF TagOf
  <2> QED BY <1>6, <1>12, <2>1, <2>2, <2>3
<1>14. ASSUME HasBody(p)' PROVE BodyWhole(p)'
  <2>1. HasBody(Owner) /\ HasBody(p)
    BY <1>8, <1>9, <1>14 DEF HasBody
  <2>2. PICK m, n \in Nat : Caught(p, t, m) /\ Writing(p, m, n) /\ Words(p, TxLanding, n)
    BY <1>1, <1>7, <1>8, <1>11, <2>1 DEF BodyGrows, Grown
  <2>3. Owing = 0
    BY <1>2, <1>6 DEF Owing
  <2>4. IF g > 0 /\ t > a THEN a + m = t ELSE m = 0
    BY <1>10, <2>2, <2>3 DEF Caught, Ciphers
  <2>5. t = IF a + g = 0 THEN 1 ELSE a + g
    BY <1>10 DEF NumBlocks
  <2>6. m = g
    BY <2>4, <2>5
  <2>7. n = arrived[p].msg * BlockWords
    BY <1>2, <1>10, <2>2, <2>6 DEF Writing
  <2>8. TxLanding' = TxLanding
    BY <1>1, <1>2, TxPortStep DEF Written
  <2>9. Words(p, TxLanding, n)'
    BY <1>9, <2>2, <2>8 DEF Words, BodyWord
  <2>10. (n = arrived[p].msg * BlockWords)'
    BY <1>9, <2>7
  <2> QED BY <1>2, <2>9, <2>10 DEF BodyWhole
<1>15. (dcur.pid = p)'
  BY <1>2, <1>5, <1>8
<1>16. HasBody(dcur.pid)' => BodyWhole(dcur.pid)'
  BY <1>14, <1>15 DEF HasBody, BodyWhole, Words, BodyWord
<1> QED BY <1>9, <1>12, <1>13, <1>15, <1>16

LEMMA KeepsJudging ==
  ASSUME GrowInv, Next, Judges, Judges', dcur'.crypto
  PROVE  /\ done'.tag = TagOf(arrived', dcur'.pid) /\ done'.to = dcur'.pid
         /\ HasBody(dcur.pid)' /\ (dr_state' = "D_PUBLISH" => dcur'.status = "OK") => BodyWhole(dcur.pid)'
<1>1. /\ BodyGrows /\ Arrivals /\ EngineTypes /\ DRAIN /\ RX /\ BodyInv /\ ControlTypeOK
      /\ Extends(arrived, arrived') /\ arrived \in Seq(Requests)
  BY GrowFacts, ArrivedGrows DEF Next, Arrivals
<1>2. /\ dcur'.pid = dcur.pid /\ dcur.crypto /\ tx_wr' = None /\ tx_wr_bank' = tx_wr_bank /\ ~DTake /\ ~DResult
  <2>1. ~DTake /\ ~DResult
    BY DEF Judges, DTake, DResult
  <2>2. tx_wr' = None /\ tx_wr_bank' = tx_wr_bank
    BY <1>1 DEF Judges, DRAIN, DCatch, DTake, DResult, DIdle, DWrite, DFin, DCheck, DPublish, DClear, DNoPulse,
       DKeepRsp
  <2> QED BY <1>1, <2>1, <2>2, DescStep
<1>3. PICK p \in DOMAIN arrived : p = dcur.pid
  BY <1>2, JudgingFacts
<1>4. ~eng_done /\ done.tag = TagOf(arrived, p) /\ done.to = p
  BY <1>1, <1>2, <1>3, JudgingFacts DEF Live, BodyGrows
<1>5. arrived'[p] = arrived[p] /\ TagOf(arrived', p) = TagOf(arrived, p)
  BY <1>1, TagsSettled DEF Extends
<1>6. done'.tag = done.tag
  BY <1>1, <1>4, DoneStep DEF EngineTypes
<1>7. done'.to = p
  <2>1. done'.to = done'.tag.nonce /\ done.to = done.tag.nonce
    BY <1>1, DoneTo DEF BodyGrows
  <2> QED BY <1>4, <1>6, <2>1
<1>8. ASSUME HasBody(p)', dr_state' = "D_PUBLISH" => dcur'.status = "OK" PROVE BodyWhole(p)'
  <2>1. HasBody(p)
    BY <1>5, <1>8 DEF HasBody
  <2>2. (dr_state = "D_PUBLISH" => dcur.status = "OK") /\ ~tx_wr_clear'
    <3>1. CASE dr_state = "D_PUBLISH"
      BY <1>1, <1>8, <3>1 DEF Judges, DRAIN, DCatch, DTake, DResult, DIdle, DWrite, DFin, DCheck, DPublish, DClear, DNoPulse
    <3>2. CASE dr_state = "D_FIN"
      BY <1>1, <1>8, <3>2 DEF Judges, DRAIN, DCatch, DTake, DResult, DIdle, DWrite, DFin, DCheck, DPublish, DClear, DNoPulse
    <3>3. CASE dr_state = "D_CHECK"
      <4>1. DCheck
        BY <1>1, <3>3 DEF DRAIN, DCatch, DTake, DResult, DIdle, DWrite, DFin, DCheck, DPublish, DClear
      <4> DEFINE x == [dcur EXCEPT !.status = "AUTH_FAIL", !.len = 0]
      <4>2. x.status = "AUTH_FAIL"
        BY <1>1 DEF ControlTypeOK, DescFields, NoDesc
      <4> HIDE DEF x
      <4>3. (tag_match /\ tx_wr_clear' = FALSE) \/ (dcur' = x /\ dr_state' = "D_PUBLISH")
        BY <4>1 DEF DCheck, x
      <4> QED BY <1>8, <3>3, <4>2, <4>3
    <3> QED BY <3>1, <3>2, <3>3 DEF Judges
  <2>3. BodyWhole(p)
    BY <1>1, <1>2, <1>3, <2>1, <2>2 DEF BodyGrows
  <2>4. TxLanding' = TxLanding
    BY <1>1, <1>2, <2>2, TxPortStep DEF Written
  <2> QED BY <1>5, <2>2, <2>3, <2>4 DEF BodyWhole, Words, BodyWord
<1>9. (dcur.pid = p)'
  BY <1>2, <1>3
<1>10. HasBody(dcur.pid)' /\ (dr_state' = "D_PUBLISH" => dcur'.status = "OK") => BodyWhole(dcur.pid)'
  BY <1>8, <1>9 DEF HasBody, BodyWhole, Words, BodyWord
<1> QED BY <1>4, <1>5, <1>6, <1>7, <1>9, <1>10

LEMMA NextGrow == ASSUME GrowInv, Next PROVE GrowInv'
<1>1. AbsorbInv' /\ BodyGrows /\ DRAIN /\ EngineTypes
  BY GrowFacts, NextAbsorb DEF GrowInv, Next
<1>2. done'.to = done'.tag.nonce
  BY <1>1, DoneTo DEF BodyGrows
<1>3. eng_start' => TxLanding' = <<>> /\ dr_state' = "D_IDLE"
  BY StartsEmpty
<1>4. Working' /\ HasBody(Owner)' /\ ~Judges' => Grown(Owner, Fed)'
  BY NextGrown
<1>5. Judges' /\ dcur'.crypto =>
        /\ done'.tag = TagOf(arrived', dcur'.pid) /\ done'.to = dcur'.pid
        /\ HasBody(dcur.pid)' /\ (dr_state' = "D_PUBLISH" => dcur'.status = "OK") => BodyWhole(dcur.pid)'
  BY BeginsJudging, KeepsJudging
<1>6. BodyGrows'
  BY <1>2, <1>3, <1>4, <1>5, Zenon DEF BodyGrows
<1> QED BY <1>1, <1>6 DEF GrowInv

LEMMA StutterGrow == ASSUME GrowInv, UNCHANGED vars PROVE GrowInv'
<1>1. AbsorbInv'
  BY StutterAbsorb DEF GrowInv
<1>2. /\ UNCHANGED <<arrived, pr, pr_state, eng_start, eng_err, eng_state, eng_out, outblk, out_left, dr_state>>
      /\ UNCHANGED <<done, eng_take_par, eng_rel_par, crypto_cmd, pd, pd_put_par, pd_get_par, dcur>>
      /\ UNCHANGED <<txbuf, tx_wr_bank, tx_wr, tx_wr_clear>>
  BY DEF vars, rxVars, procVars, engVars, drainVars, bufVars
<1>3. /\ (Working' <=> Working) /\ (Judges' <=> Judges) /\ Owner' = Owner /\ Fed' = Fed /\ TxLanding' = TxLanding
  BY <1>2 DEF Working, Feeding, Owner, Fed, eng_owned, ProcOwns, PdOwns, pd_valid, Judges, TxLanding
<1>4. Grown(Owner, Fed)' <=> Grown(Owner, Fed)
  BY <1>2, <1>3 DEF Grown, Caught, Writing, Words, BodyWord, Owing
<1>5. BodyWhole(dcur.pid)' <=> BodyWhole(dcur.pid)
  BY <1>2, <1>3 DEF BodyWhole, Words, BodyWord
<1>6. HasBody(Owner)' <=> HasBody(Owner)
  BY <1>2, <1>3 DEF HasBody
<1>7. HasBody(dcur.pid)' <=> HasBody(dcur.pid)
  BY <1>2 DEF HasBody
<1> QED BY <1>1, <1>2, <1>3, <1>4, <1>5, <1>6, <1>7 DEF GrowInv, BodyGrows

-----------------------------------------------------------------------------
(* The verdict a descriptor carries, and the one that is published.        *)

\* A verdict reached without the engine's tag.
Untagged(d) ==
  \/ d.status = "ENGINE_ERR" /\ EngineMayFault /\ Admitted(arrived, d.pid)
  \/ d.status = Fault(arrived, d.pid) /\ ~Admitted(arrived, d.pid)
Snapshot(d) ==
  /\ arrived[d.pid].op = "stats" => d.snap = <<d.pid, Drops(arrived, d.pid)>>
  /\ arrived[d.pid].op = "bench" /\ d.crypto => d.t0 = d.pid
Attested(d) ==
  /\ d.crypto => Admitted(arrived, d.pid)
  /\ ~d.crypto => Untagged(d)
  /\ Snapshot(d)
TagVerdict(p) ==
  IF arrived[p].op = "open" /\ ReceivedTag(arrived, p) # TagOf(arrived, p) THEN "AUTH_FAIL" ELSE "OK"
Settled(d) ==
  /\ d.crypto => d.status = TagVerdict(d.pid)
  /\ d.len = IF d.status = "OK" /\ HasBody(d.pid) THEN arrived[d.pid].msg * BlockWords ELSE 0

Verdicts ==
  /\ eng_err => EngineMayFault
  /\ pd_valid => Attested(pd)
  /\ dcur_valid => Attested(dcur)
  /\ dr_state = "D_CHECK" => arrived[dcur.pid].op = "open"
  /\ dr_state = "D_PUBLISH" => Settled(dcur)

VerdictInv == GrowInv /\ Verdicts

LEMMA InitVerdict == Init => VerdictInv
<1> SUFFICES ASSUME Init PROVE Verdicts
  BY InitGrow DEF VerdictInv
<1> QED BY DEF Init, Verdicts, pd_valid

LEMMA VerdictStep ==
  ASSUME ControlTypeOK, DRAIN
  PROVE  \/ DTake /\ dcur' = pd /\ dr_state = "D_IDLE" /\ dr_state' = "D_IDLE"
         \/ /\ dcur'.pid = dcur.pid /\ dcur'.crypto = dcur.crypto /\ dcur'.snap = dcur.snap /\ dcur'.t0 = dcur.t0
            /\ \/ /\ dcur' = dcur /\ (dr_state' = "D_CHECK" => dr_state = "D_FIN" /\ op_of(dcur) = "open")
                  /\ dr_state' = "D_PUBLISH" => dr_state = "D_PUBLISH"
               \/ /\ dr_state = "D_FIN" /\ dr_state' = "D_PUBLISH" /\ ~(dcur.crypto /\ op_of(dcur) = "open")
                  /\ dcur'.status = dcur.status
                  /\ dcur'.len = IF dcur.crypto /\ dcur.status = "OK" /\ op_of(dcur) # "bench"
                                 THEN tx_wr_count ELSE 0
               \/ /\ dr_state = "D_CHECK" /\ dr_state' = "D_PUBLISH" /\ tag_match
                  /\ dcur'.status = dcur.status /\ dcur'.len = tx_wr_count
               \/ /\ dr_state = "D_CHECK" /\ dr_state' = "D_PUBLISH" /\ ~tag_match
                  /\ dcur'.status = "AUTH_FAIL" /\ dcur'.len = 0
<1> DEFINE d(n) == [dcur EXCEPT !.len = n]
           x == [dcur EXCEPT !.status = "AUTH_FAIL", !.len = 0]
           Keeps(q) == /\ q.pid = dcur.pid /\ q.crypto = dcur.crypto /\ q.snap = dcur.snap /\ q.t0 = dcur.t0
<1>1. /\ Keeps(x) /\ x.status = "AUTH_FAIL" /\ x.len = 0
      /\ \A n : Keeps(d(n)) /\ d(n).status = dcur.status /\ d(n).len = n
  BY DEF ControlTypeOK, DescFields, NoDesc
<1>2. CASE DFin
  <2>1. CASE dcur.crypto /\ op_of(dcur) = "open"
    BY <1>2, <2>1 DEF DFin
  <2>2. CASE ~(dcur.crypto /\ op_of(dcur) = "open")
    <3> DEFINE n == IF dcur.crypto /\ dcur.status = "OK" /\ op_of(dcur) # "bench" THEN tx_wr_count ELSE 0
    <3>1. dcur' = d(n) /\ dr_state = "D_FIN" /\ dr_state' = "D_PUBLISH"
      BY <1>2, <2>2 DEF DFin
    <3> HIDE DEF d
    <3> QED BY <1>1, <2>2, <3>1
  <2> QED BY <2>1, <2>2
<1>3. CASE DCheck
  <2>1. /\ dr_state = "D_CHECK" /\ dr_state' = "D_PUBLISH"
        /\ (tag_match /\ dcur' = d(tx_wr_count)) \/ (~tag_match /\ dcur' = x)
    BY <1>3 DEF DCheck
  <2> HIDE DEF d, x
  <2> QED BY <1>1, <2>1
<1>4. CASE DTake
  BY <1>4 DEF DTake
<1>5. CASE DCatch \/ DIdle \/ DWrite \/ DClear \/ DResult \/ DPublish
  <2>1. dcur' = dcur /\ dr_state' # "D_CHECK" /\ (dr_state' = "D_PUBLISH" => dr_state = "D_PUBLISH")
    BY <1>5 DEF DCatch, DIdle, DWrite, DClear, DResult, DPublish
  <2> QED BY <2>1
<1> QED BY <1>2, <1>3, <1>4, <1>5 DEF DRAIN

LEMMA VerdictStays ==
  ASSUME Arrivals, Extends(arrived, arrived'), NEW d, d.pid \in DOMAIN arrived
  PROVE  /\ d.pid \in DOMAIN arrived' /\ arrived'[d.pid] = arrived[d.pid]
         /\ Attested(d)' <=> Attested(d)
         /\ TagVerdict(d.pid)' = TagVerdict(d.pid)
         /\ Settled(d)' <=> Settled(d)
<1>1. d.pid \in Nat /\ d.pid <= Len(arrived) /\ arrived \in Seq(Requests)
  BY RequestTypes DEF Arrivals
<1>2. /\ arrived'[d.pid] = arrived[d.pid] /\ d.pid \in DOMAIN arrived'
      /\ Drops(arrived', d.pid) = Drops(arrived, d.pid) /\ Fault(arrived', d.pid) = Fault(arrived, d.pid)
      /\ Admitted(arrived', d.pid) <=> Admitted(arrived, d.pid)
  BY <1>1, JudgementStays DEF Extends
<1>3. TagOf(arrived', d.pid) = TagOf(arrived, d.pid) /\ ReceivedTag(arrived', d.pid) = ReceivedTag(arrived, d.pid)
  BY <1>1, TagsSettled
<1>4. Attested(d)' <=> Attested(d)
  BY <1>2 DEF Attested, Untagged, Snapshot
<1>5. TagVerdict(d.pid)' = TagVerdict(d.pid)
  BY <1>2, <1>3 DEF TagVerdict
<1>6. Settled(d)' <=> Settled(d)
  BY <1>2, <1>5 DEF Settled, HasBody
<1> QED BY <1>2, <1>4, <1>5, <1>6

\* The descriptor PROC hands over carries the verdict on its packet.
LEMMA DescriptorVerdict ==
  ASSUME GrowInv, eng_err => EngineMayFault, pr_state = "P_ENDREQ"
  PROVE  Attested(Descriptor)
<1>1. AbsorbInv /\ Judged /\ Submitted /\ EngineTypes
  BY GrowFacts, AbsorbFacts
<1>2. pr.rx \in DOMAIN arrived /\ pr.req = pr.rx
  BY <1>1, AbsorbFacts DEF OnPacket
<1> DEFINE D == Descriptor
<1>3. /\ D.pid = pr.rx /\ D.status = (IF EngineFailed THEN "ENGINE_ERR" ELSE pr.status)
      /\ D.crypto = AwaitsResult
      /\ D.snap = (IF arrived[pr.rx].op = "stats" THEN <<pr.rx, pr.drop>> ELSE <<0, 0>>)
      /\ D.t0 = (IF arrived[pr.rx].op = "bench" THEN pr.t0 ELSE 0)
  BY <1>2 DEF Descriptor
<1> HIDE DEF D
<1>4. crypto_cmd => Admitted(arrived, pr.rx) /\ pr.t0 = pr.rx
  BY <1>1 DEF Judged, Accepted
<1>5. ~crypto_cmd => ~Admitted(arrived, pr.rx) /\ pr.status = Fault(arrived, pr.rx)
  BY <1>1 DEF Judged
<1>6. pr.drop = Drops(arrived, pr.rx)
  BY <1>1 DEF Judged
<1>7. (D.crypto <=> crypto_cmd /\ ~eng_err) /\ (EngineFailed <=> crypto_cmd /\ eng_err)
  BY <1>3 DEF AwaitsResult, EngineFailed
<1>8. D.crypto => Admitted(arrived, D.pid)
  BY <1>3, <1>4, <1>7
<1>9. ~D.crypto => Untagged(D)
  BY <1>3, <1>4, <1>5, <1>7 DEF Untagged
<1>10. Snapshot(D)
  BY <1>3, <1>4, <1>6, <1>7 DEF Snapshot
<1> QED BY <1>8, <1>9, <1>10 DEF Attested, D

\* A request refused without a tag has no body to send.
LEMMA NoBodyUntagged ==
  ASSUME NEW p \in DOMAIN arrived, Arrivals, arrived[p].hdr # "short", Fault(arrived, p) = "OK", ~Admitted(arrived, p)
  PROVE  ~HasBody(p)
<1>1. arrived[p].hdr \in Headers
  BY RequestTypes
<1>2. HeaderStatus(arrived[p]) = "OK"
  BY DEF Fault, HeaderStatus
<1>3. arrived[p].hdr = "ok"
  BY <1>1, <1>2 DEF HeaderStatus, Headers
<1> QED BY <1>3 DEF Admitted, HasBody, Crypto

LEMMA VerdictFacts ==
  ASSUME VerdictInv
  PROVE  /\ GrowInv /\ Verdicts /\ AnswerInv /\ AnswersInOrder /\ JudgeInv
         /\ dcur_valid => dcur.pid \in DOMAIN arrived /\ arrived[dcur.pid].hdr # "short"
BY GrowFacts, AbsorbFacts DEF VerdictInv, AnswerInv, AnswersInOrder, Follows, AbsorbInv

LEMMA PublishesSettled ==
  ASSUME VerdictInv, Next, dr_state' = "D_PUBLISH"
  PROVE  Settled(dcur)'
<1>1. /\ GrowInv /\ Verdicts /\ BodyInv /\ BodyGrows /\ Arrivals /\ ControlTypeOK /\ Descriptors /\ TxBankHolds
      /\ TokenStates /\ DRAIN /\ RX /\ Extends(arrived, arrived')
  BY VerdictFacts, GrowFacts, ArrivedGrows DEF Next
<1>2. dr_state \in {"D_FIN", "D_CHECK", "D_PUBLISH"} /\ dcur'.pid = dcur.pid /\ dcur'.crypto = dcur.crypto
  BY <1>1, VerdictStep
<1>3. dcur_valid
  BY <1>1, <1>2 DEF TokenStates
<1>4. PICK p \in DOMAIN arrived : p = dcur.pid /\ arrived[p].hdr # "short"
  BY <1>3, VerdictFacts
<1>5. PICK e : e = dcur'
  OBVIOUS
<1>6. e.pid = p /\ e.crypto = dcur.crypto
  BY <1>2, <1>4, <1>5
<1>7. Attested(dcur)
  BY <1>1, <1>3 DEF Verdicts
<1>8. /\ dcur.crypto => Admitted(arrived, p)
      /\ ~dcur.crypto => Untagged(dcur)
  BY <1>4, <1>7 DEF Attested
<1>9. arrived[p].op \in Ops
  BY <1>1, RequestTypes
<1>10. ASSUME dr_state \in {"D_FIN", "D_CHECK"}, dcur.crypto, HasBody(p)
       PROVE  tx_wr_count = arrived[p].msg * BlockWords
  <2>1. BodyWhole(p)
    BY <1>1, <1>4, <1>10 DEF BodyGrows, Judges
  <2>2. TxLanding = txbuf[tx_wr_bank]
    BY <1>1, <1>10, <2>1, QuietBank DEF BodyWhole
  <2> QED BY <2>1, <2>2 DEF BodyWhole, Words, tx_wr_count
<1>11. dr_state # "D_PUBLISH" /\ dcur.crypto => dcur.status = "OK"
  BY <1>1, <1>3 DEF Descriptors
<1>12. Settled(e)
  <2>1. CASE dcur' = dcur /\ dr_state = "D_PUBLISH"
    BY <1>1, <1>5, <2>1 DEF Verdicts
  <2>2. CASE /\ dr_state = "D_FIN" /\ ~(dcur.crypto /\ op_of(dcur) = "open")
             /\ dcur'.status = dcur.status
             /\ dcur'.len = IF dcur.crypto /\ dcur.status = "OK" /\ op_of(dcur) # "bench"
                            THEN tx_wr_count ELSE 0
    <3>1. CASE dcur.crypto
      <4>1. arrived[p].op \in {"seal", "bench"} /\ dcur.status = "OK"
        BY <1>4, <1>8, <1>11, <2>2, <3>1 DEF Admitted, Crypto, op_of
      <4>2. TagVerdict(p) = "OK" /\ (HasBody(p) <=> arrived[p].op # "bench")
        BY <4>1 DEF TagVerdict, HasBody
      <4> QED BY <1>4, <1>5, <1>6, <1>10, <2>2, <3>1, <4>1, <4>2 DEF Settled, op_of
    <3>2. CASE ~dcur.crypto
      <4>1. dcur.status = "OK" => ~HasBody(p)
        BY <1>1, <1>4, <1>8, <3>2, NoBodyUntagged DEF Untagged
      <4> QED BY <1>5, <1>6, <2>2, <3>2, <4>1 DEF Settled
    <3> QED BY <3>1, <3>2
  <2>3. CASE dr_state = "D_CHECK"
    <3>1. dcur.crypto /\ arrived[p].op = "open" /\ dcur.tag = ReceivedTag(arrived, p) /\ done.tag = TagOf(arrived, p)
          /\ HasBody(p) /\ dcur.status = "OK"
      BY <1>1, <1>3, <1>4, <1>11, <2>3 DEF Verdicts, Descriptors, Promises, BodyGrows, Judges, HasBody
    <3>2. TagVerdict(p) = IF tag_match THEN "OK" ELSE "AUTH_FAIL"
      BY <3>1 DEF TagVerdict, tag_match
    <3>3. \/ tag_match /\ dcur'.status = dcur.status /\ dcur'.len = tx_wr_count
          \/ ~tag_match /\ dcur'.status = "AUTH_FAIL" /\ dcur'.len = 0
      BY <1>1, <2>3, VerdictStep
    <3> QED BY <1>5, <1>6, <1>10, <2>3, <3>1, <3>2, <3>3 DEF Settled
  <2> QED BY <1>1, <1>2, <2>1, <2>2, <2>3, VerdictStep
<1>13. Settled(e)'
  BY <1>1, <1>6, <1>12, VerdictStays
<1> QED BY <1>5, <1>13 DEF Settled, TagVerdict, HasBody

LEMMA NextVerdicts == ASSUME VerdictInv, Next PROVE Verdicts'
<1>1. /\ GrowInv /\ Verdicts /\ Arrivals /\ ControlTypeOK /\ Descriptors /\ TokenStates /\ EngineTypes
      /\ PROC /\ ENGINE /\ DRAIN /\ RX /\ Extends(arrived, arrived')
  BY VerdictFacts, GrowFacts, ArrivedGrows DEF Next
<1>2. eng_err' => EngineMayFault
  BY <1>1 DEF ENGINE, EngIdle, EngReady, EngFin, EngWaits, EngAccept, EngAbort, EngNoBlock, EngEncrypt, EngMsgKeep,
     Verdicts
<1>3. ASSUME pd_valid' PROVE Attested(pd)'
  <2>1. PICK e : e = pd'
    OBVIOUS
  <2>2. e.pid \in DOMAIN arrived /\ Attested(e)
    <3>1. CASE pr_state = "P_ENDREQ" /\ pr_state' = "P_IDLE"
      <4>1. pd' = Descriptor
        BY <1>1, <3>1, EndReqStep
      <4>2. Attested(Descriptor)
        BY <1>1, <3>1, DescriptorVerdict DEF Verdicts
      <4>3. Descriptor.pid = pr.req /\ pr.req \in DOMAIN arrived
        BY <1>1, <3>1, NewDescriptor, GrowFacts, AbsorbFacts
      <4> QED BY <2>1, <4>1, <4>2, <4>3
    <3>2. CASE ~(pr_state = "P_ENDREQ" /\ pr_state' = "P_IDLE")
      <4>1. pd' = pd /\ pd_put_par' = pd_put_par
        BY <1>1, <3>2, ProcTokenStep
      <4>2. pd_valid' => pd_valid
        BY <1>1, <4>1, DrainHands DEF pd_valid, ControlTypeOK, Flip, Bit
      <4> QED BY <1>1, <1>3, <2>1, <4>1, <4>2 DEF Verdicts, Descriptors
    <3> QED BY <3>1, <3>2
  <2>3. Attested(e)'
    BY <1>1, <2>2, VerdictStays
  <2> QED BY <2>1, <2>3 DEF Attested, Untagged, Snapshot
\* DRAIN's copy keeps the fields a verdict was reached on.
<1>4. ASSUME dcur_valid' PROVE Attested(dcur)'
  <2>1. PICK e : e = dcur'
    OBVIOUS
  <2>2. e.pid \in DOMAIN arrived /\ Attested(e)
    <3>1. CASE DTake
      <4>1. pd_valid /\ dcur' = pd
        BY <3>1 DEF DTake
      <4> QED BY <1>1, <2>1, <4>1 DEF Verdicts, Descriptors
    <3>2. CASE ~DTake
      <4>1. /\ dcur'.pid = dcur.pid /\ dcur'.crypto = dcur.crypto /\ dcur'.snap = dcur.snap /\ dcur'.t0 = dcur.t0
            /\ dcur_valid /\ dcur.pid \in DOMAIN arrived /\ Attested(dcur)
        BY <1>1, <1>4, <3>2, VerdictStep, DrainHands DEF Verdicts, Descriptors
      <4>2. ~dcur.crypto => dcur'.status = dcur.status
        BY <1>1, <3>2, VerdictStep DEF Descriptors
      <4>3. /\ dcur.crypto => Admitted(arrived, dcur.pid)
            /\ ~dcur.crypto => Untagged(dcur)
            /\ Snapshot(dcur)
        BY <4>1 DEF Attested
      <4>4. ~e.crypto => Untagged(e)
        BY <2>1, <4>1, <4>2, <4>3 DEF Untagged
      <4>5. Snapshot(e)
        BY <2>1, <4>1, <4>3 DEF Snapshot
      <4> QED BY <2>1, <4>1, <4>3, <4>4, <4>5 DEF Attested
    <3> QED BY <3>1, <3>2
  <2>3. Attested(e)'
    BY <1>1, <2>2, VerdictStays
  <2> QED BY <2>1, <2>3 DEF Attested, Untagged, Snapshot
<1>5. dr_state' = "D_CHECK" => arrived'[dcur'.pid].op = "open"
  <2>1. dr_state' = "D_CHECK" => dcur'.pid = dcur.pid /\ arrived[dcur.pid].op = "open" /\ dcur_valid
    BY <1>1, VerdictStep DEF op_of, TokenStates
  <2> QED BY <1>1, <2>1 DEF Descriptors, Extends
<1>6. dr_state' = "D_PUBLISH" => Settled(dcur)'
  BY PublishesSettled
<1> QED BY <1>2, <1>3, <1>4, <1>5, <1>6 DEF Verdicts

LEMMA NextVerdict == ASSUME VerdictInv, Next PROVE VerdictInv'
BY NextGrow, NextVerdicts DEF VerdictInv

LEMMA StutterVerdict == ASSUME VerdictInv, UNCHANGED vars PROVE VerdictInv'
<1>1. GrowInv'
  BY StutterGrow DEF VerdictInv
<1>2. UNCHANGED <<arrived, eng_err, dr_state, pd, pd_put_par, pd_get_par, dcur, dcur_valid>>
  BY DEF vars, rxVars, procVars, engVars, drainVars
<1>3. Verdicts'
  BY <1>2 DEF VerdictInv, Verdicts, pd_valid, Attested, Untagged, Snapshot, Settled, TagVerdict, HasBody
<1> QED BY <1>1, <1>3 DEF VerdictInv

-----------------------------------------------------------------------------
(* The counters of a stats are those of the commands answered before it.   *)

Tally(answers, st) == Cardinality({k \in DOMAIN answers : answers[k].status = st})
Pending(st) == IF rsp_pending /\ rsp.status = st THEN 1 ELSE 0
Reported(st) == Tally(responses, st) + Pending(st)
Failing == IF dr_state = "D_PUBLISH" /\ dcur.status = "AUTH_FAIL" THEN 1 ELSE 0

Counted ==
  /\ DOMAIN cnt = {"done", "auth"}
  /\ cnt.done = Reported("OK")
  /\ cnt.auth = Reported("AUTH_FAIL") + Failing

CountInv == VerdictInv /\ Counted

LEMMA TallyStep ==
  ASSUME NEW S, NEW answers \in Seq(S), NEW e, NEW st
  PROVE  /\ Tally(answers, st) \in Nat
         /\ Tally(Append(answers, e), st) = IF e.status = st THEN Tally(answers, st) + 1 ELSE Tally(answers, st)
<1> DEFINE n == Len(answers)
           Of(a) == {k \in DOMAIN a : a[k].status = st}
<1>1. answers \in Seq(S \cup {e}) /\ e \in S \cup {e}
  OBVIOUS
<1>2. PICK b : b = Append(answers, e)
  OBVIOUS
<1>3. b \in Seq(S \cup {e}) /\ Len(b) = n + 1 /\ b[n + 1] = e /\ n \in Nat /\ \A k \in 1..n : b[k] = answers[k]
  BY <1>1, <1>2
<1>4. DOMAIN b = 1..(n + 1) /\ DOMAIN answers = 1..n
  BY <1>3
<1>5. IsFiniteSet(Of(answers)) /\ n + 1 \notin Of(answers)
  <2>1. \A i \in Nat : IsFiniteSet(1..i)
    BY FS_Interval
  <2>2. Of(answers) \subseteq 1..n
    BY <1>4
  <2>3. IsFiniteSet(1..n)
    BY <1>3, <2>1
  <2> QED BY <1>3, <2>2, <2>3, FS_Subset
<1>6. Of(b) = IF e.status = st THEN Of(answers) \cup {n + 1} ELSE Of(answers)
  BY <1>3, <1>4
<1> HIDE DEF Of
<1>7. Cardinality(Of(answers)) \in Nat /\ Cardinality(Of(answers) \cup {n + 1}) = Cardinality(Of(answers)) + 1
  BY <1>5, FS_CardinalityType, FS_AddElement
<1>8. Tally(answers, st) = Cardinality(Of(answers)) /\ Tally(b, st) = Cardinality(Of(b))
  BY DEF Tally, Of
<1> QED BY <1>2, <1>6, <1>7, <1>8

LEMMA InitCount == Init => CountInv
<1> SUFFICES ASSUME Init PROVE Counted
  BY InitVerdict DEF CountInv
<1>1. cnt = [done |-> 0, auth |-> 0] /\ responses = <<>> /\ ~rsp_pending /\ dr_state = "D_IDLE"
  BY DEF Init, rsp_pending
<1>2. \A st : Tally(<<>>, st) = 0
  BY FS_EmptySet DEF Tally
<1>3. \A st : Reported(st) = 0
  BY <1>1, <1>2 DEF Reported, Pending
<1> QED BY <1>1, <1>3 DEF Counted, Failing

\* A response counts from its publication on.
LEMMA ReportedStep ==
  ASSUME CountInv, Next, NEW st
  PROVE  /\ Reported(st) \in Nat
         /\ Reported(st)' = IF Publishing /\ dcur.status = st THEN Reported(st) + 1 ELSE Reported(st)
<1>1. /\ ControlTypeOK /\ BanksInterlocked /\ TX /\ DRAIN /\ AnswerInv /\ (\E S : responses \in Seq(S)) /\ TokenStates
  BY VerdictFacts, GrowFacts, AbsorbFacts DEF CountInv, Next, AnswersInOrder
<1>2. PICK S : responses \in Seq(S)
  BY <1>1
<1>3. Tally(responses, st) \in Nat
  BY <1>2, TallyStep
<1>4. PICK t \in Nat : t = Tally(responses, st)
  BY <1>3
<1>5. rsp_pub_par \in Bit /\ rsp_done_par \in Bit
  BY <1>1 DEF ControlTypeOK
<1>6. \/ /\ rsp_pending /\ rsp_done_par' = Flip(rsp_done_par)
         /\ responses' = Append(responses, [pid |-> rsp.pid, status |-> rsp.status,
                                            extra |-> rsp.extra, body |-> beats])
      \/ rsp_done_par' = rsp_done_par /\ responses' = responses
  BY <1>1, LeftStep
<1>7. CASE Publishing
  <2>1. /\ ~rsp_pending /\ rsp_pub_par' = Flip(rsp_pub_par) /\ rsp'.status = dcur.status
    <3>1. DPublish /\ MayPublish
      BY <1>1, <1>7 DEF Publishing, DRAIN, DCatch, DTake, DResult, DIdle, DWrite, DFin, DCheck, DPublish, DClear
    <3>2. ~rsp_pending /\ rsp_pub_par' = Flip(rsp_pub_par)
      BY <3>1 DEF DPublish, MayPublish
    <3>3. rsp_pub_par' # rsp_pub_par
      BY <1>5, <3>2, FlipBit
    <3> QED BY <1>1, <3>2, <3>3, PublishStep
  <2>2. rsp_pending' /\ responses' = responses
    BY <1>5, <1>6, <2>1 DEF rsp_pending, Flip, Bit
  <2>3. Pending(st) = 0 /\ Pending(st)' = (IF dcur.status = st THEN 1 ELSE 0)
    BY <2>1, <2>2 DEF Pending
  <2>4. Tally(responses', st) = t
    BY <1>4, <2>2
  <2> QED BY <1>4, <1>7, <2>3, <2>4 DEF Reported
<1>8. CASE ~Publishing
  <2>1. rsp' = rsp /\ rsp_pub_par' = rsp_pub_par
    BY <1>1, <1>8 DEF Publishing, DRAIN, DCatch, DTake, DResult, DIdle, DWrite, DFin, DCheck, DPublish, DClear, DKeepRsp
  <2>2. CASE rsp_done_par' = rsp_done_par /\ responses' = responses
    <3>1. (rsp_pending' <=> rsp_pending) /\ Tally(responses', st) = t
      BY <1>4, <2>1, <2>2 DEF rsp_pending
    <3>2. Pending(st)' = Pending(st)
      BY <2>1, <3>1 DEF Pending
    <3> QED BY <1>4, <1>8, <3>1, <3>2 DEF Reported, Pending
  <2>3. CASE /\ rsp_pending /\ rsp_done_par' = Flip(rsp_done_par)
             /\ responses' = Append(responses, [pid |-> rsp.pid, status |-> rsp.status,
                                                extra |-> rsp.extra, body |-> beats])
    <3> DEFINE e == [pid |-> rsp.pid, status |-> rsp.status, extra |-> rsp.extra, body |-> beats]
    <3>1. e.status = rsp.status
      OBVIOUS
    <3>2. responses' = Append(responses, e)
      BY <2>3
    <3> HIDE DEF e
    <3>3. Tally(responses', st) = IF rsp.status = st THEN t + 1 ELSE t
      BY <1>2, <1>4, <3>1, <3>2, TallyStep
    <3>4. ~rsp_pending'
      BY <1>5, <2>1, <2>3 DEF rsp_pending, Flip, Bit
    <3>5. Pending(st)' = 0 /\ Pending(st) = (IF rsp.status = st THEN 1 ELSE 0)
      BY <2>3, <3>4 DEF Pending
    <3> QED BY <1>4, <1>8, <3>3, <3>5 DEF Reported
  <2> QED BY <1>6, <2>2, <2>3
<1> QED BY <1>7, <1>8

LEMMA CountersStep ==
  ASSUME DRAIN, ControlTypeOK, DOMAIN cnt = {"done", "auth"}
  PROVE  /\ DOMAIN cnt' = {"done", "auth"}
         /\ cnt'.done = IF Publishing /\ dcur.status = "OK" THEN cnt.done + 1 ELSE cnt.done
         /\ cnt'.auth = IF dr_state = "D_CHECK" /\ ~tag_match THEN cnt.auth + 1 ELSE cnt.auth
         /\ dr_state = "D_PUBLISH" => dr_state' \in {"D_PUBLISH", "D_CLEAR"}
<1>1. CASE DCatch \/ DTake \/ DResult \/ DIdle \/ DWrite \/ DFin \/ DClear
  BY <1>1 DEF DCatch, DTake, DResult, DIdle, DWrite, DFin, DClear, Publishing
<1>2. CASE DCheck
  BY <1>2 DEF DCheck, Publishing
<1>3. CASE DPublish
  <2>1. CASE MayPublish
    BY <1>3, <2>1 DEF DPublish, Publishing
  <2>2. CASE ~MayPublish
    BY <1>3, <2>2 DEF DPublish, Publishing
  <2> QED BY <2>1, <2>2
<1> QED BY <1>1, <1>2, <1>3 DEF DRAIN

LEMMA FaultIsNoTag == ASSUME NEW a, NEW n PROVE Fault(a, n) # "AUTH_FAIL"
BY DEF Fault, HeaderStatus

\* A tag that fails is counted in D_CHECK, a cycle or more before the answer
\* that says so is published.
LEMMA FailingStep ==
  ASSUME CountInv, Next
  PROVE  Failing' = IF dr_state = "D_CHECK" /\ ~tag_match THEN 1
                    ELSE IF Publishing THEN 0 ELSE Failing
<1>1. /\ ControlTypeOK /\ DRAIN /\ Verdicts /\ TokenStates /\ Descriptors /\ DOMAIN cnt = {"done", "auth"}
  BY VerdictFacts, GrowFacts DEF CountInv, Counted, Next
<1>2. dr_state = "D_PUBLISH" => dr_state' \in {"D_PUBLISH", "D_CLEAR"}
  BY <1>1, CountersStep
<1>3. dr_state \in {"D_FIN", "D_CHECK"} => dcur.status # "AUTH_FAIL"
  <2> SUFFICES ASSUME dr_state \in {"D_FIN", "D_CHECK"} PROVE dcur.status # "AUTH_FAIL"
    OBVIOUS
  <2>1. dcur_valid
    BY <1>1 DEF TokenStates
  <2>2. CASE dcur.crypto
    BY <1>1, <2>1, <2>2 DEF Descriptors
  <2>3. CASE ~dcur.crypto
    BY <1>1, <2>1, <2>3, FaultIsNoTag DEF Verdicts, Attested, Untagged
  <2> QED BY <2>2, <2>3
<1>4. CASE DTake /\ dcur' = pd /\ dr_state = "D_IDLE" /\ dr_state' = "D_IDLE"
  BY <1>4 DEF Failing, Publishing
<1>5. CASE /\ dcur' = dcur /\ (dr_state' = "D_CHECK" => dr_state = "D_FIN" /\ op_of(dcur) = "open")
           /\ dr_state' = "D_PUBLISH" => dr_state = "D_PUBLISH"
  <2>1. CASE dr_state = "D_CHECK" /\ ~tag_match
    <3>1. dcur'.status = "AUTH_FAIL" /\ dr_state' = "D_PUBLISH"
      <4>1. DCheck
        BY <1>1, <2>1 DEF DRAIN, DCatch, DTake, DResult, DIdle, DWrite, DFin, DPublish, DClear
      <4> QED BY <1>1, <2>1, <4>1 DEF DCheck, ControlTypeOK, DescFields, NoDesc
    <3> QED BY <2>1, <3>1 DEF Failing
  <2>2. CASE ~(dr_state = "D_CHECK" /\ ~tag_match)
    BY <1>2, <1>5, <2>2 DEF Failing, Publishing
  <2> QED BY <2>1, <2>2
<1>6. CASE /\ dr_state = "D_FIN" /\ dr_state' = "D_PUBLISH" /\ dcur'.status = dcur.status
  BY <1>3, <1>6 DEF Failing, Publishing
<1>7. CASE dr_state = "D_CHECK" /\ dr_state' = "D_PUBLISH" /\ tag_match /\ dcur'.status = dcur.status
  BY <1>3, <1>7 DEF Failing, Publishing
<1>8. CASE dr_state = "D_CHECK" /\ dr_state' = "D_PUBLISH" /\ ~tag_match /\ dcur'.status = "AUTH_FAIL"
  BY <1>8 DEF Failing, Publishing
<1> QED BY <1>1, VerdictStep, <1>4, <1>5, <1>6, <1>7, <1>8

LEMMA NextCounted == ASSUME CountInv, Next PROVE Counted'
<1>1. /\ ControlTypeOK /\ DRAIN /\ Counted
  BY VerdictFacts, GrowFacts DEF CountInv, Next
<1>2. \A st : /\ Reported(st) \in Nat
              /\ Reported(st)' = IF Publishing /\ dcur.status = st THEN Reported(st) + 1 ELSE Reported(st)
  BY ReportedStep
<1>3. /\ DOMAIN cnt' = {"done", "auth"}
      /\ cnt'.done = IF Publishing /\ dcur.status = "OK" THEN cnt.done + 1 ELSE cnt.done
      /\ cnt'.auth = IF dr_state = "D_CHECK" /\ ~tag_match THEN cnt.auth + 1 ELSE cnt.auth
  BY <1>1, CountersStep DEF Counted
<1>4. Failing' = IF dr_state = "D_CHECK" /\ ~tag_match THEN 1 ELSE IF Publishing THEN 0 ELSE Failing
  BY FailingStep
<1>5. PICK ok \in Nat, ko \in Nat, f \in Nat : ok = Reported("OK") /\ ko = Reported("AUTH_FAIL") /\ f = Failing
  BY <1>2 DEF Failing
<1>6. PICK ok1, ko1, f1 : ok1 = Reported("OK")' /\ ko1 = Reported("AUTH_FAIL")' /\ f1 = Failing'
  OBVIOUS
<1>7. cnt.done = ok /\ cnt.auth = ko + f
  BY <1>1, <1>5 DEF Counted
<1>8. /\ ok1 = IF Publishing /\ dcur.status = "OK" THEN ok + 1 ELSE ok
      /\ ko1 = IF Publishing /\ dcur.status = "AUTH_FAIL" THEN ko + 1 ELSE ko
      /\ f1 = IF dr_state = "D_CHECK" /\ ~tag_match THEN 1 ELSE IF Publishing THEN 0 ELSE f
  BY <1>2, <1>4, <1>5, <1>6
<1>9. f = IF dr_state = "D_PUBLISH" /\ dcur.status = "AUTH_FAIL" THEN 1 ELSE 0
  BY <1>5 DEF Failing
<1>10. cnt'.done = ok1 /\ cnt'.auth = ko1 + f1
  BY <1>3, <1>7, <1>8, <1>9 DEF Publishing
<1> QED BY <1>3, <1>6, <1>10 DEF Counted

LEMMA NextCount == ASSUME CountInv, Next PROVE CountInv'
BY NextVerdict, NextCounted DEF CountInv

LEMMA StutterCount == ASSUME CountInv, UNCHANGED vars PROVE CountInv'
<1>1. VerdictInv'
  BY StutterVerdict DEF CountInv
<1>2. UNCHANGED <<cnt, rsp, rsp_pub_par, rsp_done_par, responses, dr_state, dcur>>
  BY DEF vars, drainVars, txVars
<1>3. Counted'
  BY <1>2 DEF CountInv, Counted, Reported, Pending, Failing, Tally, rsp_pending
<1> QED BY <1>1, <1>3 DEF CountInv

-----------------------------------------------------------------------------
(* The response that is published is the server's reply.                   *)

\* The verdict on packet p, or the engine's error in its place.
Outcome(p, st) ==
  \/ st = IF Fault(arrived, p) # "OK" THEN Fault(arrived, p) ELSE TagVerdict(p)
  \/ st = "ENGINE_ERR" /\ EngineMayFault /\ Admitted(arrived, p)
ExtraOf(p, answers) ==
  CASE arrived[p].op = "seal"  -> [kind |-> "tag", tag |-> TagOf(arrived, p)]
    [] arrived[p].op = "bench" -> [kind |-> "bench", from |-> p, to |-> p]
    [] arrived[p].op = "stats" -> [kind |-> "stats", rx |-> p, drop |-> Drops(arrived, p),
                                   done |-> Tally(answers, "OK"), auth |-> Tally(answers, "AUTH_FAIL")]
    [] OTHER -> NoExtra
BodyLen(p, st) == IF st = "OK" /\ HasBody(p) THEN arrived[p].msg * BlockWords ELSE 0

Replying(r, answers) ==
  /\ r.pid \in DOMAIN arrived /\ arrived[r.pid].hdr # "short"
  /\ Outcome(r.pid, r.status)
  /\ r.extra = IF r.status = "OK" THEN ExtraOf(r.pid, answers) ELSE NoExtra
  /\ r.len = BodyLen(r.pid, r.status)

RepliesReady ==
  /\ rsp_pending => /\ Replying(rsp, responses)
                    /\ rsp.len > 0 => Words(rsp.pid, txbuf[rsp.bank], rsp.len)
  /\ ts_state = "T_STREAM" =>
       \A k \in DOMAIN beats : beats[k] = BodyWord(rsp.pid, k)

ReplyInv == CountInv /\ RepliesReady

LEMMA InitReply == Init => ReplyInv
BY InitCount DEF ReplyInv, RepliesReady, Init, rsp_pending

\* A success without the engine is of a load-key or a stats.
LEMMA UntaggedSuccess ==
  ASSUME NEW p \in DOMAIN arrived, Arrivals, arrived[p].hdr # "short", Fault(arrived, p) = "OK", ~Admitted(arrived, p)
  PROVE  arrived[p].op \in {"load", "stats"}
<1>1. arrived[p].hdr \in Headers /\ arrived[p].op \in Ops
  BY RequestTypes
<1>2. HeaderStatus(arrived[p]) = "OK"
  BY DEF Fault, HeaderStatus
<1>3. arrived[p].hdr = "ok" /\ arrived[p].op # "unknown"
  BY <1>1, <1>2 DEF HeaderStatus, Headers
<1>4. ~Crypto(arrived[p])
  BY <1>3 DEF Admitted
<1> QED BY <1>1, <1>3, <1>4 DEF Crypto, Ops

LEMMA ReplyStays ==
  ASSUME Arrivals, Extends(arrived, arrived'), NEW r, NEW answers
  PROVE  Replying(r, answers) => Replying(r, answers)'
<1> SUFFICES ASSUME Replying(r, answers) PROVE Replying(r, answers)'
  OBVIOUS
<1>1. r.pid \in DOMAIN arrived
  BY DEF Replying
<1> DEFINE p == r.pid
<1>2. p \in Nat /\ p <= Len(arrived) /\ arrived \in Seq(Requests)
  BY <1>1, RequestTypes DEF Arrivals
<1>3. /\ arrived'[p] = arrived[p] /\ p \in DOMAIN arrived'
      /\ Drops(arrived', p) = Drops(arrived, p) /\ Fault(arrived', p) = Fault(arrived, p)
      /\ Admitted(arrived', p) <=> Admitted(arrived, p)
  BY <1>1, <1>2, JudgementStays DEF Extends
<1>4. TagOf(arrived', p) = TagOf(arrived, p) /\ ReceivedTag(arrived', p) = ReceivedTag(arrived, p)
  BY <1>1, <1>2, TagsSettled
<1>5. TagVerdict(r.pid)' = TagVerdict(r.pid)
  BY <1>3, <1>4 DEF TagVerdict
<1>6. Outcome(r.pid, r.status)'
  BY <1>3, <1>5 DEF Outcome, Replying
<1>7. ExtraOf(r.pid, answers)' = ExtraOf(r.pid, answers)
  BY <1>3, <1>4 DEF ExtraOf
<1>8. BodyLen(r.pid, r.status)' = BodyLen(r.pid, r.status)
  BY <1>3 DEF BodyLen, HasBody
<1> QED BY <1>3, <1>6, <1>7, <1>8 DEF Replying

\* What DRAIN publishes.
LEMMA PublishesReply ==
  ASSUME CountInv, dr_state = "D_PUBLISH", ~rsp_pending
  PROVE  LET r == [pid |-> dcur.pid, status |-> dcur.status, extra |-> DExtra,
                   len |-> dcur.len, bank |-> tx_wr_bank]
         IN  /\ Replying(r, responses)
             /\ dcur.len > 0 => Words(dcur.pid, TxLanding, dcur.len) /\ TxLanding = txbuf[tx_wr_bank]
<1> DEFINE p == dcur.pid
           r == [pid |-> dcur.pid, status |-> dcur.status, extra |-> DExtra,
                 len |-> dcur.len, bank |-> tx_wr_bank]
<1>1. /\ Attested(dcur) /\ Settled(dcur) /\ dcur_valid /\ p \in DOMAIN arrived /\ arrived[p].hdr # "short"
      /\ Arrivals /\ BodyGrows /\ BodyInv /\ Counted
  BY VerdictFacts, GrowFacts DEF CountInv, Verdicts, TokenStates
<1>2. /\ dcur.crypto => Admitted(arrived, p) /\ dcur.status = TagVerdict(p) /\ done.tag = TagOf(arrived, p) /\ done.to = p
      /\ ~dcur.crypto => Untagged(dcur)
      /\ Snapshot(dcur)
      /\ dcur.len = BodyLen(p, dcur.status)
  BY <1>1 DEF Attested, Settled, BodyGrows, Judges, BodyLen
<1>3. ~dcur.crypto /\ dcur.status = "OK" => arrived[p].op \in {"load", "stats"}
  BY <1>1, <1>2, UntaggedSuccess DEF Untagged
<1>4. Outcome(p, dcur.status)
  <2>1. CASE dcur.crypto
    BY <1>2, <2>1 DEF Outcome, Admitted
  <2>2. CASE ~dcur.crypto /\ dcur.status = "ENGINE_ERR" /\ EngineMayFault /\ Admitted(arrived, p)
    BY <2>2 DEF Outcome
  <2>3. CASE ~dcur.crypto /\ dcur.status = Fault(arrived, p)
    BY <1>3, <2>3 DEF Outcome, TagVerdict
  <2> QED BY <1>2, <2>1, <2>2, <2>3 DEF Untagged
<1>5. dcur.status = "OK" => DExtra = ExtraOf(p, responses)
  <2> SUFFICES ASSUME dcur.status = "OK" PROVE DExtra = ExtraOf(p, responses)
    OBVIOUS
  <2>1. arrived[p].op \in Ops
    BY <1>1, RequestTypes
  <2>2. CASE arrived[p].op = "unknown"
    BY <1>2, <1>3, <2>2 DEF Admitted, Crypto
  <2>3. CASE arrived[p].op \in {"load", "open"}
    BY <2>3 DEF DExtra, op_of, ExtraOf
  <2>4. CASE arrived[p].op = "seal"
    BY <1>2, <1>3, <2>4 DEF DExtra, op_of, ExtraOf
  <2>5. CASE arrived[p].op = "bench"
    BY <1>2, <1>3, <2>5 DEF DExtra, op_of, ExtraOf, Snapshot
  <2>6. CASE arrived[p].op = "stats"
    <3>1. dcur.snap[1] = p /\ dcur.snap[2] = Drops(arrived, p)
      BY <1>2, <2>6 DEF Snapshot
    <3>2. \A st : Tally(responses, st) \in Nat
      <4>1. PICK S : responses \in Seq(S)
        BY VerdictFacts DEF CountInv, AnswersInOrder
      <4> QED BY <4>1, TallyStep
    <3>3. \A st : Reported(st) = Tally(responses, st)
      <4> TAKE st
      <4>1. PICK t \in Nat : t = Tally(responses, st)
        BY <3>2
      <4>2. Pending(st) = 0
        BY DEF Pending
      <4> QED BY <4>1, <4>2 DEF Reported
    <3>4. Failing = 0
      BY DEF Failing
    <3>5. cnt.done = Tally(responses, "OK") /\ cnt.auth = Tally(responses, "AUTH_FAIL")
      <4>1. PICK t \in Nat : t = Tally(responses, "AUTH_FAIL")
        BY <3>2
      <4>2. cnt.auth = t + 0
        BY <1>1, <3>3, <3>4, <4>1 DEF Counted
      <4> QED BY <1>1, <3>3, <4>1, <4>2 DEF Counted
    <3> QED BY <2>6, <3>1, <3>5 DEF DExtra, op_of, ExtraOf
  <2> QED BY <2>1, <2>2, <2>3, <2>4, <2>5, <2>6 DEF Ops
<1>6. DExtra = IF dcur.status = "OK" THEN ExtraOf(p, responses) ELSE NoExtra
  BY <1>5 DEF DExtra
<1>7. Replying(r, responses)
  <2>1. r.pid = p /\ r.status = dcur.status /\ r.extra = DExtra /\ r.len = dcur.len
    OBVIOUS
  <2> HIDE DEF r
  <2> QED BY <1>1, <1>2, <1>4, <1>6, <2>1 DEF Replying
<1>8. dcur.len > 0 => Words(p, TxLanding, dcur.len) /\ TxLanding = txbuf[tx_wr_bank]
  <2> SUFFICES ASSUME dcur.len > 0 PROVE Words(p, TxLanding, dcur.len) /\ TxLanding = txbuf[tx_wr_bank]
    OBVIOUS
  <2>1. dcur.status = "OK" /\ HasBody(p) /\ dcur.len = arrived[p].msg * BlockWords
    BY <1>2 DEF BodyLen
  <2>2. dcur.crypto
    BY <1>3, <2>1 DEF HasBody
  <2>3. BodyWhole(p)
    BY <1>1, <2>1, <2>2 DEF BodyGrows, Judges
  <2> QED BY <1>1, <2>1, <2>3, QuietBank DEF BodyWhole
<1> QED BY <1>7, <1>8

LEMMA NextRepliesReady == ASSUME ReplyInv, Next PROVE RepliesReady'
<1>1. /\ ControlTypeOK /\ BanksInterlocked /\ DRAIN /\ TX /\ BUF /\ RxInv /\ BodyInv /\ AnswersInOrder /\ TokenStates
      /\ CountInv /\ RepliesReady /\ Arrivals /\ Extends(arrived, arrived')
  BY VerdictFacts, GrowFacts, BodyFacts, ArrivedGrows DEF ReplyInv, CountInv, Next
<1>2. (rsp_pending => Replying(rsp, responses) /\ (rsp.len > 0 => Words(rsp.pid, txbuf[rsp.bank], rsp.len)))'
  <2> SUFFICES ASSUME rsp_pending'
               PROVE  Replying(rsp, responses)' /\ (rsp.len > 0 => Words(rsp.pid, txbuf[rsp.bank], rsp.len))'
    OBVIOUS
  <2>1. CASE Publishing
    <3>1. DPublish /\ MayPublish
      BY <1>1, <2>1 DEF Publishing, DRAIN, DCatch, DTake, DResult, DIdle, DWrite, DFin, DCheck, DPublish, DClear
    <3> DEFINE r == [pid |-> dcur.pid, status |-> dcur.status, extra |-> DExtra,
                     len |-> dcur.len, bank |-> tx_wr_bank]
    <3>2. rsp' = r /\ ~rsp_pending /\ dr_state = "D_PUBLISH"
      BY <3>1 DEF DPublish, MayPublish
    <3>3. r.pid = dcur.pid /\ r.len = dcur.len /\ r.bank = tx_wr_bank
      OBVIOUS
    <3>4. Replying(r, responses) /\ (dcur.len > 0 => Words(dcur.pid, TxLanding, dcur.len) /\ TxLanding = txbuf[tx_wr_bank])
      BY <1>1, <3>2, PublishesReply
    <3> HIDE DEF r
    <3>5. responses' = responses
      BY <1>1, <3>2, LeftStep DEF AnswersInOrder
    <3>6. PICK a : a = responses
      OBVIOUS
    <3>7. PICK q : q = r
      OBVIOUS
    <3>8. Replying(q, a)'
      BY <1>1, <3>4, <3>6, <3>7, ReplyStays
    <3>9. Replying(rsp, responses)'
      BY <3>2, <3>5, <3>6, <3>7, <3>8
    <3>10. ASSUME rsp'.len > 0 PROVE Words(rsp.pid, txbuf[rsp.bank], rsp.len)'
      <4>1. dcur.len > 0 /\ rsp'.pid = dcur.pid /\ rsp'.len = dcur.len /\ rsp'.bank = tx_wr_bank
        BY <3>2, <3>3, <3>10
      <4>2. txbuf'[rsp'.bank] = TxLanding /\ Words(dcur.pid, TxLanding, dcur.len)
        BY <1>1, <3>4, <4>1, Landing
      <4>3. arrived'[dcur.pid] = arrived[dcur.pid]
        BY <1>1, <3>3, <3>4 DEF Replying, Extends
      <4> QED BY <4>1, <4>2, <4>3 DEF Words, BodyWord
    <3> QED BY <3>9, <3>10
  <2>2. CASE ~Publishing
    <3>1. rsp' = rsp /\ rsp_pub_par' = rsp_pub_par
      BY <1>1, <2>2 DEF Publishing, DRAIN, DCatch, DTake, DResult, DIdle, DWrite, DFin, DCheck, DPublish, DClear, DKeepRsp
    <3>2. rsp_pending /\ responses' = responses
      <4>1. \/ rsp_pending /\ rsp_done_par' = Flip(rsp_done_par)
            \/ rsp_done_par' = rsp_done_par /\ responses' = responses
        BY <1>1, LeftStep DEF AnswersInOrder
      <4> QED BY <1>1, <3>1, <4>1 DEF rsp_pending, Flip, ControlTypeOK, Bit
    <3>3. txbuf'[rsp.bank] = txbuf[rsp.bank]
      BY <1>1, <3>2, PublishedStays
    <3>4. PICK a, q : a = responses /\ q = rsp
      OBVIOUS
    <3>5. Replying(q, a)'
      BY <1>1, <3>2, <3>4, ReplyStays DEF RepliesReady
    <3>6. Replying(rsp, responses)'
      BY <3>1, <3>2, <3>4, <3>5
    <3>7. arrived'[rsp.pid] = arrived[rsp.pid]
      BY <1>1, <3>2 DEF RepliesReady, Replying, Extends
    <3>8. (rsp.len > 0 => Words(rsp.pid, txbuf[rsp.bank], rsp.len))'
      BY <1>1, <3>1, <3>2, <3>3, <3>7 DEF RepliesReady, Words, BodyWord
    <3> QED BY <3>6, <3>8
  <2> QED BY <2>1, <2>2
<1>3. (ts_state = "T_STREAM" => \A k \in DOMAIN beats : beats[k] = BodyWord(rsp.pid, k))'
  <2> SUFFICES ASSUME ts_state' = "T_STREAM"
               PROVE  \A k \in DOMAIN beats' : beats'[k] = BodyWord(rsp.pid, k)'
    OBVIOUS
  <2>1. rsp_pending /\ rsp' = rsp /\ rsp.pid \in DOMAIN arrived /\ arrived'[rsp.pid] = arrived[rsp.pid]
    <3>1. rsp_pending
      BY <1>1 DEF TX, TStart, TWaits, TWord, TLast, BanksInterlocked, txVars
    <3> QED BY <1>1, <3>1, PublishedStays DEF RepliesReady, Replying, Extends
  <2>2. \A k : BodyWord(rsp.pid, k)' = BodyWord(rsp.pid, k)
    BY <2>1 DEF BodyWord
  <2>3. CASE beats' = <<>>
    BY <2>3
  <2>4. CASE ts_state = "T_STREAM" /\ beats' = beats
    BY <1>1, <2>2, <2>4 DEF RepliesReady
  <2>5. CASE TWord
    <3>1. ts_state = "T_STREAM" /\ Len(beats) < rsp.len
      BY <2>5 DEF TWord
    <3>2. beats \in Seq(BlocksOf(rsp.pid)) /\ Len(beats) \in Nat /\ rsp.len \in Nat /\ rsp.len > 0
      BY <1>1, <3>1, BodyFacts DEF BodyLeaves, OfPacket, BodyPublished
    <3> DEFINE bank == txbuf[rsp.bank]
               k == Len(beats) + 1
    <3>3. Words(rsp.pid, bank, rsp.len)
      BY <1>1, <2>1, <3>2 DEF RepliesReady
    <3>4. bank \in Seq(BlocksOf(rsp.pid)) /\ k \in 1..Len(bank) /\ bank[k] = BodyWord(rsp.pid, k)
      BY <3>1, <3>2, <3>3 DEF Words
    <3>5. beats' = Append(beats, bank[k])
      BY <2>5, <3>4 DEF TWord
    <3>6. bank[k] \in BlocksOf(rsp.pid)
      BY <3>4
    <3> HIDE DEF bank
    <3>7. DOMAIN beats' = 1..k /\ beats'[k] = bank[k] /\ \A j \in 1..Len(beats) : beats'[j] = beats[j]
      BY <3>2, <3>5, <3>6
    <3>8. \A j \in 1..Len(beats) : beats[j] = BodyWord(rsp.pid, j)
      BY <1>1, <3>1, <3>2 DEF RepliesReady
    <3> QED BY <2>2, <3>2, <3>4, <3>7, <3>8
  <2>6. ~TLast
    BY DEF TLast
  <2>7. TStart => beats' = <<>>
    BY DEF TStart
  <2> QED BY <1>1, <2>3, <2>4, <2>5, <2>6, <2>7 DEF TX, TWaits, txVars
<1> QED BY <1>2, <1>3 DEF RepliesReady

LEMMA NextReply == ASSUME ReplyInv, Next PROVE ReplyInv'
BY NextCount, NextRepliesReady DEF ReplyInv

LEMMA StutterReply == ASSUME ReplyInv, UNCHANGED vars PROVE ReplyInv'
<1>1. CountInv'
  BY StutterCount DEF ReplyInv
<1>2. UNCHANGED <<arrived, rsp, rsp_pub_par, rsp_done_par, responses, txbuf, ts_state, beats>>
  BY DEF vars, rxVars, bufVars, drainVars, txVars
<1>3. RepliesReady'
  BY <1>2 DEF ReplyInv, RepliesReady, rsp_pending, Replying, Outcome, ExtraOf, BodyLen, TagVerdict, HasBody, Words, BodyWord
<1> QED BY <1>1, <1>3 DEF ReplyInv

-----------------------------------------------------------------------------
(* The server's operators are those of the pipeline's invariants.          *)

LEMMA ServerOperators ==
  /\ \A r : Server!HeaderStatus(r) = HeaderStatus(r)
  /\ \A r : Server!HeaderDropped(r) <=> HeaderDropped(r)
  /\ \A r : Server!Crypto(r) <=> Crypto(r)
  /\ \A r, n : Server!LenBad(r, n) <=> LenBad(r, n)
  /\ \A a, n, s : Server!KeyOf(a, n, s) = KeyOf(a, n, s)
  /\ \A a, n : Server!TagOf(a, n) = TagOf(a, n)
  /\ \A a, n : Server!ReceivedTag(a, n) = ReceivedTag(a, n)
  /\ Server!NoExtra = NoExtra
<1>1. \A r : Server!HeaderStatus(r) = HeaderStatus(r)
  BY Zenon DEF Server!HeaderStatus, HeaderStatus
<1>2. \A r : Server!HeaderDropped(r) <=> HeaderDropped(r)
  BY <1>1 DEF Server!HeaderDropped, HeaderDropped
<1>3. \A r : Server!Crypto(r) <=> Crypto(r)
  BY DEF Server!Crypto, Crypto
<1>4. \A r, n : Server!LenBad(r, n) <=> LenBad(r, n)
  BY DEF Server!LenBad, LenBad
<1>5. \A r, s : Server!Loads(r, s) <=> Loads(r, s)
  BY <1>4 DEF Server!Loads, Loads
<1>6. \A a, n, s : Server!KeyOf(a, n, s) = KeyOf(a, n, s)
  <2> TAKE a, n, s
  <2> DEFINE Newest(S) == IF S = {} THEN 0 ELSE CHOOSE k \in S : \A j \in S : j <= k
             Before == {k \in 1..(n - 1) : Loads(a[k], s)}
             Earlier == {k \in 1..(n - 1) : Server!Loads(a[k], s)}
  <2>1. Before = Earlier
    BY <1>5
  <2>2. KeyOf(a, n, s) = Newest(Before)
    BY Zenon DEF KeyOf
  <2>3. Server!KeyOf(a, n, s) = Newest(Earlier)
    BY Zenon DEF Server!KeyOf
  <2> HIDE DEF Newest
  <2> QED BY <2>1, <2>2, <2>3
<1>7. \A r : Server!NumBlocks(r) = NumBlocks(r)
  BY DEF Server!NumBlocks, NumBlocks
<1>8. \A r, n, i : Server!Block(r, n, i) = Block(r, n, i)
  BY DEF Server!Block, Block
<1>9. \A a, n : Server!TagOf(a, n) = TagOf(a, n)
  <2> TAKE a, n
  <2>1. [i \in 1..Server!NumBlocks(a[n]) |-> Server!Block(a[n], n, i)] = [i \in 1..NumBlocks(a[n]) |-> Block(a[n], n, i)]
    BY <1>7, <1>8
  <2> QED BY <1>6, <2>1 DEF Server!TagOf, TagOf
<1>10. Server!NoExtra = NoExtra /\ Server!NoTag = NoTag
  BY DEF Server!NoExtra, NoExtra, Server!NoTag, NoTag
<1>11. \A a, n : Server!ReceivedTag(a, n) = ReceivedTag(a, n)
  <2> TAKE a, n
  <2>1. Server!TagOf(a, n) = TagOf(a, n) /\ Server!TagOf(a, n - 1) = TagOf(a, n - 1)
    BY <1>9
  <2> QED BY <1>10, <2>1 DEF Server!ReceivedTag, ReceivedTag
<1> QED BY <1>1, <1>2, <1>3, <1>4, <1>6, <1>9, <1>10, <1>11

\* The server's verdict is that of the parse, then that of the tag.
LEMMA ServerStatus ==
  ASSUME NEW a, NEW n
  PROVE  Server!Status(a, n) =
           IF Fault(a, n) # "OK" THEN Fault(a, n)
           ELSE IF a[n].op = "open" /\ ReceivedTag(a, n) # TagOf(a, n) THEN "AUTH_FAIL" ELSE "OK"
<1>1. /\ Server!HeaderStatus(a[n]) = HeaderStatus(a[n]) /\ (Server!Crypto(a[n]) <=> Crypto(a[n]))
      /\ Server!LenBad(a[n], a[n].beats) <=> LenBad(a[n], a[n].beats)
      /\ Server!KeyOf(a, n, a[n].slot) = KeyOf(a, n, a[n].slot)
      /\ Server!TagOf(a, n) = TagOf(a, n) /\ Server!ReceivedTag(a, n) = ReceivedTag(a, n)
  BY ServerOperators
<1> QED BY <1>1 DEF Server!Status, Fault

\* A request is judged the same when more have arrived.
LEMMA JudgedAlike ==
  ASSUME NEW a \in Seq(Requests), NEW b, Extends(a, b), NEW n \in DOMAIN a
  PROVE  /\ b[n] = a[n] /\ Fault(b, n) = Fault(a, n) /\ (Admitted(b, n) <=> Admitted(a, n))
         /\ TagOf(b, n) = TagOf(a, n) /\ ReceivedTag(b, n) = ReceivedTag(a, n)
         /\ Drops(b, n) = Drops(a, n)
<1>1. b[n] = a[n] /\ TagOf(b, n) = TagOf(a, n) /\ ReceivedTag(b, n) = ReceivedTag(a, n)
  BY TagsSettled DEF Extends
<1>2. KeyOf(b, n, b[n].slot) = KeyOf(a, n, a[n].slot)
  BY <1>1 DEF TagOf
<1>3. Fault(b, n) = Fault(a, n)
  BY <1>1, <1>2 DEF Fault
<1>4. Admitted(b, n) <=> Admitted(a, n)
  BY <1>1, <1>3 DEF Admitted
<1>5. Dropped(b, n) = Dropped(a, n)
  BY DEF Dropped, Extends
<1> QED BY <1>1, <1>3, <1>4, <1>5 DEF Drops

-----------------------------------------------------------------------------
(* The requests the server has accepted are those that came in whole.      *)

WholeOf(a, s) == SubSeq(a, 1, IF s = 0 THEN Len(a) ELSE Len(a) - 1)

LEMMA WholeOnes ==
  ASSUME NEW a \in Seq(Requests), NEW s \in Nat, s > 0 => Len(a) > 0
  PROVE  /\ WholeOf(a, s) \in Seq(Requests) /\ Extends(WholeOf(a, s), a)
         /\ s = 0 => WholeOf(a, s) = a
         /\ s > 0 => Len(WholeOf(a, s)) + 1 = Len(a)
<1>1. CASE s = 0
  <2>1. WholeOf(a, s) = a
    BY <1>1, SubSeqFull DEF WholeOf
  <2> QED BY <1>1, <2>1 DEF Extends
<1>2. CASE s > 0
  <2> DEFINE n == Len(a) - 1
  <2>1. n \in Nat /\ n + 1 = Len(a) /\ Len(a) \in Nat
    BY <1>2
  <2>2. WholeOf(a, s) = SubSeq(a, 1, n)
    BY <1>2 DEF WholeOf
  <2> HIDE DEF n
  <2>3. /\ SubSeq(a, 1, n) \in Seq(Requests) /\ Len(SubSeq(a, 1, n)) = n
        /\ \A i \in 1..n : SubSeq(a, 1, n)[i] = a[i]
    BY <2>1
  <2> QED BY <1>2, <2>1, <2>2, <2>3 DEF Extends
<1> QED BY <1>1, <1>2

LEMMA LastBeatOf ==
  ASSUME NEW a \in Seq(Requests), NEW s \in Nat, s > 0, Len(a) > 0
  PROVE  a = Append(WholeOf(a, s), a[Len(a)]) /\ a[Len(a)] \in Requests
<1>1. a[Len(a)] \in Requests /\ Len(a) \in Nat
  OBVIOUS
<1> DEFINE w == WholeOf(a, s)
           e == a[Len(a)]
<1>2. w \in Seq(Requests) /\ Extends(w, a) /\ Len(w) + 1 = Len(a)
  BY WholeOnes
<1> HIDE DEF w
<1>3. PICK b : b = Append(w, e)
  OBVIOUS
<1>4. b \in Seq(Requests) /\ Len(b) = Len(a) /\ b[Len(a)] = e /\ \A i \in 1..Len(w) : b[i] = w[i]
  BY <1>1, <1>2, <1>3
<1>5. \A i \in 1..Len(w) : b[i] = a[i]
  BY <1>2, <1>4 DEF Extends
<1>6. \A i \in 1..Len(a) : b[i] = a[i]
  BY <1>1, <1>2, <1>4, <1>5
<1>7. a = b
  BY <1>4, <1>6, SeqEqual
<1> QED BY <1>1, <1>3, <1>7 DEF w

\* RX completes one request, or none.
LEMMA AcceptStep ==
  ASSUME ReplyInv, RX
  PROVE  \/ WholeOf(arrived', src') = WholeOf(arrived, src)
         \/ \E r \in Requests : WholeOf(arrived', src') = Append(WholeOf(arrived, src), r)
<1>1. Arrivals /\ (src > 0 => Len(arrived) > 0)
  <2>1. Arrivals /\ BanksInOrder
    BY VerdictFacts, GrowFacts DEF ReplyInv, CountInv, AnswerInv, OrderInv
  <2>2. src > 0 => Len(arrived) # 0
    <3>1. Freed \in Nat /\ Full(0) \in Nat /\ Full(1) \in Nat
      BY <2>1 DEF BanksInOrder, Freed, Full
    <3>2. PICK f \in Nat, g \in Nat, h \in Nat : f = Freed /\ g = Full(0) /\ h = Full(1)
      BY <3>1
    <3>3. Len(arrived) = f + g + h + Coming
      BY <2>1, <3>2 DEF BanksInOrder
    <3> QED BY <3>3 DEF Coming
  <2> QED BY <2>1, <2>2 DEF Arrivals
<1>2. CASE RxClear \/ RxIdle \/ RxLast \/ RxWait
  BY <1>2 DEF RxClear, RxIdle, RxLast, RxWait
<1>3. CASE RxAccept
  <2>1. CASE src = 0 /\ \E r \in Requests : TakeBeat(Append(arrived, r))
    <3>1. PICK r \in Requests : TakeBeat(Append(arrived, r))
      BY <2>1
    <3> DEFINE a == Append(arrived, r)
    <3>2. a \in Seq(Requests) /\ Len(a) > 0 /\ arrived \in Seq(Requests)
      BY <1>1 DEF Arrivals
    <3>3. arrived' = a /\ src' \in {0, 1}
      BY <2>1, <3>1 DEF TakeBeat
    <3>4. WholeOf(arrived, src) = arrived
      BY <1>1, <2>1, WholeOnes DEF Arrivals
    <3> HIDE DEF a
    <3>5. CASE src' = 0
      <4>1. WholeOf(a, 0) = a
        BY <3>2, WholeOnes
      <4> QED BY <3>3, <3>4, <3>5, <4>1 DEF a
    <3>6. CASE src' = 1
      <4>1. /\ WholeOf(a, 1) \in Seq(Requests) /\ Extends(WholeOf(a, 1), a) /\ Len(WholeOf(a, 1)) + 1 = Len(a)
        BY <3>2, WholeOnes
      <4>2. Len(a) = Len(arrived) + 1 /\ \A i \in 1..Len(arrived) : a[i] = arrived[i]
        BY <3>2 DEF a
      <4>3. Len(WholeOf(a, 1)) = Len(arrived)
        BY <3>2, <4>1, <4>2
      <4>4. \A i \in 1..Len(arrived) : WholeOf(a, 1)[i] = arrived[i]
        BY <3>2, <4>1, <4>2, <4>3 DEF Extends
      <4>5. WholeOf(a, 1) = arrived
        BY <3>2, <4>1, <4>3, <4>4, SeqEqual
      <4> QED BY <3>3, <3>4, <3>6, <4>5
    <3> QED BY <3>3, <3>5, <3>6
  <2>2. CASE src > 0 /\ TakeBeat(arrived)
    <3>1. arrived' = arrived /\ src' \in {0, src + 1} /\ src \in Nat /\ arrived \in Seq(Requests) /\ Len(arrived) > 0
      BY <1>1, <2>2 DEF TakeBeat, Arrivals
    <3>2. CASE src' = 0
      <4>1. WholeOf(arrived, 0) = arrived
        BY <3>1, WholeOnes
      <4>2. arrived = Append(WholeOf(arrived, src), arrived[Len(arrived)]) /\ arrived[Len(arrived)] \in Requests
        BY <2>2, <3>1, LastBeatOf
      <4> QED BY <3>1, <3>2, <4>1, <4>2
    <3>3. CASE src' = src + 1
      BY <2>2, <3>1, <3>3 DEF WholeOf
    <3> QED BY <3>1, <3>2, <3>3
  <2> QED BY <1>3, <2>1, <2>2 DEF RxAccept
<1> QED BY <1>2, <1>3 DEF RX

-----------------------------------------------------------------------------
(* A response that has left is the server's answer.                        *)

Accepts == WholeOf(arrived, src)

LEMMA AcceptsFacts ==
  ASSUME ReplyInv
  PROVE  /\ Accepts \in Seq(Requests) /\ Extends(Accepts, arrived)
         /\ Len(arrived) = Len(Accepts) + (IF src > 0 THEN 1 ELSE 0)
<1>1. Arrivals /\ BanksInOrder
  BY VerdictFacts, GrowFacts DEF ReplyInv, CountInv, AnswerInv, OrderInv
<1>2. src > 0 => Len(arrived) > 0
  <2>1. Freed \in Nat /\ Full(0) \in Nat /\ Full(1) \in Nat
    BY <1>1 DEF BanksInOrder, Freed, Full
  <2>2. PICK f \in Nat, g \in Nat, h \in Nat : f = Freed /\ g = Full(0) /\ h = Full(1)
    BY <2>1
  <2>3. Len(arrived) = f + g + h + Coming
    BY <1>1, <2>2 DEF BanksInOrder
  <2> QED BY <2>3 DEF Coming
<1>3. arrived \in Seq(Requests) /\ src \in Nat
  BY <1>1 DEF Arrivals
<1> QED BY <1>2, <1>3, WholeOnes DEF Accepts

\* The packet a response names had come in whole, and is the next to answer.
LEMMA NextToAnswer ==
  ASSUME ReplyInv, rsp_pending
  PROVE  rsp.pid \in DOMAIN Accepts /\ Follows(Accepts, Left, rsp.pid)
<1>1. /\ AnswersInOrder /\ BanksInOrder /\ BanksInterlocked /\ Arrivals
  BY VerdictFacts, GrowFacts, BodyFacts DEF ReplyInv, CountInv, AnswerInv, OrderInv
<1>2. Follows(arrived, Left, rsp.pid)
  BY <1>1 DEF AnswersInOrder
<1>3. /\ Accepts \in Seq(Requests) /\ Extends(Accepts, arrived)
      /\ Len(arrived) = Len(Accepts) + (IF src > 0 THEN 1 ELSE 0) /\ arrived \in Seq(Requests) /\ src \in Nat
  BY <1>1, AcceptsFacts DEF Arrivals
<1>4. rsp.pid \in Nat /\ rsp.pid > 0 /\ Published = rsp.pid
  BY <1>2, <1>3 DEF Follows, Published
<1>5. Drained \in Nat /\ Drained >= rsp.pid
  <2>1. dcur_valid => dcur.pid \in DOMAIN arrived /\ dcur.pid > rsp.pid
    BY <1>1, <1>4 DEF AnswersInOrder, Follows
  <2> QED BY <1>3, <1>4, <2>1 DEF Drained
<1>6. Described \in Nat /\ Described >= rsp.pid
  <2>1. pd_valid => pd.pid \in DOMAIN arrived /\ pd.pid > Drained
    BY <1>1 DEF AnswersInOrder, Follows
  <2>2. PICK d \in Nat : d = Drained
    BY <1>5
  <2>3. d >= rsp.pid /\ (pd_valid => pd.pid \in Nat /\ pd.pid > d)
    BY <1>3, <1>5, <2>1, <2>2
  <2>4. Described = IF pd_valid THEN pd.pid ELSE d
    BY <2>2 DEF Described
  <2> QED BY <1>4, <2>3, <2>4
<1>7. pr.rx \in Nat /\ pr.rx >= rsp.pid
  <2>1. PICK d \in Nat : d = Described
    BY <1>6
  <2>2. OnPacket => pr.rx > d
    BY <1>1, <2>1 DEF AnswersInOrder, Follows
  <2>3. ~OnPacket => pr.rx >= d
    BY <1>1, <2>1 DEF AnswersInOrder, Skipped
  <2>4. pr.rx \in Nat
    BY <1>1 DEF BanksInOrder
  <2> QED BY <1>4, <1>6, <2>1, <2>2, <2>3, <2>4
<1>8. pr.rx <= Len(Accepts)
  <2>1. Len(arrived) = Freed + Full(0) + Full(1) + Coming
    BY <1>1 DEF BanksInOrder
  <2>2. InHand => pr.rx > 0 /\ bank_full(rx_rd_bank) /\ rx_rd_bank \in Bank
    BY <1>1, GrowFacts, VerdictFacts DEF BanksInOrder, BanksInterlocked, InHand, OnPacket, ReplyInv, CountInv, ControlTypeOK
  <2>3. InHand => Full(0) = 1 \/ Full(1) = 1
    BY <2>2 DEF Full, Bank
  <2>4. Full(0) \in {0, 1} /\ Full(1) \in {0, 1} /\ Freed \in Nat
    BY <1>7, <2>2 DEF Full, Freed
  <2>5. PICK f \in Nat, g \in Nat, h \in Nat : f = Freed /\ g = Full(0) /\ h = Full(1)
    BY <2>4
  <2>6. pr.rx <= f + g + h
    <3>1. CASE InHand
      <4>1. f + 1 = pr.rx /\ g + h >= 1
        BY <1>7, <2>2, <2>3, <2>4, <2>5, <3>1 DEF Freed
      <4> QED BY <1>7, <4>1
    <3>2. CASE ~InHand
      BY <1>7, <2>5, <3>2 DEF Freed
    <3> QED BY <3>1, <3>2
  <2>7. Len(arrived) = f + g + h + Coming
    BY <2>1, <2>5
  <2>8. src > 0 => Coming = 1
    BY DEF Coming
  <2>9. PICK n \in Nat : n = Len(Accepts)
    BY <1>3
  <2>10. Coming \in {0, 1}
    BY DEF Coming
  <2>11. n + (IF src > 0 THEN 1 ELSE 0) = f + g + h + Coming
    BY <1>3, <2>7, <2>9
  <2>12. CASE src > 0
    BY <1>7, <2>6, <2>8, <2>9, <2>11, <2>12
  <2>13. CASE ~(src > 0)
    <3>1. n = f + g + h + Coming
      BY <2>11, <2>13
    <3> QED BY <1>7, <2>6, <2>9, <2>10, <3>1
  <2> QED BY <2>12, <2>13
<1>9. rsp.pid \in DOMAIN Accepts
  BY <1>3, <1>4, <1>7, <1>8
<1>10. \A m \in DOMAIN Accepts : Accepts[m] = arrived[m]
  BY <1>3 DEF Extends
<1>11. Left \in Nat /\ \A m \in (Left + 1)..(rsp.pid - 1) : m \in DOMAIN Accepts
  BY <1>2, <1>3, <1>9 DEF Follows
<1> QED BY <1>2, <1>9, <1>10, <1>11 DEF Follows

\* What the published response makes of a body that has left whole.
LEMMA BodyIsServers ==
  ASSUME ReplyInv, ts_state = "T_STREAM", Len(beats) = rsp.len
  PROVE  beats = IF rsp.status = "OK" /\ HasBody(rsp.pid) THEN Server!Body(arrived[rsp.pid], rsp.pid) ELSE <<>>
<1> DEFINE p == rsp.pid
<1>1. BanksInterlocked /\ BodyLeaves /\ RepliesReady /\ Arrivals
  BY VerdictFacts, GrowFacts, BodyFacts DEF ReplyInv, CountInv
<1>2. rsp_pending /\ Replying(rsp, responses) /\ beats \in Seq(BlocksOf(p)) /\ \A k \in DOMAIN beats : beats[k] = BodyWord(p, k)
  BY <1>1 DEF BanksInterlocked, RepliesReady, BodyLeaves, OfPacket
<1>3. rsp.len = BodyLen(p, rsp.status)
  BY <1>2 DEF Replying
<1>4. CASE rsp.status = "OK" /\ HasBody(p)
  <2>1. Len(beats) = arrived[p].msg * BlockWords
    BY <1>3, <1>4 DEF BodyLen
  <2>2. beats = [k \in 1..Len(beats) |-> beats[k]]
    BY <1>2
  <2>3. DOMAIN beats = 1..Len(beats)
    BY <1>2
  <2>4. beats = [k \in 1..Len(beats) |-> BodyWord(p, k)]
    BY <1>2, <2>2, <2>3
  <2>5. Server!Body(arrived[p], p) = [k \in 1..(arrived[p].msg * BlockWords) |-> BodyWord(p, k)]
    BY DEF Server!Body, BodyWord
  <2>6. Server!Body(arrived[p], p) = beats
    BY <2>1, <2>4, <2>5
  <2> QED BY <1>4, <2>6
<1>5. CASE ~(rsp.status = "OK" /\ HasBody(p))
  <2>1. Len(beats) = 0
    BY <1>3, <1>5 DEF BodyLen
  <2> QED BY <1>2, <1>5, <2>1
<1> QED BY <1>4, <1>5

LEMMA ExtraIsServers ==
  ASSUME NEW n \in DOMAIN arrived, NEW answers
  PROVE  Server!Extra(arrived, n, answers) = ExtraOf(n, answers)
<1>1. /\ Server!TagOf(arrived, n) = TagOf(arrived, n) /\ Server!NoExtra = NoExtra
      /\ \A r : Server!HeaderDropped(r) <=> HeaderDropped(r)
  BY ServerOperators
<1>2. {m \in 1..n : Server!HeaderDropped(arrived[m])} = Dropped(arrived, n)
  BY <1>1 DEF Dropped
<1>3. Cardinality({m \in 1..n : Server!HeaderDropped(arrived[m])}) = Drops(arrived, n)
  BY <1>2 DEF Drops
<1> QED BY <1>1, <1>3 DEF Server!Extra, ExtraOf, Tally

\* The record that leaves is one the server may reply.
LEMMA ReplyIsServers ==
  ASSUME ReplyInv, ts_state = "T_STREAM", Len(beats) = rsp.len
  PROVE  [pid |-> rsp.pid, status |-> rsp.status, extra |-> rsp.extra, body |-> beats]
           \in Server!Replies(Accepts, rsp.pid, responses)
<1>1. BanksInterlocked /\ RepliesReady /\ Arrivals
  BY VerdictFacts, GrowFacts, BodyFacts DEF ReplyInv, CountInv
<1>2. rsp_pending /\ Replying(rsp, responses)
  BY <1>1 DEF BanksInterlocked, RepliesReady
<1>3. rsp.pid \in DOMAIN Accepts /\ Accepts \in Seq(Requests) /\ Extends(Accepts, arrived)
  BY <1>2, NextToAnswer, AcceptsFacts
<1>4. PICK p, a, st : p = rsp.pid /\ a = Accepts /\ st = rsp.status
  OBVIOUS
<1>5. /\ arrived[p] = a[p] /\ Fault(arrived, p) = Fault(a, p) /\ (Admitted(arrived, p) <=> Admitted(a, p))
      /\ TagOf(arrived, p) = TagOf(a, p) /\ ReceivedTag(arrived, p) = ReceivedTag(a, p)
      /\ Drops(arrived, p) = Drops(a, p)
  BY <1>3, <1>4, JudgedAlike
<1>6. /\ Outcome(p, st) /\ rsp.extra = (IF st = "OK" THEN ExtraOf(p, responses) ELSE NoExtra)
      /\ beats = IF st = "OK" /\ HasBody(p) THEN Server!Body(a[p], p) ELSE <<>>
  BY <1>2, <1>4, <1>5, BodyIsServers DEF Replying
<1>7. Server!Extra(a, p, responses) = ExtraOf(p, responses)
  <2>1. /\ Server!TagOf(a, p) = TagOf(arrived, p) /\ Server!NoExtra = NoExtra
        /\ \A r : Server!HeaderDropped(r) <=> HeaderDropped(r)
    BY <1>5, ServerOperators
  <2>2. {m \in 1..p : Server!HeaderDropped(a[m])} = Dropped(a, p)
    BY <2>1 DEF Dropped
  <2>3. Cardinality({m \in 1..p : Server!HeaderDropped(a[m])}) = Drops(arrived, p)
    BY <1>5, <2>2 DEF Drops
  <2> QED BY <1>5, <2>1, <2>3 DEF Server!Extra, ExtraOf, Tally
<1>8. Server!Status(a, p) = IF Fault(arrived, p) # "OK" THEN Fault(arrived, p) ELSE TagVerdict(p)
  BY <1>5, ServerStatus DEF TagVerdict
<1>9. HasBody(p) <=> a[p].op \in {"seal", "open"}
  BY <1>5 DEF HasBody
<1> DEFINE reply == [pid |-> p, status |-> st, extra |-> rsp.extra, body |-> beats]
<1>10. reply \in Server!Replies(a, p, responses)
  <2>1. CASE st = Server!Status(a, p)
    <3>1. rsp.extra = IF st = "OK" THEN Server!Extra(a, p, responses) ELSE Server!NoExtra
      BY <1>6, <1>7, ServerOperators
    <3>2. beats = IF st = "OK" /\ a[p].op \in {"seal", "open"} THEN Server!Body(a[p], p) ELSE <<>>
      BY <1>6, <1>9
    <3>3. reply = Server!Reply(a, p, responses)
      BY <2>1, <3>1, <3>2 DEF Server!Reply
    <3> QED BY <3>3 DEF Server!Replies
  <2>2. CASE st = "ENGINE_ERR" /\ EngineMayFault /\ Admitted(arrived, p)
    <3>1. Server!Crypto(a[p]) /\ Server!Status(a, p) \in {"OK", "AUTH_FAIL"}
      BY <1>5, <1>8, <2>2, ServerOperators DEF Admitted, TagVerdict
    <3>2. reply = [pid |-> p, status |-> "ENGINE_ERR", extra |-> Server!NoExtra, body |-> <<>>]
      BY <1>6, <2>2, ServerOperators
    <3> QED BY <2>2, <3>1, <3>2 DEF Server!Replies
  <2> QED BY <1>6, <1>8, <2>1, <2>2 DEF Outcome
<1> QED BY <1>4, <1>10

LEMMA AnswerStep == ASSUME ReplyInv, TLast PROVE Server!Answer
<1>1. ts_state = "T_STREAM" /\ Len(beats) = rsp.len
  BY DEF TLast
<1>2. rsp_pending
  BY <1>1, VerdictFacts, GrowFacts, BodyFacts DEF ReplyInv, CountInv, BanksInterlocked
<1> DEFINE n == rsp.pid
           reply == [pid |-> rsp.pid, status |-> rsp.status, extra |-> rsp.extra, body |-> beats]
<1>3. n \in DOMAIN Accepts /\ Follows(Accepts, Left, n)
  BY <1>2, NextToAnswer
<1>4. reply \in Server!Replies(Accepts, n, responses)
  BY <1>1, ReplyIsServers
<1>5. responses' = Append(responses, reply)
  BY DEF TLast
<1>6. Server!LastAnswered = Left
  BY DEF Server!LastAnswered, Left
<1>7. n > Server!LastAnswered /\ Accepts[n].hdr # "short"
  BY <1>3, <1>6 DEF Follows
<1>8. \A m \in (Server!LastAnswered + 1)..(n - 1) : Accepts[m].hdr = "short"
  BY <1>3, <1>6 DEF Follows
<1> HIDE DEF n, reply
<1> QED BY <1>3, <1>4, <1>5, <1>7, <1>8 DEF Server!Answer, Accepts, WholeOf

LEMMA InitIsServers == Init => Server!Init
<1> SUFFICES ASSUME Init PROVE Server!Init
  OBVIOUS
<1>1. arrived = <<>> /\ src = 0 /\ responses = <<>>
  BY DEF Init
<1>2. PICK e \in Seq(Requests) : e = <<>>
  <2>1. <<>> \in Seq(Requests)
    BY EmptySeq
  <2> QED BY <2>1, Zenon
<1>3. WholeOf(e, 0) = e
  <2>1. 0 \in Nat /\ ~(0 > 0)
    OBVIOUS
  <2> QED BY <2>1, WholeOnes
<1>4. Accepts = <<>>
  BY <1>1, <1>2, <1>3 DEF Accepts
<1> QED BY <1>1, <1>4 DEF Server!Init, Accepts, WholeOf

\* Every edge is a step of the server, or none.
LEMMA NextIsServers == ASSUME ReplyInv, Next PROVE Server!Next \/ UNCHANGED Server!vars
<1>1. RX /\ TX
  BY DEF Next
<1>2. Accepts' = Accepts \/ \E r \in Requests : Accepts' = Append(Accepts, r)
  BY <1>1, AcceptStep DEF Accepts
<1>3. Accepts' = Accepts \/ Server!Accept
  BY <1>2 DEF Server!Accept, Accepts, WholeOf
<1>4. responses' = responses \/ Server!Answer
  BY <1>1, AnswerStep DEF TX, TStart, TWaits, TWord, txVars
<1>5. Accepts' = Accepts => UNCHANGED WholeOf(arrived, src)
  BY DEF Accepts
<1> QED BY <1>3, <1>4, <1>5 DEF Server!Next, Server!vars, Accepts, WholeOf

LEMMA StutterIsServers == ASSUME UNCHANGED vars PROVE UNCHANGED Server!vars
BY DEF vars, rxVars, txVars, Server!vars

LEMMA AlwaysReply == Spec => []ReplyInv
<1>1. ASSUME ReplyInv, [Next]_vars PROVE ReplyInv'
  BY <1>1, NextReply, StutterReply
<1> QED BY InitReply, <1>1, PTL DEF Spec

\* Packets come to PROC in the order they arrived in, one bank each, with the
\* header-gap bit of their own bank, and PROC's count is their number.
THEOREM PacketsComeInOrder == Spec => []BanksInOrder
<1>1. ReplyInv => BanksInOrder
  BY VerdictFacts DEF ReplyInv, CountInv, AnswerInv, OrderInv
<1> QED BY <1>1, AlwaysReply, PTL

\* Each stage holds the next packet that has an answer: none is answered
\* twice, none is passed over but for want of a header.
THEOREM PacketsLeaveInOrder == Spec => []AnswersInOrder
<1>1. ReplyInv => AnswersInOrder
  BY VerdictFacts DEF ReplyInv, CountInv
<1> QED BY <1>1, AlwaysReply, PTL

\* Whatever is still in flight to the key store, the key a request is judged
\* and enciphered with is the one loaded last before it.
THEOREM KeysAreInForce == Spec => []KeysInForce
<1>1. ReplyInv => KeysInForce
  BY VerdictFacts, GrowFacts, AbsorbFacts DEF ReplyInv, CountInv, KeyInv
<1> QED BY <1>1, AlwaysReply, PTL

\* The engine gets the whole message of the packet that owns it, in order,
\* under that packet's key and nonce, and nothing else.
THEOREM EngineGetsTheMessage == Spec => []Absorbed
<1>1. ReplyInv => Absorbed
  BY VerdictFacts, GrowFacts DEF ReplyInv, CountInv
<1> QED BY <1>1, AlwaysReply, PTL

\* The transmit bank holds the body of the engine's owner, word by word, as
\* far as it has come out; a verdict is reached on the whole of it, and on
\* the tag of that packet.
THEOREM BodiesAreWhole == Spec => []BodyGrows
<1>1. ReplyInv => BodyGrows
  BY VerdictFacts, GrowFacts DEF ReplyInv, CountInv
<1> QED BY <1>1, AlwaysReply, PTL

\* The verdict in a descriptor is the server's on its packet, and so is the
\* length of the body that goes with it.
THEOREM VerdictsAreRight == Spec => []Verdicts
<1>1. ReplyInv => Verdicts
  BY VerdictFacts DEF ReplyInv, CountInv
<1> QED BY <1>1, AlwaysReply, PTL

\* The two result counters are at every edge what the answers published so
\* far add up to, a failed tag being counted a little ahead of its answer.
THEOREM CountersAreRight == Spec => []Counted
<1>1. ReplyInv => Counted
  BY DEF ReplyInv, CountInv
<1> QED BY <1>1, AlwaysReply, PTL

\* The pipeline is one server that executes its requests one by one: each
\* accepted request with a header is answered once, in order, with the
\* verdict, the body, the tag and the counters it would have had were the
\* requests before it executed one after the other.
THEOREM ProtoImplements == Spec => Implements
<1>1. Init => Server!Init
  BY InitIsServers
<1>2. ASSUME ReplyInv, [Next]_vars PROVE [Server!Next]_(Server!vars)
  BY <1>2, NextIsServers, StutterIsServers
<1> QED BY AlwaysReply, <1>1, <1>2, PTL DEF Spec, Implements, Server!Spec

-----------------------------------------------------------------------------
(* The fake board answers as the pipeline does. Its boards are a recursive *)
(* function of the frames, so what they hold is shown by induction on the  *)
(* number of frames handled.                                               *)

\* Induction on the naturals, in the set form: the predicate is a set.
LEMMA NatWF == IsWellFoundedOn({ss \in Nat \X Nat : ss[1] < ss[2]}, Nat)
BY NatLessThanWellFounded DEF OpToRel

LEMMA Least ==
  ASSUME NEW T \in SUBSET Nat, T # {}
  PROVE  \E x \in T : \A y \in T : x <= y
<1> DEFINE R == {ss \in Nat \X Nat : ss[1] < ss[2]}
<1>1. PICK x \in T : \A y \in T : ~(<<y, x>> \in R)
  <2>1. IsWellFoundedOn(R, Nat)
    BY NatWF
  <2> HIDE DEF R
  <2> QED BY <2>1, WFMin
<1>2. ASSUME NEW y \in T PROVE x <= y
  <2>1. <<y, x>> \notin R /\ x \in Nat /\ y \in Nat
    BY <1>1
  <2>2. <<y, x>> \in Nat \X Nat /\ <<y, x>>[1] = y /\ <<y, x>>[2] = x
    BY <2>1
  <2>3. ~(y < x)
    BY <2>1, <2>2
  <2> QED BY <2>1, <2>3
<1> QED BY <1>2

LEMMA Induct ==
  ASSUME NEW S, 0 \in S, \A n \in Nat : n \in S => n + 1 \in S
  PROVE  Nat \subseteq S
<1> SUFFICES ASSUME ~(Nat \subseteq S) PROVE FALSE
  OBVIOUS
<1> DEFINE T == Nat \ S
<1>1. PICK x \in T : \A y \in T : x <= y
  BY Least
<1>2. x # 0 /\ x - 1 \in Nat /\ x - 1 \notin T
  BY <1>1
<1> QED BY <1>1, <1>2

\* The boards of a sequence of frames are what their recursion says.
LEMMA BoardIs ==
  ASSUME NEW a, Len(a) \in Nat
  PROVE  Board(a) = [n \in 0..Len(a) |->
           IF n = 0 THEN NewBoard ELSE _accept(Board(a)[n - 1], a[n], n, ReceivedTag(a, n))]
<1> DEFINE step(v, n) == _accept(v, a[n], n, ReceivedTag(a, n))
           Built(g, k) == g = [n \in 0..k |-> IF n = 0 THEN NewBoard ELSE step(g[n - 1], n)]
           S == {k \in Nat : \E g : Built(g, k)}
<1>1. Board(a) = CHOOSE g : Built(g, Len(a))
  BY Zenon DEF Board
<1> HIDE DEF step
<1>2. 0 \in S
  <2>1. Built([n \in 0..0 |-> NewBoard], 0)
    OBVIOUS
  <2> QED BY <2>1
<1>3. ASSUME NEW k \in Nat, k \in S PROVE k + 1 \in S
  <2>1. PICK g : Built(g, k)
    BY <1>3
  <2>2. PICK h : h = [n \in 0..(k + 1) |-> IF n = k + 1 THEN step(g[k], n) ELSE g[n]]
    OBVIOUS
  <2>3. ASSUME NEW n \in 0..(k + 1) PROVE h[n] = IF n = 0 THEN NewBoard ELSE step(h[n - 1], n)
    <3>1. CASE n = k + 1
      BY <2>2, <3>1
    <3>2. CASE n # k + 1
      <4>1. n \in 0..k /\ h[n] = g[n] /\ (n # 0 => h[n - 1] = g[n - 1])
        BY <2>2, <3>2
      <4> QED BY <2>1, <4>1
    <3> QED BY <3>1, <3>2
  <2>4. Built(h, k + 1)
    BY <2>2, <2>3
  <2> QED BY <2>4
<1>4. Len(a) \in S
  BY <1>2, <1>3, Induct
<1>5. Built(Board(a), Len(a))
  BY <1>1, <1>4
<1> QED BY <1>5 DEF step

\* A board has slots and an answer, and no other field.
Shaped(b) == DOMAIN b = {"slots", "out"} /\ DOMAIN b.slots = 0..(NumSlots - 1)

\* A frame the board accepts moves its slots as the key store is moved.
LEMMA FrameStep ==
  ASSUME NEW b, NEW r \in RequestType, NEW n \in Nat, NEW tag, Deliverable(r),
         Shaped(b)
  PROVE  /\ Shaped(_accept(b, r, n, tag))
         /\ \A s \in 0..(NumSlots - 1) :
              _accept(b, r, n, tag).slots[s] = IF Loads(r, s) THEN n ELSE b.slots[s]
<1> DEFINE c == _accept(b, r, n, tag)
<1>1. /\ r.op \in Ops /\ r.hdr \in Headers /\ r.slot \in Nat /\ NumSlots \in Nat
      /\ r.hdr # "keep" /\ ~(r.beats > BufBeats)
  BY NumSlotsAssumption, BufferAssumption DEF RequestType, Deliverable
<1>2. CASE ~(r.hdr = "ok" /\ r.op = "load")
  <2>1. \A s : ~Loads(r, s)
    BY <1>2 DEF Loads
  <2>2. \E out : c = Says(b, out)
    <3>1. CASE r.hdr = "short"
      BY <3>1 DEF _accept
    <3>2. CASE r.hdr = "magic"
      BY <1>1, <3>2 DEF _accept, _handle
    <3>3. CASE r.hdr = "version"
      BY <1>1, <3>3 DEF _accept, _handle
    <3>4. CASE r.hdr = "ok"
      <4>1. c = _handle(b, r, n, tag)
        BY <1>1, <3>4 DEF _accept
      <4>2. CASE r.op = "unknown"
        BY <3>4, <4>1, <4>2 DEF _handle
      <4>3. CASE r.op = "seal"
        BY <3>4, <4>1, <4>3 DEF _handle
      <4>4. CASE r.op = "open"
        BY <3>4, <4>1, <4>4 DEF _handle
      <4>5. CASE r.op = "bench"
        BY <3>4, <4>1, <4>5 DEF _handle
      <4>6. CASE r.op = "stats"
        BY <3>4, <4>1, <4>6 DEF _handle
      <4> QED BY <1>1, <1>2, <3>4, <4>2, <4>3, <4>4, <4>5, <4>6 DEF Ops
    <3> QED BY <1>1, <3>1, <3>2, <3>3, <3>4 DEF Headers
  <2>3. PICK out : c = Says(b, out)
    BY <2>2
  <2> HIDE DEF c
  <2>4. DOMAIN c = {"slots", "out"} /\ c.slots = b.slots
    BY <2>3 DEF Says, Shaped
  <2> QED BY <2>1, <2>4 DEF c, Shaped
<1>3. CASE r.hdr = "ok" /\ r.op = "load"
  <2>1. c = _op_load_key(b, r, n)
    BY <1>1, <1>3 DEF _accept, _handle
  <2>2. CASE r.slot < NumSlots /\ fits(r)
    <3>1. c = [slots |-> [b.slots EXCEPT ![r.slot] = n], out |-> Header("OK")]
      BY <1>1, <2>1, <2>2 DEF _op_load_key
    <3>2. \A s : Loads(r, s) <=> r.slot = s
      BY <1>3, <2>2 DEF Loads, LenBad, fits
    <3> HIDE DEF c
    <3>3. DOMAIN c = {"slots", "out"} /\ c.slots = [b.slots EXCEPT ![r.slot] = n]
      BY <3>1
    <3> QED BY <3>2, <3>3 DEF c, Shaped
  <2>3. CASE ~(r.slot < NumSlots /\ fits(r))
    <3>1. \E out : c = Says(b, out)
      BY <1>1, <2>1, <2>3 DEF _op_load_key
    <3>2. PICK out : c = Says(b, out)
      BY <3>1
    <3>3. \A s : ~Loads(r, s)
      BY <1>3, <2>3 DEF Loads, LenBad, fits
    <3> HIDE DEF c
    <3>4. DOMAIN c = {"slots", "out"} /\ c.slots = b.slots
      BY <3>2 DEF Says, Shaped
    <3> QED BY <3>3, <3>4 DEF c, Shaped
  <2> QED BY <2>2, <2>3
<1> QED BY <1>2, <1>3

\* The fake's slots after n frames are the keys in force for frame n + 1.
LEMMA BoardKeys ==
  ASSUME NEW a \in Seq(Requests), \A m \in DOMAIN a : Deliverable(a[m]), NEW n \in 0..Len(a)
  PROVE  /\ Shaped(Board(a)[n])
         /\ \A s \in 0..(NumSlots - 1) : Board(a)[n].slots[s] = KeyOf(a, n + 1, s)
<1> DEFINE Right(k) == /\ Shaped(Board(a)[k])
                       /\ \A s \in 0..(NumSlots - 1) : Board(a)[k].slots[s] = KeyOf(a, k + 1, s)
           S == {k \in Nat : k <= Len(a) => Right(k)}
<1>1. Len(a) \in Nat
  OBVIOUS
<1>2. 0 \in S
  <2>1. Board(a)[0] = NewBoard
    BY <1>1, BoardIs
  <2>2. \A s : KeyOf(a, 1, s) = 0
    <3> TAKE s
    <3>1. {m \in 1..(1 - 1) : Loads(a[m], s)} = {}
      OBVIOUS
    <3> QED BY <3>1 DEF KeyOf
  <2>3. Right(0)
    BY <2>1, <2>2 DEF NewBoard, Shaped
  <2> QED BY <2>3
<1>3. ASSUME NEW k \in Nat, k \in S PROVE k + 1 \in S
  <2> SUFFICES ASSUME k + 1 <= Len(a) PROVE Right(k + 1)
    BY <1>1
  <2>1. Right(k) /\ k + 1 \in DOMAIN a /\ k + 1 \in 0..Len(a) /\ k + 1 > 0
    BY <1>1, <1>3
  <2>2. a[k + 1] \in RequestType /\ Deliverable(a[k + 1])
    BY <2>1, RequestsAssumption
  <2>3. Board(a)[k + 1] = _accept(Board(a)[k], a[k + 1], k + 1, ReceivedTag(a, k + 1))
    BY <1>1, <2>1, BoardIs
  <2>4. PICK b, c, m : b = Board(a)[k] /\ c = Board(a)[k + 1] /\ m = k + 1 /\ m \in Nat
    OBVIOUS
  <2>5. /\ Shaped(c)
        /\ \A s \in 0..(NumSlots - 1) : c.slots[s] = IF Loads(a[m], s) THEN m ELSE b.slots[s]
    <3>1. PICK r, tag : r = a[m] /\ tag = ReceivedTag(a, m)
      OBVIOUS
    <3>2. c = _accept(b, r, m, tag) /\ r \in RequestType /\ Deliverable(r)
      BY <2>2, <2>3, <2>4, <3>1
    <3>3. Shaped(b)
      BY <2>1, <2>4
    <3>4. /\ Shaped(_accept(b, r, m, tag))
          /\ \A s \in 0..(NumSlots - 1) : _accept(b, r, m, tag).slots[s] = IF Loads(r, s) THEN m ELSE b.slots[s]
      BY <2>4, <3>2, <3>3, FrameStep
    <3> QED BY <3>1, <3>2, <3>4
  <2>6. \A s : KeyOf(a, m + 1, s) = IF Loads(a[m], s) THEN m ELSE KeyOf(a, m, s)
    BY <2>1, <2>4, KeyStep
  <2> QED BY <2>1, <2>4, <2>5, <2>6
<1>4. Nat \subseteq S
  <2> HIDE DEF S
  <2> QED BY <1>2, <1>3, Induct
<1> QED BY <1>1, <1>4

\* The fake's verdict on frame n is the server's, its tag that of the request.
LEMMA FakeAnswers ==
  ASSUME NEW a \in Seq(Requests), \A m \in DOMAIN a : Deliverable(a[m]), NEW n \in DOMAIN a, a[n].hdr # "short"
  PROVE  LET out == Board(a)[n].out
             st == IF Fault(a, n) # "OK" THEN Fault(a, n)
                   ELSE IF a[n].op = "open" /\ ReceivedTag(a, n) # TagOf(a, n) THEN "AUTH_FAIL" ELSE "OK"
         IN  /\ out.status = st
             /\ out.words = IF st = "OK" /\ a[n].op \in {"seal", "open"} THEN a[n].msg * BlockWords ELSE 0
             /\ st = "OK" /\ a[n].op = "seal" => out.tag = TagOf(a, n)
<1>1. PICK r, b, c, tag, m : /\ r = a[n] /\ b = Board(a)[n - 1] /\ c = Board(a)[n] /\ tag = ReceivedTag(a, n)
                             /\ m = n
  OBVIOUS
<1>2. r \in RequestType /\ Deliverable(r) /\ n \in Nat /\ n > 0 /\ n - 1 \in 0..Len(a) /\ n \in 0..Len(a)
  BY <1>1, RequestsAssumption
<1>3. /\ r.op \in Ops /\ r.hdr \in Headers /\ r.slot \in Nat /\ NumSlots \in Nat
      /\ r.hdr # "keep" /\ ~(r.beats > BufBeats) /\ r.hdr # "short"
  BY <1>1, <1>2, NumSlotsAssumption, BufferAssumption DEF RequestType, Deliverable
<1>4. c = _handle(b, r, n, tag)
  <2>1. Len(a) \in Nat
    OBVIOUS
  <2>2. c = _accept(b, r, n, tag)
    BY <1>1, <1>2, <2>1, BoardIs
  <2> QED BY <1>3, <2>2 DEF _accept
<1>5. /\ Shaped(b)
      /\ \A s \in 0..(NumSlots - 1) : b.slots[s] = KeyOf(a, n, s)
  <2>1. n - 1 + 1 = n
    BY <1>2
  <2> QED BY <1>1, <1>2, <2>1, BoardKeys
<1>6. _slot_key(b, r.slot) = KeyOf(a, n, r.slot)
  <2>1. CASE r.slot < NumSlots
    BY <1>3, <1>5, <2>1 DEF _slot_key
  <2>2. CASE ~(r.slot < NumSlots)
    <3>1. {i \in 1..(n - 1) : Loads(a[i], r.slot)} = {}
      BY <2>2 DEF Loads
    <3>2. KeyOf(a, n, r.slot) = 0
      BY <3>1 DEF KeyOf
    <3> QED BY <2>2, <3>2 DEF _slot_key
  <2> QED BY <2>1, <2>2
<1>7. expect_tag(b, r, n) = TagOf(a, n)
  BY <1>1, <1>6 DEF expect_tag, TagOf
<1>8. \A out : Says(b, out).out = out
  BY <1>5 DEF Says, Shaped
<1> DEFINE st == IF Fault(a, n) # "OK" THEN Fault(a, n)
                 ELSE IF a[n].op = "open" /\ ReceivedTag(a, n) # TagOf(a, n) THEN "AUTH_FAIL" ELSE "OK"
<1> SUFFICES /\ c.out.status = st
             /\ c.out.words = IF st = "OK" /\ r.op \in {"seal", "open"} THEN r.msg * BlockWords ELSE 0
             /\ st = "OK" /\ r.op = "seal" => c.out.tag = TagOf(a, n)
  BY <1>1
<1>9. \A s : Header(s).status = s /\ Header(s).words = 0
  BY DEF Header
<1>10. CASE r.hdr # "ok"
  <2>1. CASE r.hdr = "magic"
    <3>1. c.out = Header("BAD_MAGIC")
      BY <1>4, <1>8, <2>1 DEF _handle
    <3>2. Fault(a, n) = "BAD_MAGIC"
      BY <1>1, <2>1 DEF Fault, HeaderStatus
    <3> QED BY <1>9, <3>1, <3>2
  <2>2. CASE r.hdr = "version"
    <3>1. c.out = Header("BAD_VERSION")
      BY <1>4, <1>8, <2>2 DEF _handle
    <3>2. Fault(a, n) = "BAD_VERSION"
      BY <1>1, <2>2 DEF Fault, HeaderStatus
    <3> QED BY <1>9, <3>1, <3>2
  <2> QED BY <1>3, <1>10, <2>1, <2>2 DEF Headers
<1>11. CASE r.hdr = "ok" /\ r.op = "unknown"
  <2>1. c.out = Header("BAD_OPCODE")
    BY <1>4, <1>8, <1>11 DEF _handle
  <2>2. Fault(a, n) = "BAD_OPCODE"
    BY <1>1, <1>11 DEF Fault, HeaderStatus
  <2> QED BY <1>9, <2>1, <2>2
<1>12. CASE r.hdr = "ok" /\ r.op # "unknown"
  <2>1. HeaderStatus(r) = "OK"
    BY <1>12 DEF HeaderStatus
  <2>2. CASE r.op = "load"
    <3>1. c = _op_load_key(b, r, n)
      BY <1>4, <1>12, <2>2 DEF _handle
    <3>2. Fault(a, n) = IF r.slot >= NumSlots THEN "BAD_SLOT" ELSE IF r.beats # 2 THEN "BAD_LENGTH" ELSE "OK"
      BY <1>1, <2>1, <2>2 DEF Fault, Crypto, LenBad
    <3>3. CASE r.slot >= NumSlots
      <4>1. c.out = Header("BAD_SLOT")
        BY <1>3, <1>8, <3>1, <3>3 DEF _op_load_key
      <4> QED BY <1>1, <1>9, <2>2, <3>2, <3>3, <4>1
    <3>4. CASE r.slot < NumSlots /\ r.beats # 2
      <4>1. c.out = Header("BAD_LENGTH")
        BY <1>3, <1>8, <3>1, <3>4 DEF _op_load_key, fits
      <4> QED BY <1>1, <1>3, <1>9, <2>2, <3>2, <3>4, <4>1
    <3>5. CASE r.slot < NumSlots /\ r.beats = 2
      <4>1. c.out = Header("OK")
        BY <1>3, <3>1, <3>5 DEF _op_load_key, fits
      <4> QED BY <1>1, <1>3, <1>9, <2>2, <3>2, <3>5, <4>1
    <3> QED BY <1>3, <3>3, <3>4, <3>5
  <2>3. CASE r.op = "stats"
    <3>1. c.out = Header("OK")
      BY <1>4, <1>8, <1>12, <2>3 DEF _handle
    <3>2. Fault(a, n) = "OK"
      BY <1>1, <2>1, <2>3 DEF Fault
    <3> QED BY <1>1, <1>9, <2>3, <3>1, <3>2
  <2>4. CASE r.op \in {"seal", "open", "bench"}
    <3> DEFINE key == KeyOf(a, n, r.slot)
               bad == ~fits(r) \/ (r.op = "bench" /\ (r.aad # 0 \/ r.msg = 0))
    <3>1. Fault(a, n) = IF key = 0 THEN "BAD_SLOT" ELSE IF bad THEN "BAD_LENGTH" ELSE "OK"
      BY <1>1, <2>1, <2>4 DEF Fault, Crypto, LenBad, fits
    <3>3. CASE r.op = "seal"
      <4> DEFINE reply == [status |-> "OK", tag |-> expect_tag(b, r, n), words |-> r.msg * BlockWords]
      <4>1. c.out = slot_first(b, r, ~fits(r), reply)
        BY <1>4, <1>8, <1>12, <3>3 DEF _handle, _op_seal
      <4>2. reply.status = "OK" /\ reply.tag = TagOf(a, n) /\ reply.words = r.msg * BlockWords
        BY <1>7
      <4>3. bad <=> ~fits(r)
        BY <3>3
      <4> HIDE DEF reply, key, bad
      <4>4. st = Fault(a, n)
        BY <1>1, <3>3
      <4>5. c.out = IF key = 0 THEN Header("BAD_SLOT") ELSE IF bad THEN Header("BAD_LENGTH") ELSE reply
        BY <1>6, <4>1, <4>3 DEF slot_first, key
      <4> HIDE DEF st
      <4> QED BY <1>9, <3>1, <3>3, <4>2, <4>4, <4>5
    <3>4. CASE r.op = "open"
      <4> DEFINE reply == IF tag # expect_tag(b, r, n) THEN Header("AUTH_FAIL")
                          ELSE [status |-> "OK", tag |-> NoTag, words |-> r.msg * BlockWords]
      <4>1. c.out = slot_first(b, r, ~fits(r), reply)
        BY <1>4, <1>8, <1>12, <3>4 DEF _handle, _op_open
      <4>2. IF tag # TagOf(a, n) THEN reply.status = "AUTH_FAIL" /\ reply.words = 0
            ELSE reply.status = "OK" /\ reply.words = r.msg * BlockWords
        BY <1>7, <1>9
      <4>3. bad <=> ~fits(r)
        BY <3>4
      <4> HIDE DEF reply, key, bad
      <4>4. st = IF Fault(a, n) # "OK" THEN Fault(a, n) ELSE IF tag # TagOf(a, n) THEN "AUTH_FAIL" ELSE "OK"
        BY <1>1, <3>4
      <4>5. c.out = IF key = 0 THEN Header("BAD_SLOT") ELSE IF bad THEN Header("BAD_LENGTH") ELSE reply
        BY <1>6, <4>1, <4>3 DEF slot_first, key
      <4> HIDE DEF st
      <4> QED BY <1>9, <3>1, <3>4, <4>2, <4>4, <4>5
    <3>5. CASE r.op = "bench"
      <4>1. c.out = slot_first(b, r, ~fits(r) \/ r.aad # 0 \/ r.msg = 0, Header("OK"))
        BY <1>4, <1>8, <1>12, <3>5 DEF _handle, _op_bench
      <4>2. bad <=> ~fits(r) \/ r.aad # 0 \/ r.msg = 0
        BY <3>5
      <4> HIDE DEF key, bad
      <4>3. st = Fault(a, n)
        BY <1>1, <3>5
      <4>4. c.out = IF key = 0 THEN Header("BAD_SLOT") ELSE IF bad THEN Header("BAD_LENGTH") ELSE Header("OK")
        BY <1>6, <4>1, <4>2 DEF slot_first, key
      <4> HIDE DEF st
      <4> QED BY <1>9, <3>1, <3>5, <4>3, <4>4
    <3> QED BY <2>4, <3>3, <3>4, <3>5
  <2> QED BY <1>3, <1>12, <2>2, <2>3, <2>4 DEF Ops
<1> QED BY <1>10, <1>11, <1>12

\* The last response is the outcome of its request, with the tag of a seal.
Given(r) ==
  /\ r.pid \in DOMAIN arrived /\ arrived[r.pid].hdr # "short"
  /\ Outcome(r.pid, r.status)
  /\ r.extra.kind = "tag" => arrived[r.pid].op = "seal" /\ r.status = "OK" /\ r.extra.tag = TagOf(arrived, r.pid)
  /\ Len(r.body) = BodyLen(r.pid, r.status)
LastGiven == responses # <<>> => Given(responses[Len(responses)])

LEMMA GivenStays ==
  ASSUME Arrivals, Extends(arrived, arrived'), NEW r, Given(r)
  PROVE  Given(r)'
<1> DEFINE p == r.pid
<1>1. p \in DOMAIN arrived /\ arrived \in Seq(Requests)
  BY DEF Given, Arrivals
<1>2. /\ arrived'[p] = arrived[p] /\ p \in DOMAIN arrived' /\ Fault(arrived', p) = Fault(arrived, p)
      /\ Admitted(arrived', p) <=> Admitted(arrived, p)
      /\ TagOf(arrived', p) = TagOf(arrived, p) /\ ReceivedTag(arrived', p) = ReceivedTag(arrived, p)
  BY <1>1, JudgedAlike DEF Extends
<1>3. TagVerdict(r.pid)' = TagVerdict(r.pid)
  BY <1>2 DEF TagVerdict
<1>4. Outcome(r.pid, r.status)'
  BY <1>2, <1>3 DEF Outcome, Given
<1>5. BodyLen(r.pid, r.status)' = BodyLen(r.pid, r.status)
  BY <1>2 DEF BodyLen, HasBody
<1> QED BY <1>2, <1>4, <1>5 DEF Given

LEMMA NextGiven == ASSUME ReplyInv, LastGiven, Next PROVE LastGiven'
<1>1. /\ Arrivals /\ Extends(arrived, arrived') /\ BanksInterlocked /\ RepliesReady /\ TX
      /\ \E S : responses \in Seq(S)
  BY VerdictFacts, GrowFacts, BodyFacts, ArrivedGrows DEF ReplyInv, CountInv, Next, AnswersInOrder
<1> SUFFICES ASSUME responses' # <<>> PROVE Given(responses[Len(responses)])'
  BY DEF LastGiven
<1>2. CASE TLast
  <2> DEFINE e == [pid |-> rsp.pid, status |-> rsp.status, extra |-> rsp.extra, body |-> beats]
  <2>1. responses' = Append(responses, e) /\ Len(beats) = rsp.len /\ Replying(rsp, responses)
    BY <1>1, <1>2 DEF TLast, RepliesReady, BanksInterlocked
  <2>2. e.pid = rsp.pid /\ e.status = rsp.status /\ e.extra = rsp.extra /\ Len(e.body) = rsp.len
    BY <2>1
  <2> HIDE DEF e
  <2>3. PICK S : responses \in Seq(S)
    BY <1>1
  <2>4. responses \in Seq(S \cup {e}) /\ e \in S \cup {e}
    BY <2>3
  <2>5. responses'[Len(responses')] = e
    BY <2>1, <2>4
  <2>6. Given(e)
    <3>1. rsp.extra.kind = "tag" => /\ arrived[rsp.pid].op = "seal" /\ rsp.status = "OK"
                                    /\ rsp.extra.tag = TagOf(arrived, rsp.pid)
      <4>1. CASE rsp.status # "OK"
        BY <2>1, <4>1 DEF Replying, NoExtra
      <4>2. CASE rsp.status = "OK"
        <5>1. rsp.extra = ExtraOf(rsp.pid, responses)
          BY <2>1, <4>2 DEF Replying
        <5>2. CASE arrived[rsp.pid].op = "seal"
          BY <4>2, <5>1, <5>2 DEF ExtraOf
        <5>3. CASE arrived[rsp.pid].op = "bench"
          BY <5>1, <5>3 DEF ExtraOf
        <5>4. CASE arrived[rsp.pid].op = "stats"
          BY <5>1, <5>4 DEF ExtraOf
        <5>5. CASE arrived[rsp.pid].op \notin {"seal", "bench", "stats"}
          BY <5>1, <5>5 DEF ExtraOf, NoExtra
        <5> QED BY <5>2, <5>3, <5>4, <5>5
      <4> QED BY <4>1, <4>2
    <3> QED BY <2>1, <2>2, <3>1 DEF Given, Replying
  <2>7. PICK q : q = e
    OBVIOUS
  <2>8. Given(q)'
    BY <1>1, <2>6, <2>7, GivenStays
  <2> QED BY <2>5, <2>7, <2>8
<1>3. CASE ~TLast
  <2>1. responses' = responses
    BY <1>1, <1>3 DEF TX, TStart, TWaits, TWord, txVars
  <2>2. PICK q : q = responses[Len(responses)]
    OBVIOUS
  <2>3. Given(q)
    BY <2>1, <2>2 DEF LastGiven
  <2>4. Given(q)'
    BY <1>1, <2>3, GivenStays
  <2> QED BY <2>1, <2>2, <2>4
<1> QED BY <1>2, <1>3

LEMMA StutterGiven == ASSUME LastGiven, UNCHANGED vars PROVE LastGiven'
BY DEF LastGiven, Given, Outcome, TagVerdict, BodyLen, HasBody, vars, rxVars, txVars

LEMMA GivenAlike == ASSUME ReplyInv, LastGiven PROVE FakeAnswersAlike
<1> SUFFICES ASSUME responses # <<>>, \A n \in DOMAIN arrived : Deliverable(arrived[n]),
                    responses[Len(responses)].status # "ENGINE_ERR"
             PROVE  SameAnswer(Board(arrived)[responses[Len(responses)].pid].out, responses[Len(responses)])
  BY DEF FakeAnswersAlike
<1>1. PICK r, p : r = responses[Len(responses)] /\ p = r.pid
  OBVIOUS
<1>2. Given(r) /\ arrived \in Seq(Requests) /\ r.status # "ENGINE_ERR"
  BY <1>1, VerdictFacts, GrowFacts DEF LastGiven, ReplyInv, CountInv, Arrivals
<1>3. PICK out : out = Board(arrived)[p].out
  OBVIOUS
<1> DEFINE st == IF Fault(arrived, p) # "OK" THEN Fault(arrived, p)
                 ELSE IF arrived[p].op = "open" /\ ReceivedTag(arrived, p) # TagOf(arrived, p)
                      THEN "AUTH_FAIL" ELSE "OK"
<1>4. /\ out.status = st
      /\ out.words = IF st = "OK" /\ arrived[p].op \in {"seal", "open"} THEN arrived[p].msg * BlockWords ELSE 0
      /\ st = "OK" /\ arrived[p].op = "seal" => out.tag = TagOf(arrived, p)
  BY <1>1, <1>2, <1>3, FakeAnswers DEF Given
<1>5. r.status = st
  BY <1>1, <1>2 DEF Given, Outcome, TagVerdict
<1> HIDE DEF st
<1>6. Len(r.body) = IF st = "OK" /\ arrived[p].op \in {"seal", "open"} THEN arrived[p].msg * BlockWords ELSE 0
  BY <1>1, <1>2, <1>5 DEF Given, BodyLen, HasBody
<1>7. r.extra.kind = "tag" => out.tag = r.extra.tag
  BY <1>1, <1>2, <1>4, <1>5 DEF Given
<1> QED BY <1>1, <1>3, <1>4, <1>5, <1>6, <1>7 DEF SameAnswer

\* FakeBoard._accept enforces the refusals of the RTL, no more and no less: of
\* the frames a decoder can deliver, it gives the same verdict, tag and body
\* length as the pipeline has just answered.
THEOREM FakeIsTrue == Spec => []FakeAnswersAlike
<1>1. Init => LastGiven
  BY DEF Init, LastGiven
<1>2. ASSUME ReplyInv, LastGiven, [Next]_vars PROVE LastGiven'
  BY <1>2, NextGiven, StutterGiven
<1>3. ReplyInv /\ LastGiven => FakeAnswersAlike
  BY GivenAlike
<1> QED BY <1>1, <1>2, <1>3, AlwaysReply, PTL DEF Spec
=============================================================================
