---------------------------- MODULE OcaSlipProofs ----------------------------
(***************************************************************************)
(* Proofs about the two ends of the serial line, for every size of buffer  *)
(* and word. The decoder, OcaSlipRx: its pointers stay within the buffer,  *)
(* a beat on offer is steady, what lies behind the end of a frame is zero, *)
(* no byte is taken before the whole buffer has been erased, and it        *)
(* implements OcaSlip: what it delivers and what it refuses is what the    *)
(* bytes between two ENDs stand for. The encoder, OcaSlipTx: what it       *)
(* pushes between two ENDs stands for the beats it took.                   *)
(***************************************************************************)
EXTENDS OcaSlipRx, SequenceTheorems, WellFoundedInduction, TLAPS

-----------------------------------------------------------------------------
(* Words and the bytes of them. *)

LEMMA Division ==
  ASSUME NEW n \in Nat, NEW w \in Nat \ {0}
  PROVE  /\ n \div w \in Nat /\ n % w \in 0..(w - 1)
         /\ n = (w * (n \div w)) + (n % w)
BY SMT

LEMMA QuotientIs ==
  ASSUME NEW w \in Nat \ {0}, NEW q \in Nat, NEW r \in 0..(w - 1), NEW n \in Nat,
         n = (w * q) + r
  PROVE  n \div w = q /\ n % w = r
BY SMT

LEMMA BufferSize ==
  /\ WordBytes \in Nat \ {0} /\ Words \in Nat \ {0} /\ Bytes \in Nat
  /\ Bytes = WordBytes * Words
BY SizesAssumption DEF Words

\* The words a frame takes, and where its last byte lies.
LEMMA WordsOf ==
  ASSUME NEW n \in 1..Bytes
  PROVE  /\ (n + WordBytes - 1) \div WordBytes \in 1..Words
         /\ n % WordBytes # 0 =>
              (n + WordBytes - 1) \div WordBytes = (n \div WordBytes) + 1
         /\ n % WordBytes = 0 =>
              (n + WordBytes - 1) \div WordBytes = n \div WordBytes
<1> DEFINE q == n \div WordBytes
           r == n % WordBytes
<1>1. /\ WordBytes \in Nat \ {0} /\ Words \in Nat \ {0} /\ n \in Nat \ {0}
      /\ n <= WordBytes * Words
  BY BufferSize
<1>2. q \in Nat /\ r \in 0..(WordBytes - 1) /\ n = (WordBytes * q) + r
  BY <1>1, Division
<1> HIDE DEF q, r
<1>3. CASE r = 0
  <2>1. n + WordBytes - 1 = (WordBytes * q) + (WordBytes - 1)
    BY <1>1, <1>2, <1>3
  <2>2. (n + WordBytes - 1) \div WordBytes = q
    BY <1>1, <1>2, <2>1, QuotientIs
  <2>3. q # 0 /\ q <= Words
    BY <1>1, <1>2, <1>3
  <2> QED BY <1>1, <1>2, <1>3, <2>2, <2>3 DEF q, r
<1>4. CASE r # 0
  <2>1. WordBytes * (q + 1) = (WordBytes * q) + WordBytes
    BY <1>1, <1>2
  <2>2. n + WordBytes - 1 = (WordBytes * (q + 1)) + (r - 1)
    BY <1>1, <1>2, <2>1
  <2>3. (n + WordBytes - 1) \div WordBytes = q + 1
    <3>1. n + WordBytes - 1 \in Nat /\ q + 1 \in Nat /\ r - 1 \in 0..(WordBytes - 1)
      BY <1>1, <1>2, <1>4
    <3> QED BY ONLY <1>1, <2>2, <3>1, QuotientIs
  <2>4. q < Words
    BY <1>1, <1>2, <1>4
  <2> QED BY <1>1, <1>2, <2>3, <2>4 DEF q
<1> QED BY <1>3, <1>4

\* One byte further in a word, or at the start of the next.
LEMMA NextByte ==
  ASSUME NEW n \in Nat
  PROVE  /\ n % WordBytes = WordBytes - 1 => (n + 1) % WordBytes = 0
         /\ n % WordBytes # WordBytes - 1 => (n + 1) % WordBytes = (n % WordBytes) + 1
<1> DEFINE q == n \div WordBytes
           r == n % WordBytes
<1>1. WordBytes \in Nat \ {0}
  BY BufferSize
<1>2. q \in Nat /\ r \in 0..(WordBytes - 1) /\ n = (WordBytes * q) + r
  BY <1>1, Division
<1> HIDE DEF q, r
<1>3. CASE r = WordBytes - 1
  <2>1. n + 1 = (WordBytes * (q + 1)) + 0
    BY <1>1, <1>2, <1>3
  <2>2. (n + 1) % WordBytes = 0
    <3>1. n + 1 \in Nat /\ q + 1 \in Nat /\ 0 \in 0..(WordBytes - 1)
      BY <1>1, <1>2
    <3> QED BY ONLY <1>1, <2>1, <3>1, QuotientIs
  <2> QED BY <1>3, <2>2 DEF r
<1>4. CASE r # WordBytes - 1
  <2>1. n + 1 = (WordBytes * q) + (r + 1)
    BY <1>1, <1>2
  <2>2. (n + 1) % WordBytes = r + 1
    <3> DEFINE m == n + 1
               s == r + 1
    <3>1. m \in Nat /\ q \in Nat /\ s \in 0..(WordBytes - 1) /\ m = (WordBytes * q) + s
      BY <1>1, <1>2, <1>4, <2>1
    <3> HIDE DEF m, s
    <3>2. m % WordBytes = s
      BY ONLY <1>1, <3>1, QuotientIs
    <3> QED BY <3>2 DEF m, s
  <2> QED BY <1>4, <2>2 DEF r
<1> QED BY <1>3, <1>4

-----------------------------------------------------------------------------
(* The registers stay within the buffer. *)

Word == [Lane -> Cell]
Sending == state \in {"S_PRIME", "S_DRAIN"}

Within ==
  /\ state \in {"S_CLEAR", "S_RECV", "S_PRIME", "S_DRAIN"}
  /\ clr_addr \in 0..(Words - 1) /\ rd_ptr \in 0..(Words - 1)
  /\ len \in 0..Bytes /\ last_keep \in 0..WordBytes /\ beats_left \in 0..Words
  /\ asm_w \in Word /\ rd_q \in Word /\ mem \in [0..(Words - 1) -> Word]
  /\ got \in Seq(Cell)
  /\ Sending => beats_left >= 1 /\ last_keep >= 1 /\ rd_ptr + beats_left <= Words

LEMMA Words0 == 0 \in 0..(Words - 1)
BY BufferSize

LEMMA ZeroIsWord == ZeroWord \in Word
BY DEF ZeroWord, Word, Cell, Zero

\* A pointer that advances, or wraps.
LEMMA Advance ==
  ASSUME NEW p \in 0..(Words - 1)
  PROVE  (p + 1) % Words \in 0..(Words - 1) /\ (p + 1 < Words => (p + 1) % Words = p + 1)
<1>1. Words \in Nat \ {0} /\ p + 1 \in Nat
  BY BufferSize
<1>2. (p + 1) % Words \in 0..(Words - 1)
  BY <1>1, Division
<1>3. ASSUME p + 1 < Words PROVE (p + 1) % Words = p + 1
  <2>1. p + 1 = (Words * 0) + (p + 1) /\ p + 1 \in 0..(Words - 1) /\ 0 \in Nat
    BY <1>1, <1>3
  <2> QED BY ONLY <1>1, <2>1, QuotientIs
<1> QED BY <1>2, <1>3

LEMMA InitWithin == Init => Within
<1> SUFFICES ASSUME Init PROVE Within
  OBVIOUS
<1>1. PICK b \in Cell : mem = [w \in 0..(Words - 1) |-> [i \in Lane |-> b]]
  BY DEF Init
<1>2. mem \in [0..(Words - 1) -> Word]
  BY <1>1 DEF Word
<1>3. got \in Seq(Cell)
  BY DEF Init
<1> QED BY <1>2, <1>3, ZeroIsWord, Words0, BufferSize DEF Init, Within, Sending

\* What an edge reads, whatever the sink does.
LEMMA Reads ==
  ASSUME Within, NEW m_tready \in BOOLEAN
  PROVE  /\ rd_next(m_tready) \in 0..(Words - 1)
         /\ mem[rd_next(m_tready)] \in Word
<1>1. rd_next(m_tready) \in 0..(Words - 1)
  BY Advance DEF Within, rd_next
<1> QED BY <1>1 DEF Within

LEMMA Keeps ==
  ASSUME Within, ReadKeep
  PROVE  rd_ptr' = rd_ptr /\ rd_ptr' \in 0..(Words - 1) /\ rd_q' \in Word /\ rd_q' = mem[rd_ptr]
<1>1. rd_next(FALSE) = rd_ptr
  BY DEF rd_next
<1> QED BY <1>1, Reads DEF ReadKeep, Read, Within

\* A byte stored: in the word being filled, and with the last of it in memory.
LEMMA Stores ==
  ASSUME Within, NEW b \in Octet, Store(b)
  PROVE  /\ len' \in 0..Bytes /\ asm_w' \in Word
         /\ mem' \in [0..(Words - 1) -> Word]
         /\ \/ len' = len /\ asm_w' = asm_w
            \/ len' = len + 1 /\ asm_w' = AsmAfter(b)
<1>1. /\ WordBytes \in Nat \ {0} /\ Bytes \in Nat /\ b \in Cell
  BY BufferSize DEF Cell
<1>2. CASE at_cap
  BY <1>2 DEF Store, Within
<1>3. CASE ~at_cap
  <2>1. len' = len + 1 /\ asm_w' = AsmAfter(b)
    BY <1>3 DEF Store
  <2>2. len + 1 \in 0..Bytes
    BY <1>1, <1>3 DEF at_cap, Within
  <2>3. [asm_w EXCEPT ![len % WordBytes] = b] \in Word
    BY <1>1 DEF Within, Word
  <2>4. [asm_w EXCEPT ![WordBytes - 1] = b] \in Word
    BY <1>1 DEF Within, Word
  <2>5. AsmAfter(b) \in Word
    BY <2>3, ZeroIsWord DEF AsmAfter
  <2>6. mem' \in [0..(Words - 1) -> Word]
    BY <1>3, <2>4 DEF Store, Within
  <2> QED BY <2>1, <2>2, <2>5, <2>6
<1> QED BY <1>2, <1>3

LEMMA NextWithin == Within /\ [Next]_vars => Within'
<1> SUFFICES ASSUME Within, [Next]_vars PROVE Within'
  OBVIOUS
<1>1. CASE Clear
  <2>1. mem' \in [0..(Words - 1) -> Word]
    BY <1>1, ZeroIsWord DEF Clear, Within
  <2>2. clr_addr' \in 0..(Words - 1) /\ state' \in {"S_CLEAR", "S_RECV"}
    BY <1>1, Advance DEF Clear, Within
  <2> QED BY <1>1, <2>1, <2>2, Keeps DEF Clear, Within, Sending, FrameKeep, StreamKeep
<1>2. CASE RecvIdle
  BY <1>2, Keeps DEF RecvIdle, Within, Sending, FrameKeep, StreamKeep
<1>3. CASE RecvByte
  <2>1. PICK b \in Octet : /\ state = "S_RECV" /\ got' = <<>> /\ ReadKeep /\ StreamKeep
                           /\ UNCHANGED <<state, clr_addr>>
                           /\ \/ UNCHANGED <<len, asm_w, mem>>
                              \/ Store(b) \/ Store("END") \/ Store("ESC")
    BY <1>3 DEF RecvByte
  <2>2. "END" \in Octet /\ "ESC" \in Octet
    BY DEF Octet
  <2>3. len' \in 0..Bytes /\ asm_w' \in Word /\ mem' \in [0..(Words - 1) -> Word]
    BY <2>1, <2>2, Stores DEF Within
  <2>4. got' \in Seq(Cell)
    BY <2>1
  <2> QED BY <2>1, <2>3, <2>4, Keeps DEF Within, Sending, StreamKeep
<1>4. CASE RecvEnd
  <2>1. /\ len' = 0 /\ asm_w' = ZeroWord /\ got' = <<>> /\ clr_addr' = clr_addr
        /\ mem' \in [0..(Words - 1) -> Word]
    BY <1>4 DEF RecvEnd, Within
  <2>2. got' \in Seq(Cell) /\ len' \in 0..Bytes
    BY <2>1, BufferSize
  <2>3. \/ ReadKeep /\ StreamKeep /\ state' = "S_RECV"
        \/ /\ len >= MinBytes /\ rd_ptr' = 0 /\ Read(rd_next(FALSE))
           /\ beats_left' = (len + WordBytes - 1) \div WordBytes
           /\ last_keep' = end_keep /\ state' = "S_PRIME"
    BY <1>4 DEF RecvEnd
  <2>4. CASE ReadKeep /\ StreamKeep /\ state' = "S_RECV"
    BY <2>1, <2>2, <2>4, Keeps, ZeroIsWord DEF Within, Sending, StreamKeep
  <2>5. CASE /\ len >= MinBytes /\ rd_ptr' = 0 /\ Read(rd_next(FALSE))
             /\ beats_left' = (len + WordBytes - 1) \div WordBytes
             /\ last_keep' = end_keep /\ state' = "S_PRIME"
    <3>1. len \in 1..Bytes
      BY <2>5, SizesAssumption DEF Within
    <3>2. beats_left' \in 1..Words
      BY <2>5, <3>1, WordsOf
    <3>3. last_keep' \in 1..WordBytes
      <4>1. len % WordBytes \in 0..(WordBytes - 1)
        BY <3>1, Division, BufferSize
      <4> QED BY <2>5, <4>1, BufferSize DEF end_keep
    <3>4. rd_q' \in Word
      BY <2>5, Reads DEF Read
    <3> QED BY <2>1, <2>2, <2>5, <3>2, <3>3, <3>4, Words0, ZeroIsWord, BufferSize
            DEF Within, Sending
  <2> QED BY <2>3, <2>4, <2>5
<1>5. CASE Prime
  BY <1>5, Keeps DEF Prime, Within, Sending, FrameKeep, StreamKeep
<1>6. CASE Drain
  <2>1. PICK m_tready \in BOOLEAN :
          /\ rd_ptr' = rd_next(m_tready) /\ Read(rd_next(m_tready))
          /\ got' = IF m_tready THEN got \o [i \in 1..m_tkeep |-> rd_q[i - 1]] ELSE got
          /\ beats_left' = IF m_tready /\ ~m_tlast THEN beats_left - 1 ELSE beats_left
          /\ state' = IF m_tready /\ m_tlast THEN "S_RECV" ELSE "S_DRAIN"
    BY <1>6 DEF Drain
  <2>2. m_tkeep \in 1..WordBytes
    BY <1>6, BufferSize DEF Drain, Within, Sending, m_tkeep
  <2>3. [i \in 1..m_tkeep |-> rd_q[i - 1]] \in Seq(Cell)
    BY <2>2, BufferSize DEF Within, Word, Lane
  <2>4. got' \in Seq(Cell)
    BY <2>1, <2>3 DEF Within
  <2>5. rd_ptr' \in 0..(Words - 1) /\ rd_q' \in Word
    BY <2>1, Reads DEF Read
  <2>6. /\ beats_left' \in 0..Words
        /\ state' = "S_DRAIN" => beats_left' >= 1 /\ rd_ptr' + beats_left' <= Words
    BY <1>6, <2>1, Advance, BufferSize
    DEF Drain, Within, Sending, m_tlast, rd_next, m_tvalid
  <2> QED BY <1>6, <2>1, <2>4, <2>5, <2>6 DEF Drain, Within, Sending, FrameKeep
<1>7. CASE UNCHANGED vars
  BY <1>7 DEF vars, Within, Sending
<1> QED BY <1>1, <1>2, <1>3, <1>4, <1>5, <1>6, <1>7 DEF Next

-----------------------------------------------------------------------------
(* What a word read, or being filled, holds. *)

\* While a beat is on offer the read register holds the word it points to.
ReadInv == state = "S_DRAIN" => rd_q = mem[rd_ptr]

\* The word being filled is zero from the next byte on.
AsmInv == \A i \in Lane : i >= len % WordBytes => asm_w[i] = Zero

\* The last word of the frame being sent is zero behind its length.
LastInv ==
  Sending => \A i \in last_keep..(WordBytes - 1) : mem[rd_ptr + beats_left - 1][i] = Zero

\* The walk has erased what lies below its address.
WalkInv == state = "S_CLEAR" => \A w \in 0..(clr_addr - 1) : mem[w] = ZeroWord

IInv == Within /\ ReadInv /\ AsmInv /\ LastInv /\ WalkInv

LEMMA ZeroLen == 0 % WordBytes = 0
<1>1. WordBytes \in Nat \ {0}
  BY BufferSize
<1> QED BY <1>1

LEMMA InitIInv == Init => IInv
<1> SUFFICES ASSUME Init PROVE IInv
  OBVIOUS
<1>1. AsmInv
  BY DEF Init, AsmInv, ZeroWord
<1>2. WalkInv
  BY DEF Init, WalkInv
<1> QED BY <1>1, <1>2, InitWithin DEF Init, IInv, ReadInv, LastInv, Sending

\* One byte more of the word, or a fresh word.
LEMMA AsmStep ==
  ASSUME Within, AsmInv, NEW b \in Octet,
         \/ len' = len /\ asm_w' = asm_w
         \/ len' = len + 1 /\ asm_w' = AsmAfter(b)
  PROVE  AsmInv'
<1>1. len \in Nat /\ WordBytes \in Nat \ {0} /\ asm_w \in [Lane -> Cell]
  BY BufferSize DEF Within, Word
<1>2. CASE len' = len /\ asm_w' = asm_w
  BY <1>2 DEF AsmInv
<1>3. CASE len' = len + 1 /\ asm_w' = AsmAfter(b)
  <2>1. CASE len % WordBytes = WordBytes - 1
    BY <1>3, <2>1 DEF AsmInv, AsmAfter, ZeroWord
  <2>2. CASE len % WordBytes # WordBytes - 1
    <3> DEFINE r == len % WordBytes
    <3>1. len' % WordBytes = r + 1 /\ r \in 0..(WordBytes - 1)
      BY <1>1, <1>3, <2>2, NextByte, Division
    <3>2. asm_w' = [asm_w EXCEPT ![r] = b]
      BY <1>3, <2>2 DEF AsmAfter
    <3>3. \A i \in Lane : i >= r => asm_w[i] = Zero
      BY DEF AsmInv
    <3> HIDE DEF r
    <3>4. \A i \in Lane : i >= r + 1 => i # r /\ i >= r
      BY <1>1, <3>1 DEF Lane
    <3>5. \A i \in Lane : i >= r + 1 => asm_w'[i] = Zero
      BY <1>1, <3>2, <3>3, <3>4
    <3> QED BY <3>1, <3>5 DEF AsmInv
  <2> QED BY <2>1, <2>2
<1> QED BY <1>2, <1>3

LEMMA NextAsm == IInv /\ [Next]_vars => AsmInv'
<1> SUFFICES ASSUME IInv, [Next]_vars PROVE AsmInv'
  OBVIOUS
<1>1. CASE FrameKeep \/ UNCHANGED vars
  BY <1>1 DEF FrameKeep, vars, IInv, AsmInv
<1>2. CASE RecvByte
  <2>1. PICK b \in Octet : UNCHANGED <<len, asm_w>> \/ Store(b) \/ Store("END") \/ Store("ESC")
    BY <1>2 DEF RecvByte
  <2>2. "END" \in Octet /\ "ESC" \in Octet
    BY DEF Octet
  <2>3. PICK c \in Octet :
          \/ len' = len /\ asm_w' = asm_w
          \/ len' = len + 1 /\ asm_w' = AsmAfter(c)
    BY <2>1, <2>2, Stores DEF IInv
  <2> QED BY <2>3, AsmStep DEF IInv
<1>3. CASE RecvEnd
  BY <1>3 DEF RecvEnd, AsmInv, ZeroWord
<1> QED BY <1>1, <1>2, <1>3 DEF Next, Clear, RecvIdle, Prime, Drain

LEMMA NextRead == IInv /\ [Next]_vars => ReadInv'
<1> SUFFICES ASSUME IInv, [Next]_vars PROVE ReadInv'
  OBVIOUS
<1>1. CASE Prime
  BY <1>1, Keeps DEF Prime, IInv, ReadInv
<1>2. CASE Drain
  BY <1>2 DEF Drain, Read, ReadInv
<1>3. CASE Clear
  BY <1>3 DEF Clear, ReadInv
<1>4. CASE RecvIdle
  BY <1>4 DEF RecvIdle, ReadInv
<1>5. CASE RecvByte
  BY <1>5 DEF RecvByte, ReadInv
<1>6. CASE RecvEnd
  BY <1>6 DEF RecvEnd, ReadInv
<1>7. CASE UNCHANGED vars
  BY <1>7 DEF vars, IInv, ReadInv
<1> QED BY <1>1, <1>2, <1>3, <1>4, <1>5, <1>6, <1>7 DEF Next

LEMMA NextLast == IInv /\ [Next]_vars => LastInv'
<1> SUFFICES ASSUME IInv, [Next]_vars PROVE LastInv'
  OBVIOUS
<1>1. CASE ~Sending'
  BY <1>1 DEF LastInv
<1>2. CASE Sending' /\ (Clear \/ RecvIdle \/ RecvByte)
  BY <1>2 DEF Sending, Clear, RecvIdle, RecvByte
<1>3. CASE Sending' /\ RecvEnd
  <2>1. /\ len >= MinBytes /\ rd_ptr' = 0
        /\ beats_left' = (len + WordBytes - 1) \div WordBytes
        /\ last_keep' = end_keep
        /\ mem' = IF len % WordBytes # 0 THEN [mem EXCEPT ![len \div WordBytes] = asm_w] ELSE mem
    BY <1>3 DEF RecvEnd, Sending
  <2>2. len \in 1..Bytes /\ len \in Nat /\ WordBytes \in Nat \ {0} /\ Words \in Nat \ {0}
    BY <2>1, SizesAssumption, BufferSize DEF IInv, Within
  <2>3. CASE len % WordBytes = 0
    BY <2>1, <2>2, <2>3 DEF LastInv, end_keep
  <2>4. CASE len % WordBytes # 0
    <3> DEFINE q == len \div WordBytes
               r == len % WordBytes
    <3>1. r \in 0..(WordBytes - 1) /\ q \in Nat
      BY <2>2, Division
    <3>2. beats_left' = q + 1 /\ q + 1 \in 1..Words
      BY <2>1, <2>2, <2>4, WordsOf
    <3>3. last_keep' = r /\ mem' = [mem EXCEPT ![q] = asm_w]
      BY <2>1, <2>4 DEF end_keep
    <3>4. \A i \in Lane : i >= r => asm_w[i] = Zero
      BY DEF IInv, AsmInv
    <3> HIDE DEF q, r
    <3>5. rd_ptr' + beats_left' - 1 = q /\ q \in 0..(Words - 1)
      BY <2>1, <2>2, <3>1, <3>2
    <3>6. mem'[q] = asm_w
      BY <3>3, <3>5 DEF IInv, Within
    <3>7. \A i \in r..(WordBytes - 1) : i \in Lane /\ i >= r
      BY <2>2, <3>1 DEF Lane
    <3> QED BY <3>3, <3>4, <3>5, <3>6, <3>7 DEF LastInv
  <2> QED BY <2>3, <2>4
<1>4. CASE Prime
  BY <1>4, Keeps DEF Prime, IInv, LastInv, Sending, StreamKeep
<1>5. CASE Sending' /\ Drain
  <2>1. PICK m_tready \in BOOLEAN :
          /\ rd_ptr' = rd_next(m_tready)
          /\ beats_left' = IF m_tready /\ ~m_tlast THEN beats_left - 1 ELSE beats_left
          /\ state' = IF m_tready /\ m_tlast THEN "S_RECV" ELSE "S_DRAIN"
    BY <1>5 DEF Drain
  <2>2. state = "S_DRAIN" /\ mem' = mem /\ last_keep' = last_keep
    BY <1>5 DEF Drain
  <2>3. rd_ptr' + beats_left' = rd_ptr + beats_left
    <3>1. CASE ~m_tready
      BY <2>1, <3>1 DEF rd_next
    <3>2. CASE m_tready
      <4>1. ~m_tlast
        BY <1>5, <2>1, <3>2 DEF Sending
      <4>2. /\ rd_ptr \in 0..(Words - 1) /\ beats_left \in 2..Words
            /\ rd_ptr + beats_left <= Words /\ Words \in Nat
        BY <2>2, <4>1, BufferSize DEF IInv, Within, Sending, m_tlast
      <4>3. (rd_ptr + 1) % Words = rd_ptr + 1
        BY <4>2, Advance
      <4> QED BY <2>1, <2>2, <3>2, <4>1, <4>2, <4>3 DEF rd_next, m_tvalid
    <3> QED BY <3>1, <3>2
  <2>4. \A i \in last_keep..(WordBytes - 1) : mem[rd_ptr + beats_left - 1][i] = Zero
    BY <2>2 DEF IInv, LastInv, Sending
  <2>5. rd_ptr' + beats_left' - 1 = rd_ptr + beats_left - 1
    <3>1. rd_ptr \in Nat /\ beats_left \in Nat /\ rd_ptr' \in Nat /\ beats_left' \in Nat
      BY NextWithin, BufferSize DEF IInv, Within
    <3> DEFINE a == rd_ptr'
               b == beats_left'
    <3>2. a \in Nat /\ b \in Nat /\ a + b = rd_ptr + beats_left
      BY <2>3, <3>1
    <3> HIDE DEF a, b
    <3>3. a + b - 1 = rd_ptr + beats_left - 1
      BY <3>1, <3>2
    <3> QED BY <3>3 DEF a, b
  <2> QED BY <2>2, <2>4, <2>5 DEF LastInv
<1>6. CASE UNCHANGED vars
  BY <1>6 DEF vars, IInv, LastInv, Sending
<1> QED BY <1>1, <1>2, <1>3, <1>4, <1>5, <1>6 DEF Next

\* A step of the walk.
LEMMA Walks ==
  ASSUME IInv, Clear
  PROVE  /\ \A w \in 0..clr_addr : mem'[w] = ZeroWord
         /\ state' = "S_RECV" <=> clr_addr = Words - 1
<1>1. clr_addr \in 0..(Words - 1) /\ mem \in [0..(Words - 1) -> Word]
  BY DEF IInv, Within
<1>2. \A w \in 0..clr_addr : w \in 0..(clr_addr - 1) \/ w = clr_addr
  BY <1>1
<1>3. \A w \in 0..(clr_addr - 1) : mem[w] = ZeroWord
  BY DEF Clear, IInv, WalkInv
<1>4. mem' = [mem EXCEPT ![clr_addr] = ZeroWord]
  BY DEF Clear
<1>5. \A w \in 0..clr_addr : w \in 0..(Words - 1)
  BY <1>1, BufferSize
<1>6. \A w \in 0..clr_addr : mem'[w] = ZeroWord
  BY <1>1, <1>2, <1>3, <1>4, <1>5
<1>7. state' = "S_RECV" <=> clr_addr = Words - 1
  BY DEF Clear, clear_last
<1> QED BY <1>6, <1>7

LEMMA NextWalk == IInv /\ [Next]_vars => WalkInv'
<1> SUFFICES ASSUME IInv, [Next]_vars PROVE WalkInv'
  OBVIOUS
<1>1. CASE state' # "S_CLEAR"
  BY <1>1 DEF WalkInv
<1>2. CASE state' = "S_CLEAR" /\ Clear
  <2>1. clr_addr \in 0..(Words - 1) /\ Words \in Nat \ {0}
    BY BufferSize DEF IInv, Within
  <2>2. clr_addr # Words - 1
    BY <1>2, Walks
  <2>3. clr_addr' = clr_addr + 1
    BY <1>2, <2>1, <2>2, Advance DEF Clear
  <2>4. \A w \in 0..(clr_addr' - 1) : w \in 0..clr_addr
    BY <2>1, <2>3
  <2> QED BY <1>2, <2>4, Walks DEF WalkInv
<1>3. CASE state' = "S_CLEAR" /\ Next /\ ~Clear
  BY <1>3 DEF Next, RecvIdle, RecvByte, RecvEnd, Prime, Drain
<1>4. CASE UNCHANGED vars
  BY <1>4 DEF vars, IInv, WalkInv
<1> QED BY <1>1, <1>2, <1>3, <1>4

LEMMA Invariance == Spec => []IInv
<1>1. IInv /\ [Next]_vars => IInv'
  BY NextWithin, NextAsm, NextRead, NextLast, NextWalk DEF IInv
<1> QED BY <1>1, InitIInv, PTL DEF Spec

-----------------------------------------------------------------------------
(* What the decoder guarantees. *)

\* Every pointer of the decoder stays within the buffer, and a frame being
\* sent has a beat left that lies there too.
THEOREM StaysWithin == Spec => []Within
BY Invariance, PTL DEF IInv

\* The lanes of the last beat that the frame does not reach are zero: they
\* never show the end of a longer frame that was in the buffer before.
THEOREM TailsAreZero == Spec => []TailIsZero
<1>1. ASSUME IInv PROVE TailIsZero
  <2> SUFFICES ASSUME state = "S_DRAIN", beats_left = 1
               PROVE  \A i \in last_keep..(WordBytes - 1) : rd_q[i] = Zero
    BY DEF TailIsZero, m_tvalid, m_tlast
  <2>1. rd_ptr \in 0..(Words - 1) /\ rd_q = mem[rd_ptr]
    BY <1>1 DEF IInv, Within, ReadInv
  <2>2. rd_ptr + beats_left - 1 = rd_ptr
    BY <2>1, BufferSize
  <2> QED BY <1>1, <2>1, <2>2 DEF IInv, LastInv, Sending
<1> QED BY <1>1, Invariance, PTL

\* A beat on offer does not change under a sink that makes it wait, although
\* the memory is read anew on every edge.
THEOREM BeatsAreHeld == Spec => BeatHeld
<1>1. ASSUME IInv, [Next]_vars, state = "S_DRAIN", state' = "S_DRAIN", got' = got
      PROVE  rd_q' = rd_q
  <2>1. CASE UNCHANGED vars
    BY <2>1 DEF vars
  <2>2. CASE Next
    <3>1. Drain
      BY <1>1, <2>2 DEF Next, Clear, RecvIdle, RecvByte, RecvEnd, Prime
    <3>2. PICK m_tready \in BOOLEAN :
            /\ Read(rd_next(m_tready))
            /\ got' = IF m_tready THEN got \o [i \in 1..m_tkeep |-> rd_q[i - 1]] ELSE got
      BY <3>1 DEF Drain
    <3>3. ~m_tready
      <4> SUFFICES ASSUME m_tready PROVE FALSE
        OBVIOUS
      <4> DEFINE beat == [i \in 1..m_tkeep |-> rd_q[i - 1]]
      <4>1. m_tkeep \in 1..WordBytes /\ WordBytes \in Nat
        BY <1>1, BufferSize DEF IInv, Within, Sending, m_tkeep
      <4>2. beat \in Seq(Cell) /\ Len(beat) = m_tkeep
        BY <1>1, <4>1 DEF IInv, Within, Word, Lane
      <4>3. got \in Seq(Cell) /\ got = got \o beat
        BY <1>1, <3>2 DEF IInv, Within
      <4> HIDE DEF beat
      <4>4. Len(got) = Len(got) + Len(beat)
        BY ONLY <4>2, <4>3
      <4> QED BY <4>1, <4>2, <4>3, <4>4
    <3>4. rd_next(m_tready) = rd_ptr
      BY <3>3 DEF rd_next
    <3>5. rd_q' = mem[rd_ptr] /\ rd_q = mem[rd_ptr]
      BY <1>1, <3>2, <3>4 DEF Read, IInv, ReadInv
    <3> QED BY <3>5
  <2> QED BY <1>1, <2>1, <2>2
<1>2. IInv /\ [Next]_vars => (m_tvalid /\ got' = got /\ state' = "S_DRAIN" => rd_q' = rd_q)
  BY <1>1 DEF m_tvalid
<1> QED BY <1>2, Invariance, PTL DEF Spec, BeatHeld

\* The decoder takes no byte before it has erased every word of its buffer.
THEOREM WalkedBefore == Spec => Walked
<1>1. ASSUME IInv, [Next]_vars, state = "S_CLEAR", state' = "S_RECV"
      PROVE  \A w \in DOMAIN mem' : mem'[w] = ZeroWord
  <2>1. Clear
    BY <1>1 DEF Next, RecvIdle, RecvByte, RecvEnd, Prime, Drain, vars
  <2>2. clr_addr = Words - 1 /\ \A w \in 0..clr_addr : mem'[w] = ZeroWord
    BY <1>1, <2>1, Walks
  <2>3. DOMAIN mem' = 0..(Words - 1)
    BY <1>1, NextWithin DEF IInv, Within
  <2> QED BY <2>2, <2>3
<1>2. IInv /\ [Next]_vars
      => (state = "S_CLEAR" /\ state' = "S_RECV" => \A w \in DOMAIN mem' : mem'[w] = ZeroWord)
  BY <1>1
<1> QED BY <1>2, Invariance, PTL DEF Spec, Walked

-----------------------------------------------------------------------------
(* Induction over the naturals, and a sequence of sequences strung together. *)

LEMMA NatWF == IsWellFoundedOn({ss \in Nat \X Nat : ss[1] < ss[2]}, Nat)
BY NatLessThanWellFounded DEF OpToRel

\* A set of naturals has a least member; a set closed under successor has all.
LEMMA Least ==
  ASSUME NEW T \in SUBSET Nat, T # {}
  PROVE  \E x \in T : \A y \in T : x <= y
<1> DEFINE R == {ss \in Nat \X Nat : ss[1] < ss[2]}
<1>1. PICK x \in T : \A y \in T : ~(<<y, x>> \in R)
  <2>1. IsWellFoundedOn(R, Nat)
    BY NatWF
  <2> HIDE DEF R
  <2> QED BY <2>1, WFMin
<1>2. ASSUME NEW y \in T PROVE x <= y
  <2>1. <<y, x>> \notin R /\ x \in Nat /\ y \in Nat
    BY <1>1
  <2>2. <<y, x>> \in Nat \X Nat /\ <<y, x>>[1] = y /\ <<y, x>>[2] = x
    BY <2>1
  <2>3. ~(y < x)
    BY <2>1, <2>2
  <2> QED BY <2>1, <2>3
<1> QED BY <1>2

LEMMA Induct ==
  ASSUME NEW S, 0 \in S, \A n \in Nat : n \in S => n + 1 \in S
  PROVE  Nat \subseteq S
<1> SUFFICES ASSUME ~(Nat \subseteq S) PROVE FALSE
  OBVIOUS
<1> DEFINE T == Nat \ S
<1>1. PICK x \in T : \A y \in T : x <= y
  BY Least
<1>2. x # 0 /\ x - 1 \in Nat /\ x - 1 \notin T
  BY <1>1
<1> QED BY <1>1, <1>2

\* FlattenSeq, one sequence at a time.
Glue(a, b) == a \o b
Joined(f, s, n) == f = [i \in 1..n |-> IF i = 1 THEN s[i] ELSE Glue(f[i - 1], s[i])]

LEMMA FlattenIs ==
  ASSUME NEW s, Len(s) \in Nat \ {0}
  PROVE  \E f : Joined(f, s, Len(s)) /\ FlattenSeq(s) = f[Len(s)]
<1> DEFINE S == {k \in Nat : \E f : Joined(f, s, k + 1)}
           F == CHOOSE f : Joined(f, s, Len(s))
<1>1. FlattenSeq(s) = F[Len(s)]
  BY Zenon DEF FlattenSeq, Joined, Glue
<1>2. 0 \in S
  <2>1. Joined([i \in 1..1 |-> s[i]], s, 0 + 1)
    BY DEF Joined
  <2> QED BY <2>1
<1>3. ASSUME NEW k \in Nat, k \in S PROVE k + 1 \in S
  <2>1. PICK g : Joined(g, s, k + 1)
    BY <1>3
  <2>2. PICK h : h = [i \in 1..(k + 2) |-> IF i = k + 2 THEN Glue(g[k + 1], s[i]) ELSE g[i]]
    OBVIOUS
  <2>3. ASSUME NEW i \in 1..(k + 2) PROVE h[i] = IF i = 1 THEN s[i] ELSE Glue(h[i - 1], s[i])
    <3>1. CASE i = k + 2
      BY <2>2, <3>1
    <3>2. CASE i # k + 2
      <4>1. i \in 1..(k + 1) /\ h[i] = g[i] /\ (i # 1 => h[i - 1] = g[i - 1])
        BY <2>2, <3>2
      <4> QED BY <2>1, <4>1 DEF Joined
    <3> QED BY <3>1, <3>2
  <2>4. Joined(h, s, k + 2) /\ k + 1 + 1 = k + 2
    BY <2>2, <2>3 DEF Joined
  <2> QED BY <2>4
<1>4. Nat \subseteq S
  <2> HIDE DEF S
  <2> QED BY <1>2, <1>3, Induct
<1>5. PICK f : Joined(f, s, Len(s))
  <2>1. Len(s) - 1 \in S /\ Len(s) - 1 + 1 = Len(s)
    BY <1>4
  <2> QED BY <2>1
<1>6. Joined(F, s, Len(s))
  BY <1>5
<1> QED BY <1>1, <1>6

LEMMA JoinedAt ==
  ASSUME NEW f, NEW s, NEW n \in Nat, Joined(f, s, n), NEW i \in 1..n, i # 1, NEW j, j = i - 1
  PROVE  f[i] = Glue(f[j], s[i])
<1>1. f[i] = IF i = 1 THEN s[i] ELSE Glue(f[i - 1], s[i])
  BY Zenon DEF Joined
<1> QED BY <1>1

LEMMA FlattenStep ==
  ASSUME NEW S, NEW s \in Seq(Seq(S)), NEW e \in Seq(S)
  PROVE  /\ FlattenSeq(s) \in Seq(S)
         /\ FlattenSeq(Append(s, e)) = FlattenSeq(s) \o e
         /\ FlattenSeq(<<>>) = <<>>
<1> DEFINE n == Len(s)
<1>1. n \in Nat /\ FlattenSeq(<<>>) = <<>>
  BY DEF FlattenSeq
<1>2. PICK t : t = Append(s, e)
  OBVIOUS
<1>3. t \in Seq(Seq(S)) /\ Len(t) = n + 1 /\ t[n + 1] = e /\ \A i \in 1..n : t[i] = s[i]
  BY <1>2
<1>4. PICK g : Joined(g, t, n + 1) /\ FlattenSeq(t) = g[n + 1]
  BY <1>1, <1>3, FlattenIs
<1>5. CASE n = 0
  <2>1. s = <<>> /\ g[1] = e
    BY <1>3, <1>4, <1>5 DEF Joined
  <2>2. FlattenSeq(t) = e
    BY <1>4, <1>5, <2>1
  <2>3. <<>> \o e = e /\ <<>> \in Seq(S)
    OBVIOUS
  <2> QED BY <1>1, <1>2, <2>1, <2>2, <2>3
<1>6. CASE n # 0
  <2>1. PICK f : Joined(f, s, n) /\ FlattenSeq(s) = f[n]
    BY <1>1, <1>6, FlattenIs
  <2> DEFINE I == {k \in Nat : k < n => f[k + 1] = g[k + 1] /\ f[k + 1] \in Seq(S)}
  <2>2. 0 \in I
    <3>1. f[1] = s[1] /\ g[1] = t[1] /\ s[1] = t[1] /\ s[1] \in Seq(S)
      BY <1>1, <1>3, <1>4, <1>6, <2>1 DEF Joined
    <3> QED BY <3>1
  <2>3. ASSUME NEW k \in Nat, k \in I PROVE k + 1 \in I
    <3> SUFFICES ASSUME k + 1 < n PROVE f[k + 2] = g[k + 2] /\ f[k + 2] \in Seq(S)
      BY <1>1
    <3>1. f[k + 1] = g[k + 1] /\ f[k + 1] \in Seq(S)
      BY <1>1, <2>3
    <3>2. k + 2 \in 1..n /\ k + 2 # 1 /\ k + 2 - 1 = k + 1 /\ k + 2 \in 1..(n + 1)
      BY <1>1
    <3>3. f[k + 2] = Glue(f[k + 1], s[k + 2]) /\ g[k + 2] = Glue(g[k + 1], t[k + 2])
      <4>1. PICK i, j : i = k + 2 /\ j = k + 1
        OBVIOUS
      <4>2. i \in 1..n /\ i \in 1..(n + 1) /\ i # 1 /\ j = i - 1 /\ n \in Nat /\ n + 1 \in Nat
        BY <1>1, <3>2, <4>1
      <4>3. f[i] = Glue(f[j], s[i]) /\ g[i] = Glue(g[j], t[i])
        BY <1>4, <2>1, <4>2, JoinedAt
      <4> QED BY <4>1, <4>3
    <3>4. s[k + 2] = t[k + 2] /\ s[k + 2] \in Seq(S)
      BY <1>3, <3>2
    <3> QED BY <3>1, <3>3, <3>4 DEF Glue
  <2>4. Nat \subseteq I
    <3> HIDE DEF I
    <3> QED BY <2>2, <2>3, Induct
  <2>5. f[n] = g[n] /\ f[n] \in Seq(S)
    <3>1. n - 1 \in I /\ n - 1 < n /\ n - 1 + 1 = n
      BY <1>1, <1>6, <2>4
    <3> QED BY <3>1
  <2>6. g[n + 1] = Glue(g[n], e)
    <3>1. n + 1 \in 1..(n + 1) /\ n + 1 # 1 /\ n + 1 - 1 = n
      BY <1>1, <1>6
    <3>2. PICK i : i = n + 1
      OBVIOUS
    <3>3. g[i] = Glue(g[n], t[i])
      BY <1>1, <1>4, <3>1, <3>2, JoinedAt
    <3> QED BY <1>3, <3>2, <3>3
  <2> HIDE DEF n
  <2> QED BY <1>1, <1>2, <1>4, <2>1, <2>5, <2>6 DEF Glue
<1> QED BY <1>5, <1>6

LEMMA SameFlatten == ASSUME NEW s PROVE Slip!FlattenSeq(s) = FlattenSeq(s)
BY Zenon DEF FlattenSeq, Slip!FlattenSeq

-----------------------------------------------------------------------------
(* What a frame of raw bytes stands for, a byte at a time. *)

\* What one raw byte adds to the frame, after an escape or not; whether the
\* bytes end in an escape; whether the escapes before the end are well formed.
Piece(esc, b) == IF b = "ESC" THEN <<>> ELSE IF esc THEN <<Slip!Unescaped(b)>> ELSE <<b>>
EndsEsc(r) == r # <<>> /\ r[Len(r)] = "ESC"
Proper(r) == \A i \in 1..(Len(r) - 1) : r[i] = "ESC" => r[i + 1] \in {"ESC_END", "ESC_ESC"}

LEMMA PieceIs == ASSUME NEW b \in Octet, NEW e PROVE Piece(e, b) \in Seq(Octet)
<1>1. Slip!Unescaped(b) \in Octet
  BY DEF Slip!Unescaped, Octet
<1>2. <<b>> \in Seq(Octet) /\ <<Slip!Unescaped(b)>> \in Seq(Octet) /\ <<>> \in Seq(Octet)
  BY <1>1
<1> QED BY <1>2 DEF Piece

\* A raw byte more adds its piece, and nothing before it changes.
LEMMA DecodedStep ==
  ASSUME NEW r \in Seq(Octet), NEW b \in Octet
  PROVE  /\ Slip!Decoded(<<>>) = <<>> /\ Slip!Decoded(r) \in Seq(Octet)
         /\ Slip!Decoded(Append(r, b)) = Slip!Decoded(r) \o Piece(EndsEsc(r), b)
<1> DEFINE esc(s, i) == i > 1 /\ s[i - 1] = "ESC"
           Pieces(s) == [i \in DOMAIN s |-> Piece(esc(s, i), s[i])]
<1>1. ASSUME NEW s PROVE Slip!Decoded(s) = FlattenSeq(Pieces(s))
  <2>1. Pieces(s) = [i \in DOMAIN s |->
           CASE s[i] = "ESC" -> <<>>
             [] s[i] # "ESC" /\ i > 1 /\ s[i - 1] = "ESC" -> <<Slip!Unescaped(s[i])>>
             [] OTHER -> <<s[i]>>]
    BY DEF Piece
  <2> HIDE DEF Pieces
  <2>2. Slip!Decoded(s) = Slip!FlattenSeq(Pieces(s))
    BY <2>1, Zenon DEF Slip!Decoded
  <2> QED BY <2>2, SameFlatten
<1>a. PICK t : t = Append(r, b)
  OBVIOUS
<1>b. PICK n \in Nat : n = Len(r)
  OBVIOUS
<1>2. t = Append(r, b) /\ n = Len(r) /\ n \in Nat
  BY <1>a, <1>b
<1>3. /\ t \in Seq(Octet) /\ Len(t) = n + 1 /\ t[n + 1] = b /\ \A i \in 1..n : t[i] = r[i]
      /\ DOMAIN t = 1..(n + 1) /\ DOMAIN r = 1..n
  BY <1>2
<1>4. ASSUME NEW i \in 1..n PROVE Pieces(r)[i] \in Seq(Octet)
  BY <1>3, <1>4, PieceIs
<1>5. Pieces(r) \in Seq(Seq(Octet)) /\ Len(Pieces(r)) = n
  <2>1. Pieces(r) = [i \in 1..n |-> Pieces(r)[i]]
    BY <1>3
  <2> HIDE DEF Pieces
  <2>2. [i \in 1..n |-> Pieces(r)[i]] \in Seq(Seq(Octet)) /\ Len([i \in 1..n |-> Pieces(r)[i]]) = n
    BY <1>2, <1>4
  <2> QED BY <2>1, <2>2
<1> DEFINE p == Piece(EndsEsc(r), b)
<1>6. p \in Seq(Octet)
  BY PieceIs
<1>7. esc(t, n + 1) <=> EndsEsc(r)
  <2>1. r = <<>> <=> n = 0
    BY <1>2
  <2> QED BY <1>2, <1>3, <2>1 DEF EndsEsc
<1>8. Pieces(t)[n + 1] = p
  <2>1. CASE EndsEsc(r)
    BY <1>2, <1>3, <1>7, <2>1 DEF Piece
  <2>2. CASE ~EndsEsc(r)
    BY <1>2, <1>3, <1>7, <2>2 DEF Piece
  <2> QED BY <2>1, <2>2
<1>9. ASSUME NEW i \in 1..n PROVE Pieces(t)[i] = Pieces(r)[i]
  <2>1. t[i] = r[i] /\ i \in 1..(n + 1) /\ (i > 1 => t[i - 1] = r[i - 1])
    BY <1>2, <1>3
  <2> QED BY <1>3, <2>1 DEF Piece
<1>10. Pieces(t) = Append(Pieces(r), p)
  <2>1. DOMAIN Pieces(t) = 1..(n + 1) /\ Pieces(t) = [i \in 1..(n + 1) |-> Pieces(t)[i]]
    BY <1>3
  <2> HIDE DEF Pieces, p
  <2>2. PICK u : u = Append(Pieces(r), p)
    OBVIOUS
  <2>3. /\ u \in Seq(Seq(Octet)) /\ Len(u) = n + 1 /\ u[n + 1] = p
        /\ \A i \in 1..n : u[i] = Pieces(r)[i]
    BY <1>2, <1>5, <1>6, <2>2
  <2>4. ASSUME NEW i \in 1..(n + 1) PROVE Pieces(t)[i] = u[i]
    <3>1. i \in 1..n \/ i = n + 1
      BY <1>2
    <3> QED BY <1>8, <1>9, <2>3, <3>1
  <2>5. u = [i \in 1..(n + 1) |-> u[i]]
    BY <1>2, <2>3
  <2> QED BY <2>1, <2>2, <2>4, <2>5
<1>11. Pieces(<<>>) = <<>>
  BY DEF Pieces
<1> HIDE DEF Pieces, p
<1>12. /\ FlattenSeq(Pieces(r)) \in Seq(Octet) /\ FlattenSeq(<<>>) = <<>>
       /\ FlattenSeq(Append(Pieces(r), p)) = FlattenSeq(Pieces(r)) \o p
  BY <1>5, <1>6, FlattenStep
<1> QED BY <1>1, <1>2, <1>10, <1>11, <1>12 DEF p

\* A raw byte more is legal unless an escape waits for another one.
LEMMA EscapesStep ==
  ASSUME NEW r \in Seq(Octet), NEW b \in Octet
  PROVE  /\ Append(r, b) \in Seq(Octet) /\ Append(r, b) # <<>>
         /\ Proper(<<>>) /\ ~EndsEsc(<<>>)
         /\ EndsEsc(Append(r, b)) <=> b = "ESC"
         /\ Proper(Append(r, b)) <=> Proper(r) /\ (EndsEsc(r) => b \in {"ESC_END", "ESC_ESC"})
         /\ Slip!WellEscaped(r) <=> Proper(r) /\ ~EndsEsc(r)
<1>a. PICK t : t = Append(r, b)
  OBVIOUS
<1>b. PICK n \in Nat : n = Len(r)
  OBVIOUS
<1>1. t = Append(r, b) /\ n = Len(r) /\ n \in Nat
  BY <1>a, <1>b
<1>2. /\ t \in Seq(Octet) /\ Len(t) = n + 1 /\ t[n + 1] = b /\ \A i \in 1..n : t[i] = r[i]
      /\ DOMAIN t = 1..(n + 1) /\ DOMAIN r = 1..n /\ t # <<>> /\ (r = <<>> <=> n = 0)
  BY <1>1
<1>3. EndsEsc(t) <=> b = "ESC"
  BY <1>2 DEF EndsEsc
<1>4. Proper(t) <=> Proper(r) /\ (EndsEsc(r) => b \in {"ESC_END", "ESC_ESC"})
  <2>1. ASSUME Proper(t) PROVE Proper(r) /\ (EndsEsc(r) => b \in {"ESC_END", "ESC_ESC"})
    <3>1. ASSUME NEW i \in 1..(n - 1), r[i] = "ESC" PROVE r[i + 1] \in {"ESC_END", "ESC_ESC"}
      <4>1. i \in 1..(Len(t) - 1) /\ i \in 1..n /\ i + 1 \in 1..n
        BY <1>1, <1>2
      <4> QED BY <1>2, <2>1, <3>1, <4>1 DEF Proper
    <3>2. EndsEsc(r) => b \in {"ESC_END", "ESC_ESC"}
      BY <1>1, <1>2, <2>1 DEF Proper, EndsEsc
    <3> QED BY <1>1, <3>1, <3>2 DEF Proper
  <2>2. ASSUME Proper(r), EndsEsc(r) => b \in {"ESC_END", "ESC_ESC"} PROVE Proper(t)
    <3> SUFFICES ASSUME NEW i \in 1..n, t[i] = "ESC" PROVE t[i + 1] \in {"ESC_END", "ESC_ESC"}
      BY <1>1, <1>2 DEF Proper
    <3>1. CASE i = n
      BY <1>1, <1>2, <2>2, <3>1 DEF EndsEsc
    <3>2. CASE i # n
      <4>1. i \in 1..(Len(r) - 1) /\ i + 1 \in 1..n
        BY <1>1, <3>2
      <4> QED BY <1>2, <2>2, <4>1 DEF Proper
    <3> QED BY <3>1, <3>2
  <2> QED BY <2>1, <2>2
<1>5. Slip!WellEscaped(r) <=> Proper(r) /\ ~EndsEsc(r)
  <2>1. ASSUME Slip!WellEscaped(r) PROVE Proper(r) /\ ~EndsEsc(r)
    BY <1>1, <1>2, <2>1 DEF Slip!WellEscaped, Proper, EndsEsc
  <2>2. ASSUME Proper(r), ~EndsEsc(r), NEW i \in DOMAIN r, r[i] = "ESC"
        PROVE  i < Len(r) /\ r[i + 1] \in {"ESC_END", "ESC_ESC"}
    <3>1. i # n
      BY <1>1, <1>2, <2>2 DEF EndsEsc
    <3>2. i \in 1..(Len(r) - 1)
      BY <1>1, <1>2, <3>1
    <3> QED BY <1>1, <2>2, <3>2 DEF Proper
  <2> QED BY <2>1, <2>2 DEF Slip!WellEscaped
<1>6. Proper(<<>>) /\ ~EndsEsc(<<>>)
  BY DEF Proper, EndsEsc
<1> QED BY <1>1, <1>2, <1>3, <1>4, <1>5, <1>6

-----------------------------------------------------------------------------
(* The words of the buffer, strung together. *)

\* The first k bytes of a word; the first n words of a memory.
Part(word, k) == [i \in 1..k |-> word[i - 1]]
Full(m, n) == FlattenSeq([w \in 1..n |-> Part(m[w - 1], WordBytes)])
Memory == [0..(Words - 1) -> Word]

LEMMA PartIs ==
  ASSUME NEW word \in Word, NEW k \in 0..WordBytes
  PROVE  /\ Part(word, k) \in Seq(Cell) /\ Len(Part(word, k)) = k
         /\ Part(word, 0) = <<>> /\ (k > 0 => Part(word, k) # <<>>)
<1>1. WordBytes \in Nat \ {0}
  BY BufferSize
<1>2. \A i \in 1..k : word[i - 1] \in Cell
  BY <1>1 DEF Word, Lane
<1>3. Part(word, k) \in Seq(Cell) /\ Len(Part(word, k)) = k
  BY <1>1, <1>2 DEF Part
<1>4. Part(word, 0) = <<>>
  <2>1. Part(word, 0) \in Seq(Cell) /\ Len(Part(word, 0)) = 0
    BY <1>1 DEF Part
  <2> QED BY <2>1, EmptySeq
<1>5. k > 0 => Part(word, k) # <<>>
  BY <1>3, EmptySeq
<1> QED BY <1>3, <1>4, <1>5

\* A byte more in a word.
LEMMA PartStep ==
  ASSUME NEW word \in Word, NEW k \in Lane, NEW b \in Cell
  PROVE  /\ [word EXCEPT ![k] = b] \in Word
         /\ Part([word EXCEPT ![k] = b], k + 1) = Part(word, k) \o <<b>>
<1>1. WordBytes \in Nat \ {0} /\ k \in Nat /\ k < WordBytes
  BY BufferSize DEF Lane
<1>2. PICK v : v = [word EXCEPT ![k] = b]
  OBVIOUS
<1>3. v \in Word /\ v[k] = b /\ \A i \in Lane : i # k => v[i] = word[i]
  BY <1>2 DEF Word
<1>4. /\ Part(v, k + 1) \in Seq(Cell) /\ Len(Part(v, k + 1)) = k + 1
      /\ Part(word, k) \in Seq(Cell) /\ Len(Part(word, k)) = k
  <2>1. k \in 0..WordBytes /\ k + 1 \in 0..WordBytes
    BY <1>1
  <2> QED BY <1>3, <2>1, PartIs
<1>5. <<b>> \in Seq(Cell) /\ Len(<<b>>) = 1 /\ <<b>>[1] = b
  OBVIOUS
<1>6. PICK s, t : s = Part(v, k + 1) /\ t = Part(word, k) \o <<b>>
  OBVIOUS
<1>7. t \in Seq(Cell) /\ Len(t) = k + 1
  BY <1>1, <1>4, <1>5, <1>6
<1>8. ASSUME NEW i \in 1..(k + 1) PROVE s[i] = t[i]
  <2>1. CASE i = k + 1
    <3>1. s[i] = b
      BY <1>1, <1>3, <1>6, <2>1 DEF Part
    <3>2. t[i] = b
      BY <1>1, <1>4, <1>5, <1>6, <2>1
    <3> QED BY <3>1, <3>2
  <2>2. CASE i # k + 1
    <3>1. i \in 1..k /\ i - 1 \in Lane /\ i - 1 # k
      BY <1>1, <2>2 DEF Lane
    <3>2. s[i] = word[i - 1]
      BY <1>3, <1>6, <3>1 DEF Part
    <3>3. t[i] = Part(word, k)[i]
      BY <1>1, <1>4, <1>5, <1>6, <3>1
    <3>4. Part(word, k)[i] = word[i - 1]
      BY <3>1 DEF Part
    <3> QED BY <3>2, <3>3, <3>4
  <2> QED BY <2>1, <2>2
<1>9. s = t
  BY <1>4, <1>6, <1>7, <1>8, SeqEqual
<1> QED BY <1>2, <1>3, <1>6, <1>9

\* A word more of the memory, and of a frame in it.
LEMMA FullStep ==
  ASSUME NEW m \in Memory, NEW n \in 0..(Words - 1), NEW k \in 0..WordBytes
  PROVE  /\ Full(m, n) \in Seq(Cell) /\ Full(m, 0) = <<>>
         /\ Full(m, n + 1) = Full(m, n) \o Part(m[n], WordBytes)
         /\ FlattenSeq([w \in 1..(n + 1) |-> Part(m[w - 1], IF w = n + 1 THEN k ELSE WordBytes)])
              = Full(m, n) \o Part(m[n], k)
<1>1. WordBytes \in Nat \ {0} /\ Words \in Nat /\ n \in Nat /\ WordBytes \in 0..WordBytes
  BY BufferSize
<1> DEFINE Pieces == [w \in 1..n |-> Part(m[w - 1], WordBytes)]
<1>2. \A w \in 0..n : m[w] \in Word
  BY <1>1 DEF Memory
<1>3. Pieces \in Seq(Seq(Cell)) /\ Len(Pieces) = n
  <2>1. \A w \in 1..n : Part(m[w - 1], WordBytes) \in Seq(Cell)
    BY <1>1, <1>2, PartIs
  <2> QED BY <1>1, <2>1
<1>4. ASSUME NEW j \in 0..WordBytes
      PROVE  FlattenSeq([w \in 1..(n + 1) |-> Part(m[w - 1], IF w = n + 1 THEN j ELSE WordBytes)])
              = Full(m, n) \o Part(m[n], j)
  <2>1. PICK e : e = Part(m[n], j)
    OBVIOUS
  <2>2. e \in Seq(Cell)
    BY <1>1, <1>2, <2>1, PartIs
  <2>3. PICK u : u = Append(Pieces, e)
    OBVIOUS
  <2>4. PICK v : v = [w \in 1..(n + 1) |-> Part(m[w - 1], IF w = n + 1 THEN j ELSE WordBytes)]
    OBVIOUS
  <2>5. \A w \in 1..n : Pieces[w] = Part(m[w - 1], WordBytes)
    OBVIOUS
  <2> HIDE DEF Pieces
  <2>6. /\ u \in Seq(Seq(Cell)) /\ Len(u) = n + 1 /\ u[n + 1] = e /\ \A w \in 1..n : u[w] = Pieces[w]
    BY <1>1, <1>3, <2>2, <2>3
  <2>7. ASSUME NEW w \in 1..(n + 1) PROVE v[w] = u[w]
    <3>1. (w \in 1..n /\ w # n + 1) \/ (w = n + 1 /\ w - 1 = n)
      BY <1>1
    <3>2. v[w] = Part(m[w - 1], IF w = n + 1 THEN j ELSE WordBytes)
      BY <2>4
    <3> QED BY <2>1, <2>5, <2>6, <3>1, <3>2
  <2>8. u = [w \in 1..(n + 1) |-> u[w]] /\ v = [w \in 1..(n + 1) |-> v[w]]
    BY <1>1, <2>4, <2>6
  <2>9. u = v
    BY <2>7, <2>8
  <2>10. FlattenSeq(u) = FlattenSeq(Pieces) \o e
    BY <1>3, <2>2, <2>3, FlattenStep
  <2> QED BY <2>1, <2>4, <2>9, <2>10 DEF Full, Pieces
<1>5. Full(m, n + 1) = Full(m, n) \o Part(m[n], WordBytes)
  <2>1. [w \in 1..(n + 1) |-> Part(m[w - 1], IF w = n + 1 THEN WordBytes ELSE WordBytes)]
          = [w \in 1..(n + 1) |-> Part(m[w - 1], WordBytes)]
    OBVIOUS
  <2> QED BY <1>1, <1>4, <2>1 DEF Full
<1>6. Full(m, n) \in Seq(Cell) /\ FlattenSeq(<<>>) = <<>>
  <2>1. <<>> \in Seq(Cell)
    BY EmptySeq
  <2> HIDE DEF Pieces
  <2>2. FlattenSeq(Pieces) \in Seq(Cell) /\ FlattenSeq(<<>>) = <<>>
    BY <1>3, <2>1, FlattenStep
  <2> QED BY <2>2 DEF Full, Pieces
<1>7. Full(m, 0) = <<>>
  <2>1. [w \in 1..0 |-> Part(m[w - 1], WordBytes)] = <<>>
    OBVIOUS
  <2> QED BY <1>6, <2>1 DEF Full
<1> QED BY <1>4, <1>5, <1>6, <1>7

\* Only the words that are read matter.
LEMMA FullSame ==
  ASSUME NEW m, NEW k, NEW n \in Nat, \A w \in 0..(n - 1) : m[w] = k[w]
  PROVE  Full(m, n) = Full(k, n)
<1>1. \A w \in 1..n : m[w - 1] = k[w - 1]
  OBVIOUS
<1>2. [w \in 1..n |-> Part(m[w - 1], WordBytes)] = [w \in 1..n |-> Part(k[w - 1], WordBytes)]
  BY <1>1
<1> QED BY <1>2 DEF Full

\* The frame in the buffer.
LEMMA FrameIs ==
  ASSUME Within, NEW n \in 1..Words, NEW k \in 0..WordBytes
  PROVE  /\ FrameBytes(n, k) = Full(mem, n - 1) \o Part(mem[n - 1], k)
         /\ FrameBytes(n, k) \in Seq(Cell) /\ (k > 0 => FrameBytes(n, k) # <<>>)
<1>1. PICK j : j = n - 1 /\ j + 1 = n /\ j \in 0..(Words - 1)
  BY BufferSize
<1>2. mem \in Memory /\ mem[j] \in Word
  BY <1>1 DEF Within, Memory
<1>3. [w \in 1..n |-> [i \in 1..(IF w = n THEN k ELSE WordBytes) |-> mem[w - 1][i - 1]]]
        = [w \in 1..(j + 1) |-> Part(mem[w - 1], IF w = j + 1 THEN k ELSE WordBytes)]
  BY <1>1 DEF Part
<1>4. FrameBytes(n, k) = Full(mem, j) \o Part(mem[j], k)
  <2>1. FrameBytes(n, k) = FlattenSeq([w \in 1..(j + 1) |-> Part(mem[w - 1], IF w = j + 1 THEN k ELSE WordBytes)])
    BY <1>3 DEF FrameBytes
  <2> QED BY <1>1, <1>2, <2>1, FullStep
<1>5. /\ Full(mem, j) \in Seq(Cell) /\ Part(mem[j], k) \in Seq(Cell)
      /\ (k > 0 => Part(mem[j], k) # <<>>)
  BY <1>1, <1>2, FullStep, PartIs
<1>6. (k > 0 => FrameBytes(n, k) # <<>>) /\ FrameBytes(n, k) \in Seq(Cell)
  BY <1>4, <1>5, ConcatEqualIffEmpty, ConcatProperties
<1> QED BY <1>1, <1>4, <1>6

-----------------------------------------------------------------------------
(* What the registers know of the frame being read, and of the one being sent. *)

\* err_esc and esc_pend are the verdict on the escapes read since the last END.
Escapes ==
  /\ raw \in Seq(Octet) /\ esc_pend \in BOOLEAN /\ err_esc \in BOOLEAN
  /\ IF err_esc THEN ~Proper(raw) ELSE Proper(raw) /\ (esc_pend <=> EndsEsc(raw))

\* The full words and the word being filled hold d, or d did not fit.
Held(d) ==
  IF err_long THEN Len(d) > Bytes
  ELSE Len(d) = len /\ d = Full(mem, len \div WordBytes) \o Part(asm_w, len % WordBytes)

\* What they hold is what the raw bytes stand for.
Buffered ==
  /\ err_long \in BOOLEAN /\ (err_long => len = Bytes)
  /\ ~err_esc => Held(Slip!Decoded(raw))

\* No frame is being read while one is sent or the buffer is erased.
Resting == state # "S_RECV" => raw = <<>> /\ len = 0 /\ ~err_esc /\ ~esc_pend /\ ~err_long

\* What has gone out of the frame being sent is its first rd_ptr words.
Streamed ==
  /\ state = "S_CLEAR" => got = <<>>
  /\ state = "S_PRIME" => rd_ptr = 0
  /\ Sending => got = Full(mem, rd_ptr) /\ Len(got) = WordBytes * rd_ptr

Counted == cnt = [w \in Counters |-> cnt[w]]

FrameInv == IInv /\ Escapes /\ Buffered /\ Resting /\ Streamed /\ Counted

LEMMA FullEmpty ==
  ASSUME NEW m \in Memory, NEW word \in Word
  PROVE  Full(m, 0) = <<>> /\ Full(m, 0 \div WordBytes) \o Part(word, 0 % WordBytes) = <<>>
<1>1. WordBytes \in Nat \ {0} /\ 0 \in 0..(Words - 1) /\ 0 \in 0..WordBytes
  BY BufferSize
<1>2. 0 \div WordBytes = 0 /\ 0 % WordBytes = 0
  BY <1>1
<1>3. Full(m, 0) = <<>> /\ Part(word, 0) = <<>>
  BY <1>1, FullStep, PartIs
<1>4. <<>> \o <<>> = <<>>
  OBVIOUS
<1> QED BY <1>2, <1>3, <1>4

LEMMA HeldEmpty == ASSUME Within', len' = 0, ~err_long' PROVE Held(<<>>)'
<1>1. mem' \in Memory /\ asm_w' \in Word
  BY DEF Within, Memory
<1>2. Full(mem', 0 \div WordBytes) \o Part(asm_w', 0 % WordBytes) = <<>>
  BY <1>1, FullEmpty
<1> QED BY <1>2 DEF Held

LEMMA InitFrame == Init => FrameInv
<1> SUFFICES ASSUME Init PROVE FrameInv
  OBVIOUS
<1>1. IInv /\ Within
  BY InitIInv DEF IInv
<1>2. mem \in Memory /\ asm_w \in Word
  BY <1>1 DEF Within, Memory
<1>3. Escapes
  <2>1. <<>> \in Seq(Octet) /\ "END" \in Octet
    BY EmptySeq DEF Octet
  <2>2. Proper(<<>>) /\ ~EndsEsc(<<>>)
    BY <2>1, EscapesStep
  <2> QED BY <2>1, <2>2 DEF Init, Escapes
<1>4. Buffered
  <2>1. <<>> \in Seq(Octet) /\ "END" \in Octet
    BY EmptySeq DEF Octet
  <2>2. Slip!Decoded(<<>>) = <<>>
    BY <2>1, DecodedStep
  <2>3. Full(mem, 0 \div WordBytes) \o Part(asm_w, 0 % WordBytes) = <<>>
    BY <1>2, FullEmpty
  <2> QED BY <2>2, <2>3 DEF Init, Buffered, Held
<1>5. Resting /\ Streamed /\ Counted
  BY DEF Init, Resting, Streamed, Sending, Counted
<1> QED BY <1>1, <1>3, <1>4, <1>5 DEF FrameInv

\* A byte that is stored makes what the buffer holds a byte longer.
LEMMA ThreeParts ==
  ASSUME NEW x \in Seq(Cell), NEW y \in Seq(Cell), NEW z \in Seq(Cell)
  PROVE  (x \o y) \o z = x \o (y \o z)
BY ConcatAssociative

LEMMA Below ==
  ASSUME NEW w \in Nat \ {0}, NEW q \in Nat, NEW r \in Nat, NEW n \in Nat, (w * q) + r < w * n
  PROVE  q < n
<1> SUFFICES ASSUME ~(q < n) PROVE FALSE
  OBVIOUS
<1>1. PICK k \in Nat : q = n + k
  <2>1. q - n \in Nat /\ q = n + (q - n)
    OBVIOUS
  <2> QED BY <2>1
<1>2. w * q = (w * n) + (w * k) /\ w * k \in Nat /\ w * n \in Nat
  BY <1>1
<1> QED BY <1>2

LEMMA StoreHolds ==
  ASSUME Within, NEW b \in Octet, Store(b), len # Bytes, NEW d \in Seq(Cell),
         d = Full(mem, len \div WordBytes) \o Part(asm_w, len % WordBytes)
  PROVE  d \o <<b>> = Full(mem', len' \div WordBytes) \o Part(asm_w', len' % WordBytes)
<1> DEFINE q == len \div WordBytes
           r == len % WordBytes
<1>1. /\ WordBytes \in Nat \ {0} /\ Words \in Nat \ {0} /\ len \in Nat /\ len < WordBytes * Words
      /\ Bytes = WordBytes * Words /\ b \in Cell /\ <<b>> \in Seq(Cell)
      /\ mem \in Memory /\ asm_w \in Word
  BY BufferSize DEF Within, Cell, Memory
<1>2. q \in Nat /\ r \in 0..(WordBytes - 1) /\ len = (WordBytes * q) + r
  BY <1>1, Division
<1>3. /\ len' = len + 1 /\ asm_w' = AsmAfter(b)
      /\ mem' = IF r = WordBytes - 1 THEN [mem EXCEPT ![q] = [asm_w EXCEPT ![WordBytes - 1] = b]] ELSE mem
  BY DEF Store, at_cap
<1>4. /\ r = WordBytes - 1 => asm_w' = ZeroWord
      /\ r # WordBytes - 1 => asm_w' = [asm_w EXCEPT ![r] = b]
  BY <1>3 DEF AsmAfter
<1> HIDE DEF q, r
<1>5. q \in 0..(Words - 1)
  <2>1. q < Words
    <3>1. (WordBytes * q) + r < WordBytes * Words /\ r \in Nat
      BY <1>1, <1>2
    <3> QED BY <1>1, <1>2, <3>1, Below
  <2> QED BY <1>1, <1>2, <2>1
<1>6. /\ Full(mem, q) \in Seq(Cell) /\ Part(asm_w, r) \in Seq(Cell) /\ r \in Lane /\ r \in 0..WordBytes
      /\ WordBytes \in 0..WordBytes /\ 0 \in 0..WordBytes
      /\ d = Full(mem, q) \o Part(asm_w, r)
  <2>1. r \in 0..WordBytes /\ r \in Lane /\ WordBytes \in 0..WordBytes /\ 0 \in 0..WordBytes
    BY <1>1, <1>2 DEF Lane
  <2> QED BY <1>1, <1>5, <2>1, FullStep, PartIs DEF q, r
<1>7. /\ [asm_w EXCEPT ![r] = b] \in Word
      /\ Part([asm_w EXCEPT ![r] = b], r + 1) = Part(asm_w, r) \o <<b>>
  BY <1>1, <1>6, PartStep
<1>8. d \o <<b>> = Full(mem, q) \o (Part(asm_w, r) \o <<b>>)
  <2>1. PICK x, y, z : x = Full(mem, q) /\ y = Part(asm_w, r) /\ z = <<b>>
    OBVIOUS
  <2>2. x \in Seq(Cell) /\ y \in Seq(Cell) /\ z \in Seq(Cell) /\ d = x \o y
    BY <1>1, <1>6, <2>1
  <2>3. (x \o y) \o z = x \o (y \o z)
    BY <2>2, ThreeParts
  <2> QED BY <2>1, <2>2, <2>3, Zenon
<1>9. CASE r = WordBytes - 1
  <2> DEFINE v == [asm_w EXCEPT ![r] = b]
  <2>1. mem' = [mem EXCEPT ![q] = v] /\ v \in Word
    BY <1>3, <1>7, <1>9
  <2> HIDE DEF v
  <2>2. mem' \in Memory /\ mem'[q] = v /\ \A w \in 0..(q - 1) : mem'[w] = mem[w]
    BY <1>1, <1>5, <2>1 DEF Memory
  <2>3. Full(mem', q) = Full(mem, q)
    BY <1>2, <2>2, FullSame
  <2>4. Full(mem', q + 1) = Full(mem', q) \o Part(v, WordBytes)
    BY <1>5, <1>6, <2>2, FullStep
  <2>5. Part(v, WordBytes) = Part(asm_w, r) \o <<b>>
    <3>1. r + 1 = WordBytes
      BY <1>1, <1>9
    <3> QED BY <1>7, <3>1 DEF v
  <2>6. len' \div WordBytes = q + 1 /\ len' % WordBytes = 0
    <3> DEFINE m == len'
               p == q + 1
    <3>1. m = (WordBytes * p) + 0
      BY <1>1, <1>2, <1>3, <1>9
    <3>2. m \in Nat /\ p \in Nat /\ 0 \in 0..(WordBytes - 1)
      BY <1>1, <1>2, <1>3
    <3> HIDE DEF m, p
    <3>3. m \div WordBytes = p /\ m % WordBytes = 0
      BY ONLY <1>1, <3>1, <3>2, QuotientIs
    <3> QED BY <3>3 DEF m, p
  <2>7. Part(asm_w', 0) = <<>>
    BY <1>4, <1>6, <1>9, ZeroIsWord, PartIs
  <2>8. d \o <<b>> = Full(mem', q + 1) /\ d \o <<b>> \in Seq(Cell)
    <3>1. d \o <<b>> = Full(mem', q + 1)
      BY <1>8, <2>3, <2>4, <2>5, Zenon
    <3>2. d \o <<b>> \in Seq(Cell)
      BY <1>1, ConcatProperties
    <3> QED BY <3>1, <3>2
  <2> QED BY <2>6, <2>7, <2>8, ConcatEmptySeq
<1>10. CASE r # WordBytes - 1
  <2>1. mem' = mem /\ asm_w' = [asm_w EXCEPT ![r] = b]
    BY <1>3, <1>4, <1>10
  <2>2. len' \div WordBytes = q /\ len' % WordBytes = r + 1
    <3> DEFINE m == len'
               s == r + 1
    <3>1. m \in Nat /\ q \in Nat /\ s \in 0..(WordBytes - 1) /\ m = (WordBytes * q) + s
      BY <1>1, <1>2, <1>3, <1>10
    <3> HIDE DEF m, s
    <3>2. m \div WordBytes = q /\ m % WordBytes = s
      BY ONLY <1>1, <3>1, QuotientIs
    <3> QED BY <3>2 DEF m, s
  <2> QED BY <1>7, <1>8, <2>1, <2>2
<1> QED BY <1>9, <1>10

LEMMA StoreHeld ==
  ASSUME Within, NEW b \in Octet, Store(b), err_long \in BOOLEAN, err_long => len = Bytes
  PROVE  /\ err_long' \in BOOLEAN /\ (err_long' => len' = Bytes)
         /\ \A d \in Seq(Cell) : Held(d) => Held(d \o <<b>>)'
<1>1. len \in Nat /\ Bytes \in Nat /\ b \in Cell /\ <<b>> \in Seq(Cell) /\ len <= Bytes
  BY BufferSize DEF Within, Cell
<1>2. CASE len = Bytes
  <2>1. err_long' = TRUE /\ len' = len
    BY <1>2 DEF Store, at_cap
  <2>2. ASSUME NEW d \in Seq(Cell), Held(d) PROVE Len(d \o <<b>>) > Bytes
    <3>1. Len(d) \in Nat /\ Len(d) >= Bytes
      BY <1>1, <1>2, <2>2 DEF Held
    <3>2. Len(d \o <<b>>) = Len(d) + 1
      BY <1>1
    <3> QED BY <1>1, <3>1, <3>2
  <2> QED BY <1>2, <2>1, <2>2 DEF Held
<1>3. CASE len # Bytes
  <2>1. ~err_long /\ err_long' = FALSE /\ len' = len + 1
    BY <1>3 DEF Store, at_cap
  <2>2. ASSUME NEW d \in Seq(Cell), Held(d) PROVE Held(d \o <<b>>)'
    <3>1. Len(d) = len /\ d = Full(mem, len \div WordBytes) \o Part(asm_w, len % WordBytes)
      BY <2>1, <2>2 DEF Held
    <3>2. d \o <<b>> = Full(mem', len' \div WordBytes) \o Part(asm_w', len' % WordBytes)
      BY <1>3, <3>1, StoreHolds
    <3>3. Len(d \o <<b>>) = len'
      BY <1>1, <2>1, <3>1
    <3> QED BY <2>1, <3>2, <3>3 DEF Held
  <2> QED BY <2>1, <2>2
<1> QED BY <1>2, <1>3

-----------------------------------------------------------------------------
(* One edge after another. *)

\* What an edge that takes no byte leaves alone.
LEMMA QuietFrame ==
  ASSUME FrameInv, FrameKeep, UNCHANGED raw, Within', mem' = mem \/ state = "S_CLEAR"
  PROVE  Escapes' /\ Buffered'
<1>1. Escapes'
  BY DEF FrameInv, Escapes, FrameKeep
<1>2. CASE mem' = mem
  <2>1. Buffered /\ UNCHANGED <<len, asm_w, err_esc, err_long, mem, raw>>
    BY <1>2 DEF FrameInv, FrameKeep
  <2> QED BY <1>1, <2>1 DEF Buffered, Held
<1>3. CASE state = "S_CLEAR"
  <2>1. raw = <<>> /\ len' = 0 /\ ~err_long' /\ raw' = <<>> /\ err_long' = FALSE
    BY <1>3 DEF FrameInv, Resting, FrameKeep, Buffered
  <2>2. <<>> \in Seq(Octet) /\ "END" \in Octet
    BY EmptySeq DEF Octet
  <2>3. Slip!Decoded(<<>>) = <<>>
    BY <2>2, DecodedStep
  <2>4. Held(<<>>)'
    BY <2>1, HeldEmpty
  <2> QED BY <1>1, <2>1, <2>3, <2>4 DEF Buffered
<1> QED BY <1>2, <1>3

LEMMA NextBytes ==
  ASSUME FrameInv, RecvByte
  PROVE  Escapes' /\ Buffered'
<1>1. PICK b \in Octet \ {"END"} :
        /\ raw' = Append(raw, b) /\ esc_pend' = (b = "ESC" /\ ~esc_pend)
        /\ \/ /\ esc_pend /\ b \notin {"ESC_END", "ESC_ESC"}
              /\ err_esc' = TRUE /\ UNCHANGED <<len, asm_w, err_long, mem>>
           \/ /\ esc_pend /\ b \in {"ESC_END", "ESC_ESC"}
              /\ Store(IF b = "ESC_END" THEN "END" ELSE "ESC") /\ UNCHANGED err_esc
           \/ /\ ~esc_pend /\ b # "ESC"
              /\ Store(b) /\ UNCHANGED err_esc
           \/ /\ ~esc_pend /\ b = "ESC"
              /\ UNCHANGED <<len, asm_w, err_long, err_esc, mem>>
  BY DEF RecvByte
<1>2. /\ raw \in Seq(Octet) /\ esc_pend \in BOOLEAN /\ err_esc \in BOOLEAN /\ Within
      /\ IF err_esc THEN ~Proper(raw) ELSE Proper(raw) /\ (esc_pend <=> EndsEsc(raw))
      /\ err_long \in BOOLEAN /\ (err_long => len = Bytes) /\ (~err_esc => Held(Slip!Decoded(raw)))
  BY DEF FrameInv, IInv, Escapes, Buffered
<1> DEFINE legal == b \in {"ESC_END", "ESC_ESC"}
<1>3. /\ raw' \in Seq(Octet) /\ (EndsEsc(raw') <=> b = "ESC")
      /\ Proper(raw') <=> Proper(raw) /\ (EndsEsc(raw) => legal)
  BY <1>1, <1>2, EscapesStep
<1>4. PICK d, piece : d = Slip!Decoded(raw) /\ piece = Piece(EndsEsc(raw), b)
  OBVIOUS
<1>5. d \in Seq(Octet) /\ Slip!Decoded(raw') = d \o piece
  BY <1>1, <1>2, <1>4, DecodedStep
<1>6. d \in Seq(Cell)
  BY <1>5, SeqMonotonic DEF Cell
<1>7. CASE esc_pend /\ ~legal
  <2>1. err_esc' = TRUE /\ UNCHANGED <<len, err_long>>
    BY <1>1, <1>7
  <2>2. ~Proper(raw')
    BY <1>2, <1>3, <1>7
  <2> QED BY <1>1, <1>2, <1>3, <2>1, <2>2 DEF Escapes, Buffered
<1>8. CASE esc_pend /\ legal
  <2>1. PICK x \in Octet : x = IF b = "ESC_END" THEN "END" ELSE "ESC"
    BY DEF Octet
  <2>2. Store(x) /\ err_esc' = err_esc /\ b # "ESC"
    BY <1>1, <1>8, <2>1
  <2>3. /\ err_long' \in BOOLEAN /\ (err_long' => len' = Bytes)
        /\ Held(d) => Held(d \o <<x>>)'
    BY <1>2, <1>6, <2>2, StoreHeld
  <2>4. ~err_esc => piece = <<x>>
    BY <1>2, <1>4, <1>8, <2>1, <2>2 DEF Piece, Slip!Unescaped
  <2>5. ~err_esc => Held(Slip!Decoded(raw))'
    <3> SUFFICES ASSUME ~err_esc PROVE Held(Slip!Decoded(raw))'
      OBVIOUS
    <3>1. PICK e : e = d \o <<x>>
      OBVIOUS
    <3>2. Held(e)' /\ Slip!Decoded(raw') = e
      BY <1>2, <1>4, <1>5, <2>3, <2>4, <3>1
    <3> QED BY <3>2
  <2> QED BY <1>1, <1>2, <1>3, <1>8, <2>2, <2>3, <2>5 DEF Escapes, Buffered
<1>9. CASE ~esc_pend /\ b # "ESC"
  <2>1. Store(b) /\ err_esc' = err_esc
    BY <1>1, <1>9
  <2>2. /\ err_long' \in BOOLEAN /\ (err_long' => len' = Bytes)
        /\ Held(d) => Held(d \o <<b>>)'
    BY <1>2, <1>6, <2>1, StoreHeld
  <2>3. ~err_esc => piece = <<b>>
    BY <1>2, <1>4, <1>9 DEF Piece
  <2>4. ~err_esc => Held(Slip!Decoded(raw))'
    <3> SUFFICES ASSUME ~err_esc PROVE Held(Slip!Decoded(raw))'
      OBVIOUS
    <3>1. PICK e : e = d \o <<b>>
      OBVIOUS
    <3>2. Held(e)' /\ Slip!Decoded(raw') = e
      BY <1>2, <1>4, <1>5, <2>2, <2>3, <3>1
    <3> QED BY <3>2
  <2> QED BY <1>1, <1>2, <1>3, <1>9, <2>1, <2>2, <2>4 DEF Escapes, Buffered
<1>10. CASE ~esc_pend /\ b = "ESC"
  <2>1. UNCHANGED <<len, asm_w, err_long, err_esc, mem>>
    BY <1>1, <1>10
  <2>2. piece = <<>> /\ d \o <<>> = d
    BY <1>4, <1>5, <1>10, ConcatEmptySeq DEF Piece
  <2>3. Slip!Decoded(raw') = d
    BY <1>5, <2>2
  <2>4. ~err_esc => Held(Slip!Decoded(raw))'
    BY <1>2, <1>4, <2>1, <2>3 DEF Held
  <2> QED BY <1>1, <1>2, <1>3, <1>10, <2>1, <2>4 DEF Escapes, Buffered
<1> QED BY <1>1, <1>7, <1>8, <1>9, <1>10

LEMMA NextEnds ==
  ASSUME Within', RecvEnd
  PROVE  Escapes' /\ Buffered'
<1>1. /\ raw' = <<>> /\ len' = 0 /\ esc_pend' = FALSE /\ err_esc' = FALSE /\ err_long' = FALSE
  BY DEF RecvEnd, PendingEnds
<1>2. <<>> \in Seq(Octet) /\ "END" \in Octet
  BY EmptySeq DEF Octet
<1>3. Slip!Decoded(<<>>) = <<>> /\ Proper(<<>>) /\ ~EndsEsc(<<>>)
  BY <1>2, DecodedStep, EscapesStep
<1>4. Held(<<>>)'
  BY <1>1, HeldEmpty
<1> QED BY <1>1, <1>2, <1>3, <1>4 DEF Escapes, Buffered

LEMMA NextResting == ASSUME FrameInv, [Next]_vars PROVE Resting' /\ Counted'
<1>1. Resting /\ Counted
  BY DEF FrameInv
<1>2. CASE Clear \/ RecvIdle \/ Prime
  BY <1>1, <1>2 DEF Clear, RecvIdle, Prime, FrameKeep, Resting, Counted
<1>3. CASE RecvByte
  <2>1. state' = "S_RECV" /\ cnt' = cnt
    BY <1>3 DEF RecvByte
  <2> QED BY <1>1, <2>1 DEF Resting, Counted
<1>4. CASE RecvEnd
  <2>1. Resting'
    BY <1>4 DEF RecvEnd, Resting, PendingEnds
  <2>2. cnt' = cnt \/ \E why \in Counters : cnt' = [cnt EXCEPT ![why] = bump(@)]
    BY <1>4 DEF RecvEnd, Count, Counters
  <2>3. Counted'
    BY <1>1, <2>2 DEF Counted
  <2> QED BY <2>1, <2>3
<1>5. CASE Drain
  BY <1>1, <1>5 DEF Drain, FrameKeep, Resting, Counted
<1>6. CASE UNCHANGED vars
  BY <1>1, <1>6 DEF vars, Resting, Counted
<1> QED BY <1>2, <1>3, <1>4, <1>5, <1>6 DEF Next

\* A beat that is taken: the next word of the frame, or what is left of it.
LEMMA DrainStep ==
  ASSUME FrameInv, Drain
  PROVE  \/ /\ state' = "S_DRAIN" /\ got' = got /\ rd_ptr' = rd_ptr /\ beats_left' = beats_left
         \/ /\ state' = "S_DRAIN" /\ rd_ptr' = rd_ptr + 1 /\ beats_left' = beats_left - 1
            /\ got' = Full(mem, rd_ptr + 1) /\ Len(got') = WordBytes * (rd_ptr + 1)
         \/ /\ state' = "S_RECV" /\ beats_left = 1 /\ got' = FrameBytes(rd_ptr + beats_left, last_keep)
<1>1. PICK m_tready \in BOOLEAN :
        /\ rd_ptr' = rd_next(m_tready)
        /\ got' = IF m_tready THEN got \o [i \in 1..m_tkeep |-> rd_q[i - 1]] ELSE got
        /\ beats_left' = IF m_tready /\ ~m_tlast THEN beats_left - 1 ELSE beats_left
        /\ state' = IF m_tready /\ m_tlast THEN "S_RECV" ELSE "S_DRAIN"
  BY DEF Drain
<1>2. /\ state = "S_DRAIN" /\ rd_q = mem[rd_ptr] /\ Within
      /\ rd_ptr \in 0..(Words - 1) /\ beats_left \in 1..Words /\ rd_ptr + beats_left <= Words
      /\ last_keep \in 1..WordBytes /\ Words \in Nat \ {0} /\ WordBytes \in Nat \ {0}
      /\ got = Full(mem, rd_ptr) /\ Len(got) = WordBytes * rd_ptr
  BY BufferSize DEF Drain, FrameInv, IInv, ReadInv, Within, Sending, Streamed
<1>3. mem \in Memory /\ mem[rd_ptr] \in Word /\ WordBytes \in 0..WordBytes
  BY <1>2 DEF Within, Memory
<1>4. got' = IF m_tready THEN Full(mem, rd_ptr) \o Part(mem[rd_ptr], m_tkeep) ELSE got
  BY <1>1, <1>2 DEF Part
<1>5. CASE ~m_tready
  BY <1>1, <1>5 DEF rd_next
<1>6. CASE m_tready /\ ~m_tlast
  <2>1. beats_left > 1 /\ rd_ptr + 1 < Words /\ m_tkeep = WordBytes
    BY <1>2, <1>6 DEF m_tlast, m_tkeep
  <2>2. rd_ptr' = rd_ptr + 1
    BY <1>1, <1>2, <1>6, <2>1, Advance DEF rd_next, m_tvalid
  <2>3. got' = Full(mem, rd_ptr + 1)
    BY <1>2, <1>3, <1>4, <1>6, <2>1, FullStep
  <2>4. Len(got') = WordBytes * (rd_ptr + 1)
    <3>1. PICK x, y : x = Full(mem, rd_ptr) /\ y = Part(mem[rd_ptr], WordBytes)
      OBVIOUS
    <3>2. /\ x \in Seq(Cell) /\ Len(x) = WordBytes * rd_ptr /\ y \in Seq(Cell) /\ Len(y) = WordBytes
      BY <1>2, <1>3, <3>1, FullStep, PartIs
    <3>3. Len(x \o y) = (WordBytes * rd_ptr) + WordBytes
      BY <3>2, ConcatProperties
    <3>4. WordBytes * (rd_ptr + 1) = (WordBytes * rd_ptr) + WordBytes
      BY <1>2
    <3> QED BY <1>4, <1>6, <2>1, <3>1, <3>3, <3>4
  <2> QED BY <1>1, <1>6, <2>2, <2>3, <2>4
<1>7. CASE m_tready /\ m_tlast
  <2>1. beats_left = 1 /\ m_tkeep = last_keep
    BY <1>7 DEF m_tlast, m_tkeep
  <2>2. PICK n : n = rd_ptr + 1 /\ n - 1 = rd_ptr /\ n \in 1..Words
    BY <1>2
  <2>3. last_keep \in 0..WordBytes
    BY <1>2
  <2>4. FrameBytes(n, last_keep) = Full(mem, n - 1) \o Part(mem[n - 1], last_keep)
    BY <1>2, <2>2, <2>3, FrameIs
  <2>5. got' = FrameBytes(n, last_keep) /\ n = rd_ptr + beats_left
    BY <1>4, <1>7, <2>1, <2>2, <2>4
  <2> QED BY <1>1, <1>7, <2>1, <2>5
<1> QED BY <1>5, <1>6, <1>7

LEMMA NextStreamed == ASSUME FrameInv, [Next]_vars, Within' PROVE Streamed'
<1>1. Within /\ Streamed
  BY DEF FrameInv, IInv
<1>2. CASE Clear \/ RecvIdle \/ RecvByte
  BY <1>1, <1>2 DEF Clear, RecvIdle, RecvByte, Streamed, Sending
<1>3. CASE RecvEnd
  <2>1. state' \in {"S_RECV", "S_PRIME"} /\ got' = <<>> /\ (state' = "S_PRIME" => rd_ptr' = 0)
    BY <1>3 DEF RecvEnd
  <2>2. mem' \in Memory /\ asm_w' \in Word /\ WordBytes \in Nat
    BY BufferSize DEF Within, Memory
  <2>3. Full(mem', 0) = <<>> /\ Len(<<>>) = 0 /\ WordBytes * 0 = 0
    BY <2>2, FullEmpty
  <2> QED BY <2>1, <2>3 DEF Streamed, Sending
<1>4. CASE Prime
  <2>1. rd_ptr' = rd_ptr /\ got' = got /\ mem' = mem /\ state' = "S_DRAIN" /\ state = "S_PRIME"
    BY <1>1, <1>4, Keeps DEF Prime
  <2> QED BY <1>1, <2>1 DEF Streamed, Sending
<1>5. CASE Drain
  <2>1. mem' = mem /\ state = "S_DRAIN"
    BY <1>5 DEF Drain
  <2> QED BY <1>1, <1>5, <2>1, DrainStep DEF Streamed, Sending
<1>6. CASE UNCHANGED vars
  BY <1>1, <1>6 DEF vars, Streamed, Sending
<1> QED BY <1>2, <1>3, <1>4, <1>5, <1>6 DEF Next

LEMMA NextIInv == IInv /\ [Next]_vars => IInv'
BY NextWithin, NextAsm, NextRead, NextLast, NextWalk DEF IInv

LEMMA NextFrame == ASSUME FrameInv, [Next]_vars PROVE FrameInv'
<1>1. IInv' /\ Within'
  BY NextIInv DEF FrameInv, IInv
<1>2. Escapes' /\ Buffered'
  <2>1. CASE Clear \/ RecvIdle \/ Prime \/ Drain
    <3>1. FrameKeep /\ UNCHANGED raw /\ (mem' = mem \/ state = "S_CLEAR")
      BY <2>1 DEF Clear, RecvIdle, Prime, Drain
    <3> QED BY <1>1, <3>1, QuietFrame
  <2>2. CASE RecvByte
    BY <2>2, NextBytes
  <2>3. CASE RecvEnd
    BY <1>1, <2>3, NextEnds
  <2>4. CASE UNCHANGED vars
    <3>1. FrameKeep /\ UNCHANGED raw /\ mem' = mem
      BY <2>4 DEF vars, FrameKeep
    <3> QED BY <1>1, <3>1, QuietFrame
  <2> QED BY <2>1, <2>2, <2>3, <2>4 DEF Next
<1> QED BY <1>1, <1>2, NextResting, NextStreamed DEF FrameInv

-----------------------------------------------------------------------------
(* The decoder implements what OcaSlip promises. *)

\* What the refinement mapping makes of the registers.
Waiting ==
  IF state \in {"S_PRIME", "S_DRAIN"}
  THEN FrameBytes((Len(got) \div WordBytes) + beats_left, last_keep) ELSE <<>>
Sent == IF state = "S_RECV" THEN got ELSE <<>>

LEMMA WaitingIs ==
  ASSUME FrameInv
  PROVE  IF Sending THEN Waiting = FrameBytes(rd_ptr + beats_left, last_keep) /\ Waiting # <<>>
         ELSE Waiting = <<>>
<1>1. CASE Sending
  <2>1. /\ rd_ptr \in Nat /\ beats_left \in Nat /\ last_keep \in 0..WordBytes /\ last_keep > 0
        /\ rd_ptr + beats_left \in 1..Words /\ WordBytes \in Nat \ {0} /\ Within
        /\ Len(got) = WordBytes * rd_ptr
    BY <1>1, BufferSize DEF FrameInv, IInv, Within, Streamed
  <2>2. Len(got) \div WordBytes = rd_ptr
    <3> DEFINE m == Len(got)
    <3>1. m \in Nat /\ m = (WordBytes * rd_ptr) + 0 /\ 0 \in 0..(WordBytes - 1)
      BY <2>1
    <3> HIDE DEF m
    <3>2. m \div WordBytes = rd_ptr
      BY ONLY <2>1, <3>1, QuotientIs
    <3> QED BY <3>2 DEF m
  <2>3. Waiting = FrameBytes(rd_ptr + beats_left, last_keep)
    BY <1>1, <2>2 DEF Waiting, Sending
  <2>4. FrameBytes(rd_ptr + beats_left, last_keep) # <<>>
    BY <2>1, FrameIs
  <2> QED BY <1>1, <2>3, <2>4
<1>2. CASE ~Sending
  BY <1>2 DEF Waiting, Sending
<1> QED BY <1>1, <1>2

LEMMA WaitingNext ==
  FrameInv' => (IF Sending THEN Waiting = FrameBytes(rd_ptr + beats_left, last_keep)
                ELSE Waiting = <<>>)'
<1>1. FrameInv => (IF Sending THEN Waiting = FrameBytes(rd_ptr + beats_left, last_keep)
                   ELSE Waiting = <<>>)
  BY WaitingIs
<1> QED BY <1>1, PTL

\* The verdict at an END: the flags and the length stand for the frame.
LEMMA VerdictIs ==
  ASSUME FrameInv
  PROVE  /\ err_esc \/ esc_pend => Slip!Refusal(raw) = "esc"
         /\ ~(err_esc \/ esc_pend) /\ err_long => Slip!Refusal(raw) = "long"
         /\ ~(err_esc \/ esc_pend) /\ ~err_long /\ len \in 1..(MinBytes - 1) => Slip!Refusal(raw) = "short"
         /\ ~(err_esc \/ esc_pend) /\ ~err_long /\ (len = 0 \/ len >= MinBytes) =>
              /\ Slip!Refusal(raw) = "none" /\ Slip!Decoded(raw) \in Seq(Octet) /\ Len(Slip!Decoded(raw)) = len
              /\ Slip!Decoded(raw) = Full(mem, len \div WordBytes) \o Part(asm_w, len % WordBytes)
<1>1. /\ raw \in Seq(Octet) /\ "END" \in Octet /\ err_esc \in BOOLEAN /\ esc_pend \in BOOLEAN /\ err_long \in BOOLEAN
      /\ IF err_esc THEN ~Proper(raw) ELSE Proper(raw) /\ (esc_pend <=> EndsEsc(raw))
      /\ ~err_esc => Held(Slip!Decoded(raw))
      /\ len \in Nat /\ len <= Bytes /\ Bytes \in Nat /\ MinBytes \in 1..Bytes
  BY SizesAssumption, BufferSize DEF FrameInv, IInv, Escapes, Buffered, Within, Octet
<1>2. /\ Slip!WellEscaped(raw) <=> Proper(raw) /\ ~EndsEsc(raw)
      /\ Slip!Decoded(raw) \in Seq(Octet)
  BY <1>1, DecodedStep, EscapesStep
<1>3. PICK n \in Nat : n = Len(Slip!Decoded(raw))
  BY <1>2
<1>4. CASE err_esc \/ esc_pend
  <2>1. ~Slip!WellEscaped(raw)
    BY <1>1, <1>2, <1>4
  <2> QED BY <1>4, <2>1 DEF Slip!Refusal
<1>5. CASE ~(err_esc \/ esc_pend)
  <2>1. Slip!WellEscaped(raw) /\ Held(Slip!Decoded(raw))
    BY <1>1, <1>2, <1>5
  <2>2. CASE err_long
    <3>1. n > Bytes
      BY <1>3, <2>1, <2>2 DEF Held
    <3> QED BY <1>1, <1>3, <1>5, <2>1, <2>2, <3>1 DEF Slip!Refusal
  <2>3. CASE ~err_long
    <3>1. n = len /\ Slip!Decoded(raw) = Full(mem, len \div WordBytes) \o Part(asm_w, len % WordBytes)
      BY <1>3, <2>1, <2>3 DEF Held
    <3>2. CASE len \in 1..(MinBytes - 1)
      <4>1. Slip!Refusal(raw) = "short"
        BY <1>1, <1>3, <2>1, <3>1, <3>2 DEF Slip!Refusal
      <4> QED BY <1>1, <1>5, <2>3, <3>2, <4>1
    <3>3. CASE len \notin 1..(MinBytes - 1)
      <4>1. Slip!Refusal(raw) = "none"
        BY <1>1, <1>3, <2>1, <3>1, <3>3 DEF Slip!Refusal
      <4> QED BY <1>2, <1>3, <1>5, <2>3, <3>1, <3>3, <4>1
    <3> QED BY <3>2, <3>3
  <2> QED BY <2>2, <2>3
<1> QED BY <1>4, <1>5

\* The frame an END accepts is in the buffer, tail and all.
LEMMA AcceptedIs ==
  ASSUME FrameInv, Within', RecvEnd, state' = "S_PRIME"
  PROVE  FrameBytes(beats_left, last_keep)' = Slip!Decoded(raw)
<1>1. /\ ~(err_esc \/ esc_pend) /\ ~err_long /\ len >= MinBytes
      /\ beats_left' = (len + WordBytes - 1) \div WordBytes /\ last_keep' = end_keep
      /\ mem' = IF len % WordBytes # 0 THEN [mem EXCEPT ![len \div WordBytes] = asm_w] ELSE mem
  BY DEF RecvEnd
<1>2. /\ len \in 1..Bytes /\ len \in Nat /\ WordBytes \in Nat \ {0} /\ Words \in Nat \ {0} /\ Bytes \in Nat
      /\ mem \in Memory /\ asm_w \in Word /\ mem' \in Memory
  BY <1>1, SizesAssumption, BufferSize DEF FrameInv, IInv, Within, Memory
<1> DEFINE q == len \div WordBytes
           r == len % WordBytes
<1>3. Slip!Decoded(raw) = Full(mem, q) \o Part(asm_w, r)
  BY <1>1, VerdictIs
<1>4. q \in Nat /\ r \in 0..(WordBytes - 1)
  BY <1>2, Division
<1>5. PICK n, k : n = beats_left' /\ k = last_keep'
  OBVIOUS
<1>6. n \in 1..Words
  BY <1>1, <1>2, <1>5, WordsOf
<1>7. PICK j : j = n - 1 /\ j + 1 = n /\ j \in 0..(Words - 1) /\ j \in Nat
  BY <1>2, <1>6
<1>8. mem'[j] \in Word
  BY <1>2, <1>7 DEF Memory
<1>9. k \in 0..WordBytes
  BY <1>2, <1>4, <1>1, <1>5 DEF end_keep
<1>10. FrameBytes(beats_left, last_keep)' = Full(mem', j) \o Part(mem'[j], k)
  <2>1. FrameBytes(beats_left, last_keep)'
          = FlattenSeq([w \in 1..n |-> [i \in 1..(IF w = n THEN k ELSE WordBytes) |-> mem'[w - 1][i - 1]]])
    BY <1>5 DEF FrameBytes
  <2>2. [w \in 1..n |-> [i \in 1..(IF w = n THEN k ELSE WordBytes) |-> mem'[w - 1][i - 1]]]
          = [w \in 1..(j + 1) |-> Part(mem'[w - 1], IF w = j + 1 THEN k ELSE WordBytes)]
    BY <1>7 DEF Part
  <2>3. PICK m \in Memory : m = mem'
    BY <1>2
  <2>4. FlattenSeq([w \in 1..(j + 1) |-> Part(m[w - 1], IF w = j + 1 THEN k ELSE WordBytes)])
          = Full(m, j) \o Part(m[j], k)
    BY <1>7, <1>9, FullStep
  <2> QED BY <2>1, <2>2, <2>3, <2>4
<1>11. CASE r = 0
  <2>1. n = q /\ k = WordBytes /\ mem' = mem
    BY <1>1, <1>2, <1>5, <1>11, WordsOf DEF end_keep
  <2>2. Full(mem, q) = Full(mem, j) \o Part(mem[j], WordBytes)
    <3>1. Full(mem, j + 1) = Full(mem, j) \o Part(mem[j], WordBytes)
      BY <1>2, <1>7, <1>9, FullStep
    <3>2. j + 1 = q
      BY <1>7, <2>1
    <3> HIDE DEF q
    <3> QED BY <3>1, <3>2
  <2>3. Part(asm_w, r) = <<>>
    BY <1>2, <1>9, <1>11, PartIs
  <2>4. Full(mem, j) \in Seq(Cell) /\ Part(mem[j], WordBytes) \in Seq(Cell)
    BY <1>2, <1>7, <1>8, <1>9, <2>1, FullStep, PartIs
  <2>5. Full(mem, q) \in Seq(Cell)
    BY <2>2, <2>4, ConcatProperties
  <2>6. Full(mem, q) \o <<>> = Full(mem, q)
    BY <2>5, ConcatEmptySeq
  <2> QED BY <1>3, <1>10, <2>1, <2>2, <2>3, <2>6
<1>12. CASE r # 0
  <2>1. n = q + 1 /\ k = r /\ mem' = [mem EXCEPT ![q] = asm_w]
    BY <1>1, <1>2, <1>5, <1>12, WordsOf DEF end_keep
  <2> HIDE DEF q, r
  <2>2. j = q
    BY <1>4, <1>7, <2>1
  <2>3. mem'[q] = asm_w /\ \A w \in 0..(q - 1) : mem'[w] = mem[w]
    BY <1>2, <1>4, <1>7, <2>1, <2>2 DEF Memory
  <2>4. Full(mem', q) = Full(mem, q)
    BY <1>4, <2>3, FullSame
  <2> QED BY <1>3, <1>10, <2>1, <2>2, <2>3, <2>4
<1> QED BY <1>11, <1>12

LEMMA InitIsSlip == Init => Slip!Init
BY DEF Init, Slip!Init, Slip!Reasons, Counters

LEMMA EndIsSlip == ASSUME FrameInv, Within', RecvEnd PROVE Slip!TakeEnd
<1>1. /\ state = "S_RECV" /\ raw' = <<>> /\ got' = <<>> /\ state' \in {"S_RECV", "S_PRIME"}
  BY DEF RecvEnd
<1>2. Waiting = <<>> /\ Sent' = <<>>
  BY <1>1 DEF Waiting, Sent
<1>3. len \in Nat /\ WordBytes \in Nat \ {0}
  BY BufferSize DEF FrameInv, IInv, Within
<1>4. Waiting' = IF Slip!Refusal(raw) = "none" THEN Slip!Decoded(raw) ELSE <<>>
  <2>1. CASE state' = "S_PRIME"
    <3>1. Slip!Refusal(raw) = "none"
      BY <1>3, <2>1, <1>1, VerdictIs DEF RecvEnd
    <3>2. FrameBytes(beats_left, last_keep)' = Slip!Decoded(raw)
      BY <2>1, AcceptedIs
    <3>3. (Len(got) \div WordBytes)' + beats_left' = beats_left'
      <4>1. beats_left' \in Nat
        BY BufferSize DEF Within
      <4>2. Len(got)' = 0 /\ 0 \div WordBytes = 0
        BY <1>1, <1>3
      <4> QED BY <4>1, <4>2
    <3>4. Waiting' = FrameBytes(beats_left, last_keep)'
      BY <2>1, <3>3 DEF Waiting, FrameBytes
    <3> QED BY <3>1, <3>2, <3>4
  <2>2. CASE state' = "S_RECV"
    <3>1. Waiting' = <<>>
      BY <2>2 DEF Waiting
    <3>2. CASE err_esc \/ esc_pend
      BY <3>1, <3>2, VerdictIs
    <3>3. CASE ~(err_esc \/ esc_pend) /\ err_long
      BY <3>1, <3>3, VerdictIs
    <3>4. CASE ~(err_esc \/ esc_pend) /\ ~err_long /\ len \in 1..(MinBytes - 1)
      BY <3>1, <3>4, VerdictIs
    <3>5. CASE ~(err_esc \/ esc_pend) /\ ~err_long /\ len = 0
      <4>1. Slip!Decoded(raw) \in Seq(Octet) /\ Len(Slip!Decoded(raw)) = 0
        BY <3>5, VerdictIs
      <4>2. Slip!Decoded(raw) = <<>>
        BY <4>1, EmptySeq
      <4> QED BY <3>1, <4>2
    <3>6. ~(~(err_esc \/ esc_pend) /\ ~err_long /\ len >= MinBytes)
      <4>1. MinBytes \in Nat /\ MinBytes > 0
        BY SizesAssumption
      <4> QED BY <1>3, <2>2, <4>1 DEF RecvEnd
    <3>7. len = 0 \/ len \in 1..(MinBytes - 1) \/ len >= MinBytes
      BY <1>3, SizesAssumption
    <3> QED BY <3>2, <3>3, <3>4, <3>5, <3>6, <3>7
  <2> QED BY <1>1, <2>1, <2>2
<1>5. cnt' = [w \in Counters |-> IF w = Slip!Refusal(raw) THEN Slip!Bump(cnt[w]) ELSE cnt[w]]
  <2>1. cnt = [w \in Counters |-> cnt[w]] /\ \A c : bump(c) = Slip!Bump(c)
    BY DEF FrameInv, Counted, bump, Slip!Bump
  <2>2. ASSUME NEW why \in Counters, Count(why), Slip!Refusal(raw) = why
        PROVE  cnt' = [w \in Counters |-> IF w = Slip!Refusal(raw) THEN Slip!Bump(cnt[w]) ELSE cnt[w]]
    BY <2>1, <2>2 DEF Count
  <2>3. "esc" \in Counters /\ "long" \in Counters /\ "short" \in Counters /\ "none" \notin Counters
    BY DEF Counters
  <2>4. CASE (err_esc \/ esc_pend) /\ Count("esc")
    BY <2>2, <2>3, <2>4, VerdictIs
  <2>5. CASE ~(err_esc \/ esc_pend) /\ err_long /\ Count("long")
    BY <2>2, <2>3, <2>5, VerdictIs
  <2>6. CASE ~(err_esc \/ esc_pend) /\ ~err_long /\ len \in 1..(MinBytes - 1) /\ Count("short")
    BY <2>2, <2>3, <2>6, VerdictIs
  <2>7. CASE ~(err_esc \/ esc_pend) /\ ~err_long /\ (len = 0 \/ len >= MinBytes) /\ cnt' = cnt
    <3>1. Slip!Refusal(raw) = "none"
      BY <2>7, VerdictIs
    <3> QED BY <2>1, <2>3, <2>7, <3>1
  <2> QED BY <2>4, <2>5, <2>6, <2>7 DEF RecvEnd
<1> QED BY <1>1, <1>2, <1>4, <1>5 DEF Slip!TakeEnd, Slip!Reasons, Counters, Waiting, Sent

LEMMA NextIsSlip == ASSUME FrameInv, [Next]_vars, FrameInv' PROVE [Slip!Next]_(Slip!vars)
<1>1. CASE Clear
  <2>1. UNCHANGED <<raw, cnt>> /\ Waiting = <<>> /\ Waiting' = <<>> /\ Sent = <<>> /\ Sent' = <<>>
    BY <1>1 DEF Clear, Waiting, Sent, FrameInv, Streamed
  <2> QED BY <2>1 DEF Slip!vars, Waiting, Sent
<1>2. CASE RecvIdle
  <2>1. UNCHANGED <<raw, cnt>> /\ Waiting = <<>> /\ Waiting' = <<>> /\ Sent' = Sent
    BY <1>2 DEF RecvIdle, Waiting, Sent
  <2> QED BY <2>1 DEF Slip!vars, Waiting, Sent
<1>3. CASE RecvByte
  <2>1. /\ state = "S_RECV" /\ state' = "S_RECV" /\ got' = <<>> /\ cnt' = cnt
        /\ \E b \in Octet \ {"END"} : raw' = Append(raw, b)
    BY <1>3 DEF RecvByte
  <2>2. Waiting = <<>> /\ Waiting' = <<>> /\ Sent' = <<>> /\ Slip!Octet = Octet
    BY <2>1 DEF Waiting, Sent, Slip!Octet, Octet
  <2> QED BY <2>1, <2>2 DEF Slip!Next, Slip!Take, Waiting, Sent
<1>4. CASE RecvEnd
  <2>1. Slip!TakeEnd
    BY <1>4, EndIsSlip DEF FrameInv, IInv
  <2> QED BY <2>1 DEF Slip!Next
<1>5. CASE Prime
  <2>1. /\ UNCHANGED <<raw, cnt, got, beats_left, last_keep, mem>> /\ state = "S_PRIME" /\ state' = "S_DRAIN"
    BY <1>5 DEF Prime, StreamKeep
  <2>2. Waiting' = Waiting /\ Sent' = Sent
    BY <2>1 DEF Waiting, Sent, FrameBytes
  <2> QED BY <2>1, <2>2 DEF Slip!vars, Waiting, Sent
<1>6. CASE Drain
  <2>1. UNCHANGED <<raw, cnt, mem, last_keep>> /\ state = "S_DRAIN"
    BY <1>6 DEF Drain
  <2>2. Waiting = FrameBytes(rd_ptr + beats_left, last_keep) /\ Waiting # <<>> /\ Sent = <<>>
    BY <2>1, WaitingIs DEF Sending, Sent
  <2>3. CASE state' = "S_DRAIN"
    <3>1. Waiting' = FrameBytes(rd_ptr + beats_left, last_keep)' /\ Sent' = <<>>
      <4>1. IF Sending' THEN Waiting' = FrameBytes(rd_ptr + beats_left, last_keep)' ELSE Waiting' = <<>>
        BY WaitingNext
      <4> QED BY <2>3, <4>1 DEF Sending, Sent
    <3>2. rd_ptr' + beats_left' = rd_ptr + beats_left
      <4>1. rd_ptr \in Nat /\ beats_left \in Nat
        BY BufferSize DEF FrameInv, IInv, Within
      <4> QED BY <1>6, <2>3, <4>1, DrainStep
    <3>3. Waiting' = Waiting
      BY <2>1, <2>2, <3>1, <3>2 DEF FrameBytes
    <3> QED BY <2>1, <2>2, <3>1, <3>3 DEF Slip!vars, Waiting, Sent
  <2>4. CASE state' = "S_RECV"
    <3>1. Sent' = Waiting /\ Waiting' = <<>>
      BY <1>6, <2>2, <2>4, DrainStep DEF Waiting, Sent
    <3> QED BY <2>1, <2>2, <3>1 DEF Slip!Next, Slip!Deliver, Waiting, Sent
  <2> QED BY <1>6, <2>3, <2>4, DrainStep
<1>7. CASE UNCHANGED vars
  BY <1>7 DEF vars, Slip!vars, FrameBytes
<1> QED BY <1>1, <1>2, <1>3, <1>4, <1>5, <1>6, <1>7 DEF Next

\* The decoder delivers exactly the frames that the bytes between ENDs stand
\* for, whole and in order, counts each one it refuses once and under the
\* first reason that holds, and starts afresh after every END.
THEOREM SlipImplements == Spec => Implements
<1>1. FrameInv /\ [Next]_vars => FrameInv'
  BY NextFrame
<1>2. FrameInv /\ [Next]_vars /\ FrameInv' => [Slip!Next]_(Slip!vars)
  BY NextIsSlip
<1> QED BY <1>1, <1>2, InitFrame, InitIsSlip, PTL DEF Spec, Implements, Slip!Spec

-----------------------------------------------------------------------------
(* The encoder, OcaSlipTx, with registers of its own and the same words. *)

CONSTANT MaxBeats
VARIABLES tx_state, word, nbytes, idx, last, frame, beats, wire
Tx == INSTANCE OcaSlipTx WITH state <- tx_state

\* Both ends read the same code.
LEMMA SameCode ==
  ASSUME NEW r
  PROVE  Tx!Slip!Decoded(r) = Slip!Decoded(r) /\ (Tx!Slip!WellEscaped(r) <=> Slip!WellEscaped(r))
<1>1. ASSUME NEW s PROVE Tx!Slip!FlattenSeq(s) = Slip!FlattenSeq(s)
  BY Zenon DEF Tx!Slip!FlattenSeq, Slip!FlattenSeq
<1>2. ASSUME NEW b PROVE Tx!Slip!Unescaped(b) = Slip!Unescaped(b)
  BY DEF Tx!Slip!Unescaped, Slip!Unescaped
<1>3. PICK p : p = [i \in DOMAIN r |->
           CASE r[i] = "ESC" -> <<>>
             [] r[i] # "ESC" /\ i > 1 /\ r[i - 1] = "ESC" -> <<Slip!Unescaped(r[i])>>
             [] OTHER -> <<r[i]>>]
  OBVIOUS
<1>4. p = [i \in DOMAIN r |->
           CASE r[i] = "ESC" -> <<>>
             [] r[i] # "ESC" /\ i > 1 /\ r[i - 1] = "ESC" -> <<Tx!Slip!Unescaped(r[i])>>
             [] OTHER -> <<r[i]>>]
  BY <1>2, <1>3
<1>5. Slip!Decoded(r) = Slip!FlattenSeq(p)
  BY <1>3, Zenon DEF Slip!Decoded
<1>6. Tx!Slip!Decoded(r) = Tx!Slip!FlattenSeq(p)
  BY <1>4, Zenon DEF Tx!Slip!Decoded
<1>7. Tx!Slip!WellEscaped(r) <=> Slip!WellEscaped(r)
  BY Zenon DEF Tx!Slip!WellEscaped, Slip!WellEscaped
<1> QED BY <1>1, <1>5, <1>6, <1>7

\* What is left of a beat.
Remains(w, i, n) == [j \in 1..(n - i) |-> w[i + j - 1]]
Beat == [Lane -> Octet]

LEMMA RemainsIs ==
  ASSUME NEW w \in Beat, NEW n \in 0..WordBytes, NEW i \in 0..n
  PROVE  Remains(w, i, n) \in Seq(Octet) /\ Len(Remains(w, i, n)) = n - i /\ Remains(w, n, n) = <<>>
<1>1. WordBytes \in Nat \ {0} /\ n - i \in Nat /\ n - n = 0
  BY BufferSize
<1>2. \A j \in 1..(n - i) : w[i + j - 1] \in Octet
  BY <1>1 DEF Beat, Lane
<1>3. Remains(w, i, n) \in Seq(Octet) /\ Len(Remains(w, i, n)) = n - i
  BY <1>1, <1>2 DEF Remains
<1>4. Remains(w, n, n) \in Seq(Octet) /\ Len(Remains(w, n, n)) = 0
  BY <1>1 DEF Remains
<1> QED BY <1>3, <1>4, EmptySeq

\* The byte it starts with, and the rest.
LEMMA RemainsStep ==
  ASSUME NEW w \in Beat, NEW n \in 0..WordBytes, NEW i \in 0..(n - 1)
  PROVE  w[i] \in Octet /\ Remains(w, i, n) = <<w[i]>> \o Remains(w, i + 1, n)
<1>1. /\ WordBytes \in Nat \ {0} /\ n \in Nat /\ i \in Nat /\ i < n /\ i \in 0..n /\ i + 1 \in 0..n
      /\ i \in Lane
  BY BufferSize DEF Lane
<1>2. PICK s, t : s = Remains(w, i, n) /\ t = Remains(w, i + 1, n)
  OBVIOUS
<1>3. /\ s \in Seq(Octet) /\ Len(s) = n - i /\ t \in Seq(Octet) /\ Len(t) = n - (i + 1)
      /\ w[i] \in Octet
  BY <1>1, <1>2, RemainsIs DEF Beat
<1>4. PICK u : u = <<w[i]>> \o t
  OBVIOUS
<1>5. u \in Seq(Octet) /\ Len(u) = n - i
  BY <1>1, <1>3, <1>4
<1>6. ASSUME NEW j \in 1..(n - i) PROVE s[j] = u[j]
  <2>1. s[j] = w[i + j - 1]
    BY <1>2 DEF Remains
  <2>2. CASE j = 1
    <3>1. u[j] = w[i] /\ i + j - 1 = i
      BY <1>1, <1>3, <1>4, <2>2
    <3> QED BY <2>1, <3>1
  <2>3. CASE j # 1
    <3>1. j - 1 \in 1..(n - (i + 1)) /\ i + 1 + (j - 1) - 1 = i + j - 1
      BY <1>1, <2>3
    <3>2. u[j] = t[j - 1]
      BY <1>1, <1>3, <1>4, <2>3, <3>1
    <3>3. t[j - 1] = w[i + 1 + (j - 1) - 1]
      BY <1>2, <3>1 DEF Remains
    <3> QED BY <2>1, <3>1, <3>2, <3>3
  <2> QED BY <2>2, <2>3
<1>7. s = u
  BY <1>3, <1>5, <1>6, SeqEqual
<1> QED BY <1>2, <1>3, <1>4, <1>7

Walking == tx_state \in {"T_BYTE", "T_ESC"}

\* The beat being walked, and the byte of it the encoder is at.
TxWalk ==
  /\ tx_state \in {"T_IDLE", "T_BYTE", "T_ESC", "T_END"}
  /\ word \in Beat /\ nbytes \in 0..WordBytes
  /\ Walking => idx \in 0..(nbytes - 1)
  /\ tx_state = "T_ESC" => word[idx] \in {"END", "ESC"}

\* The bytes pushed are free of END and well escaped, but for an escape under
\* way.
TxWire ==
  /\ wire \in Seq(Octet) /\ "END" \notin {wire[i] : i \in DOMAIN wire}
  /\ Proper(wire) /\ (EndsEsc(wire) <=> tx_state = "T_ESC")

\* What they stand for, and what is left of the beat, is the frame.
TxSent ==
  frame = IF Walking THEN Slip!Decoded(wire) \o Remains(word, idx, nbytes) ELSE Slip!Decoded(wire)

TxInv == TxWalk /\ TxWire /\ TxSent

LEMMA EmptyWire == Slip!Decoded(<<>>) = <<>> /\ <<>> \in Seq(Octet) /\ Proper(<<>>) /\ ~EndsEsc(<<>>)
<1>1. <<>> \in Seq(Octet) /\ "END" \in Octet
  BY EmptySeq DEF Octet
<1> QED BY <1>1, DecodedStep, EscapesStep

\* An idle encoder with nothing on the wire, as after reset or an END.
LEMMA FreshTx ==
  ASSUME tx_state = "T_IDLE", word \in Beat, nbytes \in 0..WordBytes, frame = <<>>, wire = <<>>
  PROVE  TxInv
BY EmptyWire DEF TxInv, TxWalk, TxWire, TxSent, Walking

LEMMA FreshTxNext ==
  (tx_state = "T_IDLE" /\ word \in Beat /\ nbytes \in 0..WordBytes /\ frame = <<>> /\ wire = <<>>)'
    => TxInv'
BY EmptyWire DEF TxInv, TxWalk, TxWire, TxSent, Walking

LEMMA AnyWord == [i \in Lane |-> "ESC_END"] \in Beat /\ 0 \in 0..WordBytes
BY BufferSize DEF Beat, Octet

\* A byte more on the wire.
LEMMA Pushed ==
  ASSUME NEW r \in Seq(Octet), NEW b \in Octet \ {"END"}, "END" \notin {r[i] : i \in DOMAIN r}
  PROVE  "END" \notin {Append(r, b)[i] : i \in DOMAIN Append(r, b)}
<1>1. PICK t : t = Append(r, b)
  OBVIOUS
<1>2. Len(r) \in Nat /\ Len(t) = Len(r) + 1 /\ DOMAIN t = 1..Len(t) /\ DOMAIN r = 1..Len(r)
      /\ t[Len(r) + 1] = b /\ \A i \in 1..Len(r) : t[i] = r[i]
  BY <1>1
<1>3. \A i \in DOMAIN t : t[i] # "END"
  BY <1>2
<1> QED BY <1>1, <1>3

\* A byte of the beat is out, and the next one is up.
LEMMA TxWalked ==
  ASSUME TxInv, Walking, Tx!Walk("T_BYTE"), Tx!TakenKeep,
         wire' \in Seq(Octet), "END" \notin {wire'[i] : i \in DOMAIN wire'},
         Proper(wire'), ~EndsEsc(wire'), Slip!Decoded(wire)' = Slip!Decoded(wire) \o <<word[idx]>>
  PROVE  TxInv'
<1>1. /\ idx' = idx + 1 /\ UNCHANGED <<word, nbytes, last, frame>>
      /\ tx_state' = IF idx + 1 = nbytes THEN IF last THEN "T_END" ELSE "T_IDLE" ELSE "T_BYTE"
  BY DEF Tx!Walk, Tx!walked, Tx!TakenKeep
<1>2. /\ word \in Beat /\ nbytes \in 0..WordBytes /\ idx \in 0..(nbytes - 1) /\ nbytes \in Nat
      /\ WordBytes \in Nat /\ wire \in Seq(Octet) /\ "END" \in Octet
      /\ frame = Slip!Decoded(wire) \o Remains(word, idx, nbytes)
  BY BufferSize DEF TxInv, TxWalk, TxWire, TxSent, Octet
<1>3. PICK d, e, z : d = Slip!Decoded(wire) /\ e = <<word[idx]>> /\ z = Remains(word, idx + 1, nbytes)
  OBVIOUS
<1>4. d \in Seq(Octet) /\ e \in Seq(Octet) /\ z \in Seq(Octet)
  <2>1. idx + 1 \in 0..nbytes
    BY <1>2
  <2>2. word[idx] \in Octet
    BY <1>2, RemainsStep
  <2>3. e \in Seq(Octet)
    BY <1>3, <2>2
  <2>4. z \in Seq(Octet)
    BY <1>2, <1>3, <2>1, RemainsIs
  <2>5. d \in Seq(Octet)
    BY <1>2, <1>3, DecodedStep
  <2> QED BY <2>3, <2>4, <2>5
<1>5. frame = (d \o e) \o z
  <2>1. frame = d \o (e \o z)
    <3>1. Remains(word, idx, nbytes) = e \o z
      BY <1>2, <1>3, RemainsStep
    <3> QED BY <1>2, <1>3, <3>1
  <2>2. (d \o e) \o z = d \o (e \o z)
    <3>1. d \in Seq(Cell) /\ e \in Seq(Cell) /\ z \in Seq(Cell)
      BY <1>4, SeqMonotonic DEF Cell
    <3> QED BY <3>1, ThreeParts
  <2> QED BY <2>1, <2>2
<1>6. PICK c : c = Slip!Decoded(wire)'
  OBVIOUS
<1>7. c \in Seq(Octet) /\ frame = c \o z
  BY <1>3, <1>4, <1>5, <1>6, ConcatProperties
<1>8. TxWalk'
  BY <1>1, <1>2 DEF TxWalk, Walking
<1>9. TxWire'
  BY <1>1 DEF TxWire
<1>10. TxSent'
  <2>1. CASE idx + 1 = nbytes
    <3>1. ~Walking'
      BY <1>1, <2>1 DEF Walking
    <3>2. nbytes \in 0..nbytes
      BY <1>2
    <3>3. z = <<>>
      BY <1>2, <1>3, <2>1, <3>2, RemainsIs
    <3>4. frame' = c
      BY <1>1, <1>7, <3>3, ConcatEmptySeq
    <3> QED BY <1>6, <3>1, <3>4 DEF TxSent
  <2>2. CASE idx + 1 # nbytes
    <3>1. Walking' /\ frame' = c \o Remains(word', idx', nbytes')
      BY <1>1, <1>3, <1>7, <2>2 DEF Walking
    <3> QED BY <1>6, <3>1 DEF TxSent
  <2> QED BY <2>1, <2>2
<1> QED BY <1>8, <1>9, <1>10 DEF TxInv

\* The byte the encoder pushes for the byte it is at, or in front of it.
LEMMA WireByte ==
  ASSUME TxInv, NEW b \in Octet \ {"END"}, wire' = Append(wire, b),
         EndsEsc(wire) => b \in {"ESC_END", "ESC_ESC"}
  PROVE  /\ wire' \in Seq(Octet) /\ "END" \notin {wire'[i] : i \in DOMAIN wire'}
         /\ Proper(wire') /\ (EndsEsc(wire') <=> b = "ESC")
         /\ Slip!Decoded(wire)' = Slip!Decoded(wire) \o Piece(EndsEsc(wire), b)
<1>1. wire \in Seq(Octet) /\ "END" \notin {wire[i] : i \in DOMAIN wire} /\ Proper(wire)
  BY DEF TxInv, TxWire
<1>2. PICK t : t = Append(wire, b)
  OBVIOUS
<1>3. "END" \notin {t[i] : i \in DOMAIN t}
  BY <1>1, <1>2, Pushed
<1>4. t \in Seq(Octet) /\ Proper(t) /\ (EndsEsc(t) <=> b = "ESC")
  BY <1>1, <1>2, EscapesStep
<1>5. Slip!Decoded(t) = Slip!Decoded(wire) \o Piece(EndsEsc(wire), b)
  BY <1>1, <1>2, DecodedStep
<1> QED BY <1>2, <1>3, <1>4, <1>5

LEMMA TxTakesBeat == ASSUME TxInv, Tx!TIdle PROVE TxInv'
<1>1. PICK w \in Beat, l \in BOOLEAN, keep_bytes \in 0..WordBytes :
        /\ tx_state = "T_IDLE" /\ (~l => keep_bytes = WordBytes)
        /\ word' = w /\ nbytes' = keep_bytes /\ idx' = 0
        /\ tx_state' = IF keep_bytes # 0 THEN "T_BYTE" ELSE "T_END"
        /\ frame' = frame \o [i \in 1..keep_bytes |-> w[i - 1]] /\ wire' = wire
  BY DEF Tx!TIdle, Tx!Lane, Tx!Octet, Beat, Lane, Octet
<1>2. WordBytes \in Nat \ {0} /\ frame = Slip!Decoded(wire) /\ wire \in Seq(Octet)
  BY <1>1, BufferSize DEF TxInv, TxSent, TxWire, Walking
<1>3. TxWalk'
  BY <1>1, <1>2 DEF TxWalk, Walking
<1>4. TxWire'
  <2>1. wire' = wire /\ tx_state = "T_IDLE" /\ tx_state' \in {"T_BYTE", "T_END"}
    BY <1>1
  <2>2. TxWire
    BY DEF TxInv
  <2>3. ~EndsEsc(wire)
    BY <2>1, <2>2 DEF TxWire
  <2> QED BY <2>1, <2>2, <2>3 DEF TxWire
<1>5. [i \in 1..keep_bytes |-> w[i - 1]] = Remains(w, 0, keep_bytes)
  <2>1. keep_bytes - 0 = keep_bytes /\ \A i \in 1..keep_bytes : 0 + i - 1 = i - 1
    BY <1>2
  <2> QED BY <2>1 DEF Remains
<1>6. PICK d : d = Slip!Decoded(wire)
  OBVIOUS
<1>7. d \in Seq(Octet) /\ frame' = d \o Remains(w, 0, keep_bytes) /\ Slip!Decoded(wire)' = d
  <2>1. wire' = wire
    BY <1>1
  <2>2. Slip!Decoded(wire)' = d
    BY <1>6, <2>1
  <2>3. "END" \in Octet
    BY DEF Octet
  <2>4. d \in Seq(Octet)
    BY <1>2, <1>6, <2>3, DecodedStep
  <2>5. frame' = frame \o [i \in 1..keep_bytes |-> w[i - 1]]
    BY <1>1
  <2>6. frame' = d \o Remains(w, 0, keep_bytes)
    BY <1>2, <1>5, <1>6, <2>5
  <2> QED BY <2>2, <2>4, <2>6
<1>8. TxSent'
  <2>1. CASE keep_bytes # 0
    <3>1. Walking' /\ frame' = d \o Remains(word', idx', nbytes')
      BY <1>1, <1>7, <2>1 DEF Walking
    <3> QED BY <1>7, <3>1 DEF TxSent
  <2>2. CASE keep_bytes = 0
    <3>1. ~Walking'
      BY <1>1, <2>2 DEF Walking
    <3>2. Remains(w, 0, keep_bytes) = <<>>
      BY <2>2, RemainsIs
    <3>3. frame' = d
      BY <1>7, <3>2, ConcatEmptySeq
    <3> QED BY <1>7, <3>1, <3>3 DEF TxSent
  <2> QED BY <2>1, <2>2
<1> QED BY <1>3, <1>4, <1>8 DEF TxInv

LEMMA TxPushes == ASSUME TxInv, Tx!TByte \/ Tx!TEsc PROVE TxInv'
<1>1. /\ word \in Beat /\ nbytes \in 0..WordBytes /\ idx \in 0..(nbytes - 1) /\ Walking
      /\ WordBytes \in Nat \ {0} /\ word[idx] \in Octet /\ wire \in Seq(Octet)
      /\ EndsEsc(wire) <=> tx_state = "T_ESC"
      /\ tx_state = "T_ESC" => word[idx] \in {"END", "ESC"}
  <2>1. Walking /\ tx_state \in {"T_BYTE", "T_ESC"}
    BY DEF Tx!TByte, Tx!TEsc, Walking
  <2> QED BY <2>1, BufferSize DEF TxInv, TxWalk, TxWire, Beat, Lane
<1>2. idx % WordBytes = idx
  <2>1. idx \in 0..(WordBytes - 1)
    BY <1>1
  <2> QED BY <1>1, <2>1
<1>3. Tx!cur_byte = word[idx]
  BY <1>2 DEF Tx!cur_byte
<1>4. CASE Tx!TByte /\ word[idx] \in {"END", "ESC"}
  <2>1. /\ tx_state = "T_BYTE" /\ tx_state' = "T_ESC" /\ wire' = Append(wire, "ESC")
        /\ UNCHANGED <<word, nbytes, idx, frame>>
    BY <1>3, <1>4 DEF Tx!TByte, Tx!needs_esc, Tx!tx_data, Tx!TakenKeep
  <2>2. /\ wire' \in Seq(Octet) /\ "END" \notin {wire'[i] : i \in DOMAIN wire'}
        /\ Proper(wire') /\ EndsEsc(wire')
        /\ Slip!Decoded(wire)' = Slip!Decoded(wire) \o Piece(EndsEsc(wire), "ESC")
    <3>1. "ESC" \in Octet \ {"END"} /\ ~EndsEsc(wire)
      BY <1>1, <2>1 DEF Octet
    <3> QED BY <2>1, <3>1, WireByte
  <2>3. Slip!Decoded(wire)' = Slip!Decoded(wire)
    <3>1. Piece(EndsEsc(wire), "ESC") = <<>> /\ Slip!Decoded(wire) \in Seq(Octet)
      BY <1>1, DecodedStep DEF Piece, Octet
    <3> QED BY <2>2, <3>1, ConcatEmptySeq
  <2>4. TxWalk' /\ TxWire'
    BY <1>1, <1>4, <2>1, <2>2 DEF TxWalk, TxWire, Walking
  <2>5. TxSent'
    BY <1>1, <2>1, <2>3 DEF TxInv, TxSent, Walking
  <2> QED BY <2>4, <2>5 DEF TxInv
<1>5. CASE Tx!TByte /\ word[idx] \notin {"END", "ESC"}
  <2>1. /\ tx_state = "T_BYTE" /\ wire' = Append(wire, word[idx])
        /\ Tx!Walk("T_BYTE") /\ Tx!TakenKeep
    BY <1>3, <1>5 DEF Tx!TByte, Tx!needs_esc, Tx!tx_data
  <2>2. /\ wire' \in Seq(Octet) /\ "END" \notin {wire'[i] : i \in DOMAIN wire'}
        /\ Proper(wire') /\ ~EndsEsc(wire')
        /\ Slip!Decoded(wire)' = Slip!Decoded(wire) \o Piece(EndsEsc(wire), word[idx])
    <3>1. word[idx] \in Octet \ {"END"} /\ ~EndsEsc(wire) /\ word[idx] # "ESC"
      BY <1>1, <1>5, <2>1
    <3> QED BY <2>1, <3>1, WireByte
  <2>3. Piece(EndsEsc(wire), word[idx]) = <<word[idx]>>
    BY <1>1, <1>5, <2>1 DEF Piece
  <2> QED BY <1>1, <2>1, <2>2, <2>3, TxWalked
<1>6. CASE Tx!TEsc
  <2>1. PICK b \in Octet \ {"END"} : b = IF word[idx] = "END" THEN "ESC_END" ELSE "ESC_ESC"
    BY DEF Octet
  <2>2. tx_state = "T_ESC" /\ wire' = Append(wire, b) /\ Tx!Walk("T_BYTE") /\ Tx!TakenKeep
    BY <1>3, <1>6, <2>1 DEF Tx!TEsc, Tx!tx_data
  <2>3. b # "ESC" /\ b \in {"ESC_END", "ESC_ESC"}
    BY <2>1
  <2>4. /\ wire' \in Seq(Octet) /\ "END" \notin {wire'[i] : i \in DOMAIN wire'}
        /\ Proper(wire') /\ ~EndsEsc(wire')
        /\ Slip!Decoded(wire)' = Slip!Decoded(wire) \o Piece(EndsEsc(wire), b)
    BY <2>2, <2>3, WireByte
  <2>5. Piece(EndsEsc(wire), b) = <<word[idx]>>
    <3>1. Piece(EndsEsc(wire), b) = <<Slip!Unescaped(b)>>
      BY <1>1, <2>2, <2>3 DEF Piece
    <3>2. Slip!Unescaped(b) = word[idx]
      BY <1>1, <2>1, <2>2 DEF Slip!Unescaped
    <3> QED BY <3>1, <3>2
  <2> QED BY <1>1, <2>2, <2>4, <2>5, TxWalked
<1> QED BY <1>4, <1>5, <1>6

LEMMA TxInvNext == TxInv /\ [Tx!Next]_(Tx!vars) => TxInv'
<1> SUFFICES ASSUME TxInv, [Tx!Next]_(Tx!vars) PROVE TxInv'
  OBVIOUS
<1>1. CASE Tx!TIdle
  BY <1>1, TxTakesBeat
<1>2. CASE Tx!TByte \/ Tx!TEsc
  BY <1>2, TxPushes
<1>3. CASE Tx!TEnd
  <2>1. (tx_state = "T_IDLE" /\ word \in Beat /\ nbytes \in 0..WordBytes /\ frame = <<>> /\ wire = <<>>)'
    BY <1>3 DEF Tx!TEnd, TxInv, TxWalk
  <2> QED BY <2>1, FreshTxNext
<1>4. CASE Tx!TReset
  <2>1. (tx_state = "T_IDLE" /\ word \in Beat /\ nbytes \in 0..WordBytes /\ frame = <<>> /\ wire = <<>>)'
    BY <1>4, AnyWord DEF Tx!TReset, Tx!Lane, Lane
  <2> QED BY <2>1, FreshTxNext
<1>5. CASE UNCHANGED Tx!vars
  BY <1>5 DEF Tx!vars, TxInv, TxWalk, TxWire, TxSent, Walking
<1> QED BY <1>1, <1>2, <1>3, <1>4, <1>5 DEF Tx!Next

\* Whatever beats it is given, and whenever a reset strikes, the encoder ends a
\* frame on bytes that are free of END and well escaped, and that a decoder
\* reads as exactly the bytes of the beats.
THEOREM EncoderRoundTrip == Tx!Spec => []Tx!RoundTrip
<1>1. Tx!Init => TxInv
  <2> SUFFICES ASSUME Tx!Init PROVE TxInv
    OBVIOUS
  <2>1. /\ tx_state = "T_IDLE" /\ word \in Beat /\ nbytes \in 0..WordBytes
        /\ frame = <<>> /\ wire = <<>>
    BY AnyWord DEF Tx!Init, Tx!Lane, Lane
  <2> QED BY <2>1, FreshTx
<1>2. TxInv => Tx!RoundTrip
  <2> SUFFICES ASSUME TxInv, tx_state = "T_END"
               PROVE  /\ "END" \notin {wire[i] : i \in DOMAIN wire} /\ Tx!Slip!WellEscaped(wire)
                      /\ Tx!Slip!Decoded(wire) = frame
    BY DEF Tx!RoundTrip
  <2>1. /\ "END" \notin {wire[i] : i \in DOMAIN wire} /\ wire \in Seq(Octet) /\ "END" \in Octet
        /\ Proper(wire) /\ ~EndsEsc(wire) /\ frame = Slip!Decoded(wire)
    BY DEF TxInv, TxWire, TxSent, Walking, Octet
  <2>2. Slip!WellEscaped(wire)
    BY <2>1, EscapesStep
  <2> QED BY <2>1, <2>2, SameCode
<1> QED BY <1>1, <1>2, TxInvNext, PTL DEF Tx!Spec
=============================================================================
