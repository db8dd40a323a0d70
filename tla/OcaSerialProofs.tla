-------------------------- MODULE OcaSerialProofs --------------------------
(***************************************************************************)
(* No byte of the serial line is lost unseen, for every depth of the two   *)
(* FIFOs, every timing of the line and every reset of either board. What   *)
(* oca_fifo is (OcaFifoProofs) is used twice, once for each queue; the     *)
(* rest is regrouping: what leaves one part of the way joins the next.     *)
(***************************************************************************)
EXTENDS OcaSerial, OcaFifoProofs

OutQueue == INSTANCE OcaFifoProofs WITH
  mem <- tx_mem, wr_ptr <- tx_wr_ptr, rd_ptr <- tx_rd_ptr,
  overflow <- tx_overflow, taken <- tx_taken

-----------------------------------------------------------------------------
(* Sequences joined, under a name of their own. *)

Join(x, y) == x \o y

LEMMA JoinElements ==
  ASSUME NEW x \in Seq(Data), NEW y \in Seq(Data)
  PROVE  /\ Join(x, y) \in Seq(Data) /\ Len(Join(x, y)) = Len(x) + Len(y)
         /\ \A i \in 1..(Len(x) + Len(y)) :
              Join(x, y)[i] = IF i <= Len(x) THEN x[i] ELSE y[i - Len(x)]
BY ConcatProperties DEF Join

LEMMA JoinFacts ==
  ASSUME NEW x \in Seq(Data), NEW y \in Seq(Data)
  PROVE  Join(x, y) \in Seq(Data)
BY ConcatProperties DEF Join

LEMMA JoinRegroups ==
  ASSUME NEW x \in Seq(Data), NEW y \in Seq(Data), NEW v \in Seq(Data)
  PROVE  Join(Join(x, y), v) = Join(x, Join(y, v))
<1>1. (x \o y) \o v = x \o (y \o v)
  BY ConcatAssociative, SMT
<1> QED BY <1>1 DEF Join

LEMMA JoinEmpty ==
  ASSUME NEW x \in Seq(Data)
  PROVE  <<>> \in Seq(Data) /\ Join(x, <<>>) = x /\ Join(<<>>, x) = x
<1>1. <<>> \in Seq(Data) /\ Len(<<>>) = 0
  OBVIOUS
<1>2. x \o <<>> = x /\ <<>> \o x = x
  BY <1>1, ConcatEmptySeq
<1> QED BY <1>1, <1>2 DEF Join

LEMMA Single == ASSUME NEW d \in Data PROVE <<d>> \in Seq(Data)
OBVIOUS

LEMMA JoinOne ==
  ASSUME NEW x \in Seq(Data), NEW d \in Data
  PROVE  Append(x, d) = Join(x, <<d>>)
BY AppendIsConcat DEF Join

\* The head and the tail of a sequence, and of one that is longer.
LEMMA JoinTail ==
  ASSUME NEW x \in Seq(Data), x # <<>>
  PROVE  Head(x) \in Data /\ Tail(x) \in Seq(Data) /\ Join(<<Head(x)>>, Tail(x)) = x
<1>1. /\ Head(x) \in Data /\ Tail(x) \in Seq(Data) /\ Len(Tail(x)) = Len(x) - 1
      /\ Head(x) = x[1] /\ Len(x) \in Nat \ {0}
      /\ \A i \in 1..Len(Tail(x)) : Tail(x)[i] = x[i + 1]
  BY HeadTailProperties, EmptySeq
<1> DEFINE h == <<Head(x)>>
           t == Tail(x)
           j == h \o t
<1>2. h \in Seq(Data) /\ Len(h) = 1 /\ h[1] = Head(x)
  BY <1>1
<1>3. t \in Seq(Data) /\ Len(t) = Len(x) - 1 /\ \A i \in 1..Len(t) : t[i] = x[i + 1]
  BY <1>1
<1> HIDE DEF h, t
<1>4. /\ j \in Seq(Data) /\ Len(j) = Len(h) + Len(t)
      /\ \A i \in 1..(Len(h) + Len(t)) : j[i] = IF i <= Len(h) THEN h[i] ELSE t[i - Len(h)]
  BY <1>2, <1>3, JoinElements DEF Join
<1> HIDE DEF j
<1>5. ASSUME NEW i \in 1..Len(x) PROVE j[i] = x[i]
  <2>1. CASE i = 1
    BY <1>1, <1>2, <1>3, <1>4, <2>1
  <2>2. CASE i # 1
    <3>1. i - 1 \in 1..Len(t) /\ (i - 1) + 1 = i /\ i \in 1..(Len(h) + Len(t)) /\ ~(i <= Len(h))
      BY <1>1, <1>2, <1>3, <2>2
    <3>2. j[i] = t[i - 1]
      BY <1>2, <1>4, <3>1
    <3>3. t[i - 1] = x[(i - 1) + 1]
      BY <1>3, <3>1
    <3> QED BY <3>1, <3>2, <3>3
  <2> QED BY <2>1, <2>2
<1>6. Len(j) = Len(x)
  BY <1>1, <1>2, <1>3, <1>4
<1>7. j = x
  BY <1>4, <1>5, <1>6, SeqEqual
<1> QED BY <1>1, <1>7 DEF j, h, t, Join

LEMMA TailOfJoin ==
  ASSUME NEW x \in Seq(Data), NEW y \in Seq(Data), x # <<>>
  PROVE  Join(x, y) # <<>> /\ Tail(Join(x, y)) = Join(Tail(x), y)
<1>1. Head(x) \in Data /\ Tail(x) \in Seq(Data) /\ Join(<<Head(x)>>, Tail(x)) = x
  BY JoinTail
<1> DEFINE d == Head(x)
           w == Join(Tail(x), y)
<1>2. d \in Data /\ w \in Seq(Data) /\ <<d>> \in Seq(Data)
  BY <1>1, JoinFacts, Single
<1>3. Join(x, y) = Join(<<d>>, w)
  <2>1. PICK h \in Seq(Data), t \in Seq(Data) : h = <<d>> /\ t = Tail(x)
    BY <1>1, <1>2
  <2>2. Join(Join(h, t), y) = Join(h, Join(t, y))
    BY <2>1, JoinRegroups
  <2> QED BY <1>1, <2>1, <2>2
<1> HIDE DEF d, w
<1>4. Join(<<d>>, w) # <<>> /\ Tail(Join(<<d>>, w)) = w
  <2> DEFINE z == Join(<<d>>, w)
  <2>1. Len(<<d>>) = 1 /\ Len(w) \in Nat
    BY <1>2, LenProperties
  <2>2. /\ z \in Seq(Data) /\ Len(z) = 1 + Len(w)
        /\ \A i \in 1..(1 + Len(w)) : z[i] = IF i <= 1 THEN <<d>>[i] ELSE w[i - 1]
    BY <1>2, <2>1, JoinElements
  <2> HIDE DEF z
  <2>3. z # <<>>
    BY <2>1, <2>2, EmptySeq
  <2>4. /\ Tail(z) \in Seq(Data) /\ Len(Tail(z)) = Len(z) - 1
        /\ \A i \in 1..Len(Tail(z)) : Tail(z)[i] = z[i + 1]
    BY <2>2, <2>3, HeadTailProperties
  <2> DEFINE t == Tail(z)
  <2>5. t \in Seq(Data) /\ Len(t) = Len(w) /\ \A i \in 1..Len(t) : t[i] = z[i + 1]
    BY <2>1, <2>2, <2>4
  <2> HIDE DEF t
  <2>6. ASSUME NEW i \in 1..Len(w) PROVE t[i] = w[i]
    <3>1. i + 1 \in 1..(1 + Len(w)) /\ ~(i + 1 <= 1) /\ (i + 1) - 1 = i
      BY <2>1
    <3>2. z[i + 1] = w[(i + 1) - 1]
      BY <2>2, <3>1
    <3> QED BY <2>5, <3>1, <3>2
  <2>7. t = w
    BY <1>2, <2>5, <2>6, SeqEqual
  <2> QED BY <2>3, <2>7 DEF z, t
<1> QED BY <1>3, <1>4 DEF w
-----------------------------------------------------------------------------
(* The two queues and the line. *)

\* A byte is on the line only while the transmitter is busy with it.
LineOk ==
  /\ on_line \in {<<>>} \cup {<<d>> : d \in Data} /\ (on_line # <<>> => tx_busy)
  /\ rx_valid \in BOOLEAN /\ rx_byte \in Data

SerialInv == TypeOK /\ Out!TypeOK /\ LineOk /\ LossIsSeen

LEMMA OutIsAQueue ==
  /\ Out!TypeOK <=> OutQueue!TypeOK
  /\ Out!Contents = OutQueue!Contents /\ Out!rd_data = OutQueue!rd_data
  /\ (Out!empty <=> OutQueue!empty) /\ (Out!full <=> OutQueue!full)
BY Zenon DEF Out!TypeOK, OutQueue!TypeOK, Out!Contents, OutQueue!Contents, Out!level, OutQueue!level,
       Out!empty, OutQueue!empty, Out!full, OutQueue!full, Out!rd_data, OutQueue!rd_data,
       Out!Address, OutQueue!Address, Out!WrapBit, OutQueue!WrapBit, Out!Pointer, OutQueue!Pointer,
       Out!After, OutQueue!After

\* The way out over one cycle: what the queue holds is what the line takes of
\* it, what is left, and what the encoder adds.
LEMMA OutStep ==
  ASSUME Out!TypeOK, NEW sent \in Sent, WayOut(sent)
  PROVE  /\ Out!TypeOK' /\ sent \in Seq(Data)
         /\ Out!Contents \in Seq(Data) /\ Out!Contents' \in Seq(Data)
         /\ ~tx_fifo_pop => Out!Contents' = Join(Out!Contents, sent)
         /\ tx_fifo_pop => /\ Out!rd_data \in Data
                           /\ Join(<<Out!rd_data>>, Out!Contents') = Join(Out!Contents, sent)
<1>1. PICK d \in Data : sent \in {<<>>, <<d>>} /\ Out!Push(sent # <<>>, d)
  BY DEF WayOut
<1>2. Out!Pop(tx_fifo_pop) /\ (sent # <<>> => ~Out!full)
  BY DEF WayOut, tx_ready
<1> DEFINE push == sent # <<>>
           pop == tx_fifo_pop
           kept == IF pop /\ ~OutQueue!empty THEN Tail(OutQueue!Contents) ELSE OutQueue!Contents
<1>3. push \in BOOLEAN /\ pop \in BOOLEAN
  BY DEF tx_fifo_pop
<1>4. OutQueue!Push(push, d) /\ OutQueue!Pop(pop)
  <2> HIDE DEF push, pop
  <2>1. Out!Push(push, d) /\ Out!Pop(pop)
    BY <1>1, <1>2 DEF push, pop
  <2> QED BY <2>1, Zenon DEF Out!Push, OutQueue!Push, Out!Pop, OutQueue!Pop, Out!full, OutQueue!full,
            Out!empty, OutQueue!empty, Out!rd_data, OutQueue!rd_data, Out!Address, OutQueue!Address,
            Out!WrapBit, OutQueue!WrapBit, Out!Incremented, OutQueue!Incremented
<1>5. OutQueue!TypeOK
  BY OutIsAQueue
<1>6. /\ OutQueue!TypeOK'
      /\ OutQueue!Contents \in Seq(Data) /\ OutQueue!Contents' \in Seq(Data)
      /\ OutQueue!Contents' = IF push /\ ~OutQueue!full THEN Append(kept, d) ELSE kept
      /\ tx_taken' = IF pop /\ ~OutQueue!empty THEN <<Head(OutQueue!Contents)>> ELSE <<>>
      /\ OutQueue!empty <=> OutQueue!Contents = <<>>
  <2> HIDE DEF push, pop
  <2> QED BY <1>3, <1>4, <1>5, OutQueue!QueueEdge, DepthAssumption
<1>7. Out!TypeOK' /\ Out!Contents' = OutQueue!Contents'
  <2>1. OutQueue!TypeOK' => Out!TypeOK'
    BY Zenon DEF Out!TypeOK, OutQueue!TypeOK, Out!level, OutQueue!level, Out!Pointer, OutQueue!Pointer
  <2>2. Out!Contents' = OutQueue!Contents'
    BY Zenon DEF Out!Contents, OutQueue!Contents, Out!level, OutQueue!level,
       Out!Address, OutQueue!Address, Out!After, OutQueue!After
  <2> QED BY <1>6, <2>1, <2>2
<1>8. PICK q \in Seq(Data), next \in Seq(Data) : q = OutQueue!Contents /\ next = OutQueue!Contents'
  BY <1>6
<1>9. q = Out!Contents /\ next = Out!Contents' /\ (pop => ~OutQueue!empty /\ q # <<>>)
  BY <1>6, <1>7, <1>8, OutIsAQueue DEF tx_fifo_pop
<1>10. kept \in Seq(Data) /\ (pop => kept = Tail(q)) /\ (~pop => kept = q)
  BY <1>8, <1>9, JoinTail
<1>11. sent \in Seq(Data) /\ (push => sent = <<d>>)
  BY <1>1, Single, JoinEmpty
<1>12. next = Join(kept, sent)
  <2>1. CASE push
    <3>1. sent = <<d>> /\ ~OutQueue!full
      BY <1>2, <1>11, <2>1, OutIsAQueue
    <3>2. next = Append(kept, d)
      BY <1>6, <1>8, <2>1, <3>1
    <3> HIDE DEF kept, push
    <3> QED BY <1>10, <3>1, <3>2, JoinOne
  <2>2. CASE ~push
    <3>1. next = kept /\ sent = <<>>
      BY <1>6, <1>8, <2>2
    <3> HIDE DEF kept
    <3> QED BY <1>10, <3>1, JoinEmpty
  <2> QED BY <2>1, <2>2
<1>13. pop => /\ Out!rd_data \in Data
              /\ Join(<<Out!rd_data>>, next) = Join(q, sent)
  <2> SUFFICES ASSUME pop PROVE Out!rd_data \in Data /\ Join(<<Out!rd_data>>, next) = Join(q, sent)
    OBVIOUS
  <2>1. tx_taken' = <<Head(q)>> /\ tx_taken' = <<OutQueue!rd_data>>
    BY <1>4, <1>6, <1>8, <1>9 DEF OutQueue!Pop
  <2>2. PICK h \in Data : h = Head(q)
    BY <1>9, JoinTail
  <2>3. Out!rd_data = h
    BY <2>1, <2>2, OutIsAQueue
  <2>4. PICK r \in Seq(Data) : r = kept /\ r = Tail(q)
    BY <1>10
  <2>5. Join(<<h>>, r) = q /\ <<h>> \in Seq(Data)
    BY <1>9, <2>2, <2>4, JoinTail, Single
  <2>6. PICK u \in Seq(Data) : u = <<h>>
    BY <2>5
  <2>7. Join(Join(u, r), sent) = Join(u, Join(r, sent))
    BY <1>11, JoinRegroups
  <2> HIDE DEF kept
  <2> QED BY <1>12, <2>3, <2>4, <2>5, <2>6, <2>7
<1>14. ~pop => next = Join(q, sent)
  <2> HIDE DEF kept
  <2> QED BY <1>10, <1>12
<1> HIDE DEF kept, push
<1> QED BY <1>7, <1>9, <1>11, <1>13, <1>14

LEMMA InStep ==
  ASSUME TypeOK, LineOk, NEW slip_rx_pop \in BOOLEAN, NEW refused, WayIn(slip_rx_pop, refused)
  PROVE  /\ TypeOK' /\ Landed \in Seq(Data)
         /\ Contents \in Seq(Data) /\ Contents' \in Seq(Data)
         /\ \E kept \in Seq(Data) :
              /\ ~overflow' => Contents' = Join(kept, Landed)
              /\ taken' = <<>> => kept = Contents
              /\ taken' # <<>> => Contents # <<>> /\ kept = Tail(Contents)
<1> DEFINE kept == IF slip_rx_pop /\ ~empty THEN Tail(Contents) ELSE Contents
<1>1. /\ TypeOK' /\ Contents \in Seq(Data) /\ Contents' \in Seq(Data)
      /\ Contents' = IF rx_valid /\ ~full THEN Append(kept, rx_byte) ELSE kept
      /\ taken' = IF slip_rx_pop /\ ~empty THEN <<Head(Contents)>> ELSE <<>>
      /\ empty <=> Contents = <<>>
      /\ overflow' <=> rx_valid /\ full
  <2>1. Push(rx_valid, rx_byte) /\ Pop(slip_rx_pop)
    BY DEF WayIn
  <2> QED BY <2>1, QueueEdge DEF LineOk, Push
<1>2. kept \in Seq(Data)
  BY <1>1, JoinTail
<1>3. Landed \in Seq(Data)
  BY Single, JoinEmpty, <1>1 DEF Landed, LineOk
<1>4. ~overflow' => Contents' = Join(kept, Landed)
  <2>1. CASE rx_valid /\ ~full
    <3>1. Landed = <<rx_byte>> /\ rx_byte \in Data
      BY <2>1 DEF Landed, LineOk
    <3> HIDE DEF kept
    <3> QED BY <1>1, <1>2, <2>1, <3>1, JoinOne
  <2>2. CASE ~rx_valid
    <3>1. Landed = <<>>
      BY <2>2 DEF Landed
    <3> HIDE DEF kept
    <3> QED BY <1>1, <1>2, <2>2, <3>1, JoinEmpty
  <2> QED BY <1>1, <2>1, <2>2
<1>5. /\ taken' = <<>> => kept = Contents
      /\ taken' # <<>> => Contents # <<>> /\ kept = Tail(Contents)
  BY <1>1
<1> QED BY <1>1, <1>2, <1>3, <1>4, <1>5

\* What is on the line stays there or lands; one whose stop bit is missing is
\* reported.
LEMMA LineMoves ==
  ASSUME LineOk, Proceeds
  PROVE  /\ LineOk'
         /\ ~rx_frame_error' => Join(Landed', on_line') = on_line
         /\ Landed' \in Seq(Data) /\ on_line' \in Seq(Data) /\ on_line \in Seq(Data)
<1>1. on_line \in Seq(Data)
  BY Single, JoinEmpty, EndAssumption DEF LineOk
<1>2. CASE Quiet /\ (Ends \/ Goes)
  <2>1. /\ rx_valid' = FALSE /\ rx_byte' = rx_byte /\ on_line' = on_line
        /\ tx_busy' = tx_busy \/ on_line = <<>>
    BY <1>2 DEF Quiet, Ends, Goes
  <2>2. LineOk' /\ Landed' = <<>>
    BY <2>1 DEF LineOk, Landed
  <2> QED BY <1>1, <2>1, <2>2, JoinEmpty
<1>3. CASE \E well \in BOOLEAN : Hears(well)
  <2>1. PICK well \in BOOLEAN : Hears(well)
    BY <1>3
  <2>2. PICK d \in Data : on_line = <<d>>
    BY <2>1 DEF Hears, LineOk
  <2>3. /\ on_line' = <<>> /\ rx_valid' = well /\ rx_frame_error' = ~well
        /\ rx_byte' = IF well THEN d ELSE rx_byte
    BY <2>1, <2>2 DEF Hears
  <2>4. LineOk'
    BY <2>3 DEF LineOk
  <2>5. well => Landed' = <<d>>
    BY <2>3 DEF Landed
  <2>6. ~well => Landed' = <<>>
    BY <2>3 DEF Landed
  <2> QED BY <1>1, <2>2, <2>3, <2>4, <2>5, <2>6, JoinEmpty, Single
<1> QED BY <1>2, <1>3 DEF Proceeds
-----------------------------------------------------------------------------
(* The whole way: the decoder's queue, the line, the encoder's queue. *)

\* One byte taken from the front.
LEMMA WayTaken ==
  ASSUME NEW c \in Seq(Data), NEW w \in Seq(Data), NEW q \in Seq(Data), c # <<>>
  PROVE  /\ Join(Join(c, w), q) # <<>>
         /\ Tail(Join(Join(c, w), q)) = Join(Join(Tail(c), w), q)
<1>1. PICK x \in Seq(Data) : x = Join(c, w)
  BY JoinFacts
<1>2. x # <<>> /\ Tail(x) = Join(Tail(c), w)
  BY <1>1, TailOfJoin
<1>3. Join(x, q) # <<>> /\ Tail(Join(x, q)) = Join(Tail(x), q)
  BY <1>1, <1>2, TailOfJoin
<1> QED BY <1>1, <1>2, <1>3

LEMMA CycleStep ==
  ASSUME SerialInv, Cycle
  PROVE  SerialInv'
<1>1. PICK sent \in Sent, slip_rx_pop \in BOOLEAN, refused \in BOOLEAN :
        /\ WayOut(sent) /\ WayIn(slip_rx_pop, refused)
        /\ owed' = IF trouble' THEN <<>> ELSE Rest \o sent
  BY DEF Cycle
<1>2. ~held /\ held' = held /\ LINE
  BY DEF Cycle
<1>3. TypeOK /\ Out!TypeOK /\ LineOk /\ LossIsSeen
  BY DEF SerialInv
<1>4. /\ Out!TypeOK' /\ sent \in Seq(Data)
      /\ Out!Contents \in Seq(Data) /\ Out!Contents' \in Seq(Data)
      /\ ~tx_fifo_pop => Out!Contents' = Join(Out!Contents, sent)
      /\ tx_fifo_pop => /\ Out!rd_data \in Data
                        /\ Join(<<Out!rd_data>>, Out!Contents') = Join(Out!Contents, sent)
  BY <1>1, <1>3, OutStep
<1>5. TypeOK' /\ Landed \in Seq(Data) /\ Contents \in Seq(Data) /\ Contents' \in Seq(Data)
  BY <1>1, <1>3, InStep
<1>6. PICK kept \in Seq(Data) :
        /\ ~overflow' => Contents' = Join(kept, Landed)
        /\ taken' = <<>> => kept = Contents
        /\ taken' # <<>> => Contents # <<>> /\ kept = Tail(Contents)
  BY <1>1, <1>3, InStep
<1>7. on_line \in Seq(Data)
  BY <1>3, Single, JoinEmpty, EndAssumption DEF LineOk
<1>8. LineOk' /\ Landed' \in Seq(Data) /\ on_line' \in Seq(Data)
  <2>1. CASE tx_fifo_pop
    <3>1. Quiet /\ Sends
      BY <1>2, <2>1 DEF LINE
    <3>2. /\ rx_valid' = FALSE /\ rx_byte' = rx_byte /\ tx_busy' = TRUE
          /\ on_line' = <<Out!rd_data>>
      BY <3>1 DEF Quiet, Sends
    <3> QED BY <1>3, <1>4, <2>1, <3>2, Single, JoinEmpty DEF LineOk, Landed
  <2>2. CASE ~tx_fifo_pop
    BY <1>2, <1>3, <2>2, LineMoves DEF LINE
  <2> QED BY <2>1, <2>2
<1>9. ~Telling' => Join(Join(Landed', on_line'), Out!Contents') = Join(on_line, Join(Out!Contents, sent))
  <2> SUFFICES ASSUME ~Telling'
               PROVE  Join(Join(Landed', on_line'), Out!Contents')
                        = Join(on_line, Join(Out!Contents, sent))
    OBVIOUS
  <2>1. CASE tx_fifo_pop
    <3>1. Quiet /\ Sends /\ ~tx_busy
      BY <1>2, <2>1 DEF LINE, tx_fifo_pop
    <3>2. on_line = <<>> /\ on_line' = <<Out!rd_data>> /\ Landed' = <<>>
      BY <1>3, <3>1 DEF LineOk, Quiet, Sends, Landed
    <3>3. PICK n \in Seq(Data), b \in Seq(Data) : n = on_line' /\ b = Join(Out!Contents, sent)
      BY <1>4, <1>8, JoinFacts
    <3>4. Join(<<>>, n) = n /\ Join(<<>>, b) = b
      BY JoinEmpty
    <3> QED BY <1>4, <2>1, <3>2, <3>3, <3>4
  <2>2. CASE ~tx_fifo_pop
    <3>1. ~rx_frame_error'
      BY DEF Telling
    <3>2. Join(Landed', on_line') = on_line
      BY <1>2, <1>3, <2>2, <3>1, LineMoves DEF LINE
    <3> QED BY <1>4, <2>2, <3>2
  <2> QED BY <2>1, <2>2
<1>10. LossIsSeen'
  <2> SUFFICES ASSUME ~Telling'
               PROVE  Join(Join(Contents', Join(Landed', on_line')), Out!Contents') = owed'
    BY DEF LossIsSeen, OnTheWay, Join
  <2>1. ~trouble' /\ ~overflow'
    BY DEF Telling
  <2>2. ~Telling
    BY <1>1, <2>1 DEF WayIn, TroubleAfter, Telling
  <2>3. PICK c \in Seq(Data), r \in Seq(Data), l \in Seq(Data), q \in Seq(Data),
             w \in Seq(Data), p \in Seq(Data) :
          /\ c = Contents /\ r = Landed /\ l = on_line /\ q = Out!Contents
          /\ w = Join(Landed', on_line') /\ p = Out!Contents'
    <3>1. PICK w \in Seq(Data) : w = Join(Landed', on_line')
      BY <1>8, JoinFacts
    <3> QED BY <1>4, <1>5, <1>7, <3>1
  <2>4. PICK m \in Seq(Data) : m = Join(r, l)
    BY JoinFacts
  <2>5. owed = Join(Join(c, m), q)
    BY <1>2, <1>3, <2>2, <2>3, <2>4 DEF LossIsSeen, OnTheWay, Join
  <2>6. Rest = Join(Join(kept, m), q)
    <3>1. CASE taken' = <<>>
      BY <1>6, <2>3, <2>5, <3>1 DEF Rest
    <3>2. CASE taken' # <<>>
      <4>1. c # <<>> /\ kept = Tail(c)
        BY <1>6, <2>3, <3>2
      <4>2. owed # <<>> /\ Tail(owed) = Join(Join(kept, m), q)
        <5>1. /\ Join(Join(c, m), q) # <<>>
              /\ Tail(Join(Join(c, m), q)) = Join(Join(Tail(c), m), q)
          BY <4>1, WayTaken
        <5> QED BY <2>5, <4>1, <5>1
      <4> QED BY <3>2, <4>2 DEF Rest
    <3> QED BY <3>1, <3>2
  <2>7. owed' = Join(Rest, sent)
    BY <1>1, <2>1 DEF Join
  <2>8. Join(w, p) = Join(l, Join(q, sent))
    BY <1>9, <2>3
  <2>9. Join(Join(Join(kept, r), w), p) = Join(Join(Join(kept, m), q), sent)
    <3>1. PICK a \in Seq(Data), b \in Seq(Data), f \in Seq(Data), s \in Seq(Data) :
            a = Join(kept, r) /\ b = Join(q, sent) /\ f = Join(kept, m) /\ s = sent
      BY <1>4, JoinFacts
    <3>2. Join(Join(a, w), p) = Join(a, Join(w, p))
      BY JoinRegroups
    <3>3. Join(Join(a, l), b) = Join(a, Join(l, b))
      BY JoinRegroups
    <3>4. Join(Join(kept, r), l) = Join(kept, Join(r, l))
      BY JoinRegroups
    <3>5. Join(Join(f, q), s) = Join(f, Join(q, s))
      BY JoinRegroups
    <3> QED BY <2>4, <2>8, <3>1, <3>2, <3>3, <3>4, <3>5
  <2>10. Contents' = Join(kept, r)
    BY <1>6, <2>1, <2>3
  <2> QED BY <2>3, <2>6, <2>7, <2>9, <2>10
<1> QED BY <1>4, <1>5, <1>8, <1>10 DEF SerialInv

LEMMA InHeldStep ==
  ASSUME SerialInv, InHeld
  PROVE  SerialInv'
<1>1. PICK sent \in Sent : WayOut(sent)
  BY DEF InHeld
<1>2. TypeOK /\ Out!TypeOK /\ LineOk
  BY DEF SerialInv
<1>3. LINE /\ Reset /\ owed' = OnTheWay' \o Out!Contents'
  BY DEF InHeld, ResetIn
<1>4. Out!TypeOK' /\ Out!Contents' \in Seq(Data) /\ (tx_fifo_pop => Out!rd_data \in Data)
  BY <1>1, <1>2, OutStep
<1>5. TypeOK' /\ Contents' = <<>>
  BY <1>2, <1>3, ResetEmpties
<1>6. LineOk' /\ Landed' \in Seq(Data) /\ on_line' \in Seq(Data)
  <2>1. CASE tx_fifo_pop
    <3>1. /\ rx_valid' = FALSE /\ rx_byte' = rx_byte /\ tx_busy' = TRUE
          /\ on_line' = <<Out!rd_data>>
      BY <1>3, <2>1 DEF LINE, Quiet, Sends
    <3> QED BY <1>2, <1>4, <2>1, <3>1, Single, JoinEmpty DEF LineOk, Landed
  <2>2. CASE ~tx_fifo_pop
    BY <1>2, <1>3, <2>2, LineMoves DEF LINE
  <2> QED BY <2>1, <2>2
<1>7. LossIsSeen'
  <2>1. PICK w \in Seq(Data) : w = Join(Landed', on_line')
    BY <1>6, JoinFacts
  <2>2. Join(<<>>, w) = w
    BY JoinEmpty
  <2>3. owed' = Join(w, Out!Contents') /\ OnTheWay' = w
    BY <1>3, <2>1 DEF OnTheWay, Join
  <2>4. Join(Join(Contents', OnTheWay'), Out!Contents') = owed'
    BY <1>5, <2>2, <2>3
  <2> QED BY <2>4 DEF LossIsSeen, Join
<1> QED BY <1>4, <1>5, <1>6, <1>7 DEF SerialInv

LEMMA OutHeldStep ==
  ASSUME SerialInv, OutHeld
  PROVE  SerialInv'
<1>1. /\ Out!Reset /\ Proceeds /\ WayIn(FALSE, FALSE)
      /\ owed' = IF trouble' THEN <<>> ELSE Contents' \o OnTheWay'
  BY DEF OutHeld, ResetOut
<1>2. TypeOK /\ Out!TypeOK /\ LineOk
  BY DEF SerialInv
<1>3. Out!TypeOK' /\ Out!Contents' = <<>>
  <2>1. OutQueue!TypeOK /\ OutQueue!Reset
    BY <1>1, <1>2, OutIsAQueue DEF Out!Reset, OutQueue!Reset
  <2>2. OutQueue!TypeOK' /\ OutQueue!Contents' = <<>>
    BY <2>1, OutQueue!ResetEmpties, DepthAssumption
  <2>3. OutQueue!TypeOK' => Out!TypeOK'
    BY Zenon DEF Out!TypeOK, OutQueue!TypeOK, Out!level, OutQueue!level, Out!Pointer, OutQueue!Pointer
  <2>4. Out!Contents' = OutQueue!Contents'
    BY Zenon DEF Out!Contents, OutQueue!Contents, Out!level, OutQueue!level,
       Out!Address, OutQueue!Address, Out!After, OutQueue!After
  <2> QED BY <2>2, <2>3, <2>4
<1>4. TypeOK' /\ Contents' \in Seq(Data)
  BY <1>1, <1>2, InStep
<1>5. LineOk' /\ Landed' \in Seq(Data) /\ on_line' \in Seq(Data)
  BY <1>1, <1>2, LineMoves
<1>6. LossIsSeen'
  <2>1. PICK w \in Seq(Data) : w = Join(Landed', on_line')
    BY <1>5, JoinFacts
  <2>2. PICK x \in Seq(Data) : x = Join(Contents', w)
    BY <1>4, JoinFacts
  <2>3. Join(x, <<>>) = x
    BY JoinEmpty
  <2>4. ~trouble' => owed' = x
    BY <1>1, <2>1, <2>2 DEF OnTheWay, Join
  <2>5. Join(Join(Contents', OnTheWay'), Out!Contents') = x
    BY <1>3, <2>1, <2>2, <2>3 DEF OnTheWay, Join
  <2> QED BY <2>4, <2>5 DEF LossIsSeen, Telling, Join
<1> QED BY <1>3, <1>4, <1>5, <1>6 DEF SerialInv

LEMMA SerialStutter ==
  ASSUME SerialInv, UNCHANGED serialVars
  PROVE  SerialInv'
<1>1. /\ UNCHANGED <<mem, wr_ptr, rd_ptr, overflow, taken>>
      /\ UNCHANGED <<tx_mem, tx_wr_ptr, tx_rd_ptr, tx_overflow, tx_taken>>
      /\ UNCHANGED <<tx_busy, on_line, rx_valid, rx_byte, rx_frame_error>>
      /\ UNCHANGED <<held, counted, trouble, owed>>
  BY DEF serialVars, vars, tx_queue, receiver
<1>2. TypeOK /\ Out!TypeOK /\ LineOk /\ LossIsSeen
  BY DEF SerialInv
<1>3. TypeOK' /\ Contents' = Contents
  BY <1>1, <1>2, Zenon DEF TypeOK, Contents, level, Pointer, Address, After
<1>4. Out!TypeOK' /\ Out!Contents' = Out!Contents
  BY <1>1, <1>2, Zenon DEF Out!TypeOK, Out!Contents, Out!level, Out!Pointer, Out!Address, Out!After
<1>5. LineOk'
  BY <1>1, <1>2 DEF LineOk
<1>6. OnTheWay' = OnTheWay /\ (Telling' <=> Telling)
  BY <1>1 DEF OnTheWay, Landed, Telling
<1>7. LossIsSeen'
  BY <1>1, <1>2, <1>3, <1>4, <1>6, Zenon DEF LossIsSeen
<1> QED BY <1>3, <1>4, <1>5, <1>7 DEF SerialInv

LEMMA SerialStarts == SerialInit => SerialInv /\ Init
<1> SUFFICES ASSUME SerialInit PROVE SerialInv /\ Init
  OBVIOUS
<1>1. Init /\ OutQueue!Init
  BY EndAssumption DEF SerialInit, Init, OutQueue!Init
<1>2. TypeOK /\ Contents = <<>>
  BY <1>1, InitEmpty
<1>3. OutQueue!TypeOK /\ OutQueue!Contents = <<>>
  BY <1>1, OutQueue!InitEmpty, DepthAssumption
<1>4. Out!TypeOK /\ Out!Contents = <<>>
  BY <1>3, OutIsAQueue
<1>5. LineOk
  BY EndAssumption DEF SerialInit, LineOk
<1>6. LossIsSeen
  BY DEF SerialInit, LossIsSeen
<1> QED BY <1>1, <1>2, <1>4, <1>5, <1>6 DEF SerialInv

\* Between encoder and decoder no byte is lost, doubled or moved without
\* `trouble`: while the latch and the pulses on their way to it are low, the
\* two queues and the line hold exactly what was pushed and not yet popped,
\* across resets of either board, for every depth of oca_fifo.
THEOREM NothingLostUnseen == SerialSpec => []LossIsSeen
<1>1. SerialInit => SerialInv
  BY SerialStarts
<1>2. SerialInv /\ [SerialNext]_serialVars => SerialInv'
  <2> SUFFICES ASSUME SerialInv, [SerialNext]_serialVars PROVE SerialInv'
    OBVIOUS
  <2>1. CASE Cycle
    BY <2>1, CycleStep
  <2>2. CASE InHeld
    BY <2>2, InHeldStep
  <2>3. CASE OutHeld
    BY <2>3, OutHeldStep
  <2>4. CASE UNCHANGED serialVars
    BY <2>4, SerialStutter
  <2> QED BY <2>1, <2>2, <2>3, <2>4 DEF SerialNext
<1>3. SerialInv => LossIsSeen
  BY DEF SerialInv
<1> QED BY <1>1, <1>2, <1>3, PTL DEF SerialSpec

-----------------------------------------------------------------------------
(* The input queue, fed by the receiver, is the abstract queue. *)

LEMMA WayInRefines ==
  ASSUME TypeOK, LineOk, NEW pop \in BOOLEAN, NEW refused, WayIn(pop, refused)
  PROVE  Queue!Next
<1>1. Push(rx_valid, rx_byte) /\ Pop(pop) /\ rx_valid \in BOOLEAN /\ rx_byte \in Data
  BY DEF WayIn, LineOk
<1>2. Queue!Edge(rx_valid, rx_byte, pop)
  BY <1>1, EdgeRefines
<1> QED BY <1>1, <1>2 DEF Queue!Next

LEMMA ResetRefines ==
  ASSUME TypeOK, Reset
  PROVE  Queue!Next
<1>1. Contents' = <<>> /\ overflow' = FALSE /\ taken' = <<>>
  BY ResetEmpties DEF Reset
<1> QED BY <1>1 DEF Queue!Next, Queue!Cleared

\* The queue behind the receiver, driven by the line and cleared by its
\* board's reset, is the bounded queue oca_fifo promises: what overflow
\* refuses is reported on the same edge.
THEOREM LineFeedsAQueue == SerialSpec => Implements
<1>1. SerialInit => SerialInv /\ Queue!Init
  <2> SUFFICES ASSUME SerialInit PROVE SerialInv /\ Queue!Init
    OBVIOUS
  <2>1. SerialInv /\ Init
    BY SerialStarts
  <2>2. Contents = <<>>
    BY <2>1, InitEmpty
  <2> QED BY <2>1, <2>2 DEF Queue!Init, Init
<1>2. SerialInv /\ [SerialNext]_serialVars
        => SerialInv' /\ [Queue!Next]_<<Contents, overflow, taken>>
  <2> SUFFICES ASSUME SerialInv, [SerialNext]_serialVars
               PROVE  SerialInv' /\ [Queue!Next]_<<Contents, overflow, taken>>
    OBVIOUS
  <2>1. TypeOK /\ LineOk
    BY DEF SerialInv
  <2>2. CASE Cycle
    <3>1. PICK sent \in Sent, pop \in BOOLEAN, refused \in BOOLEAN :
            WayOut(sent) /\ WayIn(pop, refused)
      BY <2>2 DEF Cycle
    <3>2. Queue!Next
      BY <2>1, <3>1, WayInRefines
    <3> QED BY <2>2, <3>2, CycleStep
  <2>3. CASE InHeld
    <3>1. Reset
      BY <2>3 DEF InHeld, ResetIn
    <3>2. Queue!Next
      BY <2>1, <3>1, ResetRefines
    <3> QED BY <2>3, <3>2, InHeldStep
  <2>4. CASE OutHeld
    <3>1. WayIn(FALSE, FALSE)
      BY <2>4 DEF OutHeld
    <3>2. Queue!Next
      BY <2>1, <3>1, WayInRefines
    <3> QED BY <2>4, <3>2, OutHeldStep
  <2>5. CASE UNCHANGED serialVars
    <3>1. UNCHANGED <<mem, wr_ptr, rd_ptr, overflow, taken>>
      BY <2>5 DEF serialVars, vars
    <3>2. UNCHANGED <<Contents, overflow, taken>>
      BY <3>1, Zenon DEF Contents, level, Address, After
    <3> QED BY <2>5, <3>2, SerialStutter
  <2> QED BY <2>2, <2>3, <2>4, <2>5 DEF SerialNext
<1> QED BY <1>1, <1>2, PTL DEF SerialSpec, Implements, Queue!Spec
=============================================================================
