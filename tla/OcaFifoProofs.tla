---------------------------- MODULE OcaFifoProofs ----------------------------
(* The FIFO is a bounded queue, for every depth and every set of values. *)
EXTENDS OcaFifo, SequenceTheorems, TLAPS

\* The distance between the pointers is exact: a push and a pop move it by
\* one each, and full and empty are its two ends.
LEMMA LevelFacts ==
  ASSUME TypeOK
  PROVE  /\ level \in 0..Depth
         /\ empty <=> level = 0
         /\ full <=> level = Depth
BY DepthAssumption DEF TypeOK, level, empty, full, Pointer, WrapBit, Address

LEMMA LevelMoves ==
  ASSUME TypeOK, NEW push \in BOOLEAN, NEW pop \in BOOLEAN, NEW d \in Data,
         Push(push, d), Pop(pop)
  PROVE  level' = level + (IF push /\ ~full THEN 1 ELSE 0)
                        - (IF pop /\ ~empty THEN 1 ELSE 0)
<1>1. level \in 0..Depth /\ (empty <=> level = 0) /\ (full <=> level = Depth)
  BY LevelFacts
<1>2. wr_ptr \in Pointer /\ rd_ptr \in Pointer
  BY DEF TypeOK
<1>3. CASE push /\ ~full
  <2>1. CASE pop /\ ~empty
    BY <1>1, <1>2, <1>3, <2>1, DepthAssumption DEF Push, Pop, level, Pointer, Incremented
  <2>2. CASE ~(pop /\ ~empty)
    BY <1>1, <1>2, <1>3, <2>2, DepthAssumption DEF Push, Pop, level, Pointer, Incremented
  <2> QED BY <2>1, <2>2
<1>4. CASE ~(push /\ ~full)
  <2>1. CASE pop /\ ~empty
    BY <1>1, <1>2, <1>4, <2>1, DepthAssumption
       DEF Push, Pop, level, Pointer, Incremented, empty
  <2>2. CASE ~(pop /\ ~empty)
    BY <1>1, <1>2, <1>4, <2>2, DepthAssumption DEF Push, Pop, level, Pointer, Incremented
  <2> QED BY <2>1, <2>2
<1> QED BY <1>3, <1>4

\* Pointers never come further apart than the memory is long: not over an edge,
\* whether the reader and the writer act on it together or alone.
LEMMA EdgeKeepsType ==
  ASSUME TypeOK, NEW push \in BOOLEAN, NEW pop \in BOOLEAN, NEW d \in Data,
         Push(push, d), Pop(pop)
  PROVE  TypeOK'
<1>1. level \in 0..Depth /\ (empty <=> level = 0) /\ (full <=> level = Depth)
  BY LevelFacts
<1>2. level' <= Depth
  BY <1>1, LevelMoves, DepthAssumption
<1>3. mem' \in [0..(Depth - 1) -> Data]
  BY DepthAssumption DEF TypeOK, Push
<1>4. wr_ptr' \in Pointer /\ rd_ptr' \in Pointer
  BY DepthAssumption DEF TypeOK, Push, Pop, Pointer, Incremented
<1> QED BY <1>2, <1>3, <1>4 DEF TypeOK, Push

LEMMA ResetEmpties ==
  ASSUME TypeOK, Reset
  PROVE  TypeOK' /\ Contents' = <<>>
<1>1. level' = 0
  BY DEF Reset, level
<1>2. Contents' = <<>>
  BY <1>1 DEF Contents
<1> QED BY <1>1, <1>2, DepthAssumption DEF Reset, TypeOK, Pointer

LEMMA InitEmpty == Init => TypeOK /\ Contents = <<>>
<1> SUFFICES ASSUME Init PROVE TypeOK /\ Contents = <<>>
  OBVIOUS
<1>1. level = 0
  BY DEF Init, level
<1>2. 0 \in Pointer /\ level <= Depth
  BY <1>1, DepthAssumption DEF Pointer
<1>3. Contents = <<>>
  BY <1>1 DEF Contents
<1> QED BY <1>2, <1>3 DEF Init, TypeOK

LEMMA TypeInvariant == Spec => []TypeOK
<1>1. Init => TypeOK
  BY InitEmpty
<1>2. TypeOK /\ [Next]_vars => TypeOK'
  <2> SUFFICES ASSUME TypeOK, [Next]_vars PROVE TypeOK'
    OBVIOUS
  <2>1. CASE \E push, pop \in BOOLEAN, d \in Data : Push(push, d) /\ Pop(pop)
    BY <2>1, EdgeKeepsType
  <2>2. CASE Reset
    BY <2>2, ResetEmpties
  <2>3. CASE UNCHANGED vars
    BY <2>3 DEF vars, TypeOK, level
  <2> QED BY <2>1, <2>2, <2>3 DEF Next
<1> QED BY <1>1, <1>2, PTL DEF Spec

-----------------------------------------------------------------------------
(* The values between the pointers. *)

LEMMA ContentsIsSeq ==
  ASSUME TypeOK
  PROVE  Contents \in Seq(Data) /\ Len(Contents) = level
<1>1. level \in Nat
  BY LevelFacts, DepthAssumption
<1>2. ASSUME NEW k \in 1..level PROVE mem[Address(After(rd_ptr, k - 1))] \in Data
  BY <1>1, LevelFacts, DepthAssumption DEF TypeOK, Address, After, Pointer
<1> QED BY <1>1, <1>2 DEF Contents

\* Where the value of place k + 1 is before a pop, that of place k is after it.
LEMMA PopShifts ==
  ASSUME NEW p \in Pointer, NEW k \in 1..Depth
  PROVE  After(Incremented(p), k - 1) = After(p, k)
BY DepthAssumption DEF Pointer, After, Incremented

\* A push writes an address no place of the queue is at, except the new one.
LEMMA PushLands ==
  ASSUME TypeOK, ~full, NEW k \in 1..(level + 1)
  PROVE  Address(After(rd_ptr, k - 1)) = Address(wr_ptr) <=> k = level + 1
<1>1. level \in 0..Depth /\ level # Depth
  BY LevelFacts
<1>2. wr_ptr \in Pointer /\ rd_ptr \in Pointer
  BY DEF TypeOK
<1> QED BY <1>1, <1>2, DepthAssumption DEF Address, After, level, Pointer

\* A queue of the values in front of a push and behind a pop.
LEMMA EdgeRefines ==
  ASSUME TypeOK, NEW push \in BOOLEAN, NEW pop \in BOOLEAN, NEW d \in Data,
         Push(push, d), Pop(pop)
  PROVE  Queue!Edge(push, d, pop)
<1> DEFINE cut  == IF pop /\ ~empty THEN 1 ELSE 0
           more == IF push /\ ~full THEN 1 ELSE 0
           kept == IF pop /\ Contents # <<>> THEN Tail(Contents) ELSE Contents
<1>1. /\ level \in 0..Depth /\ (empty <=> level = 0) /\ (full <=> level = Depth)
      /\ Contents \in Seq(Data) /\ Len(Contents) = level
      /\ level' = level + more - cut
  BY LevelFacts, ContentsIsSeq, LevelMoves
<1>2. /\ Contents = <<>> <=> empty
      /\ ~(Len(Contents) < Depth) <=> full
  BY <1>1, DepthAssumption
<1>3. rd_ptr \in Pointer /\ wr_ptr \in Pointer /\ mem \in [0..(Depth - 1) -> Data]
  BY DEF TypeOK
<1>4. ASSUME NEW k \in 1..level'
      PROVE  Contents'[k] = IF k + cut = level + 1 THEN d ELSE Contents[k + cut]
  <2>1. Contents'[k] = mem'[Address(After(rd_ptr', k - 1))]
    BY <1>4 DEF Contents
  <2>2. k \in 1..Depth /\ k + cut \in 1..(level + 1)
    BY <1>1, <1>4, DepthAssumption
  <2>3. After(rd_ptr', k - 1) = After(rd_ptr, k + cut - 1)
    <3>1. CASE pop /\ ~empty
      BY <3>1, <2>2, <1>3, PopShifts DEF Pop
    <3>2. CASE ~(pop /\ ~empty)
      BY <3>2, <2>2 DEF Pop
    <3> QED BY <3>1, <3>2
  <2>4. Address(After(rd_ptr, k + cut - 1)) \in 0..(Depth - 1)
    BY <2>2, <1>1, <1>3, DepthAssumption DEF Address, After, Pointer
  <2>5. CASE push /\ ~full
    <3> DEFINE a == Address(After(rd_ptr, k + cut - 1))
    <3>1. a = Address(wr_ptr) <=> k + cut = level + 1
      BY <2>2, <2>5, PushLands
    <3>2. mem'[a] = IF a = Address(wr_ptr) THEN d ELSE mem[a]
      BY <2>4, <2>5, <1>3 DEF Push
    <3>3. k + cut # level + 1 => Contents[k + cut] = mem[a]
      BY <2>2, <1>1 DEF Contents
    <3> QED BY <2>1, <2>3, <3>1, <3>2, <3>3
  <2>6. CASE ~(push /\ ~full)
    <3>1. k + cut \in 1..level
      BY <2>2, <2>6, <1>1, <1>4
    <3>2. Contents[k + cut] = mem[Address(After(rd_ptr, k + cut - 1))]
      BY <3>1 DEF Contents
    <3>3. mem' = mem /\ k + cut # level + 1
      BY <2>6, <3>1, <1>1 DEF Push
    <3> QED BY <2>1, <2>3, <3>2, <3>3
  <2> QED BY <2>5, <2>6
<1>5. Contents' = IF push /\ Len(Contents) < Depth THEN Append(kept, d) ELSE kept
  <2> DEFINE after == IF push /\ ~full THEN Append(kept, d) ELSE kept
  <2>1. /\ kept \in Seq(Data) /\ Len(kept) = level - cut
        /\ \A k \in 1..(level - cut) : kept[k] = Contents[k + cut]
    <3>1. CASE pop /\ ~empty
      <4>1. kept = Tail(Contents) /\ Contents # <<>>
        BY <3>1, <1>2
      <4> HIDE DEF kept
      <4> QED BY <4>1, <3>1, <1>1, HeadTailProperties
    <3>2. CASE ~(pop /\ ~empty)
      <4>1. kept = Contents
        BY <3>2, <1>2
      <4>2. \A k \in 1..level : k + 0 = k
        BY <1>1
      <4> HIDE DEF kept
      <4> QED BY <4>1, <4>2, <3>2, <1>1
    <3> QED BY <3>1, <3>2
  <2>2. /\ after \in Seq(Data) /\ Len(after) = level'
        /\ \A k \in 1..level' : after[k] = IF k + cut = level + 1 THEN d ELSE kept[k]
    <3> HIDE DEF kept
    <3>1. CASE push /\ ~full
      BY <3>1, <2>1, <1>1, AppendProperties
    <3>2. CASE ~(push /\ ~full)
      <4>1. after = kept /\ level' = level - cut
        BY <3>2, <1>1
      <4>2. \A k \in 1..level' : k + cut # level + 1
        BY <4>1, <1>1
      <4> HIDE DEF after
      <4> QED BY <4>1, <4>2, <2>1
    <3> QED BY <3>1, <3>2
  <2>3. after \in [1..level' -> Data]
    BY <2>2, LenProperties
  <2>4. ASSUME NEW k \in 1..level' PROVE after[k] = Contents'[k]
    <3> HIDE DEF kept, after
    <3>1. CASE k + cut = level + 1
      BY <2>2, <3>1, <1>4
    <3>2. CASE k + cut # level + 1
      <4>1. k \in 1..(level - cut)
        BY <3>2, <1>1
      <4> QED BY <2>1, <2>2, <3>2, <4>1, <1>4
    <3> QED BY <3>1, <3>2
  <2>5. after = Contents'
    <3> HIDE DEF kept, after
    <3>1. after = [k \in 1..level' |-> after[k]]
      BY <2>3
    <3>2. Contents' = [k \in 1..level' |-> Contents'[k]]
      BY DEF Contents
    <3> QED BY <2>4, <3>1, <3>2
  <2> HIDE DEF kept
  <2> QED BY <2>5, <1>2
<1>6. overflow' = (push /\ ~(Len(Contents) < Depth))
  BY <1>2 DEF Push
<1>7. taken' = IF pop /\ Contents # <<>> THEN <<Head(Contents)>> ELSE <<>>
  <2>1. CASE pop /\ ~empty
    <3>1. Head(Contents) = mem[Address(After(rd_ptr, 0))]
      BY <2>1, <1>1 DEF Contents
    <3>2. After(rd_ptr, 0) = rd_ptr
      BY <1>3, DepthAssumption DEF After, Pointer
    <3> QED BY <2>1, <3>1, <3>2, <1>2 DEF Pop, rd_data
  <2>2. CASE ~(pop /\ ~empty)
    BY <2>2, <1>2 DEF Pop
  <2> QED BY <2>1, <2>2
<1> QED BY <1>5, <1>6, <1>7 DEF Queue!Edge

\* An edge of the FIFO as its two sides see it.
LEMMA QueueEdge ==
  ASSUME TypeOK, NEW push \in BOOLEAN, NEW pop \in BOOLEAN, NEW d \in Data,
         Push(push, d), Pop(pop)
  PROVE  LET kept == IF pop /\ ~empty THEN Tail(Contents) ELSE Contents
         IN  /\ TypeOK'
             /\ Contents \in Seq(Data) /\ Contents' \in Seq(Data)
             /\ Contents' = IF push /\ ~full THEN Append(kept, d) ELSE kept
             /\ taken' = IF pop /\ ~empty THEN <<Head(Contents)>> ELSE <<>>
             /\ empty <=> Contents = <<>>
<1>1. TypeOK' /\ Contents \in Seq(Data) /\ Len(Contents) = level
  BY EdgeKeepsType, ContentsIsSeq
<1>2. level \in 0..Depth /\ (empty <=> level = 0) /\ (full <=> level = Depth)
  BY LevelFacts
<1>3. (empty <=> Contents = <<>>) /\ (full <=> ~(Len(Contents) < Depth))
  BY <1>1, <1>2, DepthAssumption
<1>4. Queue!Edge(push, d, pop)
  BY EdgeRefines
<1> DEFINE kept == IF pop /\ Contents # <<>> THEN Tail(Contents) ELSE Contents
<1>5. kept \in Seq(Data)
  BY <1>1, HeadTailProperties, EmptySeq
<1>6. Contents' = IF push /\ Len(Contents) < Depth THEN Append(kept, d) ELSE kept
  BY <1>4 DEF Queue!Edge
<1>7. Append(kept, d) \in Seq(Data)
  <2> HIDE DEF kept
  <2> QED BY <1>5, AppendProperties
<1>8. Contents' \in Seq(Data)
  <2> HIDE DEF kept
  <2> QED BY <1>5, <1>6, <1>7
<1> QED BY <1>1, <1>3, <1>4, <1>8 DEF Queue!Edge

\* oca_fifo is a bounded queue whatever its depth: nothing lost, repeated or
\* out of order, and every refused push reported.
THEOREM FifoIsQueue == Spec => Implements
<1>1. Init => Queue!Init
  <2> SUFFICES ASSUME Init PROVE Queue!Init
    OBVIOUS
  <2>1. Contents = <<>>
    BY InitEmpty
  <2> QED BY <2>1 DEF Queue!Init, Init
<1>2. TypeOK /\ [Next]_vars => [Queue!Next]_<<Contents, overflow, taken>>
  <2> SUFFICES ASSUME TypeOK, [Next]_vars
               PROVE  [Queue!Next]_<<Contents, overflow, taken>>
    OBVIOUS
  <2>1. CASE \E push, pop \in BOOLEAN, d \in Data : Push(push, d) /\ Pop(pop)
    <3> PICK push \in BOOLEAN, pop \in BOOLEAN, d \in Data : Push(push, d) /\ Pop(pop)
      BY <2>1
    <3>1. Queue!Edge(push, d, pop)
      BY EdgeRefines
    <3> QED BY <3>1 DEF Queue!Next
  <2>2. CASE Reset
    <3>1. Contents' = <<>>
      BY <2>2, ResetEmpties
    <3> QED BY <2>2, <3>1 DEF Reset, Queue!Next, Queue!Cleared
  <2>3. CASE UNCHANGED vars
    BY <2>3 DEF vars, Contents, level
  <2> QED BY <2>1, <2>2, <2>3 DEF Next
<1> QED BY <1>1, <1>2, TypeInvariant, PTL DEF Spec, Implements, Queue!Spec
=============================================================================
