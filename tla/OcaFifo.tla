------------------------------- MODULE OcaFifo -------------------------------
(***************************************************************************)
(* oca_fifo.sv: a memory of Depth values and two pointers one bit wider    *)
(* than its address. The code requires Depth to be a power of two, so that *)
(* a pointer is an address and a wrap bit, and both wrap by truncation;    *)
(* here a pointer counts modulo 2 * Depth, which is the same for those.    *)
(***************************************************************************)
EXTENDS Naturals, Sequences

CONSTANTS
  Depth,   \* values the memory holds
  Data     \* values pushed

ASSUME DepthAssumption == Depth \in Nat /\ Depth >= 2

VARIABLES
  mem, wr_ptr, rd_ptr,
  overflow,            \* the registered pulse
  taken                \* what the reader took on this edge, if anything

vars == <<mem, wr_ptr, rd_ptr, overflow, taken>>

Pointer == 0..(2 * Depth - 1)
Incremented(p) == IF p + 1 = 2 * Depth THEN 0 ELSE p + 1
Address(p) == IF p < Depth THEN p ELSE p - Depth
WrapBit(p) == p >= Depth

empty == wr_ptr = rd_ptr
level == IF wr_ptr >= rd_ptr THEN wr_ptr - rd_ptr ELSE wr_ptr + 2 * Depth - rd_ptr
FullOneLate == level > Depth                             \* seeded fault
full == WrapBit(wr_ptr) # WrapBit(rd_ptr) /\ Address(wr_ptr) = Address(rd_ptr)
rd_data == mem[Address(rd_ptr)]

\* Reset leaves the memory as it was.
Init ==
  /\ mem \in [0..(Depth - 1) -> Data]
  /\ wr_ptr = 0 /\ rd_ptr = 0 /\ overflow = FALSE /\ taken = <<>>

Push(push, d) ==
  /\ overflow' = (push /\ full)
  /\ mem' = IF push /\ ~full THEN [mem EXCEPT ![Address(wr_ptr)] = d] ELSE mem
  /\ wr_ptr' = IF push /\ ~full THEN Incremented(wr_ptr) ELSE wr_ptr

Pop(pop) ==
  /\ rd_ptr' = IF pop /\ ~empty THEN Incremented(rd_ptr) ELSE rd_ptr
  /\ taken' = IF pop /\ ~empty THEN <<rd_data>> ELSE <<>>

\* rst_n: asynchronous, the memory is left as it is.
Reset ==
  /\ wr_ptr' = 0 /\ rd_ptr' = 0 /\ overflow' = FALSE /\ taken' = <<>>
  /\ UNCHANGED mem

Next ==
  \/ \E push, pop \in BOOLEAN, d \in Data : Push(push, d) /\ Pop(pop)
  \/ Reset

Spec == Init /\ [][Next]_vars

-----------------------------------------------------------------------------
\* Type invariant: the pointers are never further apart than the memory is
\* long, which is what lets one bit tell full from empty.
TypeOK ==
  /\ mem \in [0..(Depth - 1) -> Data]
  /\ wr_ptr \in Pointer /\ rd_ptr \in Pointer /\ level <= Depth
  /\ overflow \in BOOLEAN

\* The values between the pointers, oldest first.
After(p, k) == IF p + k < 2 * Depth THEN p + k ELSE p + k - 2 * Depth
Contents == [k \in 1..level |-> mem[Address(After(rd_ptr, k - 1))]]

\* The memory and its two pointers are a bounded queue: pushed values come out
\* once each and in order, and a push that is refused is always reported.
Queue == INSTANCE OcaQueue WITH queue <- Contents, refused <- overflow
Implements == Queue!Spec
=============================================================================
