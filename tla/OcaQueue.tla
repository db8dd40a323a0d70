------------------------------ MODULE OcaQueue ------------------------------
(***************************************************************************)
(* What oca_fifo.sv promises: a queue of at most Depth values in arrival   *)
(* order. A push that meets a full queue is refused and reported, also     *)
(* when a pop makes room on the same edge; a pop of an empty one does      *)
(* nothing.                                                                *)
(***************************************************************************)
EXTENDS Naturals, Sequences

CONSTANTS Depth, Data

VARIABLES queue, refused, taken

Init == queue = <<>> /\ refused = FALSE /\ taken = <<>>

Edge(push, d, pop) ==
  LET kept == IF pop /\ queue # <<>> THEN Tail(queue) ELSE queue
      room == Len(queue) < Depth
  IN  /\ queue' = IF push /\ room THEN Append(kept, d) ELSE kept
      /\ refused' = (push /\ ~room)
      /\ taken' = IF pop /\ queue # <<>> THEN <<Head(queue)>> ELSE <<>>

\* A reset empties it.
Cleared == queue' = <<>> /\ refused' = FALSE /\ taken' = <<>>

Next == (\E push, pop \in BOOLEAN, d \in Data : Edge(push, d, pop)) \/ Cleared

Spec == Init /\ [][Next]_<<queue, refused, taken>>
=============================================================================
