------------------------------- MODULE OcaSerial -------------------------------
(***************************************************************************)
(* The serial line of oca_uart_crypto.sv: its way out, oca_fifo ->         *)
(* oca_uart_tx8, its way in, oca_uart_rx -> oca_fifo -> the decoder, and   *)
(* the sticky `trouble`. The two ends of the line are two boards of the    *)
(* same design, each with a reset of its own.                              *)
(*                                                                         *)
(* One step is one rising edge of clk. A byte is on the line for any       *)
(* number of them (ten bit times in the code), the receiver has it before  *)
(* the transmitter is done, and it may find the stop bit missing. The      *)
(* names of OcaFifo are the input queue's; tx_* are the output queue's.    *)
(***************************************************************************)
EXTENDS OcaFifo

ASSUME EndAssumption == "END" \in Data

VARIABLES
  tx_mem, tx_wr_ptr, tx_rd_ptr, tx_overflow, tx_taken,        \* the output queue
  tx_busy, on_line,                 \* the transmitter, the byte not yet received
  rx_valid, rx_byte, rx_frame_error,                          \* the receiver
  held, counted, trouble,   \* rst_n_core is low; some cnt_* is not 0; the latch
  owed      \* history: bytes pushed at one end and not yet popped at the other

tx_queue == <<tx_mem, tx_wr_ptr, tx_rd_ptr, tx_overflow, tx_taken>>
receiver == <<rx_valid, rx_byte, rx_frame_error>>
serialVars == <<vars, tx_queue, tx_busy, on_line, receiver, held, counted, trouble, owed>>

Out == INSTANCE OcaFifo WITH
  mem <- tx_mem, wr_ptr <- tx_wr_ptr, rd_ptr <- tx_rd_ptr,
  overflow <- tx_overflow, taken <- tx_taken

SerialInit ==
  /\ mem = [a \in 0..(Depth - 1) |-> "END"] /\ tx_mem = mem
  /\ wr_ptr = 0 /\ rd_ptr = 0 /\ overflow = FALSE /\ taken = <<>>
  /\ tx_wr_ptr = 0 /\ tx_rd_ptr = 0 /\ tx_overflow = FALSE /\ tx_taken = <<>>
  /\ tx_busy = FALSE /\ on_line = <<>>
  /\ rx_valid = FALSE /\ rx_byte = "END" /\ rx_frame_error = FALSE
  /\ held = TRUE /\ counted = FALSE /\ trouble = FALSE /\ owed = <<>>

-----------------------------------------------------------------------------
(* The way out. *)

tx_ready == ~Out!full
PopsWhileBusy == ~Out!empty                    \* seeded fault: no !tx_busy
tx_fifo_pop == ~Out!empty /\ ~tx_busy

\* The encoder pushes a byte, or none: it waits for tx_ready.
WayOut(sent) ==
  /\ sent # <<>> => tx_ready
  /\ \E d \in Data : sent \in {<<>>, <<d>>} /\ Out!Push(sent # <<>>, d)
  /\ Out!Pop(tx_fifo_pop)

\* rst_n_core of this board: the transmitter has no reset and finishes its byte.
ResetOut == Out!Reset

-----------------------------------------------------------------------------
(* The line: a byte sent, heard well or with its stop bit missing, done. *)

Sends == tx_busy' = TRUE /\ on_line' = <<Out!rd_data>>
Hears(well) ==
  /\ on_line # <<>> /\ on_line' = <<>> /\ UNCHANGED tx_busy
  /\ rx_valid' = well /\ rx_frame_error' = ~well
  /\ rx_byte' = IF well THEN on_line[1] ELSE rx_byte
Quiet == rx_valid' = FALSE /\ rx_frame_error' = FALSE /\ UNCHANGED rx_byte
Ends == tx_busy /\ on_line = <<>> /\ tx_busy' = FALSE /\ UNCHANGED on_line
Goes == UNCHANGED <<tx_busy, on_line>>
Proceeds == (Quiet /\ (Ends \/ Goes)) \/ \E well \in BOOLEAN : Hears(well)

LINE == IF tx_fifo_pop THEN Quiet /\ Sends ELSE Proceeds

-----------------------------------------------------------------------------
(* The way in. The decoder pops in some cycles and not in others, and may
   refuse a frame at its END. tx_overflow, of a queue of its own design, is
   in `trouble` as in the code, and never asserts. *)

OverflowUnseen == trouble \/ rx_frame_error \/ counted            \* seeded fault
TroubleAfter == trouble \/ rx_frame_error \/ overflow \/ tx_overflow \/ counted

WayIn(slip_rx_pop, refused) ==
  /\ Push(rx_valid, rx_byte) /\ Pop(slip_rx_pop)
  /\ refused => slip_rx_pop /\ ~empty /\ rd_data = "END"
  /\ counted' = (counted \/ refused) /\ trouble' = TroubleAfter

\* Its reset: the queue is emptied, and a byte that comes while it lasts is lost.
ResetIn == Reset /\ counted' = FALSE /\ trouble' = FALSE

-----------------------------------------------------------------------------
(* A cycle of both boards, or of one while the other is in reset. *)

Sent == {<<>>} \cup {<<d>> : d \in Data}
Rest == IF taken' # <<>> /\ owed # <<>> THEN Tail(owed) ELSE owed
Landed == IF rx_valid THEN <<rx_byte>> ELSE <<>>
OnTheWay == Landed \o on_line

Cycle ==
  /\ ~held /\ LINE
  /\ \E sent \in Sent, slip_rx_pop, refused \in BOOLEAN :
       /\ WayOut(sent) /\ WayIn(slip_rx_pop, refused)
       /\ owed' = IF trouble' THEN <<>> ELSE Rest \o sent
  /\ UNCHANGED held

InHeld ==
  /\ LINE /\ ResetIn /\ \E sent \in Sent : WayOut(sent)
  /\ held' \in BOOLEAN
  /\ owed' = OnTheWay' \o Out!Contents'

OutHeld ==
  /\ ~held /\ ResetOut /\ Proceeds /\ WayIn(FALSE, FALSE)
  /\ owed' = IF trouble' THEN <<>> ELSE Contents' \o OnTheWay'
  /\ UNCHANGED held

SerialNext == Cycle \/ InHeld \/ OutHeld
SerialSpec == SerialInit /\ [][SerialNext]_serialVars

-----------------------------------------------------------------------------
\* No byte is lost, doubled or moved between encoder and decoder without
\* `trouble`: while neither the latch nor a pulse on its way to it says
\* otherwise, the two queues and the line hold what was pushed and not yet
\* popped. A reset of either end costs what its queue held and nothing else.
Telling == trouble \/ overflow \/ rx_frame_error
LossIsSeen == ~held /\ ~Telling => Contents \o OnTheWay \o Out!Contents = owed
=============================================================================
