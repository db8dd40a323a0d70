----------------------------- MODULE MCOcaRunner -----------------------------
(* Every runner beside one of a few, with all the guards or one of them gone. *)
EXTENDS OcaRunner

Fabrics ==
  {run_dual_fabric(FALSE, {}, FALSE), run_dual_fabric(TRUE, {"oca_collect"}, FALSE),
   run_dual_fabric(TRUE, {"oca_dual_harness"}, TRUE), run_dual_fabric(TRUE, {"readme"}, FALSE)}
All ==
  Fabrics \cup
  {run_fifo, run_slip_tx, run_console, run_uart_rx, run_uart_echo, run_uart_console,
   run_keystore, run_chacha20_poly1305, run_dirty_pad, run_secret_zeroise, run_oca_core,
   run_aead_cycles, run_attack, run_uart_crypto, run_uart_crypto_dual, run_uart_tx,
   run_crypto_pll, run_chacha20, run_poly1305, run_pktbuf, run_slip_rx, run_clkrst,
   run_keystore_gate, run_proto_gate}
Asked2(p) == IF p = "p1" THEN All ELSE Fabrics \cup {run_fifo}

Every == {"pktbuf.BYTES", "slip_rx.BYTES", "slip_rx.MIN_BYTES"} \cup GUARDS \cup DIVIDER_REFUSE
AllButOne == {Every} \cup {Every \ {g} : g \in {"pktbuf.BYTES", "RST_SYNC_STAGES", "VCO"}}
\* One flop makes sync_sys[-1:0] a slice that -Wall rejects on its own.
SliceRejected == {"RST_SYNC_STAGES"}
TwoRunners == {"p1", "p2"}
StaleValues == {Untold, 1}
=============================================================================
