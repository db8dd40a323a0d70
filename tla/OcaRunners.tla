------------------------------ MODULE OcaRunners ------------------------------
(***************************************************************************)
(* The run_*.py of hw/sim, each as the sequence of steps its main takes.   *)
(* A step that fails raises and ends the program. Files are named without  *)
(* their `.sv`.                                                            *)
(*                                                                         *)
(*  guard     elaborate outside the simulator: legal values are accepted   *)
(*            and refused ones refused, by the guard's own message where   *)
(*            `named`; exit 1 otherwise                                    *)
(*  map       yosys makes cells of one module                              *)
(*  setenv    tell the testbench the parameter it is built with            *)
(*  build     Verilator, into a directory, always from scratch             *)
(*  unlink    results.xml goes, a stale file is never graded               *)
(*  simulate  run the tests, which leave results.xml                       *)
(*  grade     failed_tests: count the red ones; none at all is an error    *)
(*  verdict   exit 1 if any was red                                        *)
(***************************************************************************)
EXTENDS OcaDesigns, Sequences

Default == 0          \* a parameter left as it is
Untold == 99          \* a testbench that reads no variable
Guard(names, named) == <<[do |-> "guard", names |-> names, named |-> named]>>
Map(mod) == <<[do |-> "map", mod |-> mod]>>
SetEnv(value) == <<[do |-> "setenv", value |-> value]>>
Verdict == <<[do |-> "verdict"]>>
Model(top, files, dir, value) ==
  [top |-> top, files |-> files, cells |-> {}, mutated |-> {}, dir |-> dir, value |-> value]
Suite(model, bench) ==
  <<[do |-> "build", model |-> model], [do |-> "unlink"],
    [do |-> "simulate", dir |-> model.dir, bench |-> bench], [do |-> "grade"]>>
Plain(top, files, dir) == Suite(Model(top, files, dir, Default), Untold) \o Verdict

run_fifo == Plain("oca_fifo", {"oca_fifo"}, "fifo")
run_slip_tx == Plain("oca_slip_tx", {"oca_slip_tx"}, "slip_tx")
run_console == Plain("oca_console", {"oca_console"}, "console")
run_uart_rx == Plain("oca_uart_rx", {"oca_uart_rx"}, "uart_rx")
run_uart_echo ==
  Plain("oca_uart_echo", {"oca_uart_rx", "oca_uart_tx8", "oca_uart_echo"}, "uart_echo")
run_uart_console ==
  Plain("oca_uart_console",
        {"oca_uart_rx", "oca_uart_tx8", "oca_fifo", "oca_console", "oca_uart_console"},
        "uart_console")
run_keystore == Plain("oca_keystore", {"oca_keystore"}, "keystore")
run_chacha20_poly1305 == Plain("chacha20_poly1305", ENGINE, "aead")
run_dirty_pad == Plain("chacha20_poly1305", ENGINE, "dirty_pad")
run_secret_zeroise == Plain("chacha20_poly1305", ENGINE, "secret_zeroise")
run_oca_core == Plain("oca_core", CORE, "core")
run_aead_cycles == Plain("oca_core", CORE, "aead_cycles")
run_attack == Plain("oca_core", CORE, "attack")
forgets_keystore ==                            \* seeded fault: a file not listed
  Plain("oca_uart_crypto", (CORE \ {"oca_keystore"}) \cup SERIAL \cup {"oca_uart_crypto"},
        "uart_crypto")
run_uart_crypto ==
  Plain("oca_uart_crypto", CORE \cup SERIAL \cup {"oca_uart_crypto"}, "uart_crypto")
run_uart_crypto_dual ==
  Plain("oca_uart_crypto_dual",
        CORE \cup SERIAL \cup {"oca_dispatch", "oca_collect", "oca_uart_crypto_dual"},
        "uart_crypto_dual")

\* The message is a parameter of the build, and the testbench holds a copy.
run_uart_tx ==
  Suite(Model("oca_uart_tx", {"oca_uart_tx"}, "uart_tx", 17), Untold) \o Verdict

\* LED_BITS: the testbench reads what the build is told.
run_crypto_pll ==
  SetEnv(8)
  \o Suite(Model("oca_crypto_pll", CORE \cup SERIAL \cup
                   {"ecp5_prims", "oca_clkrst", "oca_uart_crypto", "oca_crypto_pll"},
                 "crypto_pll", 8), 8)
  \o Verdict

\* The parameter selects the datapath; the suite runs once for each value.
run_chacha20 ==
  Suite(Model("chacha20", {"chacha20"}, "", 1), Untold)
  \o Suite(Model("chacha20", {"chacha20"}, "_r2", 2), Untold) \o Verdict
run_poly1305 ==
  Suite(Model("poly1305", {"poly1305"}, "poly", 1), Untold)
  \o Suite(Model("poly1305", {"poly1305"}, "poly_r5", 5), Untold) \o Verdict

\* BYTES, at the shipping size and at a small one, told through the environment.
\* Of the guards only the exit code is read.
pktbuf_run_at_quiet(nbytes, dir) ==            \* seeded fault: the bench not told
  Suite(Model("oca_pktbuf", {"oca_pktbuf"}, dir, nbytes), nbytes)
pktbuf_run_at(nbytes, dir) ==
  SetEnv(nbytes) \o Suite(Model("oca_pktbuf", {"oca_pktbuf"}, dir, nbytes), nbytes)
run_pktbuf ==
  Guard({"pktbuf.BYTES"}, FALSE)
  \o pktbuf_run_at(2048, "pktbuf") \o pktbuf_run_at(16, "pktbuf_small") \o Verdict
slip_rx_run_at(nbytes, dir) ==
  SetEnv(nbytes) \o Suite(Model("oca_slip_rx", {"oca_slip_rx"}, dir, nbytes), nbytes)
run_slip_rx ==
  Guard({"slip_rx.BYTES", "slip_rx.MIN_BYTES"}, FALSE)
  \o slip_rx_run_at(2048, "slip_rx") \o slip_rx_run_at(64, "slip_rx_small") \o Verdict

\* The guards of oca_clkrst: three on values, three on what they come to.
GUARDS == {"RST_SYNC_STAGES", "PHY_RST_MS", "PHY_WAIT_US"}
DIVIDER_REFUSE == {"VCO", "phase detector", "clk_tx"}
ByExitCode == FALSE                            \* seeded fault: refused is enough
ByOwnMessage == TRUE
run_clkrst ==
  Guard(GUARDS \cup DIVIDER_REFUSE, ByOwnMessage)
  \o Plain("oca_clkrst", {"ecp5_prims", "oca_clkrst"}, "clkrst")

\* The same tests on the mapped netlist: the module arrives as cells.
run_keystore_gate ==
  Map("oca_keystore")
  \o Suite([Model("oca_keystore", {}, "keystore_gate", Default) EXCEPT
              !.cells = {"oca_keystore"}], Untold) \o Verdict
run_proto_gate ==
  Map("oca_proto")
  \o Suite([Model("oca_core", CORE \ {"oca_proto"}, "proto_gate", Default) EXCEPT
              !.cells = {"oca_proto"}], Untold) \o Verdict

\* The fabric, from the tree or with some files shadowed by an override, which
\* builds in a directory of its own; an override that shadows nothing is a
\* mistake. Divergence is asked for or not, whatever the environment says.
Fabric == CORE \cup {"oca_fifo", "oca_dispatch", "oca_collect", "oca_dual_harness"}
one_dir(shadowed) == "dual_fabric"             \* seeded fault: one build directory
build_dir(shadowed) == IF shadowed = {} THEN "dual_fabric" ELSE "dual_fabric_mut"
Divergent(asked) == IF asked THEN 1 ELSE 0
run_dual_fabric(given, override, divergent) ==
  LET shadowed == override \cap Fabric
  IN  IF given /\ shadowed = {} THEN <<[do |-> "exit", code |-> 2]>>
      ELSE SetEnv(Divergent(divergent))
           \o Suite([Model("oca_dual_harness", Fabric, build_dir(shadowed), Default)
                       EXCEPT !.mutated = shadowed], Divergent(divergent))
           \o Verdict
=============================================================================
