------------------------------ MODULE OcaDesigns ------------------------------
(***************************************************************************)
(* The tables of run_synth.py: what each top is built with, and what its   *)
(* netlist must hold. Files are named without their `.sv`. Each        *)
(* design's seed and its bounds in seconds are left out.                   *)
(***************************************************************************)
EXTENDS Integers

ENGINE == {"chacha20", "poly1305", "chacha20_poly1305"}
CORE == ENGINE \cup {"oca_keystore", "oca_pktbuf", "oca_proto", "oca_core"}
SERIAL == {"oca_uart_rx", "oca_uart_tx8", "oca_fifo", "oca_slip_rx", "oca_slip_tx"}
CRYPTO_PLL ==
  CORE \cup SERIAL \cup {"ecp5_prims", "oca_clkrst", "oca_uart_crypto", "oca_crypto_pll"}

\* The designs without pins: characterised out of context.
OUT_OF_CONTEXT ==
  [chacha20 |-> {"chacha20"}, poly1305 |-> {"poly1305"}, chacha20_poly1305 |-> ENGINE,
   oca_core |-> CORE, oca_dual |-> CORE \cup {"oca_dual"},
   oca_slip_rx |-> {"oca_slip_rx"}, oca_slip_tx |-> {"oca_slip_tx"},
   oca_uart_crypto |-> CORE \cup SERIAL \cup {"oca_uart_crypto"}]

\* The designs with an .lpf: real pins, a timing verdict and a bitstream.
PINNED ==
  [oca_blink |-> {"oca_blink"},
   oca_uart_console |-> {"oca_uart_rx", "oca_uart_tx8", "oca_fifo", "oca_console",
                         "oca_uart_console"},
   oca_crypto_pll |-> CRYPTO_PLL,
   oca_crypto_dual |-> CORE \cup SERIAL \cup
     {"ecp5_prims", "oca_clkrst", "oca_dispatch", "oca_collect", "oca_uart_crypto_dual",
      "oca_crypto_dual"},
   oca_crypto_pll_50 |-> CRYPTO_PLL \cup {"oca_crypto_pll_50"},
   oca_uart_echo |-> {"oca_uart_rx", "oca_uart_tx8", "oca_uart_echo"},
   oca_uart_probe |-> {"oca_uart_tx", "oca_uart_probe"},
   oca_pll |-> {"ecp5_prims", "oca_clkrst", "oca_pll"},
   oca_vccio |-> {"oca_vccio"}]

\* What a design is elaborated from.
DESIGNS ==
  [t \in DOMAIN PINNED \cup DOMAIN OUT_OF_CONTEXT |->
     IF t \in DOMAIN PINNED THEN PINNED[t] ELSE OUT_OF_CONTEXT[t]]

Single == [oca_keystore |-> 2313, oca_proto |-> 3600, oca_uart_rx |-> 34, oca_uart_tx8 |-> 23,
           oca_fifo |-> 22, oca_slip_rx |-> 160, oca_slip_tx |-> 75, oca_uart_crypto |-> 6,
           oca_clkrst |-> 2, oca_crypto_pll |-> 32]

NETLIST_FF_FLOOR ==
  [oca_blink |-> [oca_blink |-> 25],
   oca_uart_probe |-> [oca_uart_probe |-> 27, oca_uart_tx |-> 52],
   oca_uart_echo |-> [oca_uart_rx |-> 32, oca_uart_tx8 |-> 22, oca_uart_echo |-> 1],
   oca_uart_console |-> [oca_uart_rx |-> 33, oca_uart_tx8 |-> 22, oca_fifo |-> 23,
                         oca_console |-> 145, oca_uart_console |-> 5],
   oca_pll |-> [oca_pll |-> 50, oca_clkrst |-> 2],
   oca_vccio |-> [oca_vccio |-> 27],
   oca_uart_crypto |-> [oca_keystore |-> 2313, oca_proto |-> 3600, oca_uart_rx |-> 33,
                        oca_uart_tx8 |-> 22, oca_fifo |-> 22, oca_slip_rx |-> 160,
                        oca_slip_tx |-> 75, oca_uart_crypto |-> 5],
   oca_crypto_pll |-> Single, oca_crypto_pll_50 |-> Single,
   oca_core |-> [oca_keystore |-> 2313, oca_proto |-> 3600],
   oca_dual |-> [oca_keystore |-> 4626, oca_proto |-> 7200],
   oca_crypto_dual |-> [oca_keystore |-> 4626, oca_proto |-> 7200, oca_uart_rx |-> 34,
                        oca_uart_tx8 |-> 23, oca_fifo |-> 40, oca_slip_rx |-> 160,
                        oca_slip_tx |-> 75, oca_dispatch |-> 6, oca_collect |-> 14,
                        oca_uart_crypto_dual |-> 6, oca_clkrst |-> 2, oca_crypto_dual |-> 32]]

NETLIST_FF_TOTAL ==
  [oca_core |-> 11900, oca_dual |-> 23800, oca_uart_crypto |-> 12400,
   oca_crypto_pll |-> 12400, oca_crypto_pll_50 |-> 12400,
   oca_slip_rx |-> 302, oca_slip_tx |-> 75, oca_crypto_dual |-> 24400]

\* Of the one primitive that is counted, EHXPLLL.
NETLIST_PRIM_COUNT ==
  [oca_pll |-> 1, oca_crypto_pll |-> 1, oca_crypto_dual |-> 1, oca_crypto_pll_50 |-> 1]

PLL_INPUT_HZ == 25000000
Shipping == [CLKI_DIV |-> 1, CLKFB_DIV |-> 5, CLKOP_DIV |-> 5, CLKOS_DIV |-> 13]
NETLIST_PLL_PARAMS ==
  [oca_pll |-> Shipping, oca_crypto_pll |-> Shipping, oca_crypto_dual |-> Shipping,
   oca_crypto_pll_50 |-> [CLKI_DIV |-> 1, CLKFB_DIV |-> 5, CLKOP_DIV |-> 4, CLKOS_DIV |-> 10]]

\* The tops whose copy of clk_sys is compared; for oca_pll the table says None.
TOP_CLK_SYS_CONST == {"oca_crypto_pll", "oca_crypto_dual", "oca_crypto_pll_50"}
=============================================================================
