----------------------------- MODULE MCOcaSynth -----------------------------
(* Three tops of the table, and what the tools may make of them. *)
EXTENDS OcaSynth

\* Everything listed, no pins, pins and a floor only.
ThreeTops == {"oca_crypto_dual", "oca_core", "oca_blink"}
DualOnly == {"oca_crypto_dual"}

Flops(src, n) == [src |-> src, n |-> n, held |-> FALSE]
\* The census of a healthy build: the floors, what is over them in oca_proto,
\* and the engine, of which some registers are attributed to two files.
Healthy(t) ==
  {Flops({f}, NETLIST_FF_FLOOR[t][f]) : f \in DOMAIN NETLIST_FF_FLOOR[t] \ {"oca_proto"}}
  \cup (IF "oca_proto" \notin DOMAIN NETLIST_FF_FLOOR[t] THEN {}
        ELSE LET k == NETLIST_FF_FLOOR[t].oca_proto \div 3600
             IN {Flops({"oca_proto"}, 3700 * k), Flops({"poly1305"}, 1789 * k),
                 Flops({"poly1305", "chacha20_poly1305"}, 2000 * k),
                 Flops({"chacha20"}, 2300 * k)})
Good(t) ==
  [flops |-> Healthy(t),
   plls |-> IF t \in DOMAIN NETLIST_PLL_PARAMS THEN <<NETLIST_PLL_PARAMS[t]>> ELSE <<>>]
Lost(t, files) ==
  [Good(t) EXCEPT !.flops = {IF g.src = files THEN [g EXCEPT !.held = TRUE] ELSE g : g \in @}]
Mapped(t) ==
  {Good(t), Lost(t, {"oca_keystore"}), Lost(t, {"poly1305"}), Lost(t, {"oca_blink"})}
  \cup (IF Good(t).plls = <<>> THEN {} ELSE {[Good(t) EXCEPT !.plls[1].CLKOS_DIV = 11]})
GoodOnly(t) == {Good(t)}

Clock(name, met) == [name |-> name, met |-> met]
Report(sys, pad, nets) ==
  [clocks |-> {Clock(<<"glb", "clk_sys">>, sys), Clock(<<"clk25", "io">>, pad)},
   real |-> {<<n>> : n \in nets}]
Reported ==
  {Report(TRUE, TRUE, {"clk_sys", "clk25"}), Report(TRUE, FALSE, {"clk_sys", "clk25"}),
   Report(FALSE, TRUE, {"clk25"}), Report(TRUE, TRUE, {})}
MetOnly == {Report(TRUE, TRUE, {"clk_sys", "clk25"})}

TwoConstants == {48076923, 50000000}
Everything == {"late", "killed", "edited"}
EditedOnly == {"edited"}
=============================================================================
