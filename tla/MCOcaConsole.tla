---------------------------- MODULE MCOcaConsole ----------------------------
(* One subcommand of each kind, and what is left on the line between them. *)
EXTENDS OcaConsole

Kinds == {"seal", "bench-pair", "selftest"}
\* The ids of the second process are those of the first moved by one: some of
\* its requests have the number of a late reply, some its opcode, some both.
OneSeed == {1}
SomeFault == {"lost", "cut", "short", "death"}
=============================================================================
