-------------------------- MODULE MCCondTrieSerial --------------------------
(***************************************************************************)
(* CondTrieSerial with two facts and three decisions, whose join spills.   *)
(***************************************************************************)
EXTENDS CondTrieSerial

CONSTANTS f1, f2, d1, d2, d3

ThreeDecisions == {d1, d2, d3}
TwoFacts == {f1, f2}
SerialOffers == {{d1}, {d2}, {d1, d3}, Always}
=============================================================================
