----------------------------- MODULE MCCondTrie -----------------------------
(***************************************************************************)
(* CondTrie on a small instance: two facts in one shard of the side map,   *)
(* two decisions, whose join spills to Always.                             *)
(***************************************************************************)
EXTENDS CondTrieRefinement

CONSTANTS f1, f2, d1, d2, w1, w2

SpillDecisions == {d1, d2}
SpillOffers == {{d1}, {d2}, Always}
TwoFacts == {f1, f2}
OneShard == [f \in TwoFacts |-> 0]
=============================================================================
