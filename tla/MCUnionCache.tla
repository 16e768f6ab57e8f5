---------------------------- MODULE MCUnionCache ----------------------------
(***************************************************************************)
(* UnionCache with two threads and two keys that share the slot.           *)
(***************************************************************************)
EXTENDS UnionCache, TLC

CONSTANTS t1, t2

ThreadSymmetry == Permutations({t1, t2})
TwoKeys == {1, 2}
TheirResults == [q \in TwoKeys |-> 10 + q]
=============================================================================
