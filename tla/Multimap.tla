------------------------------ MODULE Multimap ------------------------------
(***************************************************************************)
(* What the maps of the LSM promise their users: a map holds the values    *)
(* put into it, each as often as it was put; absorbing a map moves every   *)
(* value of it over and leaves it empty; clearing a map empties it. A      *)
(* fault loses values of one map, or the process and with it all maps. An  *)
(* Item is one put of one value under one key.                             *)
(***************************************************************************)
EXTENDS Naturals

CONSTANTS Map, Item

VARIABLES contents, inserted, faults

vars == <<contents, inserted, faults>>

Init ==
    /\ contents = [m \in Map |-> {}]
    /\ inserted = {} /\ faults = 0

Insert(m, i) ==
    /\ i \notin inserted
    /\ inserted' = inserted \cup {i}
    /\ contents' = [contents EXCEPT ![m] = @ \cup {i}]
    /\ UNCHANGED faults

Absorb(m, o) ==
    /\ m # o
    /\ contents' = [contents EXCEPT ![m] = @ \cup contents[o], ![o] = {}]
    /\ UNCHANGED <<inserted, faults>>

Clear(m) ==
    /\ contents' = [contents EXCEPT ![m] = {}]
    /\ UNCHANGED <<inserted, faults>>

Fail(m) ==
    /\ \E kept \in SUBSET contents[m] : contents' = [contents EXCEPT ![m] = kept]
    /\ faults' = faults + 1
    /\ UNCHANGED inserted

Die ==
    /\ contents' = [m \in Map |-> {}]
    /\ faults' = faults + 1
    /\ UNCHANGED inserted

Next ==
    \/ \E m \in Map : \/ \E i \in Item : Insert(m, i)
                      \/ \E o \in Map : Absorb(m, o)
                      \/ Clear(m) \/ Fail(m)
    \/ Die

Spec == Init /\ [][Next]_vars
=============================================================================
