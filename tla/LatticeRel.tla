----------------------------- MODULE LatticeRel -----------------------------
(***************************************************************************)
(* What a relation of the index promises the rules that fill it: a fact    *)
(* holds under the join of the conditions it was derived under. An offer   *)
(* that the known condition covers is dropped; any other joins into what   *)
(* this iteration found, at one instant, and learns whether that grew. The *)
(* end of an iteration joins what was found into what is known, and the    *)
(* facts it found are the next iteration's delta.                          *)
(***************************************************************************)
EXTENDS Decision

CONSTANTS Fact, Worker, Offers

VARIABLES
    known,   \* the condition each fact is known to hold under
    delta,   \* the facts whose condition changed in the last iteration
    found,   \* the join of this iteration's conditions for each fact
    offer,   \* the <<fact, condition>> each worker has not joined yet, or <<>>
    grew,    \* what a worker's join did, until it has returned: <<>> or <<b>>
    rows     \* the rows counted, one for every join that grew

vars == <<known, delta, found, offer, grew, rows>>

Init ==
    /\ known \in [Fact -> {Always, NoCond}]
    /\ delta = {f \in Fact : known[f] # NoCond}
    /\ found = [f \in Fact |-> NoCond]
    /\ offer = [w \in Worker |-> <<>>]
    /\ grew = [w \in Worker |-> <<>>]
    /\ rows = 0

Offer(w, f, c) ==
    /\ offer[w] = <<>> /\ grew[w] = <<>>
    /\ known[f] = NoCond \/ ~Covers(known[f], c)
    /\ offer' = [offer EXCEPT ![w] = <<f, c>>]
    /\ UNCHANGED <<known, delta, found, grew, rows>>

Join(w) ==
    /\ offer[w] # <<>>
    /\ LET f == offer[w][1]
           joined == Add(found[f], offer[w][2])
       IN  /\ grew' = [grew EXCEPT ![w] = <<joined # found[f]>>]
           /\ found' = [found EXCEPT ![f] = joined]
    /\ offer' = [offer EXCEPT ![w] = <<>>]
    /\ UNCHANGED <<known, delta, rows>>

Return(w) ==
    /\ grew[w] # <<>>
    /\ grew' = [grew EXCEPT ![w] = <<>>]
    /\ rows' = IF grew[w][1] THEN rows + 1 ELSE rows
    /\ UNCHANGED <<known, delta, found, offer>>

Merge ==
    /\ \A w \in Worker : offer[w] = <<>> /\ grew[w] = <<>>
    /\ known' = [f \in Fact |-> Add(known[f], found[f])]
    /\ delta' = {f \in Fact : found[f] # NoCond}
    /\ found' = [f \in Fact |-> NoCond]
    /\ UNCHANGED <<offer, grew, rows>>

Next ==
    \/ \E w \in Worker : \/ \E f \in Fact, c \in Offers : Offer(w, f, c)
                         \/ Join(w)
                         \/ Return(w)
    \/ Merge

Spec == Init /\ [][Next]_vars
=============================================================================
