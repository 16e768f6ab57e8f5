------------------------- MODULE CondTrieRefinement -------------------------
(***************************************************************************)
(* CondTrie implements LatticeRel: inserts are linearizable. An Always     *)
(* insert takes effect when it reaches the trie; a conditional one at its  *)
(* trie check, unless its join spills: that one takes effect when it       *)
(* reaches the trie.                                                       *)
(***************************************************************************)
EXTENDS CondTrie

Decided(w) == pc[w] = "join" /\ Add(new.leaf[fact(w)], cond(w)) # Always

Found(f) ==
    IF f \in new.always THEN Always
    ELSE IF \E w \in Worker : Decided(w) /\ fact(w) = f
    THEN Add(new.leaf[f], cond(CHOOSE w \in Worker : Decided(w) /\ fact(w) = f))
    ELSE IF \E w \in Worker : pc[w] = "spill" /\ fact(w) = f
    THEN saved[CHOOSE w \in Worker : pc[w] = "spill" /\ fact(w) = f]
    ELSE new.leaf[f]

Pending(w) == pc[w] \in {"trie", "entry", "check", "join", "spill"} /\ ~Decided(w)

Outcome(w) ==
    IF Decided(w) THEN <<Add(new.leaf[fact(w)], cond(w)) # new.leaf[fact(w)]>>
    ELSE IF pc[w] = "clen" THEN <<TRUE>>
    ELSE IF pc[w] \in {"alen", "spillalen", "uncount", "return"} THEN <<result[w]>>
    ELSE <<>>

\* The values of LatticeRel's variables.
knownR == [f \in Fact |-> Known(f)]
deltaR == {f \in Fact : CondAt(delta, f) # NoCond}
foundR == [f \in Fact |-> Found(f)]
offerR == [w \in Worker |-> IF Pending(w) THEN arg[w] ELSE <<>>]
grewR == [w \in Worker |-> Outcome(w)]

Rel == INSTANCE LatticeRel WITH
    known <- knownR, delta <- deltaR, found <- foundR, offer <- offerR, grew <- grewR

\* The stores implement the abstract relation: an insert joins at one instant
\* and reports growth to exactly the thread whose join grew the fact, and the
\* merge makes known what was found.
ImplementsRel == Rel!Spec
=============================================================================
