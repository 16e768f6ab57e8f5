----------------------------- MODULE CondStore ------------------------------
(***************************************************************************)
(* One version of a relation kept as a lattice on its condition: the store *)
(* of index_engine/cond_trie.rs, and of c_cond_trie.rs as the merge, which *)
(* runs alone, uses it. A fact is the five columns. The Always rows are in *)
(* the trie; the conditional rows are leaves of a side map. Both halves    *)
(* keep a row count, and the code tests the counts where it would be       *)
(* enough to test the maps.                                                *)
(***************************************************************************)
EXTENDS Decision

CONSTANT Fact

\* A fact is a row of interned ids, which are machine words.
ASSUME FactAssumption == IsFiniteSet(Fact)

Store(always, leaf, alen, clen) ==
    [always |-> always, leaf |-> leaf, alen |-> alen, clen |-> clen]

Empty == Store({}, [f \in Fact |-> NoCond], 0, 0)

\* The facts with a leaf in the side map.
Leaves(st) == {f \in Fact : st.leaf[f] # NoCond}

\* cond_at.
CondAt(st, f) ==
    IF f \in st.always THEN Always
    ELSE IF st.clen = 0 THEN NoCond
    ELSE st.leaf[f]

\* contains_key: existence is coverage.
ContainsKey(st, f, c) == CondAt(st, f) # NoCond /\ Covers(CondAt(st, f), c)

\* The trie's insert.
TrieInsert(st, f) ==
    IF f \in st.always THEN st
    ELSE Store(st.always \cup {f}, st.leaf, st.alen + 1, st.clen)

\* Mutant of Insert: a fact's first leaf is not counted.
InsertUncounted(st, f, c) ==
    LET joined == JoinCond(st.leaf[f], c)
    IN  IF c = Always THEN TrieInsert(st, f)
        ELSE IF f \in st.always THEN st
        ELSE IF st.leaf[f] = NoCond
        THEN Store(st.always, [st.leaf EXCEPT ![f] = c], st.alen, st.clen)
        ELSE IF joined = Always
        THEN TrieInsert(Store(st.always, [st.leaf EXCEPT ![f] = NoCond], st.alen, st.clen - 1), f)
        ELSE Store(st.always, [st.leaf EXCEPT ![f] = joined], st.alen, st.clen)

\* insert, which joins c into the fact's condition.
Insert(st, f, c) ==
    LET joined == JoinCond(st.leaf[f], c)
    IN  IF c = Always THEN TrieInsert(st, f)
        ELSE IF f \in st.always THEN st
        ELSE IF st.leaf[f] = NoCond
        THEN Store(st.always, [st.leaf EXCEPT ![f] = c], st.alen, st.clen + 1)
        ELSE IF joined = Always
        THEN TrieInsert(Store(st.always, [st.leaf EXCEPT ![f] = NoCond], st.alen, st.clen - 1), f)
        ELSE Store(st.always, [st.leaf EXCEPT ![f] = joined], st.alen, st.clen)

\* Mutant of Grows: only a join into an existing row counts as growth.
GrowsByJoinOnly(st, f, c) ==
    IF c = Always THEN f \notin st.always
    ELSE /\ f \notin st.always /\ st.leaf[f] # NoCond
         /\ JoinCond(st.leaf[f], c) # st.leaf[f]

\* What insert returns: whether the store's condition for the fact grew.
Grows(st, f, c) ==
    IF c = Always THEN f \notin st.always
    ELSE /\ f \notin st.always
         /\ st.leaf[f] = NoCond \/ JoinCond(st.leaf[f], c) # st.leaf[f]

\* absorb, which empties `from`. First the leaves that from makes
\* unconditional go; then the tries are united; then each leaf of from is
\* inserted, and inserts of different facts do not meet.
DropUnconditional(st, from) ==
    IF st.clen = 0 \/ from.alen = 0 THEN st
    ELSE LET gone == Leaves(st) \cap from.always
         IN  Store(st.always, [f \in Fact |-> IF f \in gone THEN NoCond ELSE st.leaf[f]],
                   st.alen, st.clen - Cardinality(gone))

UniteTries(st, from) ==
    Store(st.always \cup from.always, st.leaf,
          st.alen + Cardinality(from.always \ st.always), st.clen)

InsertLeaves(st, from) ==
    LET rows == {f \in Leaves(from) : f \notin st.always}
        joined == [f \in Fact |-> IF f \in rows THEN Add(st.leaf[f], from.leaf[f])
                                                ELSE st.leaf[f]]
        spilled == {f \in rows : joined[f] = Always}
    IN  Store(st.always \cup spilled,
              [f \in Fact |-> IF f \in spilled THEN NoCond ELSE joined[f]],
              st.alen + Cardinality(spilled),
              st.clen + Cardinality(rows \ Leaves(st)) - Cardinality(spilled))

Absorb(st, from) == InsertLeaves(UniteTries(DropUnconditional(st, from), from), from)

\* Mutant of Refine: delta carries only the part that is new.
RefineNoJoin(st, total) ==
    LET held(f) == IF f \in st.always THEN Always ELSE CondAt(total, f)
        kept == {f \in Leaves(st) : held(f) = NoCond \/ ~Covers(held(f), st.leaf[f])}
    IN  IF st.clen = 0 THEN st
        ELSE Store(st.always, [f \in Fact |-> IF f \in kept THEN st.leaf[f] ELSE NoCond],
                   st.alen, Cardinality(kept))

\* refine: the rows found this iteration become the next delta. A leaf that
\* the store's own trie or `total` covers is dropped; the rest carry their
\* join with what total holds.
Refine(st, total) ==
    LET held(f) == IF f \in st.always THEN Always ELSE CondAt(total, f)
        kept == {f \in Leaves(st) : held(f) = NoCond \/ ~Covers(held(f), st.leaf[f])}
        joined == [f \in kept |-> Add(st.leaf[f], held(f))]
        spilled == {f \in kept : joined[f] = Always}
    IN  IF st.clen = 0 THEN st
        ELSE Store(st.always \cup spilled,
                   [f \in Fact |-> IF f \in kept \ spilled THEN joined[f] ELSE NoCond],
                   st.alen + Cardinality(spilled \ st.always),
                   st.clen - Cardinality(Leaves(st) \ (kept \ spilled)))
=============================================================================
