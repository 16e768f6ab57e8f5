--------------------------- MODULE CondTrieSerial ---------------------------
(***************************************************************************)
(* The conditional relations of the serial index engine: the store of      *)
(* index_engine/cond_trie.rs under Ascent's fixpoint loop on one thread.   *)
(* It makes the same promise as the parallel twin, CondTrie.               *)
(***************************************************************************)
EXTENDS CondStore, SequencesExt

CONSTANTS Offers, Thread

VARIABLES
    total, delta, new,
    row,        \* the row a rule derived and that is about to be inserted
    grown,      \* what its insert returned
    rows,       \* CountingVec
    changed, running

vars == <<total, delta, new, row, grown, rows, changed, running>>

Init ==
    /\ total = Empty
    /\ new = Empty
    /\ \E seed \in SUBSET Fact : delta = Store(seed, Empty.leaf, Cardinality(seed), 0)
    /\ row = <<>>
    /\ grown = <<>>
    /\ rows = 0
    /\ changed = FALSE
    /\ running = TRUE

\* A rule derives a row that neither total nor delta covers.
Derive(f, c) ==
    /\ running /\ row = <<>> /\ grown = <<>>
    /\ ~ContainsKey(total, f, c) /\ ~ContainsKey(delta, f, c)
    /\ row' = <<f, c>>
    /\ UNCHANGED <<total, delta, new, grown, rows, changed, running>>

InsertIfNotPresent ==
    /\ row # <<>>
    /\ new' = Insert(new, row[1], row[2])
    /\ grown' = <<Grows(new, row[1], row[2])>>
    /\ row' = <<>>
    /\ UNCHANGED <<total, delta, rows, changed, running>>

Count ==
    /\ grown # <<>>
    /\ rows' = IF grown[1] THEN rows + 1 ELSE rows
    /\ changed' = (changed \/ grown[1])
    /\ grown' = <<>>
    /\ UNCHANGED <<total, delta, new, row, running>>

Merge ==
    /\ running /\ row = <<>> /\ grown = <<>>
    /\ total' = Absorb(total, delta)
    /\ delta' = Refine(new, total')
    /\ new' = Empty
    /\ running' = changed
    /\ changed' = FALSE
    /\ UNCHANGED <<row, grown, rows>>

Fixpoint == ~running /\ UNCHANGED vars

Next ==
    \/ \E f \in Fact, c \in Offers : Derive(f, c)
    \/ InsertIfNotPresent \/ Count \/ Merge \/ Fixpoint

Spec == Init /\ [][Next]_vars

-----------------------------------------------------------------------------
\* absorb drains delta's leaves in the order of a hash map, and each insert
\* tests and updates the counts: the order makes no difference to the store.
DrainOrderFree ==
    LET united == UniteTries(DropUnconditional(total, delta), delta)
        put(st, f) == Insert(st, f, delta.leaf[f])
    IN  \A order \in SetToSeqs(Leaves(delta)) :
            FoldLeft(put, united, order) = Absorb(total, delta)

Rel == INSTANCE LatticeRel WITH
    Worker <- {Thread},
    known <- [f \in Fact |-> IF CondAt(delta, f) # NoCond THEN CondAt(delta, f)
                             ELSE CondAt(total, f)],
    delta <- {f \in Fact : CondAt(delta, f) # NoCond},
    found <- [f \in Fact |-> CondAt(new, f)],
    offer <- [t \in {Thread} |-> row],
    grew <- [t \in {Thread} |-> grown]

\* The serial store keeps the lattice relation's promise: insert reports
\* growth exactly when the join grew, and the merge joins across versions.
SerialImplementsRel == Rel!Spec
=============================================================================
