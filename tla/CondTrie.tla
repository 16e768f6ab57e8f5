------------------------------ MODULE CondTrie ------------------------------
(***************************************************************************)
(* The conditional relations of the parallel index engine: the store of    *)
(* index_engine/c_cond_trie.rs over the trie of c_locals_trie.rs, filled   *)
(* by the rayon threads that Ascent runs the rules on.                     *)
(*                                                                         *)
(* During an iteration the stores total and delta are frozen and only      *)
(* read, and every thread inserts into new. A step here is what happens    *)
(* under one lock of the trie's map, or between two steps of a thread that *)
(* holds a lock of the side map. The merge runs alone. The rules are       *)
(* anything: they may derive any fact under any condition of Offers.       *)
(***************************************************************************)
EXTENDS CondStore

CONSTANTS
    Worker,     \* the threads that evaluate rules
    Nobody,     \* the holder of a free lock
    Offers,     \* the conditions the rules derive facts under
    SideShard   \* the shard of the side map that has a fact's group

ASSUME CondTrieAssumption ==
    /\ Nobody \notin Worker
    /\ IsFiniteSet(Worker)
    /\ Offers \subseteq Cond \ {{}}

VARIABLES
    total, delta, new,
    lock,       \* the holder of each shard of the side map
    pc, arg,    \* where each thread is in insert, and the row it inserts
    result,     \* what its insert returns
    rows,       \* CCountingVec: the rows Ascent counted
    changed,    \* Ascent's flag: some insert of this iteration grew new
    running,    \* the fixpoint loop has not ended
    offered,    \* history: the conditions each fact was derived under
    saved       \* history: the leaf a join that spilled took out

stores == <<total, delta, new>>
vars == <<stores, lock, pc, arg, result, rows, changed, running, offered, saved>>

fact(w) == arg[w][1]
cond(w) == arg[w][2]
shard(w) == SideShard[fact(w)]

\* The SCC starts with the rows of earlier SCCs, or the seed rows, in delta.
Init ==
    /\ total = Empty
    /\ new = Empty
    /\ \E seed \in SUBSET Fact :
         /\ delta = Store(seed, Empty.leaf, Cardinality(seed), 0)
         /\ offered = [f \in Fact |-> IF f \in seed THEN {Always} ELSE {}]
    /\ lock = [s \in {SideShard[f] : f \in Fact} |-> Nobody]
    /\ pc = [w \in Worker |-> "idle"]
    /\ arg = [w \in Worker |-> <<>>]
    /\ result = [w \in Worker |-> FALSE]
    /\ rows = 0
    /\ changed = FALSE
    /\ running = TRUE
    /\ saved = [w \in Worker |-> NoCond]

Goto(w, label) == pc' = [pc EXCEPT ![w] = label]
Yield(w, b) == result' = [result EXCEPT ![w] = b]
SetNew(always, leaf, alen, clen) == new' = Store(always, leaf, alen, clen)
SetLeaf(f, c) == SetNew(new.always, [new.leaf EXCEPT ![f] = c], new.alen, new.clen)
Release(w) == lock' = [lock EXCEPT ![shard(w)] = Nobody]

-----------------------------------------------------------------------------
\* Mutant of Derive: only total is asked whether it covers the row.
DeriveTotalOnly(w, f, c) ==
    /\ running
    /\ pc[w] = "idle"
    /\ offered' = [offered EXCEPT ![f] = @ \cup {c}]
    /\ IF ContainsKey(total, f, c)
       THEN UNCHANGED <<pc, arg>>
       ELSE /\ Goto(w, IF c = Always THEN "trie" ELSE "entry")
            /\ arg' = [arg EXCEPT ![w] = <<f, c>>]
    /\ UNCHANGED <<stores, lock, result, rows, changed, running, saved>>

\* A rule derives fact f under c. The row is dropped if total or delta covers
\* it; otherwise insert_if_not_present is called on new.
Derive(w, f, c) ==
    /\ running
    /\ pc[w] = "idle"
    /\ offered' = [offered EXCEPT ![f] = @ \cup {c}]
    /\ IF ContainsKey(total, f, c) \/ ContainsKey(delta, f, c)
       THEN UNCHANGED <<pc, arg>>
       ELSE /\ Goto(w, IF c = Always THEN "trie" ELSE "entry")
            /\ arg' = [arg EXCEPT ![w] = <<f, c>>]
    /\ UNCHANGED <<stores, lock, result, rows, changed, running, saved>>

\* An Always row goes into the trie, under the lock of the trie's shard,
\* and the trie's length follows once the lock is released.
AlwaysInsert(w) ==
    /\ pc[w] = "trie"
    /\ IF fact(w) \in new.always
       THEN Goto(w, "return") /\ Yield(w, FALSE) /\ UNCHANGED new
       ELSE /\ SetNew(new.always \cup {fact(w)}, new.leaf, new.alen, new.clen)
            /\ Goto(w, "alen") /\ Yield(w, TRUE)
    /\ UNCHANGED <<total, delta, lock, arg, rows, changed, running, offered, saved>>

AlwaysCount(w) ==
    /\ pc[w] = "alen"
    /\ SetNew(new.always, new.leaf, new.alen + 1, new.clen)
    /\ Goto(w, "return")
    /\ UNCHANGED <<total, delta, lock, arg, result, rows, changed, running, offered, saved>>

\* A conditional row takes its group's entry, which locks the side map's shard.
LockEntry(w) ==
    /\ pc[w] = "entry"
    /\ lock[shard(w)] = Nobody
    /\ lock' = [lock EXCEPT ![shard(w)] = w]
    /\ Goto(w, "check")
    /\ UNCHANGED <<stores, arg, result, rows, changed, running, offered, saved>>

\* Mutant of CheckTrie: a conditional row that meets an Always row starts over.
CheckTrieRetries(w) ==
    /\ pc[w] = "check"
    /\ IF fact(w) \in new.always
       THEN Goto(w, "entry") /\ UNCHANGED result /\ Release(w)
       ELSE Goto(w, "join") /\ UNCHANGED <<result, lock>>
    /\ UNCHANGED <<stores, arg, rows, changed, running, offered, saved>>

\* The trie check: an Always row for the fact means no growth.
CheckTrie(w) ==
    /\ pc[w] = "check"
    /\ IF fact(w) \in new.always
       THEN Goto(w, "return") /\ Yield(w, FALSE) /\ Release(w)
       ELSE Goto(w, "join") /\ UNCHANGED <<result, lock>>
    /\ UNCHANGED <<stores, arg, rows, changed, running, offered, saved>>

\* The first leaf of a fact; its count follows under the lock.
NewLeaf(w) ==
    /\ pc[w] = "join"
    /\ new.leaf[fact(w)] = NoCond
    /\ SetLeaf(fact(w), cond(w))
    /\ Goto(w, "clen")
    /\ UNCHANGED <<total, delta, lock, arg, result, rows, changed, running, offered, saved>>

\* Mutant of LeafCount: the first leaf of a fact is not reported as growth.
LeafCountSilent(w) ==
    /\ pc[w] = "clen"
    /\ SetNew(new.always, new.leaf, new.alen, new.clen + 1)
    /\ Goto(w, "return") /\ Yield(w, FALSE) /\ Release(w)
    /\ UNCHANGED <<total, delta, arg, rows, changed, running, offered, saved>>

LeafCount(w) ==
    /\ pc[w] = "clen"
    /\ SetNew(new.always, new.leaf, new.alen, new.clen + 1)
    /\ Goto(w, "return") /\ Yield(w, TRUE) /\ Release(w)
    /\ UNCHANGED <<total, delta, arg, rows, changed, running, offered, saved>>

\* join_mut on the leaf, which spills when the join is Always.
Joined(w) == JoinCond(new.leaf[fact(w)], cond(w))

JoinLeaf(w) ==
    /\ pc[w] = "join"
    /\ new.leaf[fact(w)] # NoCond
    /\ Joined(w) # Always
    /\ SetLeaf(fact(w), Joined(w))
    /\ Goto(w, "return") /\ Yield(w, Joined(w) # new.leaf[fact(w)]) /\ Release(w)
    /\ UNCHANGED <<total, delta, arg, rows, changed, running, offered, saved>>

\* A join that spills takes the leaf out, inserts the fact into the trie, and
\* then counts the leaf out, still under the side map's lock.
SpillRemove(w) ==
    /\ pc[w] = "join"
    /\ new.leaf[fact(w)] # NoCond
    /\ Joined(w) = Always
    /\ SetLeaf(fact(w), NoCond)
    /\ saved' = [saved EXCEPT ![w] = new.leaf[fact(w)]]
    /\ Goto(w, "spill")
    /\ UNCHANGED <<total, delta, lock, arg, result, rows, changed, running, offered>>

\* Mutant of SpillInsert: a spill is growth even if a racing Always row won.
SpillInsertGrew(w) ==
    /\ pc[w] = "spill"
    /\ IF fact(w) \in new.always
       THEN Goto(w, "uncount") /\ UNCHANGED new
       ELSE /\ SetNew(new.always \cup {fact(w)}, new.leaf, new.alen, new.clen)
            /\ Goto(w, "spillalen")
    /\ Yield(w, TRUE)
    /\ saved' = [saved EXCEPT ![w] = NoCond]
    /\ UNCHANGED <<total, delta, lock, arg, rows, changed, running, offered>>

SpillInsert(w) ==
    /\ pc[w] = "spill"
    /\ IF fact(w) \in new.always
       THEN Goto(w, "uncount") /\ Yield(w, FALSE) /\ UNCHANGED new
       ELSE /\ SetNew(new.always \cup {fact(w)}, new.leaf, new.alen, new.clen)
            /\ Goto(w, "spillalen") /\ Yield(w, TRUE)
    /\ saved' = [saved EXCEPT ![w] = NoCond]
    /\ UNCHANGED <<total, delta, lock, arg, rows, changed, running, offered>>

SpillCount(w) ==
    /\ pc[w] = "spillalen"
    /\ SetNew(new.always, new.leaf, new.alen + 1, new.clen)
    /\ Goto(w, "uncount")
    /\ UNCHANGED <<total, delta, lock, arg, result, rows, changed, running, offered, saved>>

\* Mutant of SpillUncount: the leaf that spilled is never counted out.
SpillUncountForgets(w) ==
    /\ pc[w] = "uncount"
    /\ Goto(w, "return") /\ Release(w)
    /\ UNCHANGED <<stores, arg, result, rows, changed, running, offered, saved>>

SpillUncount(w) ==
    /\ pc[w] = "uncount"
    /\ SetNew(new.always, new.leaf, new.alen, new.clen - 1)
    /\ Goto(w, "return") /\ Release(w)
    /\ UNCHANGED <<total, delta, arg, result, rows, changed, running, offered, saved>>

\* Ascent counts the row and sets its flag if the insert grew the store.
Return(w) ==
    /\ pc[w] = "return"
    /\ rows' = IF result[w] THEN rows + 1 ELSE rows
    /\ changed' = (changed \/ result[w])
    /\ Goto(w, "idle") /\ Yield(w, FALSE)
    /\ arg' = [arg EXCEPT ![w] = <<>>]
    /\ UNCHANGED <<stores, lock, running, offered, saved>>

\* merge_delta_to_total_new_to_delta, once every rule has been evaluated.
\* The loop ends after the merge of an iteration that changed nothing.
Merge ==
    /\ running
    /\ \A w \in Worker : pc[w] = "idle"
    /\ total' = Absorb(total, delta)
    /\ delta' = Refine(new, total')
    /\ new' = Empty
    /\ running' = changed
    /\ changed' = FALSE
    /\ UNCHANGED <<lock, pc, arg, result, rows, offered, saved>>

Fixpoint == ~running /\ UNCHANGED vars

Step(w) ==
    \/ AlwaysInsert(w) \/ AlwaysCount(w)
    \/ LockEntry(w) \/ CheckTrie(w) \/ NewLeaf(w) \/ LeafCount(w) \/ JoinLeaf(w)
    \/ SpillRemove(w) \/ SpillInsert(w) \/ SpillCount(w) \/ SpillUncount(w)
    \/ Return(w)

Next ==
    \/ \E w \in Worker : Step(w) \/ \E f \in Fact, c \in Offers : Derive(w, f, c)
    \/ Merge
    \/ Fixpoint

Spec == Init /\ [][Next]_vars

\* rayon runs every task it has started.
FairSpec == Spec /\ \A w \in Worker : WF_vars(Step(w))

-----------------------------------------------------------------------------
Idle == \A w \in Worker : pc[w] = "idle"

\* What the rules see of a fact, in delta if it changed, else in total.
Known(f) == IF CondAt(delta, f) # NoCond THEN CondAt(delta, f) ELSE CondAt(total, f)

\* Between evaluations each fact holds under the least condition covering
\* every condition it was derived under, whatever the order of the threads'
\* inserts, the iterations they fell in and the joins that widened.
HoldsLeast ==
    Idle => \A f \in Fact : Add(Known(f), CondAt(new, f)) = Least(offered[f])

\* After a merge a fact is in one half of total and of delta, and the two
\* counts, which the merge itself tests to skip work, are the sizes of the
\* halves; those of new are whenever no insert is under way.
CountsExact ==
    /\ \A st \in {total, delta} : st.always \cap Leaves(st) = {}
    /\ \A st \in {total, delta} \cup (IF Idle THEN {new} ELSE {}) :
         st.alen = Cardinality(st.always) /\ st.clen = Cardinality(Leaves(st))

\* Semi-naive evaluation re-derives from delta only: each of its rows carries
\* a condition strictly above the one total holds for the fact.
DeltaIsNews ==
    \A f \in Fact : CondAt(delta, f) # NoCond =>
        \/ CondAt(total, f) = NoCond
        \/ /\ CondAt(delta, f) # CondAt(total, f)
           /\ Covers(CondAt(delta, f), CondAt(total, f))

\* The loop goes on exactly when the iteration found something: an insert
\* that reported growth left a row in new, and no row entered new unreported.
ChangedIffFound ==
    /\ Idle => (changed <=> \E f \in Fact : CondAt(new, f) # NoCond)
    /\ ~running => delta = Empty /\ new = Empty

\* If the rules derive finitely many rows, as they do from frozen stores,
\* every insert returns and the iteration can end.
InsertsReturn ==
    <>[][\A w \in Worker : pc[w] = "idle" => pc'[w] = "idle"]_vars => []<>Idle
=============================================================================
