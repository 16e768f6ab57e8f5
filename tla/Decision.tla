------------------------------ MODULE Decision ------------------------------
(***************************************************************************)
(* Decision sets and conditions, ctadl-index's index_engine/decision.rs:   *)
(* what a fact of the index holds under. A condition is Always or a set of *)
(* decisions; the constants are the index's HybridContext. Equal sets have *)
(* equal handles (IdInterner's OneIdPerValue), so a handle is its set.     *)
(***************************************************************************)
EXTENDS Integers, FiniteSets

CONSTANTS
    Decisions,  \* the decisions minted so far
    Top,        \* every decision of the function the row belongs to
    Always,     \* Cond::Always
    NoCond,     \* Option::None where a Cond is optional
    Collapse,   \* the index's sets are collapsing ones
    WidenBound, \* WIDEN_BOUND; 0 is no bound
    Spill       \* SPILL

\* from_str refuses bounded:0 and spill:0, and EngineInput::new sets the bound
\* and the spill of Bounded(k) and Spill(k) only.
ASSUME DecisionAssumption ==
    /\ IsFiniteSet(Decisions)
    /\ \A s \in SUBSET Decisions : Top # s /\ Always # s /\ NoCond # s
    /\ Top # Always /\ Top # NoCond /\ Always # NoCond
    /\ Collapse \in BOOLEAN /\ Spill \in BOOLEAN
    /\ WidenBound \in Nat
    /\ Spill => WidenBound # 0
    /\ Collapse => WidenBound = 0

\* The sets an index can hold: singletons and what joins make of them.
Fits(s) == /\ Collapse => Cardinality(s) <= 1
           /\ WidenBound # 0 => Cardinality(s) <= WidenBound
DecisionSet == {s \in SUBSET Decisions : Fits(s)} \cup {Top}

IsSubset(s, t) == \/ s = t \/ s = {} \/ t = Top
                  \/ s # Top /\ s \subseteq t

UnionUncached(s, t) ==
    IF IsSubset(t, s) THEN s
    ELSE IF IsSubset(s, t) THEN t
    ELSE IF WidenBound # 0 /\ Cardinality(s \cup t) > WidenBound THEN Top
    ELSE s \cup t

\* The union memo between `union` and `union_uncached` is UnionCache's.
Union(s, t) ==
    IF s = t \/ t = {} THEN s
    ELSE IF s = {} THEN t
    ELSE IF Collapse THEN Top
    ELSE IF s = Top THEN s
    ELSE IF t = Top THEN t
    ELSE UnionUncached(s, t)

Intersection(s, t) ==
    IF s = t \/ s = Top THEN t
    ELSE IF t = Top THEN s
    ELSE s \cap t

\* Cond::under. A condition Under(s) is s itself.
Under(s) == IF s = Top /\ Spill THEN Always ELSE s

Cond == {Under(s) : s \in DecisionSet} \cup {Always}

\* Cond::join_mut, the value it leaves in self.
JoinCond(c, d) == IF Always \in {c, d} THEN Always ELSE Under(Union(c, d))

\* Cond::and, for a fact composed of two; NoCond when no decision is in both.
And(c, d) ==
    IF c = Always THEN d
    ELSE IF d = Always THEN c
    ELSE IF Intersection(c, d) = {} THEN NoCond
    ELSE Under(Intersection(c, d))

\* covers of cond_trie.rs: joining c into held changes nothing.
Covers(held, c) ==
    \/ held = Always
    \/ c # Always /\ JoinCond(held, c) = held

\* The join with a fact's condition where there may be none.
Add(held, c) == IF held = NoCond THEN c ELSE IF c = NoCond THEN held ELSE JoinCond(held, c)

\* The least condition that covers every condition of a set: what a fact
\* derived under each of them holds under, whatever the order.
Least(cs) ==
    LET all == UNION {c \in cs : c # Top}
    IN  IF cs = {} THEN NoCond
        ELSE IF Always \in cs THEN Always
        ELSE IF Top \in cs \/ ~Fits(all) THEN Under(Top)
        ELSE all
=============================================================================
