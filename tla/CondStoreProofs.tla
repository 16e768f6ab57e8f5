-------------------------- MODULE CondStoreProofs ---------------------------
(***************************************************************************)
(* The lattice of conditions, and the operations on a whole store.         *)
(*                                                                         *)
(* Decision sets and conditions form the lattice that the index engine     *)
(* takes them for, for exact, bounded, spilling and collapsing sets alike. *)
(* Everything rests on one normal form: a union is the set union, or Top   *)
(* if that is not a set the index can hold (UnionNorm), and what does not  *)
(* fit, fits with no more members either (FitsMono).                       *)
(*                                                                         *)
(* absorb and refine are then read as what they do to one fact, joins in   *)
(* that lattice, and shown to keep both row counts exact.                  *)
(***************************************************************************)
EXTENDS CondStore, FiniteSetTheorems, TLAPS

\* The normal form of a set union.
Norm(u) == IF Fits(u) THEN u ELSE Top

\* A subset of a set that the index can hold is one it can hold: widening never
\* undoes itself when decisions are added.
LEMMA FitsMono ==
    ASSUME NEW v \in SUBSET Decisions, Fits(v), NEW u \in SUBSET v
    PROVE  Fits(u)
<1>1. IsFiniteSet(v)
  BY FS_Subset, DecisionAssumption DEF DecisionAssumption
<1>2. IsFiniteSet(u) /\ Cardinality(u) <= Cardinality(v)
  BY <1>1, FS_Subset
<1>3. Cardinality(u) \in Nat /\ Cardinality(v) \in Nat
  BY <1>1, <1>2, FS_CardinalityType
<1>4. WidenBound \in Nat
  BY DecisionAssumption DEF DecisionAssumption
<1> QED
  BY <1>2, <1>3, <1>4 DEF Fits

\* The members of DecisionSet: Top, which is no set of decisions, or a set that
\* fits.
LEMMA SetCases ==
    ASSUME NEW s
    PROVE  s \in DecisionSet <=> s = Top \/ (s \in SUBSET Decisions /\ Fits(s))
BY DEF DecisionSet

\* Top is none of the sets of decisions.
LEMMA TopIsNoSet == \A s \in SUBSET Decisions : s # Top
BY DecisionAssumption DEF DecisionAssumption

\* The empty set fits.
LEMMA EmptyFits == Fits({})
BY FS_EmptySet, DecisionAssumption DEF DecisionAssumption, Fits

\* A collapsing index never holds two different decisions in one set.
LEMMA CollapsingUnion ==
    ASSUME Collapse, NEW s \in SUBSET Decisions, NEW t \in SUBSET Decisions,
           Fits(s \cup t), s # {}, t # {}
    PROVE  s = t
<1>1. IsFiniteSet(s \cup t)
  BY FS_Subset, DecisionAssumption DEF DecisionAssumption
<1>2. Cardinality(s \cup t) \in Nat /\ Cardinality(s \cup t) <= 1
  BY <1>1, FS_CardinalityType DEF Fits
<1>3. Cardinality(s \cup t) # 0
  BY <1>1, FS_EmptySet
<1>4. Cardinality(s \cup t) = 1
  BY <1>2, <1>3
<1>5. PICK x : s \cup t = {x}
  BY <1>1, <1>4, FS_Singleton
<1> QED
  BY <1>5

\* What `union` computes, with its shortcuts and its widening: the set union in
\* normal form, with Top above everything.
LEMMA UnionNorm ==
    ASSUME NEW s \in DecisionSet, NEW t \in DecisionSet
    PROVE  Union(s, t) = IF s = Top \/ t = Top THEN Top ELSE Norm(s \cup t)
<1>1. CASE s = Top \/ t = Top
  <2>1. {} # Top
    BY TopIsNoSet
  <2> QED
    BY <1>1, <2>1 DEF Union
<1>2. CASE s # Top /\ t # Top
  <2>1. /\ s \in SUBSET Decisions /\ Fits(s)
        /\ t \in SUBSET Decisions /\ Fits(t)
    BY <1>2, SetCases
  <2>2. CASE s = t \/ t = {} \/ s = {}
    <3>1. s \cup t = IF s = t \/ t = {} THEN s ELSE t
      BY <2>2
    <3> QED
      BY <1>2, <2>1, <2>2, <3>1 DEF Union, Norm
  <2>3. CASE s # t /\ t # {} /\ s # {} /\ Collapse
    <3>1. ~Fits(s \cup t)
      BY <2>1, <2>3, CollapsingUnion
    <3> QED
      BY <1>2, <2>3, <3>1 DEF Union, Norm
  <2>4. CASE s # t /\ t # {} /\ s # {} /\ ~Collapse
    <3>1. Union(s, t) = UnionUncached(s, t)
      BY <1>2, <2>4 DEF Union
    <3>2. IsSubset(t, s) <=> t \subseteq s
      BY <1>2, <2>4 DEF IsSubset
    <3>3. IsSubset(s, t) <=> s \subseteq t
      BY <1>2, <2>4 DEF IsSubset
    <3>4. CASE t \subseteq s
      <4>1. s \cup t = s
        BY <3>4
      <4> QED
        BY <1>2, <2>1, <3>1, <3>2, <3>4, <4>1 DEF UnionUncached, Norm
    <3>5. CASE ~(t \subseteq s) /\ s \subseteq t
      <4>1. s \cup t = t
        BY <3>5
      <4> QED
        BY <1>2, <2>1, <3>1, <3>2, <3>3, <3>5, <4>1 DEF UnionUncached, Norm
    <3>6. CASE ~(t \subseteq s) /\ ~(s \subseteq t)
      <4>1. IsFiniteSet(s \cup t)
        BY <2>1, FS_Subset, DecisionAssumption DEF DecisionAssumption
      <4>2. Cardinality(s \cup t) \in Nat /\ WidenBound \in Nat
        BY <4>1, FS_CardinalityType, DecisionAssumption DEF DecisionAssumption
      <4>3. Fits(s \cup t) <=> ~(WidenBound # 0 /\ Cardinality(s \cup t) > WidenBound)
        BY <2>4, <4>2 DEF Fits
      <4> QED
        BY <1>2, <3>1, <3>2, <3>3, <3>6, <4>3 DEF UnionUncached, Norm
    <3> QED
      BY <3>4, <3>5, <3>6
  <2> QED
    BY <2>2, <2>3, <2>4
<1> QED
  BY <1>1, <1>2

-----------------------------------------------------------------------------
\* The conditions a row can hold: Always; Top, where it does not spill; a set of
\* decisions that fits.
LEMMA CondCases ==
    ASSUME NEW c
    PROVE  c \in Cond <=> \/ c = Always
                          \/ c = Top /\ ~Spill
                          \/ c \in SUBSET Decisions /\ Fits(c)
BY TopIsNoSet DEF Cond, Under, DecisionSet

\* The handles that are no sets are told apart from each other and from the sets.
LEMMA CondDistinct ==
    /\ Top # Always /\ NoCond \notin Cond
    /\ \A s \in SUBSET Decisions : s # Top /\ s # Always /\ s # NoCond
BY CondCases, DecisionAssumption DEF DecisionAssumption

\* A condition other than Always is a decision set.
LEMMA CondIsSet ==
    ASSUME NEW c \in Cond, c # Always
    PROVE  c \in DecisionSet
BY CondCases, SetCases

\* The join of two rows' conditions in normal form.
LEMMA JoinNorm ==
    ASSUME NEW c \in Cond, NEW d \in Cond
    PROVE  JoinCond(c, d) = IF c = Always \/ d = Always THEN Always
                            ELSE IF c = Top \/ d = Top THEN Top
                            ELSE IF Fits(c \cup d) THEN c \cup d
                            ELSE Under(Top)
<1>1. CASE c = Always \/ d = Always
  BY <1>1 DEF JoinCond
<1>2. CASE c # Always /\ d # Always
  <2>1. c \in DecisionSet /\ d \in DecisionSet
    BY <1>2, CondIsSet
  <2>2. JoinCond(c, d) = Under(IF c = Top \/ d = Top THEN Top ELSE Norm(c \cup d))
    BY <1>2, <2>1, UnionNorm DEF JoinCond
  <2>3. CASE c = Top \/ d = Top
    <3>1. ~Spill
      BY <1>2, <2>3, CondCases, CondDistinct
    <3> QED
      BY <1>2, <2>2, <2>3, <3>1 DEF Under
  <2>4. CASE c # Top /\ d # Top
    <3>1. c \cup d \in SUBSET Decisions
      BY <1>2, <2>4, CondCases
    <3>2. c \cup d # Top
      BY <3>1, TopIsNoSet
    <3> QED
      BY <1>2, <2>2, <2>4, <3>2 DEF Under, Norm
  <2> QED
    BY <2>3, <2>4
<1> QED
  BY <1>1, <1>2

\* A join of two conditions is a condition, so no leaf of the store ever holds
\* a value that its type does not have (Cond::join_mut).
THEOREM JoinType ==
    ASSUME NEW c \in Cond, NEW d \in Cond
    PROVE  JoinCond(c, d) \in Cond
<1>1. CASE c = Always \/ d = Always
  BY <1>1, JoinNorm, CondCases, ZenonT(60)
<1>2. CASE c # Always /\ d # Always /\ (c = Top \/ d = Top)
  BY <1>2, JoinNorm, ZenonT(60)
<1>3. CASE c # Always /\ d # Always /\ c # Top /\ d # Top
  <2>1. c \cup d \in SUBSET Decisions
    BY <1>3, CondCases
  <2>2. Under(Top) \in Cond
    BY CondCases DEF Under
  <2>3. JoinCond(c, d) = IF Fits(c \cup d) THEN c \cup d ELSE Under(Top)
    BY <1>3, JoinNorm, ZenonT(60)
  <2> QED
    BY <2>1, <2>2, <2>3, CondCases
<1> QED
  BY <1>1, <1>2, <1>3

\* The join does not depend on which of two rows comes first.
THEOREM JoinCommutes ==
    ASSUME NEW c \in Cond, NEW d \in Cond
    PROVE  JoinCond(c, d) = JoinCond(d, c)
<1>1. c \cup d = d \cup c
  OBVIOUS
<1>2. JoinCond(d, c) = IF d = Always \/ c = Always THEN Always
                       ELSE IF d = Top \/ c = Top THEN Top
                       ELSE IF Fits(c \cup d) THEN c \cup d
                       ELSE Under(Top)
  BY <1>1, JoinNorm, Zenon
<1>3. JoinCond(c, d) = IF c = Always \/ d = Always THEN Always
                       ELSE IF c = Top \/ d = Top THEN Top
                       ELSE IF Fits(c \cup d) THEN c \cup d
                       ELSE Under(Top)
  BY JoinNorm, Zenon
<1> QED
  BY <1>2, <1>3

\* A row that is derived again changes nothing.
THEOREM JoinIdempotent ==
    ASSUME NEW c \in Cond
    PROVE  JoinCond(c, c) = c
<1>1. c \cup c = c
  OBVIOUS
<1> QED
  BY <1>1, JoinNorm, CondCases, ZenonT(60)

\* The join does not depend on how the rows are grouped: joined in new by several
\* workers, in refine with total, or in absorb.
THEOREM JoinAssociative ==
    ASSUME NEW a \in Cond, NEW b \in Cond, NEW c \in Cond
    PROVE  JoinCond(JoinCond(a, b), c) = JoinCond(a, JoinCond(b, c))
<1>1. JoinCond(a, b) \in Cond /\ JoinCond(b, c) \in Cond
  BY JoinType
<1>2. CASE a = Always \/ b = Always \/ c = Always
  <2>1. a = Always \/ b = Always => JoinCond(a, b) = Always
    BY JoinNorm, ZenonT(60)
  <2>2. b = Always \/ c = Always => JoinCond(b, c) = Always
    BY JoinNorm, ZenonT(60)
  <2>3. JoinCond(JoinCond(a, b), c) = Always
    BY <1>1, <1>2, <2>1, JoinNorm, ZenonT(60)
  <2>4. JoinCond(a, JoinCond(b, c)) = Always
    BY <1>1, <1>2, <2>2, JoinNorm, ZenonT(60)
  <2> QED
    BY <2>3, <2>4
<1>3. CASE /\ a # Always /\ b # Always /\ c # Always
           /\ a = Top \/ b = Top \/ c = Top
  <2>1. ~Spill
    BY <1>3, CondCases, CondDistinct
  <2>2. Under(Top) = Top
    BY <2>1 DEF Under
  <2>3. JoinCond(a, b) # Always /\ JoinCond(b, c) # Always
    <3>1. ASSUME NEW x \in Cond, NEW y \in Cond, x # Always, y # Always
          PROVE  JoinCond(x, y) # Always
      <4>1. x # Top /\ y # Top => x \cup y \in SUBSET Decisions
        BY <3>1, CondCases
      <4> QED
        BY <2>2, <3>1, <4>1, JoinNorm, CondDistinct, ZenonT(60)
    <3> QED
      BY <1>3, <3>1
  <2>4. a = Top \/ b = Top => JoinCond(a, b) = Top
    BY <1>3, JoinNorm, ZenonT(60)
  <2>5. b = Top \/ c = Top => JoinCond(b, c) = Top
    BY <1>3, JoinNorm, ZenonT(60)
  <2>6. JoinCond(JoinCond(a, b), c) = Top
    BY <1>1, <1>3, <2>3, <2>4, JoinNorm, ZenonT(60)
  <2>7. JoinCond(a, JoinCond(b, c)) = Top
    BY <1>1, <1>3, <2>3, <2>5, JoinNorm, ZenonT(60)
  <2> QED
    BY <2>6, <2>7
<1>4. CASE /\ a # Always /\ b # Always /\ c # Always
           /\ a # Top /\ b # Top /\ c # Top
  <2> DEFINE u == a \cup b \cup c
  <2>1. /\ a \in SUBSET Decisions /\ b \in SUBSET Decisions /\ c \in SUBSET Decisions
        /\ a \cup b \in SUBSET Decisions /\ b \cup c \in SUBSET Decisions
        /\ u \in SUBSET Decisions
    BY <1>4, CondCases
  <2>2. (a \cup b) \cup c = u /\ a \cup (b \cup c) = u
    OBVIOUS
  <2>3. Fits(u) => Fits(a \cup b) /\ Fits(b \cup c)
    BY <2>1, FitsMono
  <2>4. /\ JoinCond(a, b) = IF Fits(a \cup b) THEN a \cup b ELSE Under(Top)
        /\ JoinCond(b, c) = IF Fits(b \cup c) THEN b \cup c ELSE Under(Top)
    BY <1>4, JoinNorm, ZenonT(60)
  <2>5. /\ a \cup b # Top /\ a \cup b # Always
        /\ b \cup c # Top /\ b \cup c # Always
    BY <2>1, CondDistinct
  <2>6. Under(Top) = Always \/ Under(Top) = Top
    BY DEF Under
  <2>7. JoinCond(JoinCond(a, b), c) = IF Fits(u) THEN u ELSE Under(Top)
    <3>1. CASE Fits(a \cup b)
      <4>1. JoinCond(a, b) = a \cup b
        BY <2>4, <3>1
      <4>2. a \cup b \in Cond
        BY <1>1, <4>1
      <4>3. JoinCond(a \cup b, c) = IF Fits((a \cup b) \cup c) THEN (a \cup b) \cup c
                                    ELSE Under(Top)
        BY <1>4, <2>5, <4>2, JoinNorm, ZenonT(60)
      <4> QED
        BY <2>2, <4>1, <4>3
    <3>2. CASE ~Fits(a \cup b)
      <4>1. JoinCond(a, b) = Under(Top) /\ ~Fits(u)
        BY <2>3, <2>4, <3>2
      <4>2. JoinCond(Under(Top), c) = Under(Top)
        BY <1>1, <1>4, <2>6, <4>1, JoinNorm, CondDistinct, ZenonT(60)
      <4> QED
        BY <4>1, <4>2
    <3> QED
      BY <3>1, <3>2
  <2>8. JoinCond(a, JoinCond(b, c)) = IF Fits(u) THEN u ELSE Under(Top)
    <3>1. CASE Fits(b \cup c)
      <4>1. JoinCond(b, c) = b \cup c
        BY <2>4, <3>1
      <4>2. b \cup c \in Cond
        BY <1>1, <4>1
      <4>3. JoinCond(a, b \cup c) = IF Fits(a \cup (b \cup c)) THEN a \cup (b \cup c)
                                    ELSE Under(Top)
        BY <1>4, <2>5, <4>2, JoinNorm, ZenonT(60)
      <4> QED
        BY <2>2, <4>1, <4>3
    <3>2. CASE ~Fits(b \cup c)
      <4>1. JoinCond(b, c) = Under(Top) /\ ~Fits(u)
        BY <2>3, <2>4, <3>2
      <4>2. JoinCond(a, Under(Top)) = Under(Top)
        BY <1>1, <1>4, <2>6, <4>1, JoinNorm, CondDistinct, ZenonT(60)
      <4> QED
        BY <4>1, <4>2
    <3> QED
      BY <3>1, <3>2
  <2> QED
    BY <2>7, <2>8
<1> QED
  BY <1>2, <1>3, <1>4

-----------------------------------------------------------------------------
\* What covers tests: the order of the lattice, with Always on top.
LEMMA CoversNorm ==
    ASSUME NEW h \in Cond, NEW c \in Cond
    PROVE  Covers(h, c) <=> \/ h = Always
                            \/ c # Always /\ h = Top
                            \/ /\ c # Always /\ c # Top /\ h # Always /\ h # Top
                               /\ c \subseteq h
<1>1. CASE h = Always \/ c = Always
  BY <1>1, CondDistinct DEF Covers
<1>2. CASE h # Always /\ c # Always /\ (h = Top \/ c = Top)
  BY <1>2, JoinNorm, ZenonT(60) DEF Covers
<1>3. CASE h # Always /\ c # Always /\ h # Top /\ c # Top
  <2>1. Fits(h)
    BY <1>3, CondCases
  <2>2. JoinCond(h, c) = IF Fits(h \cup c) THEN h \cup c ELSE Under(Top)
    BY <1>3, JoinNorm
  <2>3. Under(Top) # h
    BY <1>3 DEF Under
  <2>4. c \subseteq h <=> h \cup c = h
    OBVIOUS
  <2> QED
    BY <1>3, <2>1, <2>2, <2>3, <2>4 DEF Covers
<1> QED
  BY <1>1, <1>2, <1>3

\* covers is a partial order: the row a refinement drops as covered by total
\* stays covered while total grows, and two rows that cover each other are equal.
THEOREM CoversIsOrder ==
    ASSUME NEW a \in Cond, NEW b \in Cond, NEW c \in Cond
    PROVE  /\ Covers(a, a)
           /\ Covers(a, b) /\ Covers(b, a) => a = b
           /\ Covers(a, b) /\ Covers(b, c) => Covers(a, c)
<1>1. Covers(a, a)
  BY CoversNorm
<1>2. ASSUME Covers(a, b), Covers(b, a)
      PROVE  a = b
  <2>1. a = b \/ (a \subseteq b /\ b \subseteq a)
    BY <1>2, CoversNorm, CondDistinct
  <2> QED
    BY <2>1
<1>3. ASSUME Covers(a, b), Covers(b, c)
      PROVE  Covers(a, c)
  BY <1>3, CoversNorm, CondDistinct
<1> QED
  BY <1>1, <1>2, <1>3

\* join_mut leaves the least condition that covers both: it loses neither row,
\* and widens no further than the index's bound makes it.
THEOREM JoinIsLeast ==
    ASSUME NEW c \in Cond, NEW d \in Cond
    PROVE  /\ Covers(JoinCond(c, d), c) /\ Covers(JoinCond(c, d), d)
           /\ \A e \in Cond : Covers(e, c) /\ Covers(e, d) => Covers(e, JoinCond(c, d))
<1> DEFINE j == JoinCond(c, d)
<1>1. j \in Cond
  BY JoinType
<1>2. j = JoinCond(d, c)
  BY JoinCommutes
<1>3. ASSUME NEW x \in Cond, NEW y \in Cond
      PROVE  Covers(JoinCond(x, y), x)
  <2>1. JoinCond(x, y) \in Cond
    BY JoinType
  <2>2. CASE x = Always \/ y = Always
    BY <2>2, JoinNorm, ZenonT(60) DEF Covers
  <2>3. CASE x # Always /\ y # Always /\ (x = Top \/ y = Top)
    BY <2>1, <2>3, JoinNorm, CoversNorm, ZenonT(60)
  <2>4. CASE x # Always /\ y # Always /\ x # Top /\ y # Top
    <3>1. x \cup y \in SUBSET Decisions
      BY <2>4, CondCases
    <3>2. x \cup y # Top /\ x \cup y # Always
      BY <3>1, CondDistinct
    <3>3. JoinCond(x, y) = IF Fits(x \cup y) THEN x \cup y ELSE Under(Top)
      BY <2>4, JoinNorm
    <3>4. Under(Top) = Always \/ Under(Top) = Top
      BY DEF Under
    <3>5. CASE JoinCond(x, y) = Always
      BY <3>5 DEF Covers
    <3>6. CASE JoinCond(x, y) = Top
      BY <2>1, <2>4, <3>6, CoversNorm
    <3>7. CASE JoinCond(x, y) = x \cup y
      <4>1. x \subseteq x \cup y
        OBVIOUS
      <4> QED
        BY <2>1, <2>4, <3>2, <3>7, <4>1, CoversNorm
    <3> QED
      BY <3>3, <3>4, <3>5, <3>6, <3>7
  <2> QED
    BY <2>2, <2>3, <2>4
<1>4. Covers(j, c) /\ Covers(j, d)
  BY <1>2, <1>3
<1>5. ASSUME NEW e \in Cond, Covers(e, c), Covers(e, d)
      PROVE  Covers(e, j)
  <2>1. CASE e = Always
    BY <2>1 DEF Covers
  <2>2. CASE e # Always
    <3>1. c # Always /\ d # Always
      BY <1>5, <2>2, CoversNorm
    <3>2. CASE e = Top
      <4>1. ~Spill
        BY <2>2, <3>2, CondCases, CondDistinct
      <4>2. c # Top /\ d # Top => c \cup d \in SUBSET Decisions
        BY <3>1, CondCases
      <4>3. j # Always
        BY <3>1, <4>1, <4>2, JoinNorm, CondDistinct, ZenonT(60) DEF Under
      <4> QED
        BY <1>1, <3>2, <4>3, CoversNorm
    <3>3. CASE e # Top
      <4>1. c # Top /\ d # Top /\ c \subseteq e /\ d \subseteq e
        BY <1>5, <2>2, <3>3, CoversNorm
      <4>2. e \in SUBSET Decisions /\ Fits(e) /\ c \cup d \in SUBSET e
        BY <2>2, <3>3, <4>1, CondCases
      <4>3. Fits(c \cup d)
        BY <4>2, FitsMono
      <4>4. j = c \cup d
        BY <3>1, <4>1, <4>3, JoinNorm
      <4>5. j # Top /\ j # Always /\ j \subseteq e
        BY <4>2, <4>4, CondDistinct
      <4> QED
        BY <1>1, <2>2, <3>3, <4>5, CoversNorm
    <3> QED
      BY <3>2, <3>3
  <2> QED
    BY <2>1, <2>2
<1> QED
  BY <1>4, <1>5

-----------------------------------------------------------------------------
\* One more row of a fact: the least condition of what was offered so far,
\* joined with the row's. The conditions a fact was offered under determine what
\* it holds under, whatever the order and the stores they went through; HoldsLeast
\* of CondTrie states it of the running engine.
THEOREM LeastStep ==
    ASSUME NEW cs \in SUBSET Cond, NEW c \in Cond
    PROVE  Least(cs \cup {c}) = Add(Least(cs), c)
<1> DEFINE all == UNION {x \in cs : x # Top}
           next == UNION {x \in cs \cup {c} : x # Top}
<1>0. c # NoCond
  BY CondDistinct
<1>1. /\ Least(cs) = IF cs = {} THEN NoCond
                     ELSE IF Always \in cs THEN Always
                     ELSE IF Top \in cs \/ ~Fits(all) THEN Under(Top)
                     ELSE all
      /\ Least(cs \cup {c}) = IF Always \in cs \cup {c} THEN Always
                              ELSE IF Top \in cs \cup {c} \/ ~Fits(next) THEN Under(Top)
                              ELSE next
  BY DEF Least
<1>2. CASE cs = {}
  <2>1. Least(cs) = NoCond
    BY <1>1, <1>2
  <2>2. Add(Least(cs), c) = c
    BY <2>1 DEF Add
  <2>3. CASE c = Always
    BY <1>1, <2>2, <2>3
  <2>4. CASE c # Always /\ c = Top
    <3>1. ~Spill
      BY <2>4, CondCases, CondDistinct
    <3>2. Under(Top) = Top
      BY <3>1 DEF Under
    <3> QED
      BY <1>1, <1>2, <2>2, <2>4, <3>2
  <2>5. CASE c # Always /\ c # Top
    <3>1. Fits(c)
      BY <2>5, CondCases
    <3>2. next = c
      BY <1>2, <2>5
    <3> QED
      BY <1>1, <1>2, <2>2, <2>5, <3>1, <3>2
  <2> QED
    BY <2>3, <2>4, <2>5
<1>3. CASE cs # {} /\ (Always \in cs \/ c = Always)
  <2>1. Least(cs \cup {c}) = Always
    BY <1>1, <1>3
  <2>2. Add(Least(cs), c) = IF Least(cs) = NoCond THEN c ELSE JoinCond(Least(cs), c)
    BY <1>0 DEF Add
  <2>3. Always \in cs => Least(cs) = Always
    BY <1>1, <1>3
  <2>4. Always # NoCond
    BY DecisionAssumption DEF DecisionAssumption
  <2>5. JoinCond(Least(cs), c) = Always
    BY <1>3, <2>3 DEF JoinCond
  <2> QED
    BY <1>3, <2>1, <2>2, <2>3, <2>4, <2>5
<1>4. CASE cs # {} /\ Always \notin cs /\ c # Always
  <2>1. all \in SUBSET Decisions /\ next \in SUBSET Decisions
    <3>1. \A x \in cs \cup {c} : x # Top => x \in SUBSET Decisions
      BY <1>4, CondCases
    <3> QED
      BY <3>1
  <2>2. /\ all # Top /\ all # Always /\ all # NoCond
        /\ Top # NoCond /\ Always # NoCond
    BY <2>1, CondDistinct, DecisionAssumption DEF DecisionAssumption
  <2>3. Under(Top) = Always \/ (~Spill /\ Under(Top) = Top)
    BY DEF Under
  <2>4. Least(cs) = IF Top \in cs \/ ~Fits(all) THEN Under(Top) ELSE all
    BY <1>1, <1>4
  <2>5. Least(cs) # NoCond
    BY <2>2, <2>3, <2>4
  <2>6. Least(cs) \in Cond
    BY <2>1, <2>3, <2>4, CondCases
  <2>7. Add(Least(cs), c) = JoinCond(Least(cs), c)
    BY <1>0, <2>5 DEF Add
  <2>8. Least(cs \cup {c}) = IF Top \in cs \cup {c} \/ ~Fits(next) THEN Under(Top) ELSE next
    BY <1>1, <1>4
  <2>9. CASE Top \in cs \/ c = Top
    <3>1. ~Spill
      BY <1>4, <2>9, CondCases, CondDistinct
    <3>2. Under(Top) = Top
      BY <3>1 DEF Under
    <3>3. Least(cs) # Always /\ (Least(cs) = Top \/ c = Top)
      BY <2>2, <2>4, <2>9, <3>2, CondDistinct
    <3>4. JoinCond(Least(cs), c) = Top
      BY <1>4, <2>6, <3>3, JoinNorm, ZenonT(60)
    <3> QED
      BY <2>7, <2>8, <2>9, <3>2, <3>4
  <2>10. CASE Top \notin cs /\ c # Top
    <3>1. next = all \cup c
      BY <2>10
    <3>2. Fits(next) => Fits(all)
      BY <2>1, <3>1, FitsMono
    <3>3. CASE Fits(all)
      <4>1. Least(cs) = all
        BY <2>4, <2>10, <3>3, ZenonT(60)
      <4>2. JoinCond(all, c) = IF Fits(all \cup c) THEN all \cup c ELSE Under(Top)
        BY <1>4, <2>2, <2>6, <2>10, <4>1, JoinNorm, ZenonT(60)
      <4> QED
        BY <2>7, <2>8, <2>10, <3>1, <4>1, <4>2, ZenonT(60)
    <3>4. CASE ~Fits(all)
      <4>1. Least(cs) = Under(Top) /\ ~Fits(next)
        BY <2>4, <3>2, <3>4
      <4>2. JoinCond(Least(cs), c) = Under(Top)
        BY <1>4, <2>3, <2>6, <4>1, JoinNorm, CondDistinct, ZenonT(60)
      <4> QED
        BY <2>7, <2>8, <4>1, <4>2
    <3> QED
      BY <3>3, <3>4
  <2> QED
    BY <2>9, <2>10
<1> QED
  BY <1>2, <1>3, <1>4

-----------------------------------------------------------------------------
\* What a store holds a fact under: a condition, or none.
Held == Cond \cup {NoCond}

\* The order of the lattice with NoCond at the bottom.
Below(a, b) == Add(a, b) = b

\* Add by whether there is a condition on either side.
LEMMA AddCases ==
    ASSUME NEW a \in Held, NEW b \in Held
    PROVE  /\ a = NoCond => Add(a, b) = b
           /\ b = NoCond => Add(a, b) = a
           /\ a # NoCond /\ b # NoCond => Add(a, b) = JoinCond(a, b) /\ a \in Cond /\ b \in Cond
           /\ a # NoCond <=> a \in Cond
BY CondDistinct, Zenon DEF Add, Held

\* A join is a condition, unless there was none to join.
LEMMA AddType ==
    ASSUME NEW a \in Held, NEW b \in Held
    PROVE  /\ Add(a, b) \in Held
           /\ Add(a, b) = NoCond <=> a = NoCond /\ b = NoCond
           /\ a = Always \/ b = Always => Add(a, b) = Always
<1>1. CASE a = NoCond \/ b = NoCond
  BY <1>1, AddCases, DecisionAssumption, Zenon
<1>2. CASE a # NoCond /\ b # NoCond
  <2>1. Add(a, b) = JoinCond(a, b) /\ JoinCond(a, b) \in Cond
    BY <1>2, AddCases, JoinType, Zenon
  <2>2. a = Always \/ b = Always => JoinCond(a, b) = Always
    BY <1>2, AddCases, JoinNorm, Zenon
  <2> QED BY <1>2, <2>1, <2>2, CondDistinct, Zenon DEF Held
<1> QED BY <1>1, <1>2, Zenon

\* The order of two joins into a store makes no difference: Add is commutative,
LEMMA AddCommutes ==
    ASSUME NEW a \in Held, NEW b \in Held
    PROVE  Add(a, b) = Add(b, a)
<1>1. CASE a = NoCond \/ b = NoCond
  BY <1>1, AddCases, Zenon
<1>2. CASE a # NoCond /\ b # NoCond
  BY <1>2, AddCases, JoinCommutes
<1> QED BY <1>1, <1>2, Zenon

\* idempotent,
LEMMA AddIdempotent ==
    ASSUME NEW a \in Held
    PROVE  Add(a, a) = a
BY AddCases, JoinIdempotent, Zenon

\* and associative.
LEMMA AddAssociative ==
    ASSUME NEW a \in Held, NEW b \in Held, NEW c \in Held
    PROVE  Add(Add(a, b), c) = Add(a, Add(b, c))
<1>1. Add(a, b) \in Held /\ Add(b, c) \in Held
  BY AddType, Zenon
<1>2. CASE a = NoCond \/ b = NoCond \/ c = NoCond
  <2>1. CASE a = NoCond
    BY <1>1, <2>1, AddCases
  <2>2. CASE b = NoCond
    BY <1>1, <2>2, AddCases, Zenon
  <2>3. CASE c = NoCond
    BY <1>1, <2>3, AddCases, Zenon
  <2> QED BY <1>2, <2>1, <2>2, <2>3, Zenon
<1>3. CASE a # NoCond /\ b # NoCond /\ c # NoCond
  <2>1. a \in Cond /\ b \in Cond /\ c \in Cond
    BY <1>3, AddCases, Zenon
  <2>2. Add(a, b) = JoinCond(a, b) /\ Add(b, c) = JoinCond(b, c)
    BY <1>3, AddCases, Zenon
  <2>3. Add(a, b) # NoCond /\ Add(b, c) # NoCond
    BY <1>3, AddType, Zenon
  <2>4. Add(Add(a, b), c) = JoinCond(Add(a, b), c) /\ Add(a, Add(b, c)) = JoinCond(a, Add(b, c))
    BY <1>1, <1>3, <2>3, AddCases, Zenon
  <2> QED BY <2>1, <2>2, <2>4, JoinAssociative
<1> QED BY <1>2, <1>3, Zenon

\* The order that Add is the join of.
LEMMA BelowOrder ==
    ASSUME NEW a \in Held, NEW b \in Held, NEW c \in Held
    PROVE  /\ Below(a, a) /\ Below(NoCond, a) /\ Below(a, Always)
           /\ Below(a, b) /\ Below(b, a) => a = b
           /\ Below(a, b) /\ Below(b, c) => Below(a, c)
           /\ Below(a, Add(a, b)) /\ Below(b, Add(a, b))
           /\ Below(a, c) /\ Below(b, c) => Below(Add(a, b), c)
<1>1. Always \in Held /\ NoCond \in Held
  BY CondCases, Zenon DEF Held
<1>2. Below(a, a) /\ Below(NoCond, a) /\ Below(a, Always)
  BY <1>1, AddIdempotent, AddCases, AddType, Zenon DEF Below
<1>3. Below(a, b) /\ Below(b, a) => a = b
  BY AddCommutes, Zenon DEF Below
<1>4. Below(a, b) /\ Below(b, c) => Below(a, c)
  <2>1. Add(Add(a, b), c) = Add(a, Add(b, c))
    BY AddAssociative, Zenon
  <2> QED BY <2>1, Zenon DEF Below
<1>5. Below(a, Add(a, b))
  <2>1. Add(Add(a, a), b) = Add(a, Add(a, b))
    BY AddAssociative, Zenon
  <2>2. Add(a, a) = a
    BY AddIdempotent, Zenon
  <2> QED BY <2>1, <2>2, Zenon DEF Below
<1>6. Below(b, Add(a, b))
  <2>1. Add(Add(b, b), a) = Add(b, Add(b, a))
    BY AddAssociative, Zenon
  <2>2. Add(b, b) = b /\ Add(b, a) = Add(a, b)
    BY AddIdempotent, AddCommutes, Zenon
  <2> QED BY <2>1, <2>2, Zenon DEF Below
<1>7. Below(a, c) /\ Below(b, c) => Below(Add(a, b), c)
  <2>1. Add(Add(a, b), c) = Add(a, Add(b, c))
    BY AddAssociative, Zenon
  <2> QED BY <2>1, Zenon DEF Below
<1> QED BY <1>2, <1>3, <1>4, <1>5, <1>6, <1>7, Zenon

\* covers is that order, the other way around.
LEMMA CoversBelow ==
    ASSUME NEW h \in Cond, NEW c \in Cond
    PROVE  Covers(h, c) <=> Below(c, h)
<1>1. h # NoCond /\ c # NoCond /\ h \in Held /\ c \in Held
  BY CondDistinct, Zenon DEF Held
<1>2. Add(c, h) = JoinCond(h, c)
  BY <1>1, AddCases, JoinCommutes, Zenon
<1>3. h = Always \/ c = Always => JoinCond(h, c) = Always
  BY JoinNorm, Zenon
<1> QED BY <1>2, <1>3, Zenon DEF Covers, Below

\* Least is what its name says: the least upper bound of the conditions offered.
LEMMA LeastBound ==
    ASSUME NEW cs \in SUBSET Cond
    PROVE  /\ Least(cs) \in Held
           /\ Least(cs) = NoCond <=> cs = {}
           /\ \A c \in cs : Below(c, Least(cs))
           /\ \A e \in Held : (\A c \in cs : Below(c, e)) => Below(Least(cs), e)
<1> DEFINE all == UNION {c \in cs : c # Top}
<1>1. Least(cs) = IF cs = {} THEN NoCond
                  ELSE IF Always \in cs THEN Always
                  ELSE IF Top \in cs \/ ~Fits(all) THEN Under(Top)
                  ELSE all
  BY Zenon DEF Least
<1>2. Cond \in SUBSET Held /\ Always \in Cond /\ NoCond \in Held /\ NoCond \notin Cond
  BY CondCases, CondDistinct, Zenon DEF Held
<1>3. CASE cs = {}
  BY <1>1, <1>2, <1>3, BelowOrder
<1>4. CASE Always \in cs
  <2>1. Least(cs) = Always
    BY <1>1, <1>4, Zenon
  <2> QED BY <1>2, <1>4, <2>1, BelowOrder, Zenon
<1>5. CASE cs # {} /\ Always \notin cs
  <2>1. \A c \in cs : c # Top => c \in SUBSET Decisions
    BY <1>5, CondCases, Zenon
  <2>2. all \in SUBSET Decisions
    BY <2>1, Zenon
  <2>3. Under(Top) \in Cond /\ (Under(Top) = Always \/ (~Spill /\ Under(Top) = Top))
    BY CondCases, Zenon DEF Under
  <2>4. Fits(all) => all \in Cond
    BY <2>2, CondCases, Zenon
  <2>5. Least(cs) \in Cond /\ Least(cs) = IF Top \in cs \/ ~Fits(all) THEN Under(Top) ELSE all
    BY <1>1, <1>5, <2>3, <2>4, Zenon
  <2>6. ASSUME NEW c \in cs
        PROVE  Covers(Least(cs), c)
    <3>1. c \in Cond /\ c # Always /\ (c # Top => c \subseteq all)
      BY <1>5, Zenon
    <3>2. all # Top /\ all # Always
      BY <2>2, CondDistinct, Zenon
    <3> QED BY <2>3, <2>5, <3>1, <3>2, CoversNorm, Zenon
  <2>7. ASSUME NEW e \in Cond, \A c \in cs : Covers(e, c)
        PROVE  Covers(e, Least(cs))
    <3>1. CASE e = Always
      BY <3>1, Zenon DEF Covers
    <3>2. CASE e = Top
      <4>1. ~Spill /\ Top # Always
        BY <3>2, CondCases, CondDistinct, Zenon
      <4>2. Least(cs) # Always
        BY <2>2, <2>5, <4>1, CondDistinct, Zenon DEF Under
      <4> QED BY <2>5, <3>2, <4>2, CoversNorm, Zenon
    <3>3. CASE e # Always /\ e # Top
      <4>1. \A c \in cs : c \in Cond /\ c # Top /\ c \subseteq e
        BY <2>7, <3>3, CoversNorm, Zenon
      <4>2. all \subseteq e /\ Top \notin cs
        BY <4>1, Zenon
      <4>3. e \in SUBSET Decisions /\ Fits(e)
        BY <3>3, CondCases, Zenon
      <4>4. Fits(all)
        BY <4>2, <4>3, FitsMono, Zenon
      <4>5. Least(cs) = all /\ all # Top /\ all # Always
        BY <2>2, <2>5, <4>2, <4>4, CondDistinct, Zenon
      <4> QED BY <2>5, <3>3, <4>2, <4>5, CoversNorm, Zenon
    <3> QED BY <3>1, <3>2, <3>3, Zenon
  <2>8. \A c \in cs : Below(c, Least(cs))
    BY <2>5, <2>6, CoversBelow, Zenon
  <2>9. ASSUME NEW e \in Held, \A c \in cs : Below(c, e)
        PROVE  Below(Least(cs), e)
    <3>1. e # NoCond
      <4>1. PICK c \in cs : TRUE
        BY <1>5, Zenon
      <4> QED BY <1>2, <2>9, <4>1, AddType DEF Below
    <3>2. e \in Cond
      BY <3>1, Zenon DEF Held
    <3> QED BY <2>5, <2>7, <2>9, <3>2, CoversBelow, Zenon
  <2> QED BY <1>2, <1>5, <2>5, <2>8, <2>9, Zenon
<1> QED BY <1>3, <1>4, <1>5, Zenon

-----------------------------------------------------------------------------
\* The stores, and what they are between operations: each count is the size of
\* its half. A store that has been merged has each fact in one half.
Stores == [always : SUBSET Fact, leaf : [Fact -> Held \ {Always}], alen : Int, clen : Int]
Counted(st) == st.alen = Cardinality(st.always) /\ st.clen = Cardinality(Leaves(st))
Split(st) == st.always \cap Leaves(st) = {}
HeldAt(st, f) == IF f \in st.always THEN Always ELSE st.leaf[f]

\* A set of facts has a size, which is 0 for the empty set only.
LEMMA FiniteFacts ==
    ASSUME NEW S \in SUBSET Fact
    PROVE  IsFiniteSet(S) /\ Cardinality(S) \in Nat /\ (Cardinality(S) = 0 <=> S = {})
BY FactAssumption, FS_Subset, FS_CardinalityType, FS_EmptySet, Zenon

\* The trie that takes in another grows by the rows it did not have,
LEMMA CountedUnion ==
    ASSUME NEW S \in SUBSET Fact, NEW T \in SUBSET Fact
    PROVE  Cardinality(S \cup T) = Cardinality(S) + Cardinality(T \ S)
<1>1. IsFiniteSet(S) /\ IsFiniteSet(T \ S) /\ Cardinality(S) \in Nat /\ Cardinality(T \ S) \in Nat
  BY FiniteFacts, Zenon
<1>2. S \cup T = S \cup (T \ S) /\ S \cap (T \ S) = {}
  BY Zenon
<1>3. Cardinality(S \cup (T \ S)) = Cardinality(S) + Cardinality(T \ S) - Cardinality(S \cap (T \ S))
  BY <1>1, FS_Union, Zenon
<1>4. Cardinality(S \cap (T \ S)) = 0
  BY <1>2, FS_EmptySet, Zenon
<1>5. Cardinality(S \cup (T \ S)) = Cardinality(S) + Cardinality(T \ S)
  BY <1>1, <1>3, <1>4
<1> QED BY <1>2, <1>5, Zenon

\* and a side map that gives rows up shrinks by as many.
LEMMA CountedDifference ==
    ASSUME NEW S \in SUBSET Fact, NEW T \in SUBSET S
    PROVE  Cardinality(S \ T) = Cardinality(S) - Cardinality(T)
<1>1. IsFiniteSet(S) /\ S \cap T = T
  BY FiniteFacts, Zenon
<1> QED BY <1>1, FS_Difference, Zenon

\* The fields of a store.
LEMMA StoreType ==
    ASSUME NEW a \in SUBSET Fact, NEW l \in [Fact -> Held \ {Always}], NEW m \in Int, NEW n \in Int
    PROVE  /\ Store(a, l, m, n) \in Stores /\ Store(a, l, m, n).always = a /\ Store(a, l, m, n).leaf = l
           /\ Store(a, l, m, n).alen = m /\ Store(a, l, m, n).clen = n
BY Zenon DEF Store, Stores

\* One leaf moves.
LEMMA LeafMoves ==
    ASSUME NEW st \in Stores, NEW to \in Stores, NEW f \in Fact, NEW c,
           to.leaf = [st.leaf EXCEPT ![f] = c]
    PROVE  /\ Cardinality(Leaves(st)) \in Nat /\ Cardinality(Leaves(to)) \in Nat
           /\ Cardinality(Leaves(to)) + (IF st.leaf[f] # NoCond THEN 1 ELSE 0)
                = Cardinality(Leaves(st)) + (IF c # NoCond THEN 1 ELSE 0)
<1>1. Leaves(st) \in SUBSET Fact /\ Leaves(to) \in SUBSET Fact
  BY Zenon DEF Leaves
<1>2. IsFiniteSet(Leaves(st)) /\ Cardinality(Leaves(st)) \in Nat /\ Cardinality(Leaves(to)) \in Nat
  BY <1>1, FiniteFacts, Zenon
<1>3. Leaves(to) = IF c = NoCond THEN Leaves(st) \ {f} ELSE Leaves(st) \cup {f}
  BY Zenon DEF Leaves, Stores
<1>4. f \in Leaves(st) <=> st.leaf[f] # NoCond
  BY Zenon DEF Leaves
<1>5. CASE c = NoCond
  <2>1. Leaves(to) = Leaves(st) \ {f}
    BY <1>3, <1>5, Zenon
  <2>2. Cardinality(Leaves(to)) = IF f \in Leaves(st) THEN Cardinality(Leaves(st)) - 1 ELSE Cardinality(Leaves(st))
    BY <1>2, <2>1, FS_RemoveElement, Zenon
  <2> QED BY <1>2, <1>4, <1>5, <2>2
<1>6. CASE c # NoCond
  <2>1. Leaves(to) = Leaves(st) \cup {f}
    BY <1>3, <1>6, Zenon
  <2>2. Cardinality(Leaves(to)) = IF f \in Leaves(st) THEN Cardinality(Leaves(st)) ELSE Cardinality(Leaves(st)) + 1
    BY <1>2, <2>1, FS_AddElement, Zenon
  <2> QED BY <1>2, <1>4, <1>6, <2>2
<1> QED BY <1>5, <1>6, Zenon

\* One fact becomes unconditional.
LEMMA AlwaysMoves ==
    ASSUME NEW S \in SUBSET Fact, NEW f \in Fact, f \notin S
    PROVE  Cardinality(S) \in Nat /\ Cardinality(S \cup {f}) = Cardinality(S) + 1
BY FiniteFacts, FS_AddElement, Zenon

\* cond_at is right to test the row count of the side map first.
LEMMA CondAtHeld ==
    ASSUME NEW st \in Stores, Counted(st), NEW f \in Fact
    PROVE  CondAt(st, f) = HeldAt(st, f) /\ HeldAt(st, f) \in Held
<1>1. Leaves(st) \in SUBSET Fact
  BY Zenon DEF Leaves
<1>2. st.clen = 0 => st.leaf[f] = NoCond
  BY <1>1, FiniteFacts, Zenon DEF Counted, Leaves
<1>3. Always \in Held
  BY CondCases, Zenon DEF Held
<1> QED BY <1>2, <1>3, Zenon DEF CondAt, HeldAt, Stores

\* The first part of absorb leaves no leaf for a fact that from makes unconditional,
\* even where the counts let it skip the work.
LEMMA DropHolds ==
    ASSUME NEW st \in Stores, Counted(st), NEW from \in Stores, Counted(from)
    PROVE  LET d == DropUnconditional(st, from)
           IN  /\ d \in Stores /\ Counted(d) /\ d.always = st.always
               /\ \A f \in Fact : d.leaf[f] = IF f \in from.always THEN NoCond ELSE st.leaf[f]
<1> DEFINE d == DropUnconditional(st, from)
           gone == Leaves(st) \cap from.always
<1>1. Leaves(st) \in SUBSET Fact /\ gone \in SUBSET Leaves(st) /\ from.always \in SUBSET Fact
  BY Zenon DEF Leaves, Stores
<1>2. NoCond \in Held \ {Always}
  BY DecisionAssumption, Zenon DEF Held
<1>3. CASE st.clen = 0 \/ from.alen = 0
  <2>1. d = st
    BY <1>3, Zenon DEF DropUnconditional
  <2>2. st.clen = 0 => Leaves(st) = {}
    BY <1>1, FiniteFacts, Zenon DEF Counted
  <2>3. from.alen = 0 => from.always = {}
    BY <1>1, FiniteFacts, Zenon DEF Counted
  <2> QED BY <1>3, <2>1, <2>2, <2>3, Zenon DEF Leaves
<1>4. CASE ~(st.clen = 0 \/ from.alen = 0)
  <2>1. d = Store(st.always, [f \in Fact |-> IF f \in gone THEN NoCond ELSE st.leaf[f]],
                  st.alen, st.clen - Cardinality(gone))
    BY <1>4, Zenon DEF DropUnconditional
  <2>2. /\ d.always = st.always /\ d.alen = st.alen /\ d.clen = st.clen - Cardinality(gone)
        /\ d.leaf = [f \in Fact |-> IF f \in gone THEN NoCond ELSE st.leaf[f]]
    BY <2>1 DEF Store
  <2>3. Cardinality(gone) \in Nat
    BY <1>1, FiniteFacts, Zenon
  <2>4. d \in Stores
    <3>1. d.leaf \in [Fact -> Held \ {Always}]
      BY <1>2, <2>2, Zenon DEF Stores
    <3>2. d = [always |-> d.always, leaf |-> d.leaf, alen |-> d.alen, clen |-> d.clen]
      BY <2>1, Zenon DEF Store
    <3>3. d.always \in SUBSET Fact /\ d.alen \in Int /\ d.clen \in Int
      BY <2>2, <2>3 DEF Stores
    <3> QED BY <3>1, <3>2, <3>3, Zenon DEF Stores
  <2>5. Leaves(d) = Leaves(st) \ gone
    BY <2>2, Zenon DEF Leaves
  <2>6. Counted(d)
    BY <1>1, <2>2, <2>5, CountedDifference, Zenon DEF Counted
  <2>7. \A f \in Fact : d.leaf[f] = IF f \in from.always THEN NoCond ELSE st.leaf[f]
    BY <2>2, Zenon DEF Leaves
  <2> QED BY <2>2, <2>4, <2>6, <2>7, Zenon
<1> QED BY <1>3, <1>4, Zenon

\* The second part unites the tries and counts the rows.
LEMMA UniteHolds ==
    ASSUME NEW st \in Stores, Counted(st), NEW from \in Stores
    PROVE  LET u == UniteTries(st, from)
           IN  u \in Stores /\ Counted(u) /\ u.always = st.always \cup from.always /\ u.leaf = st.leaf
<1> DEFINE u == UniteTries(st, from)
<1>1. /\ u.always = st.always \cup from.always /\ u.leaf = st.leaf
      /\ u.alen = st.alen + Cardinality(from.always \ st.always) /\ u.clen = st.clen
      /\ u = [always |-> u.always, leaf |-> u.leaf, alen |-> u.alen, clen |-> u.clen]
  BY Zenon DEF UniteTries, Store
<1>2. st.always \in SUBSET Fact /\ from.always \in SUBSET Fact
  BY Zenon DEF Stores
<1>3. Cardinality(from.always \ st.always) \in Nat
  BY <1>2, FiniteFacts, Zenon
<1>4. u \in Stores
  BY <1>1, <1>2, <1>3 DEF Stores
<1>5. Leaves(u) = Leaves(st)
  BY <1>1, Zenon DEF Leaves
<1> QED BY <1>1, <1>2, <1>4, <1>5, CountedUnion, Zenon DEF Counted

\* The third part joins from's leaves into the store, and what spills moves to the trie.
LEMMA InsertLeavesHolds ==
    ASSUME NEW st \in Stores, Counted(st), Split(st), NEW from \in Stores
    PROVE  LET i == InsertLeaves(st, from)
           IN  /\ i \in Stores /\ Counted(i) /\ Split(i)
               /\ \A f \in Fact : HeldAt(i, f) = IF f \in st.always THEN Always
                                                 ELSE Add(st.leaf[f], from.leaf[f])
<1> DEFINE rows == {f \in Leaves(from) : f \notin st.always}
           joined == [f \in Fact |-> IF f \in rows THEN Add(st.leaf[f], from.leaf[f]) ELSE st.leaf[f]]
           spilled == {f \in rows : joined[f] = Always}
           i == InsertLeaves(st, from)
<1>1. /\ i.always = st.always \cup spilled
      /\ i.leaf = [f \in Fact |-> IF f \in spilled THEN NoCond ELSE joined[f]]
      /\ i.alen = st.alen + Cardinality(spilled)
      /\ i.clen = st.clen + Cardinality(rows \ Leaves(st)) - Cardinality(spilled)
      /\ i = [always |-> i.always, leaf |-> i.leaf, alen |-> i.alen, clen |-> i.clen]
  BY Zenon DEF InsertLeaves, Store
<1>2. /\ rows \in SUBSET Fact /\ spilled \in SUBSET rows /\ st.always \in SUBSET Fact
      /\ Leaves(st) \in SUBSET Fact /\ rows \cap st.always = {}
  BY Zenon DEF Leaves, Stores
<1>3. \A f \in Fact : st.leaf[f] \in Held \ {Always} /\ from.leaf[f] \in Held \ {Always}
  BY Zenon DEF Stores
<1>4. NoCond \in Held \ {Always}
  BY DecisionAssumption, Zenon DEF Held
<1>5. \A f \in rows : from.leaf[f] # NoCond
  BY Zenon DEF Leaves
<1>6. \A f \in Fact : joined[f] \in Held /\ (f \in rows => joined[f] # NoCond)
  BY <1>2, <1>3, <1>5, AddType
<1>7. \A f \in Fact : f \notin spilled => joined[f] # Always
  BY <1>3, Zenon
<1>8. i.leaf \in [Fact -> Held \ {Always}]
  BY <1>1, <1>4, <1>6, <1>7, Zenon
<1>9. Cardinality(spilled) \in Nat /\ Cardinality(rows \ Leaves(st)) \in Nat
  BY <1>2, FiniteFacts, Zenon
<1>10. i \in Stores
  <2>1. i.always \in SUBSET Fact
    BY <1>1, <1>2, Zenon
  <2>2. i.alen \in Int /\ i.clen \in Int
    BY <1>1, <1>9 DEF Stores
  <2> QED BY <1>1, <1>8, <2>1, <2>2, Zenon DEF Stores
<1>11. Leaves(i) = (Leaves(st) \cup rows) \ spilled
  BY <1>1, <1>2, <1>6, Zenon DEF Leaves
<1>12. Counted(i)
  <2>1. Cardinality(i.always) = Cardinality(st.always) + Cardinality(spilled)
    <3>1. spilled \in SUBSET Fact /\ spilled \ st.always = spilled
      BY <1>2, Zenon
    <3>2. Cardinality(st.always \cup spilled) = Cardinality(st.always) + Cardinality(spilled \ st.always)
      BY <1>2, <3>1, CountedUnion, Zenon
    <3> QED BY <1>1, <3>1, <3>2, Zenon
  <2>2. Cardinality(Leaves(st) \cup rows) = Cardinality(Leaves(st)) + Cardinality(rows \ Leaves(st))
    BY <1>2, CountedUnion, Zenon
  <2>3. Cardinality(Leaves(i)) = Cardinality(Leaves(st) \cup rows) - Cardinality(spilled)
    <3>1. Leaves(st) \cup rows \in SUBSET Fact /\ spilled \in SUBSET (Leaves(st) \cup rows)
      BY <1>2, Zenon
    <3> QED BY <1>11, <3>1, CountedDifference, Zenon
  <2>4. i.clen = Cardinality(Leaves(i))
    <3>1. st.clen = Cardinality(Leaves(st)) /\ st.clen \in Int
      BY Zenon DEF Counted, Stores
    <3> QED BY <1>1, <1>9, <2>2, <2>3, <3>1
  <2> QED BY <1>1, <2>1, <2>4, Zenon DEF Counted
<1>13. Split(i)
  BY <1>1, <1>2, <1>11, Zenon DEF Split
<1>14. ASSUME NEW f \in Fact
       PROVE  HeldAt(i, f) = IF f \in st.always THEN Always ELSE Add(st.leaf[f], from.leaf[f])
  <2>1. CASE f \in rows
    BY <1>1, <1>2, <2>1, Zenon DEF HeldAt
  <2>2. CASE f \notin rows /\ f \notin st.always
    <3>1. from.leaf[f] = NoCond
      BY <2>2, Zenon DEF Leaves
    <3>2. Add(st.leaf[f], NoCond) = st.leaf[f]
      BY <1>3, <1>4, AddCases, Zenon
    <3> QED BY <1>1, <2>2, <3>1, <3>2, Zenon DEF HeldAt
  <2>3. CASE f \in st.always
    BY <1>1, <2>3, Zenon DEF HeldAt
  <2> QED BY <2>1, <2>2, <2>3, Zenon
<1> QED BY <1>10, <1>12, <1>13, <1>14, Zenon

\* absorb joins what `from` holds of each fact into the store, whichever half of
\* either store it is in, and keeps the counts.
THEOREM AbsorbHolds ==
    ASSUME NEW st \in Stores, Counted(st), Split(st), NEW from \in Stores, Counted(from), Split(from)
    PROVE  LET a == Absorb(st, from)
           IN  /\ a \in Stores /\ Counted(a) /\ Split(a)
               /\ \A f \in Fact : HeldAt(a, f) = Add(HeldAt(st, f), HeldAt(from, f))
<1> DEFINE d == DropUnconditional(st, from)
           u == UniteTries(d, from)
           a == InsertLeaves(u, from)
<1>1. /\ d \in Stores /\ Counted(d) /\ d.always = st.always
      /\ \A f \in Fact : d.leaf[f] = IF f \in from.always THEN NoCond ELSE st.leaf[f]
  BY DropHolds, Zenon
<1>2. u \in Stores /\ Counted(u) /\ u.always = st.always \cup from.always /\ u.leaf = d.leaf
  BY <1>1, UniteHolds
<1>3. Split(u)
  BY <1>1, <1>2, Zenon DEF Split, Leaves
<1>4. /\ a \in Stores /\ Counted(a) /\ Split(a)
      /\ \A f \in Fact : HeldAt(a, f) = IF f \in u.always THEN Always ELSE Add(u.leaf[f], from.leaf[f])
  BY <1>2, <1>3, InsertLeavesHolds, Zenon
<1>5. ASSUME NEW f \in Fact
      PROVE  HeldAt(a, f) = Add(HeldAt(st, f), HeldAt(from, f))
  <2>1. HeldAt(st, f) \in Held /\ HeldAt(from, f) \in Held
    BY CondAtHeld, Zenon
  <2>2. CASE f \in st.always \/ f \in from.always
    <3>1. HeldAt(st, f) = Always \/ HeldAt(from, f) = Always
      BY <2>2, Zenon DEF HeldAt
    <3>2. Add(HeldAt(st, f), HeldAt(from, f)) = Always
      BY <2>1, <3>1, AddType, Zenon
    <3> QED BY <1>2, <1>4, <2>2, <3>2, Zenon
  <2>3. CASE f \notin st.always /\ f \notin from.always
    <3>1. HeldAt(st, f) = st.leaf[f] /\ HeldAt(from, f) = from.leaf[f]
      BY <2>3, Zenon DEF HeldAt
    <3>2. f \notin u.always /\ u.leaf[f] = st.leaf[f]
      BY <1>1, <1>2, <2>3, Zenon
    <3> QED BY <1>4, <3>1, <3>2, Zenon
  <2> QED BY <2>2, <2>3, Zenon
<1> QED BY <1>4, <1>5, Zenon DEF Absorb

\* refine drops what total covers and joins the rest with what total holds, so
\* that no row of the result hides a part of what is known.
THEOREM RefineHolds ==
    ASSUME NEW st \in Stores, Counted(st), NEW total \in Stores, Counted(total)
    PROVE  LET r == Refine(st, total)
           IN  /\ r \in Stores /\ Counted(r) /\ Split(r)
               /\ \A f \in Fact : HeldAt(r, f) = IF f \in st.always THEN Always
                                                 ELSE IF Below(st.leaf[f], HeldAt(total, f)) THEN NoCond
                                                 ELSE Add(st.leaf[f], HeldAt(total, f))
<1> DEFINE held(f) == IF f \in st.always THEN Always ELSE CondAt(total, f)
           kept == {f \in Leaves(st) : held(f) = NoCond \/ ~Covers(held(f), st.leaf[f])}
           joined == [f \in kept |-> Add(st.leaf[f], held(f))]
           spilled == {f \in kept : joined[f] = Always}
           r == Refine(st, total)
<1>1. /\ Leaves(st) \in SUBSET Fact /\ st.always \in SUBSET Fact
      /\ kept \in SUBSET Leaves(st) /\ spilled \in SUBSET kept
  BY Zenon DEF Leaves, Stores
<1>2. NoCond \in Held \ {Always} /\ Always \in Held
  BY DecisionAssumption, CondCases, Zenon DEF Held
<1>3. ASSUME NEW f \in Fact
      PROVE  /\ st.leaf[f] \in Held \ {Always} /\ HeldAt(total, f) \in Held
             /\ CondAt(total, f) = HeldAt(total, f)
  BY CondAtHeld, Zenon DEF Stores
<1>4. ASSUME NEW f \in Fact
      PROVE  f \in kept <=> f \notin st.always /\ ~Below(st.leaf[f], HeldAt(total, f))
  <2>1. CASE f \in st.always
    <3>1. held(f) = Always /\ Always # NoCond /\ Covers(Always, st.leaf[f])
      BY <1>2, <2>1, Zenon DEF Covers
    <3> QED BY <2>1, <3>1, Zenon
  <2>2. CASE f \notin st.always /\ st.leaf[f] = NoCond
    BY <1>3, <2>2, BelowOrder, Zenon DEF Leaves
  <2>3. CASE f \notin st.always /\ st.leaf[f] # NoCond
    <3>1. st.leaf[f] \in Cond /\ f \in Leaves(st) /\ held(f) = HeldAt(total, f)
      BY <1>3, <2>3, Zenon DEF Leaves, Held
    <3>2. CASE HeldAt(total, f) = NoCond
      <4>1. ~Below(st.leaf[f], NoCond)
        BY <1>2, <1>3, <2>3, AddType, Zenon DEF Below
      <4> QED BY <2>3, <3>1, <3>2, <4>1, Zenon
    <3>3. CASE HeldAt(total, f) # NoCond
      <4>1. HeldAt(total, f) \in Cond
        BY <1>3, <3>3, Zenon DEF Held
      <4>2. Covers(HeldAt(total, f), st.leaf[f]) <=> Below(st.leaf[f], HeldAt(total, f))
        BY <3>1, <4>1, CoversBelow, Zenon
      <4> QED BY <2>3, <3>1, <3>3, <4>2, Zenon
    <3> QED BY <3>2, <3>3, Zenon
  <2> QED BY <2>1, <2>2, <2>3, Zenon
<1>5. ASSUME NEW f \in kept
      PROVE  /\ joined[f] = Add(st.leaf[f], HeldAt(total, f)) /\ joined[f] \in Held
             /\ joined[f] # NoCond
  <2>1. f \in Fact /\ f \notin st.always /\ st.leaf[f] # NoCond
    BY <1>1, <1>4, Zenon DEF Leaves
  <2>2. joined[f] = Add(st.leaf[f], HeldAt(total, f))
    BY <1>3, <2>1, Zenon
  <2> QED BY <1>3, <2>1, <2>2, AddType, Zenon
<1>6. CASE st.clen = 0
  <2>1. r = st
    BY <1>6, Zenon DEF Refine
  <2>2. Leaves(st) = {}
    BY <1>1, <1>6, FiniteFacts, Zenon DEF Counted
  <2>3. \A f \in Fact : st.leaf[f] = NoCond /\ Below(NoCond, HeldAt(total, f))
    BY <1>3, <2>2, BelowOrder, Zenon DEF Leaves
  <2> QED BY <2>1, <2>2, <2>3, Zenon DEF Split, HeldAt
<1>7. CASE st.clen # 0
  <2>1. /\ r.always = st.always \cup spilled
        /\ r.leaf = [f \in Fact |-> IF f \in kept \ spilled THEN joined[f] ELSE NoCond]
        /\ r.alen = st.alen + Cardinality(spilled \ st.always)
        /\ r.clen = st.clen - Cardinality(Leaves(st) \ (kept \ spilled))
        /\ r = [always |-> r.always, leaf |-> r.leaf, alen |-> r.alen, clen |-> r.clen]
    BY <1>7, Zenon DEF Refine, Store
  <2>2. Leaves(r) = kept \ spilled
    BY <1>1, <1>5, <2>1, Zenon DEF Leaves
  <2> HIDE DEF kept, joined, spilled
  <2>3. Cardinality(spilled \ st.always) \in Nat /\ Cardinality(Leaves(st) \ (kept \ spilled)) \in Nat
    BY <1>1, FiniteFacts, Zenon
  <2>4. r \in Stores
    <3>1. r.leaf \in [Fact -> Held \ {Always}]
      BY <1>2, <1>5, <2>1, Zenon DEF spilled
    <3>2. r.always \in SUBSET Fact
      BY <1>1, <2>1, Zenon
    <3>3. st.alen \in Int /\ st.clen \in Int
      BY Zenon DEF Stores
    <3>4. r.alen \in Int /\ r.clen \in Int
      BY <2>1, <2>3, <3>3
    <3> QED BY <2>1, <3>1, <3>2, <3>4, Zenon DEF Stores
  <2>5. Counted(r)
    <3>1. Cardinality(st.always \cup spilled) = Cardinality(st.always) + Cardinality(spilled \ st.always)
      BY <1>1, CountedUnion, Zenon
    <3>2. Cardinality(Leaves(st) \ (Leaves(st) \ (kept \ spilled)))
            = Cardinality(Leaves(st)) - Cardinality(Leaves(st) \ (kept \ spilled))
      BY <1>1, CountedDifference, Zenon
    <3>3. Leaves(st) \ (Leaves(st) \ (kept \ spilled)) = kept \ spilled
      BY <1>1, Zenon
    <3>4. st.alen = Cardinality(st.always) /\ st.clen = Cardinality(Leaves(st))
      BY Zenon DEF Counted
    <3>5. r.alen = Cardinality(r.always)
      BY <2>1, <3>1, <3>4, Zenon
    <3>6. r.clen = Cardinality(Leaves(r))
      BY <2>1, <2>2, <3>2, <3>3, <3>4, Zenon
    <3> QED BY <3>5, <3>6, Zenon DEF Counted
  <2>6. Split(r)
    BY <1>1, <1>4, <2>1, <2>2, Zenon DEF Split
  <2>7. ASSUME NEW f \in Fact
        PROVE  HeldAt(r, f) = IF f \in st.always THEN Always
                              ELSE IF Below(st.leaf[f], HeldAt(total, f)) THEN NoCond
                              ELSE Add(st.leaf[f], HeldAt(total, f))
    <3>1. CASE f \in st.always
      BY <2>1, <3>1, Zenon DEF HeldAt
    <3>2. CASE f \in spilled
      BY <1>4, <1>5, <2>1, <3>2, Zenon DEF HeldAt, spilled
    <3>3. CASE f \in kept \ spilled
      BY <1>4, <1>5, <2>1, <3>3, Zenon DEF HeldAt
    <3>4. CASE f \notin kept /\ f \notin st.always
      BY <1>1, <1>4, <2>1, <3>4, Zenon DEF HeldAt
    <3> QED BY <3>1, <3>2, <3>3, <3>4, Zenon
  <2> QED BY <2>4, <2>5, <2>6, <2>7, Zenon
<1> QED BY <1>6, <1>7, Zenon
=============================================================================
