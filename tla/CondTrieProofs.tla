--------------------------- MODULE CondTrieProofs ---------------------------
(***************************************************************************)
(* The concurrent store keeps what a relation of the index is for: every   *)
(* fact holds under the least upper bound of the conditions it was derived *)
(* under, whatever the threads' order.                                     *)
(*                                                                         *)
(* The invariant (IndInv) says how far new lags behind while inserts are   *)
(* under way: its counts by the threads on their way to them (CountInv),   *)
(* the reports of growth by those that have not returned (ReportInv), its  *)
(* rows by those that have not joined theirs or have taken a leaf out to   *)
(* spill it (CoverInv). What is in new is news and was offered (NewsInv).  *)
(* A step moves one thread, so most of the invariant is a frame            *)
(* (OthersKeep); the locks say that no other thread is at the same leaf.   *)
(***************************************************************************)
EXTENDS CondTrie, CondStoreProofs

\* What the rules see, as one value.
known == [f \in Fact |-> IF HeldAt(delta, f) # NoCond THEN HeldAt(delta, f) ELSE HeldAt(total, f)]

\* Where a thread is: with a row that has had no effect yet, under the side map's
\* lock, or with a count still to come.
Unjoined == {"trie", "entry", "check", "join", "spill"}
Locked == {"check", "join", "clen", "spill", "spillalen", "uncount"}
Reported == {"alen", "spillalen", "uncount", "return"}
Labels == {"idle"} \cup Unjoined \cup Locked \cup Reported

ToAlen == {w \in Worker : pc[w] \in {"alen", "spillalen"}}
ToClen == {w \in Worker : pc[w] = "clen"}
Uncounting == {w \in Worker : pc[w] \in {"spill", "spillalen", "uncount"}}

TypeOK ==
    /\ total \in Stores /\ delta \in Stores /\ new \in Stores
    /\ lock \in [{SideShard[f] : f \in Fact} -> Worker \cup {Nobody}]
    /\ pc \in [Worker -> Labels]
    /\ arg \in [Worker -> (Fact \X Offers) \cup {<<>>}]
    /\ result \in [Worker -> BOOLEAN]
    /\ rows \in Nat /\ changed \in BOOLEAN /\ running \in BOOLEAN
    /\ offered \in [Fact -> SUBSET Cond]
    /\ saved \in [Worker -> Held \ {Always}]

\* total and delta, which only the merge writes.
MergedInv ==
    /\ Counted(total) /\ Counted(delta) /\ Split(total) /\ Split(delta)
    /\ \A f \in Fact : HeldAt(delta, f) # NoCond =>
         Below(HeldAt(total, f), HeldAt(delta, f)) /\ HeldAt(total, f) # HeldAt(delta, f)
    /\ ~running => delta = Empty /\ new = Empty

\* A thread in insert, by how far it is.
WorkerAt(w) ==
    /\ pc[w] # "idle" =>
         /\ running /\ arg[w] \in Fact \X Offers
         /\ cond(w) \in offered[fact(w)] /\ ~Below(cond(w), known[fact(w)])
    /\ pc[w] = "trie" => cond(w) = Always
    /\ pc[w] \in Locked \cup {"entry"} => cond(w) # Always
    /\ pc[w] \in Locked => lock[shard(w)] = w
    /\ pc[w] = "clen" => new.leaf[fact(w)] # NoCond
    /\ pc[w] = "spill" =>
         /\ new.leaf[fact(w)] = NoCond /\ saved[w] # NoCond /\ Add(saved[w], cond(w)) = Always
         /\ Below(saved[w], Least(offered[fact(w)]))
    /\ pc[w] \in {"alen", "spillalen", "uncount"} => fact(w) \in new.always
    /\ result[w] => pc[w] \in Reported
WorkerInv == \A w \in Worker : WorkerAt(w)

\* The counts of new lag behind its maps by the threads on their way to them.
CountInv ==
    /\ new.alen + Cardinality(ToAlen) = Cardinality(new.always)
    /\ new.clen + Cardinality(ToClen) = Cardinality(Leaves(new)) + Cardinality(Uncounting)

\* Growth is reported, or about to be, iff new has something.
ReportInv ==
    (changed \/ \E w \in Worker : result[w] \/ pc[w] = "clen")
    <=> \/ \E f \in Fact : f \in new.always \/ new.leaf[f] # NoCond
        \/ \E w \in Worker : pc[w] = "spill"

\* What new holds of a fact is news, and comes from what was offered.
NewsInv ==
    \A f \in Fact :
        /\ f \in new.always => ~Below(Always, known[f]) /\ Below(Always, Least(offered[f]))
        /\ new.leaf[f] # NoCond => ~Below(new.leaf[f], known[f])
        /\ Below(new.leaf[f], Least(offered[f]))
        /\ Below(known[f], Least(offered[f]))

\* Nothing that was offered is lost: it is known, in new, or with a thread.
CoverInv ==
    \A f \in Fact : \A c \in offered[f] :
        \/ Below(c, known[f]) \/ f \in new.always \/ Below(c, new.leaf[f])
        \/ \E w \in Worker : pc[w] \in Unjoined /\ arg[w] = <<f, c>>
        \/ \E w \in Worker : pc[w] = "spill" /\ fact(w) = f /\ Below(c, saved[w])

IndInv == TypeOK /\ MergedInv /\ WorkerInv /\ CountInv /\ ReportInv /\ NewsInv /\ CoverInv

-----------------------------------------------------------------------------
\* The types of what the invariants speak of.
LEMMA FactTypes ==
    ASSUME TypeOK, NEW f \in Fact
    PROVE  /\ known[f] \in Held /\ Least(offered[f]) \in Held
           /\ new.leaf[f] \in Held /\ new.leaf[f] # Always /\ offered[f] \in SUBSET Cond
<1>1. \A st \in Stores : HeldAt(st, f) \in Held
  BY CondCases, Zenon DEF HeldAt, Stores, Held
<1>2. known[f] \in Held
  BY <1>1, Zenon DEF known, TypeOK
<1>3. offered[f] \in SUBSET Cond
  BY Zenon DEF TypeOK
<1>4. Least(offered[f]) \in Held
  BY <1>3, LeastBound, Zenon
<1>5. new.leaf[f] \in Held \ {Always}
  BY Zenon DEF TypeOK, Stores
<1> QED BY <1>2, <1>3, <1>4, <1>5, Zenon

\* The fields of new.
LEMMA NewParts ==
    ASSUME TypeOK
    PROVE  /\ new.always \in SUBSET Fact /\ new.leaf \in [Fact -> Held \ {Always}]
           /\ new.alen \in Int /\ new.clen \in Int /\ new.alen + 1 \in Int
           /\ new.clen + 1 \in Int /\ new.clen - 1 \in Int
BY DEF TypeOK, Stores

\* What is known of the row of a thread in insert.
LEMMA BusyRow ==
    ASSUME IndInv, NEW w \in Worker, pc[w] # "idle"
    PROVE  /\ running /\ arg[w] = <<fact(w), cond(w)>> /\ arg[w] # <<>> /\ fact(w) \in Fact
           /\ cond(w) \in Offers /\ cond(w) \in Cond /\ cond(w) \in Held /\ cond(w) # NoCond
           /\ cond(w) \in offered[fact(w)] /\ ~Below(cond(w), known[fact(w)])
           /\ Below(cond(w), Least(offered[fact(w)]))
<1>1. /\ running /\ arg[w] \in Fact \X Offers
      /\ cond(w) \in offered[fact(w)] /\ ~Below(cond(w), known[fact(w)])
  BY Zenon DEF IndInv, WorkerInv, WorkerAt
<1>2. arg[w] = <<fact(w), cond(w)>> /\ fact(w) \in Fact /\ cond(w) \in Offers
  BY <1>1 DEF fact, cond
<1>3. cond(w) \in Cond /\ cond(w) \in Held /\ cond(w) # NoCond
  BY <1>2, CondTrieAssumption, CondDistinct, Zenon DEF Held
<1>4. Below(cond(w), Least(offered[fact(w)]))
  <2>1. offered[fact(w)] \in SUBSET Cond
    BY <1>2, FactTypes, Zenon DEF IndInv
  <2> QED BY <1>1, <2>1, LeastBound, Zenon
<1>5. arg[w] # <<>>
  BY <1>2
<1> QED BY <1>1, <1>2, <1>3, <1>4, <1>5, Zenon

\* One thread moves in a set of threads.
LEMMA OneMoves ==
    ASSUME NEW S \in SUBSET Worker, NEW T \in SUBSET Worker, NEW w \in Worker,
           \A v \in Worker \ {w} : v \in S <=> v \in T
    PROVE  /\ Cardinality(S) \in Nat /\ Cardinality(T) \in Nat
           /\ Cardinality(T) + (IF w \in S THEN 1 ELSE 0) = Cardinality(S) + (IF w \in T THEN 1 ELSE 0)
<1>1. IsFiniteSet(S) /\ IsFiniteSet(T) /\ Cardinality(S) \in Nat /\ Cardinality(T) \in Nat
  BY CondTrieAssumption, FS_Subset, FS_CardinalityType, Zenon
<1>2. CASE w \in S /\ w \notin T
  <2>1. T = S \ {w}
    BY <1>2, Zenon
  <2> QED BY <1>1, <1>2, <2>1, FS_RemoveElement
<1>3. CASE w \notin S /\ w \in T
  <2>1. T = S \cup {w}
    BY <1>3, Zenon
  <2> QED BY <1>1, <1>3, <2>1, FS_AddElement
<1>4. CASE w \in S <=> w \in T
  <2>1. T = S
    BY <1>4
  <2> QED BY <1>1, <1>4, <2>1, Zenon
<1> QED BY <1>2, <1>3, <1>4, Zenon

\* How the counts of threads move with one thread's label.
LEMMA PendingMoves ==
    ASSUME TypeOK, NEW w \in Worker, NEW l \in Labels, pc' = [pc EXCEPT ![w] = l]
    PROVE  /\ Cardinality(ToAlen) \in Nat /\ Cardinality(ToAlen') \in Nat
           /\ Cardinality(ToClen) \in Nat /\ Cardinality(ToClen') \in Nat
           /\ Cardinality(Uncounting) \in Nat /\ Cardinality(Uncounting') \in Nat
           /\ Cardinality(ToAlen') + (IF pc[w] \in {"alen", "spillalen"} THEN 1 ELSE 0)
                = Cardinality(ToAlen) + (IF l \in {"alen", "spillalen"} THEN 1 ELSE 0)
           /\ Cardinality(ToClen') + (IF pc[w] = "clen" THEN 1 ELSE 0)
                = Cardinality(ToClen) + (IF l = "clen" THEN 1 ELSE 0)
           /\ Cardinality(Uncounting') + (IF pc[w] \in {"spill", "spillalen", "uncount"} THEN 1 ELSE 0)
                = Cardinality(Uncounting) + (IF l \in {"spill", "spillalen", "uncount"} THEN 1 ELSE 0)
<1>1. pc'[w] = l /\ \A v \in Worker \ {w} : pc'[v] = pc[v]
  BY Zenon DEF TypeOK
<1>2. /\ ToAlen \in SUBSET Worker /\ ToAlen' \in SUBSET Worker
      /\ \A v \in Worker \ {w} : v \in ToAlen <=> v \in ToAlen'
      /\ w \in ToAlen <=> pc[w] \in {"alen", "spillalen"}
      /\ w \in ToAlen' <=> l \in {"alen", "spillalen"}
  BY <1>1, Zenon DEF ToAlen
<1>3. /\ ToClen \in SUBSET Worker /\ ToClen' \in SUBSET Worker
      /\ \A v \in Worker \ {w} : v \in ToClen <=> v \in ToClen'
      /\ w \in ToClen <=> pc[w] = "clen"
      /\ w \in ToClen' <=> l = "clen"
  BY <1>1, Zenon DEF ToClen
<1>4. /\ Uncounting \in SUBSET Worker /\ Uncounting' \in SUBSET Worker
      /\ \A v \in Worker \ {w} : v \in Uncounting <=> v \in Uncounting'
      /\ w \in Uncounting <=> pc[w] \in {"spill", "spillalen", "uncount"}
      /\ w \in Uncounting' <=> l \in {"spill", "spillalen", "uncount"}
  BY <1>1, Zenon DEF Uncounting
<1>5. /\ Cardinality(ToAlen) \in Nat /\ Cardinality(ToAlen') \in Nat
      /\ Cardinality(ToAlen') + (IF w \in ToAlen THEN 1 ELSE 0)
           = Cardinality(ToAlen) + (IF w \in ToAlen' THEN 1 ELSE 0)
  BY <1>2, OneMoves, Zenon
<1>6. /\ Cardinality(ToClen) \in Nat /\ Cardinality(ToClen') \in Nat
      /\ Cardinality(ToClen') + (IF w \in ToClen THEN 1 ELSE 0)
           = Cardinality(ToClen) + (IF w \in ToClen' THEN 1 ELSE 0)
  BY <1>3, OneMoves, Zenon
<1>7. /\ Cardinality(Uncounting) \in Nat /\ Cardinality(Uncounting') \in Nat
      /\ Cardinality(Uncounting') + (IF w \in Uncounting THEN 1 ELSE 0)
           = Cardinality(Uncounting) + (IF w \in Uncounting' THEN 1 ELSE 0)
  BY <1>4, OneMoves, Zenon
<1> QED BY <1>2, <1>3, <1>4, <1>5, <1>6, <1>7, Zenon

\* Two threads under the same lock are one.
LEMMA Exclusive ==
    ASSUME IndInv, NEW v \in Worker, NEW w \in Worker, pc[v] \in Locked, pc[w] \in Locked,
           shard(v) = shard(w)
    PROVE  v = w
BY Zenon DEF IndInv, WorkerInv, WorkerAt

\* More offers only raise the least condition.
LEMMA LeastGrows ==
    ASSUME NEW ds \in SUBSET Cond, NEW cs \in SUBSET ds, NEW a \in Held, Below(a, Least(cs))
    PROVE  Below(a, Least(ds))
<1>1. Least(cs) \in Held /\ Least(ds) \in Held /\ \A c \in cs : Below(c, Least(ds))
  BY LeastBound, Zenon
<1>2. Below(Least(cs), Least(ds))
  <2>1. cs \in SUBSET Cond
    BY Zenon
  <2> QED BY <1>1, <2>1, LeastBound, Zenon
<1> QED BY <1>1, <1>2, BelowOrder, Zenon

\* What a step of thread w leaves to the others.
Frame(w) ==
    /\ UNCHANGED <<total, delta, running>> /\ running
    /\ \A f \in Fact : offered[f] \subseteq offered'[f]
    /\ \A v \in Worker \ {w} :
         /\ pc'[v] = pc[v] /\ arg'[v] = arg[v] /\ result'[v] = result[v] /\ saved'[v] = saved[v]
         /\ pc[v] \in Locked => lock'[shard(v)] = v /\ new'.leaf[fact(v)] = new.leaf[fact(v)]
    /\ new.always \subseteq new'.always

\* A step of one thread keeps what the invariant says of the other threads and of
\* the merged stores.
LEMMA OthersKeep ==
    ASSUME IndInv, TypeOK', NEW w \in Worker, Frame(w), WorkerAt(w)'
    PROVE  known' = known /\ MergedInv' /\ WorkerInv'
<1>1. UNCHANGED <<total, delta, running>> /\ running
  BY Zenon DEF Frame
<1>2. known' = known
  BY <1>1, Zenon DEF known, HeldAt
<1>3. MergedInv'
  BY <1>1, Zenon DEF IndInv, MergedInv, Counted, Split, Leaves, HeldAt
<1>4. ASSUME NEW v \in Worker \ {w}
      PROVE  WorkerAt(v)'
  <2>1. /\ pc'[v] = pc[v] /\ arg'[v] = arg[v] /\ result'[v] = result[v] /\ saved'[v] = saved[v]
        /\ pc[v] \in Locked => lock'[shard(v)] = v /\ new'.leaf[fact(v)] = new.leaf[fact(v)]
        /\ new.always \subseteq new'.always
    BY Zenon DEF Frame
  <2>2. fact(v)' = fact(v) /\ cond(v)' = cond(v) /\ shard(v)' = shard(v)
    BY <2>1, Zenon DEF fact, cond, shard
  <2>3. WorkerAt(v)
    BY Zenon DEF IndInv, WorkerInv
  <2>4. CASE pc[v] = "idle"
    BY <2>1, <2>3, <2>4, Zenon DEF WorkerAt, Locked, Reported
  <2>5. CASE pc[v] # "idle"
    <3>1. /\ running /\ arg[v] \in Fact \X Offers /\ fact(v) \in Fact /\ cond(v) \in offered[fact(v)]
      BY <2>5, BusyRow, Zenon DEF IndInv, WorkerInv, WorkerAt
    <3>2. offered[fact(v)] \subseteq offered'[fact(v)] /\ offered'[fact(v)] \in SUBSET Cond
      BY <3>1, Zenon DEF Frame, TypeOK
    <3>3. pc[v] = "spill" => Below(saved[v], Least(offered'[fact(v)]))
      <4>1. saved[v] \in Held
        BY Zenon DEF IndInv, TypeOK
      <4> QED BY <2>3, <3>2, <4>1, LeastGrows, Zenon DEF WorkerAt
    <3> QED BY <1>1, <1>2, <2>1, <2>2, <2>3, <2>5, <3>1, <3>2, <3>3, Zenon DEF WorkerAt, Locked
  <2> QED BY <2>4, <2>5, Zenon
<1> QED BY <1>2, <1>3, <1>4, Zenon DEF WorkerInv

\* A step of a thread that leaves the maps of new alone and whose row, if it had
\* no effect yet, still waits or meets an Always row.
LEMMA QuietStep ==
    ASSUME IndInv, TypeOK', NEW w \in Worker, NEW l \in Labels, pc[w] # "idle", pc' = [pc EXCEPT ![w] = l],
           pc[w] \in Unjoined => fact(w) \in new.always \/ (l \in Unjoined /\ arg' = arg),
           pc[w] # "spill", Frame(w), WorkerAt(w)',
           UNCHANGED offered, new'.always = new.always, new'.leaf = new.leaf
    PROVE  MergedInv' /\ WorkerInv' /\ NewsInv' /\ CoverInv'
<1>1. known' = known /\ MergedInv' /\ WorkerInv'
  BY OthersKeep, Zenon
<1>2. NewsInv'
  BY <1>1, Zenon DEF IndInv, NewsInv
<1>3. CoverInv'
  <2> SUFFICES ASSUME NEW f \in Fact, NEW c \in offered[f]
               PROVE  \/ Below(c, known[f]) \/ f \in new.always \/ Below(c, new.leaf[f])
                      \/ \E v \in Worker : pc'[v] \in Unjoined /\ arg'[v] = <<f, c>>
                      \/ \E v \in Worker : pc'[v] = "spill" /\ arg'[v][1] = f /\ Below(c, saved'[v])
    BY <1>1, Zenon DEF CoverInv, fact
  <2>1. CASE \E v \in Worker : pc[v] \in Unjoined /\ arg[v] = <<f, c>>
    <3>1. PICK v \in Worker : pc[v] \in Unjoined /\ arg[v] = <<f, c>>
      BY <2>1, Zenon
    <3>2. CASE v = w
      <4>1. fact(w) = f
        BY <3>1, <3>2 DEF fact
      <4>2. pc'[w] = l
        BY Zenon DEF IndInv, TypeOK
      <4> QED BY <3>1, <3>2, <4>1, <4>2, Zenon
    <3>3. CASE v # w
      BY <3>1, <3>3, Zenon DEF Frame
    <3> QED BY <3>2, <3>3, Zenon
  <2>2. CASE \E v \in Worker : pc[v] = "spill" /\ fact(v) = f /\ Below(c, saved[v])
    <3>1. PICK v \in Worker : pc[v] = "spill" /\ fact(v) = f /\ Below(c, saved[v])
      BY <2>2, Zenon
    <3> QED BY <3>1, Zenon DEF Frame, fact
  <2> QED BY <2>1, <2>2, Zenon DEF IndInv, CoverInv
<1> QED BY <1>1, <1>2, <1>3, Zenon

\* How the counts follow such a step.
LEMMA QuietCounts ==
    ASSUME IndInv, NEW w \in Worker, NEW l \in Labels, pc' = [pc EXCEPT ![w] = l],
           new'.always = new.always, new'.leaf = new.leaf,
           new'.alen + (IF l \in {"alen", "spillalen"} THEN 1 ELSE 0)
             = new.alen + (IF pc[w] \in {"alen", "spillalen"} THEN 1 ELSE 0),
           new'.clen + (IF l = "clen" THEN 1 ELSE 0)
                     + (IF pc[w] \in {"spill", "spillalen", "uncount"} THEN 1 ELSE 0)
             = new.clen + (IF pc[w] = "clen" THEN 1 ELSE 0)
                        + (IF l \in {"spill", "spillalen", "uncount"} THEN 1 ELSE 0),
           new'.alen \in Int, new'.clen \in Int
    PROVE  CountInv'
<1>1. Leaves(new') = Leaves(new)
  BY Zenon DEF Leaves
<1>2. TypeOK /\ CountInv /\ new.alen \in Int /\ new.clen \in Int
  BY Zenon DEF IndInv, TypeOK, Stores
<1>3. Leaves(new) \in SUBSET Fact /\ new.always \in SUBSET Fact
  BY <1>2, Zenon DEF TypeOK, Stores, Leaves
<1>4. Cardinality(Leaves(new)) \in Nat /\ Cardinality(new.always) \in Nat
  BY <1>3, FiniteFacts, Zenon
<1> DEFINE a == Cardinality(ToAlen)       a1 == Cardinality(ToAlen')
           c == Cardinality(ToClen)       c1 == Cardinality(ToClen')
           u == Cardinality(Uncounting)   u1 == Cardinality(Uncounting')
           pa == IF pc[w] \in {"alen", "spillalen"} THEN 1 ELSE 0
           pl == IF pc[w] = "clen" THEN 1 ELSE 0
           pu == IF pc[w] \in {"spill", "spillalen", "uncount"} THEN 1 ELSE 0
           la == IF l \in {"alen", "spillalen"} THEN 1 ELSE 0
           lc == IF l = "clen" THEN 1 ELSE 0
           lu == IF l \in {"spill", "spillalen", "uncount"} THEN 1 ELSE 0
<1>5. /\ a \in Nat /\ a1 \in Nat /\ c \in Nat /\ c1 \in Nat /\ u \in Nat /\ u1 \in Nat
      /\ a1 + pa = a + la /\ c1 + pl = c + lc /\ u1 + pu = u + lu
  BY <1>2, PendingMoves, Zenon
<1>6. new.alen + a = Cardinality(new.always) /\ new.clen + c = Cardinality(Leaves(new)) + u
  BY <1>2, Zenon DEF CountInv
<1>7. /\ pa \in Nat /\ pl \in Nat /\ pu \in Nat /\ la \in Nat /\ lc \in Nat /\ lu \in Nat
      /\ new'.alen + la = new.alen + pa /\ new'.clen + lc + pu = new.clen + pl + lu
  BY Zenon
<1> HIDE DEF a, a1, c, c1, u, u1, pa, pl, pu, la, lc, lu
<1>8. new'.alen + a1 = Cardinality(new.always)
  BY <1>2, <1>4, <1>5, <1>6, <1>7
<1>9. new'.clen + c1 = Cardinality(Leaves(new)) + u1
  <2>1. new'.clen = new.clen + pl + lu - lc - pu
    BY <1>2, <1>7
  <2>2. c1 = c + lc - pl /\ u1 = u + lu - pu
    BY <1>5, <1>7
  <2>3. new'.clen + c1 = new.clen + c + lu - pu
    BY <1>2, <1>5, <1>7, <2>1, <2>2
  <2> QED BY <1>2, <1>4, <1>5, <1>6, <1>7, <2>2, <2>3
<1> QED BY <1>1, <1>8, <1>9, Zenon DEF CountInv, a1, c1, u1

\* A step that moves no row keeps the report of growth, if what is reported is the same.
LEMMA QuietReport ==
    ASSUME IndInv, NEW w \in Worker, Frame(w), pc[w] # "spill", pc'[w] # "spill",
           new'.always = new.always, new'.leaf = new.leaf,
           changed' \/ result'[w] \/ pc'[w] = "clen" <=> changed \/ result[w] \/ pc[w] = "clen"
    PROVE  ReportInv'
<1>1. \A v \in Worker \ {w} : pc'[v] = pc[v] /\ result'[v] = result[v]
  BY Zenon DEF Frame
<1>2. (changed' \/ \E v \in Worker : result'[v] \/ pc'[v] = "clen")
      <=> (changed \/ \E v \in Worker : result[v] \/ pc[v] = "clen")
  <2>1. (\E v \in Worker : result'[v] \/ pc'[v] = "clen")
        <=> (\E v \in Worker \ {w} : result[v] \/ pc[v] = "clen") \/ result'[w] \/ pc'[w] = "clen"
    BY <1>1, Zenon
  <2>2. (\E v \in Worker : result[v] \/ pc[v] = "clen")
        <=> (\E v \in Worker \ {w} : result[v] \/ pc[v] = "clen") \/ result[w] \/ pc[w] = "clen"
    BY Zenon
  <2> QED BY <2>1, <2>2, Zenon
<1>3. (\E v \in Worker : pc'[v] = "spill") <=> \E v \in Worker : pc[v] = "spill"
  BY <1>1, Zenon
<1> QED BY <1>2, <1>3, Zenon DEF ReportInv, IndInv

\* Taking a free lock, or releasing one's own, leaves the other threads theirs.
LEMMA LocksKeep ==
    ASSUME IndInv, NEW w \in Worker, pc[w] # "idle",
           \/ lock' = lock
           \/ pc[w] \in Locked /\ Release(w)
           \/ lock[shard(w)] = Nobody /\ lock' = [lock EXCEPT ![shard(w)] = w]
    PROVE  /\ lock' \in [{SideShard[f] : f \in Fact} -> Worker \cup {Nobody}]
           /\ \A v \in Worker \ {w} : pc[v] \in Locked => lock'[shard(v)] = v
<1>1. lock \in [{SideShard[f] : f \in Fact} -> Worker \cup {Nobody}]
  BY Zenon DEF IndInv, TypeOK
<1>2. \A v \in Worker : pc[v] # "idle" => shard(v) \in {SideShard[f] : f \in Fact}
  BY BusyRow, Zenon DEF shard
<1>3. \A v \in Worker \ {w} : pc[v] \in Locked => pc[v] # "idle" /\ lock[shard(v)] = v /\ v # Nobody
  BY CondTrieAssumption, Zenon DEF IndInv, WorkerInv, WorkerAt, Locked
<1>4. pc[w] \in Locked => lock[shard(w)] = w
  BY Zenon DEF IndInv, WorkerInv, WorkerAt
<1> QED BY <1>1, <1>2, <1>3, <1>4, Zenon DEF Release

\* An Always row, or a conditional one that meets an Always row.
LEMMA MeetsAlwaysKeeps ==
    ASSUME IndInv, NEW w \in Worker, fact(w) \in new.always, pc' = [pc EXCEPT ![w] = "return"],
           \/ pc[w] = "trie" /\ lock' = lock
           \/ pc[w] = "check" /\ Release(w),
           Yield(w, FALSE),
           UNCHANGED <<new, total, delta, arg, rows, changed, running, offered, saved>>
    PROVE  IndInv'
<1>1. pc[w] # "idle" /\ TypeOK /\ WorkerAt(w) /\ "return" \in Labels /\ pc'[w] = "return" /\ ~result'[w] /\ ~result[w]
  BY Zenon DEF IndInv, WorkerInv, WorkerAt, Reported, Labels, Yield, TypeOK
<1>2. running /\ fact(w) \in Fact
  BY <1>1, BusyRow, Zenon
<1>3. TypeOK' /\ Frame(w)
  <2>1. /\ lock' \in [{SideShard[f] : f \in Fact} -> Worker \cup {Nobody}]
        /\ \A v \in Worker \ {w} : pc[v] \in Locked => lock'[shard(v)] = v
    BY <1>1, LocksKeep, Zenon DEF Locked
  <2> QED BY <1>1, <1>2, <2>1, Zenon DEF TypeOK, Frame, Yield
<1>5. WorkerAt(w)'
  BY <1>1, Zenon DEF WorkerAt, Locked, Reported, fact, cond, known, HeldAt
<1>6. MergedInv' /\ WorkerInv' /\ NewsInv' /\ CoverInv'
  BY <1>1, <1>3, <1>5, QuietStep, Zenon
<1>7. CountInv'
  <2>1. new'.alen \in Int /\ new'.clen \in Int
    BY <1>1, Zenon DEF TypeOK, Stores
  <2> QED BY <1>1, <2>1, QuietCounts, Zenon
<1>8. ReportInv'
  BY <1>1, <1>3, QuietReport, Zenon
<1> QED BY <1>3, <1>6, <1>7, <1>8, Zenon DEF IndInv

\* The lengths of the trie follow its inserts.
LEMMA AlenKeeps ==
    ASSUME IndInv, NEW w \in Worker, AlwaysCount(w) \/ SpillCount(w)
    PROVE  IndInv'
<1> DEFINE l == IF pc[w] = "alen" THEN "return" ELSE "uncount"
<1>1. /\ pc[w] \in {"alen", "spillalen"} /\ pc' = [pc EXCEPT ![w] = l] /\ TypeOK /\ WorkerAt(w)
      /\ new' = Store(new.always, new.leaf, new.alen + 1, new.clen)
      /\ UNCHANGED <<total, delta, lock, arg, result, rows, changed, running, offered, saved>>
  BY Zenon DEF AlwaysCount, SpillCount, SetNew, Goto, IndInv, WorkerInv
<1>2. /\ new' \in Stores /\ new'.always = new.always /\ new'.leaf = new.leaf
      /\ new'.alen = new.alen + 1 /\ new'.clen = new.clen /\ new.alen \in Int /\ new.clen \in Int
  <2> DEFINE st == Store(new.always, new.leaf, new.alen + 1, new.clen)
  <2>1. /\ st \in Stores /\ st.always = new.always /\ st.leaf = new.leaf
        /\ st.alen = new.alen + 1 /\ st.clen = new.clen
    BY <1>1, NewParts, StoreType
  <2> QED BY <1>1, <2>1, NewParts, Zenon
<1>3. /\ pc[w] # "idle" /\ l \in Labels /\ pc'[w] = l /\ running /\ fact(w) \in Fact
      /\ pc[w] \notin Unjoined /\ pc[w] # "spill" /\ l # "spill" /\ l # "clen" /\ pc[w] # "clen"
  BY <1>1, BusyRow, Zenon DEF Labels, Reported, Locked, TypeOK, Unjoined
<1>4. TypeOK' /\ Frame(w)
  <2>1. \A v \in Worker \ {w} : pc[v] \in Locked => lock'[shard(v)] = v
    BY <1>1, <1>3, LocksKeep, Zenon
  <2> QED BY <1>1, <1>2, <1>3, <2>1, Zenon DEF TypeOK, Frame
<1>5. WorkerAt(w)'
  <2>1. known' = known
    BY <1>1, Zenon DEF known, HeldAt
  <2> QED BY <1>1, <1>2, <1>3, <2>1 DEF WorkerAt, Locked, Reported, fact, cond, shard
<1>6. MergedInv' /\ WorkerInv' /\ NewsInv' /\ CoverInv'
  BY <1>1, <1>2, <1>3, <1>4, <1>5, QuietStep, Zenon
<1>7. CountInv'
  <2>1. /\ new'.alen + (IF l \in {"alen", "spillalen"} THEN 1 ELSE 0)
             = new.alen + (IF pc[w] \in {"alen", "spillalen"} THEN 1 ELSE 0)
        /\ new'.alen \in Int /\ new'.clen \in Int
    BY <1>1, <1>2
  <2>2. new'.clen + (IF l = "clen" THEN 1 ELSE 0)
                  + (IF pc[w] \in {"spill", "spillalen", "uncount"} THEN 1 ELSE 0)
          = new.clen + (IF pc[w] = "clen" THEN 1 ELSE 0)
                     + (IF l \in {"spill", "spillalen", "uncount"} THEN 1 ELSE 0)
    BY <1>1, <1>2, Zenon
  <2> HIDE DEF l
  <2> QED BY <1>1, <1>2, <1>3, <2>1, <2>2, QuietCounts, Zenon
<1>8. ReportInv'
  BY <1>1, <1>2, <1>3, <1>4, QuietReport, Zenon
<1> QED BY <1>4, <1>6, <1>7, <1>8, Zenon DEF IndInv

\* The row counts of the side map follow its first leaves and its spills.
LEMMA ClenKeeps ==
    ASSUME IndInv, NEW w \in Worker, LeafCount(w) \/ SpillUncount(w)
    PROVE  IndInv'
<1> DEFINE n == IF pc[w] = "clen" THEN new.clen + 1 ELSE new.clen - 1
<1>1. /\ pc[w] \in {"clen", "uncount"} /\ pc' = [pc EXCEPT ![w] = "return"] /\ TypeOK /\ WorkerAt(w)
      /\ result' = IF pc[w] = "clen" THEN [result EXCEPT ![w] = TRUE] ELSE result
      /\ new' = Store(new.always, new.leaf, new.alen, n) /\ Release(w)
      /\ UNCHANGED <<total, delta, arg, rows, changed, running, offered, saved>>
  BY Zenon DEF LeafCount, SpillUncount, SetNew, Goto, Yield, IndInv, WorkerInv
<1>2. /\ new' \in Stores /\ new'.always = new.always /\ new'.leaf = new.leaf
      /\ new'.alen = new.alen /\ new'.clen = n /\ new.alen \in Int /\ new.clen \in Int /\ n \in Int
  <2>1. n \in Int
    BY <1>1, NewParts, Zenon
  <2> DEFINE st == Store(new.always, new.leaf, new.alen, n)
  <2>2. /\ st \in Stores /\ st.always = new.always /\ st.leaf = new.leaf
        /\ st.alen = new.alen /\ st.clen = n
    BY <1>1, <2>1, NewParts, StoreType
  <2> QED BY <1>1, <2>1, <2>2, NewParts, Zenon
<1>3. /\ pc[w] # "idle" /\ "return" \in Labels /\ pc'[w] = "return" /\ running /\ fact(w) \in Fact
      /\ pc[w] \notin Unjoined /\ pc[w] # "spill" /\ pc[w] \in Locked
  BY <1>1, BusyRow, Zenon DEF Labels, Reported, Locked, TypeOK, Unjoined
<1>4. TypeOK' /\ Frame(w)
  <2>1. /\ lock' \in [{SideShard[f] : f \in Fact} -> Worker \cup {Nobody}]
        /\ \A v \in Worker \ {w} : pc[v] \in Locked => lock'[shard(v)] = v
    BY <1>1, <1>3, LocksKeep, Zenon
  <2>2. result' \in [Worker -> BOOLEAN] /\ \A v \in Worker \ {w} : result'[v] = result[v]
    BY <1>1, Zenon DEF TypeOK
  <2> QED BY <1>1, <1>2, <1>3, <2>1, <2>2, Zenon DEF TypeOK, Frame
<1>5. WorkerAt(w)'
  <2>1. known' = known
    BY <1>1, Zenon DEF known, HeldAt
  <2> QED BY <1>1, <1>2, <1>3, <2>1, Zenon DEF WorkerAt, Locked, Reported, fact, cond, shard
<1>6. MergedInv' /\ WorkerInv' /\ NewsInv' /\ CoverInv'
  BY <1>1, <1>2, <1>3, <1>4, <1>5, QuietStep, Zenon
<1>7. CountInv'
  <2>1. /\ new'.alen + (IF "return" \in {"alen", "spillalen"} THEN 1 ELSE 0)
             = new.alen + (IF pc[w] \in {"alen", "spillalen"} THEN 1 ELSE 0)
        /\ new'.alen \in Int /\ new'.clen \in Int
    BY <1>1, <1>2, Zenon
  <2>2. new'.clen + (IF "return" = "clen" THEN 1 ELSE 0)
                  + (IF pc[w] \in {"spill", "spillalen", "uncount"} THEN 1 ELSE 0)
          = new.clen + (IF pc[w] = "clen" THEN 1 ELSE 0)
                     + (IF "return" \in {"spill", "spillalen", "uncount"} THEN 1 ELSE 0)
    BY <1>1, <1>2
  <2> QED BY <1>1, <1>2, <1>3, <2>1, <2>2, QuietCounts, Zenon
<1>8. ReportInv'
  <2>1. result'[w] \/ pc'[w] = "clen" <=> result[w] \/ pc[w] = "clen"
    BY <1>1, <1>3, Zenon DEF TypeOK
  <2> QED BY <1>1, <1>2, <1>3, <1>4, <2>1, QuietReport, Zenon
<1> QED BY <1>4, <1>6, <1>7, <1>8, Zenon DEF IndInv

\* A conditional row takes the lock of its group, and passes the trie check.
LEMMA LockKeeps ==
    ASSUME IndInv, NEW w \in Worker, LockEntry(w) \/ (CheckTrie(w) /\ fact(w) \notin new.always)
    PROVE  IndInv'
<1> DEFINE l == IF pc[w] = "entry" THEN "check" ELSE "join"
<1>1. /\ pc[w] \in {"entry", "check"} /\ pc' = [pc EXCEPT ![w] = l] /\ TypeOK /\ WorkerAt(w)
      /\ IF pc[w] = "entry" THEN lock[shard(w)] = Nobody /\ lock' = [lock EXCEPT ![shard(w)] = w]
         ELSE lock' = lock
      /\ UNCHANGED <<stores, arg, result, rows, changed, running, offered, saved>>
  BY Zenon DEF LockEntry, CheckTrie, Goto, IndInv, WorkerInv
<1>2. /\ pc[w] # "idle" /\ l \in Labels /\ pc'[w] = l /\ running /\ fact(w) \in Fact
      /\ l \in Unjoined /\ pc[w] # "spill" /\ l # "spill" /\ l # "clen" /\ pc[w] # "clen"
      /\ UNCHANGED <<total, delta, new>>
  BY <1>1, BusyRow, Zenon DEF Labels, Reported, Locked, TypeOK, Unjoined, stores
<1>3. TypeOK' /\ Frame(w)
  <2>1. /\ lock' \in [{SideShard[f] : f \in Fact} -> Worker \cup {Nobody}]
        /\ \A v \in Worker \ {w} : pc[v] \in Locked => lock'[shard(v)] = v
    BY <1>1, <1>2, LocksKeep, Zenon
  <2> QED BY <1>1, <1>2, <2>1, Zenon DEF TypeOK, Frame
<1>4. WorkerAt(w)'
  <2>1. known' = known
    BY <1>2, Zenon DEF known, HeldAt
  <2>2. lock'[shard(w)] = w
    <3>1. shard(w) \in {SideShard[f] : f \in Fact}
      BY <1>2, Zenon DEF shard
    <3> QED BY <1>1, <3>1, Zenon DEF TypeOK, WorkerAt, Locked
  <2> QED BY <1>1, <1>2, <2>1, <2>2 DEF WorkerAt, Locked, Reported, fact, cond, shard
<1>5. MergedInv' /\ WorkerInv' /\ NewsInv' /\ CoverInv'
  BY <1>1, <1>2, <1>3, <1>4, QuietStep, Zenon
<1>6. CountInv'
  <2>1. /\ new.alen \in Int /\ new.clen \in Int
        /\ l \notin {"alen", "spillalen", "clen", "spill", "uncount"}
        /\ pc[w] \notin {"alen", "spillalen", "clen", "spill", "uncount"}
    BY <1>1, NewParts, Zenon
  <2> HIDE DEF l
  <2> QED BY <1>1, <1>2, <2>1, QuietCounts, Zenon
<1>7. ReportInv'
  BY <1>1, <1>2, <1>3, QuietReport, Zenon
<1> QED BY <1>3, <1>5, <1>6, <1>7, Zenon DEF IndInv

\* Ascent counts a row that grew the store.
LEMMA ReturnKeeps ==
    ASSUME IndInv, NEW w \in Worker, Return(w)
    PROVE  IndInv'
<1>1. /\ pc[w] = "return" /\ pc' = [pc EXCEPT ![w] = "idle"] /\ TypeOK /\ WorkerAt(w)
      /\ rows' = (IF result[w] THEN rows + 1 ELSE rows) /\ changed' = (changed \/ result[w])
      /\ result' = [result EXCEPT ![w] = FALSE] /\ arg' = [arg EXCEPT ![w] = <<>>]
      /\ UNCHANGED <<total, delta, new, lock, running, offered, saved>>
  BY Zenon DEF Return, Goto, Yield, stores, IndInv, WorkerInv
<1>2. /\ "idle" \in Labels /\ pc'[w] = "idle" /\ running /\ ~result'[w]
      /\ pc[w] \notin Unjoined /\ pc[w] # "spill" /\ pc[w] # "clen" /\ pc[w] # "idle"
  BY <1>1, BusyRow, Zenon DEF Labels, TypeOK, Unjoined
<1>3. TypeOK' /\ Frame(w)
  <2>1. \A v \in Worker \ {w} : pc[v] \in Locked => lock'[shard(v)] = v
    BY <1>1, <1>2, LocksKeep, Zenon
  <2>2. arg' \in [Worker -> (Fact \X Offers) \cup {<<>>}] /\ \A v \in Worker \ {w} : arg'[v] = arg[v]
    BY <1>1, Zenon DEF TypeOK
  <2>3. rows' \in Nat /\ changed' \in BOOLEAN
    BY <1>1 DEF TypeOK
  <2> QED BY <1>1, <1>2, <2>1, <2>2, <2>3, Zenon DEF TypeOK, Frame
<1>4. WorkerAt(w)'
  BY <1>2, Zenon DEF WorkerAt, Locked, Reported
<1>5. MergedInv' /\ WorkerInv' /\ NewsInv' /\ CoverInv'
  BY <1>1, <1>2, <1>3, <1>4, QuietStep, Zenon
<1>6. CountInv'
  BY <1>1, <1>2, NewParts, QuietCounts, Zenon
<1>7. ReportInv'
  BY <1>1, <1>2, <1>3, QuietReport, Zenon
<1> QED BY <1>3, <1>5, <1>6, <1>7, Zenon DEF IndInv

\* total and delta hold what cond_at finds in them.
LEMMA FrozenHolds ==
    ASSUME IndInv, NEW f \in Fact
    PROVE  /\ CondAt(total, f) = HeldAt(total, f) /\ HeldAt(total, f) \in Held
           /\ CondAt(delta, f) = HeldAt(delta, f) /\ HeldAt(delta, f) \in Held
           /\ Known(f) = known[f]
           /\ known[f] = Add(HeldAt(total, f), HeldAt(delta, f))
<1>1. /\ CondAt(total, f) = HeldAt(total, f) /\ HeldAt(total, f) \in Held
      /\ CondAt(delta, f) = HeldAt(delta, f) /\ HeldAt(delta, f) \in Held
  BY CondAtHeld, Zenon DEF IndInv, TypeOK, MergedInv
<1>2. known[f] = IF HeldAt(delta, f) # NoCond THEN HeldAt(delta, f) ELSE HeldAt(total, f)
  BY Zenon DEF known
<1>3. HeldAt(delta, f) # NoCond => Add(HeldAt(total, f), HeldAt(delta, f)) = HeldAt(delta, f)
  BY Zenon DEF IndInv, MergedInv, Below
<1> QED BY <1>1, <1>2, <1>3, AddCases, Zenon DEF Known

\* A row is dropped iff what is known of its fact covers it.
LEMMA DropsCovered ==
    ASSUME IndInv, NEW f \in Fact, NEW c \in Cond
    PROVE  ContainsKey(total, f, c) \/ ContainsKey(delta, f, c) <=> Below(c, known[f])
<1> DEFINE t == HeldAt(total, f)
           d == HeldAt(delta, f)
<1>1. t \in Held /\ d \in Held /\ CondAt(total, f) = t /\ CondAt(delta, f) = d
  BY FrozenHolds, Zenon
<1>2. c \in Held /\ c # NoCond /\ NoCond \in Held
  BY CondDistinct, Zenon DEF Held
<1>3. ASSUME NEW h \in Held
      PROVE  h # NoCond /\ Covers(h, c) <=> Below(c, h)
  <2>1. CASE h = NoCond
    BY <1>2, <2>1, AddType, Zenon DEF Below
  <2>2. CASE h # NoCond
    <3>1. h \in Cond
      BY <2>2, Zenon DEF Held
    <3> QED BY <2>2, <3>1, CoversBelow, Zenon
  <2> QED BY <2>1, <2>2, Zenon
<1>4. ContainsKey(total, f, c) \/ ContainsKey(delta, f, c) <=> Below(c, t) \/ Below(c, d)
  BY <1>1, <1>3, Zenon DEF ContainsKey
<1>5. CASE d = NoCond
  <2>1. known[f] = t /\ ~Below(c, d)
    BY <1>1, <1>2, <1>5, AddType, Zenon DEF known, Below
  <2> QED BY <1>4, <2>1, Zenon
<1>6. CASE d # NoCond
  <2>1. known[f] = d /\ Below(t, d)
    BY <1>6, Zenon DEF known, IndInv, MergedInv
  <2>2. Below(c, t) => Below(c, d)
    BY <1>1, <1>2, <2>1, BelowOrder
  <2> QED BY <1>4, <2>1, <2>2, Zenon
<1> QED BY <1>5, <1>6, Zenon

\* A rule derives a row.
LEMMA DeriveKeeps ==
    ASSUME IndInv, NEW w \in Worker, NEW f \in Fact, NEW c \in Offers, Derive(w, f, c)
    PROVE  IndInv'
<1> DEFINE l == IF c = Always THEN "trie" ELSE "entry"
<1>1. /\ running /\ pc[w] = "idle" /\ TypeOK /\ WorkerAt(w)
      /\ offered' = [offered EXCEPT ![f] = @ \cup {c}]
      /\ IF ContainsKey(total, f, c) \/ ContainsKey(delta, f, c)
         THEN UNCHANGED <<pc, arg>>
         ELSE pc' = [pc EXCEPT ![w] = l] /\ arg' = [arg EXCEPT ![w] = <<f, c>>]
      /\ UNCHANGED <<total, delta, new, lock, result, rows, changed, running, saved>>
  BY Zenon DEF Derive, Goto, stores, IndInv, WorkerInv
<1>2. c \in Cond /\ c \in Held /\ c # NoCond
  BY CondTrieAssumption, CondDistinct, Zenon DEF Held
<1>3. /\ offered' \in [Fact -> SUBSET Cond] /\ offered'[f] = offered[f] \cup {c}
      /\ \A g \in Fact : offered[g] \subseteq offered'[g] /\ (g # f => offered'[g] = offered[g])
  BY <1>1, <1>2, Zenon DEF TypeOK
<1>4. known' = known
  BY <1>1, Zenon DEF known, HeldAt
<1>5. \A g \in Fact : \A a \in Held : Below(a, Least(offered[g])) => Below(a, Least(offered'[g]))
  BY <1>3, LeastGrows, Zenon DEF TypeOK
<1>6. NewsInv'
  <2> SUFFICES ASSUME NEW g \in Fact
               PROVE  /\ g \in new.always => ~Below(Always, known[g]) /\ Below(Always, Least(offered'[g]))
                      /\ new.leaf[g] # NoCond => ~Below(new.leaf[g], known[g])
                      /\ Below(new.leaf[g], Least(offered'[g]))
                      /\ Below(known[g], Least(offered'[g]))
    BY <1>1, <1>4, Zenon DEF NewsInv
  <2>1. known[g] \in Held /\ new.leaf[g] \in Held /\ Always \in Held
    BY <1>1, FactTypes, CondCases, Zenon DEF Held
  <2> QED BY <1>5, <2>1, Zenon DEF IndInv, NewsInv
<1>7. CASE ContainsKey(total, f, c) \/ ContainsKey(delta, f, c)
  <2>1. UNCHANGED <<pc, arg>>
    BY <1>1, <1>7, Zenon
  <2>2. TypeOK'
    BY <1>1, <1>3, <2>1, Zenon DEF TypeOK
  <2>3. Frame(w)
    <3>1. \A v \in Worker : pc[v] \in Locked => lock[shard(v)] = v
      BY Zenon DEF IndInv, WorkerInv, WorkerAt
    <3> QED BY <1>1, <1>3, <2>1, <3>1, Zenon DEF Frame
  <2>4. WorkerAt(w)'
    BY <1>1, <2>1, Zenon DEF WorkerAt, Locked, Reported
  <2>5. MergedInv' /\ WorkerInv'
    BY <2>2, <2>3, <2>4, OthersKeep, Zenon
  <2>6. CountInv' /\ ReportInv'
    BY <1>1, <2>1, Zenon DEF IndInv, CountInv, ReportInv, ToAlen, ToClen, Uncounting, Leaves
  <2>7. CoverInv'
    <3>1. Below(c, known[f])
      BY <1>2, <1>7, DropsCovered, Zenon
    <3> SUFFICES ASSUME NEW g \in Fact, NEW d \in offered'[g]
                 PROVE  \/ Below(d, known[g]) \/ g \in new.always \/ Below(d, new.leaf[g])
                        \/ \E v \in Worker : pc'[v] \in Unjoined /\ arg'[v] = <<g, d>>
                        \/ \E v \in Worker : pc'[v] = "spill" /\ arg'[v][1] = g /\ Below(d, saved'[v])
      BY <1>1, <1>4, ZenonT(60) DEF CoverInv, fact
    <3>2. (g = f /\ d = c) \/ d \in offered[g]
      BY <1>3, Zenon
    <3>3. \/ Below(d, known[g]) \/ g \in new.always \/ Below(d, new.leaf[g])
          \/ \E v \in Worker : pc[v] \in Unjoined /\ arg[v] = <<g, d>>
          \/ \E v \in Worker : pc[v] = "spill" /\ arg[v][1] = g /\ Below(d, saved[v])
      BY <3>1, <3>2, Zenon DEF IndInv, CoverInv, fact
    <3> QED BY <1>1, <2>1, <3>3, Zenon
  <2> QED BY <1>6, <2>2, <2>5, <2>6, <2>7, Zenon DEF IndInv
<1>8. CASE ~(ContainsKey(total, f, c) \/ ContainsKey(delta, f, c))
  <2>1. /\ pc' = [pc EXCEPT ![w] = l] /\ arg' = [arg EXCEPT ![w] = <<f, c>>] /\ l \in Labels
        /\ l \in {"trie", "entry"} /\ l \in Unjoined
    BY <1>1, <1>8, Zenon DEF Labels, Unjoined
  <2>2. /\ pc'[w] = l /\ arg'[w] = <<f, c>> /\ <<f, c>> \in Fact \X Offers
        /\ \A v \in Worker \ {w} : pc'[v] = pc[v] /\ arg'[v] = arg[v]
    BY <1>1, <2>1, Zenon DEF TypeOK
  <2>3. TypeOK'
    <3>1. pc' \in [Worker -> Labels] /\ arg' \in [Worker -> (Fact \X Offers) \cup {<<>>}]
      BY <1>1, <2>1, <2>2, Zenon DEF TypeOK
    <3> QED BY <1>1, <1>3, <3>1, Zenon DEF TypeOK
  <2>4. Frame(w)
    <3>1. \A v \in Worker : pc[v] \in Locked => lock[shard(v)] = v
      BY Zenon DEF IndInv, WorkerInv, WorkerAt
    <3> QED BY <1>1, <1>3, <2>2, <3>1, Zenon DEF Frame
  <2>5. WorkerAt(w)'
    <3>1. ~Below(c, known[f])
      BY <1>2, <1>8, DropsCovered, Zenon
    <3>2. fact(w)' = f /\ cond(w)' = c
      BY <2>2 DEF fact, cond
    <3>3. ~result'[w]
      BY <1>1, Zenon DEF WorkerAt, Reported
    <3> QED BY <1>1, <1>3, <1>4, <2>1, <2>2, <3>1, <3>2, <3>3, Zenon DEF WorkerAt, Locked, Reported
  <2>6. MergedInv' /\ WorkerInv'
    BY <2>3, <2>4, <2>5, OthersKeep, Zenon
  <2>7. CountInv'
    <3>1. l \notin {"alen", "spillalen", "clen", "spill", "uncount"}
      BY Zenon
    <3> HIDE DEF l
    <3> QED BY <1>1, <2>1, <3>1, NewParts, QuietCounts, Zenon
  <2>8. ReportInv'
    BY <1>1, <2>1, <2>2, <2>4, QuietReport, Zenon
  <2>9. CoverInv'
    <3> SUFFICES ASSUME NEW g \in Fact, NEW d \in offered'[g]
                 PROVE  \/ Below(d, known[g]) \/ g \in new.always \/ Below(d, new.leaf[g])
                        \/ \E v \in Worker : pc'[v] \in Unjoined /\ arg'[v] = <<g, d>>
                        \/ \E v \in Worker : pc'[v] = "spill" /\ arg'[v][1] = g /\ Below(d, saved'[v])
      BY <1>1, <1>4, Zenon DEF CoverInv, fact
    <3>1. CASE g = f /\ d = c
      BY <2>1, <2>2, <3>1, Zenon
    <3>2. CASE d \in offered[g]
      <4>1. \A v \in Worker : pc[v] \in Unjoined => v # w
        BY <1>1, Zenon DEF Unjoined
      <4>2. "spill" \in Unjoined
        BY Zenon DEF Unjoined
      <4>3. \/ Below(d, known[g]) \/ g \in new.always \/ Below(d, new.leaf[g])
            \/ \E v \in Worker : pc[v] \in Unjoined /\ arg[v] = <<g, d>>
            \/ \E v \in Worker : pc[v] = "spill" /\ arg[v][1] = g /\ Below(d, saved[v])
        BY <3>2, Zenon DEF IndInv, CoverInv, fact
      <4> QED BY <1>1, <2>2, <4>1, <4>2, <4>3, Zenon
    <3> QED BY <1>3, <3>1, <3>2, Zenon
  <2> QED BY <1>6, <2>3, <2>6, <2>7, <2>8, <2>9, Zenon DEF IndInv
<1> QED BY <1>7, <1>8, Zenon

\* A step on one fact loses nothing that was offered of the others.
LEMMA CoverOthers ==
    ASSUME IndInv, NEW w \in Worker, pc[w] # "idle", Frame(w), known' = known, UNCHANGED offered,
           \A g \in Fact \ {fact(w)} : new'.leaf[g] = new.leaf[g],
           \A c \in offered[fact(w)] :
               \/ Below(c, known[fact(w)]) \/ fact(w) \in new'.always \/ Below(c, new'.leaf[fact(w)])
               \/ \E v \in Worker : pc'[v] \in Unjoined /\ arg'[v] = <<fact(w), c>>
               \/ \E v \in Worker : pc'[v] = "spill" /\ arg'[v][1] = fact(w) /\ Below(c, saved'[v])
    PROVE  CoverInv'
<1> SUFFICES ASSUME NEW g \in Fact, NEW d \in offered[g]
             PROVE  \/ Below(d, known[g]) \/ g \in new'.always \/ Below(d, new'.leaf[g])
                    \/ \E v \in Worker : pc'[v] \in Unjoined /\ arg'[v] = <<g, d>>
                    \/ \E v \in Worker : pc'[v] = "spill" /\ arg'[v][1] = g /\ Below(d, saved'[v])
  BY ZenonT(60) DEF CoverInv, fact
<1>1. CASE g = fact(w)
  BY <1>1, Zenon
<1>2. CASE g # fact(w)
  <2>1. \A v \in Worker : arg[v] = <<g, d>> \/ fact(v) = g => v # w
    BY <1>2 DEF fact
  <2>2. \/ Below(d, known[g]) \/ g \in new.always \/ Below(d, new.leaf[g])
        \/ \E v \in Worker : pc[v] \in Unjoined /\ arg[v] = <<g, d>>
        \/ \E v \in Worker : pc[v] = "spill" /\ fact(v) = g /\ Below(d, saved[v])
    BY Zenon DEF IndInv, CoverInv
  <2>3. /\ \A v \in Worker \ {w} : pc'[v] = pc[v] /\ arg'[v] = arg[v] /\ saved'[v] = saved[v]
        /\ new.always \subseteq new'.always
    BY Zenon DEF Frame
  <2>4. \A v \in Worker \ {w} : fact(v) = arg'[v][1]
    BY <2>3, Zenon DEF fact
  <2> QED BY <1>2, <2>1, <2>2, <2>3, <2>4, ZenonT(60)
<1> QED BY <1>1, <1>2, Zenon

\* A row reaches the trie: it grows, or a spill finds that an Always row came first.
LEMMA TrieKeeps ==
    ASSUME IndInv, NEW w \in Worker, (AlwaysInsert(w) /\ fact(w) \notin new.always) \/ SpillInsert(w)
    PROVE  IndInv'
<1> DEFINE f == fact(w)
           g == f \notin new.always
           l == IF ~g THEN "uncount" ELSE IF pc[w] = "trie" THEN "alen" ELSE "spillalen"
<1>1. /\ pc[w] \in {"trie", "spill"} /\ pc' = [pc EXCEPT ![w] = l] /\ TypeOK /\ WorkerAt(w)
      /\ pc[w] = "trie" => g
      /\ IF g THEN new' = Store(new.always \cup {f}, new.leaf, new.alen, new.clen) ELSE new' = new
      /\ result' = [result EXCEPT ![w] = g]
      /\ saved' = IF pc[w] = "trie" THEN saved ELSE [saved EXCEPT ![w] = NoCond]
      /\ UNCHANGED <<total, delta, lock, arg, rows, changed, running, offered>>
  BY Zenon DEF AlwaysInsert, SpillInsert, SetNew, Goto, Yield, IndInv, WorkerInv
<1>2. /\ pc[w] # "idle" /\ l \in Labels /\ pc'[w] = l /\ result'[w] = g /\ ~result[w] /\ pc[w] # "clen"
      /\ l \in Reported /\ l # "clen" /\ l # "spill" /\ l # "return" /\ (l \in Locked <=> pc[w] = "spill")
  BY <1>1, Zenon DEF TypeOK, Labels, Reported, Locked, WorkerAt
<1>3. /\ running /\ f \in Fact /\ cond(w) \in Held /\ ~Below(cond(w), known[f])
      /\ Below(cond(w), Least(offered[f])) /\ known[f] \in Held /\ Least(offered[f]) \in Held
  BY <1>1, <1>2, BusyRow, FactTypes, Zenon
<1>4. /\ new' \in Stores /\ new'.always = new.always \cup {f} /\ new'.leaf = new.leaf
      /\ new'.alen = new.alen /\ new'.clen = new.clen
  <2> DEFINE st == Store(new.always \cup {f}, new.leaf, new.alen, new.clen)
  <2>1. st \in Stores /\ st.always = new.always \cup {f} /\ st.leaf = new.leaf /\ st.alen = new.alen /\ st.clen = new.clen
    BY <1>1, <1>3, NewParts, StoreType
  <2>2. CASE g
    BY <1>1, <2>1, <2>2, Zenon
  <2>3. CASE ~g
    BY <1>1, <2>3, Zenon DEF TypeOK
  <2> QED BY <2>2, <2>3, Zenon
<1>5. TypeOK' /\ Frame(w)
  <2>1. \A v \in Worker \ {w} : pc[v] \in Locked => lock'[shard(v)] = v
    BY <1>1, <1>2, LocksKeep, Zenon
  <2>2. /\ saved' \in [Worker -> Held \ {Always}] /\ \A v \in Worker \ {w} : saved'[v] = saved[v]
    BY <1>1, DecisionAssumption, Zenon DEF TypeOK, Held
  <2>3. /\ result' \in [Worker -> BOOLEAN] /\ \A v \in Worker \ {w} : result'[v] = result[v]
    BY <1>1, Zenon DEF TypeOK
  <2> QED BY <1>1, <1>2, <1>3, <1>4, <2>1, <2>2, <2>3, Zenon DEF TypeOK, Frame
<1>6. known' = known
  BY <1>1, Zenon DEF known, HeldAt
<1>7. WorkerAt(w)'
  <2>1. fact(w)' = f /\ cond(w)' = cond(w) /\ shard(w)' = shard(w)
    BY <1>1, Zenon DEF fact, cond, shard
  <2> HIDE DEF l
  <2> QED BY <1>1, <1>2, <1>4, <1>6, <2>1, Zenon DEF WorkerAt, Locked, Reported
<1>8. MergedInv' /\ WorkerInv'
  BY <1>5, <1>7, OthersKeep, Zenon
<1>9. CountInv'
  <2>1. TypeOK /\ CountInv /\ Leaves(new') = Leaves(new) /\ new.alen \in Int /\ new.clen \in Int
    BY <1>1, <1>4, NewParts, Zenon DEF IndInv, Leaves
  <2>2. /\ Cardinality(new.always) \in Nat
        /\ Cardinality(new'.always) = Cardinality(new.always) + (IF g THEN 1 ELSE 0)
    <3>1. new.always \in SUBSET Fact
      BY <2>1, NewParts, Zenon
    <3>2. CASE g
      BY <1>3, <1>4, <3>1, <3>2, AlwaysMoves, Zenon
    <3>3. CASE ~g
      <4>1. new'.always = new.always
        BY <1>4, <3>3, Zenon
      <4> QED BY <3>1, <3>3, <4>1, FiniteFacts
    <3> QED BY <3>2, <3>3, Zenon
  <2>3. /\ Cardinality(ToAlen) \in Nat
        /\ Cardinality(ToAlen') = Cardinality(ToAlen) + (IF g THEN 1 ELSE 0)
        /\ Cardinality(ToClen') = Cardinality(ToClen) /\ Cardinality(Uncounting') = Cardinality(Uncounting)
    <3>1. /\ l \in {"alen", "spillalen"} <=> g
          /\ pc[w] \notin {"alen", "spillalen"}
          /\ l \in {"spill", "spillalen", "uncount"} <=> pc[w] \in {"spill", "spillalen", "uncount"}
      BY <1>1, Zenon
    <3>2. pc[w] # "clen" /\ l # "clen"
      BY <1>2, Zenon
    <3> HIDE DEF l, g
    <3>3. /\ Cardinality(ToAlen) \in Nat /\ Cardinality(ToAlen') \in Nat
          /\ Cardinality(ToAlen') + (IF pc[w] \in {"alen", "spillalen"} THEN 1 ELSE 0)
               = Cardinality(ToAlen) + (IF l \in {"alen", "spillalen"} THEN 1 ELSE 0)
      BY <1>1, <1>2, PendingMoves, Zenon
    <3>4. /\ Cardinality(ToClen) \in Nat /\ Cardinality(ToClen') \in Nat
          /\ Cardinality(ToClen') + (IF pc[w] = "clen" THEN 1 ELSE 0)
               = Cardinality(ToClen) + (IF l = "clen" THEN 1 ELSE 0)
      BY <1>1, <1>2, PendingMoves, Zenon
    <3>5. /\ Cardinality(Uncounting) \in Nat /\ Cardinality(Uncounting') \in Nat
          /\ Cardinality(Uncounting') + (IF pc[w] \in {"spill", "spillalen", "uncount"} THEN 1 ELSE 0)
               = Cardinality(Uncounting) + (IF l \in {"spill", "spillalen", "uncount"} THEN 1 ELSE 0)
      BY <1>1, <1>2, PendingMoves, Zenon
    <3> QED BY <3>1, <3>2, <3>3, <3>4, <3>5
  <2> QED BY <1>4, <2>1, <2>2, <2>3 DEF CountInv
<1>10. ReportInv'
  <2>1. f \in new'.always
    BY <1>4, Zenon
  <2>2. changed' \/ \E v \in Worker : result'[v] \/ pc'[v] = "clen"
    <3>1. CASE g
      BY <1>2, <3>1, Zenon
    <3>2. CASE ~g
      <4>1. changed \/ \E v \in Worker : result[v] \/ pc[v] = "clen"
        BY <1>1, <3>2, Zenon DEF IndInv, ReportInv
      <4> QED BY <1>1, <1>2, <1>5, <4>1, ZenonT(60) DEF Frame
    <3> QED BY <3>1, <3>2, Zenon
  <2> QED BY <1>3, <2>1, <2>2, Zenon DEF ReportInv
<1>11. NewsInv'
  <2>1. Always \in Held
    BY CondCases, Zenon DEF Held
  <2>2. ~Below(Always, known[f])
    BY <1>3, <2>1, BelowOrder, Zenon
  <2>3. Below(Always, Least(offered[f]))
    <3>1. CASE pc[w] = "trie"
      BY <1>1, <1>3, <3>1, Zenon DEF WorkerAt
    <3>2. CASE pc[w] = "spill"
      <4>1. saved[w] \in Held /\ Below(saved[w], Least(offered[f])) /\ Add(saved[w], cond(w)) = Always
        BY <1>1, <3>2, Zenon DEF WorkerAt, TypeOK
      <4> QED BY <1>3, <4>1, BelowOrder, Zenon
    <3> QED BY <1>1, <3>1, <3>2, Zenon
  <2> QED BY <1>1, <1>4, <1>6, <2>2, <2>3, Zenon DEF IndInv, NewsInv
<1>12. CoverInv'
  <2>1. f \in new'.always
    BY <1>4, Zenon
  <2> QED BY <1>1, <1>2, <1>4, <1>5, <1>6, <2>1, CoverOthers, Zenon
<1> QED BY <1>5, <1>8, <1>9, <1>10, <1>11, <1>12, Zenon DEF IndInv

\* A conditional row that passed the trie check changes its fact's leaf: it is the
\* first leaf, it joins, or the join is Always and the leaf leaves the side map.
LEMMA LeafKeeps ==
    ASSUME IndInv, NEW w \in Worker, NewLeaf(w) \/ JoinLeaf(w) \/ SpillRemove(w)
    PROVE  IndInv'
<1> DEFINE f == fact(w)
           a == new.leaf[f]
           c == cond(w)
           spills == a # NoCond /\ Add(a, c) = Always
           b == IF spills THEN NoCond ELSE Add(a, c)
           l == IF a = NoCond THEN "clen" ELSE IF spills THEN "spill" ELSE "return"
<1>1. TypeOK /\ WorkerAt(w) /\ pc[w] = "join"
  BY Zenon DEF NewLeaf, JoinLeaf, SpillRemove, IndInv, WorkerInv
<1>2. /\ running /\ f \in Fact /\ c \in Held /\ c # NoCond /\ c \in offered[f] /\ ~Below(c, known[f])
      /\ Below(c, Least(offered[f])) /\ known[f] \in Held /\ Least(offered[f]) \in Held
      /\ a \in Held /\ a # Always /\ arg[w] = <<f, c>> /\ c # Always
  BY <1>1, BusyRow, FactTypes, Zenon DEF WorkerAt, Locked
<1>3. /\ a = NoCond => Add(a, c) = c
      /\ a # NoCond => Add(a, c) = Joined(w)
      /\ Add(a, c) \in Held /\ Add(a, c) # NoCond
  BY <1>2, AddCases, AddType, ZenonT(60) DEF Joined
<1>4. /\ pc' = [pc EXCEPT ![w] = l]
      /\ new' = Store(new.always, [new.leaf EXCEPT ![f] = b], new.alen, new.clen)
      /\ result' = IF l = "return" THEN [result EXCEPT ![w] = (b # a)] ELSE result
      /\ lock' = IF l = "return" THEN [lock EXCEPT ![shard(w)] = Nobody] ELSE lock
      /\ saved' = IF spills THEN [saved EXCEPT ![w] = a] ELSE saved
      /\ UNCHANGED <<total, delta, arg, rows, changed, running, offered>>
  <2>1. CASE NewLeaf(w)
    BY <1>3, <2>1, Zenon DEF NewLeaf, SetLeaf, SetNew, Goto
  <2>2. CASE JoinLeaf(w)
    BY <1>3, <2>2, Zenon DEF JoinLeaf, SetLeaf, SetNew, Goto, Yield, Release
  <2>3. CASE SpillRemove(w)
    BY <1>3, <2>3, Zenon DEF SpillRemove, SetLeaf, SetNew, Goto
  <2> QED BY <2>1, <2>2, <2>3, Zenon
<1>5. /\ b \in Held /\ b # Always /\ (b = NoCond <=> spills) /\ (a = NoCond => b = c)
      /\ (~spills => b = Add(a, c)) /\ (spills => a # NoCond)
  BY <1>2, <1>3, DecisionAssumption, Zenon DEF Held
<1>6. /\ l \in Labels /\ l # "idle" /\ l # "alen" /\ l # "spillalen" /\ l # "uncount"
      /\ (l = "clen" <=> a = NoCond) /\ (l = "spill" <=> spills)
      /\ (l = "return" <=> a # NoCond /\ ~spills) /\ (l \in Locked <=> l # "return")
      /\ "return" \in Reported /\ "spill" \notin Reported /\ "clen" \notin Reported /\ pc[w] \notin Reported
      /\ pc[w] \in Locked /\ pc[w] # "idle"
  BY <1>1, Zenon DEF Labels, Reported, Locked
<1> HIDE DEF l, b, spills
<1>7. /\ new' \in Stores /\ new'.always = new.always /\ new'.leaf = [new.leaf EXCEPT ![f] = b]
      /\ new'.alen = new.alen /\ new'.clen = new.clen /\ new'.leaf[f] = b
      /\ \A g \in Fact \ {f} : new'.leaf[g] = new.leaf[g]
  <2> DEFINE fn == [new.leaf EXCEPT ![f] = b]
             st == Store(new.always, fn, new.alen, new.clen)
  <2>1. fn \in [Fact -> Held \ {Always}] /\ fn[f] = b /\ \A g \in Fact \ {f} : fn[g] = new.leaf[g]
    BY <1>1, <1>2, <1>5, NewParts, Zenon
  <2> HIDE DEF fn
  <2>2. st \in Stores /\ st.always = new.always /\ st.leaf = fn /\ st.alen = new.alen /\ st.clen = new.clen
    BY <1>1, <2>1, NewParts, StoreType
  <2>3. new' = st
    BY <1>4, Zenon DEF fn
  <2> QED BY <2>1, <2>2, <2>3, Zenon DEF fn
<1>8. /\ pc'[w] = l /\ saved' \in [Worker -> Held \ {Always}] /\ result' \in [Worker -> BOOLEAN]
      /\ \A v \in Worker \ {w} : saved'[v] = saved[v] /\ result'[v] = result[v] /\ pc'[v] = pc[v]
      /\ (spills => saved'[w] = a) /\ (l # "return" => ~result'[w]) /\ ~result[w]
      /\ (l = "return" => (result'[w] <=> b # a))
  <2>1. ~result[w]
    BY <1>1, <1>6, Zenon DEF WorkerAt
  <2> QED BY <1>1, <1>2, <1>4, <2>1, Zenon DEF TypeOK
<1>9. TypeOK' /\ Frame(w)
  <2>1. /\ lock' \in [{SideShard[g] : g \in Fact} -> Worker \cup {Nobody}]
        /\ \A v \in Worker \ {w} : pc[v] \in Locked => lock'[shard(v)] = v
    BY <1>4, <1>6, LocksKeep, Zenon DEF Release
  <2>2. \A v \in Worker \ {w} : pc[v] \in Locked => fact(v) \in Fact /\ fact(v) # f
    <3>1. \A v \in Worker \ {w} : pc[v] \in Locked => fact(v) \in Fact
      BY BusyRow, Zenon DEF Locked
    <3> QED BY <1>6, <3>1, Exclusive, Zenon DEF shard
  <2>3. pc' \in [Worker -> Labels]
    BY <1>1, <1>4, <1>6, Zenon DEF TypeOK
  <2>4. TypeOK'
    BY <1>1, <1>4, <1>7, <1>8, <2>1, <2>3, Zenon DEF TypeOK
  <2> QED BY <1>2, <1>4, <1>7, <1>8, <2>1, <2>2, <2>4, Zenon DEF Frame
<1>10. known' = known
  BY <1>4, Zenon DEF known, HeldAt
<1>11. Below(a, Least(offered[f])) /\ (a # NoCond => ~Below(a, known[f]))
  BY <1>2, Zenon DEF IndInv, NewsInv
<1>12. WorkerAt(w)'
  <2>1. fact(w)' = f /\ cond(w)' = c /\ shard(w)' = shard(w) /\ arg'[w] = arg[w]
    BY <1>4, Zenon DEF fact, cond, shard
  <2>2. l # "return" => lock'[shard(w)] = w
    BY <1>1, <1>4, <1>6, Zenon DEF WorkerAt
  <2>3. /\ running' /\ arg'[w] \in Fact \X Offers /\ offered'[f] = offered[f]
    BY <1>1, <1>2, <1>4, <1>6, <2>1, Zenon DEF WorkerAt
  <2>4. spills => new'.leaf[f] = NoCond /\ saved'[w] # NoCond /\ Add(saved'[w], c) = Always
                  /\ Below(saved'[w], Least(offered[f]))
    BY <1>5, <1>7, <1>8, <1>11, Zenon DEF spills
  <2>5. l = "clen" => new'.leaf[f] # NoCond
    BY <1>5, <1>6, <1>7, Zenon
  <2> QED BY <1>2, <1>4, <1>6, <1>8, <1>10, <2>1, <2>2, <2>3, <2>4, <2>5, Zenon DEF WorkerAt, Locked, Reported
<1>13. MergedInv' /\ WorkerInv'
  BY <1>9, <1>12, OthersKeep, Zenon
<1>14. CountInv'
  <2>1. TypeOK /\ CountInv /\ new.alen \in Int /\ new.clen \in Int
    BY <1>1, NewParts, Zenon DEF IndInv
  <2>2. /\ Cardinality(Leaves(new)) \in Nat /\ Cardinality(Leaves(new')) \in Nat
        /\ Cardinality(Leaves(new')) + (IF a # NoCond THEN 1 ELSE 0)
             = Cardinality(Leaves(new)) + (IF b # NoCond THEN 1 ELSE 0)
    <3>1. new \in Stores
      BY <1>1, Zenon DEF TypeOK
    <3>2. f \in Fact /\ new' \in Stores /\ new'.leaf = [new.leaf EXCEPT ![f] = b]
      BY <1>2, <1>7, Zenon
    <3> QED BY <3>1, <3>2, LeafMoves, Zenon
  <2>3. /\ Cardinality(ToAlen) \in Nat /\ Cardinality(ToAlen') \in Nat
        /\ Cardinality(ToAlen') + (IF pc[w] \in {"alen", "spillalen"} THEN 1 ELSE 0)
             = Cardinality(ToAlen) + (IF l \in {"alen", "spillalen"} THEN 1 ELSE 0)
    BY <1>1, <1>4, <1>6, PendingMoves, Zenon
  <2>4. /\ Cardinality(ToClen) \in Nat /\ Cardinality(ToClen') \in Nat
        /\ Cardinality(ToClen') + (IF pc[w] = "clen" THEN 1 ELSE 0)
             = Cardinality(ToClen) + (IF l = "clen" THEN 1 ELSE 0)
    BY <1>1, <1>4, <1>6, PendingMoves, Zenon
  <2>5. /\ Cardinality(Uncounting) \in Nat /\ Cardinality(Uncounting') \in Nat
        /\ Cardinality(Uncounting') + (IF pc[w] \in {"spill", "spillalen", "uncount"} THEN 1 ELSE 0)
             = Cardinality(Uncounting) + (IF l \in {"spill", "spillalen", "uncount"} THEN 1 ELSE 0)
    BY <1>1, <1>4, <1>6, PendingMoves, Zenon
  <2>6. Cardinality(ToAlen') = Cardinality(ToAlen)
    BY <1>1, <1>6, <2>3
  <2>7. Cardinality(ToClen') + Cardinality(Leaves(new)) + Cardinality(Uncounting)
          = Cardinality(ToClen) + Cardinality(Leaves(new')) + Cardinality(Uncounting')
    <3>1. Cardinality(ToClen') = Cardinality(ToClen) + (IF a = NoCond THEN 1 ELSE 0)
      BY <1>1, <1>6, <2>4
    <3>2. Cardinality(Uncounting') = Cardinality(Uncounting) + (IF spills THEN 1 ELSE 0)
      BY <1>1, <1>6, <2>5
    <3>3. Cardinality(Leaves(new')) + (IF a # NoCond THEN 1 ELSE 0)
            = Cardinality(Leaves(new)) + (IF spills THEN 0 ELSE 1)
      BY <1>5, <2>2, Zenon
    <3> HIDE DEF a
    <3> QED BY <1>5, <2>2, <2>4, <2>5, <3>1, <3>2, <3>3
  <2>8. new.alen + Cardinality(ToAlen) = Cardinality(new.always)
        /\ new.clen + Cardinality(ToClen) = Cardinality(Leaves(new)) + Cardinality(Uncounting)
    BY <2>1, Zenon DEF CountInv
  <2>9. new.clen + Cardinality(ToClen') = Cardinality(Leaves(new')) + Cardinality(Uncounting')
    BY <2>1, <2>2, <2>4, <2>5, <2>7, <2>8
  <2> QED BY <1>7, <2>6, <2>8, <2>9, Zenon DEF CountInv
<1>15. ReportInv'
  <2>1. new'.leaf[f] # NoCond \/ pc'[w] = "spill"
    BY <1>5, <1>6, <1>7, <1>8, Zenon
  <2>2. changed' \/ \E v \in Worker : result'[v] \/ pc'[v] = "clen"
    <3>1. CASE a = NoCond
      BY <1>6, <1>8, <3>1, Zenon
    <3>2. CASE a # NoCond
      <4>1. changed \/ \E v \in Worker : result[v] \/ pc[v] = "clen"
        BY <1>2, <3>2, Zenon DEF IndInv, ReportInv
      <4>2. ~result[w] /\ pc[w] # "clen" /\ changed' = changed
        BY <1>1, <1>4, <1>8, Zenon
      <4> QED BY <1>8, <4>1, <4>2, Zenon
    <3> QED BY <3>1, <3>2, Zenon
  <2> QED BY <1>2, <2>1, <2>2, Zenon DEF ReportInv
<1>16. NewsInv'
  <2>1. b # NoCond => ~Below(b, known[f])
    <3>1. CASE spills
      BY <1>5, <3>1, Zenon
    <3>2. CASE ~spills
      <4>1. b = Add(a, c) /\ Below(c, b)
        BY <1>2, <1>5, <3>2, BelowOrder
      <4> QED BY <1>2, <1>5, <4>1, BelowOrder
    <3> QED BY <3>1, <3>2, Zenon
  <2>2. Below(b, Least(offered[f]))
    <3>1. CASE spills
      BY <1>2, <1>5, <3>1, BelowOrder
    <3>2. CASE ~spills
      BY <1>2, <1>5, <1>11, <3>2, BelowOrder
    <3> QED BY <3>1, <3>2, Zenon
  <2> QED BY <1>4, <1>7, <1>10, <2>1, <2>2, Zenon DEF IndInv, NewsInv
<1>17. CoverInv'
  <2> SUFFICES ASSUME NEW d \in offered[f]
               PROVE  \/ Below(d, known[f]) \/ f \in new'.always \/ Below(d, new'.leaf[f])
                      \/ \E v \in Worker : pc'[v] \in Unjoined /\ arg'[v] = <<f, d>>
                      \/ \E v \in Worker : pc'[v] = "spill" /\ arg'[v][1] = f /\ Below(d, saved'[v])
    BY <1>4, <1>6, <1>7, <1>9, <1>10, CoverOthers, Zenon
  <2>1. d \in Held /\ "spill" \in Unjoined
    BY <1>1, <1>2, FactTypes, Zenon DEF Held, Unjoined
  <2>2. arg'[w] = <<f, c>> /\ arg'[w][1] = f
    BY <1>2, <1>4
  <2>3. CASE Below(d, a) \/ d = c
    <3>1. CASE spills
      BY <1>6, <1>8, <2>1, <2>2, <2>3, <3>1, Zenon
    <3>2. CASE ~spills
      <4>1. Below(a, b) /\ Below(c, b)
        BY <1>2, <1>5, <3>2, BelowOrder
      <4> QED BY <1>2, <1>5, <1>7, <2>1, <2>3, <4>1, BelowOrder
    <3> QED BY <3>1, <3>2, Zenon
  <2>4. CASE \E v \in Worker : pc[v] \in Unjoined /\ arg[v] = <<f, d>>
    <3>1. PICK v \in Worker : pc[v] \in Unjoined /\ arg[v] = <<f, d>>
      BY <2>4, Zenon
    <3>2. CASE v = w
      BY <1>2, <2>3, <3>1, <3>2
    <3>3. CASE v # w
      BY <1>4, <1>8, <3>1, <3>3, Zenon
    <3> QED BY <3>2, <3>3, Zenon
  <2>5. CASE \E v \in Worker : pc[v] = "spill" /\ fact(v) = f /\ Below(d, saved[v])
    <3>1. PICK v \in Worker : pc[v] = "spill" /\ fact(v) = f /\ Below(d, saved[v])
      BY <2>5, Zenon
    <3>2. v = w
      BY <1>6, <3>1, Exclusive, Zenon DEF shard, Locked
    <3> QED BY <1>1, <3>1, <3>2, Zenon
  <2> QED BY <1>2, <1>7, <2>3, <2>4, <2>5, Zenon DEF IndInv, CoverInv
<1> QED BY <1>9, <1>13, <1>14, <1>15, <1>16, <1>17, Zenon DEF IndInv

\* What new holds once every insert has returned.
LEMMA IdleCounts ==
    ASSUME IndInv, Idle
    PROVE  /\ new \in Stores /\ Counted(new)
           /\ \A f \in Fact : CondAt(new, f) = HeldAt(new, f) /\ HeldAt(new, f) \in Held
           /\ \A w \in Worker : ~result[w]
           /\ changed <=> \E f \in Fact : HeldAt(new, f) # NoCond
<1>1. TypeOK /\ CountInv /\ ReportInv /\ new \in Stores /\ new.alen \in Int /\ new.clen \in Int
  BY NewParts, Zenon DEF IndInv, TypeOK
<1>2. \A w \in Worker : pc[w] = "idle" /\ ~result[w]
  BY Zenon DEF Idle, IndInv, WorkerInv, WorkerAt, Reported
<1>3. ToAlen = {} /\ ToClen = {} /\ Uncounting = {}
  BY <1>2, Zenon DEF ToAlen, ToClen, Uncounting
<1>4. Cardinality(ToAlen) = 0 /\ Cardinality(ToClen) = 0 /\ Cardinality(Uncounting) = 0
  BY <1>3, FS_EmptySet, Zenon
<1>5. Leaves(new) \in SUBSET Fact /\ new.always \in SUBSET Fact
  BY <1>1, NewParts, Zenon DEF Leaves
<1>6. Cardinality(Leaves(new)) \in Nat /\ Cardinality(new.always) \in Nat
  BY <1>5, FiniteFacts, Zenon
<1>7. Counted(new)
  BY <1>1, <1>4, <1>6 DEF CountInv, Counted
<1>8. \A f \in Fact : HeldAt(new, f) # NoCond <=> f \in new.always \/ new.leaf[f] # NoCond
  BY DecisionAssumption, Zenon DEF HeldAt
<1>9. changed <=> \E f \in Fact : f \in new.always \/ new.leaf[f] # NoCond
  <2>1. \A w \in Worker : pc[w] # "clen" /\ pc[w] # "spill" /\ ~result[w]
    BY <1>2, Zenon
  <2> QED BY <1>1, <2>1, Zenon DEF ReportInv, TypeOK
<1> QED BY <1>1, <1>2, <1>7, <1>8, <1>9, CondAtHeld, Zenon

\* The merge moves what was known to total, and its joins with what was found to delta.
LEMMA MergeHolds ==
    ASSUME IndInv, Merge
    PROVE  /\ Idle /\ total' \in Stores /\ delta' \in Stores
           /\ Counted(total') /\ Counted(delta') /\ Split(total') /\ Split(delta')
           /\ \A f \in Fact :
                /\ HeldAt(total', f) = known[f]
                /\ HeldAt(delta', f) = IF HeldAt(new, f) = NoCond THEN NoCond
                                       ELSE Add(known[f], HeldAt(new, f))
                /\ HeldAt(new, f) # NoCond => ~Below(HeldAt(new, f), known[f])
                /\ known'[f] = Add(known[f], HeldAt(new, f))
<1>1. /\ TypeOK /\ MergedInv /\ Idle
      /\ total' = Absorb(total, delta) /\ delta' = Refine(new, total')
  BY Zenon DEF Merge, IndInv, Idle
<1>2. new \in Stores /\ Counted(new) /\ \A f \in Fact : HeldAt(new, f) \in Held
  BY <1>1, IdleCounts, Zenon
<1>3. /\ total' \in Stores /\ Counted(total') /\ Split(total')
      /\ \A f \in Fact : HeldAt(total', f) = Add(HeldAt(total, f), HeldAt(delta, f))
  BY <1>1, AbsorbHolds, Zenon DEF TypeOK, MergedInv
<1>4. \A f \in Fact : HeldAt(total', f) = known[f] /\ known[f] \in Held
  BY <1>1, <1>3, FrozenHolds, FactTypes, Zenon
<1>5. /\ delta' \in Stores /\ Counted(delta') /\ Split(delta')
      /\ \A f \in Fact : HeldAt(delta', f) = IF f \in new.always THEN Always
                                             ELSE IF Below(new.leaf[f], HeldAt(total', f)) THEN NoCond
                                             ELSE Add(new.leaf[f], HeldAt(total', f))
  BY <1>1, <1>2, <1>3, RefineHolds, Zenon
<1>6. ASSUME NEW f \in Fact
      PROVE  HeldAt(new, f) # NoCond => ~Below(HeldAt(new, f), known[f])
  BY Zenon DEF IndInv, NewsInv, HeldAt
<1>7. ASSUME NEW f \in Fact
      PROVE  HeldAt(delta', f) = IF HeldAt(new, f) = NoCond THEN NoCond
                                 ELSE Add(known[f], HeldAt(new, f))
  <2>1. known[f] \in Held /\ HeldAt(new, f) \in Held /\ HeldAt(total', f) = known[f] /\ Always \in Held
    BY <1>2, <1>4, CondCases, Zenon DEF Held
  <2>2. CASE f \in new.always
    <3>1. HeldAt(new, f) = Always /\ HeldAt(delta', f) = Always
      BY <1>5, <2>2, Zenon DEF HeldAt
    <3>2. Add(known[f], Always) = Always /\ Always # NoCond
      BY <2>1, AddType, DecisionAssumption, Zenon
    <3> QED BY <3>1, <3>2, Zenon
  <2>3. CASE f \notin new.always
    <3>1. HeldAt(new, f) = new.leaf[f]
      BY <2>3, Zenon DEF HeldAt
    <3>2. new.leaf[f] = NoCond => Below(new.leaf[f], known[f])
      BY <2>1, BelowOrder
    <3>3. Add(new.leaf[f], known[f]) = Add(known[f], new.leaf[f])
      BY <2>1, <3>1, AddCommutes, Zenon
    <3> QED BY <1>5, <1>6, <2>1, <2>3, <3>1, <3>2, <3>3, Zenon
  <2> QED BY <2>2, <2>3, Zenon
<1>8. ASSUME NEW f \in Fact
      PROVE  known'[f] = Add(known[f], HeldAt(new, f))
  <2>1. known'[f] = IF HeldAt(delta', f) # NoCond THEN HeldAt(delta', f) ELSE HeldAt(total', f)
    BY Zenon DEF known
  <2>2. known[f] \in Held /\ HeldAt(new, f) \in Held /\ HeldAt(total', f) = known[f]
    BY <1>2, <1>4, Zenon
  <2>3. Add(known[f], NoCond) = known[f] /\ (HeldAt(new, f) # NoCond => Add(known[f], HeldAt(new, f)) # NoCond)
    BY <2>2, AddCases, AddType, Zenon DEF Held
  <2> QED BY <1>7, <2>1, <2>2, <2>3, Zenon
<1> QED BY <1>1, <1>3, <1>4, <1>5, <1>6, <1>7, <1>8, Zenon

\* The empty store.
LEMMA EmptyHolds ==
    /\ Empty \in Stores /\ Counted(Empty) /\ Split(Empty) /\ Leaves(Empty) = {} /\ Empty.always = {}
    /\ Empty.alen = 0 /\ Empty.clen = 0
    /\ \A f \in Fact : Empty.leaf[f] = NoCond /\ HeldAt(Empty, f) = NoCond
<1> DEFINE fn == [f \in Fact |-> NoCond]
<1>1. fn \in [Fact -> Held \ {Always}] /\ \A f \in Fact : fn[f] = NoCond
  BY DecisionAssumption, Zenon DEF Held
<1>2. Empty = Store({}, fn, 0, 0)
  BY Zenon DEF Empty
<1> HIDE DEF fn
<1>3. /\ Empty \in Stores /\ Empty.always = {} /\ Empty.leaf = fn /\ Empty.alen = 0 /\ Empty.clen = 0
  BY <1>1, <1>2, StoreType
<1>4. Leaves(Empty) = {}
  BY <1>1, <1>3, Zenon DEF Leaves
<1> QED BY <1>1, <1>3, <1>4, FS_EmptySet, Zenon DEF Counted, Split, HeldAt

\* The merge preserves the invariant: what was found is known, and nothing is found yet.
LEMMA MergeKeeps ==
    ASSUME IndInv, Merge
    PROVE  IndInv'
<1>1. /\ TypeOK /\ new' = Empty /\ running' = changed /\ changed' = FALSE /\ delta' = Refine(new, total')
      /\ UNCHANGED <<lock, pc, arg, result, rows, offered, saved>>
  BY Zenon DEF Merge, IndInv
<1>2. /\ Idle /\ total' \in Stores /\ delta' \in Stores
      /\ Counted(total') /\ Counted(delta') /\ Split(total') /\ Split(delta')
  BY MergeHolds, Zenon
<1>3. \A f \in Fact : /\ HeldAt(total', f) = known[f]
                      /\ HeldAt(delta', f) = IF HeldAt(new, f) = NoCond THEN NoCond
                                             ELSE Add(known[f], HeldAt(new, f))
                      /\ HeldAt(new, f) # NoCond => ~Below(HeldAt(new, f), known[f])
                      /\ known'[f] = Add(known[f], HeldAt(new, f))
  BY MergeHolds, Zenon
<1>4. /\ new \in Stores /\ Counted(new) /\ (\A w \in Worker : ~result[w])
      /\ \A f \in Fact : HeldAt(new, f) \in Held /\ known[f] \in Held /\ Least(offered[f]) \in Held
      /\ changed <=> \E f \in Fact : HeldAt(new, f) # NoCond
  BY <1>1, <1>2, IdleCounts, FactTypes, Zenon
<1>5. TypeOK'
  BY <1>1, <1>2, EmptyHolds, Zenon DEF TypeOK
<1>6. MergedInv'
  <2>1. ASSUME NEW f \in Fact, HeldAt(delta', f) # NoCond
        PROVE  Below(HeldAt(total', f), HeldAt(delta', f)) /\ HeldAt(total', f) # HeldAt(delta', f)
    <3>1. /\ HeldAt(delta', f) = Add(known[f], HeldAt(new, f)) /\ HeldAt(total', f) = known[f]
          /\ ~Below(HeldAt(new, f), known[f])
      BY <1>3, <2>1, Zenon
    <3>2. Below(known[f], Add(known[f], HeldAt(new, f))) /\ Below(HeldAt(new, f), Add(known[f], HeldAt(new, f)))
      BY <1>4, BelowOrder
    <3> QED BY <3>1, <3>2, Zenon
  <2>2. ~changed => delta' = Empty
    <3> SUFFICES ASSUME ~changed PROVE delta' = Empty
      BY Zenon
    <3>1. \A f \in Fact : f \notin new.always /\ new.leaf[f] = NoCond
      BY <1>4, DecisionAssumption, Zenon DEF HeldAt
    <3>2. new.always = {} /\ Leaves(new) = {} /\ new.leaf = [f \in Fact |-> NoCond]
      BY <1>4, <3>1, Zenon DEF Leaves, Stores
    <3>3. new.alen = 0 /\ new.clen = 0
      BY <1>4, <3>2, FS_EmptySet, Zenon DEF Counted
    <3>4. new = Empty
      BY <1>4, <3>2, <3>3, Zenon DEF Empty, Store, Stores
    <3> QED BY <1>1, <3>3, <3>4, Zenon DEF Refine
  <2> QED BY <1>1, <1>2, <2>1, <2>2, Zenon DEF MergedInv
<1>7. WorkerInv'
  BY <1>1, <1>2, <1>4, Zenon DEF WorkerInv, WorkerAt, Idle, Locked, Reported
<1>8. CountInv' /\ ReportInv'
  <2>1. \A w \in Worker : pc'[w] = "idle" /\ ~result'[w]
    BY <1>1, <1>2, <1>4, Zenon DEF Idle
  <2>2. ToAlen' = {} /\ ToClen' = {} /\ Uncounting' = {}
    BY <2>1, Zenon DEF ToAlen, ToClen, Uncounting
  <2>3. Cardinality({}) = 0
    BY FS_EmptySet, Zenon
  <2>4. CountInv'
    BY <1>1, <2>2, <2>3, EmptyHolds DEF CountInv
  <2> QED BY <1>1, <2>1, <2>4, EmptyHolds, Zenon DEF ReportInv
<1>9. \A f \in Fact : Below(HeldAt(new, f), Least(offered[f])) /\ Below(known[f], Least(offered[f]))
  BY Zenon DEF IndInv, NewsInv, HeldAt
<1>10. NewsInv'
  <2>1. \A f \in Fact : Below(known'[f], Least(offered[f])) /\ Below(NoCond, Least(offered[f]))
    BY <1>3, <1>4, <1>9, BelowOrder
  <2> QED BY <1>1, <2>1, EmptyHolds, Zenon DEF NewsInv
<1>11. CoverInv'
  <2>1. ASSUME NEW f \in Fact, NEW c \in offered[f]
        PROVE  Below(c, known'[f])
    <3>1. c \in Held /\ Always \in Held
      BY <1>1, FactTypes, CondCases, Zenon DEF Held
    <3>2. \A w \in Worker : pc[w] \notin Unjoined /\ pc[w] # "spill"
      BY <1>2, Zenon DEF Idle, Unjoined
    <3>3. Below(c, known[f]) \/ f \in new.always \/ Below(c, new.leaf[f])
      BY <3>2, Zenon DEF IndInv, CoverInv
    <3>4. f \in new.always => HeldAt(new, f) = Always /\ Below(c, Always)
      BY <3>1, BelowOrder, Zenon DEF HeldAt
    <3>5. Below(c, known[f]) \/ Below(c, HeldAt(new, f))
      BY <3>3, <3>4, Zenon DEF HeldAt
    <3>6. Below(known[f], known'[f]) /\ Below(HeldAt(new, f), known'[f]) /\ known'[f] \in Held
      <4>1. known'[f] = Add(known[f], HeldAt(new, f)) /\ known[f] \in Held /\ HeldAt(new, f) \in Held
        BY <1>3, <1>4, Zenon
      <4> QED BY <4>1, BelowOrder, AddType
    <3> QED BY <1>4, <3>1, <3>5, <3>6, BelowOrder
  <2> QED BY <1>1, <2>1, Zenon DEF CoverInv
<1> QED BY <1>5, <1>6, <1>7, <1>8, <1>10, <1>11, Zenon DEF IndInv

-----------------------------------------------------------------------------
\* The invariant holds before the first rule runs, whatever the seed rows.
LEMMA IndInit == Init => IndInv
<1> SUFFICES ASSUME Init PROVE IndInv
  BY Zenon
<1> DEFINE none == [f \in Fact |-> NoCond]
<1>1. PICK seed \in SUBSET Fact :
         /\ delta = Store(seed, Empty.leaf, Cardinality(seed), 0)
         /\ offered = [f \in Fact |-> IF f \in seed THEN {Always} ELSE {}]
  BY Zenon DEF Init
<1>2. /\ total = Empty /\ new = Empty /\ rows = 0 /\ changed = FALSE /\ running = TRUE
      /\ lock = [s \in {SideShard[f] : f \in Fact} |-> Nobody]
      /\ pc = [w \in Worker |-> "idle"] /\ arg = [w \in Worker |-> <<>>]
      /\ result = [w \in Worker |-> FALSE] /\ saved = [w \in Worker |-> NoCond]
  BY Zenon DEF Init
<1>3. NoCond \in Held \ {Always} /\ Always \in Cond /\ Always \in Held /\ "idle" \in Labels
  BY DecisionAssumption, CondCases, Zenon DEF Held, Labels
<1>4. Empty.leaf \in [Fact -> Held \ {Always}]
  BY EmptyHolds, Zenon DEF Stores
<1>5. /\ delta \in Stores /\ delta.always = seed /\ delta.leaf = Empty.leaf
      /\ delta.alen = Cardinality(seed) /\ delta.clen = 0
  BY <1>1, <1>4, FiniteFacts, StoreType
<1>6. Leaves(delta) = {}
  BY <1>5, EmptyHolds, Zenon DEF Leaves
<1>7. Counted(delta) /\ Split(delta)
  BY <1>5, <1>6, FS_EmptySet, Zenon DEF Counted, Split
<1>8. \A f \in Fact : HeldAt(delta, f) = IF f \in seed THEN Always ELSE NoCond
  BY <1>5, EmptyHolds, Zenon DEF HeldAt
<1>9. offered \in [Fact -> SUBSET Cond] /\ \A f \in Fact : offered[f] = IF f \in seed THEN {Always} ELSE {}
  BY <1>1, <1>3, Zenon
<1>10. TypeOK
  BY <1>2, <1>3, <1>5, <1>9, EmptyHolds, Zenon DEF TypeOK
<1>11. MergedInv
  <2>1. \A f \in Fact : HeldAt(delta, f) # NoCond => Below(NoCond, Always) /\ HeldAt(delta, f) = Always
    BY <1>3, <1>8, BelowOrder, Zenon
  <2> QED BY <1>2, <1>3, <1>7, <2>1, EmptyHolds, Zenon DEF MergedInv
<1>12. WorkerInv
  BY <1>2, Zenon DEF WorkerInv, WorkerAt, Locked, Reported
<1>13. CountInv /\ ReportInv
  <2>1. ToAlen = {} /\ ToClen = {} /\ Uncounting = {}
    BY <1>2, Zenon DEF ToAlen, ToClen, Uncounting
  <2>2. CountInv
    BY <1>2, <2>1, EmptyHolds, FS_EmptySet DEF CountInv
  <2> QED BY <1>2, <2>2, EmptyHolds, Zenon DEF ReportInv
<1>14. \A f \in Fact : known[f] = IF f \in seed THEN Always ELSE NoCond
  BY <1>2, <1>3, <1>8, EmptyHolds, Zenon DEF known
<1>15. NewsInv
  <2>1. \A f \in Fact : f \in seed => Below(Always, Least(offered[f]))
    BY <1>3, <1>9, LeastBound, Zenon
  <2>2. \A f \in Fact : Below(NoCond, Least(offered[f]))
    BY <1>9, LeastBound, BelowOrder
  <2> QED BY <1>2, <1>14, <2>1, <2>2, EmptyHolds, Zenon DEF NewsInv
<1>16. CoverInv
  <2>1. \A f \in Fact : \A c \in offered[f] : c = Always /\ known[f] = Always
    BY <1>9, <1>14, Zenon
  <2>2. Below(Always, Always)
    BY <1>3, BelowOrder, Zenon
  <2> QED BY <2>1, <2>2, Zenon DEF CoverInv
<1> QED BY <1>10, <1>11, <1>12, <1>13, <1>15, <1>16, Zenon DEF IndInv

\* Every step preserves it.
LEMMA IndNext == IndInv /\ [Next]_vars => IndInv'
<1> SUFFICES ASSUME IndInv, [Next]_vars PROVE IndInv'
  BY Zenon
<1>1. ASSUME NEW w \in Worker, Step(w)
      PROVE  IndInv'
  <2>1. CASE AlwaysInsert(w) /\ fact(w) \in new.always
    <3>1. /\ pc' = [pc EXCEPT ![w] = "return"] /\ pc[w] = "trie" /\ lock' = lock /\ Yield(w, FALSE)
          /\ fact(w) \in new.always
          /\ UNCHANGED <<new, total, delta, arg, rows, changed, running, offered, saved>>
      BY <2>1, Zenon DEF AlwaysInsert, Goto
    <3> QED BY <3>1, MeetsAlwaysKeeps, Zenon
  <2>2. CASE CheckTrie(w) /\ fact(w) \in new.always
    <3>1. /\ pc' = [pc EXCEPT ![w] = "return"] /\ pc[w] = "check" /\ Release(w) /\ Yield(w, FALSE)
          /\ fact(w) \in new.always
          /\ UNCHANGED <<new, total, delta, arg, rows, changed, running, offered, saved>>
      BY <2>2, Zenon DEF CheckTrie, Goto, stores
    <3> QED BY <3>1, MeetsAlwaysKeeps, Zenon
  <2>3. CASE (AlwaysInsert(w) /\ fact(w) \notin new.always) \/ SpillInsert(w)
    BY <2>3, TrieKeeps, Zenon
  <2>4. CASE LockEntry(w) \/ (CheckTrie(w) /\ fact(w) \notin new.always)
    BY <2>4, LockKeeps, Zenon
  <2>5. CASE AlwaysCount(w) \/ SpillCount(w)
    BY <2>5, AlenKeeps, Zenon
  <2>6. CASE LeafCount(w) \/ SpillUncount(w)
    BY <2>6, ClenKeeps, Zenon
  <2>7. CASE NewLeaf(w) \/ JoinLeaf(w) \/ SpillRemove(w)
    BY <2>7, LeafKeeps, Zenon
  <2>8. CASE Return(w)
    BY <2>8, ReturnKeeps, Zenon
  <2> QED BY <1>1, <2>1, <2>2, <2>3, <2>4, <2>5, <2>6, <2>7, <2>8, Zenon DEF Step
<1>2. CASE Fixpoint \/ UNCHANGED vars
  <2>1. UNCHANGED vars
    BY <1>2, Zenon DEF Fixpoint
  <2>2. known' = known
    BY <2>1, Zenon DEF vars, stores, known, HeldAt
  <2>3. TypeOK' /\ MergedInv'
    BY <2>1, Zenon DEF vars, stores, IndInv, TypeOK, MergedInv, Counted, Split, Leaves, HeldAt
  <2>4. WorkerInv'
    BY <2>1, <2>2, Zenon DEF vars, stores, IndInv, WorkerInv, WorkerAt, fact, cond, shard
  <2>5. CountInv' /\ ReportInv'
    BY <2>1, Zenon DEF vars, stores, IndInv, CountInv, ReportInv, ToAlen, ToClen, Uncounting, Leaves
  <2>6. NewsInv' /\ CoverInv'
    BY <2>1, <2>2 DEF vars, stores, IndInv, NewsInv, CoverInv, fact
  <2> QED BY <2>3, <2>4, <2>5, <2>6, Zenon DEF IndInv
<1> QED BY <1>1, <1>2, DeriveKeeps, MergeKeeps, Zenon DEF Next

\* The relation's invariant: what the counts lag behind by, who holds which lock,
\* and that each offered condition is known, found or with a thread.
THEOREM RelationInvariant == Spec => []IndInv
<1>1. Init => IndInv
  BY IndInit, Zenon
<1>2. IndInv /\ [Next]_vars => IndInv'
  BY IndNext, Zenon
<1> QED BY <1>1, <1>2, PTL DEF Spec

\* Between evaluations each fact holds under the least upper bound of the conditions it was
\* derived under: insert_if_not_present, absorb and refine lose and invent nothing.
THEOREM HoldsTheLeast == Spec => []HoldsLeast
<1>1. ASSUME IndInv PROVE HoldsLeast
  <2> SUFFICES ASSUME Idle, NEW f \in Fact
               PROVE  Add(Known(f), CondAt(new, f)) = Least(offered[f])
    BY Zenon DEF HoldsLeast
  <2> DEFINE h == HeldAt(new, f)
             k == known[f]
             m == Least(offered[f])
  <2>1. /\ CondAt(new, f) = h /\ Known(f) = k /\ h \in Held /\ k \in Held /\ m \in Held
        /\ Add(k, h) \in Held /\ offered[f] \in SUBSET Cond
    BY <1>1, IdleCounts, FrozenHolds, FactTypes, AddType, Zenon DEF IndInv
  <2>2. Below(h, m) /\ Below(k, m)
    BY <1>1, Zenon DEF IndInv, NewsInv, HeldAt
  <2>3. ASSUME NEW c \in offered[f]
        PROVE  Below(c, Add(k, h))
    <3>1. c \in Held
      BY <2>1, Zenon DEF Held
    <3>2. \A w \in Worker : pc[w] \notin Unjoined /\ pc[w] # "spill"
      BY Zenon DEF Idle, Unjoined
    <3>3. Below(c, k) \/ f \in new.always \/ Below(c, new.leaf[f])
      BY <1>1, <3>2, Zenon DEF IndInv, CoverInv
    <3>4. f \in new.always => h = Always /\ Below(c, Always)
      BY <3>1, BelowOrder, Zenon DEF HeldAt
    <3>5. Below(c, k) \/ Below(c, h)
      BY <3>3, <3>4, Zenon DEF HeldAt
    <3>6. Below(k, Add(k, h)) /\ Below(h, Add(k, h))
      BY <2>1, BelowOrder
    <3> HIDE DEF h, k
    <3> QED BY <2>1, <3>1, <3>5, <3>6, BelowOrder
  <2> HIDE DEF h, k
  <2>4. Below(m, Add(k, h))
    BY <2>1, <2>3, LeastBound, Zenon
  <2>5. Below(Add(k, h), m)
    BY <2>1, <2>2, BelowOrder
  <2> QED BY <2>1, <2>4, <2>5, BelowOrder
<1> QED BY <1>1, RelationInvariant, PTL

\* The counts that the merge and cond_at test are the sizes of the maps, for total and delta
\* at every moment and for new when no insert is under way.
THEOREM CountsAreExact == Spec => []CountsExact
<1>1. ASSUME IndInv PROVE CountsExact
  <2>1. \A st \in {total, delta} : Split(st) /\ Counted(st)
    BY <1>1, Zenon DEF IndInv, MergedInv
  <2>2. Idle => Counted(new)
    BY <1>1, IdleCounts, Zenon
  <2> QED BY <2>1, <2>2, Zenon DEF CountsExact, Counted, Split
<1> QED BY <1>1, RelationInvariant, PTL

\* Each row of delta carries a condition strictly above the one total holds.
THEOREM DeltaCarriesNews == Spec => []DeltaIsNews
<1>1. ASSUME IndInv PROVE DeltaIsNews
  <2> SUFFICES ASSUME NEW f \in Fact, CondAt(delta, f) # NoCond, CondAt(total, f) # NoCond
               PROVE  /\ CondAt(delta, f) # CondAt(total, f)
                      /\ Covers(CondAt(delta, f), CondAt(total, f))
    BY Zenon DEF DeltaIsNews
  <2>1. /\ CondAt(total, f) = HeldAt(total, f) /\ HeldAt(total, f) \in Cond
        /\ CondAt(delta, f) = HeldAt(delta, f) /\ HeldAt(delta, f) \in Cond
    BY <1>1, FrozenHolds, Zenon DEF Held
  <2>2. Below(HeldAt(total, f), HeldAt(delta, f)) /\ HeldAt(total, f) # HeldAt(delta, f)
    BY <1>1, <2>1, Zenon DEF IndInv, MergedInv
  <2> QED BY <2>1, <2>2, CoversBelow, Zenon
<1> QED BY <1>1, RelationInvariant, PTL

\* Ascent's flag is set exactly when the iteration found something, so the loop neither
\* stops with rows in new nor goes on for none.
THEOREM FlagIsExact == Spec => []ChangedIffFound
<1>1. ASSUME IndInv PROVE ChangedIffFound
  <2>1. Idle => (changed <=> \E f \in Fact : CondAt(new, f) # NoCond)
    BY <1>1, IdleCounts, Zenon
  <2> QED BY <1>1, <2>1, Zenon DEF ChangedIffFound, IndInv, MergedInv
<1> QED BY <1>1, RelationInvariant, PTL
=============================================================================
