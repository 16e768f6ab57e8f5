-------------------------- MODULE InternerTheorems --------------------------
(***************************************************************************)
(* The steps of the writer of IdInterner, the theorems, and the refinement *)
(* of the abstract interner.                                               *)
(***************************************************************************)
EXTENDS InternerProofs

\* Writing the slot at the length preserves the invariant.
LEMMA WriteSlotStep ==
    ASSUME IndInv, NEW t \in Thread, WriteSlot(t)
    PROVE  IndInv'
<1> PICK s : s = ShardOf[arg[t]]
  BY Zenon
<1> PICK v : v = arg[t]
  BY Zenon
<1>1. InCritical(t) /\ pc[t] = "locked" /\ Find(s, v) = {} /\ len[s] < Limit
  BY Zenon DEF WriteSlot, InCritical
<1>2. /\ s \in Shard /\ v \in Value /\ view[t][s].len = pub[s] /\ pub[s] = len[s]
      /\ writer[s] = t
      /\ \A u \in Thread : u # t /\ InCritical(u) => ShardOf[arg[u]] # s
  BY <1>1, OwnerFacts, Zenon
<1> PICK k : k = len[s]
  BY Zenon
<1>3. k \in Local /\ k \in Nat /\ Limit \in Nat /\ Uninit \notin Value
  BY <1>1, <1>2, InternerAssumption DEF IndInv, TypeOK, Local
<1>4. /\ slot' = [slot EXCEPT ![s][k] = v]
      /\ view' = [view EXCEPT ![t] = AddSlot(@, s, k)]
      /\ pc' = [pc EXCEPT ![t] = "written"]
      /\ UNCHANGED <<writer, table, len, pub, pubView, lockView, arg, held, got>>
      /\ DOMAIN next' = DOMAIN next
  BY Zenon DEF WriteSlot
<1>5. /\ view \in [Thread -> View]
      /\ slot \in [Shard -> [Local -> Value \cup {Uninit}]]
      /\ pc \in [Thread -> {"idle", "missed", "locked", "written", "inserted", "published"}]
  BY Zenon DEF IndInv, TypeOK
<1>6. /\ view' \in [Thread -> View]
      /\ \A u \in Thread : u # t => view'[u] = view[u]
      /\ \A r \in Shard : view'[t][r].len = view[t][r].len
      /\ \A r \in Shard : view[t][r].slots \subseteq view'[t][r].slots
      /\ k \in view'[t][s].slots
  <2>1. \A r \in Shard : view[t][r] \in [slots : SUBSET Local, len : 0..Limit]
    BY <1>5, Zenon DEF View
  <2> PICK w : w = AddSlot(view[t], s, k)
    BY Zenon
  <2>2. /\ w \in View
        /\ \A r \in Shard : w[r].len = view[t][r].len /\ view[t][r].slots \subseteq w[r].slots
        /\ k \in w[s].slots
    BY <1>2, <1>3, <1>5, <2>1, ZenonT(60) DEF AddSlot, View
  <2>3. view' = [view EXCEPT ![t] = w]
    BY <1>4, <1>5, Zenon
  <2> QED
    BY <1>2, <1>5, <2>2, <2>3, Zenon
<1>7. TypeOK'
  BY <1>2, <1>3, <1>4, <1>6, Zenon DEF IndInv, TypeOK
<1>8. /\ pc'[t] = "written" /\ \A u \in Thread : u # t => pc'[u] = pc[u]
      /\ slot'[s][k] = v
      /\ \A l \in Local : l # k => slot'[s][l] = slot[s][l]
      /\ \A r \in Shard : r # s => slot'[r] = slot[r]
  BY <1>2, <1>3, <1>4, <1>5, Zenon
<1>9. LockInv'
  BY <1>1, <1>4, <1>8 DEF IndInv, LockInv, InCritical
<1>10. \A l \in 0..(k - 1) : slot[s][l] # v
  BY <1>1, <1>2, FindComplete, Zenon DEF IndInv
<1>11. \A l \in 0..(k - 1) : l \in Local /\ l # k
  BY <1>3 DEF Local
<1>12. ASSUME NEW r \in Shard PROVE ShardInv(r)'
  <2>1. CASE r = s
    <3>1. ShardInv(s)
      BY <1>2, Zenon DEF IndInv
    <3>2. \A l \in 0..(k - 1) : slot'[s][l] = slot[s][l]
      BY <1>8, <1>11, Zenon
    <3>3. \A l \in Local : l > k => slot'[s][l] = Uninit
      BY <1>3, <1>8, <3>1, SMTT(60) DEF ShardInv, Local
    <3>4. writer'[s] = t /\ pc'[t] = "written" /\ pub'[s] = len'[s]
      BY <1>2, <1>4, <1>8, Zenon
    <3>5. table'[s] = {Raw(s, l) : l \in 0..(len'[s] - 1)}
      BY <1>4, <3>1, Zenon DEF ShardInv
    <3>6. \A l \in 0..(len'[s] - 1) : slot'[s][l] \in Value /\ ShardOf[slot'[s][l]] = s
      BY <1>4, <3>1, <3>2 DEF ShardInv
    <3>7. \A l, m \in 0..(len'[s] - 1) : slot'[s][l] = slot'[s][m] => l = m
      BY <1>4, <3>1, <3>2 DEF ShardInv
    <3>8. \A l \in Local : l > len'[s] => slot'[s][l] = Uninit
      BY <1>4, <3>3, Zenon
    <3>9. \E u \in Thread : writer'[s] = u /\ pc'[u] = "written"
      BY <3>4, Zenon
    <3>10. ShardInv(s)'
      BY <3>4, <3>5, <3>6, <3>7, <3>8, <3>9, Zenon DEF ShardInv
    <3> QED
      BY <2>1, <3>10, Zenon
  <2>2. CASE r # s
    <3>1. ShardInv(r) /\ slot'[r] = slot[r]
      BY <1>8, <2>2, Zenon DEF IndInv
    <3>2. \A u \in Thread : writer[r] = u => u # t
      BY <1>1, <2>2, Zenon DEF IndInv, LockInv
    <3>3. \A u \in Thread : writer[r] = u => pc'[u] = pc[u]
      BY <1>8, <3>2, Zenon
    <3>4. len'[r] = len[r] /\ pub'[r] = pub[r] /\ table'[r] = table[r] /\ writer'[r] = writer[r]
      BY <1>4, Zenon
    <3> QED
      BY <3>1, <3>3, <3>4, ZenonT(60) DEF ShardInv
  <2> QED
    BY <2>1, <2>2, Zenon
<1>13. ASSUME NEW u \in Thread PROVE WriterInv(u)'
  <2>1. CASE u = t
    <3>1. \A l \in 0..(k - 1) : slot'[s][l] # v
      BY <1>8, <1>10, <1>11, Zenon
    <3>2. pc'[t] = "written" /\ arg'[t] = v /\ ShardOf[arg'[t]] = s /\ len'[s] = k
      BY <1>4, <1>8, Zenon
    <3>3. /\ len'[s] < Limit
          /\ slot'[s][len'[s]] = arg'[t]
          /\ \A l \in 0..(len'[s] - 1) : slot'[s][l] # arg'[t]
          /\ len'[s] \in view'[t][s].slots
      BY <1>1, <1>6, <1>8, <3>1, <3>2, Zenon
    <3>4. WriterInv(t)'
      BY <3>2, <3>3, Zenon DEF WriterInv
    <3> QED
      BY <2>1, <3>4, Zenon
  <2>2. CASE u # t /\ InCritical(u)
    <3>1. ShardOf[arg[u]] # s /\ ShardOf[arg[u]] \in Shard
      BY <1>2, <2>2, OwnerFacts, Zenon
    <3>2. slot'[ShardOf[arg[u]]] = slot[ShardOf[arg[u]]] /\ pc'[u] = pc[u] /\ view'[u] = view[u]
      BY <1>6, <1>8, <2>2, <3>1, Zenon
    <3>3. WriterInv(u)
      BY Zenon DEF IndInv
    <3> QED
      BY <1>4, <3>2, <3>3, Zenon DEF WriterInv
  <2>3. CASE u # t /\ ~InCritical(u)
    BY <1>8, <2>3, Zenon DEF WriterInv, InCritical
  <2> QED
    BY <2>1, <2>2, <2>3, Zenon
<1>14. ViewsInv'
  <2>1. ASSUME NEW u \in Thread PROVE ViewInv(view[u])'
    <3>1. ViewInv(view[u])
      BY Zenon DEF IndInv, ViewsInv
    <3>2. \A r \in Shard : view'[u][r].len = view[u][r].len /\ view[u][r].slots \subseteq view'[u][r].slots
      BY <1>6, Zenon
    <3> QED
      BY <1>4, <3>1, <3>2, Zenon DEF ViewInv
  <2>2. \A r \in Shard : ViewInv(lockView[r])'
    BY <1>4, Zenon DEF IndInv, ViewsInv, ViewInv
  <2>3. \A r \in Shard : \A n \in 0..pub'[r] :
           ViewInv(pubView[r][n])' /\ pubView'[r][n][r].len = n
    BY <1>4, ZenonT(60) DEF IndInv, ViewsInv, ViewInv
  <2>4. \A r \in Shard : writer'[r] = NoThread => lockView'[r][r].len = pub'[r]
    BY <1>4, Zenon DEF IndInv, ViewsInv
  <2>5. ASSUME NEW u \in Thread, InCritical(u)'
        PROVE  view'[u][ShardOf[arg'[u]]].len = pub'[ShardOf[arg'[u]]]
    <3>1. InCritical(u)
      BY <1>1, <1>8, <2>5, Zenon DEF InCritical
    <3>2. ShardOf[arg[u]] \in Shard /\ view[u][ShardOf[arg[u]]].len = pub[ShardOf[arg[u]]]
      BY <3>1, OwnerFacts, Zenon
    <3> QED
      BY <1>4, <1>6, <3>2, ZenonT(60)
  <2> QED
    BY <2>1, <2>2, <2>3, <2>4, <2>5, Zenon DEF ViewsInv
<1>15. IdsInv'
  <2>1. ASSUME NEW u \in Thread, NEW raw \in held[u]
        PROVE  LocalPart(raw) < view'[u][ShardPart(raw)].len
    <3>1. raw \in RawId
      BY Zenon DEF IndInv, TypeOK
    <3>2. ShardPart(raw) \in Shard
      BY <3>1, IdParts, Zenon
    <3> QED
      BY <1>6, <3>2, Zenon DEF IndInv, IdsInv
  <2>2. ASSUME NEW p \in got PROVE PairInv(p)'
    <3>1. p[2] \in RawId /\ PairInv(p)
      BY Zenon DEF IndInv, TypeOK, IdsInv
    <3>2. ShardPart(p[2]) \in Shard /\ LocalPart(p[2]) \in Local
      BY <3>1, IdParts, Zenon
    <3>3. ShardPart(p[2]) = s => LocalPart(p[2]) # k
      BY <1>2, <1>3, <3>1, <3>2 DEF PairInv, Local
    <3> QED
      BY <1>4, <1>8, <3>1, <3>2, <3>3, Zenon DEF PairInv, ValueOf
  <2> QED
    BY <1>4, <2>1, <2>2, Zenon DEF IdsInv
<1> QED
  BY <1>7, <1>9, <1>12, <1>13, <1>14, <1>15, Zenon DEF IndInv

\* Entering the new slot in the table and counting it preserves the invariant.
LEMMA InsertTableStep ==
    ASSUME IndInv, NEW t \in Thread, InsertTable(t)
    PROVE  IndInv'
<1> PICK s : s = ShardOf[arg[t]]
  BY Zenon
<1> PICK v : v = arg[t]
  BY Zenon
<1>1. InCritical(t) /\ pc[t] = "written"
  BY Zenon DEF InsertTable, InCritical
<1>2. /\ s \in Shard /\ v \in Value /\ view[t][s].len = pub[s] /\ pub[s] = len[s]
      /\ writer[s] = t
      /\ \A u \in Thread : u # t /\ InCritical(u) => ShardOf[arg[u]] # s
  BY <1>1, OwnerFacts, Zenon
<1> PICK k : k = len[s]
  BY Zenon
<1>3. /\ k < Limit /\ slot[s][k] = v /\ k \in view[t][s].slots
      /\ \A l \in 0..(k - 1) : slot[s][l] # v
  BY <1>1, Zenon DEF IndInv, WriterInv
<1>4. k \in Local /\ k \in Nat /\ Limit \in Nat /\ Uninit \notin Value
  BY <1>2, <1>3, InternerAssumption DEF IndInv, TypeOK, Local
<1>5. /\ table' = [table EXCEPT ![s] = @ \cup {Raw(s, k)}]
      /\ len' = [len EXCEPT ![s] = @ + 1]
      /\ pc' = [pc EXCEPT ![t] = "inserted"]
      /\ UNCHANGED <<writer, slot, next, pub, pubView, lockView, view, arg, held, got>>
  BY Zenon DEF InsertTable
<1>6. TypeOK'
  <2>1. Raw(s, k) \in RawId
    BY <1>2, <1>4, RawParts, Zenon
  <2> QED
    BY <1>2, <1>3, <1>4, <1>5, <2>1 DEF IndInv, TypeOK
<1>7. /\ pc'[t] = "inserted" /\ \A u \in Thread : u # t => pc'[u] = pc[u]
      /\ len'[s] = k + 1 /\ table'[s] = table[s] \cup {Raw(s, k)}
      /\ \A r \in Shard : r # s => len'[r] = len[r] /\ table'[r] = table[r]
  BY <1>2, <1>5, Zenon DEF IndInv, TypeOK
<1>8. LockInv'
  BY <1>1, <1>5, <1>7 DEF IndInv, LockInv, InCritical
<1>9. ASSUME NEW r \in Shard PROVE ShardInv(r)'
  <2>1. CASE r = s
    <3>1. ShardInv(s)
      BY <1>2, Zenon DEF IndInv
    <3>2. 0..(len'[s] - 1) = 0..(k - 1) \cup {k}
      BY <1>4, <1>7
    <3>3. table'[s] = {Raw(s, l) : l \in 0..(len'[s] - 1)}
      <4>1. {Raw(s, l) : l \in 0..(k - 1)} \cup {Raw(s, k)}
              = {Raw(s, l) : l \in 0..(k - 1) \cup {k}}
        BY Zenon
      <4>2. table[s] = {Raw(s, l) : l \in 0..(k - 1)}
        BY <3>1, Zenon DEF ShardInv
      <4> QED
        BY <1>7, <3>2, <4>1, <4>2, Zenon
    <3>4. ShardOf[v] = s
      BY Zenon
    <3>5. \A l \in 0..(len'[s] - 1) : slot'[s][l] \in Value /\ ShardOf[slot'[s][l]] = s
      BY <1>2, <1>3, <1>5, <3>1, <3>2, <3>4, Zenon DEF ShardInv
    <3>6. \A l, m \in 0..(len'[s] - 1) : slot'[s][l] = slot'[s][m] => l = m
      <4>1. \A l, m \in 0..(k - 1) : slot[s][l] = slot[s][m] => l = m
        BY <3>1, Zenon DEF ShardInv
      <4>2. slot'[s] = slot[s]
        BY <1>5, Zenon
      <4> QED
        BY <1>3, <3>2, <4>1, <4>2
    <3>7. \A l \in Local : l > k => slot'[s][l] = Uninit
      BY <1>5, <3>1, Zenon DEF ShardInv
    <3>8. /\ \A l \in Local : l > len'[s] => slot'[s][l] = Uninit
          /\ len'[s] < Limit => slot'[s][len'[s]] = Uninit
      BY <1>4, <1>7, <3>7 DEF Local
    <3>9. \E u \in Thread : writer'[s] = u /\ pc'[u] = "inserted"
      BY <1>2, <1>5, <1>7, Zenon
    <3>10. ShardInv(s)'
      BY <3>3, <3>5, <3>6, <3>8, <3>9, Zenon DEF ShardInv
    <3> QED
      BY <2>1, <3>10, Zenon
  <2>2. CASE r # s
    <3>1. ShardInv(r) /\ len'[r] = len[r] /\ table'[r] = table[r]
      BY <1>7, <2>2, Zenon DEF IndInv
    <3>2. \A u \in Thread : writer[r] = u => u # t
      BY <1>1, <2>2, Zenon DEF IndInv, LockInv
    <3>3. \A u \in Thread : writer[r] = u => pc'[u] = pc[u]
      BY <1>7, <3>2, Zenon
    <3>4. slot'[r] = slot[r] /\ pub'[r] = pub[r] /\ writer'[r] = writer[r]
      BY <1>5, Zenon
    <3> QED
      BY <3>1, <3>3, <3>4, ZenonT(60) DEF ShardInv
  <2> QED
    BY <2>1, <2>2, Zenon
<1>10. ASSUME NEW u \in Thread PROVE WriterInv(u)'
  <2>1. CASE u = t
    <3>1. pc'[t] = "inserted" /\ arg'[t] = v /\ ShardOf[arg'[t]] = s /\ len'[s] - 1 = k
      BY <1>4, <1>5, <1>7
    <3>2. pub'[s] = k /\ slot'[s][k] = v /\ k \in view'[t][s].slots
      BY <1>2, <1>3, <1>5, Zenon
    <3>3. WriterInv(t)'
      BY <3>1, <3>2, Zenon DEF WriterInv
    <3> QED
      BY <2>1, <3>3, Zenon
  <2>2. CASE u # t /\ InCritical(u)
    <3>1. ShardOf[arg[u]] # s /\ ShardOf[arg[u]] \in Shard
      BY <1>2, <2>2, OwnerFacts, Zenon
    <3>2. len'[ShardOf[arg[u]]] = len[ShardOf[arg[u]]] /\ pc'[u] = pc[u]
      BY <1>7, <2>2, <3>1, Zenon
    <3>3. WriterInv(u)
      BY Zenon DEF IndInv
    <3> QED
      BY <1>5, <3>2, <3>3, Zenon DEF WriterInv
  <2>3. CASE u # t /\ ~InCritical(u)
    BY <1>7, <2>3, Zenon DEF WriterInv, InCritical
  <2> QED
    BY <2>1, <2>2, <2>3, Zenon
<1>11. ViewsInv'
  <2>1. \A u \in Thread : InCritical(u)' => InCritical(u)
    BY <1>1, <1>7, Zenon DEF InCritical
  <2> QED
    BY <1>5, <2>1, ZenonT(60) DEF IndInv, ViewsInv, ViewInv
<1>12. IdsInv'
  BY <1>5, Zenon DEF IndInv, IdsInv, PairInv, ValueOf
<1> QED
  BY <1>6, <1>8, <1>9, <1>10, <1>11, <1>12, Zenon DEF IndInv

\* Publishing the length with Release preserves the invariant.
LEMMA PublishStep ==
    ASSUME IndInv, NEW t \in Thread, Publish(t)
    PROVE  IndInv'
<1> PICK s : s = ShardOf[arg[t]]
  BY Zenon
<1>1. InCritical(t) /\ pc[t] = "inserted"
  BY Zenon DEF Publish, InCritical
<1>2. /\ s \in Shard /\ view[t][s].len = pub[s] /\ writer[s] = t
      /\ \A u \in Thread : u # t /\ InCritical(u) => ShardOf[arg[u]] # s
  BY <1>1, OwnerFacts, Zenon
<1> PICK n : n = len[s]
  BY Zenon
<1>3. pub[s] = n - 1 /\ slot[s][n - 1] = arg[t] /\ n - 1 \in view[t][s].slots
  BY <1>1, Zenon DEF IndInv, WriterInv
<1>4. /\ n \in Nat /\ n \in 0..Limit /\ Limit \in Nat /\ n - 1 \in Nat
      /\ \A r \in Shard : pub[r] \in Nat
  BY <1>2, <1>3, InternerAssumption DEF IndInv, TypeOK
<1> PICK w : w = SetLen(view[t], s, n)
  BY Zenon
<1>5. /\ pub' = [pub EXCEPT ![s] = n]
      /\ view' = [view EXCEPT ![t] = w]
      /\ pubView' = [pubView EXCEPT ![s] = [m \in 0..n |-> IF m = n THEN w ELSE @[m]]]
      /\ pc' = [pc EXCEPT ![t] = "published"]
      /\ UNCHANGED <<writer, slot, table, len, next, lockView, arg, held, got>>
  BY Zenon DEF Publish
<1>6. /\ w \in View
      /\ w[s].len = n /\ w[s].slots = view[t][s].slots
      /\ \A r \in Shard : r # s => w[r] = view[t][r]
  <2>1. view[t] \in View
    BY Zenon DEF IndInv, TypeOK
  <2>2. \A r \in Shard : view[t][r] \in [slots : SUBSET Local, len : 0..Limit]
    BY <2>1, Zenon DEF View
  <2> QED
    BY <1>2, <1>4, <2>1, <2>2, Zenon DEF SetLen, View
<1>7. /\ pub'[s] = n
      /\ \A r \in Shard : r # s => pub'[r] = pub[r]
      /\ \A u \in Thread : u # t => pc'[u] = pc[u] /\ view'[u] = view[u]
      /\ pc'[t] = "published"
      /\ view'[t] = w
      /\ \A u \in Thread : view[u] \in View
  BY <1>2, <1>5, Zenon DEF IndInv, TypeOK
<1>15. /\ \A r \in Shard : pubView[r] \in [0..pub[r] -> View]
       /\ \A r \in Shard : r # s => pubView'[r] = pubView[r]
       /\ pubView'[s] \in [0..n -> View]
       /\ \A m \in 0..n : pubView'[s][m] = IF m = n THEN w ELSE pubView[s][m]
  <2>1. DOMAIN pubView = Shard /\ \A r \in Shard : pubView[r] \in [0..pub[r] -> View]
    BY Zenon DEF IndInv, TypeOK
  <2>2. pubView'[s] = [m \in 0..n |-> IF m = n THEN w ELSE pubView[s][m]]
    BY <1>2, <1>5, <2>1, Zenon
  <2>3. \A m \in 0..n : m # n => m \in 0..pub[s]
    BY <1>3, <1>4
  <2>4. pubView'[s] \in [0..n -> View]
    <3>1. \A m \in 0..n : (IF m = n THEN w ELSE pubView[s][m]) \in View
      BY <1>2, <1>6, <2>1, <2>3, Zenon
    <3> QED
      BY <2>2, <3>1, ZenonT(60)
  <2>5. \A r \in Shard : r # s => pubView'[r] = pubView[r]
    BY <1>2, <1>5, <2>1, Zenon
  <2> QED
    BY <2>1, <2>2, <2>4, <2>5, ZenonT(60)
<1>8. \A r \in Shard : pub[r] <= pub'[r]
  BY <1>3, <1>4, <1>7
<1>9. TypeOK'
  <2>1. pubView'[s] \in [0..pub'[s] -> View]
    BY <1>7, <1>15, Zenon
  <2>2. \A r \in Shard : pubView'[r] \in [0..pub'[r] -> View]
    BY <1>7, <1>15, <2>1, Zenon
  <2>3. DOMAIN pubView' = Shard
    BY <1>5, Zenon DEF IndInv, TypeOK
  <2> QED
    BY <1>2, <1>4, <1>5, <1>6, <2>2, <2>3, Zenon DEF IndInv, TypeOK
<1>10. LockInv'
  BY <1>1, <1>5, <1>7, ZenonT(60) DEF IndInv, LockInv, InCritical
<1>11. ASSUME NEW r \in Shard PROVE ShardInv(r)'
  <2>1. ShardInv(r)
    BY Zenon DEF IndInv
  <2>2. \A u \in Thread : writer[r] = u /\ pc[u] = "written" => u # t
    BY <1>1, Zenon
  <2>3. (\E u \in Thread : writer[r] = u /\ pc[u] = "written")
           => \E u \in Thread : writer'[r] = u /\ pc'[u] = "written"
    BY <1>5, <1>7, <2>2, Zenon
  <2>4. pub'[r] # len'[r] => \E u \in Thread : writer'[r] = u /\ pc'[u] = "inserted"
    <3>1. CASE r = s
      BY <1>5, <1>7, <3>1, Zenon
    <3>2. CASE r # s
      <4>1. \A u \in Thread : writer[r] = u => u # t
        BY <1>1, <3>2, Zenon DEF IndInv, LockInv
      <4> QED
        BY <1>5, <1>7, <2>1, <3>2, <4>1, Zenon DEF ShardInv
    <3> QED
      BY <3>1, <3>2, Zenon
  <2>5. slot'[r] = slot[r] /\ table'[r] = table[r] /\ len'[r] = len[r]
    BY <1>5, Zenon
  <2> QED
    BY <2>1, <2>3, <2>4, <2>5, ZenonT(60) DEF ShardInv
<1>12. ASSUME NEW u \in Thread PROVE WriterInv(u)'
  <2>1. CASE u = t
    <3>1. arg'[t] = arg[t] /\ len'[s] = n /\ slot'[s] = slot[s] /\ n > 0
      BY <1>4, <1>5
    <3>2. WriterInv(t)'
      BY <1>3, <1>7, <3>1, Zenon DEF WriterInv
    <3> QED
      BY <2>1, <3>2, Zenon
  <2>2. CASE u # t /\ InCritical(u)
    <3>1. ShardOf[arg[u]] # s /\ ShardOf[arg[u]] \in Shard
      BY <1>2, <2>2, OwnerFacts, Zenon
    <3>2. pub'[ShardOf[arg[u]]] = pub[ShardOf[arg[u]]] /\ pc'[u] = pc[u] /\ view'[u] = view[u]
      BY <1>7, <2>2, <3>1, Zenon
    <3>3. WriterInv(u)
      BY Zenon DEF IndInv
    <3> QED
      BY <1>5, <3>2, <3>3, Zenon DEF WriterInv
  <2>3. CASE u # t /\ ~InCritical(u)
    BY <1>7, <2>3, Zenon DEF WriterInv, InCritical
  <2> QED
    BY <2>1, <2>2, <2>3, Zenon
<1>13. ViewsInv'
  <2>1. ASSUME NEW x \in View, ViewInv(x)
        PROVE  \A r \in Shard : x[r].len <= pub'[r] /\ 0..(x[r].len - 1) \subseteq x[r].slots
    <3>1. \A r \in Shard : x[r].len \in Nat /\ pub'[r] \in Nat
      BY <1>4, <1>7 DEF View
    <3> QED
      BY <1>4, <1>8, <2>1, <3>1 DEF ViewInv
  <2>2. \A r \in Shard : w[r].len <= pub'[r] /\ 0..(w[r].len - 1) \subseteq w[r].slots
    <3>1. ViewInv(view[t]) /\ view[t] \in View
      BY <1>7, Zenon DEF IndInv, ViewsInv
    <3>2. 0..(n - 1) = 0..(pub[s] - 1) \cup {n - 1}
      BY <1>3, <1>4
    <3>3. 0..(n - 1) \subseteq view[t][s].slots
      BY <1>2, <1>3, <3>1, <3>2, Zenon DEF ViewInv
    <3>4. w[s].len <= pub'[s] /\ 0..(w[s].len - 1) \subseteq w[s].slots
      <4>1. w[s].len = n /\ pub'[s] = n /\ w[s].slots = view[t][s].slots
        BY <1>6, <1>7, Zenon
      <4> QED
        BY <1>4, <3>3, <4>1, SMTT(60)
    <3>5. \A r \in Shard : r # s => w[r].len <= pub'[r] /\ 0..(w[r].len - 1) \subseteq w[r].slots
      BY <1>6, <2>1, <3>1, Zenon
    <3> QED
      BY <3>4, <3>5, Zenon
  <2>3. ASSUME NEW u \in Thread PROVE ViewInv(view[u])'
    <3>1. CASE u = t
      BY <1>7, <2>2, <3>1, Zenon DEF ViewInv
    <3>2. CASE u # t
      <4>1. ViewInv(view[u]) /\ view[u] \in View /\ view'[u] = view[u]
        BY <1>7, <3>2, Zenon DEF IndInv, ViewsInv
      <4> QED
        BY <2>1, <4>1, Zenon DEF ViewInv
    <3> QED
      BY <3>1, <3>2, Zenon
  <2>4. ASSUME NEW r \in Shard PROVE ViewInv(lockView[r])'
    <3>1. ViewInv(lockView[r]) /\ lockView[r] \in View /\ lockView'[r] = lockView[r]
      BY <1>5, Zenon DEF IndInv, ViewsInv, TypeOK
    <3> QED
      BY <2>1, <3>1, Zenon DEF ViewInv
  <2>5. ASSUME NEW r \in Shard, NEW m \in 0..pub'[r]
        PROVE  ViewInv(pubView[r][m])' /\ pubView'[r][m][r].len = m
    <3>1. CASE r = s /\ m = n
      <4>1. pubView'[r][m] = w
        BY <1>4, <1>15, <3>1
      <4> QED
        BY <1>6, <2>2, <3>1, <4>1, Zenon DEF ViewInv
    <3>2. CASE ~(r = s /\ m = n)
      <4>1. m \in 0..pub[r] /\ pubView'[r][m] = pubView[r][m]
        <5>1. CASE r # s
          BY <1>7, <1>15, <5>1, Zenon
        <5>2. CASE r = s /\ m # n
          <6>1. m \in 0..n
            BY <1>7, <5>2, Zenon
          <6> QED
            BY <1>3, <1>4, <1>15, <5>2, <6>1, SMTT(90)
        <5> QED
          BY <3>2, <5>1, <5>2, Zenon
      <4>2. pubView[r][m] \in View /\ ViewInv(pubView[r][m]) /\ pubView[r][m][r].len = m
        BY <1>15, <4>1, ZenonT(60) DEF IndInv, ViewsInv
      <4> QED
        BY <2>1, <4>1, <4>2, Zenon DEF ViewInv
    <3> QED
      BY <3>1, <3>2, Zenon
  <2>6. \A r \in Shard : writer'[r] = NoThread => lockView'[r][r].len = pub'[r]
    BY <1>2, <1>5, <1>7, InternerAssumption DEF IndInv, ViewsInv
  <2>7. ASSUME NEW u \in Thread, InCritical(u)'
        PROVE  view'[u][ShardOf[arg'[u]]].len = pub'[ShardOf[arg'[u]]]
    <3>1. InCritical(u)
      BY <1>1, <1>7, <2>7, Zenon DEF InCritical
    <3>2. CASE u = t
      BY <1>5, <1>6, <1>7, <3>2, ZenonT(60)
    <3>3. CASE u # t
      <4>1. ShardOf[arg[u]] \in Shard /\ ShardOf[arg[u]] # s
            /\ view[u][ShardOf[arg[u]]].len = pub[ShardOf[arg[u]]]
        BY <1>2, <3>1, <3>3, OwnerFacts, Zenon
      <4> QED
        BY <1>5, <1>7, <3>3, <4>1
    <3> QED
      BY <3>2, <3>3, Zenon
  <2> QED
    BY <2>3, <2>4, <2>5, <2>6, <2>7, Zenon DEF ViewsInv
<1>14. IdsInv'
  <2>1. ASSUME NEW u \in Thread, NEW raw \in held[u]
        PROVE  LocalPart(raw) < view'[u][ShardPart(raw)].len
    <3>1. raw \in RawId
      BY Zenon DEF IndInv, TypeOK
    <3>2. ShardPart(raw) \in Shard /\ LocalPart(raw) \in Nat
      BY <1>4, <3>1, IdParts DEF Local
    <3>3. LocalPart(raw) < view[u][ShardPart(raw)].len
      BY Zenon DEF IndInv, IdsInv
    <3>4. view'[u][ShardPart(raw)].len = view[u][ShardPart(raw)].len
          \/ (u = t /\ ShardPart(raw) = s)
      BY <1>6, <1>7, <3>2
    <3>5. CASE u = t /\ ShardPart(raw) = s
      <4>1. LocalPart(raw) < n - 1
        BY <1>2, <1>3, <3>3, <3>5, Zenon
      <4>2. view'[u][ShardPart(raw)].len = n
        BY <1>6, <1>7, <3>5, Zenon
      <4> QED
        BY <1>4, <3>2, <4>1, <4>2
    <3> QED
      BY <3>3, <3>4, <3>5, Zenon
  <2>2. ASSUME NEW p \in got PROVE PairInv(p)'
    <3>1. p[2] \in RawId /\ PairInv(p)
      BY Zenon DEF IndInv, TypeOK, IdsInv
    <3>2. ShardPart(p[2]) \in Shard /\ LocalPart(p[2]) \in Nat
      BY <1>4, <3>1, IdParts DEF Local
    <3>3. pub[ShardPart(p[2])] <= pub'[ShardPart(p[2])] /\ pub[ShardPart(p[2])] \in Nat
          /\ pub'[ShardPart(p[2])] \in Nat
      BY <1>4, <1>7, <1>8, <3>2, Zenon
    <3> QED
      BY <1>5, <3>1, <3>2, <3>3 DEF PairInv, ValueOf
  <2> QED
    BY <1>5, <2>1, <2>2, Zenon DEF IdsInv
<1> QED
  BY <1>9, <1>10, <1>11, <1>12, <1>13, <1>14, Zenon DEF IndInv

-----------------------------------------------------------------------------
(***************************************************************************)
(* The theorems.                                                           *)
(***************************************************************************)
\* Every step of the interner preserves the invariant.
LEMMA NextInv == IndInv /\ [Next]_vars => IndInv'
<1> SUFFICES ASSUME IndInv, [Next]_vars PROVE IndInv'
  BY Zenon
<1>1. ASSUME NEW t \in Thread, InternStep(t) PROVE IndInv'
  BY <1>1, LockWriteStep, ReturnStep, WriteSlotStep, InsertTableStep, PublishStep, Zenon DEF InternStep

<1>2. ASSUME NEW t \in Thread, NEW v \in Value, InternRead(t, v) \/ TryGet(t, v)
      PROVE  IndInv'
  BY <1>2, LookUpStep, Zenon
<1>3. ASSUME NEW t \in Thread, NEW raw \in 0..MaxU32, NEW n \in 0..Limit, FromRaw(t, raw, n)
      PROVE  IndInv'
  BY <1>3, FromRawStep, Zenon
<1>4. ASSUME NEW t \in Thread, NEW u \in Thread, Send(t, u) PROVE IndInv'
  BY <1>4, SendStep, Zenon
<1>5. CASE UNCHANGED vars
  <2>1. UNCHANGED <<writer, slot, table, len, next, pub, pubView, lockView>>
        /\ UNCHANGED <<view, pc, arg, held, got>>
    BY <1>5, Zenon DEF vars, mem
  <2>2. TypeOK' /\ LockInv'
    BY <2>1, Zenon DEF IndInv, TypeOK, LockInv, InCritical
  <2>3. ASSUME NEW s \in Shard PROVE ShardInv(s)'
    <3>1. ShardInv(s)
      BY Zenon DEF IndInv
    <3> QED
      BY <2>1, <3>1, Zenon DEF ShardInv
  <2>4. \A t \in Thread : WriterInv(t)'
    BY <2>1, Zenon DEF IndInv, WriterInv
  <2>5. ViewsInv'
    BY <2>1, Zenon DEF IndInv, ViewsInv, ViewInv, InCritical
  <2>6. IdsInv'
    BY <2>1, Zenon DEF IndInv, IdsInv, PairInv, ValueOf
  <2> QED
    BY <2>2, <2>3, <2>4, <2>5, <2>6, Zenon DEF IndInv
<1> QED
  BY <1>1, <1>2, <1>3, <1>4, <1>5, Zenon DEF Next

\* The inductive invariant of the interner holds in every reachable state.
THEOREM InternerInvariant == Spec => []IndInv
<1> QED
  BY InitInv, NextInv, PTL DEF Spec

\* Every variable keeps its type.
THEOREM InternerTypeOK == Spec => []TypeOK
<1>1. IndInv => TypeOK
  BY Zenon DEF IndInv
<1> QED
  BY <1>1, InternerInvariant, PTL

\* The published length is never ahead of the locked one.
LEMMA PublishedBelowLength ==
    ASSUME IndInv, NEW s \in Shard
    PROVE  pub[s] \in Nat /\ len[s] \in Nat /\ pub[s] <= len[s] /\ len[s] <= Limit
<1>1. pub[s] \in Nat /\ len[s] \in Nat /\ len[s] <= Limit
  BY InternerAssumption DEF IndInv, TypeOK
<1>2. CASE pub[s] = len[s]
  BY <1>1, <1>2
<1>3. CASE pub[s] # len[s]
  <2>1. PICK t \in Thread : writer[s] = t /\ pc[t] = "inserted"
    BY <1>3, Zenon DEF IndInv, ShardInv
  <2>2. ShardOf[arg[t]] = s
    BY <2>1, Zenon DEF IndInv, LockInv
  <2>3. pub[s] = len[s] - 1
    BY <2>1, <2>2, Zenon DEF IndInv, WriterInv
  <2> QED
    BY <1>1, <2>3
<1> QED
  BY <1>2, <1>3, Zenon

\* intern and try_get give equal values equal ids and different values different
\* ids, for any number of racing threads.
THEOREM InternerOneId == Spec => []OneIdPerValue
<1>1. IndInv => OneIdPerValue
  <2> SUFFICES ASSUME IndInv, NEW p \in got, NEW q \in got
               PROVE  (p[1] = q[1]) <=> (p[2] = q[2])
    BY Zenon DEF OneIdPerValue
  <2>1. /\ p[1] \in Value /\ p[2] \in RawId /\ q[1] \in Value /\ q[2] \in RawId
        /\ PairInv(p) /\ PairInv(q)
    BY Zenon DEF IndInv, TypeOK, IdsInv
  <2>2. ASSUME NEW r \in got
        PROVE  /\ ShardPart(r[2]) = ShardOf[r[1]]
               /\ LocalPart(r[2]) \in 0..(len[ShardPart(r[2])] - 1)
               /\ slot[ShardPart(r[2])][LocalPart(r[2])] = r[1]
               /\ ShardPart(r[2]) \in Shard
               /\ r[2] = Raw(ShardPart(r[2]), LocalPart(r[2]))
    <3>1. r[2] \in RawId /\ PairInv(r)
      BY Zenon DEF IndInv, TypeOK, IdsInv
    <3>2. /\ ShardPart(r[2]) \in Shard /\ LocalPart(r[2]) \in Local
          /\ r[2] = Raw(ShardPart(r[2]), LocalPart(r[2]))
      BY <3>1, IdParts, Zenon
    <3> PICK s : s = ShardPart(r[2])
      BY Zenon
    <3>3. pub[s] <= len[s] /\ len[s] \in Nat /\ pub[s] \in Nat /\ LocalPart(r[2]) \in Nat
      BY <3>2, PublishedBelowLength, InternerAssumption DEF Local
    <3>4. LocalPart(r[2]) \in 0..(len[s] - 1)
      BY <3>1, <3>3 DEF PairInv
    <3>5. slot[s][LocalPart(r[2])] = r[1]
      BY <3>1, Zenon DEF PairInv, ValueOf
    <3>6. ShardOf[r[1]] = s
      BY <3>2, <3>4, <3>5 DEF IndInv, ShardInv
    <3> QED
      BY <3>2, <3>4, <3>5, <3>6, Zenon
  <2>3. ASSUME p[1] = q[1] PROVE p[2] = q[2]
    <3> PICK s : s = ShardPart(p[2])
      BY Zenon
    <3>1. ShardPart(q[2]) = s /\ s \in Shard
      BY <2>2, <2>3, Zenon
    <3>2. LocalPart(p[2]) = LocalPart(q[2])
      BY <2>2, <2>3, <3>1 DEF IndInv, ShardInv
    <3> QED
      BY <2>2, <3>1, <3>2
  <2>4. ASSUME p[2] = q[2] PROVE p[1] = q[1]
    BY <2>2, <2>4
  <2> QED
    BY <2>3, <2>4, Zenon
<1> QED
  BY <1>1, InternerInvariant, PTL

\* get never reads a slot whose write does not happen before the read, also for
\* ids that from_raw made from arbitrary bits without a lock.
THEOREM InternerGetInitialized == Spec => []GetReadsInitialized
<1>1. IndInv => GetReadsInitialized
  <2> SUFFICES ASSUME IndInv, NEW t \in Thread, NEW raw \in held[t]
               PROVE  /\ LocalPart(raw) \in view[t][ShardPart(raw)].slots
                      /\ ValueOf(raw) \in Value
    BY Zenon DEF GetReadsInitialized
  <2> PICK s, l : s = ShardPart(raw) /\ l = LocalPart(raw)
    BY Zenon
  <2>1. raw \in RawId /\ l < view[t][s].len
    BY Zenon DEF IndInv, TypeOK, IdsInv
  <2>2. s \in Shard /\ l \in Nat
    BY <2>1, IdParts, InternerAssumption DEF Local
  <2>3. /\ view[t][s].len \in Nat /\ view[t][s].len <= pub[s]
        /\ 0..(view[t][s].len - 1) \subseteq view[t][s].slots
        /\ pub[s] \in Nat /\ len[s] \in Nat
    BY <2>2, InternerAssumption DEF IndInv, TypeOK, View, ViewsInv, ViewInv
  <2>4. l \in view[t][s].slots /\ l < pub[s]
    BY <2>1, <2>2, <2>3
  <2>5. pub[s] <= len[s]
    BY <2>2, PublishedBelowLength, Zenon
  <2>6. l \in 0..(len[s] - 1)
    BY <2>2, <2>3, <2>4, <2>5
  <2>7. slot[s][l] \in Value
    BY <2>2, <2>6, Zenon DEF IndInv, ShardInv
  <2> QED
    BY <2>4, <2>7, Zenon DEF ValueOf
<1> QED
  BY <1>1, InternerInvariant, PTL

\* get returns the value whose intern or try_get returned the id.
THEOREM InternerGetReturns == Spec => []GetReturnsInterned
<1>1. IndInv => GetReturnsInterned
  BY Zenon DEF IndInv, IdsInv, PairInv, GetReturnsInterned
<1> QED
  BY <1>1, InternerInvariant, PTL

\* is_valid holds for every id a thread has, however stale the length it reads.
THEOREM InternerHeldValid == Spec => []HeldIdsAreValid
<1>1. IndInv => HeldIdsAreValid
  BY Zenon DEF IndInv, IdsInv, HeldIdsAreValid
<1> QED
  BY <1>1, InternerInvariant, PTL

\* A shard nobody writes is intact, also after a panic unwound through intern.
THEOREM InternerShardIntact == Spec => []ShardIntact
<1>1. IndInv => ShardIntact
  <2> SUFFICES ASSUME IndInv, NEW s \in Shard, writer[s] = NoThread
               PROVE  /\ table[s] = {Raw(s, l) : l \in 0..(len[s] - 1)}
                      /\ pub[s] = len[s]
                      /\ \A l \in Local : slot[s][l] # Uninit <=> l < len[s]
    BY Zenon DEF ShardIntact
  <2>1. \A t \in Thread : writer[s] # t
    BY InternerAssumption, Zenon
  <2>2. ShardInv(s)
    BY Zenon DEF IndInv
  <2>3. table[s] = {Raw(s, l) : l \in 0..(len[s] - 1)} /\ pub[s] = len[s]
    BY <2>1, <2>2, Zenon DEF ShardInv
  <2>4. len[s] < Limit => slot[s][len[s]] = Uninit
    BY <2>1, <2>2, Zenon DEF ShardInv
  <2>5. ASSUME NEW l \in Local PROVE slot[s][l] # Uninit <=> l < len[s]
    <3>1. l \in Nat /\ l < Limit /\ len[s] \in Nat
      BY InternerAssumption, PublishedBelowLength DEF Local
    <3>2. CASE l < len[s]
      BY <2>2, <3>1, <3>2, InternerAssumption DEF ShardInv
    <3>3. CASE l >= len[s]
      <4>1. l = len[s] \/ l > len[s]
        BY <3>1, <3>3
      <4> QED
        BY <2>2, <2>4, <3>1, <4>1 DEF ShardInv
    <3> QED
      BY <3>1, <3>2, <3>3
  <2> QED
    BY <2>3, <2>5, Zenon
<1> QED
  BY <1>1, InternerInvariant, PTL

\* No step overwrites a slot that was written.
LEMMA WrittenSlotsStay ==
    ASSUME IndInv, [Next]_vars, NEW s \in Shard, NEW l \in Local, slot[s][l] # Uninit
    PROVE  slot'[s][l] = slot[s][l]
<1>1. CASE slot' = slot
  BY <1>1, Zenon
<1>2. ASSUME NEW t \in Thread, WriteSlot(t) PROVE slot'[s][l] = slot[s][l]
  <2> PICK r : r = ShardOf[arg[t]]
    BY Zenon
  <2>1. slot' = [slot EXCEPT ![r][len[r]] = arg[t]] /\ InCritical(t) /\ pc[t] = "locked"
        /\ len[r] < Limit
    BY <1>2, Zenon DEF WriteSlot, InCritical
  <2>2. r \in Shard /\ writer[r] = t
    BY <2>1, OwnerFacts, Zenon
  <2>3. slot[r][len[r]] = Uninit
    BY <2>1, <2>2 DEF IndInv, ShardInv
  <2>4. ~(s = r /\ l = len[r])
    BY <2>3, Zenon
  <2> QED
    BY <2>1, <2>2, <2>4, Zenon DEF IndInv, TypeOK
<1>3. slot' = slot \/ \E t \in Thread : WriteSlot(t)
  BY Zenon DEF Next, InternStep, LockWrite, RecheckHit, PanicFull, PanicArena, InsertTable, Publish,
         Finish, InternRead, TryGet, FromRaw, Send, vars, mem
<1> QED
  BY <1>1, <1>2, <1>3, Zenon

\* A slot that was written keeps its value for ever.
THEOREM InternerWriteOnce == Spec => SlotsWriteOnce
<1>1. IndInv /\ [Next]_vars =>
        [\A s \in Shard, l \in Local : slot[s][l] # Uninit => slot'[s][l] = slot[s][l]]_vars
  BY WrittenSlotsStay, Zenon
<1> QED
  BY <1>1, InternerInvariant, PTL DEF Spec, SlotsWriteOnce

-----------------------------------------------------------------------------
(***************************************************************************)
(* The interner implements the abstract one-to-one relation.               *)
(***************************************************************************)
\* The pairs of the abstract relation are the published slots.
LEMMA AssignedPairs ==
    \A p : p \in Assigned <=>
        \E s \in Shard : \E l \in 0..(pub[s] - 1) : p = <<slot[s][l], Raw(s, l)>>
BY DEF Assigned

\* So they are after a step.
LEMMA AssignedPairsNext ==
    \A p : p \in Assigned' <=>
        \E s \in Shard : \E l \in 0..(pub'[s] - 1) : p = <<slot'[s][l], Raw(s, l)>>
BY DEF Assigned

\* A published slot was written.
LEMMA PublishedWritten ==
    ASSUME IndInv, NEW s \in Shard, NEW l \in 0..(pub[s] - 1)
    PROVE  l \in Local /\ l \in 0..(len[s] - 1) /\ slot[s][l] \in Value
<1>1. pub[s] \in Nat /\ len[s] \in Nat /\ pub[s] <= len[s] /\ len[s] <= Limit
  BY PublishedBelowLength, Zenon
<1>2. l \in Local /\ l \in 0..(len[s] - 1)
  BY <1>1, InternerAssumption DEF Local
<1> QED
  BY <1>2, Zenon DEF IndInv, ShardInv

\* Only publishing a length changes the abstract relation.
LEMMA AssignedStays ==
    ASSUME IndInv, [Next]_vars, pub' = pub
    PROVE  Assigned' = Assigned
<1>1. \A s \in Shard : \A l \in 0..(pub[s] - 1) : slot'[s][l] = slot[s][l]
  BY PublishedWritten, WrittenSlotsStay, InternerAssumption
<1>2. \A p : p \in Assigned' <=> p \in Assigned
  BY <1>1, AssignedPairs, AssignedPairsNext
<1> QED
  BY <1>2, Zenon

\* The ids a thread holds after a step are issued.
LEMMA HeldIssuedNext ==
    ASSUME IndInv', NEW t \in Thread, NEW raw \in held'[t]
    PROVE  raw \in Abs!IssuedIds'
<1> PICK s, l : s = ShardPart(raw) /\ l = LocalPart(raw)
  BY Zenon
<1>1. raw \in RawId /\ l < view'[t][s].len
  BY Zenon DEF IndInv, TypeOK, IdsInv
<1>2. s \in Shard /\ l \in Nat /\ raw = Raw(s, l)
  BY <1>1, IdParts, InternerAssumption DEF Local
<1>3. view'[t][s].len \in Nat /\ view'[t][s].len <= pub'[s] /\ pub'[s] \in Nat
  BY <1>2, InternerAssumption DEF IndInv, TypeOK, View, ViewsInv, ViewInv
<1>4. l \in 0..(pub'[s] - 1)
  BY <1>1, <1>2, <1>3
<1>5. <<slot'[s][l], raw>> \in Assigned'
  BY <1>2, <1>4, AssignedPairsNext, Zenon
<1>6. <<slot'[s][l], raw>>[2] = raw
  BY Zenon
<1> QED
  BY <1>5, <1>6, Zenon DEF Abs!IssuedIds

\* Publishing assigns the new value its id.
LEMMA PublishAssigns ==
    ASSUME IndInv, NEW t \in Thread, Publish(t)
    PROVE  \E v \in Value, id \in RawId : Abs!Assign(v, id)
<1> PICK s : s = ShardOf[arg[t]]
  BY Zenon
<1> PICK n : n = len[s]
  BY Zenon
<1>1. InCritical(t) /\ pc[t] = "inserted"
  BY Zenon DEF Publish, InCritical
<1>2. s \in Shard /\ arg[t] \in Value
  BY <1>1, OwnerFacts, Zenon
<1>3. pub[s] = n - 1 /\ slot[s][n - 1] = arg[t]
  BY <1>1, Zenon DEF IndInv, WriterInv
<1>4. /\ n - 1 \in Nat /\ n \in Nat /\ n <= Limit /\ Limit \in Nat
      /\ \A r \in Shard : pub[r] \in Nat
  BY <1>2, <1>3, PublishedBelowLength, InternerAssumption, Zenon
<1>5. /\ pub' = [pub EXCEPT ![s] = n] /\ slot' = slot /\ held' = held
      /\ pub \in [Shard -> 0..Limit]
  BY Zenon DEF Publish, IndInv, TypeOK
<1> PICK v, id : v = arg[t] /\ id = Raw(s, n - 1)
  BY Zenon
<1>6. n - 1 \in Local /\ id \in RawId /\ ShardPart(id) = s /\ LocalPart(id) = n - 1
  <2>1. n - 1 \in Local
    BY <1>4 DEF Local
  <2> QED
    BY <1>2, <2>1, RawParts, Zenon
<1>7. ASSUME NEW p \in Assigned PROVE p[1] # v /\ p[2] # id
  <2>1. PICK r \in Shard : \E l \in 0..(pub[r] - 1) : p = <<slot[r][l], Raw(r, l)>>
    BY <1>7, AssignedPairs, Zenon
  <2>2. PICK l \in 0..(pub[r] - 1) : p = <<slot[r][l], Raw(r, l)>>
    BY <2>1, Zenon
  <2>3. l \in Local /\ l \in 0..(len[r] - 1) /\ ShardOf[slot[r][l]] = r
    BY PublishedWritten, ZenonT(60) DEF IndInv, ShardInv
  <2>4. p[1] = slot[r][l] /\ p[2] = Raw(r, l)
    BY <2>2, Zenon
  <2>5. r = s => l \in 0..(n - 2)
    BY <1>3, <1>4, <2>2
  <2>6. p[2] # id
    <3>1. ShardPart(p[2]) = r /\ LocalPart(p[2]) = l
      BY <2>3, <2>4, RawParts, Zenon
    <3>2. r = s => l # n - 1
      BY <1>4, <2>5
    <3> QED
      BY <1>6, <3>1, <3>2, Zenon
  <2>7. p[1] # v
    <3>1. CASE r # s
      BY <2>3, <2>4, <3>1, Zenon
    <3>2. CASE r = s
      <4>1. n - 1 \in 0..(len[s] - 1) /\ l \in 0..(len[s] - 1) /\ l # n - 1
        BY <1>4, <2>3, <2>5, <3>2
      <4> QED
        BY <1>2, <1>3, <2>4, <3>2, <4>1 DEF IndInv, ShardInv
    <3> QED
      BY <3>1, <3>2, Zenon
  <2> QED
    BY <2>6, <2>7, Zenon
<1>8. Assigned' = Assigned \cup {<<v, id>>}
  <2>1. ASSUME NEW r \in Shard
        PROVE  0..(pub'[r] - 1) = IF r = s THEN 0..(pub[r] - 1) \cup {n - 1} ELSE 0..(pub[r] - 1)
    <3>1. CASE r # s
      BY <1>5, <3>1, Zenon
    <3>2. CASE r = s
      <4>1. pub'[s] = n
        BY <1>2, <1>5, Zenon
      <4>2. 0..(n - 1) = 0..((n - 1) - 1) \cup {n - 1}
        BY <1>4
      <4> QED
        BY <1>3, <3>2, <4>1, <4>2, Zenon
    <3> QED
      BY <3>1, <3>2, Zenon
  <2>2. \A p : p \in Assigned' <=> (p \in Assigned \/ p = <<v, id>>)
    BY <1>2, <1>3, <1>5, <2>1, AssignedPairs, AssignedPairsNext, SMTT(40)
  <2> QED
    BY <2>2, Zenon
<1>9. Abs!Assign(v, id)
  BY <1>5, <1>7, <1>8, Zenon DEF Abs!Assign
<1> QED
  BY <1>2, <1>6, <1>9, Zenon

\* Every step of the interner is a step of the abstract one or changes nothing
\* that it shows.
LEMMA StepImplements ==
    ASSUME IndInv, [Next]_vars, IndInv'
    PROVE  [Abs!Next]_(Abs!vars)
<1>1. CASE \E t \in Thread : Publish(t)
  BY <1>1, PublishAssigns, Zenon DEF Abs!Next
<1>2. CASE pub' = pub
  <2>1. Assigned' = Assigned
    BY <1>2, AssignedStays, Zenon
  <2>2. held' = held \/ \E t \in Thread : \E ids : held' = [held EXCEPT ![t] = @ \cup ids]
    <3>1. ASSUME NEW t \in Thread, InternStep(t)
          PROVE  held' = held \/ \E ids : held' = [held EXCEPT ![t] = @ \cup ids]
      BY <3>1, Zenon DEF InternStep, LockWrite, RecheckHit, PanicFull, PanicArena, WriteSlot,
                  InsertTable, Publish, Finish, Return
    <3>2. ASSUME NEW t \in Thread, NEW v \in Value, InternRead(t, v) \/ TryGet(t, v)
          PROVE  \E ids : held' = [held EXCEPT ![t] = @ \cup ids]
      BY <3>2, Zenon DEF InternRead, TryGet, LookUp, Return
    <3>3. ASSUME NEW t \in Thread, NEW raw, NEW n, FromRaw(t, raw, n)
          PROVE  \E ids : held' = [held EXCEPT ![t] = @ \cup ids]
      <4>1. CASE LocalPart(raw) < n
        <5>1. held' = [held EXCEPT ![t] = @ \cup {raw}]
          BY <3>3, <4>1, Zenon DEF FromRaw
        <5> QED
          BY <5>1, Zenon
      <4>2. CASE ~(LocalPart(raw) < n)
        <5>1. held' = [held EXCEPT ![t] = @]
          BY <3>3, <4>2, Zenon DEF FromRaw
        <5>2. held' = [held EXCEPT ![t] = @ \cup {}]
          BY <5>1, Zenon DEF IndInv, TypeOK
        <5> QED
          BY <5>2, Zenon
      <4> QED
        BY <4>1, <4>2, Zenon
    <3>4. ASSUME NEW t \in Thread, NEW u \in Thread, Send(t, u)
          PROVE  \E ids : held' = [held EXCEPT ![u] = @ \cup ids]
      BY <3>4, Zenon DEF Send
    <3>5. CASE UNCHANGED vars
      BY <3>5, Zenon DEF vars
    <3> QED
      BY <3>1, <3>2, <3>3, <3>4, <3>5, Zenon DEF Next
  <2>3. CASE held' = held
    BY <2>1, <2>3, Zenon DEF Abs!vars
  <2>4. ASSUME NEW t \in Thread, NEW ids, held' = [held EXCEPT ![t] = @ \cup ids]
        PROVE  Abs!Next
    <3>1. held \in [Thread -> SUBSET RawId] /\ held' \in [Thread -> SUBSET RawId]
      BY Zenon DEF IndInv, TypeOK
    <3>2. held'[t] = held[t] \cup ids /\ ids \subseteq RawId
      BY <2>4, <3>1, Zenon
    <3>3. \A raw \in ids : raw \in Abs!IssuedIds'
      BY <3>2, HeldIssuedNext, Zenon
    <3>4. Abs!IssuedIds' = Abs!IssuedIds
      BY <2>1, Zenon DEF Abs!IssuedIds
    <3>5. Abs!Learn(t, ids)
      BY <2>1, <2>4, <3>3, <3>4, Zenon DEF Abs!Learn
    <3> QED
      BY <3>2, <3>5, Zenon DEF Abs!Next
  <2> QED
    BY <2>2, <2>3, <2>4, Zenon
<1>3. pub' = pub \/ \E t \in Thread : Publish(t)
  BY ZenonT(60) DEF Next, InternStep, LockWrite, RecheckHit, PanicFull, PanicArena, WriteSlot, InsertTable,
         Finish, InternRead, TryGet, FromRaw, Send, vars, mem
<1> QED
  BY <1>1, <1>2, <1>3, Zenon

\* The concurrent interner implements the abstract one: values and ids are
\* related one to one, the relation only grows, and threads only ever hold
\* issued ids.
THEOREM InternerImplements == Spec => ImplementsInterner
<1>1. Init => Abs!Init
  <2> SUFFICES ASSUME Init PROVE Abs!Init
    BY Zenon
  <2>1. \A s \in Shard : 0..(pub[s] - 1) = {}
    BY DEF Init
  <2>2. Assigned = {}
    BY <2>1, AssignedPairs, Zenon
  <2> QED
    BY <2>2, Zenon DEF Init, Abs!Init
<1>2. IndInv /\ [Next]_vars /\ IndInv' => [Abs!Next]_(Abs!vars)
  BY StepImplements, Zenon
<1> QED
  BY <1>1, <1>2, InternerInvariant, PTL DEF Spec, ImplementsInterner, Abs!Spec
=============================================================================
