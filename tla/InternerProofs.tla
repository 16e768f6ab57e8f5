--------------------------- MODULE InternerProofs ---------------------------
(***************************************************************************)
(* Proofs of the safety properties of IdInterner for any number of         *)
(* threads, values and shards, any limit and any arena.                    *)
(***************************************************************************)
EXTENDS IdInterner, TLAPS

-----------------------------------------------------------------------------
(***************************************************************************)
(* Ids: encoding and decoding are inverse.                                 *)
(***************************************************************************)
\* Division with remainder, for a dividend that is not negative.
LEMMA Division ==
    ASSUME NEW n \in Nat \ {0}, NEW x \in Nat
    PROVE  /\ x = n * (x \div n) + (x % n)
           /\ x % n \in 0..(n - 1)
           /\ x \div n \in Nat
<1>1. x = n * (x \div n) + (x % n) /\ x % n \in 0..(n - 1) /\ x \div n \in Int
  BY SMT
<1>2. ASSUME NEW k \in Nat PROVE x \div n # -(k + 1)
  <2>1. n * k >= 0
    BY SMT
  <2>2. n * (-(k + 1)) = -(n * k) - n
    BY SMT
  <2> QED
    BY <1>1, <2>1, <2>2, SMT
<1>3. \A z \in Int : z >= 0 \/ \E k \in Nat : z = -(k + 1)
  <2>1. \A z \in Int : z < 0 => (-z - 1 \in Nat /\ z = -((-z - 1) + 1))
    BY SMT
  <2> QED
    BY <2>1
<1> QED
  BY <1>1, <1>2, <1>3

\* Quotient and remainder are unique.
LEMMA DivMod ==
    ASSUME NEW n \in Nat \ {0}, NEW q \in Int, NEW r \in 0..(n - 1)
    PROVE  (q * n + r) % n = r /\ (q * n + r) \div n = q
<1>1. PICK x \in Int : x = q * n + r
  OBVIOUS
<1>2. x = n * (x \div n) + (x % n) /\ x % n \in 0..(n-1) /\ x \div n \in Int
  BY <1>1, SMT
<1> DEFINE d == (x \div n) - q
<1>3. d \in Int
  BY <1>2
<1> HIDE DEF d
<1>4. n * d = r - (x % n)
  BY <1>1, <1>2, <1>3, SMT DEF d
<1>5. d = 0
  BY <1>4, <1>2, <1>3, SMT
<1> QED
  BY <1>1, <1>2, <1>3, <1>4, <1>5, SMT DEF d

\* decode(encode): an issued id names its own shard and local index.
LEMMA RawParts ==
    ASSUME NEW s \in Shard, NEW l \in Local
    PROVE  /\ Raw(s, l) \in RawId
           /\ ShardPart(Raw(s, l)) = s
           /\ LocalPart(Raw(s, l)) = l
<1>1. S \in Nat \ {0} /\ s \in 0..(S - 1) /\ l \in Nat
  BY InternerAssumption DEF Shard, Local
<1>2. l + 1 \in Int
  BY <1>1
<1>3. ((l + 1) * S + s) % S = s /\ ((l + 1) * S + s) \div S = l + 1
  BY <1>1, <1>2, DivMod, Zenon
<1> QED
  BY <1>1, <1>3 DEF Raw, RawId, ShardPart, LocalPart

\* The parts of an id are a shard and a local index of it.
LEMMA IdParts ==
    ASSUME NEW raw \in RawId
    PROVE  /\ ShardPart(raw) \in Shard
           /\ LocalPart(raw) \in Local
           /\ raw = Raw(ShardPart(raw), LocalPart(raw))
<1>1. PICK s \in Shard, l \in Local : raw = Raw(s, l)
  BY DEF RawId
<1> QED
  BY <1>1, RawParts, Zenon

\* from_raw accepts only bits of an id: a local part below a length is one.
LEMMA BitsBelowLength ==
    ASSUME NEW raw \in 0..MaxU32, LocalPart(raw) < Limit
    PROVE  raw \in RawId
<1>1. S \in Nat \ {0} /\ Limit \in Nat \ {0} /\ MaxU32 \in Nat /\ raw \in Nat
  BY InternerAssumption
<1>2. MaxU32 >= Limit
  <2>1. PICK k \in Nat : S = k + 1
    BY <1>1, SMT
  <2>2. (Limit + 1) * k >= 0
    BY <1>1, SMT
  <2>3. (Limit + 1) * S = (Limit + 1) * k + Limit + 1
    BY <1>1, <2>1, SMT
  <2> QED
    BY <1>1, <2>2, <2>3, InternerAssumption, SMT
<1>3. /\ raw = S * (raw \div S) + (raw % S)
      /\ raw % S \in 0..(S - 1)
      /\ raw \div S \in Nat
  BY <1>1, Division, Zenon
<1>4. raw \div S # 0
  BY <1>1, <1>2 DEF LocalPart
<1>5. (raw \div S) - 1 \in Local /\ raw % S \in Shard
  BY <1>1, <1>3, <1>4 DEF LocalPart, Local, Shard
<1>6. raw = Raw(raw % S, (raw \div S) - 1)
  BY <1>1, <1>3, SMT DEF Raw
<1> QED
  BY <1>5, <1>6 DEF RawId

-----------------------------------------------------------------------------
(***************************************************************************)
(* Views and lookups.                                                      *)
(***************************************************************************)
\* Joining two sound views gives a sound view that has what either has.
LEMMA JoinSound ==
    ASSUME NEW v \in View, NEW w \in View, TypeOK, ViewInv(v), ViewInv(w)
    PROVE  /\ Join(v, w) \in View
           /\ ViewInv(Join(v, w))
           /\ \A s \in Shard : /\ Join(v, w)[s].len >= v[s].len
                               /\ Join(v, w)[s].len >= w[s].len
                               /\ Join(v, w)[s].len \in {v[s].len, w[s].len}
                               /\ v[s].slots \subseteq Join(v, w)[s].slots
<1>1. \A s \in Shard : /\ v[s] \in [slots : SUBSET Local, len : 0..Limit]
                        /\ w[s] \in [slots : SUBSET Local, len : 0..Limit]
  BY Zenon DEF View
<1>2. Limit \in Nat /\ pub \in [Shard -> 0..Limit]
  BY InternerAssumption, Zenon DEF TypeOK
<1>3. Join(v, w) \in View
  BY <1>1, <1>2, Zenon DEF Join, View
<1> QED
  BY <1>1, <1>2, <1>3 DEF Join, ViewInv

\* What find returns are ids of slots below the length that hold the value.
LEMMA FindSound ==
    ASSUME TypeOK, NEW s \in Shard, ShardInv(s), NEW v, NEW raw \in Find(s, v)
    PROVE  /\ raw \in RawId
           /\ ShardPart(raw) = s
           /\ LocalPart(raw) \in 0..(len[s] - 1)
           /\ ValueOf(raw) = v
<1>1. PICK l \in 0..(len[s] - 1) : raw = Raw(s, l)
  BY Zenon DEF Find, ShardInv
<1>2. l \in Local
  BY <1>1, InternerAssumption DEF TypeOK, Local
<1> QED
  BY <1>1, <1>2, RawParts, Zenon DEF Find

\* A value that find misses is in no slot below the length.
LEMMA FindComplete ==
    ASSUME TypeOK, NEW s \in Shard, ShardInv(s), NEW v, Find(s, v) = {}
    PROVE  \A l \in 0..(len[s] - 1) : slot[s][l] # v
<1>1. SUFFICES ASSUME NEW l \in 0..(len[s] - 1), slot[s][l] = v
               PROVE  FALSE
  BY Zenon
<1>2. l \in Local
  BY <1>1, InternerAssumption DEF TypeOK, Local
<1>3. Raw(s, l) \in table[s]
  BY <1>1, Zenon DEF ShardInv
<1> QED
  BY <1>1, <1>2, <1>3, RawParts, Zenon DEF Find, ValueOf

-----------------------------------------------------------------------------
(***************************************************************************)
(* The initial states satisfy the invariant, and every action preserves it.*)
(***************************************************************************)
\* A fresh interner satisfies the invariant.
LEMMA InitInv == Init => IndInv
<1> SUFFICES ASSUME Init PROVE IndInv
  BY Zenon
<1>0. Limit \in Nat \ {0} /\ NoThread \notin Thread
  BY InternerAssumption, Zenon
<1>1. NoView \in View
  BY <1>0 DEF NoView, View
<1>2. TypeOK
  BY <1>0, <1>1 DEF Init, TypeOK
<1>3. LockInv
  BY <1>0, Zenon DEF Init, LockInv, InCritical
<1>4. \A s \in Shard : ShardInv(s)
  BY <1>0 DEF Init, ShardInv, Local
<1>5. \A t \in Thread : WriterInv(t)
  BY Zenon DEF Init, WriterInv
<1>6. ViewInv(NoView)
  BY DEF Init, ViewInv, NoView
<1>7. ViewsInv
  <2>1. \A s \in Shard : \A n \in 0..pub[s] : n = 0 /\ pubView[s][n] = NoView
    BY DEF Init
  <2>2. \A s \in Shard : NoView[s].len = 0 /\ pub[s] = 0 /\ lockView[s] = NoView
    BY Zenon DEF Init, NoView
  <2>3. \A t \in Thread : view[t] = NoView /\ ~InCritical(t)
    BY Zenon DEF Init, InCritical
  <2> QED
    BY <1>6, <2>1, <2>2, <2>3, Zenon DEF ViewsInv
<1>8. IdsInv
  BY Zenon DEF Init, IdsInv
<1> QED
  BY <1>2, <1>3, <1>4, <1>5, <1>7, <1>8, Zenon DEF IndInv

\* A step that leaves memory alone and only extends one thread's view and ids.
LEMMA ReaderStep ==
    ASSUME IndInv, NEW t \in Thread, NEW w \in View,
           UNCHANGED mem,
           ViewInv(w), 
           view' = [view EXCEPT ![t] = w],
           ~InCritical(t), pc' = pc \/ pc' = [pc EXCEPT ![t] = "missed"],
           arg' \in [Thread -> Value \cup {Uninit}],
           \A u \in Thread : u # t => arg'[u] = arg[u],
           pc'[t] = "idle" \/ arg'[t] \in Value,
           held' \in [Thread -> SUBSET RawId],
           \A u \in Thread : u # t => held'[u] = held[u],
           \A raw \in held'[t] : LocalPart(raw) < w[ShardPart(raw)].len,
           got' \subseteq Value \X RawId,
           \A p \in got' : p \in got \/ PairInv(p)
    PROVE  IndInv'
<1> USE DEF IndInv, mem
<1>1. TypeOK'
  BY Zenon DEF TypeOK, InCritical
<1>2. \A u \in Thread : u # t => pc'[u] = pc[u] /\ arg'[u] = arg[u] /\ view'[u] = view[u]
  BY Zenon DEF TypeOK
<1>3. pc'[t] \in {"idle", "missed"} /\ pc[t] \in {"idle", "missed"} /\ view'[t] = w
  BY Zenon DEF TypeOK, InCritical
<1>4. LockInv'
  BY <1>2, <1>3 DEF LockInv, InCritical
<1>5. \A s \in Shard : ShardInv(s)'
  BY <1>2, <1>3 DEF ShardInv
<1>6. \A u \in Thread : WriterInv(u)'
  BY <1>2, <1>3 DEF WriterInv
<1>7. ViewsInv'
  BY <1>2, <1>3 DEF ViewsInv, ViewInv, InCritical
<1>8. IdsInv'
  BY <1>2, <1>3, ZenonT(60) DEF IdsInv, PairInv, ValueOf
<1> QED
  BY <1>1, <1>4, <1>5, <1>6, <1>7, <1>8, Zenon

\* A lookup under the read lock hands out ids that are published and visible.
LEMMA LookUpSound ==
    ASSUME IndInv, NEW t \in Thread, NEW v \in Value, LookUp(t, v),
           NEW w, w = Join(view[t], lockView[ShardOf[v]])
    PROVE  /\ w \in View
           /\ ViewInv(w)
           /\ view' = [view EXCEPT ![t] = w]
           /\ held' \in [Thread -> SUBSET RawId]
           /\ \A u \in Thread : u # t => held'[u] = held[u]
           /\ \A raw \in held'[t] : LocalPart(raw) < w[ShardPart(raw)].len
           /\ got' \subseteq Value \X RawId
           /\ \A p \in got' : p \in got \/ PairInv(p)
<1> DEFINE s == ShardOf[v]
<1>1. s \in Shard /\ view[t] \in View /\ lockView[s] \in View
  BY InternerAssumption, Zenon DEF IndInv, TypeOK
<1>2. ViewInv(view[t]) /\ ViewInv(lockView[s])
  BY <1>1, Zenon DEF IndInv, ViewsInv
<1>3. /\ w \in View
      /\ ViewInv(w)
      /\ \A r \in Shard : w[r].len >= view[t][r].len /\ w[r].len >= lockView[s][r].len
  BY <1>1, <1>2, JoinSound, Zenon DEF IndInv
<1>4. writer[s] = NoThread
  BY Zenon DEF LookUp
<1>5. lockView[s][s].len = pub[s] /\ pub[s] = len[s] /\ len[s] \in Nat
  BY <1>1, <1>4, InternerAssumption DEF IndInv, TypeOK, ViewsInv, ShardInv
<1>6. \A raw \in Find(s, v) : /\ raw \in RawId
                              /\ ShardPart(raw) = s
                              /\ LocalPart(raw) \in 0..(len[s] - 1)
                              /\ ValueOf(raw) = v
  BY <1>1, FindSound, Zenon DEF IndInv
<1>7. /\ view' = [view EXCEPT ![t] = w]
      /\ held' = [held EXCEPT ![t] = @ \cup Find(s, v)]
      /\ got' = got \cup {<<v, raw>> : raw \in Find(s, v)}
  BY Zenon DEF LookUp, Return
<1>8. held \in [Thread -> SUBSET RawId] /\ got \subseteq Value \X RawId
  BY Zenon DEF IndInv, TypeOK
<1> HIDE DEF s
<1>9. \A raw \in held'[t] : LocalPart(raw) < w[ShardPart(raw)].len
  <2>1. SUFFICES ASSUME NEW raw \in held'[t] PROVE LocalPart(raw) < w[ShardPart(raw)].len
    BY Zenon
  <2>2. raw \in RawId /\ ShardPart(raw) \in Shard /\ LocalPart(raw) \in Nat
    BY <1>6, <1>7, <1>8, <2>1, IdParts, InternerAssumption DEF Local
  <2>3. \A r \in Shard : w[r].len \in Nat /\ view[t][r].len \in Nat /\ lockView[s][r].len \in Nat
    BY <1>1, <1>3, InternerAssumption DEF View
  <2>4. CASE raw \in held[t]
    BY <1>3, <2>2, <2>3, <2>4 DEF IndInv, IdsInv
  <2>5. CASE raw \in Find(s, v)
    <3>1. ShardPart(raw) = s /\ LocalPart(raw) < len[s]
      BY <1>5, <1>6, <2>2, <2>5
    <3> QED
      BY <1>1, <1>3, <1>5, <2>2, <2>3, <3>1
  <2> QED
    BY <1>7, <1>8, <2>1, <2>4, <2>5, Zenon
<1>10. \A p \in got' : p \in got \/ PairInv(p)
  BY <1>1, <1>5, <1>6, <1>7 DEF PairInv
<1>11. held' \in [Thread -> SUBSET RawId] /\ got' \subseteq Value \X RawId
  BY <1>6, <1>7, <1>8
<1>12. \A u \in Thread : u # t => held'[u] = held[u]
  BY <1>7, <1>8, Zenon
<1>13. w \in View /\ ViewInv(w) /\ view' = [view EXCEPT ![t] = w]
  BY <1>3, <1>7, Zenon
<1> QED
  BY <1>9, <1>10, <1>11, <1>12, <1>13, Zenon

\* intern's first find and try_get preserve the invariant.
LEMMA LookUpStep ==
    ASSUME IndInv, NEW t \in Thread, NEW v \in Value, InternRead(t, v) \/ TryGet(t, v)
    PROVE  IndInv'
<1>1. LookUp(t, v) /\ UNCHANGED mem /\ pc[t] = "idle"
  BY Zenon DEF InternRead, TryGet
<1> PICK w : w = Join(view[t], lockView[ShardOf[v]])
  BY Zenon
<1>2. /\ w \in View
      /\ ViewInv(w)
      /\ view' = [view EXCEPT ![t] = w]
      /\ held' \in [Thread -> SUBSET RawId]
      /\ \A u \in Thread : u # t => held'[u] = held[u]
      /\ \A raw \in held'[t] : LocalPart(raw) < w[ShardPart(raw)].len
      /\ got' \subseteq Value \X RawId
      /\ \A p \in got' : p \in got \/ PairInv(p)
  BY <1>1, LookUpSound, Zenon
<1>3. pc \in [Thread -> {"idle", "missed", "locked", "written", "inserted", "published"}]
      /\ arg \in [Thread -> Value \cup {Uninit}]
  BY Zenon DEF IndInv, TypeOK
<1>4. \/ pc' = pc /\ arg' = arg
      \/ pc' = [pc EXCEPT ![t] = "missed"] /\ arg' = [arg EXCEPT ![t] = v]
  BY Zenon DEF InternRead, TryGet
<1>5. /\ ~InCritical(t)
      /\ pc' = pc \/ pc' = [pc EXCEPT ![t] = "missed"]
      /\ arg' \in [Thread -> Value \cup {Uninit}]
      /\ \A u \in Thread : u # t => arg'[u] = arg[u]
      /\ pc'[t] = "idle" \/ arg'[t] \in Value
  BY <1>1, <1>3, <1>4, Zenon DEF InCritical
<1> QED
  BY <1>1, <1>2, <1>5, ReaderStep, Zenon

\* from_raw preserves the invariant, whatever bits it is given and whatever
\* length its load returns.
LEMMA FromRawStep ==
    ASSUME IndInv, NEW t \in Thread, NEW raw \in 0..MaxU32, NEW n \in 0..Limit,
           FromRaw(t, raw, n)
    PROVE  IndInv'
<1> DEFINE s == ShardPart(raw)
<1>1. s \in Shard /\ S \in Nat \ {0} /\ Limit \in Nat \ {0}
  BY Division, InternerAssumption DEF ShardPart, Shard
<1>2. /\ view \in [Thread -> View] /\ pub[s] \in 0..Limit
      /\ pubView[s] \in [0..pub[s] -> View]
      /\ held \in [Thread -> SUBSET RawId]
  BY <1>1, Zenon DEF IndInv, TypeOK
<1>3. view[t][s].len \in Nat /\ n \in view[t][s].len..pub[s] /\ pc[t] = "idle"
  BY <1>1, <1>2 DEF FromRaw, View
<1>4. n \in 0..pub[s] /\ n >= view[t][s].len
  BY <1>2, <1>3
<1> DEFINE v == SetLen(view[t], s, n)
<1> HIDE DEF s
<1>5. /\ v \in View
      /\ \A r \in Shard : /\ v[r].slots = view[t][r].slots
                          /\ v[r].len = IF r = s THEN n ELSE view[t][r].len
  <2>1. \A r \in Shard : view[t][r] \in [slots : SUBSET Local, len : 0..Limit]
    BY <1>2, Zenon DEF View
  <2> QED
    BY <1>1, <1>2, <2>1, Zenon DEF View, SetLen
<1> PICK w : w = Join(v, pubView[s][n])
  BY Zenon
<1>6. /\ pubView[s][n] \in View
      /\ ViewInv(pubView[s][n])
      /\ pubView[s][n][s].len = n
      /\ ViewInv(view[t])
  BY <1>1, <1>2, <1>4, Zenon DEF IndInv, ViewsInv
<1>7. /\ w \in View
      /\ \A r \in Shard : /\ w[r].len = IF v[r].len < pubView[s][n][r].len
                                          THEN pubView[s][n][r].len ELSE v[r].len
                          /\ w[r].slots = v[r].slots \cup pubView[s][n][r].slots
  <2> HIDE DEF v
  <2>1. \A r \in Shard : v[r] \in [slots : SUBSET Local, len : 0..Limit]
    BY <1>5, Zenon DEF View
  <2>2. \A r \in Shard : pubView[s][n][r] \in [slots : SUBSET Local, len : 0..Limit]
    BY <1>6, Zenon DEF View
  <2> QED
    BY <2>1, <2>2, Zenon DEF Join, View
<1>8. ViewInv(w) /\ \A r \in Shard : w[r].len \in Nat /\ w[r].len >= view[t][r].len
  <2> HIDE DEF v
  <2>1. \A r \in Shard : /\ view[t][r].len \in Nat
                          /\ v[r].len \in Nat
                          /\ pubView[s][n][r].len \in Nat
                          /\ pub[r] \in Nat
    BY <1>1, <1>2, <1>5, <1>6 DEF View, IndInv, TypeOK
  <2>2. \A r \in Shard : w[r].len \in Nat /\ w[r].len >= view[t][r].len
    BY <1>4, <1>5, <1>7, <2>1
  <2>3. \A r \in Shard : w[r].len <= pub[r]
    BY <1>1, <1>4, <1>5, <1>6, <1>7, <2>1, ZenonT(60) DEF ViewInv
  <2>4. ASSUME NEW r \in Shard PROVE 0..(w[r].len - 1) \subseteq w[r].slots
    <3>1. 0..(pubView[s][n][r].len - 1) \subseteq pubView[s][n][r].slots
      BY <1>6, Zenon DEF ViewInv
    <3>2. 0..(view[t][r].len - 1) \subseteq view[t][r].slots
      BY <1>6, Zenon DEF ViewInv
    <3>3. w[r].len = pubView[s][n][r].len \/ w[r].len = view[t][r].len
      BY <1>4, <1>5, <1>6, <1>7, <2>1, Zenon
    <3> QED
      BY <1>5, <1>7, <3>1, <3>2, <3>3, Zenon
  <2> QED
    BY <2>2, <2>3, <2>4, Zenon DEF ViewInv
<1>9. view' = [view EXCEPT ![t] = w]
  BY <1>2, Zenon DEF FromRaw, s
<1>10. held' = [held EXCEPT ![t] = IF LocalPart(raw) < n THEN @ \cup {raw} ELSE @]
  BY Zenon DEF FromRaw
<1>11. LocalPart(raw) < n => raw \in RawId
  <2>0. raw \in Nat /\ MaxU32 \in Nat
    BY InternerAssumption
  <2>1. raw \div S \in Nat /\ MaxU32 \in Nat
    BY <1>1, <2>0, Division, Zenon
  <2>2. LocalPart(raw) \in Int
    BY <2>1 DEF LocalPart
  <2>3. LocalPart(raw) < n => LocalPart(raw) < Limit
    BY <1>1, <2>2
  <2> QED
    BY <2>3, BitsBelowLength, Zenon
<1>12. w[s].len = n
  BY <1>1, <1>5, <1>6, <1>7, Zenon
<1>13. \A r \in held'[t] : LocalPart(r) < w[ShardPart(r)].len
  <2>1. SUFFICES ASSUME NEW r \in held'[t] PROVE LocalPart(r) < w[ShardPart(r)].len
    BY Zenon
  <2>2. CASE r \in held[t]
    <3>1. r \in RawId /\ LocalPart(r) \in Nat /\ ShardPart(r) \in Shard
      BY <1>1, <1>2, <2>2, IdParts DEF Local
    <3>2. view[t][ShardPart(r)].len \in Nat
      BY <1>1, <1>2, <3>1 DEF View
    <3> QED
      BY <1>8, <2>2, <3>1, <3>2 DEF IndInv, IdsInv
  <2>3. CASE r = raw /\ LocalPart(raw) < n
    BY <1>12, <2>3, Zenon DEF s
  <2> QED
    BY <1>2, <1>10, <2>1, <2>2, <2>3, Zenon
<1>14. held' \in [Thread -> SUBSET RawId] /\ \A u \in Thread : u # t => held'[u] = held[u]
  BY <1>2, <1>10, <1>11, Zenon
<1>15. /\ UNCHANGED mem /\ ~InCritical(t) /\ pc' = pc /\ arg' = arg /\ got' = got
       /\ pc'[t] = "idle"
  BY <1>3, Zenon DEF FromRaw, InCritical
<1>16. arg' \in [Thread -> Value \cup {Uninit}] /\ got' \subseteq Value \X RawId
  BY <1>15, Zenon DEF IndInv, TypeOK
<1> QED
  BY <1>7, <1>8, <1>9, <1>13, <1>14, <1>15, <1>16, ReaderStep, Zenon

\* Passing ids on to another thread, with what happened before, preserves it.
LEMMA SendStep ==
    ASSUME IndInv, NEW t \in Thread, NEW u \in Thread, Send(t, u)
    PROVE  IndInv'
<1>1. view[t] \in View /\ view[u] \in View /\ held \in [Thread -> SUBSET RawId]
      /\ Limit \in Nat
  BY InternerAssumption, Zenon DEF IndInv, TypeOK
<1>2. ViewInv(view[t]) /\ ViewInv(view[u])
  BY Zenon DEF IndInv, ViewsInv
<1> PICK w : w = Join(view[u], view[t])
  BY Zenon
<1>3. /\ w \in View
      /\ ViewInv(w)
      /\ \A s \in Shard : w[s].len >= view[u][s].len /\ w[s].len >= view[t][s].len
  BY <1>1, <1>2, JoinSound, Zenon DEF IndInv
<1>4. /\ view' = [view EXCEPT ![u] = w]
      /\ held' = [held EXCEPT ![u] = @ \cup held[t]]
      /\ UNCHANGED mem /\ pc' = pc /\ arg' = arg /\ got' = got
      /\ pc'[u] = "idle" /\ ~InCritical(u)
  BY Zenon DEF Send, InCritical
<1>5. \A raw \in held'[u] : LocalPart(raw) < w[ShardPart(raw)].len
  <2>1. SUFFICES ASSUME NEW raw \in held'[u] PROVE LocalPart(raw) < w[ShardPart(raw)].len
    BY Zenon
  <2>2. raw \in held[u] \/ raw \in held[t]
    BY <1>1, <1>4, <2>1, Zenon
  <2>3. raw \in RawId /\ ShardPart(raw) \in Shard /\ LocalPart(raw) \in Nat
    BY <1>1, <2>2, IdParts DEF Local
  <2>4. \A s \in Shard : w[s].len \in Nat /\ view[u][s].len \in Nat /\ view[t][s].len \in Nat
    BY <1>1, <1>3 DEF View
  <2>5. \/ LocalPart(raw) < view[u][ShardPart(raw)].len
        \/ LocalPart(raw) < view[t][ShardPart(raw)].len
    BY <2>2, Zenon DEF IndInv, IdsInv
  <2> QED
    BY <1>3, <2>3, <2>4, <2>5
<1>6. held' \in [Thread -> SUBSET RawId] /\ \A x \in Thread : x # u => held'[x] = held[x]
  BY <1>1, <1>4, Zenon
<1>7. arg' \in [Thread -> Value \cup {Uninit}] /\ got' \subseteq Value \X RawId
  BY <1>4, Zenon DEF IndInv, TypeOK
<1> QED
  BY <1>3, <1>4, <1>5, <1>6, <1>7, ReaderStep, Zenon

\* Taking the write lock preserves the invariant: the new owner sees all that
\* the last owner published.
LEMMA LockWriteStep ==
    ASSUME IndInv, NEW t \in Thread, LockWrite(t)
    PROVE  IndInv'
<1> DEFINE s == ShardOf[arg[t]]
<1>1. pc[t] = "missed" /\ arg[t] \in Value /\ s \in Shard /\ writer[s] = NoThread
      /\ Limit \in Nat /\ NoThread \notin Thread
  BY InternerAssumption, Zenon DEF LockWrite, IndInv, LockInv
<1>2. view[t] \in View /\ lockView[s] \in View /\ ViewInv(view[t]) /\ ViewInv(lockView[s])
  BY <1>1, Zenon DEF IndInv, TypeOK, ViewsInv
<1> PICK w : w = Join(view[t], lockView[s])
  BY Zenon
<1>3. /\ w \in View
      /\ ViewInv(w)
      /\ \A r \in Shard : /\ w[r].len >= view[t][r].len
                          /\ w[r].len >= lockView[s][r].len
                          /\ w[r].len \in {view[t][r].len, lockView[s][r].len}
  BY <1>2, JoinSound, Zenon DEF IndInv
<1>4. w[s].len = pub[s]
  <2>1. lockView[s][s].len = pub[s] /\ view[t][s].len <= pub[s]
    BY <1>1, <1>2, Zenon DEF IndInv, ViewsInv, ViewInv
  <2>2. w[s].len \in Nat /\ view[t][s].len \in Nat /\ pub[s] \in Nat
    <3>1. pub \in [Shard -> 0..Limit]
      BY Zenon DEF IndInv, TypeOK
    <3>2. \A x \in View : x[s].len \in 0..Limit
      BY <1>1, Zenon DEF View
    <3>3. w \in View /\ view[t] \in View /\ s \in Shard /\ Limit \in Nat
      BY <1>1, <1>2, <1>3, Zenon
    <3>4. pub[s] \in 0..Limit
      BY <3>1, <3>3, Zenon
    <3>5. w[s].len \in 0..Limit /\ view[t][s].len \in 0..Limit
      BY <3>2, <3>3, Zenon
    <3> QED
      BY <3>3, <3>4, <3>5
  <2>3. w[s].len >= lockView[s][s].len /\ w[s].len \in {view[t][s].len, lockView[s][s].len}
    BY <1>1, <1>3, Zenon
  <2> QED
    BY <2>1, <2>2, <2>3
<1>5. /\ writer' = [writer EXCEPT ![s] = t]
      /\ view' = [view EXCEPT ![t] = w]
      /\ pc' = [pc EXCEPT ![t] = "locked"]
      /\ UNCHANGED <<slot, table, len, next, pub, pubView, lockView, arg, held, got>>
  BY Zenon DEF LockWrite
<1> HIDE DEF s
<1>6. TypeOK'
  BY <1>1, <1>3, <1>5, Zenon DEF IndInv, TypeOK
<1>7. /\ pc'[t] = "locked" /\ view'[t] = w
      /\ \A u \in Thread : u # t => pc'[u] = pc[u] /\ view'[u] = view[u]
      /\ writer'[s] = t
      /\ \A r \in Shard : r # s => writer'[r] = writer[r]
  BY <1>1, <1>5, Zenon DEF IndInv, TypeOK
<1>8. LockInv'
  <2>1. \A u \in Thread : pc'[u] # "idle" => arg'[u] \in Value
    BY <1>1, <1>5, <1>7, Zenon DEF IndInv, LockInv
  <2>2. \A u \in Thread : InCritical(u)' => writer'[ShardOf[arg'[u]]] = u
    BY <1>1, <1>5, <1>7 DEF IndInv, LockInv, InCritical, s
  <2>3. \A u \in Thread, r \in Shard :
           writer'[r] = u => InCritical(u)' /\ ShardOf[arg'[u]] = r
    BY <1>1, <1>5, <1>7 DEF IndInv, LockInv, InCritical, s
  <2> QED
    BY <2>1, <2>2, <2>3, Zenon DEF LockInv
<1>9. \A r \in Shard : ShardInv(r)'
  BY <1>1, <1>5, <1>7 DEF IndInv, ShardInv
<1>10. ASSUME NEW u \in Thread PROVE WriterInv(u)'
  <2>1. CASE u = t
    BY <1>7, <2>1, Zenon DEF WriterInv
  <2>2. CASE u # t
    <3>1. pc'[u] = pc[u] /\ view'[u] = view[u] /\ WriterInv(u)
      BY <1>7, <2>2, Zenon DEF IndInv
    <3> QED
      BY <1>5, <3>1, Zenon DEF WriterInv
  <2> QED
    BY <2>1, <2>2, Zenon
<1>11. ViewsInv'
  <2>1. \A u \in Thread : ViewInv(view[u])'
    BY <1>3, <1>5, <1>7 DEF IndInv, ViewsInv, ViewInv
  <2>2. \A r \in Shard : ViewInv(lockView[r])'
    BY <1>5, Zenon DEF IndInv, ViewsInv, ViewInv
  <2>3. \A r \in Shard : \A n \in 0..pub'[r] :
           ViewInv(pubView[r][n])' /\ pubView'[r][n][r].len = n
    BY <1>5, ZenonT(60) DEF IndInv, ViewsInv, ViewInv
  <2>4. \A r \in Shard : writer'[r] = NoThread => lockView'[r][r].len = pub'[r]
    BY <1>1, <1>5, <1>7, ZenonT(60) DEF IndInv, ViewsInv
  <2>5. \A u \in Thread : InCritical(u)' =>
           view'[u][ShardOf[arg'[u]]].len = pub'[ShardOf[arg'[u]]]
    BY <1>4, <1>5, <1>7, ZenonT(60) DEF IndInv, ViewsInv, InCritical, s
  <2> QED
    BY <2>1, <2>2, <2>3, <2>4, <2>5, Zenon DEF ViewsInv
<1>12. IdsInv'
  <2>1. ASSUME NEW raw \in held[t] PROVE LocalPart(raw) < w[ShardPart(raw)].len
    <3>1. raw \in RawId
      BY Zenon DEF IndInv, TypeOK
    <3>2. ShardPart(raw) \in Shard /\ LocalPart(raw) \in Nat
      BY <1>1, <3>1, IdParts DEF Local
    <3>3. \A r \in Shard : w[r].len \in Nat /\ view[t][r].len \in Nat
      BY <1>1, <1>2, <1>3 DEF View
    <3> QED
      BY <1>3, <3>2, <3>3 DEF IndInv, IdsInv
  <2> QED
    BY <1>5, <1>7, <2>1, ZenonT(60) DEF IndInv, IdsInv, PairInv, ValueOf
<1> QED
  BY <1>6, <1>8, <1>9, <1>10, <1>11, <1>12, Zenon DEF IndInv

\* Releasing the lock of a shard that is in order, on a return or on a panic,
\* preserves the invariant.
LEMMA UnlockStep ==
    ASSUME IndInv, NEW t \in Thread, NEW s \in Shard,
           s = ShardOf[arg[t]], pc[t] \in {"locked", "published"},
           Unlock(t, s),
           UNCHANGED <<slot, table, len, pub, pubView, view>>,
           DOMAIN next' = Shard,
           held' \in [Thread -> SUBSET RawId],
           \A u \in Thread : u # t => held'[u] = held[u],
           \A raw \in held'[t] : LocalPart(raw) < view[t][ShardPart(raw)].len,
           got' \subseteq Value \X RawId,
           \A p \in got' : p \in got \/ PairInv(p)
    PROVE  IndInv'
<1>1. /\ writer' = [writer EXCEPT ![s] = NoThread]
      /\ lockView' = [lockView EXCEPT ![s] = view[t]]
      /\ pc' = [pc EXCEPT ![t] = "idle"]
      /\ arg' = [arg EXCEPT ![t] = Uninit]
  BY Zenon DEF Unlock
<1>2. writer[s] = t /\ NoThread \notin Thread
  BY InternerAssumption, Zenon DEF IndInv, LockInv, InCritical
<1>3. TypeOK'
  BY <1>1, Zenon DEF IndInv, TypeOK
<1>4. /\ pc'[t] = "idle"
      /\ \A u \in Thread : u # t => pc'[u] = pc[u] /\ arg'[u] = arg[u]
      /\ writer'[s] = NoThread
      /\ \A r \in Shard : r # s => writer'[r] = writer[r] /\ lockView'[r] = lockView[r]
      /\ lockView'[s] = view[t]
  BY <1>1, Zenon DEF IndInv, TypeOK
<1>5. LockInv'
  <2>1. \A u \in Thread : InCritical(u)' => u # t /\ ShardOf[arg[u]] # s
    BY <1>2, <1>4 DEF IndInv, LockInv, InCritical
  <2>2. \A u \in Thread : InCritical(u)' => writer'[ShardOf[arg'[u]]] = u
    <3>1. \A u \in Thread : InCritical(u)' => InCritical(u) /\ arg[u] \in Value
      BY <1>4, Zenon DEF IndInv, LockInv, InCritical
    <3> QED
      BY <1>4, <2>1, <3>1, InternerAssumption DEF IndInv, LockInv
  <2>3. \A u \in Thread, r \in Shard :
           writer'[r] = u => InCritical(u)' /\ ShardOf[arg'[u]] = r
    <3>1. SUFFICES ASSUME NEW u \in Thread, NEW r \in Shard, writer'[r] = u
                   PROVE  InCritical(u)' /\ ShardOf[arg'[u]] = r
      BY Zenon
    <3>2. r # s /\ writer[r] = u
      BY <1>2, <1>4, <3>1, Zenon
    <3>3. InCritical(u) /\ ShardOf[arg[u]] = r
      BY <3>2, Zenon DEF IndInv, LockInv
    <3> QED
      BY <1>4, <3>2, <3>3, Zenon DEF InCritical
  <2> QED
    BY <1>4, <2>2, <2>3, Zenon DEF IndInv, LockInv
<1>6. ASSUME NEW r \in Shard PROVE ShardInv(r)'
  <2>1. ShardInv(r)
    BY Zenon DEF IndInv
  <2>2. slot'[r] = slot[r] /\ table'[r] = table[r] /\ len'[r] = len[r] /\ pub'[r] = pub[r]
    BY Zenon
  <2>3. CASE r = s
    <3>1. \A u \in Thread : writer[r] = u => u = t /\ pc[u] # "written" /\ pc[u] # "inserted"
      BY <1>2, <2>3, Zenon
    <3> QED
      BY <2>1, <2>2, <3>1, ZenonT(60) DEF ShardInv
  <2>4. CASE r # s
    <3>1. writer'[r] = writer[r]
      BY <1>4, <2>4, Zenon
    <3>2. \A u \in Thread : writer[r] = u => u # t
      BY <2>4, ZenonT(60) DEF IndInv, LockInv
    <3>3. \A u \in Thread : writer[r] = u => pc'[u] = pc[u]
      BY <1>4, <3>2, Zenon
    <3> QED
      BY <2>1, <2>2, <3>1, <3>3, ZenonT(60) DEF ShardInv
  <2> QED
    BY <2>3, <2>4, Zenon
<1>7. ASSUME NEW u \in Thread PROVE WriterInv(u)'
  <2>1. CASE u = t
    BY <1>4, <2>1, Zenon DEF WriterInv
  <2>2. CASE u # t
    <3>1. pc'[u] = pc[u] /\ arg'[u] = arg[u]
      BY <1>4, <2>2, Zenon
    <3>2. WriterInv(u)
      BY Zenon DEF IndInv
    <3> QED
      BY <3>1, <3>2, Zenon DEF WriterInv
  <2> QED
    BY <2>1, <2>2, Zenon
<1>8. ViewsInv'
  <2>1. view[t][s].len = pub[s]
    BY Zenon DEF IndInv, ViewsInv, InCritical
  <2>2. \A u \in Thread : ViewInv(view[u])'
    BY Zenon DEF IndInv, ViewsInv, ViewInv
  <2>3. ASSUME NEW r \in Shard PROVE ViewInv(lockView[r])'
    <3>1. lockView'[r] = view[t] \/ lockView'[r] = lockView[r]
      BY <1>4, Zenon
    <3>2. ViewInv(view[t]) /\ ViewInv(lockView[r])
      BY Zenon DEF IndInv, ViewsInv
    <3> QED
      BY <3>1, <3>2, Zenon DEF ViewInv
  <2>4. \A r \in Shard : \A n \in 0..pub'[r] :
           ViewInv(pubView[r][n])' /\ pubView'[r][n][r].len = n
    BY ZenonT(60) DEF IndInv, ViewsInv, ViewInv
  <2>5. ASSUME NEW r \in Shard, writer'[r] = NoThread PROVE lockView'[r][r].len = pub'[r]
    <3>1. CASE r = s
      BY <1>4, <2>1, <3>1, Zenon
    <3>2. CASE r # s
      BY <1>4, <2>5, <3>2, SMTT(60) DEF IndInv, ViewsInv
    <3> QED
      BY <3>1, <3>2, Zenon
  <2>6. \A u \in Thread : InCritical(u)' =>
           view'[u][ShardOf[arg'[u]]].len = pub'[ShardOf[arg'[u]]]
    BY <1>4, SMTT(40) DEF IndInv, ViewsInv, InCritical
  <2> QED
    BY <2>2, <2>3, <2>4, <2>5, <2>6, Zenon DEF ViewsInv
<1>9. IdsInv'
  BY Zenon DEF IndInv, IdsInv, PairInv, ValueOf
<1> QED
  BY <1>3, <1>5, <1>6, <1>7, <1>8, <1>9, Zenon DEF IndInv

\* What holds at every step of a thread in the critical section.
LEMMA OwnerFacts ==
    ASSUME IndInv, NEW t \in Thread, InCritical(t)
    PROVE  /\ arg[t] \in Value
           /\ ShardOf[arg[t]] \in Shard
           /\ writer[ShardOf[arg[t]]] = t
           /\ view[t][ShardOf[arg[t]]].len = pub[ShardOf[arg[t]]]
           /\ pc[t] # "inserted" => pub[ShardOf[arg[t]]] = len[ShardOf[arg[t]]]
           /\ \A u \in Thread : u # t /\ InCritical(u) => ShardOf[arg[u]] # ShardOf[arg[t]]
<1>1. arg[t] \in Value /\ ShardOf[arg[t]] \in Shard /\ writer[ShardOf[arg[t]]] = t
  BY InternerAssumption, Zenon DEF IndInv, LockInv, InCritical
<1>2. view[t][ShardOf[arg[t]]].len = pub[ShardOf[arg[t]]]
  BY Zenon DEF IndInv, ViewsInv
<1>3. pc[t] # "inserted" => pub[ShardOf[arg[t]]] = len[ShardOf[arg[t]]]
  BY <1>1 DEF IndInv, ShardInv
<1>4. \A u \in Thread : u # t /\ InCritical(u) => ShardOf[arg[u]] # ShardOf[arg[t]]
  BY <1>1, Zenon DEF IndInv, LockInv
<1> QED
  BY <1>1, <1>2, <1>3, <1>4, Zenon

\* Returning an id that was found or made, or panicking, preserves the invariant.
LEMMA ReturnStep ==
    ASSUME IndInv, NEW t \in Thread,
           RecheckHit(t) \/ PanicFull(t) \/ PanicArena(t) \/ Finish(t)
    PROVE  IndInv'
<1> PICK s : s = ShardOf[arg[t]]
  BY Zenon
<1>1. InCritical(t) /\ pc[t] \in {"locked", "published"} /\ Unlock(t, s)
      /\ UNCHANGED <<slot, table, len, pub, pubView, view>>
  BY Zenon DEF RecheckHit, PanicFull, PanicArena, Finish, InCritical
<1>2. /\ s \in Shard /\ arg[t] \in Value /\ view[t][s].len = pub[s] /\ pub[s] = len[s]
      /\ len[s] \in 0..Limit /\ Limit \in Nat
  BY <1>1, OwnerFacts, InternerAssumption, Zenon DEF IndInv, TypeOK
<1>3. held \in [Thread -> SUBSET RawId] /\ got \subseteq Value \X RawId /\ DOMAIN next = Shard
  BY Zenon DEF IndInv, TypeOK
<1>4. DOMAIN next' = Shard
  BY <1>3, Zenon DEF RecheckHit, PanicFull, PanicArena, Finish
<1>5. \A raw \in held[t] : LocalPart(raw) < view[t][ShardPart(raw)].len
  BY Zenon DEF IndInv, IdsInv
<1>6. CASE PanicFull(t) \/ PanicArena(t)
  <2>1. held' = held /\ got' = got
    BY <1>6, Zenon DEF PanicFull, PanicArena
  <2> QED
    BY <1>1, <1>2, <1>3, <1>4, <1>5, <2>1, UnlockStep, Zenon
<1>7. ASSUME NEW ids, Return(t, arg[t], ids),
             \A raw \in ids : /\ raw \in RawId /\ ShardPart(raw) = s
                             /\ LocalPart(raw) \in 0..(len[s] - 1)
                             /\ ValueOf(raw) = arg[t]
      PROVE  IndInv'
  <2>1. /\ held' = [held EXCEPT ![t] = @ \cup ids]
        /\ got' = got \cup {<<arg[t], raw>> : raw \in ids}
    BY <1>7, Zenon DEF Return
  <2>2. held' \in [Thread -> SUBSET RawId] /\ \A u \in Thread : u # t => held'[u] = held[u]
    BY <1>3, <1>7, <2>1, Zenon
  <2>3. \A raw \in held'[t] : LocalPart(raw) < view[t][ShardPart(raw)].len
    BY <1>2, <1>3, <1>5, <1>7, <2>1
  <2>4. got' \subseteq Value \X RawId
    BY <1>2, <1>3, <1>7, <2>1
  <2>5. \A p \in got' : p \in got \/ PairInv(p)
    BY <1>2, <1>7, <2>1 DEF PairInv
  <2> QED
    BY <1>1, <1>2, <1>4, <2>2, <2>3, <2>4, <2>5, UnlockStep, Zenon
<1>8. CASE RecheckHit(t)
  <2>1. Return(t, arg[t], Find(s, arg[t]))
    BY <1>8, Zenon DEF RecheckHit
  <2>2. \A raw \in Find(s, arg[t]) : /\ raw \in RawId /\ ShardPart(raw) = s
                                    /\ LocalPart(raw) \in 0..(len[s] - 1)
                                    /\ ValueOf(raw) = arg[t]
    BY <1>2, FindSound, Zenon DEF IndInv
  <2> QED
    BY <1>7, <2>1, <2>2, Zenon
<1>9. CASE Finish(t)
  <2>1. Return(t, arg[t], {Raw(s, len[s] - 1)}) /\ pc[t] = "published"
    BY <1>9, Zenon DEF Finish
  <2>2. len[s] > 0 /\ slot[s][len[s] - 1] = arg[t]
    BY <2>1, Zenon DEF IndInv, WriterInv
  <2>3. len[s] - 1 \in Local /\ len[s] - 1 \in 0..(len[s] - 1)
    BY <1>2, <2>2 DEF Local
  <2>4. \A raw \in {Raw(s, len[s] - 1)} : /\ raw \in RawId /\ ShardPart(raw) = s
                                         /\ LocalPart(raw) \in 0..(len[s] - 1)
                                         /\ ValueOf(raw) = arg[t]
    BY <1>2, <2>2, <2>3, RawParts, Zenon DEF ValueOf
  <2> QED
    BY <1>7, <2>1, <2>4
<1> QED
  BY <1>6, <1>8, <1>9, Zenon
=============================================================================
