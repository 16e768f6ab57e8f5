------------------------- MODULE CondTrieRelProofs --------------------------
(***************************************************************************)
(* The concurrent store implements LatticeRel: inserts are linearizable.   *)
(*                                                                         *)
(* A thread that holds a decided join, or has taken a leaf out to spill    *)
(* it, hides what was found of its fact; the lock of the side map's shard  *)
(* makes it the only one (FoundHolds). Each step of an insert then either  *)
(* shows nothing (CountsShow, LeafShows) or is its join (JoinShows).       *)
(***************************************************************************)
EXTENDS CondTrieProofs, CondTrieRefinement

\* The threads whose join is decided.
settled == {w \in Worker : Decided(w)}

\* What a thread shows of its insert, by how far it is.
Shown ==
    \A w \in Worker :
        /\ w \in settled <=> pc[w] = "join" /\ Add(new.leaf[arg[w][1]], arg[w][2]) # Always
        /\ offerR[w] = IF pc[w] \in Unjoined /\ w \notin settled THEN arg[w] ELSE <<>>
        /\ grewR[w] = IF w \in settled
                      THEN <<Add(new.leaf[arg[w][1]], arg[w][2]) # new.leaf[arg[w][1]]>>
                      ELSE IF pc[w] = "clen" THEN <<TRUE>>
                      ELSE IF pc[w] \in Reported THEN <<result[w]>> ELSE <<>>

\* What was found of a fact, with the one thread that may hide it.
FoundAt ==
    \A f \in Fact :
        /\ f \in new.always => foundR[f] = Always
        /\ f \notin new.always =>
             /\ foundR[f] \in Held \ {Always}
             /\ \A w \in settled : arg[w][1] = f => foundR[f] = Add(new.leaf[f], arg[w][2])
             /\ \A w \in Worker : pc[w] = "spill" /\ arg[w][1] = f => foundR[f] = saved[w]
             /\ (\A w \in Worker : w \in settled \/ pc[w] = "spill" => arg[w][1] # f)
                => foundR[f] = new.leaf[f]

KnownAt == knownR = known

Shapes ==
    /\ foundR = [f \in Fact |-> foundR[f]]
    /\ offerR = [w \in Worker |-> offerR[w]]
    /\ grewR = [w \in Worker |-> grewR[w]]
    /\ settled \in SUBSET Worker

\* These are what the definitions say,
LEMMA ShownHolds == Shown
BY Zenon DEF Shown, settled, offerR, grewR, Decided, Pending, Outcome, Unjoined, Reported, fact, cond

\* and the values are functions.
LEMMA ShapesHold == Shapes
BY Zenon DEF Shapes, foundR, offerR, grewR, settled

\* The lock of the side map's shard leaves one thread that may hide what was found.
LEMMA FoundHolds == IndInv => FoundAt
<1> SUFFICES ASSUME IndInv, NEW f \in Fact, f \notin new.always
             PROVE  /\ foundR[f] \in Held \ {Always}
                    /\ \A w \in settled : arg[w][1] = f => foundR[f] = Add(new.leaf[f], arg[w][2])
                    /\ \A w \in Worker : pc[w] = "spill" /\ arg[w][1] = f => foundR[f] = saved[w]
                    /\ (\A w \in Worker : w \in settled \/ pc[w] = "spill" => arg[w][1] # f)
                       => foundR[f] = new.leaf[f]
  BY Zenon DEF FoundAt, foundR, Found
<1>1. foundR[f] = IF \E w \in Worker : w \in settled /\ fact(w) = f
                  THEN Add(new.leaf[f], cond(CHOOSE w \in Worker : w \in settled /\ fact(w) = f))
                  ELSE IF \E w \in Worker : pc[w] = "spill" /\ fact(w) = f
                  THEN saved[CHOOSE w \in Worker : pc[w] = "spill" /\ fact(w) = f]
                  ELSE new.leaf[f]
  <2>1. \A w \in Worker : Decided(w) <=> w \in settled
    BY Zenon DEF settled
  <2> QED BY <2>1, Zenon DEF foundR, Found
<1>2. \A w \in settled : w \in Worker /\ pc[w] = "join" /\ Add(new.leaf[fact(w)], cond(w)) # Always
  BY Zenon DEF settled, Decided
<1>3. \A v \in Worker : \A w \in Worker :
         (v \in settled \/ pc[v] = "spill") /\ (w \in settled \/ pc[w] = "spill") /\ fact(v) = f /\ fact(w) = f
         => v = w
  <2>1. \A v \in Worker : v \in settled \/ pc[v] = "spill" => pc[v] \in Locked
    BY <1>2, Zenon DEF Locked
  <2> QED BY <2>1, Exclusive, Zenon DEF shard
<1>4. new.leaf[f] \in Held \ {Always}
  BY FactTypes, Zenon DEF IndInv
<1>5. CASE \E w \in Worker : w \in settled /\ fact(w) = f
  <2>1. PICK w \in Worker : w \in settled /\ fact(w) = f
    BY <1>5, Zenon
  <2>2. (CHOOSE v \in Worker : v \in settled /\ fact(v) = f) = w
    BY <1>3, <2>1, Zenon
  <2>3. foundR[f] = Add(new.leaf[f], cond(w))
    BY <1>1, <1>5, <2>2, Zenon
  <2>4. cond(w) \in Held /\ Add(new.leaf[f], cond(w)) # Always
    BY <1>2, <2>1, BusyRow, Zenon
  <2>5. foundR[f] \in Held \ {Always}
    BY <1>4, <2>3, <2>4, AddType
  <2>6. \A v \in Worker : (v \in settled \/ pc[v] = "spill") /\ arg[v][1] = f => v = w
    BY <1>3, <2>1, Zenon DEF fact
  <2>7. pc[w] # "spill"
    BY <1>2, <2>1, Zenon
  <2> QED BY <1>2, <2>1, <2>3, <2>5, <2>6, Zenon DEF fact, cond
<1>6. CASE ~(\E w \in Worker : w \in settled /\ fact(w) = f) /\ \E w \in Worker : pc[w] = "spill" /\ fact(w) = f
  <2>1. PICK w \in Worker : pc[w] = "spill" /\ fact(w) = f
    BY <1>6, Zenon
  <2>2. (CHOOSE v \in Worker : pc[v] = "spill" /\ fact(v) = f) = w
    BY <1>3, <2>1, Zenon
  <2>3. foundR[f] = saved[w]
    BY <1>1, <1>6, <2>2, Zenon
  <2>4. saved[w] \in Held \ {Always}
    BY Zenon DEF IndInv, TypeOK
  <2>5. \A v \in Worker : (v \in settled \/ pc[v] = "spill") /\ arg[v][1] = f => v = w
    BY <1>3, <2>1, Zenon DEF fact
  <2> QED BY <1>2, <2>1, <2>3, <2>4, <2>5, Zenon DEF fact
<1>7. CASE ~(\E w \in Worker : w \in settled /\ fact(w) = f) /\ ~\E w \in Worker : pc[w] = "spill" /\ fact(w) = f
  <2>1. foundR[f] = new.leaf[f]
    BY <1>1, <1>7, Zenon
  <2> QED BY <1>2, <1>4, <1>7, <2>1, Zenon DEF fact
<1> QED BY <1>5, <1>6, <1>7, Zenon

\* What the rules know is what total and delta hold.
LEMMA KnownHolds == IndInv => KnownAt
<1> SUFFICES ASSUME IndInv PROVE knownR = known
  BY Zenon DEF KnownAt
<1>1. \A f \in Fact : Known(f) = known[f]
  BY FrozenHolds, Zenon
<1>2. known = [f \in Fact |-> known[f]]
  BY Zenon DEF known
<1> QED BY <1>1, <1>2, Zenon DEF knownR

\* The same after a step.
LEMMA AfterStep ==
    ASSUME IndInv'
    PROVE  Shown' /\ Shapes' /\ FoundAt' /\ KnownAt'
<1>1. Shown' /\ Shapes'
  BY ShownHolds, ShapesHold, PTL
<1>2. IndInv' => FoundAt'
  BY FoundHolds, PTL
<1>3. IndInv' => KnownAt'
  BY KnownHolds, PTL
<1> QED BY <1>1, <1>2, <1>3, Zenon

\* A step of a thread shows the others what they saw: facts outside S keep what was
\* found of them, if the thread hides nothing of them before and after.
LEMMA OthersSee ==
    ASSUME IndInv, IndInv', NEW w \in Worker, Frame(w), NEW S \in SUBSET Fact,
           w \in settled \/ pc[w] = "spill" => arg[w][1] \in S,
           w \in settled' \/ pc'[w] = "spill" => arg'[w][1] \in S,
           \A g \in Fact \ S : new'.leaf[g] = new.leaf[g] /\ (g \in new'.always <=> g \in new.always)
    PROVE  /\ \A v \in Worker \ {w} : offerR'[v] = offerR[v] /\ grewR'[v] = grewR[v]
           /\ \A v \in Worker \ {w} : v \in settled' <=> v \in settled
           /\ \A g \in Fact \ S : foundR'[g] = foundR[g]
           /\ UNCHANGED <<known, knownR, deltaR>>
<1>1. Shown /\ FoundAt /\ KnownAt /\ Shown' /\ FoundAt' /\ KnownAt'
  BY ShownHolds, FoundHolds, KnownHolds, AfterStep, Zenon
<1>2. \A v \in Worker \ {w} :
        /\ pc'[v] = pc[v] /\ arg'[v] = arg[v] /\ result'[v] = result[v] /\ saved'[v] = saved[v]
        /\ pc[v] = "join" => new'.leaf[arg[v][1]] = new.leaf[arg[v][1]]
  BY Zenon DEF Frame, Locked, fact
<1>3. UNCHANGED <<known, knownR, deltaR>>
  <2>1. UNCHANGED <<total, delta>>
    BY Zenon DEF Frame
  <2>2. known' = known /\ deltaR' = deltaR
    BY <2>1, Zenon DEF known, HeldAt, deltaR
  <2> QED BY <1>1, <2>2, Zenon DEF KnownAt
<1>4. ASSUME NEW v \in Worker \ {w}
      PROVE  (v \in settled' <=> v \in settled) /\ offerR'[v] = offerR[v] /\ grewR'[v] = grewR[v]
  <2> DEFINE b == Add(new.leaf[arg[v][1]], arg[v][2])
             b1 == Add(new'.leaf[arg[v][1]], arg[v][2])
  <2>1. /\ v \in settled <=> pc[v] = "join" /\ b # Always
        /\ offerR[v] = IF pc[v] \in Unjoined /\ v \notin settled THEN arg[v] ELSE <<>>
        /\ grewR[v] = IF v \in settled THEN <<b # new.leaf[arg[v][1]]>>
                      ELSE IF pc[v] = "clen" THEN <<TRUE>>
                      ELSE IF pc[v] \in Reported THEN <<result[v]>> ELSE <<>>
    BY <1>1, Zenon DEF Shown
  <2>2. pc'[v] = pc[v] /\ arg'[v] = arg[v] /\ result'[v] = result[v]
    BY <1>2, Zenon
  <2>3. /\ v \in settled' <=> pc[v] = "join" /\ b1 # Always
        /\ offerR'[v] = IF pc[v] \in Unjoined /\ v \notin settled' THEN arg[v] ELSE <<>>
        /\ grewR'[v] = IF v \in settled' THEN <<b1 # new'.leaf[arg[v][1]]>>
                       ELSE IF pc[v] = "clen" THEN <<TRUE>>
                       ELSE IF pc[v] \in Reported THEN <<result[v]>> ELSE <<>>
    BY <1>1, <2>2, Zenon DEF Shown
  <2>4. pc[v] = "join" => new'.leaf[arg[v][1]] = new.leaf[arg[v][1]] /\ b1 = b
    BY <1>2, Zenon
  <2> HIDE DEF b, b1
  <2>5. v \in settled' <=> v \in settled
    BY <2>1, <2>3, <2>4, Zenon
  <2>6. offerR'[v] = offerR[v]
    BY <2>1, <2>3, <2>5, Zenon
  <2>7. CASE v \in settled
    <3>1. grewR[v] = <<b # new.leaf[arg[v][1]]>> /\ grewR'[v] = <<b1 # new'.leaf[arg[v][1]]>> /\ pc[v] = "join"
      BY <2>1, <2>3, <2>5, <2>7, Zenon
    <3> QED BY <2>4, <2>5, <2>6, <3>1, Zenon
  <2>8. CASE v \notin settled
    BY <2>1, <2>3, <2>5, <2>8, Zenon
  <2> QED BY <2>7, <2>8, Zenon
<1>6. ASSUME NEW g \in Fact \ S
      PROVE  foundR'[g] = foundR[g]
  <2>1. g \in Fact /\ new'.leaf[g] = new.leaf[g] /\ (g \in new'.always <=> g \in new.always)
    BY Zenon
  <2>2. CASE g \in new.always
    BY <1>1, <2>2 DEF FoundAt
  <2>3. CASE g \notin new.always /\ \E v \in settled : arg[v][1] = g
    <3>1. PICK v \in settled : arg[v][1] = g
      BY <2>3, Zenon
    <3>2. v \in Worker \ {w} /\ v \in settled' /\ arg'[v] = arg[v]
      BY <1>2, <1>4, <3>1, Zenon DEF settled
    <3> QED BY <1>1, <3>1, <3>2 DEF FoundAt
  <2>4. CASE g \notin new.always /\ \E v \in Worker : pc[v] = "spill" /\ arg[v][1] = g
    <3>1. PICK v \in Worker : pc[v] = "spill" /\ arg[v][1] = g
      BY <2>4, Zenon
    <3>2. v \in Worker \ {w} /\ pc'[v] = pc[v] /\ saved'[v] = saved[v] /\ arg'[v] = arg[v]
      BY <1>2, <3>1, Zenon
    <3> QED BY <1>1, <3>1, <3>2 DEF FoundAt
  <2>5. CASE g \notin new.always /\ \A v \in Worker : v \in settled \/ pc[v] = "spill" => arg[v][1] # g
    <3>1. \A v \in Worker : v \in settled' \/ pc'[v] = "spill" => arg'[v][1] # g
      <4>1. \A v \in Worker \ {w} : v \in settled' \/ pc'[v] = "spill" => arg'[v][1] # g
        BY <1>2, <1>4, <2>5, Zenon
      <4>2. w \in settled' \/ pc'[w] = "spill" => arg'[w][1] # g
        BY Zenon
      <4> QED BY <4>1, Zenon
    <3>2. foundR'[g] = new'.leaf[g]
      BY <1>1, <2>5, <3>1, Zenon DEF FoundAt
    <3>3. foundR[g] = new.leaf[g]
      BY <1>1, <2>5, Zenon DEF FoundAt
    <3> QED BY <3>2, <3>3, Zenon
  <2> QED BY <2>2, <2>3, <2>4, <2>5, Zenon DEF settled
<1> QED BY <1>3, <1>4, <1>6, Zenon

\* A thread that is neither at "join" nor at "spill", and its row.
LEMMA Sees ==
    ASSUME IndInv, NEW w \in Worker
    PROVE  /\ pc[w] # "join" => w \notin settled
           /\ pc[w] # "idle" => /\ arg[w] = <<fact(w), cond(w)>> /\ arg[w][1] = fact(w) /\ arg[w][2] = cond(w)
                                /\ fact(w) \in Fact /\ cond(w) \in Held /\ arg[w] # <<>> /\ cond(w) # NoCond
BY BusyRow, Zenon DEF settled, Decided, fact, cond

\* Steps that show nothing: the counts, taking the lock, and carrying out a join that
\* was decided at the trie check.
LEMMA ShowsNothing ==
    ASSUME IndInv, IndInv', NEW w \in Worker, Frame(w), UNCHANGED rows,
           \A v \in Worker \ {w} : offerR'[v] = offerR[v] /\ grewR'[v] = grewR[v],
           offerR'[w] = offerR[w], grewR'[w] = grewR[w], \A g \in Fact : foundR'[g] = foundR[g],
           UNCHANGED <<knownR, deltaR>>
    PROVE  UNCHANGED <<knownR, deltaR, foundR, offerR, grewR, rows>>
<1>1. Shapes /\ Shapes'
  BY ShapesHold, AfterStep, Zenon
<1>2. \A v \in Worker : offerR'[v] = offerR[v] /\ grewR'[v] = grewR[v]
  BY Zenon
<1> QED BY <1>1, Zenon DEF Shapes

\* What every step of an insert leaves alone.
LEMMA StepFrame ==
    ASSUME IndInv, NEW w \in Worker, Step(w)
    PROVE  /\ Frame(w) /\ pc[w] # "idle" /\ UNCHANGED offered
           /\ \A g \in Fact \ {fact(w)} : new'.leaf[g] = new.leaf[g] /\ (g \in new'.always <=> g \in new.always)
           /\ pc[w] # "join" => new'.leaf = new.leaf
           /\ ~Return(w) => UNCHANGED <<arg, rows>>
<1>1. TypeOK /\ new.leaf \in [Fact -> Held \ {Always}] /\ new.always \in SUBSET Fact
  BY NewParts, Zenon DEF IndInv
<1>2. /\ pc[w] # "idle" /\ UNCHANGED <<total, delta, running, offered>>
      /\ ~Return(w) => UNCHANGED <<arg, rows>>
      /\ \A v \in Worker \ {w} : pc'[v] = pc[v] /\ arg'[v] = arg[v] /\ result'[v] = result[v] /\ saved'[v] = saved[v]
  <2>1. CASE AlwaysInsert(w) \/ AlwaysCount(w)
    BY <1>1, <2>1, Zenon DEF AlwaysInsert, AlwaysCount, Goto, Yield, TypeOK
  <2>2. CASE LockEntry(w) \/ CheckTrie(w)
    BY <1>1, <2>2, Zenon DEF LockEntry, CheckTrie, Goto, Yield, TypeOK, stores
  <2>3. CASE NewLeaf(w) \/ LeafCount(w) \/ JoinLeaf(w)
    BY <1>1, <2>3, Zenon DEF NewLeaf, LeafCount, JoinLeaf, Goto, Yield, TypeOK
  <2>4. CASE SpillRemove(w) \/ SpillInsert(w)
    BY <1>1, <2>4, Zenon DEF SpillRemove, SpillInsert, Goto, Yield, TypeOK
  <2>5. CASE SpillCount(w) \/ SpillUncount(w)
    BY <1>1, <2>5, Zenon DEF SpillCount, SpillUncount, Goto, TypeOK
  <2>6. CASE Return(w)
    BY <1>1, <2>6, Zenon DEF Return, Goto, Yield, TypeOK, stores
  <2> QED BY <2>1, <2>2, <2>3, <2>4, <2>5, <2>6, Zenon DEF Step
<1>3. \/ lock' = lock
      \/ pc[w] \in Locked /\ Release(w)
      \/ lock[shard(w)] = Nobody /\ lock' = [lock EXCEPT ![shard(w)] = w]
  BY Zenon DEF Step, AlwaysInsert, AlwaysCount, LockEntry, CheckTrie, NewLeaf, LeafCount, JoinLeaf,
         SpillRemove, SpillInsert, SpillCount, SpillUncount, Return, Locked
<1>4. /\ new'.always = new.always \/ new'.always = new.always \cup {fact(w)}
      /\ \/ new'.leaf = new.leaf
         \/ pc[w] = "join" /\ \E c \in Held : new'.leaf = [new.leaf EXCEPT ![fact(w)] = c]
  <2>1. CASE AlwaysInsert(w) \/ AlwaysCount(w)
    <3>1. new'.leaf = new.leaf /\ (new'.always = new.always \/ new'.always = new.always \cup {fact(w)})
      BY <2>1 DEF AlwaysInsert, AlwaysCount, SetNew, Store, Goto, Yield
    <3> QED BY <3>1, Zenon
  <2>2. CASE LockEntry(w) \/ CheckTrie(w) \/ Return(w)
    BY <2>2, Zenon DEF LockEntry, CheckTrie, Return, stores
  <2>3. CASE NewLeaf(w) \/ JoinLeaf(w) \/ SpillRemove(w)
    <3>1. /\ cond(w) \in Held /\ NoCond \in Held /\ new.leaf[fact(w)] \in Held /\ cond(w) # NoCond
      BY <1>1, <1>2, BusyRow, Zenon DEF Held
    <3>2. new.leaf[fact(w)] # NoCond => Joined(w) \in Held
      BY <3>1, AddCases, AddType DEF Joined
    <3> QED BY <2>3, <3>1, <3>2 DEF NewLeaf, JoinLeaf, SpillRemove, SetLeaf, SetNew, Store
  <2>4. CASE LeafCount(w) \/ SpillInsert(w) \/ SpillCount(w) \/ SpillUncount(w)
    <3>1. new'.leaf = new.leaf /\ (new'.always = new.always \/ new'.always = new.always \cup {fact(w)})
      <4>1. CASE SpillInsert(w)
        BY <4>1 DEF SpillInsert, SetNew, Store, Goto, Yield
      <4>2. CASE LeafCount(w) \/ SpillCount(w) \/ SpillUncount(w)
        BY <4>2 DEF LeafCount, SpillCount, SpillUncount, SetNew, Store, Goto, Yield, Release
      <4> QED BY <2>4, <4>1, <4>2, Zenon
    <3> QED BY <3>1, Zenon
  <2> QED BY <2>1, <2>2, <2>3, <2>4, Zenon DEF Step
<1>5. fact(w) \in Fact /\ running
  BY <1>2, BusyRow, Zenon
<1>6. \A g \in Fact \ {fact(w)} : new'.leaf[g] = new.leaf[g] /\ (g \in new'.always <=> g \in new.always)
  BY <1>1, <1>4, Zenon
<1>7. \A v \in Worker \ {w} : pc[v] \in Locked => lock'[shard(v)] = v
  BY <1>2, <1>3, LocksKeep, Zenon
<1>8. \A v \in Worker \ {w} : pc[v] \in Locked => new'.leaf[fact(v)] = new.leaf[fact(v)]
  <2>1. \A v \in Worker \ {w} : pc[v] \in Locked => fact(v) \in Fact /\ (pc[w] = "join" => fact(v) # fact(w))
    <3>1. \A v \in Worker : pc[v] \in Locked => fact(v) \in Fact
      BY BusyRow, Zenon DEF Locked
    <3>2. pc[w] = "join" => pc[w] \in Locked
      BY Zenon DEF Locked
    <3> QED BY <3>1, <3>2, Exclusive, Zenon DEF shard
  <2>2. CASE pc[w] = "join"
    BY <1>6, <2>1, <2>2, Zenon
  <2>3. CASE pc[w] # "join"
    BY <1>4, <2>3, Zenon
  <2> QED BY <2>2, <2>3, Zenon
<1>9. Frame(w)
  <2>1. new.always \subseteq new'.always /\ \A g \in Fact : offered[g] \subseteq offered'[g]
    BY <1>2, <1>4, Zenon
  <2> QED BY <1>2, <1>5, <1>7, <1>8, <2>1, Zenon DEF Frame
<1> QED BY <1>2, <1>4, <1>6, <1>9, Zenon

\* What one thread shows, before and after a step.
LEMMA Shows ==
    ASSUME IndInv, IndInv', NEW w \in Worker
    PROVE  /\ w \in settled <=> pc[w] = "join" /\ Add(new.leaf[arg[w][1]], arg[w][2]) # Always
           /\ offerR[w] = IF pc[w] \in Unjoined /\ w \notin settled THEN arg[w] ELSE <<>>
           /\ grewR[w] = IF w \in settled
                         THEN <<Add(new.leaf[arg[w][1]], arg[w][2]) # new.leaf[arg[w][1]]>>
                         ELSE IF pc[w] = "clen" THEN <<TRUE>>
                         ELSE IF pc[w] \in Reported THEN <<result[w]>> ELSE <<>>
           /\ w \in settled' <=> pc'[w] = "join" /\ Add(new'.leaf[arg'[w][1]], arg'[w][2]) # Always
           /\ offerR'[w] = IF pc'[w] \in Unjoined /\ w \notin settled' THEN arg'[w] ELSE <<>>
           /\ grewR'[w] = IF w \in settled'
                          THEN <<Add(new'.leaf[arg'[w][1]], arg'[w][2]) # new'.leaf[arg'[w][1]]>>
                          ELSE IF pc'[w] = "clen" THEN <<TRUE>>
                          ELSE IF pc'[w] \in Reported THEN <<result'[w]>> ELSE <<>>
<1>1. Shown /\ Shown'
  BY ShownHolds, AfterStep, Zenon
<1> QED BY <1>1, Zenon DEF Shown

\* Taking the lock, passing the trie check on the way to a spill, and the counts show nothing.
LEMMA CountsShow ==
    ASSUME IndInv, IndInv', NEW w \in Worker, Step(w),
           \/ AlwaysCount(w) \/ LockEntry(w) \/ LeafCount(w) \/ SpillCount(w) \/ SpillUncount(w)
           \/ CheckTrie(w) /\ fact(w) \notin new.always /\ Add(new.leaf[fact(w)], cond(w)) = Always
    PROVE  UNCHANGED <<knownR, deltaR, foundR, offerR, grewR, rows>>
<1>1. Frame(w) /\ pc[w] # "idle" /\ UNCHANGED <<arg, rows>> /\ TypeOK
  BY StepFrame, Zenon DEF AlwaysCount, LockEntry, LeafCount, SpillCount, SpillUncount, CheckTrie, Return, IndInv
<1>2. /\ \/ pc[w] = "alen" /\ pc'[w] = "return" /\ result'[w] = result[w]
         \/ pc[w] = "entry" /\ pc'[w] = "check"
         \/ pc[w] = "clen" /\ pc'[w] = "return" /\ result'[w] = TRUE
         \/ pc[w] = "spillalen" /\ pc'[w] = "uncount" /\ result'[w] = result[w]
         \/ pc[w] = "uncount" /\ pc'[w] = "return" /\ result'[w] = result[w]
         \/ pc[w] = "check" /\ pc'[w] = "join" /\ Add(new.leaf[fact(w)], cond(w)) = Always
      /\ new'.always = new.always /\ new'.leaf = new.leaf
  <2>1. CASE AlwaysCount(w) \/ LockEntry(w) \/ LeafCount(w)
    BY <1>1, <2>1 DEF AlwaysCount, LockEntry, LeafCount, Goto, Yield, SetNew, Store, stores, TypeOK
  <2>2. CASE SpillCount(w) \/ SpillUncount(w)
    BY <1>1, <2>2 DEF SpillCount, SpillUncount, Goto, SetNew, Store, TypeOK
  <2>3. CASE CheckTrie(w) /\ fact(w) \notin new.always /\ Add(new.leaf[fact(w)], cond(w)) = Always
    BY <1>1, <2>3, Zenon DEF CheckTrie, Goto, stores, TypeOK
  <2> QED BY <2>1, <2>2, <2>3, Zenon
<1>3. w \notin settled /\ w \notin settled' /\ pc[w] # "spill" /\ pc'[w] # "spill"
  BY <1>1, <1>2, Shows, Zenon DEF fact, cond
<1>4. /\ offerR[w] = IF pc[w] \in Unjoined THEN arg[w] ELSE <<>>
      /\ offerR'[w] = IF pc'[w] \in Unjoined THEN arg[w] ELSE <<>>
      /\ grewR[w] = IF pc[w] = "clen" THEN <<TRUE>> ELSE IF pc[w] \in Reported THEN <<result[w]>> ELSE <<>>
      /\ grewR'[w] = IF pc'[w] = "clen" THEN <<TRUE>> ELSE IF pc'[w] \in Reported THEN <<result'[w]>> ELSE <<>>
  BY <1>1, <1>3, Shows, Zenon
<1>5. offerR'[w] = offerR[w] /\ grewR'[w] = grewR[w]
  BY <1>2, <1>4, Zenon DEF Unjoined, Reported
<1>6. /\ \A v \in Worker \ {w} : offerR'[v] = offerR[v] /\ grewR'[v] = grewR[v]
      /\ \A g \in Fact \ {} : foundR'[g] = foundR[g]
      /\ UNCHANGED <<known, knownR, deltaR>>
  BY <1>1, <1>2, <1>3, OthersSee, Zenon
<1> QED BY <1>1, <1>5, <1>6, ShowsNothing, Zenon

\* Under the lock of a fact's group no other thread hides anything of the fact.
LEMMA Alone ==
    ASSUME IndInv, NEW w \in Worker, pc[w] \in Locked
    PROVE  \A v \in Worker \ {w} : v \in settled \/ pc[v] = "spill" => arg[v][1] # fact(w)
<1>1. \A v \in Worker : v \in settled \/ pc[v] = "spill" => pc[v] \in Locked
  BY Zenon DEF settled, Decided, Locked
<1> QED BY <1>1, Exclusive, Zenon DEF shard, fact

\* Carrying out a join that was decided at the trie check, or taking the leaf of one that
\* spills out of the side map, shows nothing.
LEMMA LeafShows ==
    ASSUME IndInv, IndInv', NEW w \in Worker, Step(w), NewLeaf(w) \/ JoinLeaf(w) \/ SpillRemove(w)
    PROVE  UNCHANGED <<knownR, deltaR, foundR, offerR, grewR, rows>>
<1> DEFINE f == fact(w)
           a == new.leaf[f]
           c == cond(w)
<1>1. /\ Frame(w) /\ pc[w] = "join" /\ pc[w] # "idle" /\ pc[w] \in Locked /\ UNCHANGED <<arg, rows>> /\ TypeOK
      /\ \A g \in Fact \ {f} : new'.leaf[g] = new.leaf[g] /\ (g \in new'.always <=> g \in new.always)
  BY StepFrame, Zenon DEF NewLeaf, JoinLeaf, SpillRemove, Return, IndInv, Locked
<1>2. /\ f \in Fact /\ c \in Held /\ c # NoCond /\ arg[w][1] = f /\ arg[w][2] = c
      /\ a \in Held /\ a # Always /\ c # Always /\ "spill" \in Unjoined /\ "join" \in Unjoined
  BY <1>1, Sees, FactTypes, Zenon DEF IndInv, WorkerInv, WorkerAt, Unjoined
<1>3. (a = NoCond => Add(a, c) = c) /\ (a # NoCond => Add(a, c) = Joined(w))
  BY <1>2, AddCases, Zenon DEF Joined
<1>4. FoundAt /\ FoundAt'
  BY FoundHolds, AfterStep, Zenon
<1>5. CASE NewLeaf(w) \/ JoinLeaf(w)
  <2>1. /\ new'.always = new.always /\ new'.leaf[f] = Add(a, c) /\ Add(a, c) # Always
        /\ \/ pc'[w] = "clen" /\ a = NoCond
           \/ pc'[w] = "return" /\ result'[w] = (Add(a, c) # a)
    <3>1. CASE NewLeaf(w)
      BY <1>1, <1>2, <1>3, <3>1, NewParts, Zenon DEF NewLeaf, SetLeaf, SetNew, Store, Goto, TypeOK
    <3>2. CASE JoinLeaf(w)
      BY <1>1, <1>2, <1>3, <3>2, NewParts, Zenon DEF JoinLeaf, SetLeaf, SetNew, Store, Goto, Yield, Release, TypeOK
    <3> QED BY <1>5, <3>1, <3>2, Zenon
  <2>2. w \in settled /\ w \notin settled' /\ pc'[w] # "spill" /\ pc'[w] \notin Unjoined
    BY <1>1, <1>2, <2>1, Shows, Zenon DEF Unjoined
  <2>3. /\ \A v \in Worker \ {w} : offerR'[v] = offerR[v] /\ grewR'[v] = grewR[v]
        /\ \A v \in Worker \ {w} : v \in settled' <=> v \in settled
        /\ \A g \in Fact \ {f} : foundR'[g] = foundR[g]
        /\ UNCHANGED <<known, knownR, deltaR>>
    <3>1. /\ {f} \in SUBSET Fact
          /\ w \in settled \/ pc[w] = "spill" => arg[w][1] \in {f}
          /\ w \in settled' \/ pc'[w] = "spill" => arg'[w][1] \in {f}
      BY <1>1, <1>2, Zenon
    <3> QED BY <1>1, <3>1, OthersSee, Zenon
  <2>4. foundR'[f] = foundR[f]
    <3>1. CASE f \in new.always
      BY <1>2, <1>4, <2>1, <3>1, Zenon DEF FoundAt
    <3>2. CASE f \notin new.always
      <4>1. foundR[f] = Add(a, c)
        BY <1>2, <1>4, <2>2, <3>2 DEF FoundAt
      <4>2. \A v \in Worker : v \in settled' \/ pc'[v] = "spill" => arg'[v][1] # f
        <5>1. \A v \in Worker \ {w} : pc'[v] = pc[v] /\ arg'[v] = arg[v]
          BY <1>1, Zenon DEF Frame
        <5>2. \A v \in Worker \ {w} : v \in settled \/ pc[v] = "spill" => arg[v][1] # f
          BY <1>1, Alone, Zenon
        <5> QED BY <2>2, <2>3, <5>1, <5>2, Zenon DEF Frame
      <4>3. foundR'[f] = new'.leaf[f]
        BY <1>2, <1>4, <2>1, <3>2, <4>2, Zenon DEF FoundAt
      <4> QED BY <2>1, <4>1, <4>3, Zenon
    <3> QED BY <3>1, <3>2, Zenon
  <2>5. offerR'[w] = offerR[w]
    <3>1. offerR[w] = <<>>
      BY <2>2, Shows, Zenon
    <3>2. offerR'[w] = <<>>
      BY <2>2, Shows, Zenon
    <3> QED BY <3>1, <3>2, Zenon
  <2>6. grewR'[w] = grewR[w]
    <3>1. grewR[w] = <<Add(a, c) # a>>
      BY <1>2, <2>2, Shows, Zenon
    <3>2. CASE pc'[w] = "clen" /\ a = NoCond
      <4>1. grewR'[w] = <<TRUE>>
        BY <3>2, Shows, Zenon
      <4>2. (Add(a, c) # a) = TRUE
        BY <1>2, <1>3, <3>2, Zenon
      <4> QED BY <3>1, <4>1, <4>2, Zenon
    <3>3. CASE pc'[w] = "return" /\ result'[w] = (Add(a, c) # a)
      <4>1. grewR'[w] = <<result'[w]>>
        BY <3>3, Shows, Zenon DEF Reported
      <4> QED BY <3>1, <3>3, <4>1, Zenon
    <3> QED BY <2>1, <3>2, <3>3, Zenon
  <2> QED BY <1>1, <2>3, <2>4, <2>5, <2>6, ShowsNothing, Zenon
<1>6. CASE SpillRemove(w)
  <2>1. /\ new'.always = new.always /\ Add(a, c) = Always /\ pc'[w] = "spill" /\ saved'[w] = a
    BY <1>1, <1>3, <1>6, Zenon DEF SpillRemove, SetLeaf, SetNew, Store, Goto, TypeOK
  <2>2. w \notin settled /\ w \notin settled' /\ pc'[w] \in Unjoined
    BY <1>2, <2>1, Shows, Zenon
  <2>3. /\ \A v \in Worker \ {w} : offerR'[v] = offerR[v] /\ grewR'[v] = grewR[v]
        /\ \A g \in Fact \ {f} : foundR'[g] = foundR[g]
        /\ UNCHANGED <<known, knownR, deltaR>>
    <3>1. /\ {f} \in SUBSET Fact
          /\ w \in settled \/ pc[w] = "spill" => arg[w][1] \in {f}
          /\ w \in settled' \/ pc'[w] = "spill" => arg'[w][1] \in {f}
      BY <1>1, <1>2, Zenon
    <3> QED BY <1>1, <3>1, OthersSee, Zenon
  <2>4. foundR'[f] = foundR[f]
    <3>1. CASE f \in new.always
      BY <1>2, <1>4, <2>1, <3>1, Zenon DEF FoundAt
    <3>2. CASE f \notin new.always
      <4>1. \A v \in Worker : v \in settled \/ pc[v] = "spill" => arg[v][1] # f
        BY <1>1, <2>2, Alone, Zenon
      <4>2. foundR[f] = a
        BY <1>2, <1>4, <3>2, <4>1, Zenon DEF FoundAt
      <4>3. foundR'[f] = saved'[w]
        BY <1>1, <1>2, <1>4, <2>1, <3>2, Zenon DEF FoundAt
      <4> QED BY <2>1, <4>2, <4>3, Zenon
    <3> QED BY <3>1, <3>2, Zenon
  <2>5. offerR'[w] = offerR[w]
    <3>1. offerR[w] = arg[w]
      BY <1>1, <1>2, <2>2, Shows, Zenon
    <3>2. offerR'[w] = arg'[w]
      BY <2>2, Shows, Zenon
    <3> QED BY <1>1, <3>1, <3>2, Zenon
  <2>6. grewR'[w] = <<>> /\ grewR[w] = <<>>
    BY <1>1, <2>1, <2>2, Shows, Zenon DEF Reported
  <2> QED BY <1>1, <2>3, <2>4, <2>5, <2>6, ShowsNothing, Zenon
<1> QED BY <1>5, <1>6, Zenon

\* LatticeRel reads conditions as the store does.
LEMMA SameLattice ==
    ASSUME NEW a, NEW b
    PROVE  Rel!Add(a, b) = Add(a, b) /\ Rel!Covers(a, b) = Covers(a, b)
<1>1. \A s, t : Rel!IsSubset(s, t) <=> IsSubset(s, t)
  BY Zenon DEF Rel!IsSubset, IsSubset
<1>2. \A s, t : Rel!UnionUncached(s, t) = UnionUncached(s, t)
  <2>1. \A S : Rel!Cardinality(S) = Cardinality(S)
    BY Zenon DEF Rel!Cardinality, Cardinality
  <2> QED BY <1>1, <2>1, Zenon DEF Rel!UnionUncached, UnionUncached
<1>3. \A s, t : Rel!Union(s, t) = Union(s, t)
  BY <1>2, Zenon DEF Rel!Union, Union
<1>4. \A s : Rel!Under(s) = Under(s)
  BY Zenon DEF Rel!Under, Under
<1>5. \A s, t : Rel!JoinCond(s, t) = JoinCond(s, t)
  BY <1>3, <1>4, Zenon DEF Rel!JoinCond, JoinCond
<1> QED BY <1>5, Zenon DEF Rel!Add, Add, Rel!Covers, Covers

\* The steps at which a row takes effect.
LEMMA JoinShows ==
    ASSUME IndInv, IndInv', NEW w \in Worker, Step(w),
           \/ AlwaysInsert(w) \/ SpillInsert(w)
           \/ CheckTrie(w) /\ (fact(w) \in new.always \/ Add(new.leaf[fact(w)], cond(w)) # Always)
    PROVE  Rel!Join(w)
<1> DEFINE f == fact(w)
           a == new.leaf[f]
           c == cond(w)
           x == foundR[f]
<1>1. /\ Frame(w) /\ pc[w] # "idle" /\ pc[w] # "join" /\ UNCHANGED <<arg, rows>> /\ TypeOK
      /\ pc[w] \in Unjoined /\ new'.leaf = new.leaf
      /\ \A g \in Fact \ {f} : new'.leaf[g] = new.leaf[g] /\ (g \in new'.always <=> g \in new.always)
  BY StepFrame, Zenon DEF AlwaysInsert, SpillInsert, CheckTrie, Return, IndInv, Unjoined
<1>2. /\ f \in Fact /\ c \in Held /\ arg[w] = <<f, c>> /\ arg[w] # <<>> /\ arg[w][1] = f /\ arg[w][2] = c
      /\ a \in Held /\ a # Always /\ Always \in Held /\ w \notin settled
  BY <1>1, Sees, FactTypes, CondCases, Zenon DEF IndInv, Held
<1>3. FoundAt /\ FoundAt' /\ Shapes /\ Shapes'
  BY FoundHolds, ShapesHold, AfterStep, Zenon
<1>4. offerR[w] = arg[w] /\ x \in Held /\ (f \in new.always <=> x = Always)
  <2>1. offerR[w] = arg[w]
    BY <1>1, Shows, Zenon
  <2> QED BY <1>2, <1>3, <2>1, Zenon DEF FoundAt
<1>5. SUFFICES /\ pc'[w] \notin Unjoined \/ w \in settled'
               /\ w \in settled' \/ pc'[w] = "spill" => arg'[w][1] = f
               /\ grewR'[w] = <<Add(x, c) # x>>
               /\ foundR'[f] = Add(x, c)
  <2>1. offerR'[w] = <<>>
    BY Shows, Zenon
  <2>2. /\ \A v \in Worker \ {w} : offerR'[v] = offerR[v] /\ grewR'[v] = grewR[v]
        /\ \A g \in Fact \ {f} : foundR'[g] = foundR[g]
        /\ UNCHANGED <<known, knownR, deltaR>>
    <3>1. /\ {f} \in SUBSET Fact
          /\ w \in settled \/ pc[w] = "spill" => arg[w][1] \in {f}
          /\ w \in settled' \/ pc'[w] = "spill" => arg'[w][1] \in {f}
      BY <1>2, Zenon
    <3> QED BY <1>1, <3>1, OthersSee, Zenon
  <2>3. offerR' = [offerR EXCEPT ![w] = <<>>]
    BY <1>3, <2>1, <2>2, Zenon DEF Shapes
  <2>4. grewR' = [grewR EXCEPT ![w] = <<Add(foundR[offerR[w][1]], offerR[w][2]) # foundR[offerR[w][1]]>>]
    BY <1>2, <1>3, <1>4, <2>2, Zenon DEF Shapes
  <2>5. foundR' = [foundR EXCEPT ![offerR[w][1]] = Add(foundR[offerR[w][1]], offerR[w][2])]
    BY <1>2, <1>3, <1>4, <2>2 DEF Shapes
  <2>6. offerR[w] # <<>> /\ UNCHANGED <<knownR, deltaR, rows>>
    BY <1>1, <1>2, <1>4, <2>2, Zenon
  <2>7. Rel!Add(x, c) = Add(x, c) /\ offerR[w][1] = f /\ offerR[w][2] = c
    BY <1>2, <1>4, SameLattice, Zenon
  <2> HIDE DEF f, c, x
  <2> QED BY <2>3, <2>4, <2>5, <2>6, <2>7, Zenon DEF Rel!Join, x
<1>6. CASE AlwaysInsert(w) \/ SpillInsert(w)
  <2>1. /\ f \in new'.always /\ pc'[w] \in Reported /\ pc'[w] \notin Unjoined /\ pc'[w] # "join" /\ pc'[w] # "spill"
        /\ pc'[w] # "clen" /\ result'[w] = IF f \in new.always THEN FALSE ELSE TRUE
    <3>1. CASE AlwaysInsert(w) /\ f \in new.always
      BY <1>1, <3>1, Zenon DEF AlwaysInsert, Goto, Yield, TypeOK, Reported, Unjoined
    <3>2. CASE AlwaysInsert(w) /\ f \notin new.always
      BY <1>1, <3>2 DEF AlwaysInsert, SetNew, Store, Goto, Yield, TypeOK, Reported, Unjoined
    <3>3. CASE SpillInsert(w) /\ f \in new.always
      BY <1>1, <3>3, Zenon DEF SpillInsert, Goto, Yield, TypeOK, Reported, Unjoined
    <3>4. CASE SpillInsert(w) /\ f \notin new.always
      BY <1>1, <3>4 DEF SpillInsert, SetNew, Store, Goto, Yield, TypeOK, Reported, Unjoined
    <3> QED BY <1>6, <3>1, <3>2, <3>3, <3>4, Zenon
  <2>2. Add(x, c) = Always
    <3>1. CASE x = Always
      BY <1>2, <3>1, AddType, Zenon
    <3>2. CASE AlwaysInsert(w)
      <4>1. c = Always
        BY <3>2, Zenon DEF AlwaysInsert, IndInv, WorkerInv, WorkerAt
      <4> QED BY <1>2, <1>4, <4>1, AddType, Zenon
    <3>3. CASE SpillInsert(w) /\ x # Always
      <4>1. pc[w] = "spill" /\ Add(saved[w], c) = Always
        BY <3>3, Zenon DEF SpillInsert, IndInv, WorkerInv, WorkerAt
      <4>2. x = saved[w]
        BY <1>2, <1>3, <3>3, <4>1, Zenon DEF FoundAt
      <4> QED BY <4>1, <4>2, Zenon
    <3> QED BY <1>6, <3>1, <3>2, <3>3, Zenon
  <2>3. w \notin settled' /\ grewR'[w] = <<result'[w]>>
    <3>1. w \notin settled'
      BY <2>1, Shows, Zenon
    <3> QED BY <2>1, Shows, Zenon
  <2>4. foundR'[f] = Always
    BY <1>2, <1>3, <2>1, Zenon DEF FoundAt
  <2>5. result'[w] = (Add(x, c) # x)
    <3>1. CASE f \in new.always
      BY <1>4, <2>1, <2>2, Zenon
    <3>2. CASE f \notin new.always
      BY <1>4, <2>1, <2>2, Zenon
    <3> QED BY <3>1, <3>2, Zenon
  <2> QED BY <2>1, <2>2, <2>3, <2>4, <2>5, Zenon
<1>7. CASE CheckTrie(w) /\ f \in new.always
  <2>1. pc'[w] = "return" /\ result'[w] = FALSE /\ new' = new
    BY <1>1, <1>7, Zenon DEF CheckTrie, Goto, Yield, stores, TypeOK
  <2>2. x = Always /\ foundR'[f] = Always
    BY <1>2, <1>3, <1>7, <2>1, Zenon DEF FoundAt
  <2>3. Add(x, c) = Always
    BY <1>2, <2>2, AddType, Zenon
  <2>4. pc'[w] \notin Unjoined /\ w \notin settled' /\ pc'[w] # "spill" /\ pc'[w] \in Reported /\ pc'[w] # "clen"
    BY <2>1, Shows, Zenon DEF Unjoined, Reported
  <2>5. grewR'[w] = <<FALSE>>
    BY <2>1, <2>4, Shows, Zenon
  <2>6. (Add(x, c) # x) = FALSE
    BY <2>2, <2>3, Zenon
  <2> QED BY <2>2, <2>4, <2>5, <2>6, Zenon
<1>8. CASE CheckTrie(w) /\ f \notin new.always /\ Add(a, c) # Always
  <2>1. pc[w] = "check" /\ pc'[w] = "join" /\ new' = new
    BY <1>1, <1>8, Zenon DEF CheckTrie, Goto, stores, TypeOK
  <2>2. w \in settled' /\ grewR'[w] = <<Add(a, c) # a>>
    <3>1. arg' = arg /\ new'.leaf[arg'[w][1]] = a /\ arg'[w][2] = c
      BY <1>1, <1>2, Zenon
    <3>2. w \in settled'
      BY <1>8, <2>1, <3>1, Shows, Zenon
    <3> QED BY <3>1, <3>2, Shows, Zenon
  <2>3. x = a
    <3>1. \A v \in Worker : v \in settled \/ pc[v] = "spill" => arg[v][1] # f
      BY <1>2, <2>1, Alone, Zenon DEF Locked
    <3> QED BY <1>2, <1>3, <1>8, <3>1, Zenon DEF FoundAt
  <2>4. foundR'[f] = Add(a, c)
    BY <1>1, <1>2, <1>3, <1>8, <2>1, <2>2 DEF FoundAt
  <2> QED BY <1>1, <1>2, <2>2, <2>3, <2>4, Zenon
<1> QED BY <1>6, <1>7, <1>8, Zenon

\* insert returns what its join did.
LEMMA ReturnShows ==
    ASSUME IndInv, IndInv', NEW w \in Worker, Step(w), Return(w)
    PROVE  Rel!Return(w)
<1>1. /\ Frame(w) /\ pc[w] = "return" /\ pc'[w] = "idle" /\ new' = new
      /\ rows' = IF result[w] THEN rows + 1 ELSE rows
  BY StepFrame, Zenon DEF Return, Goto, stores, IndInv, TypeOK
<1>2. /\ offerR[w] = <<>> /\ grewR[w] = <<result[w]>> /\ offerR'[w] = <<>> /\ grewR'[w] = <<>>
      /\ w \notin settled /\ w \notin settled'
  BY <1>1, Shows, Zenon DEF Unjoined, Reported
<1>3. /\ \A v \in Worker \ {w} : offerR'[v] = offerR[v] /\ grewR'[v] = grewR[v]
      /\ \A g \in Fact \ {} : foundR'[g] = foundR[g]
      /\ UNCHANGED <<known, knownR, deltaR>>
  <2>1. /\ {} \in SUBSET Fact /\ pc[w] # "spill" /\ pc'[w] # "spill"
        /\ \A g \in Fact \ {} : new'.leaf[g] = new.leaf[g] /\ (g \in new'.always <=> g \in new.always)
    BY <1>1, Zenon
  <2> QED BY <1>1, <1>2, OthersSee, Zenon
<1>4. Shapes /\ Shapes'
  BY ShapesHold, AfterStep, Zenon
<1>5. /\ grewR[w] # <<>> /\ grewR' = [grewR EXCEPT ![w] = <<>>] /\ grewR[w][1] = result[w]
      /\ offerR' = offerR /\ foundR' = foundR
  <2>1. \A v \in Worker : offerR'[v] = offerR[v]
    BY <1>2, <1>3, Zenon
  <2> QED BY <1>2, <1>3, <1>4 DEF Shapes
<1> QED BY <1>1, <1>3, <1>5, Zenon DEF Rel!Return

\* What is shown depends on nothing else.
LEMMA SameShows ==
    ASSUME UNCHANGED <<total, delta, new, pc, arg, result, saved, rows>>
    PROVE  UNCHANGED <<knownR, deltaR, foundR, offerR, grewR, rows>>
BY Zenon DEF knownR, deltaR, foundR, offerR, grewR, Known, CondAt, Found, Decided, Pending, Outcome, fact, cond

\* A row that total or delta covers is dropped; any other is offered.
LEMMA DeriveShows ==
    ASSUME IndInv, IndInv', NEW w \in Worker, NEW f \in Fact, NEW c \in Offers, Derive(w, f, c)
    PROVE  Rel!Offer(w, f, c) \/ UNCHANGED <<knownR, deltaR, foundR, offerR, grewR, rows>>
<1>1. /\ running /\ pc[w] = "idle" /\ TypeOK
      /\ offered' = [offered EXCEPT ![f] = @ \cup {c}]
      /\ UNCHANGED <<total, delta, new, lock, result, rows, changed, running, saved>>
  BY Zenon DEF Derive, stores, IndInv
<1>2. CASE ContainsKey(total, f, c) \/ ContainsKey(delta, f, c)
  <2>1. UNCHANGED <<pc, arg>>
    BY <1>2, Zenon DEF Derive
  <2> QED BY <1>1, <2>1, SameShows, Zenon
<1>3. CASE ~ContainsKey(total, f, c) /\ ~ContainsKey(delta, f, c)
  <2>1. /\ pc'[w] \in {"trie", "entry"} /\ arg'[w] = <<f, c>>
        /\ \A v \in Worker \ {w} : pc'[v] = pc[v] /\ arg'[v] = arg[v]
    BY <1>1, <1>3, Zenon DEF Derive, Goto, TypeOK
  <2>2. Frame(w)
    <3>1. \A v \in Worker : pc[v] \in Locked => lock[shard(v)] = v
      BY Zenon DEF IndInv, WorkerInv, WorkerAt
    <3>2. \A g \in Fact : offered[g] \subseteq offered'[g]
      BY <1>1, Zenon DEF TypeOK
    <3> QED BY <1>1, <2>1, <3>1, <3>2, Zenon DEF Frame
  <2>3. /\ offerR[w] = <<>> /\ grewR[w] = <<>> /\ offerR'[w] = <<f, c>> /\ grewR'[w] = <<>>
        /\ w \notin settled /\ w \notin settled'
    BY <1>1, <2>1, Shows, Zenon DEF Unjoined, Reported
  <2>4. /\ \A v \in Worker \ {w} : offerR'[v] = offerR[v] /\ grewR'[v] = grewR[v]
        /\ \A g \in Fact \ {} : foundR'[g] = foundR[g]
        /\ UNCHANGED <<known, knownR, deltaR>>
    <3>1. /\ {} \in SUBSET Fact /\ pc[w] # "spill" /\ pc'[w] # "spill"
          /\ \A g \in Fact \ {} : new'.leaf[g] = new.leaf[g] /\ (g \in new'.always <=> g \in new.always)
      BY <1>1, <2>1, Zenon
    <3> QED BY <2>2, <2>3, <3>1, OthersSee, Zenon
  <2>5. Shapes /\ Shapes'
    BY ShapesHold, AfterStep, Zenon
  <2>6. /\ offerR' = [offerR EXCEPT ![w] = <<f, c>>] /\ grewR' = grewR /\ foundR' = foundR
    <3>1. \A v \in Worker : grewR'[v] = grewR[v]
      BY <2>3, <2>4, Zenon
    <3> QED BY <2>3, <2>4, <2>5, Zenon DEF Shapes
  <2>7. knownR[f] = NoCond \/ ~Covers(knownR[f], c)
    BY <1>3, Zenon DEF knownR, Known, ContainsKey
  <2>8. Rel!Covers(knownR[f], c) <=> Covers(knownR[f], c)
    BY SameLattice, Zenon
  <2> QED BY <1>1, <2>3, <2>4, <2>6, <2>7, <2>8, Zenon DEF Rel!Offer
<1> QED BY <1>2, <1>3, Zenon

\* The merge makes known what was found.
LEMMA MergeShows ==
    ASSUME IndInv, IndInv', Merge
    PROVE  Rel!Merge
<1>1. Idle /\ new' = Empty /\ UNCHANGED <<pc, arg, result, rows>> /\ delta' \in Stores /\ Counted(delta')
  BY MergeHolds, Zenon DEF Merge
<1>2. \A f \in Fact : /\ known'[f] = Add(known[f], HeldAt(new, f)) /\ known[f] \in Held
                      /\ HeldAt(new, f) \in Held
                      /\ HeldAt(delta', f) # NoCond <=> HeldAt(new, f) # NoCond
  <2>1. \A f \in Fact : known[f] \in Held /\ HeldAt(new, f) \in Held
    BY <1>1, IdleCounts, FactTypes, Zenon DEF IndInv
  <2> QED BY <2>1, MergeHolds, AddType
<1>3. FoundAt /\ FoundAt' /\ Shapes /\ Shapes' /\ KnownAt /\ KnownAt'
  BY FoundHolds, ShapesHold, KnownHolds, AfterStep, Zenon
<1>4. /\ \A w \in Worker : offerR[w] = <<>> /\ grewR[w] = <<>> /\ offerR'[w] = <<>> /\ grewR'[w] = <<>>
      /\ \A w \in Worker : w \notin settled /\ pc[w] # "spill" /\ w \notin settled' /\ pc'[w] # "spill"
  <2> SUFFICES ASSUME NEW w \in Worker
               PROVE  /\ offerR[w] = <<>> /\ grewR[w] = <<>> /\ offerR'[w] = <<>> /\ grewR'[w] = <<>>
                      /\ w \notin settled /\ pc[w] # "spill" /\ w \notin settled' /\ pc'[w] # "spill"
    BY Zenon
  <2>1. pc[w] = "idle" /\ pc'[w] = "idle"
    BY <1>1, Zenon DEF Idle
  <2> QED BY <2>1, Shows, Zenon DEF Unjoined, Reported
<1>5. \A f \in Fact : foundR[f] = HeldAt(new, f)
  BY <1>3, <1>4, Zenon DEF FoundAt, HeldAt
<1>6. \A f \in Fact : foundR'[f] = NoCond
  BY <1>1, <1>3, <1>4, EmptyHolds, Zenon DEF FoundAt
<1>7. knownR' = [f \in Fact |-> Rel!Add(knownR[f], foundR[f])]
  <2>1. \A f \in Fact : known'[f] = Rel!Add(knownR[f], foundR[f])
    BY <1>2, <1>3, <1>5, SameLattice DEF KnownAt
  <2>2. knownR' = [f \in Fact |-> known'[f]]
    BY <1>3, Zenon DEF KnownAt, known
  <2> QED BY <2>1, <2>2, Zenon
<1>8. deltaR' = {f \in Fact : foundR[f] # NoCond}
  <2>1. \A f \in Fact : CondAt(delta', f) # NoCond <=> foundR[f] # NoCond
    BY <1>1, <1>2, <1>5, CondAtHeld, Zenon
  <2>2. deltaR' = {f \in Fact : CondAt(delta', f) # NoCond}
    BY Zenon DEF deltaR, CondAt
  <2> QED BY <2>1, <2>2, Zenon
<1>9. foundR' = [f \in Fact |-> NoCond] /\ offerR' = offerR /\ grewR' = grewR
  BY <1>3, <1>4, <1>6 DEF Shapes
<1> QED BY <1>1, <1>4, <1>7, <1>8, <1>9, Zenon DEF Rel!Merge

\* The relation starts with the seed rows known, all of them in delta.
LEMMA InitShows ==
    ASSUME Init
    PROVE  Rel!Init
<1>1. PICK seed \in SUBSET Fact : delta = Store(seed, Empty.leaf, Cardinality(seed), 0)
  BY Zenon DEF Init
<1>2. /\ total = Empty /\ new = Empty /\ rows = 0 /\ pc = [w \in Worker |-> "idle"]
  BY Zenon DEF Init
<1>3. IndInv /\ FoundAt /\ Shapes /\ KnownAt /\ Shown
  BY IndInit, FoundHolds, ShapesHold, KnownHolds, ShownHolds, Zenon
<1>4. \A w \in Worker : pc[w] = "idle" /\ w \notin settled /\ offerR[w] = <<>> /\ grewR[w] = <<>>
  <2>1. \A w \in Worker : pc[w] = "idle"
    BY <1>2, Zenon
  <2> QED BY <1>3, <2>1, Zenon DEF Shown, Unjoined, Reported
<1>5. foundR = [f \in Fact |-> NoCond]
  <2>1. \A f \in Fact : foundR[f] = NoCond
    BY <1>2, <1>3, <1>4, EmptyHolds, Zenon DEF FoundAt
  <2> QED BY <1>3, <2>1, Zenon DEF Shapes
<1>6. offerR = [w \in Worker |-> <<>>] /\ grewR = [w \in Worker |-> <<>>]
  BY <1>3, <1>4, Zenon DEF Shapes
<1>7. \A f \in Fact : CondAt(total, f) = NoCond /\ CondAt(delta, f) \in {Always, NoCond}
  <2>1. \A f \in Fact : delta.always = seed /\ delta.clen = 0
    BY <1>1, Zenon DEF Store
  <2> QED BY <1>2, <2>1, EmptyHolds, Zenon DEF CondAt
<1>8. knownR \in [Fact -> {Always, NoCond}] /\ deltaR = {f \in Fact : knownR[f] # NoCond}
  BY <1>7, Zenon DEF knownR, deltaR, Known
<1> QED BY <1>2, <1>5, <1>6, <1>8, Zenon DEF Rel!Init

\* Every step of the stores is a step of the relation, or shows nothing.
LEMMA NextShows ==
    ASSUME IndInv, IndInv', [Next]_vars
    PROVE  [Rel!Next]_Rel!vars
<1>1. UNCHANGED <<knownR, deltaR, foundR, offerR, grewR, rows>> => UNCHANGED Rel!vars
  BY Zenon DEF Rel!vars
<1>2. ASSUME NEW w \in Worker, Step(w)
      PROVE  [Rel!Next]_Rel!vars
  <2>1. CASE \/ AlwaysCount(w) \/ LockEntry(w) \/ LeafCount(w) \/ SpillCount(w) \/ SpillUncount(w)
             \/ CheckTrie(w) /\ fact(w) \notin new.always /\ Add(new.leaf[fact(w)], cond(w)) = Always
    BY <1>1, <1>2, <2>1, CountsShow, Zenon
  <2>2. CASE NewLeaf(w) \/ JoinLeaf(w) \/ SpillRemove(w)
    BY <1>1, <1>2, <2>2, LeafShows, Zenon
  <2>3. CASE \/ AlwaysInsert(w) \/ SpillInsert(w)
             \/ CheckTrie(w) /\ (fact(w) \in new.always \/ Add(new.leaf[fact(w)], cond(w)) # Always)
    <3>1. Rel!Join(w)
      BY <1>2, <2>3, JoinShows, Zenon
    <3> QED BY <3>1, Zenon DEF Rel!Next
  <2>4. CASE Return(w)
    <3>1. Rel!Return(w)
      BY <1>2, <2>4, ReturnShows, Zenon
    <3> QED BY <3>1, Zenon DEF Rel!Next
  <2> QED BY <1>2, <2>1, <2>2, <2>3, <2>4, Zenon DEF Step
<1>3. ASSUME NEW w \in Worker, NEW f \in Fact, NEW c \in Offers, Derive(w, f, c)
      PROVE  [Rel!Next]_Rel!vars
  <2>1. Rel!Offer(w, f, c) \/ UNCHANGED <<knownR, deltaR, foundR, offerR, grewR, rows>>
    BY <1>3, DeriveShows, Zenon
  <2> QED BY <1>1, <2>1, Zenon DEF Rel!Next
<1>4. CASE Merge
  <2>1. Rel!Merge
    BY <1>4, MergeShows, Zenon
  <2> QED BY <2>1, Zenon DEF Rel!Next
<1>5. CASE Fixpoint \/ UNCHANGED vars
  BY <1>1, <1>5, SameShows, Zenon DEF Fixpoint, vars, stores
<1> QED BY <1>2, <1>3, <1>4, <1>5, Zenon DEF Next

\* The stores implement the abstract relation: each insert joins at one instant, between its
\* call and its return, and reports whether that join grew the fact, and merge_delta_to_total_new_to_delta
\* makes known what was found.
THEOREM StoresImplementRelation == Spec => ImplementsRel
<1>1. Init => Rel!Init
  BY InitShows, Zenon
<1>2. IndInv /\ IndInv' /\ [Next]_vars => [Rel!Next]_Rel!vars
  BY NextShows, Zenon
<1> QED BY <1>1, <1>2, RelationInvariant, PTL DEF Spec, ImplementsRel, Rel!Spec
=============================================================================
