----------------------------- MODULE IdInterner -----------------------------
(***************************************************************************)
(* The concurrent interner of immortal/src/id.rs. A value hashes to one of *)
(* S shards; a shard has a read-write lock over its table, length and      *)
(* arena, slots that are written once and read without the lock, and a     *)
(* length published with Release for the readers that take no lock.        *)
(*                                                                         *)
(* The memory model is that of release/acquire views: a thread's view says *)
(* which slot writes happen before its next step and which published       *)
(* length it can no longer read behind. Releasing a write lock or storing  *)
(* with Release hands the view over; locking or loading with Acquire joins *)
(* it. An Acquire load may return any length not older than the view.      *)
(***************************************************************************)
EXTENDS Arena, FiniteSets

CONSTANTS
    Thread, Value,
    NoThread,   \* the lock's owner when nobody writes
    Uninit,     \* what memory nobody wrote holds
    S,          \* number of shards
    Limit,      \* most values a shard takes, the limit of with_limit
    MaxU32,     \* u32::MAX
    ShardOf,    \* the shard a value's hash selects
    Units       \* the arena units a value needs, 0 for a sized type

Shard == 0..(S - 1)
Local == 0..(Limit - 1)

ASSUME InternerAssumption ==
    /\ NoThread \notin Thread
    /\ Uninit \notin Value
    /\ S \in Nat \ {0}
    /\ Limit \in Nat \ {0}
    /\ MaxU32 \in Nat
    /\ (Limit + 1) * S <= MaxU32 + 1
    /\ ShardOf \in [Value -> Shard]
    /\ Units \in [Value -> Nat]

VARIABLES
    writer,     \* the thread that holds each shard's write lock
    slot,       \* the slots of each shard's buckets
    table,      \* Locked.table: the raw ids in each shard's hash table
    len,        \* Locked.len
    next,       \* Locked.next: the arena's next free offset
    pub,        \* Shard.len, the published length
    pubView,    \* the view released with each published length
    lockView,   \* the view released with each shard's write lock
    view,       \* each thread's view
    pc,         \* where each thread is in intern
    arg,        \* the value it interns, Uninit outside intern
    held,       \* the ids each thread has obtained
    got         \* every <<value, id>> that intern or try_get returned

mem == <<writer, slot, table, len, next, pub, pubView, lockView>>
vars == <<mem, view, pc, arg, held, got>>

NoView == [s \in Shard |-> [slots |-> {}, len |-> 0]]

Join(v, w) ==
    [s \in Shard |-> [slots |-> v[s].slots \cup w[s].slots,
                      len   |-> IF v[s].len < w[s].len THEN w[s].len ELSE v[s].len]]

\* The view after the thread's own write of slot l, or with length n of shard s.
AddSlot(v, s, l) == [v EXCEPT ![s] = [slots |-> @.slots \cup {l}, len |-> @.len]]
SetLen(v, s, n) == [v EXCEPT ![s] = [slots |-> @.slots, len |-> n]]

\* The raw id of a shard's local index: it is never 0.
Raw(s, local) == (local + 1) * S + s

\* decode. The local index wraps to u32::MAX when raw has no local bits.
ShardPart(raw) == raw % S
LocalPart(raw) == IF raw \div S = 0 THEN MaxU32 ELSE (raw \div S) - 1

RawId == {Raw(s, l) : s \in Shard, l \in Local}

\* value: what the slot that raw names holds.
ValueOf(raw) == slot[ShardPart(raw)][LocalPart(raw)]

\* find: the entries of a shard's table whose slot holds v.
Find(s, v) == {raw \in table[s] : ValueOf(raw) = v}

Init ==
    /\ writer = [s \in Shard |-> NoThread]
    /\ slot = [s \in Shard |-> [l \in Local |-> Uninit]]
    /\ table = [s \in Shard |-> {}]
    /\ len = [s \in Shard |-> 0]
    /\ next = [s \in Shard |-> 0]
    /\ pub = [s \in Shard |-> 0]
    /\ pubView = [s \in Shard |-> [n \in {0} |-> NoView]]
    /\ lockView = [s \in Shard |-> NoView]
    /\ view = [t \in Thread |-> NoView]
    /\ pc = [t \in Thread |-> "idle"]
    /\ arg = [t \in Thread |-> Uninit]
    /\ held = [t \in Thread |-> {}]
    /\ got = {}

-----------------------------------------------------------------------------
(***************************************************************************)
(* The steps of intern(value), and try_get and from_raw.                   *)
(***************************************************************************)
\* The ids of `ids` name v: thread t gets them.
Return(t, v, ids) ==
    /\ held' = [held EXCEPT ![t] = @ \cup ids]
    /\ got' = got \cup {<<v, raw>> : raw \in ids}

\* A lookup under the read lock, which a writer excludes.
LookUp(t, v) ==
    LET s == ShardOf[v] IN
    /\ writer[s] = NoThread
    /\ view' = [view EXCEPT ![t] = Join(@, lockView[s])]
    /\ Return(t, v, Find(s, v))

\* The first find of intern: done if the value is there.
InternRead(t, v) ==
    /\ pc[t] = "idle"
    /\ LookUp(t, v)
    /\ IF Find(ShardOf[v], v) # {}
       THEN UNCHANGED <<pc, arg>>
       ELSE /\ pc' = [pc EXCEPT ![t] = "missed"]
            /\ arg' = [arg EXCEPT ![t] = v]
    /\ UNCHANGED mem

TryGet(t, v) ==
    /\ pc[t] = "idle"
    /\ LookUp(t, v)
    /\ UNCHANGED <<mem, pc, arg>>

LockWrite(t) ==
    LET s == ShardOf[arg[t]] IN
    /\ pc[t] = "missed"
    /\ writer[s] = NoThread
    /\ writer' = [writer EXCEPT ![s] = t]
    /\ view' = [view EXCEPT ![t] = Join(@, lockView[s])]
    /\ pc' = [pc EXCEPT ![t] = "locked"]
    /\ UNCHANGED <<slot, table, len, next, pub, pubView, lockView, arg, held, got>>

\* Mutant of Unlock: the guard is leaked.
UnlockNever(t, s) ==
    /\ lockView' = [lockView EXCEPT ![s] = view[t]]
    /\ pc' = [pc EXCEPT ![t] = "idle"]
    /\ arg' = [arg EXCEPT ![t] = Uninit]
    /\ UNCHANGED writer

\* Dropping the guard, on a return and on an unwinding panic.
Unlock(t, s) ==
    /\ writer' = [writer EXCEPT ![s] = NoThread]
    /\ lockView' = [lockView EXCEPT ![s] = view[t]]
    /\ pc' = [pc EXCEPT ![t] = "idle"]
    /\ arg' = [arg EXCEPT ![t] = Uninit]

\* The find that is repeated under the write lock finds the value.
RecheckHit(t) ==
    LET s == ShardOf[arg[t]] IN
    /\ pc[t] = "locked"
    /\ Find(s, arg[t]) # {}
    /\ Return(t, arg[t], Find(s, arg[t]))
    /\ Unlock(t, s)
    /\ UNCHANGED <<slot, table, len, next, pub, pubView, view>>

\* panic!: the shard is full.
PanicFull(t) ==
    LET s == ShardOf[arg[t]] IN
    /\ pc[t] = "locked"
    /\ Find(s, arg[t]) = {}
    /\ len[s] >= Limit
    /\ Unlock(t, s)
    /\ UNCHANGED <<slot, table, len, next, pub, pubView, view, held, got>>

\* Mutant of PanicArena: the length is raised before the value is stored.
PanicArenaLenFirst(t) ==
    LET s == ShardOf[arg[t]] IN
    /\ pc[t] = "locked"
    /\ Find(s, arg[t]) = {}
    /\ len[s] < Limit
    /\ ~StoreSlice(next[s], Units[arg[t]]).ok
    /\ len' = [len EXCEPT ![s] = @ + 1]
    /\ Unlock(t, s)
    /\ UNCHANGED <<slot, table, next, pub, pubView, view, held, got>>

\* panic!: the arena is out of offsets. The chunks skipped stay skipped.
PanicArena(t) ==
    LET s == ShardOf[arg[t]]
        r == StoreSlice(next[s], Units[arg[t]])
    IN
    /\ pc[t] = "locked"
    /\ Find(s, arg[t]) = {}
    /\ len[s] < Limit
    /\ ~r.ok
    /\ next' = [next EXCEPT ![s] = r.next]
    /\ Unlock(t, s)
    /\ UNCHANGED <<slot, table, len, pub, pubView, view, held, got>>

\* Mutant of WriteSlot: the find is not repeated under the write lock.
WriteSlotNoRecheck(t) ==
    LET s == ShardOf[arg[t]]
        r == StoreSlice(next[s], Units[arg[t]])
    IN
    /\ pc[t] = "locked"
    /\ len[s] < Limit
    /\ r.ok
    /\ next' = [next EXCEPT ![s] = r.next]
    /\ slot' = [slot EXCEPT ![s][len[s]] = arg[t]]
    /\ view' = [view EXCEPT ![t] = AddSlot(@, s, len[s])]
    /\ pc' = [pc EXCEPT ![t] = "written"]
    /\ UNCHANGED <<writer, table, len, pub, pubView, lockView, arg, held, got>>

\* Allocates the bucket, stores the value, writes the slot.
WriteSlot(t) ==
    LET s == ShardOf[arg[t]]
        r == StoreSlice(next[s], Units[arg[t]])
    IN
    /\ pc[t] = "locked"
    /\ Find(s, arg[t]) = {}
    /\ len[s] < Limit
    /\ r.ok
    /\ next' = [next EXCEPT ![s] = r.next]
    /\ slot' = [slot EXCEPT ![s][len[s]] = arg[t]]
    /\ view' = [view EXCEPT ![t] = AddSlot(@, s, len[s])]
    /\ pc' = [pc EXCEPT ![t] = "written"]
    /\ UNCHANGED <<writer, table, len, pub, pubView, lockView, arg, held, got>>

InsertTable(t) ==
    LET s == ShardOf[arg[t]] IN
    /\ pc[t] = "written"
    /\ table' = [table EXCEPT ![s] = @ \cup {Raw(s, len[s])}]
    /\ len' = [len EXCEPT ![s] = @ + 1]
    /\ pc' = [pc EXCEPT ![t] = "inserted"]
    /\ UNCHANGED <<writer, slot, next, pub, pubView, lockView, view, arg, held, got>>

\* Mutant of Publish: the length is stored with Relaxed.
PublishRelaxed(t) ==
    LET s == ShardOf[arg[t]]
        w == SetLen(view[t], s, len[s])
    IN
    /\ pc[t] = "inserted"
    /\ pub' = [pub EXCEPT ![s] = len[s]]
    /\ view' = [view EXCEPT ![t] = w]
    /\ pubView' = [pubView EXCEPT ![s] =
                    [n \in 0..len[s] |-> NoView]]
    /\ pc' = [pc EXCEPT ![t] = "published"]
    /\ UNCHANGED <<writer, slot, table, len, next, lockView, arg, held, got>>

\* Mutant of Publish: the length is never stored.
PublishNothing(t) ==
    /\ pc[t] = "inserted"
    /\ pc' = [pc EXCEPT ![t] = "published"]
    /\ UNCHANGED <<mem, view, arg, held, got>>

\* shard.len.store(local + 1, Release)
Publish(t) ==
    LET s == ShardOf[arg[t]]
        w == SetLen(view[t], s, len[s])
    IN
    /\ pc[t] = "inserted"
    /\ pub' = [pub EXCEPT ![s] = len[s]]
    /\ view' = [view EXCEPT ![t] = w]
    /\ pubView' = [pubView EXCEPT ![s] =
                    [n \in 0..len[s] |-> IF n = len[s] THEN w ELSE @[n]]]
    /\ pc' = [pc EXCEPT ![t] = "published"]
    /\ UNCHANGED <<writer, slot, table, len, next, lockView, arg, held, got>>

\* Mutant of Finish: the id returned is that of the next local index.
FinishOffByOne(t) ==
    LET s == ShardOf[arg[t]] IN
    /\ pc[t] = "published"
    /\ Return(t, arg[t], {Raw(s, IF len[s] < Limit THEN len[s] ELSE len[s] - 1)})
    /\ Unlock(t, s)
    /\ UNCHANGED <<slot, table, len, next, pub, pubView, view>>

Finish(t) ==
    LET s == ShardOf[arg[t]] IN
    /\ pc[t] = "published"
    /\ Return(t, arg[t], {Raw(s, len[s] - 1)})
    /\ Unlock(t, s)
    /\ UNCHANGED <<slot, table, len, next, pub, pubView, view>>

\* Mutant of FromRaw: an id is accepted when its local index is not above the length.
FromRawOffByOne(t, raw, n) ==
    LET s == ShardPart(raw) IN
    /\ pc[t] = "idle"
    /\ n \in view[t][s].len..pub[s]
    /\ view' = [view EXCEPT ![t] =
                    Join(SetLen(@, s, n), pubView[s][n])]
    /\ held' = [held EXCEPT ![t] = IF LocalPart(raw) <= n THEN @ \cup {raw} ELSE @]
    /\ UNCHANGED <<mem, pc, arg, got>>

\* from_raw on any bits, such as bits read back from storage. n is the length
\* its Acquire load returns.
FromRaw(t, raw, n) ==
    LET s == ShardPart(raw) IN
    /\ pc[t] = "idle"
    /\ n \in view[t][s].len..pub[s]
    /\ view' = [view EXCEPT ![t] =
                    Join(SetLen(@, s, n), pubView[s][n])]
    /\ held' = [held EXCEPT ![t] = IF LocalPart(raw) < n THEN @ \cup {raw} ELSE @]
    /\ UNCHANGED <<mem, pc, arg, got>>

\* Safe code passes an id to another thread only through something that
\* synchronizes, such as a lock, a channel or a join.
Send(t, u) ==
    /\ pc[t] = "idle" /\ pc[u] = "idle" /\ t # u
    /\ held' = [held EXCEPT ![u] = @ \cup held[t]]
    /\ view' = [view EXCEPT ![u] = Join(@, view[t])]
    /\ UNCHANGED <<mem, pc, arg, got>>

InternStep(t) ==
    \/ LockWrite(t)
    \/ RecheckHit(t)
    \/ PanicFull(t)
    \/ PanicArena(t)
    \/ WriteSlot(t)
    \/ InsertTable(t)
    \/ Publish(t)
    \/ Finish(t)


Next ==
    \/ \E t \in Thread : InternStep(t)
    \/ \E t \in Thread, v \in Value : InternRead(t, v) \/ TryGet(t, v)
    \/ \E t \in Thread, raw \in 0..MaxU32, n \in 0..Limit : FromRaw(t, raw, n)
    \/ \E t, u \in Thread : Send(t, u)

Spec == Init /\ [][Next]_vars

\* The lock is eventually fair: parking_lot hands it to a waiting thread from
\* time to time, so a thread that waits for it gets it.
FairSpec ==
    Spec /\ \A t \in Thread : WF_vars(InternStep(t)) /\ SF_vars(LockWrite(t))
-----------------------------------------------------------------------------
View == [Shard -> [slots : SUBSET Local, len : 0..Limit]]

\* Every variable has its type.
TypeOK ==
    /\ writer \in [Shard -> Thread \cup {NoThread}]
    /\ slot \in [Shard -> [Local -> Value \cup {Uninit}]]
    /\ table \in [Shard -> SUBSET RawId]
    /\ len \in [Shard -> 0..Limit]
    /\ DOMAIN next = Shard
    /\ pub \in [Shard -> 0..Limit]
    /\ DOMAIN pubView = Shard
    /\ \A s \in Shard : pubView[s] \in [0..pub[s] -> View]
    /\ lockView \in [Shard -> View]
    /\ view \in [Thread -> View]
    /\ pc \in [Thread -> {"idle", "missed", "locked", "written", "inserted", "published"}]
    /\ arg \in [Thread -> Value \cup {Uninit}]
    /\ held \in [Thread -> SUBSET RawId]
    /\ got \subseteq Value \X RawId

\* However calls of intern and try_get race, equal values get equal ids and
\* different values different ids (the recheck under the write lock).
OneIdPerValue == \A p, q \in got : (p[1] = q[1]) <=> (p[2] = q[2])

\* get takes no lock: for every id a thread holds, also one that from_raw took
\* from arbitrary bits, the slot's write happens before the thread's read, so
\* get never reads memory that is not initialized or not yet visible.
GetReadsInitialized ==
    \A t \in Thread : \A raw \in held[t] :
        /\ LocalPart(raw) \in view[t][ShardPart(raw)].slots
        /\ ValueOf(raw) \in Value

\* get returns the value whose intern returned the id, for ever.
GetReturnsInterned == \A p \in got : ValueOf(p[2]) = p[1]

\* is_valid is "always true for an Id that came from" the interner: the length
\* that a thread may read is above every id it holds, however stale the load.
HeldIdsAreValid ==
    \A t \in Thread : \A raw \in held[t] : LocalPart(raw) < view[t][ShardPart(raw)].len

\* Whenever no writer is inside, also after a panic that unwound through intern,
\* a shard's table, length, slots and published length agree.
ShardIntact ==
    \A s \in Shard : writer[s] = NoThread =>
        /\ table[s] = {Raw(s, l) : l \in 0..(len[s] - 1)}
        /\ pub[s] = len[s]
        /\ \A l \in Local : slot[s][l] # Uninit <=> l < len[s]

\* A slot is written at most once: no step overwrites one that readers may hold.
SlotsWriteOnce ==
    [][\A s \in Shard, l \in Local : slot[s][l] # Uninit => slot'[s][l] = slot[s][l]]_vars

-----------------------------------------------------------------------------
(***************************************************************************)
(* The inductive invariant behind the safety properties.                   *)
(***************************************************************************)
InCritical(t) == pc[t] \in {"locked", "written", "inserted", "published"}

\* A thread past the lock owns its value's shard, and an owner is past the lock.
LockInv ==
    /\ \A t \in Thread : pc[t] # "idle" => arg[t] \in Value
    /\ \A t \in Thread : InCritical(t) => writer[ShardOf[arg[t]]] = t
    /\ \A t \in Thread, s \in Shard :
           writer[s] = t => InCritical(t) /\ ShardOf[arg[t]] = s

\* What a shard holds: len slots with different values of the shard, all in
\* the table; the writer is the only one that can be ahead of pub and len.
ShardInv(s) ==
    /\ table[s] = {Raw(s, l) : l \in 0..(len[s] - 1)}
    /\ \A l \in 0..(len[s] - 1) : slot[s][l] \in Value /\ ShardOf[slot[s][l]] = s
    /\ \A l, m \in 0..(len[s] - 1) : slot[s][l] = slot[s][m] => l = m
    /\ \A l \in Local : l > len[s] => slot[s][l] = Uninit
    /\ len[s] < Limit /\ slot[s][len[s]] # Uninit =>
           \E t \in Thread : writer[s] = t /\ pc[t] = "written"
    /\ pub[s] # len[s] => \E t \in Thread : writer[s] = t /\ pc[t] = "inserted"

WriterInv(t) ==
    LET s == ShardOf[arg[t]] IN
    /\ pc[t] = "written" =>
           /\ len[s] < Limit
           /\ slot[s][len[s]] = arg[t]
           /\ \A l \in 0..(len[s] - 1) : slot[s][l] # arg[t]
           /\ len[s] \in view[t][s].slots
    /\ pc[t] = "inserted" =>
           /\ pub[s] = len[s] - 1
           /\ slot[s][len[s] - 1] = arg[t]
           /\ len[s] - 1 \in view[t][s].slots
    /\ pc[t] = "published" => len[s] > 0 /\ slot[s][len[s] - 1] = arg[t]

\* A view that has a length has the slots below it, and no unpublished length.
ViewInv(w) ==
    \A s \in Shard : w[s].len <= pub[s] /\ 0..(w[s].len - 1) \subseteq w[s].slots

\* Whoever takes a free lock, holds it, or reads length n sees that far.
ViewsInv ==
    /\ \A t \in Thread : ViewInv(view[t])
    /\ \A s \in Shard : ViewInv(lockView[s])
    /\ \A s \in Shard : \A n \in 0..pub[s] :
           ViewInv(pubView[s][n]) /\ pubView[s][n][s].len = n
    /\ \A s \in Shard : writer[s] = NoThread => lockView[s][s].len = pub[s]
    /\ \A t \in Thread : InCritical(t) =>
           view[t][ShardOf[arg[t]]].len = pub[ShardOf[arg[t]]]

\* A returned id names a published slot that holds the value.
PairInv(p) == LocalPart(p[2]) < pub[ShardPart(p[2])] /\ ValueOf(p[2]) = p[1]

IdsInv ==
    /\ \A t \in Thread : \A raw \in held[t] :
           LocalPart(raw) < view[t][ShardPart(raw)].len
    /\ \A p \in got : PairInv(p)

\* All of it: locks, shards, writers, views and the ids handed out agree.
IndInv ==
    /\ TypeOK
    /\ LockInv
    /\ \A s \in Shard : ShardInv(s)
    /\ \A t \in Thread : WriterInv(t)
    /\ ViewsInv
    /\ IdsInv
-----------------------------------------------------------------------------
\* Every call of intern returns or panics: nobody waits for a lock for ever.
InternTerminates == \A t \in Thread : pc[t] = "missed" ~> pc[t] = "idle"

\* The interner implements the abstract one-to-one, append-only relation: a
\* value is assigned its id when its length is published.
Assigned ==
    UNION {{<<slot[s][l], Raw(s, l)>> : l \in 0..(pub[s] - 1)} : s \in Shard}

Abs == INSTANCE InternerSpec WITH Id <- RawId, assigned <- Assigned, known <- held

\* Every step is a step of the abstract interner or leaves it unchanged.
ImplementsInterner == Abs!Spec
=============================================================================
