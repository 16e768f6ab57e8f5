# TLA+ specifications of CTADL

CTADL is a compositional taint analysis. `ctadl import` translates programs to
an IR and stores them; `ctadl index` computes data-flow summaries with Datalog
rules (Ascent) and stores the index; `ctadl query` searches it. This directory
holds specifications of the parts of the program where state is shared between
threads, survives a crash, or is kept in two places that must agree, and of the
analysis itself, from the passes over the IR to the paths a query reports,
against the reference semantics of the IR; TLC runs that check them on small
instances; and TLAPS proofs for every instance.

`PROJECT.json` is the machine-readable side: components, runs, the source lines
of each definition, one mutant (a plausible bug) for each property, findings,
hazards, theorems.

## 1. Inventory

| Component | State | Operations | Used by | What is hard about it |
|---|---|---|---|---|
| Id interner, `immortal/src/id.rs` | shards: lock, hash table, length, arena; write-once slots; published length | `intern`, `try_get`, `get`, `from_raw`, `is_valid` | every handle of the engine (decisions, sets, paths, ids) | decoding takes no lock; panics inside the critical section; ids packed in few bits |
| Decision sets, `decision.rs` | none (values) | union, intersection, subset, `under`, `and`, join | conditional rows | widening and spilling must keep a join semilattice |
| Union cache, `decision.rs` | per slot: sequence number, key, result | `union_cache_get`, `union_cache_put` | union | seqlock without a lock, relaxed loads, wrap-around |
| Conditional store, `c_cond_trie.rs`, `cond_trie.rs` | trie of unconditional rows, side map of conditions, two counts; three copies: total, delta, new | insert, `contains_key`, absorb, refine, merge | Ascent's semi-naive loop, rayon workers | a row moves between the halves while others insert it; counts are separate atomics |
| LSM multimap, `lsm/src/mmap.rs` | memtable, levels of runs, length, share of a global memory budget; run files | insert, flush, merge, clear, absorb, open, close | `index --lsm` | cascades of merges, accounting by hand, i/o failures, crashes |
| Import store, `ctadl-import`, `ctadl-frontends`, `ctadl-ascent/src/cli` | a config, program and tables per import; project config; index tables and stamp | import, skip, sub-imports of native libraries, index, load | the user, over days | files written in place, no transaction; a run may die anywhere; artifacts are rebuilt |
| Path algebra, `cir/path.rs`, `facts.rs`, `path_set.rs` | a frozen set of paths | normalize, concat, classify, strip and match prefixes, split | IR, codegen, every rule | four implementations of one algebra; offsets wrap |
| Passes, `ctadl-ir/src/ssa`, `graph/dominators` | one function | dead temps, coalesce, mem2reg, prune, single exit, phis, rename, copy propagation | front ends, index | each pass must keep what can be observed; dominators are computed by Lengauer and Tarjan |
| Code generation, `ctadl-ascent/src/codegen` | facts | lowering, derived inputs | index | what the rules may assume |
| Index rules, `index_engine/mod.rs` | relations | about a hundred rules | `cli::index` | conditional rows, contexts, three ways to join them; any order of derivations |
| Query engine, `query_engine/search.rs`, `graph/mod.rs` | search state per label | expand, visit, report | query | call and return matching by one bit, lazily expanded graph |
| Reference semantics, `ctadl-ir/src/semantics` | labeled cells | evaluate the unfolding | tests | what all of the above is compared with |
| Locals trie, hybrid sets, path groups, `index_engine/` | containers | insert, iterate, absorb | the stores | layout; only the locals trie's concurrent insert is modelled |
| LSM provider, bloom filter, k-way merge, `lsm/src` | none beyond the map | index adapters, lookups | Ascent | not modelled |
| Fact tables, `ctadl-index/src/facts` | parquet files | save, load | index, query | encoding |
| Models, language bridges, reports, SCC | none | single passes | CLI | parsing and rendering |
| Front ends, readers, source-info, trie, xtask, rustc_graphviz | none that outlives a call | translation, parsing | import | single passes |

How the modelled parts meet: rules run on rayon workers and insert rows into the
conditional store; a row's condition is a decision set, joined through the union
cache and interned by the id interner; with `--lsm` plain relations live in LSM
multimaps; the finished index goes into the import store, next to the imports it
was computed from. Upstream of the rules, the passes turn a function into SSA
form, code generation lowers it to facts, and the path set fixes which access
paths may be asked for; downstream, the query searches the index for flows.

The properties looked for are listed with the runs below, and the hazards that
led to them, each at its line, in `PROJECT.json`.

## 2. Modules

| Module | Models | Notes |
|---|---|---|
| `Arena` | the bump arena of a shard | pure operators |
| `InternerSpec` | what an interner promises | abstract |
| `IdInterner` | the id interner | extends `Arena`; refines `InternerSpec` |
| `InternerProofs`, `InternerTheorems` | proofs about `IdInterner` | lemmas and reader steps; writer steps, theorems |
| `Decision` | decision sets and conditions | pure operators |
| `UnionCache` | one slot of the union cache | |
| `UnionCacheProofs` | proofs about `UnionCache` | a hit is never torn |
| `CondStore` | one conditional store, as a value | extends `Decision` |
| `LatticeRel` | what a lattice relation promises | abstract |
| `CondTrie` | the parallel store in the semi-naive loop | extends `CondStore` |
| `CondTrieRefinement` | how `CondTrie` implements `LatticeRel` | extends `CondTrie` |
| `CondStoreProofs` | proofs about `Decision` and `CondStore` | conditions form a join semilattice; absorb and refine are joins |
| `CondTrieProofs`, `CondTrieRelProofs` | proofs about `CondTrie` | its invariants; that it implements `LatticeRel` |
| `CondTrieSerial` | the serial store in the same loop | extends `CondStore`; refines `LatticeRel` |
| `Multimap` | what a set of multimaps promises | abstract |
| `LsmMap` | the LSM multimaps of a process | refines `Multimap` |
| `ImportStore` | import and index commands over the store | |
| `ImportProofs` | proofs about `ImportStore` | places of a command, invariant, steps, theorems |
| `PathAlg` | access paths, four implementations | pure operators |
| `PathRewrite` | the equations of access paths as a rewriting system | extends `PathAlg`; the reference for it |
| `Ir` | variables, expressions, statements, what an assignment does to labels | pure operators |
| `Codegen` | lowering of a program to facts | extends `Ir` |
| `IndexRules` | the Datalog rules of the index | extends `Codegen`, `Decision` |
| `GraphSearch` | the annotated breadth-first search | |
| `GraphSearchProofs` | proofs about `GraphSearch` | |
| `TaintSearch` | the query | extends `IndexRules`; instantiates `GraphSearch` |
| `Semantics` | the reference semantics of a program | extends `Codegen` |
| `Analysis` | index, query and reference, composed | extends `TaintSearch`, `Semantics` |
| `Dominators` | dominator tree and frontiers | extends `Ir` |
| `Mem2Reg` | promotion of stack slots | extends `Ir` |
| `Ssa` | the pipeline of passes over a function | extends `Dominators`, `Mem2Reg` |
| `MC*` | instances for TLC | |

Definitions named after a property's mutant (`PublishRelaxed`,
`ClearStampNever`, ...) stand before the definition they change. They are used
nowhere in the specifications; each shows that its property notices that bug.

### IdInterner

A value belongs to a shard. `intern` looks the value up under the read lock
(`InternRead`), takes the write lock (`LockWrite`), looks again (`RecheckHit`),
and then panics at the limit (`PanicFull`) or in the arena (`PanicArena`), or
writes the slot, inserts into the table, publishes the length and returns
(`WriteSlot`, `InsertTable`, `Publish`, `Finish`). `FromRaw` is `from_raw` with
`is_valid`; `Send` is safe code that hands a `Copy` id to another thread.

Memory is modelled by views. A thread's view says which slot writes happen before
its next step, and behind which published length it cannot read. Unlocking and
Release stores hand the view over; locking and Acquire loads join it; an Acquire
load may return any value not older than the view. A decode of a slot that is not
in the view is the data race that `GetReadsInitialized` excludes.

### Decision, CondStore, CondTrie, CondTrieSerial

A condition is `Always` or a set of decisions; a set over the widening bound is
`Top`, and with spilling `Top` is `Always`. A store has a set of unconditional
facts, a leaf for each conditional one, and the two counts. `Absorb` and `Refine`
are the two halves of `merge_delta_to_total_new_to_delta`; they run alone, on
frozen stores.

In `CondTrie` a step of a worker is what it does under one lock of the trie, or
between two such steps while it holds a lock of the side map. Which rows the rules
derive is left open: any fact, any offered condition, any worker, any time. This
is more than the real rules do, so what holds here holds for them. In
`CondTrieSerial` the rows come one at a time. Facts are abstract; their key
columns matter only through the side map's shard.

### UnionCache

Memory is a history of writes for each location. A relaxed load may return any
write not older than the thread's view of the location; the fences and the Release
and Acquire orders move views as in the C++ model. All keys of the model share one
slot, because different slots share nothing.

### LsmMap

An item is one insert of one value, named by its number in the order of inserts.
A run is the set of its items, the number of
values in its header, its level and its path. An operation goes through its file
operations one at a time (`CreateRun`, `FinishRun`, `DeleteInput`, `PushRun`), and
between any two the process can die or another map can act. A write that fails inside
`flush` is an error that is returned, and what the flush had taken is gone
(`FlushError`); inside `insert` and `absorb` it is a panic. `len` goes on counting
what was lost, and `lost` remembers how much that is. One item counts one
unit of memory. Key order, the byte layout and lookups are left out. The header of a
run is one step, though its fields are copied one by one: `load_run` would take a
file left among the copies, with the missing fields 0.

### ImportStore

An artifact is its version, an IR file the version it was translated from, a hash
the version it was taken of, an index table the versions it was computed from. The
app is an APK with one native library, the longest sequence of writes an import
has. A command is a plan, the list of files it still has to write or read. A write
has two steps: the file is torn, then whole. `Crash` ends the command between any
two steps, `LibFails` is the failure of a library that import turns into a
warning, `Edit` replaces the app by another build, possibly an older one. Commands
run one at a time.

### PathAlg, PathRewrite

A path is a sequence of segments: fields, offsets, `deref`, `#value`, indices.
`path.rs` keeps paths in a normal form, `facts.rs` and the junction of
`prepend_onto` compute on interned ones, and `path_set.rs` concatenates by probing
a hash table of admissible suffixes. `PathRewrite` starts from any raw path and
applies one equation at one place per step; where no equation applies, the
implementations must agree with what is left. An offset is an integer modulo
`2^OffsetBits`, so that the wrap-around of 64 bits happens. `path.rs` wraps
explicitly; the plain sums of `facts.rs` and `path_set.rs` wrap in the release build,
which is the one modelled, and panic in a debug build.

### Codegen, IndexRules, TaintSearch, Semantics, Analysis

A program of `Analysis` is a few functions of one block with sources and sinks.
`Evaluate` computes what the reference semantics observes: every call instantiates
its callees again, to a depth; labels move along assignments forward, and backward
where a store put them. `FireRule` fires one rule on every match there is, so TLC
explores all orders of rules; `IndexAgain` starts over with the engine's own rounds
(`Iterate`), in which all rules see the same relations. A relation maps a row to
the condition it holds under, with the joins of `Decision`. The relations that only
restate others (indices, keys, splits) are definitions. Those by which the context
joins pair conditional summaries with the calls that establish their decisions are
relations: the sets of `Sets` and the rows of `Unfold` are derived in some round, and
stay when the summary's set has grown since. `Query` and `QueryStep` run
`GraphSearch` label by label over the graph that `TaintSearch` derives from either
of the two results. A node is a function, variable, path, level and scope; the annotation is
the bit that says whether a call was entered.

A program names the sinks for which the register of approximations
(`docs/limitations.md`) allows the index to add or to lose an observation, as the
`// parity:` lines of the corpus do; everywhere else `ReferenceParity` wants
equality.

### Dominators, Mem2Reg, Ssa

`Ssa` has one function and the pass it is in. The loops whose order matters are
actions: a step of the depth-first search (`Dfs`), a node of the semidominator
phase (`Semidom`), a block entered or left by renaming (`EnterBlock`,
`LeaveBlock`), a variable taken off the list of dead ones (`PopDead`), a sweep over
the phis (`SweepPhis`). The other passes are one action each (`Coalesce`,
`Promote`, `Prune`, `Complete`, `PlacePhis`, `BindParameters`, `GatherCopies`,
`RewriteCopies`). A function goes through `Pipeline::ssa_only`, its observable is
kept, and `Again` sends it through `Pipeline::index_default`, which is compared.
`Predecessors` has an entry for each edge, as the code's list does, so a phi has an
operand for each edge; `NameOperand` names the first of those from a block.

`Observed` is the least labeling of the function's statements, in the reference
semantics: labels of sources that reach sinks and returns, through the function
and through two callees, one that writes behind its argument and one that reads
there. The callees are instances with a formal of their own, which is what a
promoted slot has to be right for.

In `Mem2Reg` a slot is an offset of the frame base. `Promotable` are the slots that
become locals, `Escaped` those of them that an escaped address reaches (full
promotion), `Reloads` what is loaded again after a call, `Note` the escapes that the
reloads do not cover. Whether promotion is full is left open, since a model or the
size of the function decides it.

## 3. Runs

| Run | Instance | States | Shows |
|---|---|---|---|
| `interner` | 2 threads, 4 values, 2 shards of 2 | 13,646 | `OneIdPerValue`, `GetReadsInitialized`, `GetReturnsInterned`, `HeldIdsAreValid`, `ShardIntact`, `InternTerminates`, refinement |
| `union_cache` | 2 threads, 2 keys, 3 puts | 671,697 | `NeverTorn` |
| `condtrie` | 2 workers, 2 facts on one lock, bound 1, spilling | 290,297 | `HoldsLeast`, `CountsExact`, `DeltaIsNews`, `ChangedIffFound`, `InsertsReturn`, refinement |
| `condtrie_serial` | 2 facts, 3 decisions, bound 2, spilling | 50,536 | `DrainOrderFree`, refinement |
| `lsm` | 2 temporary maps, 4 items, fan-out 1, budget 1, 1 fault | 82,910 | `CountersExact`, `PeakBounded`, `OperationsReturn`, refinement |
| `lsm_disk` | 1 persistent map, 5 items, 2 faults | 145,843 | `FlushedIsDurable` |
| `import_store` | 3 versions, 2 rebuilds at any time, 1 crash | 369,162 | `CompleteIsWhole`, `StampIsWhole`, `UpToDateIsSound`, `SubsBelong`, `ImportRecovers` |
| `paths` | raw paths of 4 segments, others of 2, offsets of 2 bits | 9,855 | `NormalFormIsUnique`, `StripSolves`, `KeysAreMatches`, `ConcatsAgree` |
| `analysis` | corpus programs and families around them, 3 context joins | 33,813 | `EnginesAgree`, `ReferenceParity`, `QueryComplete`, `WitnessesConnect`, `PathsAdmissible`, `AnalysisEnds` |
| `ssa` | graphs of 4 blocks, lines, loops, frames, hard dominators | 367,108 | `UsesSeeReachingDefs`, `OneDominatingDef`, `FrontierSuffices`, `PassesKeepObservables` |

Two runs are expected to end in a violation. Each states what the documentation
says, and TLC shows a behaviour of the code that does otherwise:

- `analysis_doc`: in `f(cb, x) { y = cb(x); sink(y) }` the flow from `x` to the sink
  depends on a decision about `cb` and is made and used inside `f`. The reference
  observes it, the query does not, because the index hands it unconditional edges
  only; the register of approximations, which claims to be complete, has no such
  row.
- `ssa_doc`: phis are said to be placed in the iterated dominance frontier, where
  the variable is live. The tree stores the start node as its own immediate
  dominator, so the start node is never in its own frontier, and a function whose
  entry block is a loop header gets no phi for what the loop sets; the flow around
  the loop is lost. The JVM tooling expects such entry blocks. The functions of
  run `ssa` have no edge to the entry block.

The models show other disagreements that have no run of their own:

- Deferred immediate dominators are resolved in the order of node numbers. When
  the node that one is copied from is itself deferred, the copy is the default, the
  start node. `FrontierSuffices` shows what this costs: the frontier is then too
  large, never too small. There are superfluous phis, and no missing one.
- A spilling join is said to insert into the trie before it removes the leaf
  (`c_cond_trie.rs:24`). The code removes first. Nothing depends on it: during an
  iteration no reader looks at `new`, and `condtrie` shows the result right.
- Of an up-to-date import it is said that "a re-import would reproduce the same
  result" (`project.rs:552`). The check ignores the import's options (native
  libraries), and a rebuild between the translation and the hash is recorded as
  imported. `UpToDateIsSound` is about the same options and, by its premise `calm`,
  stores for which no rebuild came during a command.
- The three context joins are said to "compute the same rows"
  (`index_engine/mod.rs:2051`), in any iteration order. The rule for summaries between
  two globals takes a flow only while it is conditional (line 1858), so when the flow
  becomes unconditional the row is there or not as the conditional derivation came
  first or not. Orders and joins do differ in such rows, and in what callers derive
  from them. `EnginesAgree` shows the extent: only flows between globals that the
  global frame has in any case; and by `ReferenceParity` the answers do not differ.
- SSA form is said to give each version one definition that dominates its uses
  (`ssa/mod.rs`). In the textual IR a `goto` may name a block twice. Its phis then have
  two operands for one predecessor, and renaming leaves the second without a version
  (`ssa/mod.rs:807`). For a local this is the name of nothing. For a parameter it is the
  incoming value, also where the function has overwritten it: `UsesSeeReachingDefs`
  fails for `p = 0; goto b, b` when `b` is a loop that sets `p`. Some front ends drop
  repeated targets (the conditional branches of `ctadl-pcode`); `ctadl-flowy` and the
  block linking of `ctadl-c` do not look for them, and the verifier accepts them.
  Run `ssa` has such gotos, with functions that do not set a parameter.
- A promoted slot is flow sensitive, while the memory it replaces is not: a load
  before a store no longer sees it. The pass intends this; `PassesKeepObservables`
  requires equality only where the slot is written before it is read, and
  everywhere that promotion adds nothing.

### Bounds, and why they are enough

- Interner: two values of one shard race for one slot, a third finds it full, and
  the other shard makes the packing of ids matter. Two threads are a writer and a
  reader, or two writers; the invariant that the proofs use is about pairs.
- Union cache: three puts let a reader meet two others between its loads.
  `CacheAssumption` keeps the sequence number from wrapping within the run, as the
  code relies on fewer than 2^31 puts of a slot during one get. Below that the
  proofs hold for any number of puts.
- Conditional store: with bound 1 the second decision widens; two facts behind one
  lock make the workers wait on each other; iterations are not bounded, since
  conditions only grow.
- LSM: fan-out 1 makes every second flush a merge and the fourth a cascade, so
  four items fill three levels. With a budget of 1 and a least flush of 1, whether an
  insert flushes depends on what the other map has buffered, and four items are more
  than `PeakBounded` allows the buffers. One failed write, at any
  step, is enough for a map to go on, and to be absorbed, with a length that is off;
  on disk, five items and two faults let the recovery from a fault fail.
- Import store: one crash at any step, then any commands on what it left; three
  versions, two of which package the same library, let a library change or stay
  while the app changes, and two rebuilds let the app change back. The proofs
  hold for any number of either.
- Paths: four raw segments are the longest redex with a segment on each side;
  offsets of two bits wrap after two additions.
- Analysis: the programs come from the semantics corpus and the `.tnt` tests, with
  three families around them: all pairs of calls of small functions that pass values
  through parameters, results and a global; pairs of routes by which a
  function pointer reaches its call (all but those that start with a plain argument);
  and a flow between two globals under a decision, alone or with the same flow without
  one in the caller, which the longer way of the latter lets come second. There is one recursive program.
  `DepthBound` and `PathBound` are beyond what the others need. `WidenBound` is 2; one
  program offers a row two decisions, one three.
- Ssa: 1,470 control-flow graphs of four blocks (every choice of up to two targets
  for the last three, none of them the entry block), with unreachable blocks, loops
  of two entries and paths that never return; 84 more with gotos that name a block
  twice; lines and loops over a small set of
  statements; chains of six blocks with every set of edges that skip or go back,
  in which dominators are deferred twice; functions of the scope tests; frames of two
  slots with every sequence of three accesses. A window of two offsets has a slot
  on either side of its end.

Deadlock is checked in the runs of systems that go on: a finished fixpoint stutters
explicitly, and the others always accept another call, short of their named bounds.
`paths`, `analysis` and `ssa` are computations that end, and say so in their cfg.

### Fairness

- `interner`: weak fairness of each thread's steps inside `intern`, and strong
  fairness of taking the write lock: parking_lot's locks are eventually fair, they
  hand over to a waiter that has waited for long.
- `condtrie`: weak fairness of each worker's steps: rayon runs a task that it
  has started. The property assumes that the rules derive finitely many rows from
  frozen stores.
- `lsm`: weak fairness of the steps inside an operation, which never waits.
- `import_store`: weak fairness of a running command, and strong fairness of
  starting a plain import: the user tries again. Crashes and edits are bounded.
- `analysis`: weak fairness of the whole: a process that computes goes on.

## 4. Proofs

`InternerTheorems` proves, for any threads, values, shards, limits and arena sizes
that satisfy `InternerAssumption` and `ArenaAssumption` (the id width has room for
the limit, hashes select a shard): the invariant `IndInv`, from it all invariants
of the run `interner`, the action property `SlotsWriteOnce` (a slot is written once), and that `IdInterner`
implements `InternerSpec`.

`IndInv` was first checked with TLC on the instance of `interner`. None of the
invariants is inductive by itself. That a decoded slot is initialised depends on
what every view in the system may contain, also those stored with a lock or with a
published length. `IndInv` therefore has: the lock discipline (`LockInv`); what a
shard looks like outside and, by writer position, inside the critical section
(`ShardInv`, `WriterInv`); that each view which contains a length contains all
slots below it, and no more than was written (`ViewsInv`); and that each id held
or returned lies below a length that its holder can see (`IdsInv`). `InternerProofs`
has the arithmetic of packed ids, the soundness of `Find` and the steps of readers;
`InternerTheorems` has the writer's steps and the theorems.

`CondStoreProofs` proves, for any finite set of decisions and any bound that satisfy
`DecisionAssumption`, so for exact, bounded, spilling and collapsing sets alike: a
join of conditions is a condition, the join is commutative, idempotent and
associative, `covers` is a partial order (`CoversIsOrder`), and the join is the
least condition that covers both (`JoinIsLeast`). `LeastStep` says that joining one
more row to the least condition of a set of rows gives the least condition of the
larger set. The argument is a normal form for the union
(`UnionNorm`: the set union if the index can hold it, `Top` if not), and that a
subset of a set the index can hold is one too (`FitsMono`). From these laws it proves
what the two halves of a merge do to each fact, for any finite set of facts
(`FactAssumption`): `absorb` leaves the join of what two stores hold (`AbsorbHolds`),
`refine` drops what is covered and carries the join of the rest (`RefineHolds`). Both
leave each fact in one half and the two counts exact, although they decide by the
counts what they can skip.

`CondTrieProofs` proves the four invariants of the run `condtrie` for any facts,
decisions, kind of decision set, shards and finite set of threads that satisfy
`CondTrieAssumption`: each fact holds under the least upper bound of what was offered
(`HoldsTheLeast`), the counts are exact (`CountsAreExact`), delta carries news only
(`DeltaCarriesNews`), and the loop goes on exactly when something was found
(`FlagIsExact`). The run has spilling sets only; the theorems hold for exact, bounded
and collapsing ones too. None of the four is inductive, because they speak of moments
when no insert is under way. `IndInv` says how far `new` lags behind otherwise: its
counts by the threads on their way to them (`CountInv`), the reports of growth by
those that have not returned (`ReportInv`), and its rows by those that have not joined
theirs, or have taken a leaf out to spill it and not yet reached the trie
(`CoverInv`); a thread that holds a leaf holds the lock of its shard (`WorkerInv`).
What is in `new` was offered and is not known yet (`NewsInv`), and delta is strictly
above total (`MergedInv`). The merge, where no thread is in an insert, is then the two
theorems about `absorb` and `refine`.

`CondTrieRelProofs` proves, from the same assumptions, that `CondTrie` implements
`LatticeRel` (`StoresImplementRelation`): inserts are linearizable. A thread that has
decided its join at the trie check, or has taken a leaf out to spill it, hides what was
found of its fact. The lock makes it the only one (`FoundHolds`), so every step of an
insert shows nothing (`CountsShow`, `LeafShows`), is the join (`JoinShows`) or the
return (`ReturnShows`).

`GraphSearchProofs` proves, for any graph, starts and annotations: every state of the
search is the end of a walk from a start along edges whose labels allow its
annotation (`SearchFindsWalks`); a finished search is closed under successors
(`SearchIsComplete`); and it visits nothing that a closed set with the starts does
not have (`SearchIsLeast`). The invariant relates the queue, the node being expanded
and its remaining edges with the states: a state's successors are visited, or the
state is still in the queue, or the edge is still to come. `analysis` checks in
addition that the paths are shortest ones.

`UnionCacheProofs` proves, for any threads and keys and any number of puts that
`CacheAssumption` allows (the sequence number does not wrap), that a hit is never
torn (`CacheNeverTorn`). Torn hits are excluded by what the reader's views contain,
so the invariant is about histories and views. Put number i writes seq at places 2i
and 2i + 1 of its history, key and result at place i + 1 of theirs (`SeqInv`,
`DataInv`). What is written between the two carries a view of the claim, and the
release carries a view of what was written (`WriterInv`). A reader that took an even
seq therefore sees the data of that put or later ones, and if it saw later data its
fence gives it a view of a later seq, so that its second load differs (`ReaderInv`).

`ImportProofs` proves, for any versions, libraries and rebuilds, and any number of
rebuilds and crashes under `StoreAssumption`, the four invariants of the run
`import_store`: a complete import is whole (`ImportsAreWhole`), a stamp speaks of
whole tables (`StampsAreWhole`), an import that is skipped on path and hash is the
translation of the artifact's current bytes (`SkipsAreSound`), and recorded sub-imports
are those of the app (`SubImportsBelong`). The last two, and that the stamp's hashes
are those of the tables, have the premise `calm`: no rebuild ever came during a
command. None is inductive: whether a file may be trusted depends on
how far the command that wrote it came. `StoreInv` says that the plan is a rest of
one of three programs (`PlanInv`), and for each place in them what was read
(`ReadInv`, `LoadedInv`), what was written (`WrittenInv`), whether the config is
there and marked, or torn with its next content in memory (`ConfInv`), which
sub-imports are produced and recorded (`SubsInv`), and what the index's tables were
computed from (`TablesInv`). A crash keeps all of it, because it only forgets the
place.

`IndInv` of the cache, `IndInv` of the store and `StoreInv` were also first checked
with TLC, on the instances of `union_cache`, `condtrie` and `import_store`.

Only model-checked: `CondTrieSerial`, `LsmMap`, `PathAlg` and `PathRewrite`, the
analysis (`Analysis` and what it composes, but for `GraphSearch`) and the passes
(`Ssa`, `Mem2Reg`, `Dominators`), and all liveness properties. Liveness is outside what
the installed provers do, and so is induction over data, by which the paths, the
rules and the passes compute.

## 5. Not modelled

`PROJECT.json` lists every component with its reason. In short:

- Front ends, readers, models, bridges, reports: single-pass translations, parsers
  and rendering. They are most of the code's lines and have no state to explore, and
  what they compute is compared with nothing but itself.
- The byte layout of tries, runs and tables is abstracted; `DiskLsmMultiMap` is used
  by benches and tests only.
- Index rules for virtual dispatch (Java, Lua, CIL), string constants and intents,
  models and summary projects. They add sources of call targets, not a new kind of
  step.
- The passes' statistics, and the predecessor cache of a function's blocks, which
  every change of an edge clears.
- The options of an import, and two `ctadl` processes on one store at once, so that an
  import between the loading and the stamping of an index is left out. An artifact that is rebuilt during a
  command is excluded for `UpToDateIsSound`, `SubsBelong` and the part of
  `StampIsWhole` about hashes: the hash is taken after the translation, so they
  cannot hold then.

## 6. Plan

In this order:

1. `MergeKeys`: the k-way merge and lookups of the LSM map with key order.
2. Virtual dispatch in `IndexRules`: class hierarchies and receiver types.
3. Functions of several blocks in `Analysis`, by composing it with `Ssa`.
4. `StoreConcurrent`: two processes on one store, and a query during an import.
5. Proofs: that `and` is monotone, `LsmMap` (`ImplementsMultimap`, then
   `CountersExact`), `CondTrieSerial` (`SerialImplementsRel`).
