------------------------------- MODULE LsmMap -------------------------------
(***************************************************************************)
(* The memory-mapped LSM multimaps of src/lsm/src/mmap.rs: a write buffer, *)
(* levels of immutable runs, and a memory budget that all maps of the      *)
(* process share. A map's operations take it by &mut, so one runs at a     *)
(* time; the steps below are the places where the operation can fail, the  *)
(* process can die, or another map can work.                               *)
(*                                                                         *)
(* An Item is one insert of one value under one key, named by its place in *)
(* the order of inserts, so an item in two runs is a value that would be   *)
(* read twice. A run is the set of items it holds and the number of values *)
(* its header records (values_len).                                        *)
(***************************************************************************)
EXTENDS Integers, FiniteSets, FiniteSetsExt

CONSTANTS
    Map,
    MaxItems,     \* bound: how many values are inserted
    Persistent,   \* the maps made by open, which keep their runs in files
    Limit,        \* memtable_limit
    Fanout,       \* level_fanout
    MinFlush,     \* MIN_BUDGET_FLUSH_BYTES
    Budget,       \* MEMORY_BUDGET
    MaxFaults     \* bound: how many writes fail or processes die

ASSUME LsmAssumption ==
    /\ IsFiniteSet(Map) /\ MaxItems \in Nat /\ Persistent \subseteq Map
    /\ Limit \in Nat \ {0} /\ Fanout \in Nat \ {0}
    /\ MinFlush \in Nat \ {0} /\ Budget \in Nat /\ MaxFaults \in Nat

Item == 1..MaxItems

VARIABLES
    mem,        \* memtable: the items of each map's write buffer
    memLen,     \* memtable_len
    len,        \* len
    memory,     \* memory: the map's share of inUse
    inUse,      \* MEMORY_IN_USE
    peak,       \* MEMORY_PEAK
    runs,       \* levels: the runs of each map, each with its level
    next,       \* next_run_id of each persistent map
    io,         \* the run a map is writing, if any
    job,        \* the absorb a map is in, if any
    up,         \* whether the map is open
    files,      \* the run files of the persistent maps' directories
    inserted,   \* history: how many items were inserted so far
    failed,     \* history: persistent maps whose flush failed since they were opened
    lost,       \* history: the values that failed flushes had taken, which len counts
    faults      \* history: faults so far

maps == <<mem, memLen, len, memory, inUse, peak, runs, io, job>>
disk == <<next, files>>
hist == <<up, inserted, failed, lost, faults>>
vars == <<maps, disk, hist>>

NoIO == [pc |-> "none"]
NoJob == [phase |-> "none"]
NoPath == <<>>

Items(rs) == UNION {r.items : r \in rs}
Values(rs) == MapThenSumSet(LAMBDA r : r.count, rs)
Level(m, l) == {r \in runs[m] : r.level = l}
Run(path, l, is, n) == [path |-> path, level |-> l, items |-> is, count |-> n]
File(r, done) == [run |-> r, done |-> done]
InDir(m) == {f \in files : f.run.path[1] = m}

\* No operation is under way on the map.
Ready(m) ==
    /\ up[m] /\ io[m] = NoIO /\ job[m] = NoJob
    /\ \A n \in Map : job[n] # NoJob => job[n].other # m

All(v) == [m \in Map |-> v]
JustOpen == [m \in Map |-> m \notin Persistent]

Init ==
    /\ mem = All({}) /\ memLen = All(0) /\ len = All(0)
    /\ memory = All(0) /\ inUse = 0 /\ peak = 0
    /\ runs = All({}) /\ io = All(NoIO) /\ job = All(NoJob)
    /\ up = JustOpen
    /\ next = All(0) /\ files = {}
    /\ inserted = 0 /\ failed = {} /\ lost = All(0) /\ faults = 0

-----------------------------------------------------------------------------
(* Writing a run. *)

\* What writing out items as a run of level l is about to do.
Writing(l, is, n, inputs, caller) ==
    [pc |-> "create", level |-> l, items |-> is, count |-> n,
     inputs |-> inputs, caller |-> caller, run |-> {}]

\* Map m has n values buffered, the items is, all charged to its memory, and
\* the process holds total: flush takes the buffer and discharges it.
Flushing(m, is, n, total, caller) ==
    /\ mem' = [mem EXCEPT ![m] = {}]
    /\ memLen' = [memLen EXCEPT ![m] = 0]
    /\ memory' = [memory EXCEPT ![m] = 0]
    /\ inUse' = total - n
    /\ io' = [io EXCEPT ![m] = Writing(0, is, n, {}, caller)]

\* Mutant: no map keeps to the budget.
OverBudgetNever(n, total) == n < 0

OverBudget(n, total) == n >= MinFlush /\ total > Budget

\* insert: buffer the item, count its memory, and write the buffer out if it
\* is full, or if it is worth a run and the process is over its budget.
Put(m, i) ==
    LET n == memLen[m] + 1
        total == inUse + (n - memory[m])
    IN  /\ len' = [len EXCEPT ![m] = @ + 1]
        /\ peak' = IF total > peak THEN total ELSE peak
        /\ \/ /\ n >= Limit \/ OverBudget(n, total)
              /\ Flushing(m, mem[m] \cup {i}, n, total, "expect")
           \/ /\ n < Limit /\ ~OverBudget(n, total)
              /\ mem' = [mem EXCEPT ![m] = @ \cup {i}]
              /\ memLen' = [memLen EXCEPT ![m] = n]
              /\ memory' = [memory EXCEPT ![m] = n]
              /\ inUse' = total
              /\ UNCHANGED io

Insert(m) ==
    /\ Ready(m) /\ inserted < MaxItems
    /\ inserted' = inserted + 1
    /\ Put(m, inserted')
    /\ UNCHANGED <<runs, job, disk, up, failed, lost, faults>>

Flush(m) ==
    /\ Ready(m) /\ memLen[m] > 0
    /\ Flushing(m, mem[m], memLen[m], inUse, "flush")
    /\ UNCHANGED <<len, peak, runs, job, disk, hist>>

\* new_run_writer and RunWriter::create: a file with no header yet, over
\* whatever file had its name. A temporary run's file is unlinked before any
\* reader could look for it, so files leaves it out.
CreateRun(m) ==
    LET w == io[m]
        p == IF m \in Persistent THEN <<m, w.level, next[m]>> ELSE NoPath
        r == Run(p, w.level, w.items, w.count)
    IN  /\ w.pc = "create"
        /\ io' = [io EXCEPT ![m].pc = "write", ![m].run = r]
        /\ IF m \in Persistent
           THEN /\ next' = [next EXCEPT ![m] = @ + 1]
                /\ files' = {f \in files : f.run.path # p} \cup {File(r, FALSE)}
           ELSE UNCHANGED disk
        /\ UNCHANGED <<mem, memLen, len, memory, inUse, peak, runs, job, hist>>

\* The file of run r gets its header.
WithHeader(r) == (files \ {File(r, FALSE)}) \cup {File(r, TRUE)}

\* Mutant: a persistent map's run is unlinked like a temporary one.
FinishRunUnlinks(m) ==
    /\ io[m].pc = "write"
    /\ io' = [io EXCEPT ![m].pc = "delete"]
    /\ files' = files \ {File(io[m].run, FALSE)}
    /\ UNCHANGED <<mem, memLen, len, memory, inUse, peak, runs, job, next, hist>>

\* start_key, append_values and RunWriter::finish: the entries and the header. Its
\* fields are copied one by one, here in one step: a process killed among the copies,
\* whose file load_run takes with the missing fields 0, is not modelled.
FinishRun(m) ==
    /\ io[m].pc = "write"
    /\ io' = [io EXCEPT ![m].pc = "delete"]
    /\ files' = IF m \in Persistent THEN WithHeader(io[m].run) ELSE files
    /\ UNCHANGED <<mem, memLen, len, memory, inUse, peak, runs, job, next, hist>>

\* merge_runs deletes the runs it merged, clear all the runs of the map, one
\* after the other.
DeleteInput(m) ==
    /\ io[m].pc \in {"delete", "clear"}
    /\ \E r \in io[m].inputs :
        /\ io' = [io EXCEPT ![m].inputs = @ \ {r}]
        /\ files' = {f \in files : f.run.path # r.path}
    /\ UNCHANGED <<mem, memLen, len, memory, inUse, peak, runs, job, next, hist>>

\* Mutant: the merge leaves out the run that overflowed the level.
PushRunDrops(m) ==
    LET w == io[m]
        level == Level(m, w.level)
    IN  /\ w.pc = "delete" /\ w.inputs = {}
        /\ \/ /\ Cardinality(level) < Fanout
              /\ runs' = [runs EXCEPT ![m] = @ \cup {w.run}]
              /\ io' = [io EXCEPT ![m] = NoIO]
           \/ /\ Cardinality(level) >= Fanout
              /\ runs' = [runs EXCEPT ![m] = @ \ level]
              /\ io' = [io EXCEPT ![m] = Writing(w.level + 1, Items(level),
                                                 Values(level), level, w.caller)]
        /\ UNCHANGED <<mem, memLen, len, memory, inUse, peak, job, disk, hist>>

\* push_disk_run: the run joins its level, and a level over the fan-out is
\* taken and merged into a run of the next level.
PushRun(m) ==
    LET w == io[m]
        level == Level(m, w.level) \cup {w.run}
    IN  /\ w.pc = "delete" /\ w.inputs = {}
        /\ \/ /\ Cardinality(level) <= Fanout
              /\ runs' = [runs EXCEPT ![m] = @ \cup {w.run}]
              /\ io' = [io EXCEPT ![m] = NoIO]
           \/ /\ Cardinality(level) > Fanout
              /\ runs' = [runs EXCEPT ![m] = @ \ level]
              /\ io' = [io EXCEPT ![m] = Writing(w.level + 1, Items(level),
                                                 Values(level), level, w.caller)]
        /\ UNCHANGED <<mem, memLen, len, memory, inUse, peak, job, disk, hist>>

\* clear: the buffer and the levels are taken, then the files deleted.
Clear(m) ==
    /\ Ready(m)
    /\ mem' = [mem EXCEPT ![m] = {}]
    /\ runs' = [runs EXCEPT ![m] = {}]
    /\ io' = [io EXCEPT ![m] = [Writing(0, {}, 0, runs[m], "expect") EXCEPT !.pc = "clear"]]
    /\ UNCHANGED <<memLen, len, memory, inUse, peak, job, disk, hist>>

ClearDone(m) ==
    /\ io[m].pc = "clear" /\ io[m].inputs = {}
    /\ io' = [io EXCEPT ![m] = NoIO]
    /\ memLen' = [memLen EXCEPT ![m] = 0]
    /\ len' = [len EXCEPT ![m] = 0]
    /\ memory' = [memory EXCEPT ![m] = 0]
    /\ inUse' = inUse - memory[m]
    /\ lost' = [lost EXCEPT ![m] = 0]
    /\ UNCHANGED <<mem, peak, runs, job, disk, up, inserted, failed, faults>>

-----------------------------------------------------------------------------
(* absorb: move every entry of map o into map m. *)

Absorb(m, o) ==
    /\ m # o /\ Ready(m) /\ Ready(o)
    /\ job' = [job EXCEPT ![m] = [phase |-> "take", other |-> o, items |-> {}, runs |-> {}]]
    /\ \/ /\ memLen[o] >= Limit \div 4 /\ memLen[o] > 0
          /\ Flushing(o, mem[o], memLen[o], inUse, "expect")
       \/ /\ memLen[o] < Limit \div 4 \/ memLen[o] = 0
          /\ UNCHANGED <<mem, memLen, memory, inUse, io>>
    /\ UNCHANGED <<len, peak, runs, disk, hist>>

\* Mutant: memtable_len is not 0 while the memory is counted.
AbsorbTakeCharged(m) ==
    LET o == job[m].other
    IN  /\ job[m].phase = "take" /\ io[o] = NoIO
        /\ job' = [job EXCEPT ![m].phase = "insert", ![m].items = mem[o]]
        /\ mem' = [mem EXCEPT ![o] = {}]
        /\ UNCHANGED <<memLen, len, memory, inUse, peak, runs, io, disk, hist>>

\* The other map's buffer is taken and its memory discharged; memtable_len is
\* set to 0 for that and put back, for len still counts those values.
AbsorbTake(m) ==
    LET o == job[m].other
    IN  /\ job[m].phase = "take" /\ io[o] = NoIO
        /\ job' = [job EXCEPT ![m].phase = "insert", ![m].items = mem[o]]
        /\ mem' = [mem EXCEPT ![o] = {}]
        /\ memory' = [memory EXCEPT ![o] = 0]
        /\ inUse' = inUse - memory[o]
        /\ UNCHANGED <<memLen, len, peak, runs, io, disk, hist>>

AbsorbInsert(m) ==
    /\ job[m].phase = "insert" /\ io[m] = NoIO
    /\ \E i \in job[m].items :
        /\ Put(m, i)
        /\ job' = [job EXCEPT ![m].items = @ \ {i}]
    /\ UNCHANGED <<runs, disk, hist>>

\* The rest of the other map's values are counted, and its levels taken.
AbsorbLevels(m) ==
    LET o == job[m].other
    IN  /\ job[m].phase = "insert" /\ job[m].items = {} /\ io[m] = NoIO
        /\ job' = [job EXCEPT ![m].phase = "push", ![m].runs = runs[o]]
        /\ len' = [len EXCEPT ![m] = @ + (len[o] - memLen[o])]
        /\ lost' = [lost EXCEPT ![m] = @ + lost[o], ![o] = 0]
        /\ runs' = [runs EXCEPT ![o] = {}]
        /\ UNCHANGED <<mem, memLen, memory, inUse, peak, io, disk, up, inserted, failed, faults>>

\* Mutant: a pushed run is not taken off the list.
AbsorbRunAgain(m) ==
    /\ job[m].phase = "push" /\ io[m] = NoIO
    /\ \E r \in job[m].runs :
        /\ \A s \in job[m].runs : r.level <= s.level
        /\ io' = [io EXCEPT ![m] = [Writing(r.level, r.items, r.count, {}, "expect")
                                    EXCEPT !.pc = "delete", !.run = r]]
    /\ UNCHANGED <<mem, memLen, len, memory, inUse, peak, runs, job, disk, hist>>

\* The runs are pushed level by level, each as it is.
AbsorbRun(m) ==
    /\ job[m].phase = "push" /\ io[m] = NoIO
    /\ \E r \in job[m].runs :
        /\ \A s \in job[m].runs : r.level <= s.level
        /\ job' = [job EXCEPT ![m].runs = @ \ {r}]
        /\ io' = [io EXCEPT ![m] = [Writing(r.level, r.items, r.count, {}, "expect")
                                    EXCEPT !.pc = "delete", !.run = r]]
    /\ UNCHANGED <<mem, memLen, len, memory, inUse, peak, runs, disk, hist>>

\* The other map is empty now; this one keeps to the budget.
AbsorbDone(m) ==
    LET o == job[m].other
    IN  /\ job[m].phase = "push" /\ job[m].runs = {} /\ io[m] = NoIO
        /\ job' = [job EXCEPT ![m] = NoJob]
        /\ len' = [len EXCEPT ![o] = 0]
        /\ \/ /\ OverBudget(memory[m], inUse)
              /\ mem' = [mem EXCEPT ![m] = {}]
              /\ memLen' = [memLen EXCEPT ![m] = 0, ![o] = 0]
              /\ memory' = [memory EXCEPT ![m] = 0]
              /\ inUse' = inUse - memory[m]
              /\ io' = [io EXCEPT ![m] = Writing(0, mem[m], memLen[m], {}, "expect")]
           \/ /\ ~OverBudget(memory[m], inUse)
              /\ memLen' = [memLen EXCEPT ![o] = 0]
              /\ UNCHANGED <<mem, memory, inUse, io>>
        /\ UNCHANGED <<peak, runs, disk, hist>>

-----------------------------------------------------------------------------
(* Faults, and what a later process finds. *)

\* The process dies; only the run files outlive it. A failed write does the
\* same where its caller expects it to succeed.
Die ==
    /\ mem' = All({}) /\ memLen' = All(0) /\ len' = All(0)
    /\ memory' = All(0) /\ inUse' = 0 /\ peak' = 0
    /\ runs' = All({}) /\ io' = All(NoIO) /\ job' = All(NoJob)
    /\ up' = JustOpen /\ failed' = {} /\ lost' = All(0)
    /\ faults' = faults + 1
    /\ UNCHANGED <<disk, inserted>>

Crash ==
    /\ faults < MaxFaults
    /\ Die

\* flush returns the error of the write: what it had taken out of the map (the
\* buffer, or a level with the run that overflowed it) is no longer in it, and
\* len goes on counting it.
FlushError(m) ==
    /\ io[m].caller = "flush"
    /\ io' = [io EXCEPT ![m] = NoIO]
    /\ failed' = failed \cup ({m} \cap Persistent)
    /\ lost' = [lost EXCEPT ![m] = @ + io[m].count]
    /\ faults' = faults + 1
    /\ UNCHANGED <<mem, memLen, len, memory, inUse, peak, runs, job, up, inserted>>

\* RunWriter::create fails, before or after the file is there.
CreateFails(m) ==
    /\ io[m].pc = "create" /\ faults < MaxFaults
    /\ \/ io[m].caller = "expect" /\ Die
       \/ /\ FlushError(m)
          /\ next' = [next EXCEPT ![m] = IF m \in Persistent THEN @ + 1 ELSE @]
          /\ LET p == <<m, io[m].level, next[m]>>
                 r == Run(p, io[m].level, io[m].items, io[m].count)
             IN  files' \in {files} \cup (IF m \in Persistent
                                          THEN {files \cup {File(r, FALSE)}} ELSE {})

\* RunWriter::finish fails once the header is written.
FinishFails(m) ==
    /\ io[m].pc = "write" /\ faults < MaxFaults
    /\ \/ io[m].caller = "expect" /\ Die
       \/ /\ FlushError(m)
          /\ files' = IF m \in Persistent THEN WithHeader(io[m].run) ELSE files
          /\ UNCHANGED next

\* A persistent map is dropped; what it had buffered is gone.
Close(m) ==
    /\ m \in Persistent /\ Ready(m)
    /\ up' = [up EXCEPT ![m] = FALSE]
    /\ mem' = [mem EXCEPT ![m] = {}]
    /\ memLen' = [memLen EXCEPT ![m] = 0]
    /\ len' = [len EXCEPT ![m] = 0]
    /\ memory' = [memory EXCEPT ![m] = 0]
    /\ inUse' = inUse - memory[m]
    /\ runs' = [runs EXCEPT ![m] = {}]
    /\ lost' = [lost EXCEPT ![m] = 0]
    /\ UNCHANGED <<peak, io, job, disk, inserted, failed, faults>>

\* open_with_level_fanout: every run file of the directory, if each has its
\* header; the next id is past every one of theirs.
Open(m) ==
    LET found == {f.run : f \in InDir(m)}
    IN  /\ m \in Persistent /\ ~up[m]
        /\ \A f \in InDir(m) : f.done
        /\ up' = [up EXCEPT ![m] = TRUE]
        /\ runs' = [runs EXCEPT ![m] = found]
        /\ len' = [len EXCEPT ![m] = Values(found)]
        /\ next' = [next EXCEPT ![m] = Max({0} \cup {r.path[3] + 1 : r \in found})]
        /\ failed' = failed \ {m}
        /\ UNCHANGED <<mem, memLen, memory, inUse, peak, io, job, files, inserted, lost, faults>>

\* A run file without its header, left by a writer that died or failed, makes
\* load_run and with it open return an error, now and on every later try.
OpenFails(m) ==
    /\ m \in Persistent /\ ~up[m]
    /\ \E f \in InDir(m) : ~f.done
    /\ UNCHANGED vars

Step(m) ==
    \/ CreateRun(m) \/ FinishRun(m) \/ DeleteInput(m) \/ PushRun(m) \/ ClearDone(m)
    \/ AbsorbTake(m) \/ AbsorbInsert(m) \/ AbsorbLevels(m) \/ AbsorbRun(m) \/ AbsorbDone(m)

Call(m) ==
    \/ Insert(m)
    \/ \E o \in Map : Absorb(m, o)
    \/ Flush(m) \/ Clear(m) \/ Close(m) \/ Open(m) \/ OpenFails(m)

Fault ==
    \/ Crash
    \/ \E m \in Map : CreateFails(m) \/ FinishFails(m)

Next == Fault \/ \E m \in Map : Step(m) \/ Call(m)

Spec == Init /\ [][Next]_vars

\* Nothing in the code waits, so an operation once started is carried through.
FairSpec == Spec /\ \A m \in Map : WF_vars(Step(m))

-----------------------------------------------------------------------------
(* Properties. *)

\* Between operations len is the number of values a scan of the buffer and the
\* runs would yield, whatever was flushed, merged, absorbed, cleared or found on
\* disk, and on top of it exactly the values that failed flushes lost, also after
\* the map was absorbed. The bytes counted against the budget are those the buffers
\* hold, after a failed flush too, and while absorb has one map's buffer in its
\* hands and is filling the other's.
CountersExact ==
    /\ \A m \in Map : Ready(m) =>
        /\ memLen[m] = Cardinality(mem[m])
        /\ len[m] = memLen[m] + Values(runs[m]) + lost[m]
        /\ memory[m] = memLen[m]
    /\ inUse = MapThenSumSet(LAMBDA m : memory[m], Map)

\* The buffers together never held more than the budget and, for each map, what
\* it may hold before the budget makes it flush: the bound that the test
\* budget_bounds_the_write_buffers asserts of memory_peak.
PeakBounded == peak <= Budget + Cardinality(Map) * MinFlush

\* Once a flush has returned, the values of the map are in finished files of
\* its directory: a process that dies now finds them all when it reopens it.
FlushedIsDurable ==
    \A m \in Persistent : Ready(m) /\ m \notin failed /\ mem[m] = {} =>
        /\ \A f \in InDir(m) : f.done
        /\ Items(runs[m]) \subseteq Items({f.run : f \in InDir(m)})

\* An operation that has started returns: a cascade of merges comes to an end,
\* and absorb has moved everything.
OperationsReturn == \A m \in Map : (up[m] /\ ~Ready(m)) ~> (Ready(m) \/ ~up[m])

\* What map m holds in its own buffer, in its runs and in the run it writes.
Own(m) == mem[m] \cup Items(runs[m]) \cup (IF io[m] = NoIO THEN {} ELSE io[m].items)

\* The values of a map being absorbed belong to the map that absorbs it.
Contents(m) ==
    IF \E n \in Map : job[n] # NoJob /\ job[n].other = m THEN {}
    ELSE Own(m) \cup IF job[m] = NoJob THEN {}
                     ELSE job[m].items \cup Items(job[m].runs) \cup Own(job[m].other)

Promise == INSTANCE Multimap WITH
    contents <- [m \in Map |-> Contents(m)], inserted <- 1..inserted

\* Temporary maps implement the abstract multimaps: an insert adds one value, an
\* absorb moves all of the other map's, the flushes and merges under them are
\* invisible, and a write that fails takes values of its own map only, or the
\* process with it.
ImplementsMultimap == Promise!Spec
=============================================================================
