-------------------------------- MODULE Ssa --------------------------------
(***************************************************************************)
(* The passes between an import and its facts, on one function: ctadl-ir's *)
(* ssa. dead_temps and coalesce clean up, mem2reg promotes stack slots,    *)
(* transform prunes, gives the function one exit, places phis and renames, *)
(* copy_prop cleans up again. As in frontends/ctadl-flowy/tests/passes.rs, *)
(* a function goes through Pipeline::ssa_only and then, from the start     *)
(* again, through Pipeline::index_default.                                 *)
(***************************************************************************)
EXTENDS Dominators, Mem2Reg

CONSTANT Functions \* the functions that go through the pipelines

VARIABLES
    source, \* the function as it was imported
    pass,   \* what runs next
    full,   \* whether the pipeline is index_default
    dead,   \* dead_temps: use counts, definitions found dead, and the worklist of them
    ren,    \* SsaRename: version stacks, counters, and the walk of the tree
    alias,  \* copy_prop: what each name was found equal to, and whether a sweep found one
    promo,  \* mem2reg: the slots promoted, and the escapes its note names
    plain,  \* the function that transform renamed, before it had phis
    base    \* the observable a pass is compared with: after ssa_only, and before copy_prop
vars == <<fn, dfs, lt, source, pass, full, dead, promo, ren, alias, plain, base>>

\* ------------------------------------------------------------------ dead_temps

Reads(f) ==
    UNION {{<<x, k, SrcVars(Stmt(f, x))[k]>> : k \in DOMAIN SrcVars(Stmt(f, x))} : x \in Sites(f)}
    \cup UNION {{<<<<b, 0>>, k, BaseVars(f.blocks[b].args)[k]>> : k \in DOMAIN BaseVars(f.blocks[b].args)} :
                  b \in DOMAIN f.blocks}
Uses(f, v) == Cardinality({r \in Reads(f) : r[3] = v})
Defs(f, v) == Cardinality(UNION {{<<x, k>> : k \in {j \in DOMAIN DstVars(Stmt(f, x)) : DstVars(Stmt(f, x))[j] = v}} :
                                   x \in Sites(f)})

IsLocal(v) == v[1] = "local" /\ ~Versioned(v)
Removable(s) == s.op = "assign" /\ s.dst[2] = <<>> /\ IsLocal(s.dst[1])
DefSites(v) == {x \in Sites(fn) : Removable(Stmt(fn, x)) /\ Stmt(fn, x).dst[1] = v}

Without(stmts, gone) == LET kept == SelectSeq([i \in DOMAIN stmts |-> i], LAMBDA i : i \notin gone)
                        IN  [i \in DOMAIN kept |-> stmts[kept[i]]]

SeedDead ==
    /\ pass = "dead_temps"
    /\ LET vars_ == {r[3] : r \in Reads(fn)} \cup {Stmt(fn, x).dst[1] : x \in {y \in Sites(fn) : Removable(Stmt(fn, y))}}
           unread == UNION {DefSites(v) : v \in {u \in vars_ : Uses(fn, u) = 0}}
       IN  dead' = [uses |-> [v \in vars_ |-> Uses(fn, v)], found |-> unread, work |-> unread]
    /\ pass' = "dead_work"
    /\ UNCHANGED <<fn, dfs, lt, source, full, promo, ren, alias, plain, base>>

\* A dead definition reads its sources no more.
PopDead ==
    /\ pass = "dead_work"
    /\ \E x \in dead.work :
         LET read == SrcVars(Stmt(fn, x))
             left == [v \in DOMAIN dead.uses |-> dead.uses[v] - Cardinality({k \in DOMAIN read : read[k] = v})]
             new  == UNION {DefSites(v) : v \in {u \in Range(read) : left[u] = 0}} \ dead.found
         IN  dead' = [uses |-> left, found |-> dead.found \cup new, work |-> (dead.work \ {x}) \cup new]
    /\ UNCHANGED <<fn, dfs, lt, source, pass, full, promo, ren, alias, plain, base>>

SweepDead ==
    /\ pass = "dead_work" /\ dead.work = {}
    /\ fn' = [fn EXCEPT !.blocks = [b \in Blocks |->
                [@[b] EXCEPT !.stmts = Without(@, {x[2] : x \in {y \in dead.found : y[1] = b}})]]]
    /\ pass' = "coalesce"
    /\ UNCHANGED <<dfs, lt, source, full, dead, promo, ren, alias, plain, base>>

\* -------------------------------------------------------------------- coalesce

\* A pending definition is [var, pos, src]; at most one of a variable.
Pending(st, v) == {p \in st.pending : p.var = v}
PlainVar(e) == e[1] = "path" /\ e[3] = <<>>

\* try_subst_exp: what a whole-variable read becomes, if it is fused.
Subst(st, e, inAssign) ==
    {IF e[1] = "value" THEN ValueOf(p.src[1][2], p.src[1][3]) ELSE p.src[1] :
        p \in {q \in IF IsPath(e) /\ e[3] = <<>> THEN Pending(st, e[2]) ELSE {} :
                 /\ Len(q.src) = 1
                 /\ IF e[1] = "value" THEN q.src[1][1] = "value" \/ PlainVar(q.src[1])
                    ELSE q.src[1][1] # "value" \/ inAssign}}
SubstExps(st, exps, inAssign) ==
    [i \in DOMAIN exps |-> LET new == Subst(st, exps[i], inAssign)
                           IN  IF new = {} THEN exps[i] ELSE CHOOSE e \in new : TRUE]

\* try_subst_address: the callee of an indirect call keeps its path.
SubstCallee(st, style) ==
    LET new == {p.src[1][2] : p \in {q \in Pending(st, style[2]) : Len(q.src) = 1 /\ PlainVar(q.src[1])}}
    IN  IF style[1] # "ptr" \/ new = {} THEN style ELSE [style EXCEPT ![2] = CHOOSE v \in new : TRUE]

Fused(st, s) ==
    CASE s.op = "call" -> [s EXCEPT !.args = SubstExps(st, @, FALSE), !.style = SubstCallee(st, @)]
      [] IsStore(s)    -> [s EXCEPT !.src = SubstExps(st, @, FALSE)]
      [] OTHER         -> IF Len(s.src) = 1 /\ PlainVar(s.src[1]) /\ Pending(st, s.src[1][2]) # {}
                          THEN [s EXCEPT !.src = (CHOOSE p \in Pending(st, s.src[1][2]) : TRUE).src]
                          ELSE [s EXCEPT !.src = SubstExps(st, @, TRUE)]

Consumed(st, before, after) == {p \in st.pending : p.var \in Range(before) \ Range(after)}

\* What a statement may write: a call, also what it reads.
Written(s) == Range(DstVars(s)) \cup IF s.op = "call" THEN Range(SrcVars(s)) ELSE {}

\* The definition a statement leaves to be fused, if it has one definition and one
\* use and reads no memory.
Defers(f, s, i) ==
    {[var |-> s.dst[1], pos |-> i, src |-> s.src] :
        x \in {y \in {s} : /\ y.op = "assign" /\ ~IsStore(y) /\ IsLocal(y.dst[1]) /\ y.src # <<>>
                           /\ Defs(f, y.dst[1]) = 1 /\ Uses(f, y.dst[1]) = 1
                           /\ \A k \in DOMAIN y.src : IsPath(y.src[k]) =>
                                 /\ \A j \in DOMAIN y.src[k][3] : IsOffset(y.src[k][3][j])
                                 /\ y.src[k][2] # y.dst[1]}}

\* A mutant of CoalesceStatement that keeps a definition when a source of it is written.
CoalesceStatementKeeps(f, st, i) ==
    LET s == Fused(st, st.stmts[i])
        used == Consumed(st, SrcVars(st.stmts[i]), SrcVars(s))
    IN  [stmts   |-> [st.stmts EXCEPT ![i] = s],
         pending |-> (st.pending \ used) \cup Defers(f, s, i),
         gone    |-> st.gone \cup {p.pos : p \in used}]

CoalesceStatement(f, st, i) ==
    LET s    == Fused(st, st.stmts[i])
        used == Consumed(st, SrcVars(st.stmts[i]), SrcVars(s))
    IN  [stmts   |-> [st.stmts EXCEPT ![i] = s],
         pending |-> {p \in st.pending \ used : Range(BaseVars(p.src)) \cap Written(s) = {}} \cup Defers(f, s, i),
         gone    |-> st.gone \cup {p.pos : p \in used}]

CoalesceBlock(f, block) ==
    LET st   == Loop(LAMBDA acc, i : CoalesceStatement(f, acc, i),
                         [stmts |-> block.stmts, pending |-> {}, gone |-> {}],
                         [i \in DOMAIN block.stmts |-> i])
        args == SubstExps(st, block.args, FALSE)
        used == Consumed(st, BaseVars(block.args), BaseVars(args))
    IN  [block EXCEPT !.stmts = Without(st.stmts, st.gone \cup {p.pos : p \in used}), !.args = args]

Coalesce ==
    /\ pass = "coalesce"
    /\ fn' = [fn EXCEPT !.blocks = [b \in Blocks |-> CoalesceBlock(fn, @[b])]]
    /\ pass' = "mem2reg"
    /\ UNCHANGED <<dfs, lt, source, full, dead, promo, ren, alias, plain, base>>

\* --------------------------------------------------------------------- mem2reg

Promote ==
    /\ pass = "mem2reg"
    /\ \E all \in BOOLEAN :
         /\ fn' = PromoteFunction(fn, all)
         /\ promo' = [slots |-> Promotable(fn, all), note |-> Note(fn, all)]
    /\ pass' = "reach" /\ dfs' = DfsStart
    /\ UNCHANGED <<lt, source, full, dead, ren, alias, plain, base>>

\* ------------------------------------------------------------------- transform

\* prune_unreachable_nodes: the blocks that were reached, in the order they were.
Prune ==
    /\ pass = "reach" /\ dfs.stack = <<>>
    /\ LET new(b) == (CHOOSE i \in DOMAIN dfs.order : dfs.order[i] = b) - 1
           kept   == [i \in 0..Len(dfs.order) - 1 |->
                        LET block == fn.blocks[dfs.order[i + 1]]
                        IN  [block EXCEPT !.targets = [k \in DOMAIN @ |-> new(@[k])]]]
       IN  fn' = IF Len(dfs.order) = Cardinality(Blocks) THEN fn ELSE [fn EXCEPT !.blocks = kept]
    /\ pass' = "complete"
    /\ UNCHANGED <<dfs, lt, source, full, dead, promo, ren, alias, plain, base>>

\* complete: every return sets the _$ret, fresh locals, and goes to the one exit, as
\* the start does.
Ret(i) == <<"_$ret", i>>
Complete ==
    /\ pass = "complete"
    /\ LET exit == Cardinality(Blocks)
           assigns(args) == [i \in 1..Min({fn.arity, Len(args)}) |-> Assign(Ret(i), <<>>, <<args[i]>>)]
           single(b) == IF b.targets # <<>> THEN b
                        ELSE [stmts |-> b.stmts \o assigns(b.args), targets |-> <<exit>>, args |-> <<>>]
           wired(b, n) == IF n = START /\ exit \notin Range(b.targets) THEN [b EXCEPT !.targets = Append(@, exit)] ELSE b
       IN  fn' = [fn EXCEPT !.blocks =
                    [n \in Blocks |-> wired(single(@[n]), n)]
                    @@ (exit :> [stmts |-> <<>>, targets |-> <<>>,
                                 args |-> [i \in 1..fn.arity |-> Path(Ret(i), <<>>)]])]
    /\ plain' = fn'
    /\ pass' = "dfs" /\ dfs' = DfsStart
    /\ UNCHANGED <<lt, source, full, dead, promo, ren, alias, base>>

\* DominatorTree::new asserts that the search reached every block.
Dfs ==
    /\ pass \in {"reach", "dfs"}
    /\ DfsPop
    /\ UNCHANGED <<fn, lt, source, pass, full, dead, promo, ren, alias, plain, base>>

StartDominators ==
    /\ pass = "dfs" /\ dfs.stack = <<>>
    /\ pass' = IF Len(dfs.order) = Cardinality(Blocks) THEN "semidom" ELSE "panic"
    /\ lt' = DomImplNew
    /\ UNCHANGED <<fn, dfs, source, full, dead, promo, ren, alias, plain, base>>

Semidom ==
    /\ pass = "semidom"
    /\ SemidomNode
    /\ UNCHANGED <<fn, dfs, source, pass, full, dead, promo, ren, alias, plain, base>>

\* PhiPlace::new. A statement reads before it writes, and a terminator reads last.
ReadsAt(f, b, i) == IF i > Len(f.blocks[b].stmts) THEN BaseVars(f.blocks[b].args) ELSE SrcVars(f.blocks[b].stmts[i])
ReadAt(f, b, i) == Range(ReadsAt(f, b, i))
SetAt(f, b, i) == Range(DstVars(f.blocks[b].stmts[i]))
Points(f, b) == 1..Len(f.blocks[b].stmts) + 1
Assigns(f, v) == {b \in Blocks : \E i \in DOMAIN f.blocks[b].stmts : v \in SetAt(f, b, i)}
UpwardUses(f, v) ==
    {b \in Blocks : \E i \in Points(f, b) : v \in ReadAt(f, b, i) /\ \A j \in 1..i - 1 : v \notin SetAt(f, b, j)}
Variables ==
    UNION {UNION {{v \in ReadAt(fn, b, i) : ~Versioned(v) /\ ~IsGlobal(v)} : i \in Points(fn, b)} : b \in Blocks}
    \cup UNION {SetAt(fn, x[1], x[2]) : x \in Sites(fn)}

LiveIn(f, v) == Closure(UpwardUses(f, v), LAMBDA x : PredecessorSet(x) \ Assigns(f, v))
IteratedFrontier(df, defs) == Closure(UNION {df[x] : x \in defs}, LAMBDA x : df[x])
PhiSites(df, v) == IteratedFrontier(df, Assigns(fn, v)) \cap LiveIn(fn, v)

PlacePhis ==
    /\ pass = "semidom" /\ lt.next = 1
    /\ \E idom \in {Dom(lt)} : \E df \in {DominanceFrontier(idom)} :
         \E sites \in {[v \in Variables |-> PhiSites(df, v)]} :
           /\ lt' = [idom |-> idom, frontier |-> df]
           /\ fn' = [fn EXCEPT !.blocks = [b \in Blocks |->
                       [@[b] EXCEPT !.stmts =
                          Listed({Phi(v, Predecessors(b)) : v \in {u \in Variables : b \in sites[u]}}) \o @]]]
    /\ ren' = [s |-> [v \in Variables |-> <<0>>], c |-> [v \in Variables |-> 1], walk |-> <<<<"enter", START>>>>]
    /\ pass' = "rename"
    /\ UNCHANGED <<dfs, source, full, dead, promo, alias, plain, base>>

\* SsaRename::search. The operands of a phi are named from its predecessors.
Current(s, v) == IF Versioned(v) \/ IsGlobal(v) THEN v ELSE WithVersion(v, Last(s[v]))

\* A mutant of RenameStatement that numbers a definition after the one on the stack.
RenameStatementReuses(acc, stmt) ==
    LET top(v) == Current(acc.s, v)
        dst    == DstVars(stmt)
        set(a, k) == [s     |-> [a.s EXCEPT ![dst[k]] = Append(@, Last(@) + 1)],
                      c     |-> a.c,
                      stmts |-> Append(Front(a.stmts), RewriteDst(Last(a.stmts), k, WithVersion(dst[k], Last(a.s[dst[k]]) + 1)))]
    IN  Loop(set, [acc EXCEPT !.stmts = Append(@, IF stmt.op = "phi" THEN stmt ELSE RewriteSrc(stmt, top))],
             [k \in DOMAIN dst |-> k])

RenameStatement(acc, stmt) ==
    LET top(v) == Current(acc.s, v)
        dst    == DstVars(stmt)
        set(a, k) == [s     |-> [a.s EXCEPT ![dst[k]] = Append(@, a.c[dst[k]])],
                      c     |-> [a.c EXCEPT ![dst[k]] = @ + 1],
                      stmts |-> Append(Front(a.stmts), RewriteDst(Last(a.stmts), k, WithVersion(dst[k], a.c[dst[k]])))]
    IN  Loop(set, [acc EXCEPT !.stmts = Append(@, IF stmt.op = "phi" THEN stmt ELSE RewriteSrc(stmt, top))],
             [k \in DOMAIN dst |-> k])

\* The operand of the first edge from x.
NameOperand(s, x, stmt) ==
    IF stmt.op # "phi" THEN stmt
    ELSE LET k == Min({j \in DOMAIN stmt.preds : stmt.preds[j] = x})
             v == Variable(stmt.src[k][2])
         IN  [stmt EXCEPT !.src[k] = Path(WithVersion(v, Last(s[v])), <<>>)]

EnterBlock ==
    /\ pass = "rename" /\ ren.walk # <<>> /\ Last(ren.walk)[1] = "enter"
    /\ LET x == Last(ren.walk)[2] IN
       \E acc \in {Loop(RenameStatement, [s |-> ren.s, c |-> ren.c, stmts |-> <<>>], fn.blocks[x].stmts)} :
         LET top(v) == Current(acc.s, v)
             named(stmts) == [i \in DOMAIN stmts |-> NameOperand(acc.s, x, stmts[i])]
             renamed == [fn.blocks EXCEPT ![x].stmts = acc.stmts, ![x].args = RewriteExps(@, top)]
         IN  /\ fn' = [fn EXCEPT !.blocks = [y \in Blocks |->
                         IF y \in Successors(x) THEN [renamed[y] EXCEPT !.stmts = named(@)] ELSE renamed[y]]]
             /\ ren' = [s |-> acc.s, c |-> acc.c,
                        walk |-> Front(ren.walk) \o <<<<"leave", x>>>>
                                 \o LET kids == Reverse(Ascending(Children(lt.idom, x)))
                                    IN  [i \in DOMAIN kids |-> <<"enter", kids[i]>>]]
    /\ UNCHANGED <<dfs, lt, source, pass, full, dead, promo, alias, plain, base>>

\* A mutant of LeaveBlock that does not pop the versions of the block.
LeaveBlockKeeps ==
    /\ pass = "rename" /\ ren.walk # <<>> /\ Last(ren.walk)[1] = "leave"
    /\ ren' = [ren EXCEPT !.walk = Front(@)]
    /\ UNCHANGED <<fn, dfs, lt, source, pass, full, dead, promo, alias, plain, base>>

LeaveBlock ==
    /\ pass = "rename" /\ ren.walk # <<>> /\ Last(ren.walk)[1] = "leave"
    /\ LET x == Last(ren.walk)[2]
           set == FlattenSeq([i \in DOMAIN fn.blocks[x].stmts |-> DstVars(fn.blocks[x].stmts[i])])
       IN  ren' = [ren EXCEPT !.walk = Front(@),
                              !.s = Loop(LAMBDA s, v : [s EXCEPT ![Variable(v)] = Front(@)], @, set)]
    /\ UNCHANGED <<fn, dfs, lt, source, pass, full, dead, promo, alias, plain, base>>

\* Version 0 of a parameter is the incoming one.
BindParameters ==
    /\ pass = "rename" /\ ren.walk = <<>>
    /\ fn' = [fn EXCEPT !.blocks[START].stmts =
                Reverse([i \in 1..fn.params |-> Assign(WithVersion(Param(i - 1), 0), <<>>, <<Path(Param(i - 1), <<>>)>>)]) \o @]
    /\ pass' = IF full THEN "copies" ELSE "observe"
    /\ UNCHANGED <<dfs, lt, source, full, dead, promo, ren, alias, plain, base>>

\* -------------------------------------------------------------- the observable

Statements(f) == FlattenSeq([i \in 1..Cardinality(DOMAIN f.blocks) |-> f.blocks[i - 1].stmts])

\* The least labeling of a function in SSA form (S6, S8): a source labels what its
\* call returns, and a sink observes its argument (S17); what is returned is
\* observed too. The callee write stores a
\* source through its argument and read passes to a sink what is behind it: their
\* bodies are instances (S10), whose formal is named by the call.
Source(s) == s.op = "call" /\ s.style = <<"direct", "src">>
Sink(s) == s.op = "call" /\ s.style = <<"direct", "sink">>
Writes(s) == s.op = "call" /\ s.style = <<"direct", "write">>
ReadsThrough(s) == s.op = "call" /\ s.style = <<"direct", "read">>
Moves(cells, s) ==
    UNION {LET e  == s.src[i]
               to == IF e[1] = "value" THEN Concat(s.dst[2], <<Value>>) ELSE s.dst[2]
           IN  IF IsPath(e) THEN AssignPath(cells, s.dst[1], to, e[2], e[3], to # <<>>) ELSE {} : i \in DOMAIN s.src}
RECURSIVE Labeling(_, _)
Labeling(cells, assigns) ==
    The({IF more = cells THEN cells ELSE Labeling(more, assigns) :
            more \in {AddCells(cells, UNION {Moves(cells, s) : s \in assigns})}})

Observed(f) ==
    LET stmts  == Range(Statements(f))
        calls(Kind(_)) == {s \in stmts : Kind(s)}
        passed == {Assign(Formal(s.insn), <<>>, s.args) : s \in calls(Writes) \cup calls(ReadsThrough)}
        seeds  == UNION {{<<s.rets[1], p, s.insn, "All">> : p \in {<<>>, <<Value>>}} : s \in calls(Source)}
                  \cup {<<Formal(s.insn), <<Deref>>, s.insn, "All">> : s \in calls(Writes)}
        cells  == Labeling(seeds, {s \in stmts : s.op # "call"} \cup passed)
    IN  UNION {{<<l, s.insn>> : l \in ReadLabels(cells, s.args[1][2], s.args[1][3])} :
                 s \in {x \in calls(Sink) : IsPath(x.args[1])}}
        \cup UNION {{<<l, s.insn>> : l \in ReadLabels(cells, Formal(s.insn), <<Deref>>)} : s \in calls(ReadsThrough)}
        \cup UNION {{<<l, "return">> : l \in ReadLabels(cells, e[2], e[3])} :
                      e \in {x \in UNION {Range(f.blocks[b].args) : b \in DOMAIN f.blocks} : IsPath(x)}}

\* ------------------------------------------------------------------- copy_prop

\* Aliases::resolve, whose loop is capped.
Resolve(parent, v) ==
    FoldSet(LAMBDA k, u : IF u \in DOMAIN parent THEN parent[u] ELSE u, v, 0..Cardinality(DOMAIN parent))

IsCopy(s) == /\ s.op = "assign" /\ ~IsStore(s) /\ Versioned(s.dst[1])
             /\ Len(s.src) = 1 /\ PlainVar(s.src[1]) /\ Versioned(s.src[1][2]) /\ s.src[1][2] # s.dst[1]

GatherCopies ==
    /\ pass = "copies"
    /\ LET copies == {s \in Range(Statements(fn)) : IsCopy(s)}
       IN  alias' = [parent |-> [v \in {s.dst[1] : s \in copies} |-> (CHOOSE s \in copies : s.dst[1] = v).src[1][2]],
                     changed |-> TRUE]
    /\ base' = Observed(fn)
    /\ pass' = "phis"
    /\ UNCHANGED <<fn, dfs, lt, source, full, dead, promo, ren, plain>>

\* A phi of one value other than itself is that value.
SettlePhi(a, phi) ==
    LET dest  == phi.dst[1]
        names == {Resolve(a.parent, e[2]) : e \in Range(phi.src)} \ {dest}
    IN  IF dest \in DOMAIN a.parent \/ Cardinality(names) # 1 THEN a
        ELSE [parent |-> (dest :> CHOOSE v \in names : TRUE) @@ a.parent, changed |-> TRUE]

SweepPhis ==
    /\ pass = "phis" /\ alias.changed
    /\ alias' = Loop(SettlePhi, [alias EXCEPT !.changed = FALSE],
                         SelectSeq(Statements(fn), LAMBDA s : s.op = "phi"))
    /\ UNCHANGED <<fn, dfs, lt, source, pass, full, dead, promo, ren, plain, base>>

RewriteCopies ==
    /\ pass = "phis" /\ ~alias.changed
    /\ LET to(v)   == Resolve(alias.parent, v)
           kept(s) == s.op = "call" \/ IsStore(s) \/ s.dst[1] \notin DOMAIN alias.parent
       IN  fn' = [fn EXCEPT !.blocks = [b \in Blocks |->
                    [@[b] EXCEPT !.stmts = LET left == SelectSeq(@, kept)
                                           IN  [i \in DOMAIN left |-> RewriteSrc(left[i], to)],
                                 !.args = RewriteExps(@, to)]]]
    /\ pass' = "done"
    /\ UNCHANGED <<dfs, lt, source, full, dead, promo, ren, alias, plain, base>>

\* From ssa_only to index_default, on the same function.
Again ==
    /\ pass = "observe"
    /\ base' = Observed(fn)
    /\ fn' = source /\ full' = TRUE /\ pass' = "dead_temps"
    /\ UNCHANGED <<dfs, lt, source, dead, promo, ren, alias, plain>>

Init ==
    /\ source \in Functions /\ fn = source /\ plain = source
    /\ pass = "reach" /\ full = FALSE /\ dfs = DfsStart
    /\ lt = <<>> /\ dead = <<>> /\ promo = [slots |-> {}, note |-> {}] /\ ren = <<>> /\ alias = <<>> /\ base = {}

Next ==
    \/ SeedDead \/ PopDead \/ SweepDead \/ Coalesce \/ Promote
    \/ Dfs \/ Prune \/ Complete \/ StartDominators \/ Semidom \/ PlacePhis
    \/ EnterBlock \/ LeaveBlock \/ BindParameters
    \/ GatherCopies \/ SweepPhis \/ RewriteCopies
    \/ Again

Spec == Init /\ [][Next]_vars

-----------------------------------------------------------------------------
Named == pass = "rename" /\ ren.walk = <<>>

\* The definitions of v that reach a point of the plain function along its edges;
\* <<START, 0>> is the value it comes in with.
LastSet(b, i, v) == {j \in 1..i - 1 : v \in Range(DstVars(plain.blocks[b].stmts[j]))}
ReachingDefs(b, i, v) ==
    LET blind  == {x \in Blocks : LastSet(x, Len(plain.blocks[x].stmts) + 1, v) = {}}
        above  == Closure(PredecessorSet(b), LAMBDA x : IF x \in blind THEN PredecessorSet(x) ELSE {})
        latest(x, k) == {<<x, Max(LastSet(x, k, v))>>}
    IN  IF LastSet(b, i, v) # {} THEN latest(b, i)
        ELSE UNION {latest(x, Len(plain.blocks[x].stmts) + 1) : x \in above \ blind}
             \cup IF b = START \/ START \in above \cap blind THEN {<<START, 0>>} ELSE {}

\* The definitions a name stands for, its phis looked through. Nothing sets a variable
\* without a version; a parameter without one is the incoming value.
Shift(b) == Len(fn.blocks[b].stmts) - Len(plain.blocks[b].stmts)
DefsOf(name) == {x \in Sites(fn) : name \in Range(DstVars(Stmt(fn, x)))}
Operands(name) == UNION {{e[2] : e \in Range(Stmt(fn, x).src)} : x \in {y \in DefsOf(name) : Stmt(fn, y).op = "phi"}}
RECURSIVE Behind(_)
Behind(names) == The({IF more = names THEN names ELSE Behind(more) :
                        more \in {names \cup UNION {Operands(n) : n \in names}}})
Origins(name) ==
    UNION {IF (Versioned(n) /\ n[3] = 0) \/ (~Versioned(n) /\ n[1] = "param") THEN {<<START, 0>>}
           ELSE {<<x[1], x[2] - Shift(x[1])>> : x \in {y \in DefsOf(n) : Stmt(fn, y).op # "phi"}} : n \in Behind({name})}

\* ssa/mod.rs: SSA "is what makes a variable one cell". A use of a variable sees, in
\* SSA form, just the definitions that reach it along the edges of the function.
UsesSeeReachingDefs ==
    Named =>
        \A b \in Blocks : \A i \in 1..Len(plain.blocks[b].stmts) + 1 :
            LET before == ReadsAt(plain, b, i)
                after  == ReadsAt(fn, b, i + Shift(b))
            IN  \A k \in DOMAIN before :
                    IF IsGlobal(before[k]) THEN after[k] = before[k]
                    ELSE Origins(after[k]) = ReachingDefs(b, i, before[k])

\* ssa/mod.rs: "each one has exactly one definition and the definition dominates all
\* its uses" (a phi uses an operand at the end of its predecessor); and it is so again
\* after copy_prop, where "no reference is left dangling". Only the operands of further
\* edges from one predecessor are names of nothing.
OneDominatingDef ==
    LET first(s) == {k \in DOMAIN s.src : \A j \in 1..k - 1 : s.preds[j] # s.preds[k]}
        uses == UNION {LET s == Stmt(fn, x) IN
                       IF s.op = "phi"
                       THEN {<<s.src[k][2], s.preds[k], Len(fn.blocks[s.preds[k]].stmts) + 1>> : k \in first(s)}
                       ELSE {<<v, x[1], x[2]>> : v \in Range(SrcVars(s))} : x \in Sites(fn)}
        entry == {<<Param(i - 1), START>> : i \in 1..fn.params}
    IN  Named \/ pass = "done" =>
            \A u \in {x \in uses : ~IsGlobal(x[1]) /\ (pass = "done" => <<x[1], x[2]>> \notin entry)} :
                /\ Versioned(u[1])
                /\ u[1][3] # 0 => \E x \in Sites(fn) : /\ DefsOf(u[1]) = {x}
                                                       /\ IF x[1] = u[2] THEN x[2] < u[3] ELSE Dominates(x[1], u[2])

\* "Every block in the iterated dominance frontier of a variable's definitions gets a
\* phi": wherever a definition is, the computed frontier covers that one. The graph
\* that dominators are asked of is one whose blocks are all reached.
FrontierSuffices ==
    LET true == [x \in Blocks |-> TrueFrontier(x)]
    IN  /\ pass # "panic"
        /\ Named => \A x \in Blocks :
                       /\ Dominates(lt.idom[x], x)
                       /\ IteratedFrontier(true, {x}) \subseteq IteratedFrontier(lt.frontier, {x})

\* The same as it is documented: phis in the iterated dominance frontier where the
\* variable is live, and nowhere else.
PhisAsDocumented ==
    LET true == [x \in Blocks |-> TrueFrontier(x)]
        at(v) == {b \in Blocks : \E i \in 1..Shift(b) : Variable(fn.blocks[b].stmts[i].dst[1]) = v}
    IN  Named => \A v \in DOMAIN ren.s :
                    at(v) = IteratedFrontier(true, Assigns(plain, v)) \cap LiveIn(plain, v)

\* A function that is a line, in which what writes the slot comes before what reads it
\* and there is at most one store: flow sensitivity makes no difference.
WrittenFirst(f, k) ==
    LET stmts == f.blocks[START].stmts
        at(P(_)) == {i \in DOMAIN stmts : P(stmts[i])}
        stores == at(LAMBDA s : [slot |-> k, how |-> "store"] \in ClassifyUses(s))
        loads  == at(LAMBDA s : [slot |-> k, how |-> "load"] \in ClassifyUses(s))
    IN  /\ DOMAIN f.blocks = {START} /\ Cardinality(stores) <= 1
        /\ \A i \in loads, j \in stores \cup at(LAMBDA s : PassedTo(s, k)) : j < i

\* The register's row mem2reg window: an escaped address and an offset that is added
\* to one reach past the window.
PastWindow(f) ==
    LET aps == UNION {{<<s.dst[1], s.dst[2]>>} \cup {<<e[2], e[3]>> : e \in {x \in Range(s.src) : IsPath(x)}} :
                        s \in {Stmt(f, x) : x \in {y \in Sites(f) : Stmt(f, y).op = "assign"}}}
        added == {0} \cup {ap[2][1][2] : ap \in {x \in aps : x[1] # StackTop /\ StartsWith(x[2], "offset")}}
    IN  \E u \in Escapes(f), k \in DirectSlots(f) : k \notin u.slot..(u.slot + Window - 1) /\ Wrap(k - u.slot) \in added

\* docs/ir.md, S18: "A pass is correct if the SSA form of its output has the same
\* observable labeling as the SSA form of its input". Promotion never adds: a slot
\* becomes flow sensitive. It takes nothing away where the slot is written first,
\* except past the window, and under full promotion with a note that names the
\* escape, which a return never is. copy_prop never takes away; it may add when it
\* moves a store to what the store's base is a copy of.
PassesKeepObservables ==
    /\ pass = "copies" =>
          /\ Observed(fn) \subseteq base
          /\ promo.note \subseteq {"returned"} /\ ~PastWindow(source) /\ (\A k \in promo.slots : WrittenFirst(source, k))
                => Observed(fn) = base
    /\ pass = "done" => /\ base \subseteq Observed(fn)
                        /\ (\A x \in Sites(source) : ~IsStore(Stmt(source, x))) => Observed(fn) = base
=============================================================================
