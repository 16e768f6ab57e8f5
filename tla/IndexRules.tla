----------------------------- MODULE IndexRules -----------------------------
(***************************************************************************)
(* The index engine of ctadl-index: the Datalog program index_rules of     *)
(* index_engine/mod.rs, run to its fixpoint in any order of its rules. A   *)
(* relation is a function from its rows, without the condition, to the     *)
(* condition they hold under (Always for a plain relation); one step fires *)
(* one rule on every match there is. Relations that only index or restate  *)
(* others (reach_vp, the key and split tables, ext_dst, ext_fml,           *)
(* critical_arg, call_site, resolvent, resolved_call ...) are definitions. *)
(***************************************************************************)
EXTENDS Codegen, Decision

CONSTANT ContextJoins \* the values of IndexConfig.context_join

VARIABLES
    facts, \* EngineInput
    join,  \* IndexConfig.context_join
    db     \* the relations
ps == facts.paths

Rows(rel) == DOMAIN db[rel]
IsAlways(rel, row) == db[rel][row] = Always

\* A set of <<row, condition>> without the compositions that need two decisions.
Derived(rows) == {r \in rows : r[2] # NoCond}
Plain(rows) == {<<r, Always>> : r \in rows}

\* A mutant of News that takes every row for a change.
NewsAlways(rel, rows) == Derived(rows)

\* The rows of a derivation that change a relation, and the relation with them.
News(rel, rows) ==
    {r \in Derived(rows) : r[1] \notin Rows(rel) \/ ~Covers(db[rel][r[1]], r[2])}
JoinRows(old, rows) ==
    LET keys == {r[1] : r \in rows}
        held(k) == IF k \in DOMAIN old THEN old[k] ELSE NoCond
    IN  [k \in DOMAIN old \cup keys |->
            IF k \in keys THEN FoldSet(Add, held(k), {r[2] : r \in {x \in rows : x[1] = k}})
            ELSE old[k]]

\* Whether a flow into a path of a formal reaches the caller's actual.
IsOut(v, type, p) ==
    \/ v[2] < 0
    \/ type = "Shared"
    \/ type = "SharedFields" /\ p \notin {<<>>, <<Value>>}

\* <<adjustment, rest>> for each way the path long starts with short: the exact
\* and the wild keys of long, joined with short.
KeyMatches(long, short) ==
    {<<{}, k[2]>> : k \in {x \in Splits(ps, long) : x[1] = short}}
    \cup UNION {{<<{w[1]}, w[2]>> : w \in WildRest(m[1][2], m[2][2])} :
                  m \in {x \in SplitsWild(ps, long) \X SplitTrailing(ps, short) : x[1][1] = x[2][1]}}

\* --------------------------------------------- local reachability, summaries

InitLocals == {<<f[1], f[2], <<>>, f[2], <<>>>> : f \in facts.formalParam}

\* The copies p_i = a_i and r = ret of a call, both ways.
ActualEdges ==
    UNION {{<<a[1], a[4], a[5], Arg(a[2], Formal(a[3])), <<>>>>,
            <<a[1], Arg(a[2], Formal(a[3])), <<>>, a[4], a[5]>>} : a \in facts.actualParam}

GlobalMention ==
    LET here == {<<e[1], e[i]>> : e \in Rows("assignLike"), i \in {2, 4}}
                \cup {<<c[1], c[3]>> : c \in facts.calleeInfo}
                \cup {<<t[1], t[2]>> : t \in facts.callTargetAssign}
        global == {m \in here : IsGlobal(m[2])}
    IN  global \cup {<<Frame, m[2]>> : m \in global}

LocalsOfGlobals == Plain({<<m[1], m[2], <<>>, m[2], <<>>>> : m \in GlobalMention})

\* v1.p1 = v2.p2 and v2.p23 reached, p23 = p2.rest: v1.(p1.rest) is reached.
LocalsByDst ==
    UNION {UNION {{<<<<e[1], e[2], p13, l[4], l[5]>>, And(db.assignLike[e], db.locals[l])>> :
                     p13 \in UNION {SetConcat(ps, e[3], m[1], m[2]) : m \in KeyMatches(l[3], e[5])}} :
                  l \in {x \in Rows("locals") : x[1] = e[1] /\ x[2] = e[4]}} :
           e \in Rows("assignLike")}

\* v1.p1 = v2.p23 and v2.p2 reached from a.p4, p23 = p2.rest: from a.(p4.rest).
LocalsByFormal ==
    UNION {UNION {{<<<<e[1], e[2], e[3], l[4], p43>>, And(db.assignLike[e], db.locals[l])>> :
                     p43 \in UNION {SetConcat(ps, l[5], m[1], m[2]) : m \in KeyMatches(e[5], l[3])}} :
                  l \in {x \in Rows("locals") : x[1] = e[1] /\ x[2] = e[4]}} :
           e \in Rows("assignLike")}

\* Flows into an out-formal.
SummaryOut ==
    {<<l, db.locals[l]>> : l \in {x \in Rows("locals") :
        /\ <<x[2], x[3]>> # <<x[4], x[5]>>
        /\ \E f \in facts.formalParam : f[1] = x[1] /\ f[2] = x[2] /\ IsOut(x[2], f[3], x[3])}}

\* Flows into a global path; between two of them, only a conditional one.
SummaryGlobal ==
    {<<l, db.locals[l]>> : l \in {x \in Rows("locals") :
        /\ x[1] # Frame /\ IsGlobal(x[2])
        /\ ~(IsGlobal(x[4]) /\ IsAlways("locals", x))
        /\ <<x[2], x[3]>> # <<x[4], x[5]>>}}

FrameEdges ==
    Plain({<<Frame, l[2], l[3], l[4], l[5]>> : l \in {x \in Rows("locals") :
        /\ x[1] # Frame /\ IsAlways("locals", x)
        /\ IsGlobal(x[2]) /\ IsGlobal(x[4])
        /\ <<x[2], x[3]>> # <<x[4], x[5]>>}})

\* Stores through a whole-variable copy of a formal or a global.
AliasFlow ==
    UNION {{<<l[1], a[3], l[3], l[4], l[5]>> :
               a \in {x \in facts.aliasOfFormal :
                         x[1] = l[1] /\ x[2] = l[2] /\ <<x[3], l[3]>> # <<l[4], l[5]>>}} :
           l \in {x \in Rows("locals") :
                    /\ IsAlways("locals", x) /\ x[3] \notin {<<>>, <<Value>>}
                    /\ <<x[1], x[2], x[3]>> \in facts.progStore}}
AliasSummary == Plain({a \in AliasFlow : ~(IsGlobal(a[2]) /\ IsGlobal(a[4]))})
AliasFrameEdges ==
    Plain({<<Frame, a[2], a[3], a[4], a[5]>> : a \in {x \in AliasFlow : IsGlobal(x[2]) /\ IsGlobal(x[4])}})

\* ----------------------------------------------- decisions and their routes

\* resolvent: <<function, decision>>; a decision is <<formal, path, target>>.
Resolvent == {<<r[1], r[2]>> : r \in Rows("direct") \cup Rows("via")}

\* The formal paths that reach a vertex in every context, <<formal, path>>.
FromFormal(f, v, p) ==
    {<<l[4], l[5]>> : l \in {x \in Rows("locals") :
        x[1] = f /\ x[2] = v /\ x[3] = p /\ IsFormal(x[4]) /\ IsAlways("locals", x)}}

\* The calls a decision resolves, <<caller, insn, target, decision>>, and those
\* whose target the caller holds itself.
ByDecision ==
    LET resolvents == Resolvent IN
    UNION {{<<c[1], c[2], r[2][3], r[2]>> :
               r \in {x \in resolvents : /\ x[1] = c[1] /\ x[2][3] \in facts.calleeResolvents
                                         /\ <<x[2][1], x[2][2]>> \in FromFormal(c[1], c[3], c[4])}} :
           c \in facts.calleeInfo}
ByTag ==
    UNION {{<<c[1], c[2], t[4]>> :
               t \in {x \in Rows("tags") : /\ x[1] = c[1] /\ x[2] = c[3] /\ x[3] = c[4]
                                           /\ x[4] \in facts.calleeResolvents}} :
           c \in facts.calleeInfo}

ResolvedCall == {<<c[1], c[2], c[3]>> : c \in ByDecision} \cup ByTag
FnptrCall == ResolvedCall
AnyCall == facts.call \cup FnptrCall

\* call_site: the condition under which insn of caller calls callee.
CallSite ==
    JoinRows(<<>>, Plain(facts.call \cup ByTag)
                   \cup {<<<<c[1], c[2], c[3]>>, Under({c[4]})>> : c \in ByDecision})

\* Phase 1: the formal paths an indirect call depends on, up the stack.
CriticalBase ==
    Plain(UNION {{<<c[1]>> \o r : r \in FromFormal(c[1], c[3], c[4])} : c \in facts.calleeInfo})

\* <<n, path, rest>> of the caller for each split of a callee's critical path.
CriticalReach(caller, insn, n, p) ==
    UNION {UNION {{<<r[1], q>> : q \in SetConcat(ps, r[2], {}, k[2])} :
                    r \in FromFormal(caller, Arg(insn, n), k[1])} : k \in Splits(ps, p)}

CriticalUp ==
    Plain(UNION {UNION {{<<c[1]>> \o r : r \in CriticalReach(c[1], c[2], s[2], s[3])} :
                          s \in {x \in Rows("critical") : x[1] = c[3]}} : c \in AnyCall})

\* Phase 2: a target the caller holds (2.1), or a decision of the caller's own
\* passed on (2.2), establishes a decision at the callee.
EstablishesDirect ==
    Plain(UNION {UNION {{<<s[1], <<s[2], s[3], t[4]>>, c[1], c[2]>> :
                            t \in {x \in Rows("tags") : /\ x[1] = c[1] /\ x[3] = s[3]
                                                        /\ x[2] = Arg(c[2], s[2])}} :
                          s \in {x \in Rows("critical") : x[1] = c[3]}} : c \in AnyCall})

EstablishesVia ==
    Plain(UNION {UNION {{<<s[1], <<s[2], s[3], r[2][3]>>, c[1], c[2], r[2]>> :
                            r \in {x \in Resolvent : /\ x[1] = c[1]
                                                     /\ <<x[2][1], x[2][2]>> \in
                                                          CriticalReach(c[1], c[2], s[2], s[3])}} :
                          s \in {x \in Rows("critical") : x[1] = c[3]}} : c \in AnyCall})

\* ---------------------------------------------- summaries at their call sites

\* A summary row as an edge between the actuals of a call site.
Instantiate(caller, insn, s) == <<caller, Arg(insn, s[2]), s[3], Arg(insn, s[4]), s[5]>>

SummaryEdges ==
    LET sites == CallSite IN
    UNION {{<<Instantiate(c[1], c[2], s), sites[c]>> :
               s \in {x \in Rows("summary") : x[1] = c[3] /\ IsAlways("summary", x)}} :
           c \in DOMAIN sites}

Conditional == {s \in Rows("summary") : ~IsAlways("summary", s)}

\* A mutant of Takes that applies a summary wherever some decision is established.
TakesAny(ds, d) == TRUE

\* Whether a set has a decision: top has every one.
Takes(ds, d) == ds = Top \/ d \in ds

\* Sets: the distinct sets a function's conditional summaries hold under, each
\* with the calls that establish a member; the rows of a set since grown stay.
ContextSets ==
    Plain({<<s[1], db.summary[s]>> : s \in {x \in Conditional : join = "Sets"}})
SetEstablishes(rel) ==
    Plain(UNION {{[e EXCEPT ![2] = c[2]] : e \in {x \in Rows(rel) : x[1] = c[1] /\ Takes(c[2], x[2])}} :
                   c \in Rows("sets")})

\* Unfold: one row per summary and decision; top stands for every resolvent.
Unfolded ==
    Plain(UNION {{<<s, d>> : d \in IF db.summary[s] # Top THEN db.summary[s]
                                   ELSE {r[2] : r \in {x \in Resolvent : x[1] = s[1]}}} :
                   s \in {x \in Conditional : join = "Unfold"}})

\* Each conditional summary with the establishing calls it is applied at.
Paired(rel, setRel) ==
    CASE join = "Scan" ->
           UNION {{<<s, e>> : e \in {x \in Rows(rel) : x[1] = s[1] /\ Takes(db.summary[s], x[2])}} :
                    s \in Conditional}
      [] join = "Sets" ->
           UNION {{<<s, e>> : e \in {x \in Rows(setRel) : x[1] = s[1] /\ x[2] = db.summary[s]}} :
                    s \in Conditional}
      [] join = "Unfold" ->
           UNION {{<<u[1], e>> : e \in {x \in Rows(rel) : x[1] = u[1][1] /\ x[2] = u[2]}} :
                    u \in Rows("unfolded")}

\* 3.2: at the callers whose route established the decision, under the site's
\* condition and, when the target came through the caller's own formal, under
\* the caller's decision as well.
ContextEdges(pairs) ==
    LET sites == CallSite
        site(e) == <<e[3], e[4], e[1]>>
    IN  {[edge |-> Instantiate(m[2][3], m[2][4], m[1]), from |-> m[2], cond |-> sites[site(m[2])]] :
            m \in {x \in pairs : site(x[2]) \in DOMAIN sites}}
ContextEdgesDirect ==
    {<<c.edge, c.cond>> : c \in ContextEdges(Paired("direct", "setDirect"))}
ContextEdgesVia ==
    {<<c.edge, And(Under({c.from[5]}), c.cond)>> : c \in ContextEdges(Paired("via", "setVia"))}

\* -------------------------------------------------------------- call targets

\* The tags a function holds on a formal whose flows reach the caller.
OutTags ==
    {t \in Rows("tags") : \E f \in facts.formalParam : f[1] = t[1] /\ f[2] = t[2] /\ IsOut(t[2], f[3], t[3])}

\* The global paths each function reads, the frame apart.
GlobalRead ==
    {<<e[1], e[4], e[5]>> : e \in {x \in Rows("assignLike") : x[1] # Frame /\ IsGlobal(x[4])}}
    \cup {<<c[1], c[3], c[4]>> : c \in {x \in facts.calleeInfo : IsGlobal(x[3])}}

TagSplits(p) == IF p = <<>> THEN {<<<<>>, <<>>>>} ELSE Splits(ps, p)

\* The frame's tags that a function reads, at or below the path it reads.
GlobalLabels ==
    UNION {{<<r[1], t[2], t[3], t[4]>> : r \in {x \in GlobalRead :
                x[2] = t[2] /\ \E k \in TagSplits(t[3]) : k[1] = x[3]}} :
           t \in {y \in Rows("tags") : y[1] = Frame /\ IsGlobal(y[2])}}

\* tag_closure_func, critical_call included.
TagClosure ==
    LET called    == {c[3] : c \in AnyCall}
        mentions  == {m[1] : m \in GlobalMention}
        depending == {s[1] : s \in Rows("critical")} \cup {t[1] : t \in OutTags}
    IN  {c[1] : c \in facts.calleeInfo}
        \cup {t[1] : t \in {x \in facts.callTargetAssign : x[1] \in called \cup mentions}}
        \cup {c[1] : c \in {x \in facts.call : x[3] \in depending}}
        \cup {Frame} \cup {g[1] : g \in GlobalLabels}

TagsAssigned == LET closure == TagClosure IN Plain({t \in facts.callTargetAssign : t[1] \in closure})

TagMatches(long, short) ==
    IF long = <<>> THEN {<<{}, k[2]>> : k \in {x \in TagSplits(long) : x[1] = short}}
    ELSE KeyMatches(long, short)

TagsByEdge ==
    LET closure == TagClosure IN
    Plain(UNION {UNION {{<<e[1], e[2], p13, t[4]>> :
                            p13 \in UNION {SetConcat(ps, e[3], m[1], m[2]) : m \in TagMatches(t[3], e[5])}} :
                          e \in {x \in Rows("assignLike") :
                                   x[1] = t[1] /\ x[4] = t[2] /\ IsAlways("assignLike", x)}} :
                 t \in {y \in Rows("tags") : y[1] \in closure}})

TagsReturned ==
    Plain(UNION {{<<c[1], Arg(c[2], t[2]), t[3], t[4]>> : t \in {x \in OutTags : x[1] = c[3]}} : c \in AnyCall})

TagsToFrame == Plain({<<Frame, t[2], t[3], t[4]>> : t \in {x \in Rows("tags") : IsGlobal(x[2])}})

TagsFromFrame == Plain(GlobalLabels)

\* ------------------------------------------------------------ the fixpoint

\* The relations every context join fills, and those of Sets and of Unfold.
Common == {"locals", "assignLike", "summary", "critical", "direct", "via", "tags"}
Relations == Common \cup {"sets", "setDirect", "setVia", "unfolded"}

\* What the engine is seeded with: formals, and the edges of the program and of
\* the call sites' actuals.
Seeded ==
    [r \in Relations |->
        JoinRows(<<>>, Plain(CASE r = "locals" -> InitLocals
                               [] r = "assignLike" -> facts.assign \cup ActualEdges
                               [] OTHER -> {}))]

Derive(rel, rows) ==
    \E news \in {News(rel, rows)} :
        /\ news # {}
        /\ db' = [db EXCEPT ![rel] = JoinRows(@, news)]

\* One rule, on every match.
AnyRule ==
    \/ Derive("locals", LocalsOfGlobals)
    \/ Derive("locals", LocalsByDst)
    \/ Derive("locals", LocalsByFormal)
    \/ Derive("summary", SummaryOut)
    \/ Derive("summary", SummaryGlobal)
    \/ Derive("summary", AliasSummary)
    \/ Derive("assignLike", FrameEdges)
    \/ Derive("assignLike", AliasFrameEdges)
    \/ Derive("assignLike", SummaryEdges)
    \/ Derive("assignLike", ContextEdgesDirect)
    \/ Derive("assignLike", ContextEdgesVia)
    \/ Derive("critical", CriticalBase)
    \/ Derive("critical", CriticalUp)
    \/ Derive("direct", EstablishesDirect)
    \/ Derive("via", EstablishesVia)
    \/ Derive("sets", ContextSets)
    \/ Derive("setDirect", SetEstablishes("direct"))
    \/ Derive("setVia", SetEstablishes("via"))
    \/ Derive("unfolded", Unfolded)
    \/ Derive("tags", TagsAssigned)
    \/ Derive("tags", TagsByEdge)
    \/ Derive("tags", TagsReturned)
    \/ Derive("tags", TagsToFrame)
    \/ Derive("tags", TagsFromFrame)

\* One iteration of the engine: every rule, on the relations as they were.
RoundRows(rel) ==
    CASE rel = "locals" -> LocalsOfGlobals \cup LocalsByDst \cup LocalsByFormal
      [] rel = "summary" -> SummaryOut \cup SummaryGlobal \cup AliasSummary
      [] rel = "assignLike" -> FrameEdges \cup AliasFrameEdges \cup SummaryEdges
                               \cup ContextEdgesDirect \cup ContextEdgesVia
      [] rel = "critical" -> CriticalBase \cup CriticalUp
      [] rel = "direct" -> EstablishesDirect
      [] rel = "via" -> EstablishesVia
      [] rel = "sets" -> ContextSets
      [] rel = "setDirect" -> SetEstablishes("direct")
      [] rel = "setVia" -> SetEstablishes("via")
      [] rel = "unfolded" -> Unfolded
      [] rel = "tags" -> TagsAssigned \cup TagsByEdge \cup TagsReturned \cup TagsToFrame \cup TagsFromFrame

Iteration ==
    \E news \in {[rel \in Relations |-> News(rel, RoundRows(rel))]} :
        /\ \E rel \in Relations : news[rel] # {}
        /\ db' = [rel \in Relations |-> JoinRows(db[rel], news[rel])]
=============================================================================
