---------------------------- MODULE TaintSearch ----------------------------
(***************************************************************************)
(* The query engine, ctadl-ascent's query_engine/search.rs: for each label *)
(* a realizable-path search (GraphSearch) from its sources over the        *)
(* implicit taint graph of the index's result, with every sink as a        *)
(* target. A node is <<function, variable, path, level, scope>>; an        *)
(* endpoint is <<function, variable, path, label>>.                        *)
(***************************************************************************)
EXTENDS IndexRules

VARIABLES
    labels, \* the labels whose search is still to run, the first one running
    seeds, states, queue, cur, rest, \* the search of GraphSearch
    result  \* QueryResult: taint, taintEdge and sinkTags

queryVars == <<labels, seeds, states, queue, cur, rest, result>>

\* QueryFacts: the unconditional edges, and the calls with those resolved.
queryAssign == {e \in Rows("assignLike") : IsAlways("assignLike", e)}
FinalCall == facts.call \cup ResolvedCall

Home(f, v) == IF IsGlobal(v) THEN Frame ELSE f
IsArg(v) == v[1] = "arg"

\* Copies whose source holds the same object; not those that write a formal back,
\* nor a call's return.
HopCopies(f, v) ==
    {e[4] : e \in {x \in queryAssign : /\ x[1] = f /\ x[2] = v /\ x[4] # v
                                       /\ x[3] = <<>> /\ x[5] = <<>>
                                       /\ ~IsFormal(v) /\ ~(IsArg(v) /\ v[3] = -1)}}

\* A read at q off a value saturating at p.
SaturatingRead(q, p) ==
    LET steps(x) == SelectSeq(x, LAMBDA s : ~IsOffset(s))
    IN  IsPrefix(steps(p), steps(q)) \/ steps(p) = Append(steps(q), Deref)

LabeledSuccessors(n) ==
    LET f == n[1]  v == n[2]  p == n[3]  level == n[4]  scope == n[5]
        here == {e \in queryAssign : Home(e[1], e[4]) = f /\ e[4] = v}
        at(sinks) == {k \in sinks : k[1] = f /\ k[2] = v}
        intra(nodes) == {<<m, <<"Intra">>>> : m \in nodes}
        valued(q) == ~EndsIn(q, "#value") /\ Concat(q, <<Value>>) \in ps
        endpoint ==
            {<<f, v, Concat(p, <<Value>>), level, scope>> : k \in {x \in at(program.sources) : x[3] = p /\ valued(p)}}
            \cup {<<f, v, k[3], level, scope>> :
                     k \in {x \in at(program.sinks) : valued(x[3]) /\ Concat(x[3], <<Value>>) = p}}
        direct ==
            UNION {{<<e[1], e[2], p2, level, IF e[3] = <<>> /\ e[5] = <<>> THEN "Fixed" ELSE "All">> :
                      p2 \in SubstitutePrefix(p, e[5], e[3]) \cap ps} : e \in here}
        address ==
            {<<e[1], e[2], e[3], level, "All">> :
                e \in {x \in here : x[3] \in ps /\ \E k \in SplitTrailingOffset(x[5]) : k[1] = p}}
        aliasBack ==
            {<<f, e[4], Concat(e[5], p), level, "All">> :
                e \in {x \in queryAssign : /\ x[1] = f /\ x[2] = v /\ x[3] = <<>> /\ x[5] # <<>>
                                           /\ p # <<>> /\ Concat(x[5], p) \in ps}}
        hop == IF scope = "All" /\ p \in ps \cup {<<>>}
               THEN {<<f, w, p, level, "All">> : w \in HopCopies(f, v)} ELSE {}
        saturated ==
            IF level # "Saturating" THEN {}
            ELSE {<<e[1], e[2], <<>>, level, "All">> :
                    e \in {x \in here : x[3] = <<>> /\ x[5] # <<>> /\ SaturatingRead(x[5], p)}}
                 \cup {<<f, v, k[3], level, scope>> :
                         k \in {x \in at(program.sinks) : Len(x[3]) > Len(p) /\ IsPrefix(p, x[3])}}
        exits ==
            {<<<<c[1], Arg(c[2], v), p, level, "All">>, <<"Return", c[1], c[2]>>>> :
                c \in {x \in FinalCall : /\ x[3] = f /\ IsFormal(v)
                                         /\ \E r \in facts.formalParam : /\ r[1] = f /\ r[2] = v
                                                                         /\ IsOut(v, r[3], p)}}
        entries ==
            {<<<<c[3], Formal(v[3]), p, level, "All">>, <<"Call", f, v[2]>>>> :
                c \in {x \in FinalCall : /\ IsArg(v) /\ x[1] = f /\ x[2] = v[2]
                                         /\ \E r \in facts.formalParam : r[1] = x[3] /\ r[2] = Formal(v[3])}}
        \* A global vertex is the frame's.
        rehome(s) ==
            LET g == s[1][1]  to == Home(g, s[1][2])
            IN  IF to # g \/ (g # f /\ f = Frame)
                THEN <<[s[1] EXCEPT ![1] = to], IF s[2] = <<"Intra">> /\ to # f THEN <<"Global">> ELSE s[2]>>
                ELSE s
    IN  {rehome(s) : s \in intra(endpoint \cup direct \cup address \cup aliasBack \cup hop \cup saturated)
                           \cup exits \cup entries}

\* A mutant of Expand that returns to any caller.
ExpandUnmatched(state, edge) ==
    CASE edge[1] = "Intra" -> {state}
      [] edge[1] = "Call" -> {"Restricted"}
      [] edge[1] = "Return" -> {state}
      [] edge[1] = "Global" -> {"Free"}

\* One bit of call/return matching.
Expand(state, edge) ==
    CASE edge[1] = "Intra" -> {state}
      [] edge[1] = "Call" -> {"Restricted"}
      [] edge[1] = "Return" -> {"Free"} \cap {state}
      [] edge[1] = "Global" -> {"Free"}

\* The nodes there are.
TaintNode ==
    LET ends  == program.sources \cup program.sinks
        edges == {<<e[2], e[3]>> : e \in queryAssign} \cup {<<e[4], e[5]>> : e \in queryAssign}
                 \cup {<<k[2], k[3]>> : k \in ends} \cup {<<r[2], <<>>>> : r \in facts.formalParam}
        paths == ps \cup {<<>>} \cup {e[2] : e \in edges}
        args  == {Arg(c[2], r[2]) : c \in FinalCall, r \in facts.formalParam}
    IN  (DOMAIN program.fns \cup {Frame}) \X ({e[1] : e \in edges} \cup args)
          \X (paths \cup {Concat(p, <<Value>>) : p \in paths})
          \X {"Plain", "Saturating"} \X {"Fixed", "All"}

\* The search for the first label. Successors come in content order: some fixed
\* order.
Succs == [n \in TaintNode |-> Listed(LabeledSuccessors(n))]
StartSet(pending) ==
    IF pending = <<>> THEN <<>>
    ELSE Listed({<<k[1], k[2], k[3], IF k \in program.saturating THEN "Saturating" ELSE "Plain", "All">> :
                     k \in {x \in program.sources : x[4] = Head(pending)}})
Search == INSTANCE GraphSearch WITH Start <- "Free", succs <- Succs, starts <- StartSet(labels)

Vertex(n) == <<n[1], n[2], n[3]>>
SinksAt(n) == {k \in program.sinks : Vertex(k) = Vertex(n)}

\* The first endpoint a search state descends from.
Origin(i) ==
    LET root[j \in DOMAIN states] == IF states[j].parent = 0 THEN j ELSE root[states[j].parent]
    IN  CHOOSE k \in program.sources : k[4] = Head(labels) /\ Vertex(k) = Vertex(states[root[i]].node)

\* A mutant of PathTo that does not follow the parents.
PathToItself(i) == {i}

PathTo(i) ==
    LET up[j \in DOMAIN states] == {j} \cup IF states[j].parent = 0 THEN {} ELSE up[states[j].parent]
    IN  up[i]

\* One path per sink vertex: the first target state at it.
ReportedTargets ==
    LET targets == {i \in DOMAIN states : SinksAt(states[i].node) # {}}
    IN  {t \in targets : \A u \in targets : Vertex(states[u].node) = Vertex(states[t].node) => t <= u}

\* What a finished search adds: rows <<vertex, state, direction, endpoint>> for the
\* arguments and sinks it reached, the edges of the reported paths, and the sinks'
\* tags on their nodes.
SearchResult ==
    LET emitted == {i \in DOMAIN states :
                      /\ states[i].parent # 0
                      /\ IsArg(states[i].node[2]) \/ SinksAt(states[i].node) # {}}
        row(i, dir, k) == <<Vertex(states[i].node), states[i].annot, dir, k>>
    IN  [taint |-> {row(i, "Forward", Origin(i)) : i \in emitted},
         edges |-> UNION {{<<states[i].edge, Vertex(states[states[i].parent].node), Vertex(states[i].node)>> :
                             i \in {x \in PathTo(t) : states[x].parent # 0}} : t \in ReportedTargets},
         tags  |-> UNION {UNION {{row(i, "Backward", k) : k \in SinksAt(states[t].node)} : i \in PathTo(t)} :
                             t \in ReportedTargets}]

SeedRows ==
    {<<Vertex(k), "Free", "Forward", k>> : k \in program.sources}
    \cup {<<Vertex(k), "Free", "Backward", k>> : k \in program.sinks}

\* taint_search: the labels one after the other, each a whole search.
StartQuery ==
    /\ labels' = Listed({k[4] : k \in program.sources})
    /\ result' = [taint |-> SeedRows, edges |-> {}]
    /\ Search!Begin(StartSet(labels'))

SearchStep ==
    /\ labels # <<>>
    /\ Search!Seed \/ Search!Pop \/ Search!Visit
    /\ UNCHANGED <<labels, result>>

FinishSearch ==
    /\ labels # <<>>
    /\ Search!SearchDone
    /\ labels' = Tail(labels)
    /\ result' = [taint |-> result.taint \cup SearchResult.taint \cup SearchResult.tags,
                  edges |-> result.edges \cup SearchResult.edges]
    /\ Search!Begin(StartSet(labels'))

\* engine_observable: the sinks a forward row of their own label is at.
EngineObserved ==
    {k \in program.sinks : \E r \in result.taint : r[1] = Vertex(k) /\ r[3] = "Forward" /\ r[4][4] = k[4]}
=============================================================================
