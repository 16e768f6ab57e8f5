------------------------------ MODULE Analysis ------------------------------
(***************************************************************************)
(* The analysis of a program, end to end: lowering, the index to its       *)
(* fixpoint in any order of its rules and by any of the context joins, and *)
(* again by the engine's own iterations; then the query over its result;   *)
(* against the reference implementation of the semantics. A program also   *)
(* says, in adds and loses, which of its sinks a row of the approximations *)
(* register makes differ, as the corpus's parity lines do.                 *)
(***************************************************************************)
EXTENDS TaintSearch, Semantics

CONSTANT Programs \* the programs analyzed

VARIABLES
    phase,
    first  \* the index's result when the rules ran in any order
input == <<program, facts>>
vars == <<input, evalVars, join, db, queryVars, phase, first>>

Init ==
    /\ program \in Programs
    /\ facts = Facts
    /\ EvalInit
    /\ join = "Scan"
    /\ db = Seeded
    /\ phase = "reference" /\ first = <<>>
    /\ labels = <<>> /\ result = [taint |-> {}, edges |-> {}]
    /\ seeds = <<>> /\ states = <<>> /\ queue = <<>> /\ cur = 0 /\ rest = <<>>

\* The reference, to its least labeling.
Evaluate ==
    /\ phase = "reference"
    /\ \/ EvalStep /\ UNCHANGED <<phase, join>>
       \/ EvalDone /\ phase' = "any" /\ join' \in ContextJoins /\ UNCHANGED evalVars
    /\ UNCHANGED <<input, db, queryVars, first>>

\* One rule, whichever has something new.
FireRule ==
    /\ phase = "any"
    /\ AnyRule
    /\ UNCHANGED <<input, evalVars, join, queryVars, phase, first>>

\* No rule has: index the program again.
Quiescent == \A rel \in Relations : News(rel, RoundRows(rel)) = {}

IndexAgain ==
    /\ phase = "any" /\ Quiescent
    /\ phase' = "rounds" /\ first' = [rel \in Common |-> db[rel]]
    /\ db' = Seeded /\ join' = "Scan"
    /\ UNCHANGED <<input, evalVars, queryVars>>

Iterate ==
    /\ phase = "rounds"
    /\ Iteration
    /\ UNCHANGED <<input, evalVars, join, queryVars, phase, first>>

\* The query is over either result.
Query ==
    /\ phase = "rounds" /\ Quiescent
    /\ phase' = "query"
    /\ db' \in {db, first @@ db}
    /\ UNCHANGED <<input, evalVars, join, first>>
    /\ StartQuery

QueryStep ==
    /\ phase = "query"
    /\ UNCHANGED <<input, evalVars, join, db, first>>
    /\ \/ SearchStep /\ UNCHANGED phase
       \/ FinishSearch /\ phase' = IF Len(labels) = 1 THEN "done" ELSE phase

Next == Evaluate \/ FireRule \/ IndexAgain \/ Iterate \/ Query \/ QueryStep

Spec == Init /\ [][Next]_vars /\ WF_vars(Next)

-----------------------------------------------------------------------------
\* The conditional summaries between two globals whose flow has since become
\* unconditional: the summary rule takes such a flow only while it is conditional,
\* so the row is there or not as the conditional derivation came first or not.
Overtaken(rows) ==
    {s \in DOMAIN rows.summary : /\ IsGlobal(s[2]) /\ IsGlobal(s[4])
                                 /\ rows.summary[s] # Always /\ rows.locals[s] = Always}

\* The comment on rule 3.2: "the result does not depend on iteration order", and
\* "the three variants below compute the same rows". Where a summary was overtaken, an
\* index may have it and what it adds at callers, flows between globals, which the
\* frame has in either; decisions, tags and call targets do not depend on it.
EnginesAgree ==
    LET rows(rel) == {<<r, db[rel][r]>> : r \in DOMAIN db[rel]}
        others(rel) == {<<r, first[rel][r]>> : r \in DOMAIN first[rel]}
        differing(rel) == {r[1] : r \in SymDiff(rows(rel), others(rel))}
        framed(r) == IsGlobal(r[2]) /\ IsGlobal(r[4])
                     /\ [r EXCEPT ![1] = Frame] \in DOMAIN db.assignLike \cap DOMAIN first.assignLike
    IN  phase \in {"query", "done"} =>
            IF Overtaken(db) \cup Overtaken(first) = {} THEN \A rel \in Common : db[rel] = first[rel]
            ELSE /\ \A rel \in Common \ {"locals", "assignLike", "summary"} : db[rel] = first[rel]
                 /\ \A r \in differing("assignLike") \cup differing("summary") : framed(r)

\* docs/limitations.md: "Anything not in this table that differs from the reference
\* implementation is a bug." The query's observable is the reference's, up to the
\* differences the program declares.
ReferenceParity ==
    phase = "done" =>
        /\ EngineObserved \ observed = program.adds
        /\ observed \ EngineObserved = program.loses

\* A path of a row is admissible: the rules compose paths only within the gate, so
\* the paths asked of split_trailing_offset "are members or empty. A non-member is a
\* bug: debug builds panic", and the fixpoint is finite.
PathsAdmissible ==
    \A rel \in Common : \A row \in Rows(rel) :
        CASE rel \in {"locals", "assignLike", "summary"} -> {row[3], row[5]} \subseteq ps
          [] rel \in {"critical", "tags"} -> row[3] \in ps
          [] rel = "direct" -> row[2][2] \in ps
          [] rel = "via" -> {row[2][2], row[5][2]} \subseteq ps

\* The query's search returns with every realizable state: none of the steps of a
\* reached state, under the one bit of call/return matching, leads out. The first
\* target at a sink, the one whose path is reported, is on a shortest path.
QueryComplete == phase = "query" => Search!SearchComplete /\ Search!ShortestPaths

\* The flows that are reported have their witness: along taintEdge, the edges of one
\* reported path per sink, each observed sink is reached from a source of its label.
WitnessesConnect ==
    LET step(seen) == seen \cup {e[3] : e \in {x \in result.edges : x[2] \in seen}}
        reach(k) == FoldSet(LAMBDA e, seen : step(seen),
                            {Vertex(s) : s \in {x \in program.sources : x[4] = k[4]}}, result.edges)
    IN  phase = "done" => \A k \in EngineObserved : Vertex(k) \in reach(k)

\* Every program's analysis ends.
AnalysisEnds == <>(phase = "done")
=============================================================================
