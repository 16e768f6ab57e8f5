----------------------------- MODULE Dominators -----------------------------
(***************************************************************************)
(* The control-flow graph of a function, and its dominator tree and        *)
(* dominance frontier: ctadl-ir's graph/mod.rs and graph/dominators. A     *)
(* function is                                                             *)
(*   [params |-> n, arity |-> n, blocks |-> [0..n -> block]]               *)
(* and a block [stmts, targets, args]: a goto to its targets, or, without  *)
(* targets, a return of its args. The predecessors are derived from the    *)
(* targets: what changes an edge clears their cache.                       *)
(***************************************************************************)
EXTENDS Ir

VARIABLES
    fn,  \* the function
    dfs, \* the depth-first search: stack of <<node, parent>>, nodes in the order found, parents
    lt   \* DomImpl: the Lengauer-Tarjan tables, and the loop's position in them

START == 0
Blocks == DOMAIN fn.blocks
Targets(b) == fn.blocks[b].targets
Successors(b) == Range(Targets(b))
PredecessorSet(b) == {p \in Blocks : b \in Successors(p)}

\* An entry for each edge: a goto may name a block twice.
Predecessors(b) ==
    FlattenSeq([i \in 1..Cardinality(Blocks) |->
                  LET edges == SelectSeq(Targets(i - 1), LAMBDA t : t = b) IN [k \in DOMAIN edges |-> i - 1]])
Ascending(S) == SelectSeq([i \in 1..Cardinality(Blocks) |-> i - 1], LAMBDA b : b \in S)

\* The value an expression has, and a loop over a sequence, one accumulator at a time.
The(S) == CHOOSE x \in S : TRUE
Loop(Step(_, _), init, seq) == The(FoldLeft(LAMBDA accs, x : {Step(acc, x) : acc \in accs}, {init}, seq))

\* A node is pushed once for each edge to it, and is in the order once.
DfsStart == [stack |-> <<<<START, START>>>>, order |-> <<>>, parent |-> <<>>]
DfsPop ==
    /\ dfs.stack # <<>>
    /\ LET n == Last(dfs.stack)[1]
       IN  dfs' = IF n \in Range(dfs.order) THEN [dfs EXCEPT !.stack = Front(@)]
                  ELSE [stack  |-> Front(dfs.stack) \o [i \in DOMAIN Targets(n) |-> <<Targets(n)[i], n>>],
                        order  |-> Append(dfs.order, n),
                        parent |-> (n :> Last(dfs.stack)[2]) @@ dfs.parent]

dfnum(n) == CHOOSE i \in DOMAIN dfs.order : dfs.order[i] = n

\* The tables. Only linked nodes have an ancestor and a best.
DomImplNew ==
    [semi |-> [n \in Blocks |-> n], bucket |-> [n \in Blocks |-> {}], samedom |-> <<>>,
     dom |-> [n \in Blocks |-> START], ancestor |-> <<>>, best |-> <<>>, next |-> Cardinality(Blocks)]

\* The tables after find_candidate_ancestor(v), whose result is then best[v].
RECURSIVE FindCandidateAncestor(_, _)
FindCandidateAncestor(t, v) ==
    LET a == t.ancestor[v]
    IN  IF a \notin DOMAIN t.ancestor THEN t
        ELSE The({[up EXCEPT !.ancestor[v] = t.ancestor[a],
                             !.best[v] = IF dfnum(t.semi[up.best[a]]) < dfnum(t.semi[@]) THEN up.best[a] ELSE @] :
                     up \in {FindCandidateAncestor(t, a)}})

\* The semidominator of n: the lowest of the candidates, over its predecessors.
Semidominator(t0, n) ==
    LET lower(s1, s) == IF dfnum(s1) < dfnum(s) THEN s1 ELSE s
    IN  Loop(LAMBDA acc, v :
                IF dfnum(v) <= dfnum(n) THEN [acc EXCEPT !.s = lower(v, @)]
                ELSE The({[t |-> t, s |-> lower(t.semi[t.best[v]], acc.s)] : t \in {FindCandidateAncestor(acc.t, v)}}),
             [t |-> t0, s |-> dfs.parent[n]], Predecessors(n))

Link(t, p, n) == [t EXCEPT !.ancestor = (n :> p) @@ @, !.best = (n :> n) @@ @]

\* A node of the bucket of p: its dominator, or the node it shares it with.
EmptyBucket(t0, p, v) ==
    The({LET y == t.best[v] IN
         IF t.semi[y] = t.semi[v] THEN [t EXCEPT !.dom[v] = p] ELSE [t EXCEPT !.samedom = (v :> y) @@ @] :
         t \in {FindCandidateAncestor(t0, v)}})

\* One node of semidom's loop, from the last found to the first but the start. A
\* bucket is a hash set: its nodes come in any order.
SemidomNode ==
    /\ lt.next > 1
    /\ LET n == dfs.order[lt.next]
           p == dfs.parent[n]
       IN  \E sd \in {Semidominator(lt, n)} :
           \E t \in {Link([sd.t EXCEPT !.semi[n] = sd.s, !.bucket[sd.s] = @ \cup {n}], p, n)} :
           \E order \in SetToSeqs(t.bucket[p]) :
               lt' = [Loop(LAMBDA u, v : EmptyBucket(u, p, v), t, order)
                        EXCEPT !.bucket[p] = {}, !.next = @ - 1]

\* The deferred dominators, again from the last node to the first.
Dom(t) ==
    Loop(LAMBDA dom, n : IF n \in DOMAIN t.samedom THEN [dom EXCEPT ![n] = dom[t.samedom[n]]] ELSE dom,
             t.dom, Reverse(Tail(dfs.order)))

Children(idom, n) == {m \in Blocks \ {START} : idom[m] = n}

\* A mutant of DominanceFrontier without what the children leave to their parent.
DominanceFrontierLocal(idom) == [x \in Blocks |-> {y \in Successors(x) : idom[y] # x}]

\* Bottom up: what leaves the subtree of each node.
DominanceFrontier(idom) ==
    Loop(LAMBDA df, x :
                [df EXCEPT ![x] = {y \in Successors(x) \cup UNION {df[z] : z \in Children(idom, x)} : idom[y] # x}],
             [n \in Blocks |-> {}], Reverse(dfs.order))

-----------------------------------------------------------------------------
\* What the tree is meant to be.
Closure(S, Step(_)) == FoldSet(LAMBDA b, T : UNION {{x} \cup Step(x) : x \in T}, S, Blocks)
Dominates(a, b) == a = START \/ a = b \/ b \notin Closure({START}, LAMBDA x : Successors(x) \ {a})
TrueFrontier(x) == {y \in Blocks : /\ \E p \in PredecessorSet(y) : Dominates(x, p)
                                   /\ ~(Dominates(x, y) /\ x # y)}
=============================================================================
