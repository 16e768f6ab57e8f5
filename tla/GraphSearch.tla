---------------------------- MODULE GraphSearch ----------------------------
(***************************************************************************)
(* find_annotated_paths_from_set of ctadl-ir's graph/mod.rs: a             *)
(* breadth-first search over a lazily expanded, labeled graph, from a set  *)
(* of nodes, in which each path carries an annotation that an edge may     *)
(* change or refuse. visited is the nodes and annotations of states.       *)
(***************************************************************************)
EXTENDS Integers, Sequences

CONSTANTS
    Start,       \* LazyAnnotation::start
    Expand(_, _) \* LazyAnnotation::expand(annotation, label): at most one annotation

VARIABLES
    succs,   \* labeled_successors: each node's sequence of <<node, label>>
    starts,  \* the nodes to start from, a sequence
    seeds,   \* those not seeded yet
    states,  \* the states reached, in discovery order
    queue,   \* the indices of the states not expanded yet
    cur,     \* the state being expanded
    rest     \* its successors not looked at yet
searchVars == <<seeds, states, queue, cur, rest>>

Elements(s) == {s[i] : i \in DOMAIN s}

Visited == {<<states[i].node, states[i].annot>> : i \in DOMAIN states}

\* A new state goes to the back of the queue.
Discover(node, annot, parent, edge) ==
    /\ states' = Append(states, [node |-> node, annot |-> annot, parent |-> parent, edge |-> edge])
    /\ queue' = Append(queue, Len(states) + 1)

\* A mutant of Fresh that visits a node once, under one annotation.
FreshNode(annot, label, next) ==
    {a \in Expand(annot, label) : \A s \in Visited : s[1] # next}

\* The annotations under which an edge leads to a state that is not visited yet.
Fresh(annot, label, next) ==
    {a \in Expand(annot, label) : <<next, a>> \notin Visited}

Begin(nodes) ==
    /\ seeds' = nodes
    /\ states' = <<>> /\ queue' = <<>>
    /\ cur' = 0 /\ rest' = <<>>

Seed ==
    /\ seeds # <<>>
    /\ seeds' = Tail(seeds)
    /\ IF <<Head(seeds), Start>> \in Visited THEN UNCHANGED <<states, queue>>
       ELSE Discover(Head(seeds), Start, 0, 0)
    /\ UNCHANGED <<cur, rest>>

Pop ==
    /\ seeds = <<>> /\ rest = <<>> /\ queue # <<>>
    /\ cur' = Head(queue)
    /\ queue' = Tail(queue)
    /\ rest' = succs[states[Head(queue)].node]
    /\ UNCHANGED <<seeds, states>>

Visit ==
    /\ rest # <<>>
    /\ rest' = Tail(rest)
    /\ LET next  == Head(rest)[1]
           label == Head(rest)[2]
           fresh == Fresh(states[cur].annot, label, next)
       IN  \/ fresh = {} /\ UNCHANGED <<states, queue>>
           \/ \E a \in fresh : Discover(next, a, cur, label)
    /\ UNCHANGED <<seeds, cur>>

SearchDone == seeds = <<>> /\ rest = <<>> /\ queue = <<>>

Init ==
    /\ seeds = starts
    /\ states = <<>> /\ queue = <<>>
    /\ cur = 0 /\ rest = <<>>
Next == (Seed \/ Pop \/ Visit) /\ UNCHANGED <<succs, starts>>
Spec == Init /\ [][Next]_<<succs, starts, searchVars>>

-----------------------------------------------------------------------------
\* One step of a path: an edge, and an annotation that lets it through.
Steps(state) ==
    UNION {{<<e[1], a>> : a \in Expand(state[2], e[2])} : e \in Elements(succs[state[1]])}

\* The doc of AnnotatedSetSearch: "A state's parent always precedes it", and what
\* path_to follows is a path: every state is a start, or one step from its parent.
FoundByWalk ==
    \A i \in DOMAIN states :
        LET s == states[i] IN
        \/ s.parent = 0 /\ s.annot = Start /\ s.node \in Elements(starts)
        \/ /\ s.parent \in 1..(i - 1)
           /\ <<s.node, s.edge>> \in Elements(succs[states[s.parent].node])
           /\ s.annot \in Expand(states[s.parent].annot, s.edge)

\* The doc of find_annotated_paths_from_set: "it explores the whole reachable
\* state space". When it returns, the starts are in and no step leads out.
SearchComplete ==
    SearchDone =>
        /\ \A n \in Elements(starts) : <<n, Start>> \in Visited
        /\ \A s \in Visited : Steps(s) \subseteq Visited

\* Within any closed set of states that has the starts, the search stays: with
\* SearchComplete, it returns the least one.
Within(S) ==
    /\ \A n \in Elements(starts) : <<n, Start>> \in S
    /\ \A s \in S : Steps(s) \subseteq S
    => Visited \subseteq S

\* "The traversal is breadth-first, so the first target entry for a node lies on a
\* shortest path from the start set": no step reaches a state nearer than its depth.
ShortestPaths ==
    LET depth[i \in DOMAIN states] == IF states[i].parent = 0 THEN 0 ELSE depth[states[i].parent] + 1
    IN  SearchDone =>
          \A i \in DOMAIN states :
              LET steps == Steps(<<states[i].node, states[i].annot>>)
              IN  \A j \in DOMAIN states :
                      <<states[j].node, states[j].annot>> \in steps => depth[j] <= depth[i] + 1
=============================================================================
