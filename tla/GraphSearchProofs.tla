------------------------- MODULE GraphSearchProofs -------------------------
(***************************************************************************)
(* Proofs that the annotated breadth-first search finds exactly the states *)
(* reachable from its starts, over any graph, finite or not, whatever the  *)
(* annotations and the edges that refuse them.                             *)
(***************************************************************************)
EXTENDS GraphSearch, TLAPS

graphVars == <<succs, starts, searchVars>>

\* The graph searched: nodes N, labels L.
IsGraph(N, L) ==
    /\ succs \in [N -> Seq(N \X L)]
    /\ starts \in Seq(N)

\* LazyAnnotation over annotations A: expand returns an Option.
IsAnnotation(A, L) ==
    /\ Start \in A
    /\ \A a \in A, l \in L : Expand(a, l) \subseteq A
    /\ \A a \in A, l \in L : \A x, y \in Expand(a, l) : x = y

State(N, L, A) == [node : N, annot : A, parent : Nat, edge : L \cup {0}]

SearchTypes(N, L, A) ==
    /\ IsGraph(N, L)
    /\ seeds \in Seq(N)
    /\ states \in Seq(State(N, L, A))
    /\ queue \in Seq(DOMAIN states)
    /\ rest \in Seq(N \X L)
    /\ cur \in Nat
    /\ rest # <<>> => cur \in DOMAIN states

\* What is still to be looked at is of the graph.
Pending ==
    /\ Elements(seeds) \subseteq Elements(starts)
    /\ rest # <<>> => Elements(rest) \subseteq Elements(succs[states[cur].node])

\* Every start is seeded or waits to be; every state waits in the queue or is
\* expanded, but for what is left of the one being expanded.
Explored(i) ==
    \A e \in Elements(succs[states[i].node]) :
        \/ i = cur /\ e \in Elements(rest)
        \/ \A a \in Expand(states[i].annot, e[2]) : <<e[1], a>> \in Visited

Accounted ==
    /\ \A n \in Elements(starts) : n \in Elements(seeds) \/ <<n, Start>> \in Visited
    /\ \A i \in DOMAIN states : i \in Elements(queue) \/ Explored(i)

-----------------------------------------------------------------------------
(***************************************************************************)
(* Sequences and the states visited.                                       *)
(***************************************************************************)
\* The elements of a sequence that is not empty are its head and those of its tail.
LEMMA HeadTail ==
    ASSUME NEW T, NEW s \in Seq(T), s # <<>>
    PROVE  /\ Head(s) \in T /\ Tail(s) \in Seq(T)
           /\ Elements(s) = {Head(s)} \cup Elements(Tail(s))
<1>1. Head(s) \in T /\ Tail(s) \in Seq(T) /\ Len(s) \in Nat \ {0} /\ Head(s) = s[1]
  OBVIOUS
<1>2. DOMAIN s = 1..Len(s) /\ DOMAIN Tail(s) = 1..(Len(s) - 1)
  OBVIOUS
<1>3. \A i \in 1..(Len(s) - 1) : Tail(s)[i] = s[i + 1]
  OBVIOUS
<1>4. ASSUME NEW x \in Elements(s) PROVE x \in {Head(s)} \cup Elements(Tail(s))
  <2>1. PICK i \in 1..Len(s) : x = s[i]
    BY <1>2, <1>4, Zenon DEF Elements
  <2>2. CASE i = 1
    BY <2>1, <2>2, <1>1, Zenon
  <2>3. CASE i # 1
    <3>1. i - 1 \in 1..(Len(s) - 1) /\ s[i] = Tail(s)[i - 1]
      BY <2>3, <1>1, <1>3
    <3> QED
      BY <3>1, <2>1, <1>2, ZenonT(60) DEF Elements
  <2> QED
    BY <2>2, <2>3, Zenon
<1>5. ASSUME NEW x \in {Head(s)} \cup Elements(Tail(s)) PROVE x \in Elements(s)
  <2>1. CASE x = Head(s)
    <3>1. 1 \in 1..Len(s)
      BY <1>1
    <3> QED
      BY <3>1, <2>1, <1>1, <1>2, Zenon DEF Elements
  <2>2. CASE x \in Elements(Tail(s))
    <3>1. PICK i \in 1..(Len(s) - 1) : x = Tail(s)[i]
      BY <2>2, <1>2, Zenon DEF Elements
    <3>2. i + 1 \in 1..Len(s) /\ x = s[i + 1]
      BY <3>1, <1>1, <1>3
    <3> QED
      BY <3>2, <1>2, Zenon DEF Elements
  <2> QED
    BY <1>5, <2>1, <2>2, Zenon
<1> QED
  BY <1>1, <1>4, <1>5, Zenon

\* Appending adds one element.
LEMMA AppendElements ==
    ASSUME NEW T, NEW s \in Seq(T), NEW x \in T
    PROVE  /\ Append(s, x) \in Seq(T)
           /\ DOMAIN Append(s, x) = DOMAIN s \cup {Len(s) + 1}
           /\ \A i \in DOMAIN s : Append(s, x)[i] = s[i] /\ i \in 1..Len(s)
           /\ Append(s, x)[Len(s) + 1] = x
           /\ Elements(Append(s, x)) = Elements(s) \cup {x}
<1>1. /\ Append(s, x) \in Seq(T) /\ Len(s) \in Nat
      /\ DOMAIN s = 1..Len(s) /\ DOMAIN Append(s, x) = 1..(Len(s) + 1)
  OBVIOUS
<1>2. DOMAIN Append(s, x) = DOMAIN s \cup {Len(s) + 1}
  BY <1>1
<1>3. /\ \A i \in DOMAIN s : Append(s, x)[i] = s[i] /\ i \in 1..Len(s)
      /\ Append(s, x)[Len(s) + 1] = x
  OBVIOUS
<1>4. Elements(Append(s, x)) = Elements(s) \cup {x}
  BY <1>2, <1>3, Zenon DEF Elements
<1> QED
  BY <1>1, <1>2, <1>3, <1>4, Zenon

\* The empty sequence has no element.
LEMMA NoElements == Elements(<<>>) = {}
  BY DEF Elements

\* A discovered state comes after the others, and waits in the queue.
LEMMA DiscoverAdds ==
    ASSUME NEW N, NEW L, NEW A, SearchTypes(N, L, A),
           NEW n \in N, NEW a \in A, NEW p \in Nat, NEW e \in L \cup {0},
           Discover(n, a, p, e)
    PROVE  /\ states' \in Seq(State(N, L, A)) /\ queue' \in Seq(DOMAIN states')
           /\ Len(states) \in Nat
           /\ DOMAIN states' = DOMAIN states \cup {Len(states) + 1}
           /\ \A i \in DOMAIN states : states'[i] = states[i] /\ i \in 1..Len(states)
           /\ states'[Len(states) + 1].node = n /\ states'[Len(states) + 1].annot = a
           /\ states'[Len(states) + 1].parent = p /\ states'[Len(states) + 1].edge = e
           /\ Visited' = Visited \cup {<<n, a>>}
           /\ Elements(queue') = Elements(queue) \cup {Len(states) + 1}
<1> DEFINE new == [node |-> n, annot |-> a, parent |-> p, edge |-> e]
<1>1. states \in Seq(State(N, L, A)) /\ queue \in Seq(DOMAIN states) /\ Len(states) \in Nat
  BY DEF SearchTypes
<1>2. new \in State(N, L, A) /\ new.node = n /\ new.annot = a /\ new.parent = p /\ new.edge = e
  BY Zenon DEF State
<1>3. states' = Append(states, new) /\ queue' = Append(queue, Len(states) + 1)
  BY Zenon DEF Discover
<1> HIDE DEF new
<1>4. /\ states' \in Seq(State(N, L, A))
      /\ DOMAIN states' = DOMAIN states \cup {Len(states) + 1}
      /\ \A i \in DOMAIN states : states'[i] = states[i] /\ i \in 1..Len(states)
      /\ states'[Len(states) + 1] = new
  BY <1>1, <1>2, <1>3, AppendElements
<1>5. Visited' = Visited \cup {<<n, a>>}
  BY <1>2, <1>4, ZenonT(60) DEF Visited
<1>6. queue \in Seq(DOMAIN states') /\ Len(states) + 1 \in DOMAIN states'
  BY <1>1, <1>4
<1>7. queue' \in Seq(DOMAIN states') /\ Elements(queue') = Elements(queue) \cup {Len(states) + 1}
  BY <1>6, <1>3, AppendElements
<1> QED
  BY <1>1, <1>2, <1>4, <1>5, <1>7, Zenon

\* An edge still to be looked at is an edge of a state reached.
LEMMA HeadIsEdge ==
    ASSUME NEW N, NEW L, NEW A, SearchTypes(N, L, A), rest # <<>>
    PROVE  /\ Head(rest)[1] \in N /\ Head(rest)[2] \in L
           /\ Head(rest) = <<Head(rest)[1], Head(rest)[2]>>
           /\ Tail(rest) \in Seq(N \X L)
           /\ Elements(rest) = {Head(rest)} \cup Elements(Tail(rest))
           /\ cur \in DOMAIN states /\ cur \in Nat
           /\ states[cur].node \in N /\ states[cur].annot \in A
<1>1. rest \in Seq(N \X L)
  BY Zenon DEF SearchTypes
<1>2. Head(rest) \in N \X L /\ Tail(rest) \in Seq(N \X L)
      /\ Elements(rest) = {Head(rest)} \cup Elements(Tail(rest))
  BY <1>1, HeadTail, Zenon
<1>3. states[cur] \in State(N, L, A) /\ cur \in DOMAIN states /\ cur \in Nat
  BY DEF SearchTypes
<1> QED
  BY <1>2, <1>3 DEF State

-----------------------------------------------------------------------------
(***************************************************************************)
(* The parts of the inductive invariant.                                   *)
(***************************************************************************)
\* The variables keep their types.
LEMMA TypesStep ==
    ASSUME NEW N, NEW L, NEW A, IsAnnotation(A, L), SearchTypes(N, L, A), [Next]_graphVars
    PROVE  SearchTypes(N, L, A)'
<1>1. CASE Seed /\ UNCHANGED <<succs, starts>>
  <2>1. Head(seeds) \in N /\ Tail(seeds) \in Seq(N)
    BY <1>1, HeadTail, Zenon DEF Seed, SearchTypes
  <2>2. CASE UNCHANGED <<states, queue>>
    BY <1>1, <2>1, <2>2, Zenon DEF Seed, SearchTypes, IsGraph
  <2>3. CASE Discover(Head(seeds), Start, 0, 0)
    <3>1. /\ states' \in Seq(State(N, L, A)) /\ queue' \in Seq(DOMAIN states')
          /\ DOMAIN states \subseteq DOMAIN states'
      BY <2>1, <2>3, DiscoverAdds, Zenon DEF IsAnnotation
    <3> QED
      BY <1>1, <2>1, <3>1, SMTT(40) DEF Seed, SearchTypes, IsGraph
  <2> QED
    BY <1>1, <2>2, <2>3, Zenon DEF Seed
<1>2. CASE Pop /\ UNCHANGED <<succs, starts>>
  <2>1. Head(queue) \in DOMAIN states /\ Tail(queue) \in Seq(DOMAIN states)
    BY <1>2, HeadTail, Zenon DEF Pop, SearchTypes
  <2>2. states[Head(queue)] \in State(N, L, A) /\ Head(queue) \in Nat
    BY <2>1 DEF SearchTypes
  <2>3. succs[states[Head(queue)].node] \in Seq(N \X L)
    BY <2>2, SMTT(40) DEF SearchTypes, IsGraph, State
  <2> QED
    BY <1>2, <2>1, <2>2, <2>3, Zenon DEF Pop, SearchTypes, IsGraph
<1>3. CASE Visit /\ UNCHANGED <<succs, starts>>
  <2>1. /\ Head(rest)[1] \in N /\ Head(rest)[2] \in L /\ Tail(rest) \in Seq(N \X L)
        /\ cur \in DOMAIN states /\ cur \in Nat /\ states[cur].annot \in A
    BY <1>3, HeadIsEdge, ZenonT(60) DEF Visit
  <2>2. CASE UNCHANGED <<states, queue>>
    BY <1>3, <2>1, <2>2, Zenon DEF Visit, SearchTypes, IsGraph
  <2>3. CASE \E a \in Fresh(states[cur].annot, Head(rest)[2], Head(rest)[1]) :
               Discover(Head(rest)[1], a, cur, Head(rest)[2])
    <3>1. PICK a \in A : Discover(Head(rest)[1], a, cur, Head(rest)[2])
      BY <2>1, <2>3, Zenon DEF Fresh, IsAnnotation
    <3>2. /\ states' \in Seq(State(N, L, A)) /\ queue' \in Seq(DOMAIN states')
          /\ DOMAIN states \subseteq DOMAIN states'
      BY <2>1, <3>1, DiscoverAdds
    <3> QED
      BY <1>3, <2>1, <3>2, Zenon DEF Visit, SearchTypes, IsGraph
  <2> QED
    BY <1>3, <2>2, <2>3, Zenon DEF Visit
<1>4. CASE UNCHANGED graphVars
  BY <1>4, Zenon DEF graphVars, searchVars, SearchTypes, IsGraph
<1> QED
  BY <1>1, <1>2, <1>3, <1>4, Zenon DEF Next

\* What is pending stays of the graph.
LEMMA PendingStep ==
    ASSUME NEW N, NEW L, NEW A, IsAnnotation(A, L), SearchTypes(N, L, A), Pending,
           [Next]_graphVars
    PROVE  Pending'
<1>1. CASE Seed /\ UNCHANGED <<succs, starts>>
  <2>1. seeds \in Seq(N) /\ seeds # <<>> /\ seeds' = Tail(seeds) /\ Head(seeds) \in N
    BY <1>1, HeadTail, Zenon DEF Seed, SearchTypes
  <2>2. Elements(Tail(seeds)) \subseteq Elements(seeds)
    BY <2>1, HeadTail, Zenon
  <2>3. ASSUME rest # <<>> PROVE cur \in DOMAIN states /\ states'[cur] = states[cur]
    <3>1. cur \in DOMAIN states
      BY <2>3, Zenon DEF SearchTypes
    <3>2. CASE Discover(Head(seeds), Start, 0, 0)
      BY <2>1, <3>1, <3>2, DiscoverAdds, Zenon DEF IsAnnotation
    <3> QED
      BY <1>1, <3>1, <3>2, Zenon DEF Seed
  <2>4. rest' # <<>> => Elements(rest') \subseteq Elements(succs'[states'[cur'].node])
    BY <1>1, <2>3, Zenon DEF Pending, Seed
  <2>5. Elements(seeds') \subseteq Elements(starts')
    BY <1>1, <2>1, <2>2, Zenon DEF Pending
  <2> QED
    BY <2>4, <2>5, Zenon DEF Pending, Elements
<1>2. CASE Pop /\ UNCHANGED <<succs, starts>>
  BY <1>2 DEF Pop, Pending, Elements
<1>3. CASE Visit /\ UNCHANGED <<succs, starts>>
  <2>1. /\ Head(rest)[1] \in N /\ Head(rest)[2] \in L
        /\ Elements(rest) = {Head(rest)} \cup Elements(Tail(rest))
        /\ cur \in DOMAIN states /\ cur \in Nat /\ states[cur].annot \in A
    BY <1>3, HeadIsEdge, ZenonT(60) DEF Visit
  <2>2. states'[cur] = states[cur]
    <3>1. ASSUME NEW a \in A, Discover(Head(rest)[1], a, cur, Head(rest)[2])
          PROVE  states'[cur] = states[cur]
      BY <2>1, <3>1, DiscoverAdds
    <3> QED
      BY <1>3, <2>1, <3>1, ZenonT(60) DEF Visit, Fresh, IsAnnotation
  <2>3. Elements(rest') \subseteq Elements(rest) /\ rest # <<>>
    BY <1>3, <2>1, Zenon DEF Visit
  <2>4. Elements(rest') \subseteq Elements(succs'[states'[cur'].node])
    BY <1>3, <2>2, <2>3, Zenon DEF Visit, Pending
  <2>5. Elements(seeds') \subseteq Elements(starts')
    BY <1>3, Zenon DEF Visit, Pending
  <2> QED
    BY <2>4, <2>5, ZenonT(60) DEF Pending, Elements
<1>4. CASE UNCHANGED graphVars
  BY <1>4 DEF graphVars, searchVars, Pending, Elements
<1> QED
  BY <1>1, <1>2, <1>3, <1>4, Zenon DEF Next

\* A start, or a step from the state being expanded: the clause of FoundByWalk that
\* a new state satisfies.
Walked(i) ==
    LET s == states[i] IN
    \/ s.parent = 0 /\ s.annot = Start /\ s.node \in Elements(starts)
    \/ /\ s.parent \in 1..(i - 1)
       /\ <<s.node, s.edge>> \in Elements(succs[states[s.parent].node])
       /\ s.annot \in Expand(states[s.parent].annot, s.edge)

\* A state that is found stays so as others are added after it.
LEMMA WalkedStays ==
    ASSUME NEW i \in DOMAIN states, Walked(i), UNCHANGED <<succs, starts>>,
           i \in Nat, 1..i \subseteq DOMAIN states,
           \A j \in DOMAIN states : states'[j] = states[j]
    PROVE  Walked(i)'
<1>1. states'[i] = states[i]
  BY Zenon
<1>2. CASE states[i].parent = 0 /\ states[i].annot = Start /\ states[i].node \in Elements(starts)
  BY <1>1, <1>2, Zenon DEF Walked, Elements
<1>3. CASE /\ states[i].parent \in 1..(i - 1)
           /\ <<states[i].node, states[i].edge>> \in Elements(succs[states[states[i].parent].node])
           /\ states[i].annot \in Expand(states[states[i].parent].annot, states[i].edge)
  <2>1. states[i].parent \in DOMAIN states
    BY <1>3
  <2>2. states'[states'[i].parent] = states[states[i].parent]
    BY <1>1, <2>1, Zenon
  <2> QED
    BY <1>1, <1>3, <2>2, ZenonT(60) DEF Walked, Elements
<1> QED
  BY <1>2, <1>3, Zenon DEF Walked

\* Every state is found by a walk.
LEMMA WalkStep ==
    ASSUME NEW N, NEW L, NEW A, IsAnnotation(A, L), SearchTypes(N, L, A), Pending,
           FoundByWalk, [Next]_graphVars
    PROVE  FoundByWalk'
<1> USE DEF graphVars, searchVars
<1>1. FoundByWalk <=> \A i \in DOMAIN states : Walked(i)
  BY Zenon DEF FoundByWalk, Walked
<1>2. FoundByWalk' <=> \A i \in DOMAIN states' : Walked(i)'
  BY Zenon DEF FoundByWalk, Walked
<1>3. UNCHANGED <<succs, starts>>
  BY Zenon DEF Next
<1>4. \A i \in DOMAIN states : i \in Nat /\ 1..i \subseteq DOMAIN states
  <2>1. states \in Seq(State(N, L, A))
    BY Zenon DEF SearchTypes
  <2>2. DOMAIN states = 1..Len(states) /\ Len(states) \in Nat
    BY <2>1
  <2> QED
    BY <2>2
<1>5. CASE states' = states
  BY <1>1, <1>2, <1>3, <1>4, <1>5, WalkedStays, Zenon
<1>6. ASSUME NEW n \in N, NEW a \in A, NEW p \in Nat, NEW e \in L \cup {0}, Discover(n, a, p, e),
             \/ p = 0 /\ a = Start /\ n \in Elements(starts)
             \/ /\ p \in DOMAIN states
                /\ <<n, e>> \in Elements(succs[states[p].node])
                /\ a \in Expand(states[p].annot, e)
      PROVE  FoundByWalk'
  <2>1. /\ Len(states) \in Nat
        /\ DOMAIN states' = DOMAIN states \cup {Len(states) + 1}
        /\ \A i \in DOMAIN states : states'[i] = states[i] /\ i \in 1..Len(states)
        /\ states'[Len(states) + 1].node = n /\ states'[Len(states) + 1].annot = a
        /\ states'[Len(states) + 1].parent = p /\ states'[Len(states) + 1].edge = e
    <3>1. Discover(n, a, p, e)
      BY <1>6, Zenon
    <3>2. Len(states) \in Nat /\ DOMAIN states' = DOMAIN states \cup {Len(states) + 1}
      BY <3>1, DiscoverAdds, ZenonT(60)
    <3>3. \A i \in DOMAIN states : states'[i] = states[i] /\ i \in 1..Len(states)
      BY <3>1, DiscoverAdds, SMTT(40)
    <3>4. /\ states'[Len(states) + 1].node = n /\ states'[Len(states) + 1].annot = a
          /\ states'[Len(states) + 1].parent = p /\ states'[Len(states) + 1].edge = e
      BY <3>1, DiscoverAdds
    <3> QED
      BY <3>2, <3>3, <3>4, Zenon
  <2>2. \A i \in DOMAIN states : Walked(i)'
    BY <1>1, <1>3, <1>4, <2>1, WalkedStays, Zenon
  <2>3. PICK k : k = Len(states) + 1
    BY Zenon
  <2>4. Walked(k)'
    <3>1. /\ states'[k].node = n /\ states'[k].annot = a
          /\ states'[k].parent = p /\ states'[k].edge = e
      BY <2>1, <2>3, Zenon
    <3>2. CASE p = 0 /\ a = Start /\ n \in Elements(starts)
      <4>1. /\ states'[k].parent = 0 /\ states'[k].annot = Start
            /\ states'[k].node \in Elements(starts')
        BY <1>3, <3>1, <3>2, Zenon
      <4> QED
        BY <4>1, Zenon DEF Walked, Elements
    <3>3. CASE /\ p \in DOMAIN states
               /\ <<n, e>> \in Elements(succs[states[p].node])
               /\ a \in Expand(states[p].annot, e)
      <4>1. p \in 1..(k - 1) /\ states'[p] = states[p]
        BY <2>1, <2>3, <3>3
      <4>2. /\ states'[k].parent \in 1..(k - 1)
            /\ <<states'[k].node, states'[k].edge>> \in Elements(succs'[states'[states'[k].parent].node])
            /\ states'[k].annot \in Expand(states'[states'[k].parent].annot, states'[k].edge)
        BY <1>3, <3>1, <3>3, <4>1, Zenon
      <4> QED
        BY <4>2, Zenon DEF Walked, Elements
    <3> QED
      BY <1>6, <3>2, <3>3, Zenon
  <2> QED
    BY <1>2, <2>1, <2>2, <2>3, <2>4, Zenon
<1>7. CASE Seed /\ UNCHANGED <<succs, starts>>
  <2>1. Head(seeds) \in N /\ Head(seeds) \in Elements(starts)
    BY <1>7, HeadTail DEF Seed, SearchTypes, Pending
  <2> QED
    BY <1>5, <1>6, <1>7, <2>1, ZenonT(60) DEF Seed, IsAnnotation
<1>8. CASE Visit /\ UNCHANGED <<succs, starts>>
  <2>1. /\ Head(rest)[1] \in N /\ Head(rest)[2] \in L
        /\ Head(rest) = <<Head(rest)[1], Head(rest)[2]>>
        /\ Elements(rest) = {Head(rest)} \cup Elements(Tail(rest))
        /\ cur \in DOMAIN states /\ cur \in Nat /\ states[cur].annot \in A
    BY <1>8, HeadIsEdge, ZenonT(60) DEF Visit
  <2>2. <<Head(rest)[1], Head(rest)[2]>> \in Elements(succs[states[cur].node])
    BY <1>8, <2>1, SMTT(40) DEF Visit, Pending
  <2>3. ASSUME NEW a \in Expand(states[cur].annot, Head(rest)[2]),
               Discover(Head(rest)[1], a, cur, Head(rest)[2])
        PROVE  FoundByWalk'
    BY <1>6, <2>1, <2>2, <2>3 DEF IsAnnotation
  <2> QED
    BY <1>5, <1>8, <2>3, ZenonT(60) DEF Visit, Fresh
<1>9. CASE Pop \/ UNCHANGED graphVars
  BY <1>5, <1>9, Zenon DEF Pop
<1> QED
  BY <1>7, <1>8, <1>9, Zenon DEF Next

\* Nothing that is reached, nor a start, is forgotten.
LEMMA AccountedStep ==
    ASSUME NEW N, NEW L, NEW A, IsAnnotation(A, L), SearchTypes(N, L, A), Pending,
           Accounted, [Next]_graphVars
    PROVE  Accounted'
<1>1. UNCHANGED <<succs, starts>>
  BY Zenon DEF Next, graphVars
<1>2. CASE UNCHANGED graphVars
  BY <1>2 DEF graphVars, searchVars, Accounted, Explored, Elements, Visited
<1>3. ASSUME NEW n \in N, NEW a \in A, NEW p \in Nat, NEW e \in L \cup {0}, Discover(n, a, p, e)
      PROVE  /\ Visited' = Visited \cup {<<n, a>>}
             /\ DOMAIN states' = DOMAIN states \cup {Len(states) + 1}
             /\ \A i \in DOMAIN states : states'[i] = states[i]
             /\ Elements(queue') = Elements(queue) \cup {Len(states) + 1}
  <2>1. Visited' = Visited \cup {<<n, a>>}
    BY <1>3, DiscoverAdds
  <2>2. DOMAIN states' = DOMAIN states \cup {Len(states) + 1}
    BY <1>3, DiscoverAdds, ZenonT(60)
  <2>3. \A i \in DOMAIN states : states'[i] = states[i]
    BY <1>3, DiscoverAdds, Zenon
  <2>4. Elements(queue') = Elements(queue) \cup {Len(states) + 1}
    BY <1>3, DiscoverAdds, Zenon
  <2> QED
    BY <2>1, <2>2, <2>3, <2>4, Zenon
<1>4. CASE Seed /\ UNCHANGED <<succs, starts>>
  <2>1. /\ Head(seeds) \in N /\ seeds' = Tail(seeds)
        /\ Elements(seeds) = {Head(seeds)} \cup Elements(Tail(seeds))
    BY <1>4, HeadTail, Zenon DEF Seed, SearchTypes
  <2>2. /\ Visited' = Visited \cup {<<Head(seeds), Start>>}
        /\ \A i \in DOMAIN states' : i \in Elements(queue') \/ i \in DOMAIN states \ Elements(queue)
        /\ \A i \in DOMAIN states : states'[i] = states[i]
    <3>1. CASE <<Head(seeds), Start>> \in Visited /\ UNCHANGED <<states, queue>>
      BY <3>1, Zenon DEF Visited
    <3>2. CASE Discover(Head(seeds), Start, 0, 0)
      BY <1>3, <2>1, <3>2, Zenon DEF IsAnnotation
    <3> QED
      BY <1>4, <3>1, <3>2, Zenon DEF Seed
  <2>3. \A n \in Elements(starts') : n \in Elements(seeds') \/ <<n, Start>> \in Visited'
    BY <1>4, <2>1, <2>2, Zenon DEF Accounted
  <2>4. ASSUME NEW i \in DOMAIN states', i \notin Elements(queue') PROVE Explored(i)'
    <3>1. i \in DOMAIN states /\ Explored(i) /\ states'[i] = states[i]
      BY <2>2, <2>4, Zenon DEF Accounted
    <3>2. \A e \in Elements(succs'[states'[i].node]) :
             \/ i = cur' /\ e \in Elements(rest')
             \/ \A a \in Expand(states'[i].annot, e[2]) : <<e[1], a>> \in Visited'
      BY <1>4, <2>2, <3>1, Zenon DEF Explored, Seed
    <3> QED
      BY <3>2, Zenon DEF Explored, Elements
  <2> QED
    BY <2>3, <2>4, Zenon DEF Accounted, Elements
<1>5. CASE Pop /\ UNCHANGED <<succs, starts>>
  <2>1. /\ Elements(queue) = {Head(queue)} \cup Elements(Tail(queue))
        /\ queue' = Tail(queue) /\ cur' = Head(queue)
        /\ rest' = succs[states[Head(queue)].node]
        /\ seeds' = seeds /\ states' = states /\ rest = <<>>
    BY <1>5, HeadTail, Zenon DEF Pop, SearchTypes
  <2>2. Visited' = Visited
    BY <2>1, Zenon DEF Visited
  <2>3. \A n \in Elements(starts') : n \in Elements(seeds') \/ <<n, Start>> \in Visited'
    BY <1>1, <2>1, <2>2, Zenon DEF Accounted
  <2>4. ASSUME NEW i \in DOMAIN states', i \notin Elements(queue') PROVE Explored(i)'
    <3>1. \A e \in Elements(succs'[states'[i].node]) :
             \/ i = cur' /\ e \in Elements(rest')
             \/ \A a \in Expand(states'[i].annot, e[2]) : <<e[1], a>> \in Visited'
      <4>1. CASE i = cur'
        BY <1>1, <2>1, <4>1, Zenon
      <4>2. CASE i # cur'
        <5>1. Explored(i)
          BY <2>1, <2>4, <4>2, Zenon DEF Accounted
        <5> QED
          BY <1>1, <2>1, <2>2, <5>1, NoElements, Zenon DEF Explored
      <4> QED
        BY <4>1, <4>2, Zenon
    <3> QED
      BY <3>1, Zenon DEF Explored, Elements
  <2> QED
    BY <2>3, <2>4, Zenon DEF Accounted, Elements
<1>6. CASE Visit /\ UNCHANGED <<succs, starts>>
  <2> DEFINE next == Head(rest)[1]
             label == Head(rest)[2]
  <2>1. /\ next \in N /\ label \in L
        /\ Elements(rest) = {Head(rest)} \cup Elements(Tail(rest))
        /\ cur \in DOMAIN states /\ cur \in Nat /\ states[cur].annot \in A
    BY <1>6, HeadIsEdge, ZenonT(60) DEF Visit
  <2>2. /\ Visited \subseteq Visited'
        /\ \A a \in Expand(states[cur].annot, label) : <<next, a>> \in Visited'
        /\ \A i \in DOMAIN states' : i \in Elements(queue') \/ i \in DOMAIN states \ Elements(queue)
        /\ \A i \in DOMAIN states : states'[i] = states[i]
    <3>1. CASE Fresh(states[cur].annot, label, next) = {} /\ UNCHANGED <<states, queue>>
      BY <3>1, Zenon DEF Visited, Fresh
    <3>2. ASSUME NEW a \in Expand(states[cur].annot, label), Discover(next, a, cur, label)
          PROVE  <2>2!:
      <4>1. a \in A /\ \A b \in Expand(states[cur].annot, label) : b = a
        BY <2>1, Zenon DEF IsAnnotation
      <4> QED
        BY <1>3, <2>1, <3>2, <4>1
    <3> QED
      BY <1>6, <3>1, <3>2, ZenonT(60) DEF Visit, Fresh
  <2>3. \A n \in Elements(starts') : n \in Elements(seeds') \/ <<n, Start>> \in Visited'
    BY <1>6, <2>2, Zenon DEF Accounted, Visit
  <2>4. ASSUME NEW i \in DOMAIN states', i \notin Elements(queue') PROVE Explored(i)'
    <3>1. i \in DOMAIN states /\ Explored(i) /\ states'[i] = states[i]
      BY <2>2, <2>4, Zenon DEF Accounted
    <3>2. \A e \in Elements(succs'[states'[i].node]) :
             \/ i = cur' /\ e \in Elements(rest')
             \/ \A a \in Expand(states'[i].annot, e[2]) : <<e[1], a>> \in Visited'
      BY <1>6, <2>1, <2>2, <3>1, Zenon DEF Explored, Visit
    <3> QED
      BY <3>2, Zenon DEF Explored, Elements
  <2> QED
    BY <2>3, <2>4, Zenon DEF Accounted, Elements
<1> QED
  BY <1>2, <1>4, <1>5, <1>6, Zenon DEF Next

\* A closed set that has the starts keeps the states.
LEMMA WithinStep ==
    ASSUME NEW N, NEW L, NEW A, NEW S, IsAnnotation(A, L), SearchTypes(N, L, A), Pending,
           Within(S), [Next]_graphVars
    PROVE  Within(S)'
<1>1. UNCHANGED <<succs, starts>>
  BY Zenon DEF Next, graphVars
<1>2. SUFFICES ASSUME Visited \subseteq S,
                      \A n \in Elements(starts) : <<n, Start>> \in S,
                      \A s \in S : Steps(s) \subseteq S
               PROVE  Visited' \subseteq S
  <2>1. Elements(starts)' = Elements(starts)
    BY <1>1, Zenon DEF Elements
  <2>2. ASSUME NEW s \in S PROVE Steps(s)' = Steps(s)
    BY <1>1, Zenon DEF Steps, Elements
  <2> QED
    BY <2>1, <2>2, Zenon DEF Within
<1>3. CASE states' = states
  BY <1>2, <1>3, Zenon DEF Visited
<1>4. CASE Seed
  <2>1. Head(seeds) \in N /\ Head(seeds) \in Elements(starts)
    BY <1>4, HeadTail DEF Seed, SearchTypes, Pending
  <2>2. CASE Discover(Head(seeds), Start, 0, 0)
    <3>1. Visited' = Visited \cup {<<Head(seeds), Start>>}
      <4>1. Start \in A /\ 0 \in Nat /\ 0 \in L \cup {0}
        BY DEF IsAnnotation
      <4> QED
        BY <2>1, <2>2, <4>1, DiscoverAdds
    <3> QED
      BY <1>2, <2>1, <3>1, Zenon
  <2> QED
    BY <1>3, <1>4, <2>2, Zenon DEF Seed
<1>5. CASE Visit
  <2> DEFINE next == Head(rest)[1]
             label == Head(rest)[2]
             here == <<states[cur].node, states[cur].annot>>
  <2>1. /\ next \in N /\ label \in L /\ Head(rest) \in Elements(rest)
        /\ cur \in DOMAIN states /\ cur \in Nat /\ states[cur].annot \in A
    BY <1>5, HeadIsEdge, ZenonT(60) DEF Visit
  <2>2. here \in S
    BY <1>2, <2>1, Zenon DEF Visited
  <2>3. Head(rest) \in Elements(succs[states[cur].node])
    BY <1>5, <2>1, Zenon DEF Visit, Pending
  <2>4. ASSUME NEW a \in Expand(states[cur].annot, label), Discover(next, a, cur, label)
        PROVE  Visited' \subseteq S
    <3>1. <<next, a>> \in Steps(here)
      BY <2>3 DEF Steps
    <3>2. a \in A
      BY <2>1, Zenon DEF IsAnnotation
    <3>3. Visited' = Visited \cup {<<next, a>>}
      BY <2>1, <2>4, <3>2, DiscoverAdds
    <3> QED
      BY <1>2, <2>2, <3>1, <3>3, Zenon
  <2> QED
    BY <1>3, <1>5, <2>4, ZenonT(60) DEF Visit, Fresh
<1>6. CASE Pop \/ UNCHANGED graphVars
  BY <1>3, <1>6, Zenon DEF Pop, graphVars, searchVars
<1> QED
  BY <1>4, <1>5, <1>6, Zenon DEF Next

-----------------------------------------------------------------------------
(***************************************************************************)
(* The theorems. A graph of nodes N and labels L, annotations A.           *)
(***************************************************************************)
\* At the start nothing is reached and every start waits.
LEMMA SearchInit ==
    ASSUME NEW N, NEW L, NEW A, Init, IsGraph(N, L)
    PROVE  SearchTypes(N, L, A) /\ Pending /\ FoundByWalk /\ Accounted /\ Visited = {}
<1>1. DOMAIN states = {} /\ seeds = starts /\ rest = <<>>
  BY DEF Init
<1>2. SearchTypes(N, L, A)
  BY DEF Init, SearchTypes, IsGraph
<1>3. Pending /\ FoundByWalk /\ Accounted /\ Visited = {}
  BY <1>1, Zenon DEF Pending, FoundByWalk, Accounted, Visited
<1> QED
  BY <1>2, <1>3, Zenon

\* The invariants of every search.
LEMMA SearchInvariant ==
    ASSUME NEW N, NEW L, NEW A, IsAnnotation(A, L)
    PROVE  Spec /\ IsGraph(N, L) => [](SearchTypes(N, L, A) /\ Pending)
<1>1. Init /\ IsGraph(N, L) => SearchTypes(N, L, A) /\ Pending
  BY SearchInit, Zenon
<1>2. SearchTypes(N, L, A) /\ Pending /\ [Next]_graphVars => (SearchTypes(N, L, A) /\ Pending)'
  BY TypesStep, PendingStep, Zenon
<1> QED
  BY <1>1, <1>2, PTL DEF Spec, graphVars

\* What path_to follows from any state of a search, finished or not, is a path of the
\* graph from a start, along which expand allows every edge.
THEOREM SearchFindsWalks ==
    ASSUME NEW N, NEW L, NEW A, IsAnnotation(A, L)
    PROVE  Spec /\ IsGraph(N, L) => []FoundByWalk
<1>1. Init /\ IsGraph(N, L) => FoundByWalk
  BY SearchInit, Zenon
<1>2. SearchTypes(N, L, A) /\ Pending /\ FoundByWalk /\ [Next]_graphVars => FoundByWalk'
  BY WalkStep, Zenon
<1>3. Spec /\ IsGraph(N, L) => [](SearchTypes(N, L, A) /\ Pending)
  BY SearchInvariant, Zenon
<1> QED
  BY <1>1, <1>2, <1>3, PTL DEF Spec, graphVars

\* A search that returns has every start, and every step of a state it reached.
THEOREM SearchIsComplete ==
    ASSUME NEW N, NEW L, NEW A, IsAnnotation(A, L)
    PROVE  Spec /\ IsGraph(N, L) => []SearchComplete
<1>1. Init /\ IsGraph(N, L) => Accounted
  BY SearchInit, Zenon
<1>2. SearchTypes(N, L, A) /\ Pending /\ Accounted /\ [Next]_graphVars => Accounted'
  BY AccountedStep, Zenon
<1>3. Spec /\ IsGraph(N, L) => [](SearchTypes(N, L, A) /\ Pending)
  BY SearchInvariant, Zenon
<1>4. Accounted => SearchComplete
  <2> SUFFICES ASSUME Accounted, SearchDone PROVE SearchComplete
    BY Zenon DEF SearchComplete
  <2>1. Elements(seeds) = {} /\ Elements(queue) = {} /\ Elements(rest) = {}
    BY NoElements, Zenon DEF SearchDone
  <2>2. \A n \in Elements(starts) : <<n, Start>> \in Visited
    BY <2>1, Zenon DEF Accounted
  <2>3. ASSUME NEW s \in Visited, NEW t \in Steps(s) PROVE t \in Visited
    <3>1. PICK i \in DOMAIN states : s = <<states[i].node, states[i].annot>>
      BY Zenon DEF Visited
    <3>2. Explored(i)
      BY <2>1, <3>1, Zenon DEF Accounted
    <3>3. s[1] = states[i].node /\ s[2] = states[i].annot
      BY <3>1, Zenon
    <3>4. PICK e \in Elements(succs[s[1]]) : \E a \in Expand(s[2], e[2]) : t = <<e[1], a>>
      BY Zenon DEF Steps
    <3> QED
      BY <2>1, <3>2, <3>3, <3>4, Zenon DEF Explored
  <2> QED
    BY <2>2, <2>3, Zenon DEF SearchComplete
<1> QED
  BY <1>1, <1>2, <1>3, <1>4, PTL DEF Spec, graphVars

\* The states of a search are in every set of states that has the starts and is closed
\* under the steps of a path: with SearchIsComplete, a search returns exactly the
\* reachable states, in whatever order the successors come.
THEOREM SearchIsLeast ==
    ASSUME NEW N, NEW L, NEW A, NEW S, IsAnnotation(A, L)
    PROVE  Spec /\ IsGraph(N, L) => []Within(S)
<1>1. Init /\ IsGraph(N, L) => Within(S)
  BY SearchInit, Zenon DEF Within
<1>2. SearchTypes(N, L, A) /\ Pending /\ Within(S) /\ [Next]_graphVars => Within(S)'
  BY WithinStep, Zenon
<1>3. Spec /\ IsGraph(N, L) => [](SearchTypes(N, L, A) /\ Pending)
  BY SearchInvariant, Zenon
<1> QED
  BY <1>1, <1>2, <1>3, PTL DEF Spec, graphVars
=============================================================================
