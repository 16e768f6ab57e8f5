------------------------------- MODULE MCSsa -------------------------------
(***************************************************************************)
(* The functions Ssa runs on: control-flow graphs of four blocks, straight *)
(* lines and loops over a small set of statements, graphs whose dominators *)
(* are hard to get, functions of the corpus, and functions with a frame.   *)
(***************************************************************************)
EXTENDS Ssa

V(x) == Path(Local(x), <<>>)
Fd == <<Field("f")>>
Par == Path(Param(0), <<>>)
Let(x, e) == Assign(Local(x), <<>>, <<e>>)
Src(x) == Call("s", <<"direct", "src">>, <<>>, <<Local(x)>>)
Snk(k, e) == Call(k, <<"direct", "sink">>, <<e>>, <<>>)
Const == <<"const">>
Goto(stmts, targets) == [stmts |-> stmts, targets |-> targets, args |-> <<>>]
Return(stmts, e) == [stmts |-> stmts, targets |-> <<>>, args |-> <<e>>]
Fn(blocks) == [params |-> 1, arity |-> 1, blocks |-> [b \in 0..Len(blocks) - 1 |-> blocks[b + 1]]]

\* Graphs of four blocks without an edge to the first: blocks no path reaches,
\* loops, also ones entered at two blocks, and paths that never return.
Ends == {<<>>, <<1>>, <<2>>, <<3>>, <<1, 2>>, <<1, 3>>, <<2, 3>>}
Ending(stmts, targets) == IF targets = <<>> THEN Return(stmts, V("x")) ELSE Goto(stmts, targets)
Shape(e) ==
    Fn(<<Goto(<<Let("x", Par)>>, e[1]),
         Ending(<<Src("x")>>, e[2]),
         Ending(<<Let("y", V("x")), Let("x", Const)>>, e[3]),
         Ending(<<Snk("k", V("x")), Snk("m", V("y"))>>, e[4])>>)
Shapes == {Shape(e) : e \in {<<1>>, <<1, 2>>, <<3, 1>>} \X (Ends \cup {Reverse(t) : t \in Ends}) \X Ends \X Ends}

\* The same with gotos that name a block twice.
Doubled == {Shape(e) : e \in {<<1, 1>>, <<1, 2>>} \X {<<3, 3>>, <<2, 3, 2>>} \X Ends \X {<<>>, <<2, 2>>, <<1, 3, 3>>}}

\* Temporaries, copies, addresses, values, stores, loads, globals, indirect calls.
Steps ==
    {Let("t", V("a")), Let("u", V("t")), Assign(Local("u"), <<>>, <<V("t"), V("a")>>),
     Let("t", Path(Local("a"), Fd)), Assign(Local("t"), Fd, <<V("a")>>), Let("t", Path(Local("a"), <<Offset(1)>>)),
     Let("a", Const), Let("t", ValueOf(Local("a"), <<>>)), Assign(Param(0), <<>>, <<V("t")>>), Snk("m", V("t")),
     Assign(Global("g"), Fd, <<V("t")>>), Let("u", Path(Global("g"), Fd)),
     Call("c", <<"ptr", Local("t"), <<>>>>, <<V("a")>>, <<Local("u")>>)}
Lines ==
    {Fn(<<Return(<<Src("a"), s[1], s[2], s[3], Snk("k", V("u")), Snk("f", Path(Local("u"), Fd))>>, Par)>>) :
        s \in Steps \X Steps \X Steps}
Loops ==
    {Fn(<<Goto(<<Src("a")>>, <<1>>), Goto(<<s[1], s[2]>>, <<1, 2>>), Return(<<s[3], Snk("k", V("u"))>>, Par)>>) :
        s \in Steps \X Steps \X {Let("u", V("t")), Let("t", V("a")), Snk("m", V("t"))}}

\* A chain of six blocks with edges that skip blocks and edges back: the dominator of a
\* block may be that of another one, whose dominator is that of a third.
Edges == {<<1, 3>>, <<1, 4>>, <<2, 4>>, <<2, 5>>, <<3, 5>>, <<4, 2>>, <<5, 3>>}
Chain(body, edges) ==
    Fn([i \in 1..6 |->
          LET b == i - 1
              to == Listed({e[2] : e \in {x \in edges : x[1] = b}})
          IN  IF b < 5 THEN Goto(body[i], to \o <<b + 1>>)
              ELSE Ending(body[i], to)])
Chains == {Chain(<<<<Let("x", Par)>>, <<Src("x")>>, <<>>, <<Let("y", V("x"))>>, <<Let("x", V("y"))>>, <<Snk("k", V("x"))>>>>, edges) :
             edges \in SUBSET Edges}

\* tests/semantics/s07_scope.flowy: values move forward only, which copy_prop changes;
\* a phi merges what is stored through it, and not what is copied into it.
ValueForwardOnly ==
    Fn(<<Return(<<Src("a"), Let("t", Par), Assign(Local("t"), <<Value>>, <<V("a")>>), Snk("m", Par)>>, Const)>>)
ThroughPhi(first, store) ==
    Fn(<<Goto(<<Src("a")>> \o first, <<1, 2>>), Goto(<<Let("y", V("x"))>>, <<3>>), Goto(<<Let("y", Par)>>, <<3>>),
         Return(store \o <<Snk("k", Path(Local("x"), Fd)), Snk("m", Path(Param(0), Fd)), Snk("f", Path(Local("y"), Fd))>>,
                V("y"))>>)
Corpus == {ValueForwardOnly, ThroughPhi(<<Assign(Local("x"), Fd, <<V("a")>>)>>, <<>>),
           ThroughPhi(<<>>, <<Assign(Local("y"), Fd, <<V("a")>>)>>)}

\* A frame of two slots, accessed directly, through a copy of an address, within and
\* past the window of 2, and by callees.
Slot(k) == <<Offset(k), Deref>>
FrameSteps ==
    {Assign(StackTop, Slot(k), <<V("a")>>) : k \in {1, 3}}
    \cup {Let("u", Path(StackTop, Slot(k))) : k \in {1, 3}}
    \cup {Let("q", Path(StackTop, <<Offset(k)>>)) : k \in {1, 2}}
    \cup {Assign(Local("q"), Slot(k), <<V("a")>>) : k \in {1, 2}} \cup {Let("u", Path(Local("q"), <<Deref>>))}
    \cup {Call("w", <<"direct", "write">>, <<Path(StackTop, <<Offset(k)>>)>>, <<>>) : k \in {1, 3}}
    \cup {Call("r", <<"direct", "read">>, <<Path(StackTop, <<Offset(3)>>)>>, <<>>)}
Frames ==
    {Fn(<<Return(<<Src("a"), s[1], s[2], s[3], Snk("k", V("u"))>>, s[4])>>) :
        s \in FrameSteps \X FrameSteps \X FrameSteps \X {Const, Path(StackTop, Slot(3))}}

\* The entry block is a loop header, and sets what it read.
EntryLoop ==
    Chain(<<<<Snk("m", V("x")), Src("x")>>, <<Src("y")>>, <<>>, <<>>, <<>>, <<Snk("k", V("y"))>>>>,
          {<<1, 3>>, <<2, 4>>, <<3, 5>>, <<5, 0>>})

MCFunctions == Shapes \cup Doubled \cup Lines \cup Loops \cup Chains \cup Corpus \cup Frames
MCEntryLoop == {EntryLoop}
=============================================================================
