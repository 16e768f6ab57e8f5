---------------------------- MODULE MCAnalysis -----------------------------
(***************************************************************************)
(* The programs Analysis runs on: from the semantics corpus of             *)
(* frontends/ctadl-flowy/tests/semantics and the .tnt programs of          *)
(* ctadl-ascent/tests/tnt, and families of programs around them.           *)
(***************************************************************************)
EXTENDS Analysis

Const == <<"const">>
V(x) == Path(Local(x), <<>>)
VP(x, p) == Path(Local(x), p)
P(i) == Path(Param(i), <<>>)
PP(i, p) == Path(Param(i), p)
GP(g, p) == Path(Global(g), p)
Fd(name) == <<Field(name)>>
Set(x, p, e) == Assign(Local(x), p, <<e>>)
Let(x, e) == Set(x, <<>>, e)
Fn(arity, body, rets) == [params |-> [i \in 1..arity |-> "SharedFields"], body |-> body, rets |-> rets]
Direct(f) == <<"direct", f>>
Through(v) == <<"ptr", v, <<>>>>
At(f, x, label) == <<f, Local(x), <<>>, label>>
Program(fns, sources, sinks) ==
    [fns |-> fns, sources |-> sources, sinks |-> sinks, saturating |-> {}, adds |-> {}, loses |-> {}]
Adds(p, k) == [p EXCEPT !.adds = k]
Loses(p, k) == [p EXCEPT !.loses = k]

Id == Fn(1, <<>>, <<P(0)>>)
Drop == Fn(1, <<>>, <<Const>>)
SetF == Fn(1, <<Let("t", V("s")), Assign(Param(0), Fd("f"), <<V("t")>>)>>, <<>>)

\* s10: instances, write-back.
S10 == Program([id |-> Id,
                main |-> Fn(0, <<Call(1, Direct("id"), <<V("a")>>, <<Local("r1")>>),
                                 Call(2, Direct("id"), <<V("b")>>, <<Local("r2")>>)>>, <<>>),
                setf |-> SetF,
                wb |-> Fn(0, <<Call(1, Direct("setf"), <<V("o")>>, <<>>), Let("r", VP("o", Fd("f")))>>, <<>>)],
               {At("main", "a", "S"), At("setf", "s", "S")},
               {At("main", "r1", "S"), At("main", "r2", "S"), At("wb", "r", "S")})
\* s14
S14 == Program([id |-> Id, drop |-> Drop,
                apply |-> Fn(2, <<Call(1, Through(Param(0)), <<P(1)>>, <<Local("y")>>)>>, <<V("y")>>),
                main |-> Fn(0, <<Call(1, Direct("apply"), <<Ptr("id"), V("a")>>, <<Local("r1")>>),
                                 Call(2, Direct("apply"), <<Ptr("drop"), V("a")>>, <<Local("r2")>>)>>, <<>>)],
               {At("main", "a", "S")}, {At("main", "r1", "S"), At("main", "r2", "S")})
S14Mid == Program([id |-> Id, drop |-> Drop,
                apply |-> Fn(2, <<Call(1, Through(Param(0)), <<P(1)>>, <<Local("y")>>)>>, <<V("y")>>),
                mid |-> Fn(2, <<Call(1, Direct("apply"), <<P(0), P(1)>>, <<Local("y")>>)>>, <<V("y")>>),
                main |-> Fn(0, <<Call(1, Direct("mid"), <<Ptr("id"), V("a")>>, <<Local("r1")>>),
                                 Call(2, Direct("mid"), <<Ptr("drop"), V("a")>>, <<Local("r2")>>)>>, <<>>)],
               {At("main", "a", "S")}, {At("main", "r1", "S"), At("main", "r2", "S")})
\* s11
S11 == Program([id |-> Id,
                store |-> Fn(1, <<Assign(Param(0), Fd("op"), <<Ptr("id")>>)>>, <<>>),
                main |-> Fn(0, <<Call(1, Direct("store"), <<V("o")>>, <<>>), Let("f", VP("o", Fd("op"))),
                                 Call(2, Through(Local("f")), <<V("a")>>, <<Local("r")>>)>>, <<>>)],
               {At("main", "a", "S")}, {At("main", "r", "S")})
G06T == Program([id |-> Id,
                reg |-> Fn(0, <<Assign(Global("g"), Fd("h"), <<Ptr("id")>>)>>, <<>>),
                fire |-> Fn(0, <<Let("f", GP("g", Fd("h"))), Call(1, Through(Local("f")), <<V("a")>>, <<Local("r")>>)>>, <<>>),
                copy |-> Fn(0, <<Let("t", GP("g", Fd("h"))), Assign(Global("k"), Fd("h"), <<V("t")>>)>>, <<>>),
                fire2 |-> Fn(0, <<Let("f", GP("k", Fd("h"))), Call(1, Through(Local("f")), <<V("a")>>, <<Local("r")>>)>>, <<>>)],
               {At("fire", "a", "S"), At("fire2", "a", "T")}, {At("fire", "r", "S"), At("fire2", "r", "T")})
G06A == Program([alias |-> Fn(0, <<Let("l", GP("g", Fd("x"))), Set("l", Fd("f"), V("a"))>>, <<>>),
                 read |-> Fn(0, <<Let("r", GP("g", <<Field("x"), Field("f")>>))>>, <<V("r")>>),
                 main |-> Fn(0, <<Call(1, Direct("alias"), <<>>, <<>>), Call(2, Direct("read"), <<>>, <<Local("b")>>)>>, <<>>)],
               {At("alias", "a", "S")}, {At("main", "b", "S")})
G08 == Program([set |-> Fn(1, <<Assign(Global("g"), <<Deref>>, <<P(0)>>)>>, <<>>),
                get |-> Fn(0, <<Let("r", GP("g", <<Deref>>))>>, <<V("r")>>),
                main |-> Fn(0, <<Call(1, Direct("set"), <<V("a")>>, <<>>), Call(2, Direct("get"), <<>>, <<Local("b")>>)>>, <<>>),
                other |-> Fn(0, <<Call(1, Direct("get"), <<>>, <<Local("c")>>)>>, <<>>)],
               {At("main", "a", "S")}, {At("main", "b", "S"), At("other", "c", "S")})
\* s07
S07W == Program([main |-> Fn(1, <<Set("x", Fd("g"), V("a")), Let("l", P(0)), Set("l", Fd("f"), V("x")),
                                 Let("r", PP(0, <<Field("f"), Field("g")>>))>>, <<>>)],
               {At("main", "a", "S")}, {At("main", "r", "S")})
S07P == Adds(Program([main |-> Fn(1, <<Set("x1", Fd("f"), V("a")), Let("y1", V("x1")), Let("y2", P(0)),
                                  Assign(Local("y"), <<>>, <<V("y1"), V("y2")>>),
                                 Let("z", VP("y", Fd("f"))), Let("r2", PP(0, Fd("f"))), Let("q", VP("q0", <<Value>>))>>, <<>>)],
               {At("main", "a", "S")}, {At("main", "z", "S"), At("main", "r2", "S")}), {At("main", "r2", "S")})
S07V == Adds(Program([main |-> Fn(2, <<Let("t", P(0)), Set("t", <<Value>>, V("a")), Let("k", P(0)), 
                 Let("u", P(1)), Set("u", <<Field("f"), Value>>, V("a")), Let("r", PP(1, Fd("f"))),
                 Set("u", <<Deref, Value>>, V("a")), Let("d", PP(1, <<Deref>>))>>, <<>>)],
               {At("main", "a", "S")}, {At("main", "k", "S"), At("main", "r", "S"), At("main", "d", "S")}), {At("main", "k", "S")})
S09 == Loses(Program([main |-> Fn(0, <<Set("x", Fd("g"), V("a")), Set("y", Fd("f"), V("x")), Set("y", Fd("f"), V("w")), Let("z", VP("w", Fd("g")))>>, <<>>)],
               {At("main", "a", "S")}, {At("main", "z", "S")}), {At("main", "z", "S")})
S02 == Program([main |-> Fn(0, <<Set("p", <<Offset(2), Deref>>, V("a")), Let("x", VP("p", <<Offset(2), Deref>>)),
                    Set("v", <<Value>>, V("a")), Let("z", VP("v", <<Value>>)), Let("w", VP("p", <<Offset(1), Deref>>))>>, <<>>)],
               {At("main", "a", "S")}, {At("main", "x", "S"), At("main", "z", "S"), At("main", "w", "S")})
S03 == Program([main |-> Fn(0, <<Let("p", VP("q", <<Offset(2)>>)), Let("m", VP("p", <<Deref>>))>>, <<>>),
                third |-> Fn(1, <<Let("r", PP(0, <<Offset(2)>>))>>, <<V("r")>>),
                main2 |-> Fn(0, <<Call(1, Direct("third"), <<V("q")>>, <<Local("b")>>)>>, <<>>)],
               {At("main", "q", "S"), At("main2", "q", "S")}, {At("main", "p", "S"), At("main", "m", "S"), At("main2", "b", "S")})
P01 == Program([chain |-> Fn(1, <<Let("t1", PP(0, Fd("a"))), Let("t2", VP("t1", Fd("b"))), Set("t2", Fd("c"), V("s"))>>, <<>>),
                addr |-> Fn(1, <<Let("t1", PP(0, <<Deref, Offset(1)>>)), Let("t2", V("t1")), Let("t3", VP("t2", <<Offset(1)>>)), Set("t3", <<Deref>>, V("s"))>>, <<>>),
                main |-> Fn(0, <<Call(1, Direct("chain"), <<V("o")>>, <<>>), Let("r1", VP("o", <<Field("a"), Field("b"), Field("c")>>)),
                                 Call(2, Direct("addr"), <<V("q")>>, <<>>), Let("r2", VP("q", <<Deref, Offset(2), Deref>>))>>, <<>>)],
               {At("chain", "s", "S"), At("addr", "s", "T")}, {At("main", "r1", "S"), At("main", "r2", "T")})
\* set and get through whole-variable copies, of a formal and of a global.
AliasF == Program([set |-> Fn(2, <<Let("l", P(0)), Set("l", Fd("f"), P(1))>>, <<>>),
                   main |-> Fn(0, <<Call(1, Direct("set"), <<V("o"), V("a")>>, <<>>), Let("r", VP("o", Fd("f")))>>, <<>>)],
               {At("main", "a", "S")}, {At("main", "r", "S")})
AliasG == Program([move |-> Fn(0, <<Let("l", GP("g", <<>>)), Let("t", GP("h", Fd("x"))), Set("l", Fd("f"), V("t"))>>, <<>>),
                   put |-> Fn(0, <<Assign(Global("h"), Fd("x"), <<V("a")>>)>>, <<>>),
                   get |-> Fn(0, <<Let("r", GP("g", Fd("f")))>>, <<>>)],
               {At("put", "a", "S")}, {At("get", "r", "S")})
\* hybrid_context_precision, with bounded:2.
Apply == Fn(2, <<Call(1, Through(Param(0)), <<P(1)>>, <<Local("y")>>)>>, <<V("y")>>)
Bar(t) == Fn(1, <<Call(1, Direct("apply"), <<Ptr(t), P(0)>>, <<Local("y")>>)>>, <<V("y")>>)
Hybrid == Adds(Program([id |-> Id, id2 |-> Id, id3 |-> Id, drop |-> Drop, apply |-> Apply,
                    barA |-> Bar("id"), barB |-> Bar("id2"), barC |-> Bar("id3"), barD |-> Bar("drop"),
                    main |-> Fn(0, <<Call(1, Direct("barA"), <<V("s")>>, <<Local("a")>>),
                                     Call(2, Direct("barD"), <<V("s")>>, <<Local("d")>>)>>, <<>>)],
               {At("main", "s", "S")}, {At("main", "a", "S"), At("main", "d", "S")}), {At("main", "d", "S")})
\* The same with as many decisions as the set holds.
Held == Program([id |-> Id, id2 |-> Id, drop |-> Drop, apply |-> Apply, barA |-> Bar("id"), barB |-> Bar("id2"), barD |-> Bar("drop"),
                 main |-> Fn(0, <<Call(1, Direct("barA"), <<V("s")>>, <<Local("a")>>), Call(2, Direct("barB"), <<V("s")>>, <<Local("b")>>),
                                  Call(3, Direct("barD"), <<V("s")>>, <<Local("d")>>)>>, <<>>)],
                {At("main", "s", "S")}, {At("main", "a", "S"), At("main", "b", "S"), At("main", "d", "S")})
\* funcptr_field_forward
FieldFwd == Program([id |-> Id, call |-> Fn(2, <<Let("f", PP(0, Fd("op"))), Call(1, Through(Local("f")), <<P(1)>>, <<Local("y")>>)>>, <<V("y")>>),
                     fwd |-> Fn(2, <<Call(1, Direct("call"), <<P(0), P(1)>>, <<Local("y")>>)>>, <<V("y")>>),
                     wrap |-> Fn(0, <<Set("o", Fd("op"), Ptr("id")), Call(1, Direct("fwd"), <<V("o"), V("a")>>, <<Local("r")>>),
                                      Call(2, Direct("fwd"), <<V("q"), V("a")>>, <<Local("r2")>>)>>, <<>>)],
               {At("wrap", "a", "S")}, {At("wrap", "r", "S"), At("wrap", "r2", "S")})
\* funcptr_through_indirect: targets crossing an indirect call.
Indirect == Program([id |-> Id, apply |-> Apply,
                     run |-> Fn(2, <<Let("k", Ptr("id")), Call(1, Through(Param(0)), <<V("k"), P(1)>>, <<Local("y")>>)>>, <<V("y")>>),
                     main |-> Fn(0, <<Let("p", Ptr("apply")), Call(1, Direct("run"), <<V("p"), V("a")>>, <<Local("r")>>)>>, <<>>)],
               {At("main", "a", "S")}, {At("main", "r", "S")})
\* callsite_smear_field
Smear == Program([width |-> Fn(1, <<Assign(Local("r"), <<>>, <<PP(0, Fd("w")), V("x")>>)>>, <<V("r")>>),
                  main |-> Fn(1, <<Let("w", PP(0, Fd("w"))), Call(1, Direct("width"), <<P(0)>>, <<Local("r")>>)>>, <<>>)],
               {At("width", "x", "S")}, {At("main", "r", "S"), At("main", "w", "S")})
\* recursion
Recursion == Program([f |-> Fn(1, <<Call(1, Direct("g"), <<P(0), V("y")>>, <<Local("r")>>)>>, <<V("r")>>),
                      g |-> Fn(2, <<Call(1, Direct("f"), <<P(1)>>, <<Local("q")>>),
                                    Assign(Local("r"), <<>>, <<V("q"), P(0)>>)>>, <<V("r")>>),
                      main |-> Fn(0, <<Call(1, Direct("f"), <<V("a")>>, <<Local("r1")>>), Call(2, Direct("f"), <<V("b")>>, <<Local("r2")>>)>>, <<>>)],
               {At("main", "a", "S")}, {At("main", "r1", "S"), At("main", "r2", "S")})
\* Formals that are shared whole, or copied.
Typed(type) == Program([set |-> [Fn(2, <<Assign(Param(0), <<>>, <<P(1)>>), Assign(Param(0), Fd("f"), <<P(1)>>)>>, <<>>)
                                 EXCEPT !.params[1] = type],
                   main |-> Fn(0, <<Call(1, Direct("set"), <<V("o"), V("a")>>, <<>>), Let("r", VP("o", Fd("f"))), Let("w", V("o"))>>, <<>>)],
               {At("main", "a", "S")}, {At("main", "r", "S"), At("main", "w", "S")})
Shared == Adds(Typed("Shared"), {At("main", "w", "S")})
Copied == Loses(Typed("Copied"), {At("main", "r", "S")})
Saturating == LET p == Program([get |-> Fn(1, <<Let("q", PP(0, Fd("g")))>>, <<V("q")>>),
                          main |-> Fn(0, <<Let("r", VP("a", Fd("f"))), Let("b", V("a")),
                                           Call(1, Direct("get"), <<V("b")>>, <<Local("r2")>>), Let("z", VP("c", Fd("f")))>>, <<>>)],
                         {At("main", "a", "S"), <<"main", Local("c"), Fd("g"), "S">>},
                         {At("main", "r", "S"), At("main", "r2", "S"), At("main", "z", "S"), <<"main", Local("b"), Fd("g"), "S">>})
              IN  Adds([p EXCEPT !.saturating = p.sources], {At("main", "r", "S"), At("main", "r2", "S"), <<"main", Local("b"), Fd("g"), "S">>})
Extra == {AliasF, AliasG, Hybrid, Held, FieldFwd, Indirect, Smear, Recursion, Shared, Copied, Saturating}
\* Two calls in a row, of functions that pass values through their parameters,
\* their results and a global.
Return(e) == Fn(2, <<Let("q", e)>>, <<V("q")>>)
StoreG == Fn(2, <<Assign(Global("g"), Fd("f"), <<P(1)>>)>>, <<>>)
BindG == Fn(2, <<Let("q", P(0)), Assign(Global("g"), <<>>, <<V("q")>>)>>, <<>>)
Bodies == {Return(PP(0, Fd("f"))), Return(GP("g", Fd("f"))), Return(GP("g", <<>>)),
           Fn(2, <<Assign(Param(0), Fd("f"), <<P(1)>>)>>, <<>>), StoreG, BindG}
Pair(b1, b2) ==
    Loses(Program([one |-> b1, two |-> b2,
                   main |-> Fn(0, <<Call(1, Direct("one"), <<V("o"), V("a")>>, <<Local("r1")>>),
                                    Call(2, Direct("two"), <<V("o"), V("r1")>>, <<Local("r2")>>), Let("r3", VP("o", Fd("f"))),
                                    Let("r4", VP("r2", Fd("f")))>>, <<>>)],
                  {At("main", "a", "S")}, {At("main", x, "S") : x \in {"r1", "r2", "r3", "r4"}}),
          \* The backward alias rule: a store to a global that is the actual.
          IF <<b1, b2>> = <<StoreG, BindG>> THEN {At("main", "r3", "S")} ELSE {})
Pairs == {Pair(b1, b2) : b1 \in Bodies, b2 \in Bodies}
\* Two calls through function pointers, each target by its own route.
RouteFns ==
    [id |-> Id, drop |-> Drop, apply |-> Apply,
     mid |-> Fn(2, <<Call(1, Direct("apply"), <<P(0), P(1)>>, <<Local("y")>>)>>, <<V("y")>>),
     call |-> Fn(2, <<Let("f", PP(0, Fd("op"))), Call(1, Through(Local("f")), <<P(1)>>, <<Local("y")>>)>>, <<V("y")>>),
     fire |-> Fn(1, <<Let("f", GP("g", Fd("h"))), Call(1, Through(Local("f")), <<P(0)>>, <<Local("y")>>)>>, <<V("y")>>),
     id_ |-> Fn(0, <<Let("f", Ptr("id"))>>, <<V("f")>>),
     drop_ |-> Fn(0, <<Let("f", Ptr("drop"))>>, <<V("f")>>)]
Needs == [arg |-> {"apply"}, mid |-> {"mid", "apply"}, field |-> {"call"}, global |-> {"fire"}, returned |-> {"id_", "drop_"}]
Route(r, i, t, o, x) ==
    CASE r = "arg" -> <<Call(i, Direct("apply"), <<Ptr(t), V("a")>>, <<Local(x)>>)>>
      [] r = "mid" -> <<Call(i, Direct("mid"), <<Ptr(t), V("a")>>, <<Local(x)>>)>>
      [] r = "field" -> <<Set(o, Fd("op"), Ptr(t)), Call(i, Direct("call"), <<V(o), V("a")>>, <<Local(x)>>)>>
      [] r = "global" -> <<Assign(Global("g"), Fd("h"), <<Ptr(t)>>), Call(i, Direct("fire"), <<V("a")>>, <<Local(x)>>)>>
      [] r = "returned" -> <<Call(i, Direct(IF t = "id" THEN "id_" ELSE "drop_"), <<>>, <<Local(o)>>), Call(i + 1, Through(Local(o)), <<V("a")>>, <<Local(x)>>)>>
Routed(r1, r2) ==
    Program([f \in {"id", "drop"} \cup Needs[r1] \cup Needs[r2] |-> RouteFns[f]]
              @@ [main |-> Fn(0, Route(r1, 1, "id", "o1", "x1") \o Route(r2, 3, "drop", "o2", "x2"), <<>>)],
            {At("main", "a", "S")}, {At("main", "x1", "S"), At("main", "x2", "S")})
Routes == {Routed(r1, r2) : r1 \in DOMAIN Needs \ {"arg"}, r2 \in DOMAIN Needs}
\* A flow between two globals under a decision about a parameter, in a function
\* and in one that passes the parameter on, alone and where that one has, through two
\* calls, another that is unconditional.
CopyBack == <<Let("x", GP("g", Fd("f"))), Call(1, Through(Param(0)), <<V("x")>>, <<Local("y")>>),
              Assign(Global("k"), Fd("f"), <<V("y")>>)>>
CopyOn == <<Let("x", GP("g", Fd("f"))), Call(2, Direct("id2"), <<V("x")>>, <<Local("z")>>),
            Assign(Global("k"), Fd("f"), <<V("z")>>)>>
PassOn == <<Call(1, Direct("copy"), <<P(0)>>, <<>>)>>
GlobalCopy(copy, pass) ==
    Program([id |-> Id, id2 |-> Fn(1, <<Call(1, Direct("id"), <<P(0)>>, <<Local("y")>>)>>, <<V("y")>>),
             copy |-> Fn(1, copy, <<>>), pass |-> Fn(1, pass, <<>>),
             main |-> Fn(0, <<Call(1, Direct("pass"), <<Ptr("id")>>, <<>>), Let("r", GP("k", Fd("f")))>>, <<>>),
             put |-> Fn(0, <<Assign(Global("g"), Fd("f"), <<V("a")>>)>>, <<>>),
             get |-> Fn(0, <<Let("r", GP("k", Fd("f")))>>, <<>>)],
            {At("put", "a", "S")}, {At("main", "r", "S"), At("get", "r", "S")})
Globals == {GlobalCopy(CopyBack, PassOn), GlobalCopy(CopyBack, PassOn \o CopyOn)}
MCPrograms == {S10, S14, S14Mid, S11, G06T, G06A, G08, S07W, S07P, S07V, S09, S02, S03, P01} \cup Extra \cup Pairs \cup Routes \cup Globals
\* A call back under a caller's decision, whose result is observed in the callee.
MCDocPrograms ==
    {Program([id |-> Id,
              f |-> Fn(2, <<Call(1, Through(Param(0)), <<P(1)>>, <<Local("y")>>)>>, <<>>),
              main |-> Fn(0, <<Call(1, Direct("f"), <<Ptr("id"), V("a")>>, <<>>)>>, <<>>)],
             {At("main", "a", "S")}, {At("f", "y", "S")})}

MCDecisions == {<<Formal(0), <<>>, t>> : t \in {"id", "id2", "id3", "drop", "apply"}} \cup {<<Formal(0), Fd("op"), t>> : t \in {"id", "drop"}}
=============================================================================
