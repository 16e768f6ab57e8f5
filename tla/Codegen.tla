------------------------------ MODULE Codegen ------------------------------
(***************************************************************************)
(* From the IR to the facts the index starts from: the entry binding of    *)
(* SSA, the load-chain composition of ctadl-ir's ssa/compose_loads, the    *)
(* lowering of ctadl-ascent's codegen and the derived inputs of            *)
(* EngineInput::new. A program is                                          *)
(*   [fns |-> [name -> [params |-> <<type, ...>>, body |-> <<stmt, ...>>,  *)
(*                      rets |-> <<exp, ...>>]],                           *)
(*    sources, sinks |-> sets of <<function, variable, path, label>>]      *)
(* with one block per function; a statement is an assignment of several    *)
(* sources (a phi is one of whole variables) or a call; a call is direct   *)
(* or through a function pointer. Virtual calls (Java, Lua, CIL) and       *)
(* string constants are left out.                                          *)
(***************************************************************************)
EXTENDS Ir

CONSTANT Frame \* GLOBAL_FRAME, the function whose variables are the globals

VARIABLE program \* the program under analysis, never changed

\* ------------------------------------------------------------------ the IR

\* The entry binding of SSA: version 0 of a parameter is the incoming one.
EntryBinding(fn) == [i \in DOMAIN fn.params |-> Assign(Param(i - 1), <<>>, <<Path(Formal(i - 1), <<>>)>>)]

\* What each load-chain temporary stands for, <<root, path>>, after the block.
Captures(block) ==
    FoldLeft(LAMBDA caps, s :
                IF s.op = "assign" /\ s.dst[2] = <<>> /\ Len(s.src) = 1 /\ s.src[1][1] = "path"
                THEN LET v   == s.src[1][2]
                         p   == s.src[1][3]
                         cap == IF v \in DOMAIN caps THEN {<<caps[v][1], Concat(caps[v][2], p)>>}
                                ELSE IF p = <<>> THEN {} ELSE {<<v, p>>}
                     IN  [x \in {s.dst[1] : c \in cap} |-> CHOOSE c \in cap : TRUE] @@ caps
                ELSE caps,
             <<>>, block)

\* A store through a temporary, and a read through memory, is put on its root.
Composed(caps, v, p) ==
    IF v \in DOMAIN caps THEN <<caps[v][1], Concat(caps[v][2], p)>> ELSE <<v, p>>
ReadsMemory(p) == \E i \in DOMAIN p : ~IsOffset(p[i])
ComposeRead(caps, v, p) == IF ReadsMemory(p) THEN Composed(caps, v, p) ELSE <<v, p>>
ComposeExp(caps, e) == IF IsPath(e) THEN <<e[1]>> \o ComposeRead(caps, e[2], e[3]) ELSE e
ComposeExps(caps, es) == [i \in DOMAIN es |-> ComposeExp(caps, es[i])]

ComposeStatement(caps, s) ==
    IF s.op = "assign"
    THEN [s EXCEPT !.dst = IF @[2] # <<>> THEN Composed(caps, @[1], @[2]) ELSE @,
                   !.src = ComposeExps(caps, @)]
    ELSE [s EXCEPT !.args = ComposeExps(caps, @),
                   !.style = IF @[1] = "ptr" THEN <<"ptr">> \o ComposeRead(caps, @[2], @[3]) ELSE @]

ComposeLoads(fn) ==
    LET block == EntryBinding(fn) \o fn.body
        caps  == Captures(block)
    IN  [fn EXCEPT !.body = [i \in DOMAIN block |-> ComposeStatement(caps, block[i])],
                   !.rets = ComposeExps(caps, @)]

MentionedPaths(p) ==
    LET steps == {i \in DOMAIN p : ~IsOffset(p[i])}
        start(i) == Max({j \in steps : j < i} \cup {0}) + 1
    IN  {SubSeq(p, start(i), i - 1) : i \in steps} \cup {SubSeq(p, 1, i) : i \in steps}
        \cup {SubSeq(p, start(Len(p) + 1), Len(p))}

\* ------------------------------------------------------------- the lowering

\* The assignments of a statement. A function pointer is no vertex, and value(p)
\* is a store at #value.
LowerAssign(s) ==
    {LET e == s.src[i] IN
       <<s.dst[1], IF e[1] = "value" THEN Concat(s.dst[2], <<Value>>) ELSE s.dst[2], e[2], e[3]>> :
       i \in {j \in DOMAIN s.src : IsPath(s.src[j])}}

\* The write-back of each parameter's entry version, and the returned values.
LowerReturn(fn) ==
    {<<Formal(i - 1), <<>>, Param(i - 1), <<>>>> : i \in DOMAIN fn.params}
    \cup {<<Formal(-i), <<>>, fn.rets[i][2], fn.rets[i][3]>> :
             i \in {j \in DOMAIN fn.rets : IsPath(fn.rets[j])}}

\* The actuals of a call, <<n, variable, path>>; returned values are at -1, -2, ...
LowerActuals(s) ==
    {<<i - 1, s.args[i][2], s.args[i][3]>> : i \in {j \in DOMAIN s.args : IsPath(s.args[j])}}
    \cup {<<-i, s.rets[i], <<>>>> : i \in DOMAIN s.rets}

\* The function pointers a statement takes, <<variable, path, target>>.
LowerTargets(s) ==
    IF s.op = "assign"
    THEN {<<s.dst[1], s.dst[2], s.src[i][2]>> : i \in {j \in DOMAIN s.src : s.src[j][1] = "ptr"}}
    ELSE {<<Arg(s.insn, Formal(i - 1)), <<>>, s.args[i][2]>> :
             i \in {j \in DOMAIN s.args : s.args[j][1] = "ptr"}}

\* The paths the lowering of a function puts in the paths gate.
Mentions(fn) ==
    LET exps == UNION {Range(IF s.op = "assign" THEN s.src ELSE s.args) : s \in Range(fn.body)}
                \cup Range(fn.rets)
        read == {e[3] : e \in {x \in exps : IsPath(x)}}
                \cup {s.style[3] : s \in {x \in Range(fn.body) : x.op = "call" /\ x.style[1] = "ptr"}}
        stored == {s.dst[2] : s \in {x \in Range(fn.body) : x.op = "assign"}} \ {<<>>}
    IN  UNION {MentionedPaths(p) : p \in read \cup stored}
        \cup stored \cup {p \in read : ReadsMemory(p)}
        \cup UNION {{a[2] : a \in LowerAssign(s)} : s \in {x \in Range(fn.body) : x.op = "assign"}}

\* compute_alias_of_formal: the roots each variable is a whole-variable copy of.
AliasOfFormal(assign, formalParam) ==
    LET copies == {<<a[1], a[2], a[4]>> : a \in {x \in assign : x[3] = <<>> /\ x[5] = <<>>}}
        base   == {<<r[1], r[2], r[2]>> : r \in {x \in formalParam : x[3] # "Copied"}}
                  \cup {<<c[1], c[3], c[3]>> : c \in {x \in copies : IsGlobal(x[3])}}
        away(f) == {c \in copies : c[1] = f /\ ~IsFormal(c[2])}
        step(rel, f) == rel \cup {<<f, m[1][2], m[2][3]>> :
                                    m \in {x \in away(f) \X rel : x[1][3] = x[2][2]}}
    IN  UNION {FoldSet(LAMBDA c, rel : step(rel, f), {r \in base : r[1] = f}, away(f)) :
                 f \in {r[1] : r \in base}}

\* The facts, with what EngineInput::new derives from them.
Facts ==
    LET fns    == [f \in DOMAIN program.fns |-> ComposeLoads(program.fns[f])]
        all(Of(_), op) ==
            UNION {UNION {{<<f, s>> \o r : r \in Of(s)} : s \in {x \in Range(fns[f].body) : x.op = op}} :
                      f \in DOMAIN fns}
        drop(rows) == {<<r[1]>> \o SubSeq(r, 3, Len(r)) : r \in rows}
        assign == drop(all(LowerAssign, "assign"))
                  \cup UNION {{<<f>> \o r : r \in LowerReturn(fns[f])} : f \in DOMAIN fns}
        actual == {<<r[1], r[2].insn, r[3], r[4], r[5]>> : r \in all(LowerActuals, "call")}
        tags   == drop(all(LowerTargets, "assign") \cup all(LowerTargets, "call"))
        calls  == {<<r[1], r[2]>> : r \in all(LAMBDA s : {<<>>}, "call")}
        calleeInfo == {<<c[1], c[2].insn, c[2].style[2], c[2].style[3]>> :
                          c \in {x \in calls : x[2].style[1] = "ptr"}}
        formal == UNION {{<<f, Formal(i - 1), fns[f].params[i]>> : i \in DOMAIN fns[f].params}
                         \cup {<<f, Formal(-i), "Shared">> : i \in 1..Max({1, Len(fns[f].rets)})} :
                            f \in DOMAIN fns}
    IN  [formalParam |-> formal,
         assign      |-> assign,
         actualParam |-> actual,
         call        |-> {<<c[1], c[2].insn, c[2].style[2]>> : c \in {x \in calls : x[2].style[1] = "direct"}},
         calleeInfo  |-> calleeInfo,
         callTargetAssign |-> tags,
         calleeResolvents |-> {t[4] : t \in tags},
         aliasOfFormal |-> AliasOfFormal(assign, formal),
         progStore   |-> {<<a[1], a[2], a[3]>> : a \in {x \in assign : x[3] # <<>>}},
         paths       |-> ComputePaths({<<>>} \cup UNION {Mentions(fns[f]) : f \in DOMAIN fns}
                                        \cup {a[3] : a \in assign} \cup {a[5] : a \in assign}
                                        \cup {a[5] : a \in actual} \cup {c[4] : c \in calleeInfo},
                                      {}, FALSE)]
=============================================================================
