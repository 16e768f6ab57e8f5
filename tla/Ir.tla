-------------------------------- MODULE Ir ---------------------------------
(***************************************************************************)
(* The IR's variables, expressions and statements (ctadl-ir's cir), and    *)
(* what an assignment does to labels (semantics/mod.rs). A cell is         *)
(* <<variable, path, label, scope>>.                                       *)
(***************************************************************************)
EXTENDS PathAlg

CONSTANT PathBound \* Config.path_bound

\* Variables. A parameter is a formal as it is passed, and version 0 of the
\* parameter inside the body. Arg is the vertex of a call site's actual; there
\* is none for a global (G5), which is itself.
Formal(i) == <<"formal", i>>
Param(i) == <<"param", i>>
Local(x) == <<"local", x>>
Global(g) == <<"global", g>>
IsFormal(v) == v[1] = "formal"
IsGlobal(v) == v[1] = "global"
Arg(insn, root) == IF IsGlobal(root) THEN root ELSE <<"arg", insn, root[2]>>

\* Expressions and statements.
Path(v, p) == <<"path", v, p>>
ValueOf(v, p) == <<"value", v, p>>
Ptr(f) == <<"ptr", f>>
Assign(v, p, sources) == [op |-> "assign", dst |-> <<v, p>>, src |-> sources]
Call(insn, style, args, rets) ==
    [op |-> "call", insn |-> insn, style |-> style, args |-> args, rets |-> rets]

\* The elements of a set in some fixed order.
Listed(S) == FoldSet(LAMBDA x, s : Append(s, x), <<>>, S)

IsPath(e) == e[1] \in {"path", "value"}

\* ------------------------------------------------------------ statements, cir/mod.rs


Phi(v, preds) == [op |-> "phi", dst |-> <<v, <<>>>>, src |-> [i \in DOMAIN preds |-> Path(v, <<>>)], preds |-> preds]

Variable(v) == SubSeq(v, 1, 2)
Versioned(v) == Len(v) = 3
WithVersion(v, n) == Append(Variable(v), n)

BaseVars(exps) == LET read == SelectSeq(exps, IsPath) IN [i \in DOMAIN read |-> read[i][2]]
IsStore(s) == s.op = "assign" /\ s.dst[2] # <<>>

\* The variables a statement reads, in order, and those it sets.
SrcVars(s) ==
    CASE s.op = "call" -> BaseVars(s.args) \o (IF s.style[1] = "ptr" THEN <<s.style[2]>> ELSE <<>>)
      [] IsStore(s)    -> <<s.dst[1]>> \o BaseVars(s.src)
      [] OTHER         -> BaseVars(s.src)
DstVars(s) == IF s.op = "call" THEN s.rets ELSE IF IsStore(s) THEN <<>> ELSE <<s.dst[1]>>

RewriteExps(exps, F(_)) == [i \in DOMAIN exps |-> IF IsPath(exps[i]) THEN [exps[i] EXCEPT ![2] = F(@)] ELSE exps[i]]
RewriteSrc(s, F(_)) ==
    IF s.op = "call"
    THEN [s EXCEPT !.args = RewriteExps(@, F), !.style = IF @[1] = "ptr" THEN [@ EXCEPT ![2] = F(@)] ELSE @]
    ELSE [s EXCEPT !.src = RewriteExps(@, F), !.dst = IF IsStore(s) THEN [@ EXCEPT ![1] = F(@)] ELSE @]
RewriteDst(s, k, v) == IF s.op = "call" THEN [s EXCEPT !.rets[k] = v] ELSE [s EXCEPT !.dst[1] = v]

\* The statements of a function, by block and position.
Sites(f) == UNION {{<<b, i>> : i \in DOMAIN f.blocks[b].stmts} : b \in DOMAIN f.blocks}
Stmt(f, x) == f.blocks[x[1]].stmts[x[2]]

\* -------------------------------------------------------------- the labeling

\* Only locations within the bound are labeled, and All absorbs Fixed.
AddCells(cells, new) ==
    cells \cup {c \in new : /\ Classify(c[2]) = "location" /\ Len(c[2]) <= PathBound
                            /\ [c EXCEPT ![4] = "All"] \notin cells}

\* The labels at a path and at its value, for a read: an address reads its base.
ReadLabels(cells, var, p) ==
    {c[3] : c \in {x \in cells : x[1] = var /\ x[2] \in {LocationOf(p), LocationOf(Concat(p, <<Value>>))}}}

\* What dst.d = src.s adds: forward (S6) and backward (S8).
AssignPath(cells, dst, d, src, s, store) ==
    LET scope == IF store THEN "All" ELSE "Fixed"
        targets(p) ==
            UNION {{Concat(d, t)} \cup IF t = <<>> /\ EndsIn(s, "#value") THEN {Concat(d, <<Value>>)} ELSE {} :
                     t \in StripPrefix(p, s)}
            \cup IF Classify(s) = "address" /\ LocationOf(s) = p THEN {d} ELSE {}
        forward == UNION {{<<dst, p, c[3], scope>> : p \in targets(c[2])} : c \in {x \in cells : x[1] = src}}
        backward == UNION {{<<src, Concat(s, t), c[3], "All">> : t \in StripPrefix(c[2], d) \ {<<>>, <<Value>>}} :
                             c \in {x \in cells : x[1] = dst /\ x[4] = "All"}}
    IN  IF "void" \in {Classify(d), Classify(s)} THEN {} ELSE forward \cup backward
=============================================================================
