----------------------------- MODULE Semantics -----------------------------
(***************************************************************************)
(* The reference implementation of the IR's semantics, ctadl-ir's          *)
(* semantics/mod.rs: the least labeling of a program's unfolding. Every    *)
(* function is a root instance and every call instantiates its callees     *)
(* again; labels (taint, and call targets) move along assignments forward, *)
(* and backward when a store put them there. An instance is the sequence   *)
(* of calls that made it, from its root; a cell is                         *)
(* <<variable, path, label, scope>>, its variable an <<owner, name>> pair. *)
(***************************************************************************)
EXTENDS Codegen

CONSTANT DepthBound \* Config.depth

VARIABLES
    insts,    \* the instances, in the order they were made
    cells,
    observed, \* the observable: the sinks that their own label reaches
    at,       \* the instance the loop of run is at, and the statement, 0 for its ports
    changed   \* whether this pass over the instances changed anything
evalVars == <<insts, cells, observed, at, changed>>

Taint(label) == <<"taint", label>>
Target(f) == <<"target", f>>

\* A global belongs to every instance, any other variable to its own.
Var(owner, v) == IF IsGlobal(v) THEN <<<<>>, v>> ELSE <<owner, v>>

FunctionOf(inst) == Last(inst)[2]

\* dst.d = e, with e read in an instance; value(p) is the store dst.d.#value = p.
AssignExp(dst, d, inst, e) ==
    LET to == IF e[1] = "value" THEN Concat(d, <<Value>>) ELSE d
    IN  CASE IsPath(e) -> AssignPath(cells, dst, to, Var(inst, e[2]), e[3], to # <<>>)
          [] e[1] = "ptr" -> {<<dst, d, Target(e[2]), IF d # <<>> THEN "All" ELSE "Fixed">>}
          [] OTHER -> {}

\* The functions with a code that a call reaches from an instance.
Callees(inst, s) ==
    DOMAIN program.fns \cap
        IF s.style[1] = "direct" THEN {s.style[2]}
        ELSE {l[2] : l \in {x \in ReadLabels(cells, Var(inst, s.style[2]), s.style[3]) : x[1] = "target"}}

\* p_i = a_i and r_j = ret_j, between an instance and the callee's.
InstantiateCallee(inst, s, callee) ==
    LET child == Append(inst, <<s.insn, callee>>)
        fn    == program.fns[callee]
    IN  UNION {AssignExp(Var(child, Formal(i - 1)), <<>>, inst, s.args[i]) :
                 i \in DOMAIN s.args \cap DOMAIN fn.params}
        \cup UNION {AssignExp(Var(inst, s.rets[i]), <<>>, child, fn.rets[i]) :
                      i \in DOMAIN s.rets \cap DOMAIN fn.rets}

SeedCells(inst) ==
    UNION {{<<Var(inst, x[2]), p, Taint(x[4]), "All">> : p \in {x[3], Concat(x[3], <<Value>>)}} :
             x \in {y \in program.sources : y[1] = FunctionOf(inst)}}

EvalInit ==
    /\ insts = Listed({<<<<0, f>>>> : f \in DOMAIN program.fns})
    /\ cells = {} /\ observed = {}
    /\ at = <<1, 0>> /\ changed = FALSE

running == at[1] <= Len(insts)
current == insts[at[1]]
code == LET fn == program.fns[FunctionOf(current)] IN EntryBinding(fn) \o fn.body

Changes == changed' = (changed \/ <<insts, cells, observed>>' # <<insts, cells, observed>>)

\* An instance: its seeds and observers, and its statements in turn.
EvalPorts ==
    /\ running /\ at[2] = 0
    /\ cells' = AddCells(cells, SeedCells(current))
    /\ observed' = observed \cup
          {k \in program.sinks : /\ k[1] = FunctionOf(current)
                                 /\ Taint(k[4]) \in ReadLabels(cells, Var(current, k[2]), k[3])}
    /\ at' = [at EXCEPT ![2] = 1]
    /\ UNCHANGED insts /\ Changes

EvalAssign ==
    /\ running /\ at[2] \in DOMAIN code
    /\ LET s == code[at[2]] IN
         /\ s.op = "assign"
         /\ cells' = AddCells(cells, UNION {AssignExp(Var(current, s.dst[1]), s.dst[2], current, s.src[i]) : i \in DOMAIN s.src})
    /\ at' = [at EXCEPT ![2] = @ + 1]
    /\ UNCHANGED <<insts, observed>> /\ Changes

\* A call: a child instance for each callee that has none yet, unless too deep.
EvalCall ==
    /\ running /\ at[2] \in DOMAIN code
    /\ LET s == code[at[2]]
           reached == IF Len(current) > DepthBound THEN {} ELSE Callees(current, s)
       IN  /\ s.op = "call"
           /\ cells' = AddCells(cells, UNION {InstantiateCallee(current, s, f) : f \in reached})
           /\ insts' = insts \o Listed({Append(current, <<s.insn, f>>) : f \in reached} \ Range(insts))
    /\ at' = [at EXCEPT ![2] = @ + 1]
    /\ UNCHANGED observed /\ Changes

EvalNext ==
    /\ running /\ at[2] > Len(code)
    /\ at' = <<at[1] + 1, 0>>
    /\ UNCHANGED <<insts, cells, observed, changed>>

\* Another pass, as long as one changed something.
EvalAgain ==
    /\ ~running /\ changed
    /\ at' = <<1, 0>> /\ changed' = FALSE
    /\ UNCHANGED <<insts, cells, observed>>

EvalStep == EvalPorts \/ EvalAssign \/ EvalCall \/ EvalNext \/ EvalAgain
EvalDone == ~running /\ ~changed
=============================================================================
