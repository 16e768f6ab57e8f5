------------------------------ MODULE Mem2Reg ------------------------------
(***************************************************************************)
(* The promotion of stack slots to locals: ctadl-ir's ssa/mem2reg. A slot  *)
(* is an offset of the frame base; full is whether the slots that escaped  *)
(* addresses reach are promoted too (full_above, or a model's mode). The   *)
(* uses that are not classified are those of phis, which come later.       *)
(***************************************************************************)
EXTENDS Ir

CONSTANT Window \* EscapePolicy::Window; Exact is a window of 1, AllAbove one without end

StackTop == Local("__stack_top")
SlotLocal(k) == <<"slot", k>>
Reaches(j, k) == j <= k /\ k < j + Window

FrameAccess(v, p) ==
    IF v # StackTop THEN {}
    ELSE IF StartsWith(p, "offset") THEN {[slot |-> p[1][2], rest |-> Tail(p)]}
    ELSE {[slot |-> 0, rest |-> p]}
IsDirect(a) == StartsWith(a.rest, "deref")

\* read_use: through the slot's memory, of the address itself, or at the address.
ReadUse(v, p, how) ==
    {[slot |-> a.slot, how |-> IF IsDirect(a) THEN "load" ELSE IF a.rest = <<>> THEN how ELSE "field"] :
        a \in FrameAccess(v, p)}
ReadUses(exps, how) == UNION {ReadUse(e[2], e[3], how) : e \in {x \in Range(exps) : IsPath(x)}}

ClassifyUses(s) ==
    CASE s.op = "call" -> ReadUses(s.args, "call")
                          \cup IF s.style[1] = "ptr" THEN ReadUse(s.style[2], s.style[3], "call") ELSE {}
      [] IsStore(s)    -> {[slot |-> a.slot, how |-> IF IsDirect(a) THEN "store" ELSE "field"] :
                             a \in FrameAccess(s.dst[1], s.dst[2])}
                          \cup ReadUses(s.src, "stored")
      [] OTHER         -> ReadUses(s.src, "copied")

\* A return is not rewritten: what it reads escapes.
FrameUses(f) ==
    UNION {ClassifyUses(Stmt(f, x)) : x \in Sites(f)}
    \cup UNION {{[u EXCEPT !.how = "returned"] : u \in ReadUses(f.blocks[b].args, "returned")} : b \in DOMAIN f.blocks}
DirectSlots(f) == {u.slot : u \in {x \in FrameUses(f) : x.how \in {"load", "store"}}}
Escapes(f) == {u \in FrameUses(f) : u.how \notin {"load", "store"}}
Reached(f, k) == \E u \in Escapes(f) : Reaches(u.slot, k)

\* A function whose frame base is assigned is left alone. A slot that has its local
\* already was promoted before, and what is left of it are its reloads.
Promotable(f, full) ==
    {k \in DirectSlots(f) :
        /\ \A x \in Sites(f) : StackTop \notin Range(DstVars(Stmt(f, x)))
        /\ Reached(f, k) =>
              /\ full
              /\ \A u \in Escapes(f) : u.how = "returned" => ~Reaches(u.slot, k)
              /\ \A x \in Sites(f) : SlotLocal(k) \notin Range(SrcVars(Stmt(f, x)) \o DstVars(Stmt(f, x)))}
Escaped(f, full) == {k \in Promotable(f, full) : Reached(f, k)}

\* EscapeNote: the kinds of escape that reach a slot in a way the reloads do not cover.
Note(f, full) ==
    LET stored == {u.slot : u \in {x \in FrameUses(f) : x.how = "store"}}
    IN  {u.how : u \in {x \in Escapes(f) : \E k \in Escaped(f, full) :
                                              Reaches(x.slot, k) /\ (x.how # "call" \/ k \in stored)}}

PromoteAccess(slots, v, p) ==
    LET hit == {a \in FrameAccess(v, p) : IsDirect(a) /\ a.slot \in slots}
    IN  IF hit = {} THEN <<v, p>> ELSE LET a == CHOOSE x \in hit : TRUE IN <<SlotLocal(a.slot), Tail(a.rest)>>
PromoteExps(slots, exps) ==
    [i \in DOMAIN exps |->
        LET e == exps[i] IN IF IsPath(e) THEN <<e[1]>> \o PromoteAccess(slots, e[2], e[3]) ELSE e]
PromoteStatement(slots, s) ==
    IF s.op = "call"
    THEN [s EXCEPT !.args = PromoteExps(slots, @),
                   !.style = IF @[1] = "ptr" THEN <<"ptr">> \o PromoteAccess(slots, @[2], @[3]) ELSE @]
    ELSE [s EXCEPT !.src = PromoteExps(slots, @),
                   !.dst = IF IsStore(s) THEN PromoteAccess(slots, @[1], @[2]) ELSE @]

\* A call that is passed an address may write the slots it reaches.
PassedTo(s, k) == s.op = "call" /\ \E u \in ClassifyUses(s) : u.how = "call" /\ Reaches(u.slot, k)

Reloads(escaped, s) ==
    LET slots == {k \in escaped : PassedTo(s, k)}
    IN  [i \in 1..Cardinality(slots) |->
            LET k == SetToSortSeq(slots, <)[i]
            IN  Assign(SlotLocal(k), <<>>, <<Path(StackTop, Normalize(<<Offset(k), Deref>>))>>)]

PromoteFunction(f, full) ==
    LET slots   == Promotable(f, full)
        escaped == Escaped(f, full)
    IN  [f EXCEPT !.blocks = [b \in DOMAIN @ |->
            [@[b] EXCEPT !.stmts = FlattenSeq([i \in DOMAIN @ |->
                <<PromoteStatement(slots, @[i])>> \o Reloads(escaped, @[i])])]]]
=============================================================================
