---------------------------- MODULE InternerSpec ----------------------------
(***************************************************************************)
(* What an interner promises: an append-only one-to-one relation between   *)
(* values and ids, and threads that only ever hold ids that are in it.     *)
(***************************************************************************)
CONSTANTS Thread, Value, Id

VARIABLES
    assigned,   \* the <<value, id>> pairs issued so far
    known       \* the ids each thread holds

vars == <<assigned, known>>

IssuedIds == {p[2] : p \in assigned}

Init ==
    /\ assigned = {}
    /\ known = [t \in Thread |-> {}]

\* A new value gets an id no other value has.
Assign(v, id) ==
    /\ \A p \in assigned : p[1] # v /\ p[2] # id
    /\ assigned' = assigned \cup {<<v, id>>}
    /\ UNCHANGED known

\* A thread learns issued ids: from the interner or from another thread.
Learn(t, ids) ==
    /\ ids \subseteq IssuedIds
    /\ known' = [known EXCEPT ![t] = @ \cup ids]
    /\ UNCHANGED assigned

Next ==
    \/ \E v \in Value, id \in Id : Assign(v, id)
    \/ \E t \in Thread, ids \in SUBSET Id : Learn(t, ids)

Spec == Init /\ [][Next]_vars
=============================================================================
