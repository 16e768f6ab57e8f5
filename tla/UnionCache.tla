----------------------------- MODULE UnionCache -----------------------------
(***************************************************************************)
(* One slot of the union memo of index_engine/decision.rs, a seqlock that  *)
(* every thread reads and fills without a lock: union_cache_get and        *)
(* union_cache_put, for the keys that share the slot.                      *)
(*                                                                         *)
(* Memory is a history of writes per location, each with the view it       *)
(* releases. A load returns any write not older than the thread's view of  *)
(* the location; an Acquire load, or a later Acquire fence, joins the      *)
(* write's view; a store releases the view of the last Release fence, or   *)
(* the thread's own if it is a Release store.                              *)
(***************************************************************************)
EXTENDS Integers, Sequences

CONSTANTS
    Thread,
    Key,        \* the keys that hash to the slot
    ResultOf,   \* the union's handle for each key
    SeqMod,     \* seq wraps at 2^32
    MaxPuts     \* bound: how often the slot is claimed

ASSUME CacheAssumption ==
    /\ 0 \notin Key
    /\ DOMAIN ResultOf = Key
    /\ SeqMod \in Nat /\ SeqMod % 2 = 0
    /\ MaxPuts \in Nat /\ 2 * MaxPuts < SeqMod

Loc == {"seq", "key", "result"}

VARIABLES
    mem,            \* the writes to each location, in modification order
    cur, acq, rel,  \* each thread's view, what a fence would acquire, and
                    \* what its relaxed stores release
    pc, key,        \* where each thread is, and the key it gets or puts
    s, k, r,        \* the values it has loaded
    hits            \* history: every <<key, result>> a get returned

vars == <<mem, cur, acq, rel, pc, key, s, k, r, hits>>

Start == [l \in Loc |-> 1]
Merge(v, w) == [l \in Loc |-> IF v[l] < w[l] THEN w[l] ELSE v[l]]
Last(l) == Len(mem[l])

Init ==
    /\ mem = [l \in Loc |-> <<[val |-> 0, view |-> Start]>>]
    /\ cur = [t \in Thread |-> Start]
    /\ acq = [t \in Thread |-> Start]
    /\ rel = [t \in Thread |-> Start]
    /\ pc = [t \in Thread |-> "idle"]
    /\ key = [t \in Thread |-> 0]
    /\ s = [t \in Thread |-> 0]
    /\ k = [t \in Thread |-> 0]
    /\ r = [t \in Thread |-> 0]
    /\ hits = {}

\* The writes a load of l by t may return, by their place in the history.
Visible(t, l) == cur[t][l]..Last(l)

LoadRelaxed(t, l, n) ==
    /\ cur' = [cur EXCEPT ![t][l] = n]
    /\ acq' = [acq EXCEPT ![t] = Merge(@, mem[l][n].view)]

LoadAcquire(t, l, n) ==
    /\ cur' = [cur EXCEPT ![t] = Merge([@ EXCEPT ![l] = n], mem[l][n].view)]
    /\ acq' = [acq EXCEPT ![t] = Merge(@, mem[l][n].view)]

Store(t, l, x, view) ==
    LET n == Last(l) + 1 IN
    /\ mem' = [mem EXCEPT ![l] = Append(@, [val |-> x, view |-> [view EXCEPT ![l] = n]])]
    /\ cur' = [cur EXCEPT ![t][l] = n]

Goto(t, label) == pc' = [pc EXCEPT ![t] = label]

-----------------------------------------------------------------------------
GetSeq(t) ==
    /\ pc[t] = "idle"
    /\ \E q \in Key, n \in Visible(t, "seq") :
        /\ LoadAcquire(t, "seq", n)
        /\ key' = [key EXCEPT ![t] = q]
        /\ s' = [s EXCEPT ![t] = mem["seq"][n].val]
        /\ Goto(t, IF mem["seq"][n].val % 2 = 1 THEN "idle" ELSE "getkey")
    /\ UNCHANGED <<mem, rel, k, r, hits>>

GetKey(t) ==
    /\ pc[t] = "getkey"
    /\ \E n \in Visible(t, "key") :
        /\ LoadRelaxed(t, "key", n)
        /\ k' = [k EXCEPT ![t] = mem["key"][n].val]
    /\ Goto(t, "getresult")
    /\ UNCHANGED <<mem, rel, key, s, r, hits>>

GetResult(t) ==
    /\ pc[t] = "getresult"
    /\ \E n \in Visible(t, "result") :
        /\ LoadRelaxed(t, "result", n)
        /\ r' = [r EXCEPT ![t] = mem["result"][n].val]
    /\ Goto(t, "getfence")
    /\ UNCHANGED <<mem, rel, key, s, k, hits>>

\* Mutant of GetFence: no Acquire fence before the second load of seq.
GetFenceNone(t) ==
    /\ pc[t] = "getfence"
    /\ Goto(t, "getcheck")
    /\ UNCHANGED <<mem, cur, acq, rel, key, s, k, r, hits>>

GetFence(t) ==
    /\ pc[t] = "getfence"
    /\ cur' = [cur EXCEPT ![t] = Merge(@, acq[t])]
    /\ Goto(t, "getcheck")
    /\ UNCHANGED <<mem, acq, rel, key, s, k, r, hits>>

\* The slot is accepted if seq is unchanged and the key is the one asked for.
GetCheck(t) ==
    /\ pc[t] = "getcheck"
    /\ \E n \in Visible(t, "seq") :
        /\ LoadRelaxed(t, "seq", n)
        /\ hits' = IF mem["seq"][n].val # s[t] \/ k[t] # key[t] THEN hits
                   ELSE hits \cup {<<key[t], r[t]>>}
    /\ Goto(t, "idle")
    /\ UNCHANGED <<mem, rel, key, s, k, r>>

PutLoad(t) ==
    /\ pc[t] = "idle"
    /\ Last("seq") <= 2 * MaxPuts
    /\ \E q \in Key, n \in Visible(t, "seq") :
        /\ LoadRelaxed(t, "seq", n)
        /\ key' = [key EXCEPT ![t] = q]
        /\ s' = [s EXCEPT ![t] = mem["seq"][n].val]
        /\ Goto(t, IF mem["seq"][n].val % 2 = 1 THEN "idle" ELSE "putclaim")
    /\ UNCHANGED <<mem, rel, k, r, hits>>

\* compare_exchange acts on the last write and goes on with its release; a
\* writer that loses the race does not cache.
PutClaim(t) ==
    LET last == mem["seq"][Last("seq")]
        n == Last("seq") + 1
    IN
    /\ pc[t] = "putclaim"
    /\ IF last.val # s[t]
       THEN Goto(t, "idle") /\ UNCHANGED <<mem, cur>>
       ELSE /\ mem' = [mem EXCEPT !["seq"] = Append(@,
                   [val |-> (s[t] + 1) % SeqMod,
                    view |-> [Merge(last.view, rel[t]) EXCEPT !["seq"] = n]])]
            /\ cur' = [cur EXCEPT ![t] = [Merge(@, last.view) EXCEPT !["seq"] = n]]
            /\ Goto(t, "putfence")
    /\ UNCHANGED <<acq, rel, key, s, k, r, hits>>

PutFence(t) ==
    /\ pc[t] = "putfence"
    /\ rel' = [rel EXCEPT ![t] = cur[t]]
    /\ Goto(t, "putkey")
    /\ UNCHANGED <<mem, cur, acq, key, s, k, r, hits>>

PutKey(t) ==
    /\ pc[t] = "putkey"
    /\ Store(t, "key", key[t], rel[t])
    /\ Goto(t, "putresult")
    /\ UNCHANGED <<acq, rel, key, s, k, r, hits>>

PutResult(t) ==
    /\ pc[t] = "putresult"
    /\ Store(t, "result", ResultOf[key[t]], rel[t])
    /\ Goto(t, "putrelease")
    /\ UNCHANGED <<acq, rel, key, s, k, r, hits>>

PutRelease(t) ==
    /\ pc[t] = "putrelease"
    /\ Store(t, "seq", (s[t] + 2) % SeqMod, cur[t])
    /\ Goto(t, "idle")
    /\ UNCHANGED <<acq, rel, key, s, k, r, hits>>

Next ==
    \E t \in Thread :
        \/ GetSeq(t) \/ GetKey(t) \/ GetResult(t) \/ GetFence(t) \/ GetCheck(t)
        \/ PutLoad(t) \/ PutClaim(t) \/ PutFence(t)
        \/ PutKey(t) \/ PutResult(t) \/ PutRelease(t)

Spec == Init /\ [][Next]_vars

-----------------------------------------------------------------------------
\* A hit returns the result that was stored for the key it matched, never
\* another key's, however the loads of union_cache_get fall among the stores
\* of several union_cache_put calls.
NeverTorn == \A hit \in hits : hit[2] = ResultOf[hit[1]]

=============================================================================
