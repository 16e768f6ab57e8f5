---------------------------- MODULE PathRewrite ----------------------------
(***************************************************************************)
(* The equations of access paths (path.rs, S2) as a rewriting system: a    *)
(* raw path is rewritten by one equation at one place per step, in any     *)
(* order. It is the reference the three implementations of PathAlg are     *)
(* compared with: push_normalized in path.rs, the splits and junctions of  *)
(* facts.rs, and the hash-probed concatenation of path_set.rs.             *)
(***************************************************************************)
EXTENDS PathAlg

CONSTANTS
    Names,     \* field names
    MaxRaw,    \* segments of a raw path
    MaxOther   \* segments of the paths it is combined with

VARIABLES
    start,     \* the path as written
    path       \* what the equations made of it so far
vars == <<start, path>>

Offsets == -2^(OffsetBits - 1)..2^(OffsetBits - 1) - 1
Segments == {Field(n) : n \in Names} \cup {Deref, Value} \cup {Offset(k) : k \in Offsets}

Paths(n) == UNION {[1..i -> Segments] : i \in 0..n}

\* What the two segments a, b next to each other may be replaced by.
Equations(a, b) ==
    IF IsOffset(a) /\ IsOffset(b) THEN {<<Offset(Wrap(a[2] + b[2]))>>}
    ELSE IF a = Value /\ (b = Value \/ IsOffset(b)) THEN {<<Value>>}
    ELSE IF IsOffset(a) /\ b = Value THEN {<<Value>>}
    ELSE {}

Rewrites(p) ==
    {SubSeq(p, 1, i - 1) \o SubSeq(p, i + 1, Len(p)) : i \in {j \in DOMAIN p : p[j] = Offset(0)}}
    \cup UNION {{SubSeq(p, 1, i - 1) \o e \o SubSeq(p, i + 2, Len(p)) : e \in Equations(p[i], p[i + 1])} :
                   i \in 1..Len(p) - 1}

Init == start \in Paths(MaxRaw) /\ path = start
Next == path' \in Rewrites(path) /\ UNCHANGED start
Spec == Init /\ [][Next]_vars

\* ------------------------------------------------------------- properties

NormalPaths(n) == {p \in Paths(n) : Rewrites(p) = {}}

\* A path met once: as written, with nothing to rewrite.
Written == path = start /\ Rewrites(path) = {}

\* path.rs push_normalized: whatever the order in which the equations are
\* applied, they end in the path that folding push_normalized over the segments
\* gives, and no earlier.
NormalFormIsUnique ==
    /\ Normalize(path) = Normalize(start)
    /\ Rewrites(path) = {} <=> path = Normalize(start)

\* path.rs strip_prefix: it answers whenever some suffix t solves
\* concat(prefix, t) = path, and with a shortest one. rewrite_address_dest
\* leaves a destination that is no address, and the assignment it returns
\* moves the labels of the same pairs of paths as the one it was given.
StripSolves ==
    Written /\ Len(path) <= MaxOther + 1 =>
        \A other \in NormalPaths(MaxOther) :
            LET answer    == StripPrefix(path, other)
                solutions == {t \in NormalPaths(MaxOther + 1) : Concat(other, t) = path}
                rewritten == RewriteAddressDest(other, path)
                back      == IF EndsIn(other, "offset") THEN <<Last(other)>> ELSE <<>>
            IN  /\ \A t \in answer : Concat(other, t) = path
                /\ \A s \in solutions : \E t \in answer : Len(t) <= Len(s)
                /\ Classify(rewritten[1]) # "address"
                /\ \A t \in NormalPaths(MaxOther) :
                      LET u == Concat(back, t)
                      IN  /\ Concat(rewritten[1], u) = Concat(other, t)
                          /\ Concat(rewritten[2], u) = Concat(path, t)

\* facts.rs prefix_keys, prefix_keys_wild and wild_rest: the exact and the wild
\* keys of a path together are the prefixes match_prefix accepts, with its
\* suffix, and the suffix is strip_prefix's. match_prefix refuses what
\* strip_prefix accepts in one case only: an address prefix p.[m] of a path
\* that goes on from p with neither an offset nor #value.
KeysAreMatches ==
    Written =>
        \A prefix \in NormalPaths(MaxOther) :
            LET exact == {k[2] : k \in {e \in PrefixKeys(path) : e[1] = prefix}}
                wild  == UNION {WildRest(k[2], t[2]) :
                            <<k, t>> \in {m \in PrefixKeysWild(path) \X SplitTrailingOffset(prefix) :
                                           m[1][1] = m[2][1]}}
                rebased == /\ EndsIn(prefix, "offset")
                           /\ IsPrefix(Front(prefix), path)
                           /\ \/ path = Front(prefix)
                              \/ path[Len(prefix)][1] \in {"field", "deref"}
            IN  /\ MatchPrefix(path, prefix)
                      = exact \cup {Normalize(<<Offset(w[1])>> \o w[2]) : w \in wild}
                /\ MatchPrefix(path, prefix) = IF rebased THEN {} ELSE StripPrefix(path, prefix)

\* facts.rs prepend_onto and path_set.rs concat: both build the normal form of
\* the concatenation, the second one only where it is a member, for every
\* suffix that a prefix match (match_prefix_split or a wild key) hands them.
ConcatsAgree ==
    Written =>
        \A prefix, newPrefix \in NormalPaths(MaxOther) :
            /\ \A s \in MatchPrefixSplit(path, prefix) :
                  LET whole == Normalize(newPrefix \o SetToSeq({Offset(k) : k \in s[1]}) \o s[2])
                  IN  /\ SubstitutePrefix(path, prefix, newPrefix) = {whole}
                      /\ SetConcat({whole}, newPrefix, s[1], s[2]) = {whole}
            /\ \A k \in PrefixKeysWild(path), t \in SplitTrailingOffset(prefix) :
                  \A w \in WildRest(k[2], t[2]) :
                      LET whole == Normalize(newPrefix \o <<Offset(w[1])>> \o w[2])
                      IN  SetConcat({whole}, newPrefix, {w[1]}, w[2]) = {whole}
=============================================================================
