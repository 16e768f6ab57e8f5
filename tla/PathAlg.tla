------------------------------ MODULE PathAlg ------------------------------
(***************************************************************************)
(* Access paths: the normal form of ctadl-ir's cir/path.rs, the same       *)
(* algebra written again for the index's interned paths (facts.rs), and    *)
(* once more for its frozen set of admissible paths (path_set.rs). A path  *)
(* is a sequence of segments, its representation (interned cons cells, a   *)
(* hash table probed by suffix hash) left out. Option is a set of at most  *)
(* one element.                                                            *)
(***************************************************************************)
EXTENDS Integers, SequencesExt

CONSTANT OffsetBits \* the width of an offset, 64 in the code

ASSUME OffsetAssumption == OffsetBits \in Nat \ {0}

\* Offsets are i64. PushNormalized and strip wrap them; WildRest, MatchPrefixSplit,
\* PrependOnto and SetConcat use plain + and -, which wrap in the release build (a debug
\* build panics instead).
Wrap(k) == ((k + 2^(OffsetBits - 1)) % 2^OffsetBits) - 2^(OffsetBits - 1)

Offset(k) == <<"offset", k>>
Field(name) == <<"field", name>>
Deref == <<"deref", "">>
Value == <<"#value", "">>

IsOffset(seg) == seg[1] = "offset"
EndsIn(p, kind) == p # <<>> /\ Last(p)[1] = kind
StartsWith(p, kind) == p # <<>> /\ Head(p)[1] = kind

\* ------------------------------------------------------------ cir/path.rs

\* A mutant of PushOffset that keeps a sum of zero.
PushOffsetKeepsZero(out, k) ==
    IF EndsIn(out, "#value") THEN out
    ELSE IF EndsIn(out, "offset") THEN Append(Front(out), Offset(Wrap(Last(out)[2] + k)))
    ELSE IF k # 0 THEN Append(out, Offset(k)) ELSE out

PushOffset(out, k) ==
    IF EndsIn(out, "#value") THEN out
    ELSE IF EndsIn(out, "offset")
         THEN LET sum == Wrap(Last(out)[2] + k)
              IN  IF sum = 0 THEN Front(out) ELSE Append(Front(out), Offset(sum))
    ELSE IF k # 0 THEN Append(out, Offset(k)) ELSE out

PushValue(out) ==
    LET base == IF EndsIn(out, "offset") THEN Front(out) ELSE out
    IN  IF EndsIn(base, "#value") THEN base ELSE Append(base, Value)

PushNormalized(out, seg) ==
    CASE seg[1] = "offset" -> PushOffset(out, seg[2])
      [] seg[1] = "#value" -> PushValue(out)
      [] OTHER -> Append(out, seg)

Normalize(segments) == FoldLeft(PushNormalized, <<>>, segments)

Concat(prefix, suffix) == FoldLeft(PushNormalized, prefix, suffix)

Classify(p) ==
    IF \E i, j \in DOMAIN p : i < j /\ p[i] = Value /\ p[j][1] \in {"field", "deref"}
    THEN "void"
    ELSE IF EndsIn(p, "offset") THEN "address" ELSE "location"

\* A mutant of StripPrefix that compares segment by segment.
StripPrefixLiteral(path, prefix) ==
    IF IsPrefix(prefix, path) THEN {SubSeq(path, Len(prefix) + 1, Len(path))} ELSE {}

StripPrefix(path, prefix) ==
    IF prefix = <<>> THEN {path}
    ELSE LET init == Front(prefix)
             rest == SubSeq(path, Len(init) + 1, Len(path))
         IN  IF ~IsPrefix(init, path) THEN {}
             ELSE IF EndsIn(prefix, "offset")
                  THEN {t \in {Concat(Normalize(<<Offset(Wrap(-Last(prefix)[2]))>>), rest)} :
                          Concat(prefix, t) = path}
             ELSE IF rest # <<>> /\ Head(rest) = Last(prefix) THEN {Tail(rest)}
             ELSE {}

\* p.[k] = e as p = e.[-k]; the pair of destination and source.
RewriteAddressDest(dest, src) ==
    IF EndsIn(dest, "offset")
    THEN <<Front(dest), Concat(src, <<Offset(Wrap(-Last(dest)[2]))>>)>>
    ELSE <<dest, src>>

LocationOf(p) == IF EndsIn(p, "offset") THEN Front(p) ELSE p

\* ---------------------------------------------------------------- facts.rs

PrefixKeys(p) == {<<SubSeq(p, 1, k), SubSeq(p, k + 1, Len(p))>> : k \in 0..Len(p)}

\* A mutant of PrefixKeysWild without the keys before a value.
PrefixKeysWildOffsets(p) ==
    {<<SubSeq(p, 1, k - 1), SubSeq(p, k, Len(p))>> : k \in {i \in DOMAIN p : IsOffset(p[i])}}

PrefixKeysWild(p) ==
    {<<SubSeq(p, 1, k - 1), SubSeq(p, k, Len(p))>> :
        k \in {i \in DOMAIN p : p[i][1] \in {"offset", "#value"}}}

\* <<adjustment, rest>>.
WildRest(rest, m) ==
    IF StartsWith(rest, "offset") /\ Head(rest)[2] # m
    THEN {<<Wrap(Head(rest)[2] - m), Tail(rest)>>}
    ELSE IF StartsWith(rest, "#value") THEN {<<0, rest>>} ELSE {}

\* <<key, m>> for key.[m].
SplitTrailingOffset(p) == IF EndsIn(p, "offset") THEN {<<Front(p), Last(p)[2]>>} ELSE {}

\* <<adjust, rest>>; adjust is itself an option.
MatchPrefixSplit(path, prefix) ==
    IF prefix = <<>> THEN {<<{}, path>>}
    ELSE LET init == Front(prefix)
             rest == SubSeq(path, Len(init) + 1, Len(path))
             a    == Head(rest)
             p    == Last(prefix)
         IN  IF ~IsPrefix(init, path) \/ rest = <<>> THEN {}
             ELSE IF a = p THEN {<<{}, Tail(rest)>>}
             ELSE IF IsOffset(a) /\ IsOffset(p) THEN {<<{Wrap(a[2] - p[2])}, Tail(rest)>>}
             ELSE IF a = Value /\ IsOffset(p) THEN {<<{}, rest>>}
             ELSE {}

MatchPrefix(path, prefix) ==
    {SetToSeq({Offset(k) : k \in s[1]}) \o s[2] : s \in MatchPrefixSplit(path, prefix)}

PrependOnto(newPrefix, suffix) ==
    IF EndsIn(newPrefix, "offset") /\ StartsWith(suffix, "offset")
    THEN LET sum == Wrap(Last(newPrefix)[2] + Head(suffix)[2])
         IN  Front(newPrefix) \o (IF sum = 0 THEN <<>> ELSE <<Offset(sum)>>) \o Tail(suffix)
    ELSE IF EndsIn(newPrefix, "offset") /\ StartsWith(suffix, "#value")
         THEN Front(newPrefix) \o suffix
    ELSE IF /\ EndsIn(newPrefix, "#value")
            /\ StartsWith(suffix, "offset") \/ StartsWith(suffix, "#value")
         THEN newPrefix \o Tail(suffix)
    ELSE newPrefix \o suffix

SubstitutePrefix(p, prefix, newPrefix) ==
    {PrependOnto(newPrefix, s) : s \in MatchPrefix(p, prefix)}

\* ------------------------------------------------------------- path_set.rs

\* PathSet::splits; a path that is not a member has none.
Splits(ps, p) == IF p \in ps THEN PrefixKeys(p) ELSE {}
SplitsWild(ps, p) == IF p \in ps THEN PrefixKeysWild(p) ELSE {}
SplitTrailing(ps, p) == IF p \in ps THEN SplitTrailingOffset(p) ELSE {}

\* Mutants of SetConcat: one that does not ask for a member, and one that keeps an
\* offset before a value.
SetConcatAny(ps, prefix, adjust, rest) ==
    {Normalize(prefix \o SetToSeq({Offset(k) : k \in adjust}) \o rest)}
SetConcatOffsetValue(ps, prefix, adjust, rest) ==
    {IF StartsWith(rest, "#value") /\ ~EndsIn(prefix, "#value") THEN prefix \o rest
     ELSE Normalize(prefix \o SetToSeq({Offset(k) : k \in adjust}) \o rest)} \cap ps

\* PathSet::concat: the member prefix . [adjust] . rest, if it is one.
SetConcat(ps, prefix, adjust, rest) ==
    LET body   == LocationOf(prefix)
        offs   == IF EndsIn(prefix, "offset") THEN {Last(prefix)[2]} ELSE {}
        heads  == IF StartsWith(rest, "offset") THEN {Head(rest)[2]} ELSE {}
        orZero(o) == IF o = {} THEN 0 ELSE CHOOSE k \in o : TRUE
        sum    == Wrap(orZero(offs) + orZero(adjust) + orZero(heads))
        drop   == IF heads # {} THEN Tail(rest) ELSE rest
        candidate ==
            IF EndsIn(prefix, "#value")
            THEN prefix \o IF StartsWith(rest, "#value") THEN Tail(rest) ELSE drop
            ELSE IF StartsWith(rest, "#value") THEN body \o rest
            ELSE IF offs # {} \/ adjust # {}
                 THEN body \o (IF sum = 0 THEN <<>> ELSE <<Offset(sum)>>) \o drop
            ELSE prefix \o rest
    IN  {candidate} \cap ps

SetSubstitutePrefix(ps, p, prefix, newPrefix) ==
    UNION {SetConcat(ps, newPrefix, s[1], s[2]) : s \in MatchPrefixSplit(p, prefix)}

\* ------------------------------------------------ the admissible paths, mod.rs

WithValuePaths(paths) ==
    LET valued(p) == \E i \in DOMAIN p : p[i] = Value
        base == {<<>>} \cup {p \in paths : ~valued(p)}
                \cup {Front(p) : p \in {q \in paths : EndsIn(q, "#value") /\ ~valued(Front(q))}}
    IN  IF \A p \in paths : ~valued(p) THEN paths
        ELSE base \cup {Concat(p, <<Value>>) : p \in base}

ComputePaths(programPaths, modelPaths, derefPaths) ==
    LET model == modelPaths \cup IF derefPaths THEN {<<Deref>>} ELSE {}
    IN  WithValuePaths(programPaths \cup model
            \cup {Concat(m, p) : m \in model, p \in programPaths}
            \cup {Concat(p, m) : m \in model, p \in programPaths})
=============================================================================
