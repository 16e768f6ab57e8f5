---------------------------- MODULE ImportProofs ----------------------------
(***************************************************************************)
(* Proofs about ImportStore: its four invariants hold for any versions,    *)
(* any rebuilds and any number of crashes.                                 *)
(*                                                                         *)
(* The inductive invariant (StoreInv) says, for each place in a command,   *)
(* what the files of the import hold and what the command has read. The    *)
(* first lemmas are about the places: which plans there are, and what      *)
(* comes after what. Then each step of an import, of index, the start of a *)
(* command, a failure and a rebuild keeps it.                              *)
(***************************************************************************)
EXTENDS ImportStore, TLAPS

(* The plans a command can be left with. *)

P1 == << <<"create", App>>, <<"read", App>>, <<"prog", App>>, <<"vmt", App>>, <<"mark", App>>, <<"hash", App>> >>
P2 == Tail(P1)
P3 == Tail(P2)
P4 == Tail(P3)
P5 == Tail(P4)
P6 == Tail(P5)

L1 == << <<"extract", Lib>>, <<"prog", App>>, <<"vmt", App>>, <<"mark", App>>, <<"hash", App>> >>
L2 == << <<"check", Lib>>, <<"prog", App>>, <<"vmt", App>>, <<"mark", App>>, <<"hash", App>> >>
L3 == << <<"create", Lib>>, <<"read", Lib>>, <<"base", Lib>>,
         <<"prog", Lib>>, <<"vmt", Lib>>, <<"mark", Lib>>, <<"hash", Lib>>, <<"subs", App>>,
         <<"prog", App>>, <<"vmt", App>>, <<"mark", App>>, <<"hash", App>> >>
L4 == Tail(L3)
L5 == Tail(L4)
L6 == Tail(L5)
L7 == Tail(L6)
L8 == Tail(L7)
L9 == Tail(L8)
LS == Tail(L9)

I1 == << <<"project", App>>, <<"load", App>>, <<"load", Lib>>,
         <<"clear", App>>, <<"facts", App>>, <<"result", App>>, <<"stamp", App>> >>
I2 == Tail(I1)
I3 == Tail(I2)
I4 == Tail(I3)
I5 == Tail(I4)
I6 == Tail(I5)
I7 == Tail(I6)
J1 == << <<"project", App>>, <<"load", App>>,
         <<"clear", App>>, <<"facts", App>>, <<"result", App>>, <<"stamp", App>> >>
J2 == Tail(J1)

AppPlans == {P1, P2, P3, P4, P5, P6, LS}
LibPlans == {L1, L2, L3, L4, L5, L6, L7, L8, L9}
IndexPlans == {I1, I2, I3, I4, I5, I6, I7, J1, J2}

\* Where a command is that is left with plan p.
Rest(p) == Tail(p)
StepOf(p) == IF p = <<>> THEN "idle" ELSE p[1][1]
NameOf(p) == IF p = <<>> THEN App ELSE p[1][2]
Doing == StepOf(plan)
Of == NameOf(plan)

PlanInv ==
    /\ plan \in {<<>>} \cup AppPlans \cup LibPlans \cup IndexPlans
    /\ plan \in {J1, J2} => Lib \notin imports
    /\ half => Doing \in ConfSteps \cup {"extract", "prog", "vmt", "project", "facts", "result", "stamp"}

LibSteps == {"extract", "check", "create", "read", "base", "prog", "vmt", "mark", "hash"}
InLib == Of = Lib /\ Doing \in LibSteps
InApp == Of = App /\ Doing \in {"subs", "prog", "vmt", "mark", "hash"}
Saving == {n \in Name : Of = n /\ Doing \in ConfSteps /\ half}
Complete == {n \in Name : IsComplete(n)}

\* The config that an import has, or will have once it is written.
Kept == [n \in Name |-> IF n \in Saving THEN copy ELSE conf[n]]

File == Version \cup {NoFile, Torn}

TypeOK ==
    /\ artifact \in Version /\ extracted \in File
    /\ conf \in [Name -> Config \cup {NoFile, Torn}]
    /\ prog \in [Name -> File] /\ vmt \in [Name -> File] /\ got \in [Name -> File]
    /\ half \in BOOLEAN /\ calm \in BOOLEAN
    /\ subs \in SUBSET {Lib} /\ imports \in SUBSET Name

\* What the running import has read.
ReadInv ==
    /\ InLib \/ InApp =>
        got[App] \in Version /\ (calm => got[App] = artifact)
    /\ InLib /\ (Doing # "extract" \/ half) =>
        got[Lib] \in Version /\ (calm => got[Lib] = LibOf[artifact])
    /\ InLib /\ Doing # "extract" => extracted = got[Lib]

\* What it has written of program and virtual method table.
WrittenInv ==
    \A n \in Name : Of = n =>
        /\ Doing \in {"vmt", "mark", "hash"} => prog[n] = got[n]
        /\ Doing \in {"mark", "hash"} => vmt[n] = got[n]

\* The imports whose config is there and is not marked, at this place in an
\* import, and those whose config is marked.
Unmarked ==
    {n \in Name :
        \/ Of = n /\ \/ Doing \in {"read", "base", "subs", "prog", "vmt"}
                     \/ Doing = "create" /\ half
                     \/ Doing = "mark" /\ ~half
        \/ n = App /\ InLib}
Marked == {n \in Name : Of = n /\ ((Doing = "mark" /\ half) \/ Doing = "hash")}

ConfInv ==
    \A n \in Name :
        /\ n \in Saving => conf[n] = Torn /\ copy \in Config
        /\ n \in Unmarked => Kept[n] \in Config /\ ~Kept[n].done
        /\ n \in Marked => Kept[n] \in Config /\ Kept[n].done
        /\ Whole(Kept[n]) =>
            /\ Kept[n].done => prog[n] \in Version /\ vmt[n] = prog[n]
            /\ Kept[n].hash # NoFile => Kept[n].done /\ (calm => Kept[n].hash = prog[n])

\* The sub-imports of the app: those produced, and those recorded.
SubsInv ==
    /\ Lib \in subs =>
        /\ InApp
        /\ Lib \in Complete
        /\ calm => prog[Lib] = LibOf[got[App]]
    /\ Whole(Kept[Lib]) => Kept[Lib].subs = {}
    /\ Whole(Kept[App]) /\ Lib \in Kept[App].subs =>
        /\ Lib \in Complete
        /\ calm /\ Kept[App].done => prog[Lib] = LibOf[prog[App]]
    /\ (InLib \/ (Of = App /\ (Doing = "read" \/ (Doing = "create" /\ half) \/ (Doing = "subs" /\ ~half)))) =>
        Kept[App].subs = {}
    /\ InApp /\ (Doing = "subs" => half) => Kept[App].subs = subs

\* What the running index has read.
LoadedInv ==
    /\ Doing \in {"clear", "facts", "result", "stamp"} =>
        \A n \in imports : n \in Complete /\ got[n] = prog[n]
    /\ Doing = "load" /\ Of = Lib => App \in Complete /\ got[App] = prog[App]

\* The index's tables.
TablesInv ==
    /\ Doing \in {"facts", "result"} => stamp = NoFile
    /\ Doing = "stamp" => stamp = IF half THEN Torn ELSE NoFile
    /\ Doing \in {"result", "stamp"} => facts = Table
    /\ Doing = "stamp" => result = Table
    /\ Whole(stamp) =>
        /\ facts \in Tables /\ result = facts
        /\ DOMAIN stamp \subseteq DOMAIN facts
        /\ calm => \A n \in DOMAIN stamp : stamp[n] = facts[n]

StoreInv ==
    /\ TypeOK /\ PlanInv /\ ReadInv /\ WrittenInv /\ ConfInv
    /\ SubsInv /\ LoadedInv /\ TablesInv

-----------------------------------------------------------------------------
(* Constants. *)

\* App and Lib are two imports.
LEMMA TwoNames == App # Lib
BY StoreAssumption, Zenon

\* A version, a config and a table are whole.
LEMMA WholeThings ==
    /\ \A v \in Version : Whole(v)
    /\ \A c \in Config : Whole(c)
    /\ \A t \in Tables : Whole(t)
    /\ NoFile \notin Version
BY StoreAssumption, Zenon DEF Whole

\* The library in a version of the app, and what may take its place.
LEMMA VersionMaps ==
    \A v \in Version : LibOf[v] \in Version /\ Rebuild[v] \subseteq Version
BY StoreAssumption, Zenon

-----------------------------------------------------------------------------
(* Plans. *)

\* The step at the front of each plan.
LEMMA Heads ==
    /\ P1 # <<>> /\ P1[1] = <<"create", App>> /\ P2 # <<>> /\ P2[1] = <<"read", App>>
    /\ P3 # <<>> /\ P3[1] = <<"prog", App>> /\ P4 # <<>> /\ P4[1] = <<"vmt", App>>
    /\ P5 # <<>> /\ P5[1] = <<"mark", App>> /\ P6 # <<>> /\ P6[1] = <<"hash", App>>
    /\ L1 # <<>> /\ L1[1] = <<"extract", Lib>> /\ L2 # <<>> /\ L2[1] = <<"check", Lib>>
    /\ L3 # <<>> /\ L3[1] = <<"create", Lib>> /\ L4 # <<>> /\ L4[1] = <<"read", Lib>>
    /\ L5 # <<>> /\ L5[1] = <<"base", Lib>> /\ L6 # <<>> /\ L6[1] = <<"prog", Lib>>
    /\ L7 # <<>> /\ L7[1] = <<"vmt", Lib>> /\ L8 # <<>> /\ L8[1] = <<"mark", Lib>>
    /\ L9 # <<>> /\ L9[1] = <<"hash", Lib>> /\ LS # <<>> /\ LS[1] = <<"subs", App>>
    /\ I1 # <<>> /\ I1[1] = <<"project", App>> /\ I2 # <<>> /\ I2[1] = <<"load", App>>
    /\ I3 # <<>> /\ I3[1] = <<"load", Lib>> /\ I4 # <<>> /\ I4[1] = <<"clear", App>>
    /\ I5 # <<>> /\ I5[1] = <<"facts", App>> /\ I6 # <<>> /\ I6[1] = <<"result", App>>
    /\ I7 # <<>> /\ I7[1] = <<"stamp", App>>
    /\ J1 # <<>> /\ J1[1] = <<"project", App>> /\ J2 # <<>> /\ J2[1] = <<"load", App>>
<1>1. P1 # <<>> /\ P2 # <<>> /\ P3 # <<>> /\ P4 # <<>> /\ P5 # <<>> /\ P6 # <<>>
  BY DEF P1, P2, P3, P4, P5, P6
<1>2. /\ P1[1] = <<"create", App>> /\ P2[1] = <<"read", App>> /\ P3[1] = <<"prog", App>>
      /\ P4[1] = <<"vmt", App>> /\ P5[1] = <<"mark", App>> /\ P6[1] = <<"hash", App>>
  BY DEF P1, P2, P3, P4, P5, P6
<1>3. L1 # <<>> /\ L1[1] = <<"extract", Lib>> /\ L2 # <<>> /\ L2[1] = <<"check", Lib>>
  BY Zenon DEF L1, L2
<1>4. L3 # <<>> /\ L4 # <<>> /\ L5 # <<>> /\ L6 # <<>> /\ L7 # <<>> /\ L8 # <<>> /\ L9 # <<>> /\ LS # <<>>
  BY DEF L3, L4, L5, L6, L7, L8, L9, LS
<1>5. /\ L3[1] = <<"create", Lib>> /\ L4[1] = <<"read", Lib>>
      /\ L5[1] = <<"base", Lib>> /\ L6[1] = <<"prog", Lib>>
      /\ L7[1] = <<"vmt", Lib>> /\ L8[1] = <<"mark", Lib>>
      /\ L9[1] = <<"hash", Lib>> /\ LS[1] = <<"subs", App>>
  BY DEF L3, L4, L5, L6, L7, L8, L9, LS
<1>6. I1 # <<>> /\ I2 # <<>> /\ I3 # <<>> /\ I4 # <<>> /\ I5 # <<>> /\ I6 # <<>> /\ I7 # <<>> /\ J1 # <<>> /\ J2 # <<>>
  BY DEF I1, I2, I3, I4, I5, I6, I7, J1, J2
<1>7. /\ I1[1] = <<"project", App>> /\ I2[1] = <<"load", App>>
      /\ I3[1] = <<"load", Lib>> /\ I4[1] = <<"clear", App>>
      /\ I5[1] = <<"facts", App>> /\ I6[1] = <<"result", App>>
      /\ I7[1] = <<"stamp", App>>
      /\ J1[1] = <<"project", App>> /\ J2[1] = <<"load", App>>
  BY DEF I1, I2, I3, I4, I5, I6, I7, J1, J2
<1> QED BY <1>1, <1>2, <1>3, <1>4, <1>5, <1>6, <1>7, Zenon

\* What each plan leaves once its first step is done.
LEMMA Tails ==
    /\ Rest(P6) = <<>> /\ Rest(I7) = <<>>
    /\ Rest(L1) = P3 /\ Rest(L2) = P3 /\ Rest(LS) = P3 /\ Save(App) = P3 /\ Rest(J2) = I4
    /\ Rest(P1) = P2 /\ Rest(P2) = P3 /\ Rest(P3) = P4 /\ Rest(P4) = P5
    /\ Rest(P5) = P6 /\ Rest(L3) = L4 /\ Rest(L4) = L5 /\ Rest(L5) = L6
    /\ Rest(L6) = L7 /\ Rest(L7) = L8 /\ Rest(L8) = L9 /\ Rest(L9) = LS
    /\ Rest(I1) = I2 /\ Rest(I2) = I3 /\ Rest(I3) = I4 /\ Rest(I4) = I5
    /\ Rest(I5) = I6 /\ Rest(I6) = I7 /\ Rest(J1) = J2
<1>1. Tail(P6) = <<>> BY DEF P1, P2, P3, P4, P5, P6
<1>2. Tail(I7) = <<>> BY DEF I1, I2, I3, I4, I5, I6, I7
<1>3. Save(App) = P3 BY DEF P1, P2, P3, Save
<1>4. Tail(L1) = Save(App) /\ Tail(L2) = Save(App) BY DEF L1, L2, Save
<1>5. Tail(LS) = Save(App) BY DEF L3, L4, L5, L6, L7, L8, L9, LS, Save
<1>6. Tail(J2) = I4 BY DEF J1, J2, I1, I2, I3, I4
<1> QED
  BY <1>1, <1>2, <1>3, <1>4, <1>5, <1>6, Zenon DEF Rest, P2, P3, P4, P5, P6,
     L4, L5, L6, L7, L8, L9, LS, I2, I3, I4, I5, I6, I7, J2

\* Two sequences with the same elements are the same.
LEMMA SeqEqual ==
    ASSUME NEW S, NEW s \in Seq(S), NEW t \in Seq(S), Len(s) = Len(t),
           \A i \in 1..Len(s) : s[i] = t[i]
    PROVE  s = t
OBVIOUS

\* Concatenations of the lengths that plans are put together from.
LEMMA Join14 ==
    ASSUME NEW s1, NEW s2, NEW s3, NEW s4, NEW s5
    PROVE  <<s1>> \o <<s2, s3, s4, s5>> = <<s1, s2, s3, s4, s5>>
<1> DEFINE S == {s1, s2, s3, s4, s5}
           s == <<s1>> \o <<s2, s3, s4, s5>>
           t == <<s1, s2, s3, s4, s5>>
<1>1. s \in Seq(S) /\ t \in Seq(S) OBVIOUS
<1>2. Len(s) = 5 /\ Len(t) = 5 OBVIOUS
<1>3. \A i \in 1..5 : s[i] = t[i] OBVIOUS
<1> QED BY <1>1, <1>2, <1>3, SeqEqual, Zenon

\* The same for two and four steps.
LEMMA Join24 ==
    ASSUME NEW s1, NEW s2, NEW s3, NEW s4, NEW s5, NEW s6
    PROVE  <<s1, s2>> \o <<s3, s4, s5, s6>> = <<s1, s2, s3, s4, s5, s6>>
<1> DEFINE S == {s1, s2, s3, s4, s5, s6}
           s == <<s1, s2>> \o <<s3, s4, s5, s6>>
           t == <<s1, s2, s3, s4, s5, s6>>
<1>1. s \in Seq(S) /\ t \in Seq(S) OBVIOUS
<1>2. Len(s) = 6 /\ Len(t) = 6 OBVIOUS
<1>3. \A i \in 1..6 : s[i] = t[i] OBVIOUS
<1> QED BY <1>1, <1>2, <1>3, SeqEqual, Zenon

\* The same for two, one and four.
LEMMA Join214 ==
    ASSUME NEW s1, NEW s2, NEW s3, NEW s4, NEW s5, NEW s6, NEW s7
    PROVE  <<s1, s2>> \o <<s3>> \o <<s4, s5, s6, s7>> = <<s1, s2, s3, s4, s5, s6, s7>>
<1> DEFINE S == {s1, s2, s3, s4, s5, s6, s7}
           s == <<s1, s2>> \o <<s3>> \o <<s4, s5, s6, s7>>
           t == <<s1, s2, s3, s4, s5, s6, s7>>
<1>1. s \in Seq(S) /\ t \in Seq(S) OBVIOUS
<1>2. Len(s) = 7 /\ Len(t) = 7 OBVIOUS
<1>3. \A i \in 1..7 : s[i] = t[i] OBVIOUS
<1> QED BY <1>1, <1>2, <1>3, SeqEqual, Zenon

\* The plans that the actions build are the ones above.
LEMMA Joins ==
    /\ << <<"create", App>>, <<"read", App>> >> \o Save(App) = P1
    /\ << <<"extract", Lib>> >> \o P3 = L1
    /\ << <<"check", Lib>> >> \o P3 = L2
    /\ << <<"subs", App>> >> \o P3 = LS
    /\ << <<"create", Lib>>, <<"read", Lib>>, <<"base", Lib>> >> \o Save(Lib) \o << <<"subs", App>> >> \o P3 = L3
    /\ << <<"project", App>>, <<"load", App>> >> \o << <<"load", Lib>> >>
       \o << <<"clear", App>>, <<"facts", App>>, <<"result", App>>, <<"stamp", App>> >> = I1
    /\ << <<"project", App>>, <<"load", App>> >> \o <<>>
       \o << <<"clear", App>>, <<"facts", App>>, <<"result", App>>, <<"stamp", App>> >> = J1
<1>1. << <<"create", App>>, <<"read", App>> >> \o Save(App) = P1
  BY Join24 DEF P1, Save
<1>2. << <<"extract", Lib>> >> \o Save(App) = L1 /\ << <<"check", Lib>> >> \o Save(App) = L2
  BY Join14, ZenonT(60) DEF L1, L2, Save
<1>3. LS = << <<"subs", App>>, <<"prog", App>>, <<"vmt", App>>, <<"mark", App>>, <<"hash", App>> >>
  BY DEF L3, L4, L5, L6, L7, L8, L9, LS
<1>4. << <<"subs", App>> >> \o Save(App) = LS
  BY <1>3, Join14, ZenonT(60) DEF Save
<1>5. << <<"create", Lib>>, <<"read", Lib>>, <<"base", Lib>> >> \o Save(Lib) \o << <<"subs", App>> >> \o Save(App) = L3
  <2> DEFINE a == <<"create", Lib>>  b == <<"read", Lib>>  c == <<"base", Lib>>
             x(n) == <<"prog", n>>  y(n) == <<"vmt", n>>  z(n) == <<"mark", n>>  h(n) == <<"hash", n>>
             u == <<"subs", App>>
  <2> HIDE DEF a, b, c, x, y, z, h, u
  <2>1. <<a, b, c>> \o <<x(Lib), y(Lib), z(Lib), h(Lib)>> \o <<u>> \o <<x(App), y(App), z(App), h(App)>>
        = <<a, b, c, x(Lib), y(Lib), z(Lib), h(Lib), u, x(App), y(App), z(App), h(App)>>
    <3> DEFINE S == {a, b, c, u, x(Lib), y(Lib), z(Lib), h(Lib), x(App), y(App), z(App), h(App)}
               s == <<a, b, c>> \o <<x(Lib), y(Lib), z(Lib), h(Lib)>> \o <<u>> \o <<x(App), y(App), z(App), h(App)>>
               t == <<a, b, c, x(Lib), y(Lib), z(Lib), h(Lib), u, x(App), y(App), z(App), h(App)>>
    <3>1. s \in Seq(S) /\ t \in Seq(S) OBVIOUS
    <3>2. Len(s) = 12 /\ Len(t) = 12 OBVIOUS
    <3>3. \A i \in 1..12 : s[i] = t[i] OBVIOUS
    <3> QED BY <3>1, <3>2, <3>3, SeqEqual, Zenon
  <2> QED BY <2>1, Zenon DEF L3, Save, a, b, c, x, y, z, h, u
<1>6. << <<"project", App>>, <<"load", App>> >> \o << <<"load", Lib>> >>
      \o << <<"clear", App>>, <<"facts", App>>, <<"result", App>>, <<"stamp", App>> >> = I1
  BY Join214 DEF I1
<1>7. << <<"project", App>>, <<"load", App>> >> \o <<>> = << <<"project", App>>, <<"load", App>> >>
  OBVIOUS
<1>8. << <<"project", App>>, <<"load", App>> >>
      \o << <<"clear", App>>, <<"facts", App>>, <<"result", App>>, <<"stamp", App>> >> = J1
  BY Join24 DEF J1
<1> QED BY <1>1, <1>2, <1>4, <1>5, <1>6, <1>7, <1>8, Tails, Zenon

\* Where each plan stands.
LEMMA Places ==
    /\ StepOf(<<>>) = "idle" /\ NameOf(<<>>) = App /\ StepOf(P1) = "create" /\ NameOf(P1) = App
    /\ StepOf(P2) = "read" /\ NameOf(P2) = App /\ StepOf(P3) = "prog" /\ NameOf(P3) = App
    /\ StepOf(P4) = "vmt" /\ NameOf(P4) = App /\ StepOf(P5) = "mark" /\ NameOf(P5) = App
    /\ StepOf(P6) = "hash" /\ NameOf(P6) = App /\ StepOf(LS) = "subs" /\ NameOf(LS) = App
    /\ StepOf(L1) = "extract" /\ NameOf(L1) = Lib /\ StepOf(L2) = "check" /\ NameOf(L2) = Lib
    /\ StepOf(L3) = "create" /\ NameOf(L3) = Lib /\ StepOf(L4) = "read" /\ NameOf(L4) = Lib
    /\ StepOf(L5) = "base" /\ NameOf(L5) = Lib /\ StepOf(L6) = "prog" /\ NameOf(L6) = Lib
    /\ StepOf(L7) = "vmt" /\ NameOf(L7) = Lib /\ StepOf(L8) = "mark" /\ NameOf(L8) = Lib
    /\ StepOf(L9) = "hash" /\ NameOf(L9) = Lib /\ StepOf(I1) = "project" /\ NameOf(I1) = App
    /\ StepOf(I2) = "load" /\ NameOf(I2) = App /\ StepOf(I3) = "load" /\ NameOf(I3) = Lib
    /\ StepOf(I4) = "clear" /\ NameOf(I4) = App /\ StepOf(I5) = "facts" /\ NameOf(I5) = App
    /\ StepOf(I6) = "result" /\ NameOf(I6) = App /\ StepOf(I7) = "stamp" /\ NameOf(I7) = App
    /\ StepOf(J1) = "project" /\ NameOf(J1) = App /\ StepOf(J2) = "load" /\ NameOf(J2) = App
BY Heads DEF StepOf, NameOf

\* Where the command is, in terms of the next step of its plan.
LEMMA Where ==
    ASSUME PlanInv
    PROVE  /\ Doing = "idle" <=> Idle
           /\ \A s : s # "idle" => (At(s) <=> Doing = s)
           /\ ~Idle => This = Of
           /\ Of \in Name
           /\ Doing \in {"subs", "project", "clear", "facts", "result", "stamp"} => Of = App
           /\ Doing \in {"extract", "check", "base"} => Of = Lib
<1>1. plan \in {<<>>} \cup AppPlans \cup LibPlans \cup IndexPlans
  BY Zenon DEF PlanInv
<1>2. ~Idle => Doing = plan[1][1] /\ Of = This
  BY Zenon DEF Idle, Doing, Of, StepOf, NameOf, This
<1>3. Doing = "idle" <=> Idle
  BY <1>1, Places, Heads DEF AppPlans, LibPlans, IndexPlans, Doing, Of, Idle
<1>4. Of \in Name
  BY <1>1, Places, Heads DEF AppPlans, LibPlans, IndexPlans, Of, Name
<1>5. \A s : s # "idle" => (At(s) <=> Doing = s)
  BY <1>2, <1>3, Zenon DEF At
<1>6. /\ Doing \in {"subs", "project", "clear", "facts", "result", "stamp"} => Of = App
      /\ Doing \in {"extract", "check", "base"} => Of = Lib
  BY <1>1, Places DEF AppPlans, LibPlans, IndexPlans, Doing, Of
<1> QED
  BY <1>2, <1>3, <1>4, <1>5, <1>6, Zenon

\* The place determines the plan, up to the imports that are still to be loaded.
LEMMA PlanOfPlace ==
    ASSUME PlanInv
    PROVE  /\ Doing = "create" /\ Of = App => plan = P1
           /\ Doing = "read" /\ Of = App => plan = P2
           /\ Doing = "prog" /\ Of = App => plan = P3
           /\ Doing = "vmt" /\ Of = App => plan = P4
           /\ Doing = "mark" /\ Of = App => plan = P5
           /\ Doing = "hash" /\ Of = App => plan = P6
           /\ Doing = "subs" /\ Of = App => plan = LS
           /\ Doing = "extract" /\ Of = Lib => plan = L1
           /\ Doing = "check" /\ Of = Lib => plan = L2
           /\ Doing = "create" /\ Of = Lib => plan = L3
           /\ Doing = "read" /\ Of = Lib => plan = L4
           /\ Doing = "base" /\ Of = Lib => plan = L5
           /\ Doing = "prog" /\ Of = Lib => plan = L6
           /\ Doing = "vmt" /\ Of = Lib => plan = L7
           /\ Doing = "mark" /\ Of = Lib => plan = L8
           /\ Doing = "hash" /\ Of = Lib => plan = L9
           /\ Doing = "project" /\ Of = App => plan = I1 \/ plan = J1
           /\ Doing = "load" /\ Of = App => plan = I2 \/ plan = J2
           /\ Doing = "load" /\ Of = Lib => plan = I3
           /\ Doing = "clear" /\ Of = App => plan = I4
           /\ Doing = "facts" /\ Of = App => plan = I5
           /\ Doing = "result" /\ Of = App => plan = I6
           /\ Doing = "stamp" /\ Of = App => plan = I7
<1>1. plan \in {<<>>} \cup AppPlans \cup LibPlans \cup IndexPlans
  BY Zenon DEF PlanInv
<1> QED
  BY <1>1, Places, TwoNames DEF AppPlans, LibPlans, IndexPlans, Doing, Of

\* Two plans for the index, with the library and without it, are different.
LEMMA Differ == I1 # J1 /\ I2 # J2
<1>1. I1[3] # J1[3]
  BY Zenon DEF I1, J1
<1>2. I2[2] = <<"load", Lib>>
  BY DEF I1, I2
<1>3. J2[2] = <<"clear", App>>
  BY DEF J1, J2
<1> QED BY <1>1, <1>2, <1>3

\* What comes after a step that is done.
LEMMA Turn ==
    ASSUME PlanInv, ~Idle, plan' = Rest(plan)
    PROVE  /\ plan' \in {<<>>} \cup AppPlans \cup LibPlans \cup IndexPlans
           /\ plan' \in {J1, J2} => plan \in {J1, J2}
           /\ Doing = "create" /\ Of = App => Doing' = "read" /\ Of' = App
           /\ Doing = "read" /\ Of = App => Doing' = "prog" /\ Of' = App
           /\ Doing = "subs" /\ Of = App => Doing' = "prog" /\ Of' = App
           /\ Doing = "prog" /\ Of = App => Doing' = "vmt" /\ Of' = App
           /\ Doing = "vmt" /\ Of = App => Doing' = "mark" /\ Of' = App
           /\ Doing = "mark" /\ Of = App => Doing' = "hash" /\ Of' = App
           /\ Doing = "hash" /\ Of = App => Doing' = "idle" /\ Of' = App
           /\ Doing = "project" /\ Of = App => Doing' = "load" /\ Of' = App
           /\ Doing = "clear" /\ Of = App => Doing' = "facts" /\ Of' = App
           /\ Doing = "facts" /\ Of = App => Doing' = "result" /\ Of' = App
           /\ Doing = "result" /\ Of = App => Doing' = "stamp" /\ Of' = App
           /\ Doing = "stamp" /\ Of = App => Doing' = "idle" /\ Of' = App
           /\ Doing = "create" /\ Of = Lib => Doing' = "read" /\ Of' = Lib
           /\ Doing = "read" /\ Of = Lib => Doing' = "base" /\ Of' = Lib
           /\ Doing = "base" /\ Of = Lib => Doing' = "prog" /\ Of' = Lib
           /\ Doing = "prog" /\ Of = Lib => Doing' = "vmt" /\ Of' = Lib
           /\ Doing = "vmt" /\ Of = Lib => Doing' = "mark" /\ Of' = Lib
           /\ Doing = "mark" /\ Of = Lib => Doing' = "hash" /\ Of' = Lib
           /\ Doing = "hash" /\ Of = Lib => Doing' = "subs" /\ Of' = App
           /\ Doing = "load" /\ Of = Lib => Doing' = "clear" /\ Of' = App
           /\ Doing = "load" /\ Of = App =>
               \/ Doing' = "clear" /\ Of' = App /\ plan = J2
               \/ Doing' = "load" /\ Of' = Lib
<1>1. plan \in AppPlans \cup LibPlans \cup IndexPlans
  BY Zenon DEF PlanInv, Idle
<1>2. plan' \in {<<>>} \cup AppPlans \cup LibPlans \cup IndexPlans
  BY <1>1, Tails DEF AppPlans, LibPlans, IndexPlans
<1>3. plan' \in {J1, J2} => plan \in {J1, J2}
  <2>1. CASE plan \in AppPlans
    <3>1. plan' \in {<<>>, P2, P3, P4, P5, P6} BY <2>1, Tails, Zenon DEF AppPlans
    <3> QED BY <3>1, Places, ZenonT(60)
  <2>2. CASE plan \in LibPlans
    <3>1. plan' \in {P3, L4, L5, L6, L7, L8, L9, LS} BY <2>2, Tails, Zenon DEF LibPlans
    <3> QED BY <3>1, Places, ZenonT(60)
  <2>3. CASE plan \in IndexPlans \ {J1, J2}
    <3>1. plan' \in {<<>>, I2, I3, I4, I5, I6, I7} BY <2>3, Tails, Zenon DEF IndexPlans
    <3>2. I2 # J1 BY Places, Zenon
    <3> QED BY <3>1, <3>2, Places, Differ, TwoNames, ZenonT(60)
  <2> QED BY <1>1, <2>1, <2>2, <2>3, Zenon
<1> QED
  BY <1>2, <1>3, PlanOfPlace, Places, Tails DEF Doing, Of

-----------------------------------------------------------------------------
(* The steps of an import. *)

\* An empty store with no command running satisfies the invariant.
LEMMA InitHolds == Init => StoreInv
<1> SUFFICES ASSUME Init PROVE StoreInv
  BY Zenon
<1>1. Doing = "idle" /\ Of = App /\ half = FALSE
  BY Places, Zenon DEF Init, Doing, Of
<1>2. TypeOK
  <2>1. 1 \in Version
    BY StoreAssumption DEF Version
  <2> QED BY <2>1, Zenon DEF Init, TypeOK, File
<1>3. PlanInv
  BY <1>1, Places, Zenon DEF Init, PlanInv
<1>4. \A n \in Name : Kept[n] = NoFile
  BY <1>1, Zenon DEF Init, Kept, Saving
<1>5. ReadInv /\ WrittenInv /\ LoadedInv
  BY <1>1, Zenon DEF ReadInv, WrittenInv, LoadedInv, InLib, InApp, LibSteps
<1>6. ConfInv
  BY <1>1, <1>4, Zenon DEF ConfInv, Saving, Unmarked, Marked, Whole, InLib, LibSteps
<1>7. SubsInv
  BY <1>1, <1>4, Zenon DEF Init, SubsInv, InLib, InApp, LibSteps, Whole, Name
<1>8. TablesInv
  BY <1>1, Zenon DEF Init, TablesInv, Whole
<1> QED BY <1>2, <1>3, <1>5, <1>6, <1>7, <1>8, Zenon DEF StoreInv

\* Opening a config for writing: the file is torn, the content it will have is in copy.
LEMMA SaveConfKeeps == ASSUME StoreInv, SaveConf PROVE StoreInv'
<1>1. PlanInv /\ TypeOK /\ ReadInv /\ WrittenInv /\ ConfInv /\ SubsInv /\ LoadedInv /\ TablesInv
  BY Zenon DEF StoreInv
<1>2. /\ Doing \in ConfSteps /\ Of \in Name /\ ~Idle /\ ~half /\ This = Of
      /\ copy' = NewConf(Doing, Of)
      /\ conf' = [conf EXCEPT ![Of] = Torn]
  BY <1>1, Where, Zenon DEF SaveConf, ConfSteps, At
<1>3. /\ half' = TRUE /\ plan' = plan /\ Doing' = Doing /\ Of' = Of
      /\ prog' = prog /\ vmt' = vmt /\ got' = got /\ subs' = subs /\ imports' = imports
      /\ artifact' = artifact /\ calm' = calm /\ extracted' = extracted
      /\ facts' = facts /\ result' = result /\ stamp' = stamp
  BY Zenon DEF SaveConf, Doing, Of, env, index
<1>4. \/ Of = App /\ Doing \in {"create", "subs", "mark", "hash"}
      \/ Of = Lib /\ Doing \in {"create", "base", "mark", "hash"}
  BY <1>1, <1>2, Where, Zenon DEF ConfSteps, Name
<1>5. /\ copy' \in Config
      /\ Doing \in {"create", "base"} => copy' = Fresh
      /\ Doing = "subs" => copy' = [conf[Of] EXCEPT !.subs = subs]
      /\ Doing = "mark" => copy' = [conf[Of] EXCEPT !.done = TRUE]
      /\ Doing = "hash" => copy' = [conf[Of] EXCEPT !.hash = Contents(Of)]
      /\ Doing \in {"subs", "mark", "hash"} => conf[Of] \in Config
  <2>1. \A n \in Name : Kept[n] = conf[n]
    BY <1>2, Zenon DEF Kept, Saving
  <2>2. Doing \in {"subs", "mark", "hash"} => conf[Of] \in Config
    BY <1>1, <1>2, <2>1, Zenon DEF ConfInv, Unmarked, Marked
  <2>3. Doing = "hash" => Contents(Of) \in Version
    BY <1>1, <1>4, TwoNames, Zenon DEF Contents, TypeOK, ReadInv, InLib, LibSteps
  <2> QED BY <1>1, <1>2, <1>4, <2>2, <2>3, Zenon DEF NewConf, Config, Fresh, TypeOK
<1>6. \A n \in Name :
          /\ Kept[n] = conf[n]
          /\ Kept'[n] = IF n = Of THEN copy' ELSE conf[n]
          /\ conf'[n] = IF n = Of THEN Torn ELSE conf[n]
  BY <1>1, <1>2, <1>3, Zenon DEF Kept, Saving, TypeOK
<1>7. TypeOK'
  BY <1>1, <1>2, <1>3, Zenon DEF TypeOK
<1>8. PlanInv'
  BY <1>1, <1>2, <1>3, Zenon DEF PlanInv
<1>9. ReadInv' /\ WrittenInv' /\ LoadedInv' /\ TablesInv'
  BY <1>1, <1>2, <1>3, <1>4, Zenon DEF ReadInv, WrittenInv, LoadedInv, TablesInv, InLib, InApp, LibSteps
<1>10. ConfInv'
  <2> SUFFICES ASSUME NEW n \in Name
               PROVE  /\ n \in Saving' => conf'[n] = Torn /\ copy' \in Config
                      /\ n \in Unmarked' => Kept'[n] \in Config /\ ~Kept'[n].done
                      /\ n \in Marked' => Kept'[n] \in Config /\ Kept'[n].done
                      /\ Whole(Kept'[n]) =>
                          /\ Kept'[n].done => prog[n] \in Version /\ vmt[n] = prog[n]
                          /\ Kept'[n].hash # NoFile =>
                              Kept'[n].done /\ (calm => Kept'[n].hash = prog[n])
    BY <1>3, Zenon DEF ConfInv, Whole
  <2>1. CASE n = Of
    <3>1. Kept'[n] = copy' /\ conf'[n] = Torn /\ Kept[n] = conf[n]
      BY <1>2, <1>6, <2>1, Zenon
    <3>2. n \in Unmarked' => ~copy'.done
      BY <1>1, <1>2, <1>3, <1>4, <1>5, <2>1, <3>1, TwoNames
         DEF Unmarked, ConfInv, Fresh, Config, InLib, LibSteps
    <3>3. n \in Marked' => copy'.done
      BY <1>1, <1>2, <1>3, <1>4, <1>5, <2>1, <3>1, TwoNames, Zenon
         DEF Marked, ConfInv, Fresh, Config
    <3>4. copy'.done => Doing \in {"mark", "hash"}
      BY <1>1, <1>2, <1>4, <1>5, <2>1, <3>1 DEF ConfInv, Unmarked, Fresh, Config
    <3>5. Doing \in {"mark", "hash"} => prog[n] \in Version /\ vmt[n] = prog[n]
      BY <1>1, <1>2, <1>4, <2>1, Zenon DEF WrittenInv, ReadInv, InApp, InLib, LibSteps
    <3>6. copy'.hash # NoFile => Doing = "hash" /\ copy'.hash = Contents(n)
      <4>1. Doing \in {"subs", "mark"} => conf[n].hash = NoFile
        BY <1>1, <1>2, <1>4, <1>5, <2>1, <3>1, WholeThings, Zenon DEF ConfInv, Unmarked
      <4> QED BY <1>4, <1>5, <2>1, <4>1 DEF Fresh, Config
    <3>7. Doing = "hash" /\ calm => Contents(n) = prog[n]
      BY <1>1, <1>2, <1>4, <2>1, TwoNames, Zenon
         DEF WrittenInv, ReadInv, InApp, InLib, LibSteps, Contents
    <3>8. Doing = "hash" => copy'.done
      BY <1>3, <2>1, <3>3, Zenon DEF Marked
    <3> QED BY <1>5, <3>1, <3>2, <3>3, <3>4, <3>5, <3>6, <3>7, <3>8, Zenon
  <2>2. CASE n # Of
    <3>1. n \notin Saving'
      BY <1>3, <2>2, Zenon DEF Saving
    <3>2. n \in Unmarked' => n \in Unmarked
      BY <1>3, <2>2, Zenon DEF Unmarked, InLib
    <3>3. n \notin Marked'
      BY <1>3, <2>2, Zenon DEF Marked
    <3>4. Kept'[n] = Kept[n]
      BY <1>6, <2>2, Zenon
    <3> QED BY <1>1, <3>1, <3>2, <3>3, <3>4, Zenon DEF ConfInv
  <2> QED BY <2>1, <2>2, Zenon
<1>11. SubsInv'
  <2>1. CASE Of = Lib
    <3>1. Kept'[App] = Kept[App] /\ Kept'[Lib] = copy' /\ ~(Lib \in subs)
      BY <1>1, <1>6, <2>1, TwoNames, Zenon DEF SubsInv, InApp, Name
    <3>2. copy'.subs = {}
      <4>1. Doing \in {"mark", "hash"} => conf[Lib].subs = {}
        BY <1>1, <1>4, <1>5, <1>6, <2>1, WholeThings, Zenon DEF SubsInv, Name
      <4> QED BY <1>4, <1>5, <2>1, <4>1, TwoNames DEF Fresh, Config
    <3>3. Kept[App].subs = {}
      BY <1>1, <1>4, <2>1, TwoNames, Zenon DEF SubsInv, InLib, LibSteps
    <3> QED BY <1>3, <2>1, <3>1, <3>2, <3>3, TwoNames, Zenon DEF SubsInv, InLib, InApp
  <2>2. CASE Of = App
    <3>1. Kept'[App] = copy' /\ Kept'[Lib] = Kept[Lib] /\ (Lib \in Complete' <=> Lib \in Complete)
      BY <1>6, <2>2, TwoNames, Zenon DEF Name, Complete, IsComplete, Whole
    <3>2. Doing = "create" => copy'.subs = {}
      BY <1>5 DEF Fresh
    <3>3. Doing # "create" => copy'.subs = subs
      BY <1>1, <1>4, <1>5, <1>6, <2>2, TwoNames, ZenonT(60) DEF SubsInv, InApp, Config, Name
    <3>4. copy'.done => prog[App] = got[App]
      BY <1>1, <1>4, <1>5, <1>6, <2>2, TwoNames DEF ConfInv, Unmarked, Fresh, Config, WrittenInv, Name
    <3> QED BY <1>1, <1>2, <1>3, <1>4, <2>2, <3>1, <3>2, <3>3, <3>4, TwoNames, Zenon DEF SubsInv, InLib, InApp
  <2> QED BY <1>4, <2>1, <2>2, Zenon
<1> QED BY <1>7, <1>8, <1>9, <1>10, <1>11, Zenon DEF StoreInv

\* Finishing the write of a config: the file holds what copy held.
LEMMA SavedConfKeeps == ASSUME StoreInv, SavedConf PROVE StoreInv'
<1>1. PlanInv /\ TypeOK /\ ReadInv /\ WrittenInv /\ ConfInv /\ SubsInv /\ LoadedInv /\ TablesInv
  BY Zenon DEF StoreInv
<1>2. /\ Doing \in ConfSteps /\ Of \in Name /\ ~Idle /\ half /\ This = Of
      /\ plan' = Rest(plan)
      /\ conf' = [conf EXCEPT ![Of] = copy]
  BY <1>1, Where, Zenon DEF SavedConf, ConfSteps, At, Then, Rest
<1>3. /\ half' = FALSE
      /\ prog' = prog /\ vmt' = vmt /\ artifact' = artifact /\ calm' = calm /\ extracted' = extracted
      /\ facts' = facts /\ result' = result /\ stamp' = stamp
  BY Zenon DEF SavedConf, env, index
<1>4. \/ Of = App /\ Doing = "create" /\ Doing' = "read" /\ Of' = App
      \/ Of = App /\ Doing = "subs" /\ Doing' = "prog" /\ Of' = App
      \/ Of = App /\ Doing = "mark" /\ Doing' = "hash" /\ Of' = App
      \/ Of = App /\ Doing = "hash" /\ Doing' = "idle" /\ Of' = App
      \/ Of = Lib /\ Doing = "create" /\ Doing' = "read" /\ Of' = Lib
      \/ Of = Lib /\ Doing = "base" /\ Doing' = "prog" /\ Of' = Lib
      \/ Of = Lib /\ Doing = "mark" /\ Doing' = "hash" /\ Of' = Lib
      \/ Of = Lib /\ Doing = "hash" /\ Doing' = "subs" /\ Of' = App
  BY <1>1, <1>2, Where, Turn, Zenon DEF ConfSteps, Name
<1>5. /\ Doing = "hash" /\ Of = App => subs' = {} /\ imports' = {} /\ got' = [n \in Name |-> NoFile]
      /\ Doing = "hash" /\ Of = Lib => subs' = {Lib} /\ imports' = imports /\ got' = got
      /\ Doing # "hash" => subs' = subs /\ imports' = imports /\ got' = got
  BY <1>1, <1>2, Where, TwoNames, Zenon DEF SavedConf, Drop, Locals
<1>6. /\ \A n \in Name : Kept'[n] = Kept[n]
      /\ \A n \in Name : conf'[n] = Kept[n]
  BY <1>1, <1>2, <1>3, Zenon DEF Kept, Saving, TypeOK
<1>7. TypeOK'
  <2>1. conf' \in [Name -> Config \cup {NoFile, Torn}]
    BY <1>1, <1>2, Zenon DEF TypeOK, ConfInv, Saving
  <2> QED BY <1>1, <1>3, <1>4, <1>5, <2>1, Zenon DEF TypeOK, File
<1>8. PlanInv'
  BY <1>1, <1>2, <1>3, <1>4, <1>5, Turn, Zenon DEF PlanInv
<1>9. ReadInv' /\ WrittenInv' /\ LoadedInv' /\ TablesInv'
  BY <1>1, <1>2, <1>3, <1>4, <1>5, TwoNames
     DEF ReadInv, WrittenInv, LoadedInv, TablesInv, InLib, InApp, LibSteps
<1>10. ConfInv'
  <2>1. Saving' = {}
    BY <1>3, Zenon DEF Saving
  <2>2. Unmarked' \subseteq Unmarked
    BY <1>2, <1>3, <1>4, TwoNames, Zenon DEF Unmarked, InLib, LibSteps
  <2>3. Marked' \subseteq Marked
    BY <1>2, <1>3, <1>4, TwoNames, Zenon DEF Marked
  <2> QED BY <1>1, <1>3, <1>6, <2>1, <2>2, <2>3, Zenon DEF ConfInv, Whole
<1>11. SubsInv'
  <2>1. Of = App /\ Lib \in Complete => Lib \in Complete'
    BY <1>2, TwoNames DEF Complete, IsComplete, Name
  <2>2. CASE Of = Lib /\ Doing = "hash"
    <3>1. Kept[Lib] \in Config /\ Kept[Lib].done
      BY <1>1, <2>2, Zenon DEF ConfInv, Marked, Name
    <3>2. Lib \in Complete'
      BY <1>6, <3>1, WholeThings, Zenon DEF Complete, IsComplete, Name
    <3>3. Kept[App].subs = {}
      BY <1>1, <2>2, Zenon DEF SubsInv, InLib, LibSteps
    <3>4. calm => prog[Lib] = LibOf[got[App]]
      BY <1>1, <2>2, Zenon DEF WrittenInv, ReadInv, InLib, LibSteps, Name
    <3> QED BY <1>1, <1>2, <1>3, <1>4, <1>5, <1>6, <2>2, <3>2, <3>3, <3>4, TwoNames, Zenon
            DEF SubsInv, InLib, InApp, Name
  <2>3. CASE Of = Lib /\ Doing # "hash"
    <3>1. Kept[App].subs = {} /\ ~(Lib \in subs)
      BY <1>1, <1>4, <2>3, TwoNames, Zenon DEF SubsInv, InLib, InApp, LibSteps
    <3> QED BY <1>1, <1>3, <1>4, <1>5, <1>6, <2>3, <3>1, TwoNames, Zenon DEF SubsInv, InLib, InApp, Name
  <2>4. CASE Of = App
    BY <1>1, <1>2, <1>3, <1>4, <1>5, <1>6, <2>1, <2>4, TwoNames
       DEF SubsInv, InLib, InApp, LibSteps, Name, Whole
  <2> QED BY <1>4, <2>2, <2>3, <2>4, Zenon
<1> QED BY <1>7, <1>8, <1>9, <1>10, <1>11, Zenon DEF StoreInv

\* A step that writes no config, and at which none is being written.
LEMMA ConfStays ==
    ASSUME TypeOK, ConfInv, SubsInv, conf' = conf, Saving = {}, Saving' = {},
           calm' => calm,
           Unmarked' \subseteq Unmarked, Marked' \subseteq Marked,
           \A n \in Name \ Unmarked : prog'[n] = prog[n] /\ vmt'[n] = vmt[n]
    PROVE  /\ ConfInv' /\ Kept' = conf /\ Kept = conf /\ Complete' = Complete
           /\ Complete \cap Unmarked = {}
<1>1. Kept' = conf /\ Kept = conf
  BY Zenon DEF Kept, TypeOK
<1>2. Complete' = Complete
  BY Zenon DEF Complete, IsComplete
<1>3. \A n \in Unmarked : n \in Name /\ conf[n] \in Config /\ ~conf[n].done
  BY <1>1, Zenon DEF ConfInv, Unmarked
<1>4. Complete \cap Unmarked = {}
  BY <1>3, Zenon DEF Complete, IsComplete
<1>5. ConfInv'
  BY <1>1, <1>3, Zenon DEF ConfInv, Whole
<1> QED BY <1>1, <1>2, <1>4, <1>5, Zenon

\* Reading the artifact, which decides the rest of the plan of an app.
LEMMA ReadArtifactKeeps == ASSUME StoreInv, ReadArtifact PROVE StoreInv'
<1>1. PlanInv /\ TypeOK /\ ReadInv /\ WrittenInv /\ ConfInv /\ SubsInv /\ LoadedInv /\ TablesInv
  BY Zenon DEF StoreInv
<1>2. /\ Doing = "read" /\ Of \in Name /\ ~Idle /\ ~half /\ This = Of
      /\ got' = [got EXCEPT ![Of] = Contents(Of)]
      /\ half' = half /\ imports' = imports /\ subs' = subs
      /\ prog' = prog /\ vmt' = vmt /\ artifact' = artifact /\ calm' = calm /\ extracted' = extracted
      /\ facts' = facts /\ result' = result /\ stamp' = stamp /\ conf' = conf
  <2>1. Doing = "read" /\ Of \in Name /\ ~Idle /\ This = Of
    BY <1>1, Where DEF ReadArtifact
  <2>2. ~half
    BY <1>1, <2>1, Zenon DEF PlanInv, ConfSteps
  <2> QED BY <2>1, <2>2, Zenon DEF ReadArtifact, env, files, index
<1>3. plan' = (IF Of = App /\ opts.native THEN << <<"extract", Lib>> >> \o Rest(plan) ELSE Rest(plan))
  BY <1>2, Zenon DEF ReadArtifact, Then, Rest
<1>4. \/ Of = App /\ Doing' = "extract" /\ Of' = Lib /\ plan' = L1
      \/ Of = App /\ Doing' = "prog" /\ Of' = App /\ plan' = P3
      \/ Of = Lib /\ Doing' = "base" /\ Of' = Lib /\ plan' = L5
  <2>1. CASE Of = App
    <3>1. plan = P2
      BY <1>1, <1>2, <2>1, PlanOfPlace, Zenon
    <3>2. plan' = L1 \/ plan' = P3
      BY <1>3, <3>1, Tails, Joins, Zenon
    <3> QED BY <2>1, <3>2, Places, Zenon DEF Doing, Of
  <2>2. CASE Of = Lib
    <3>1. plan = L4
      BY <1>1, <1>2, <2>2, PlanOfPlace, Zenon
    <3>2. plan' = L5
      BY <1>3, <2>2, <3>1, Tails, TwoNames, Zenon
    <3> QED BY <2>2, <3>2, Places, Zenon DEF Doing, Of
  <2> QED BY <1>2, <2>1, <2>2, Zenon DEF Name
<1>5. Contents(Of) \in Version /\ (Of = Lib => Contents(Of) = extracted) /\ (Of = App => Contents(Of) = artifact)
  BY <1>1, <1>2, TwoNames, Zenon DEF TypeOK, Contents, ReadInv, InLib, LibSteps, Name
<1>6. TypeOK'
  BY <1>1, <1>2, <1>5, Zenon DEF TypeOK, File
<1>7. PlanInv'
  BY <1>2, <1>4, Places, ZenonT(60) DEF PlanInv, AppPlans, LibPlans
<1>8. ReadInv'
  BY <1>1, <1>2, <1>4, <1>5, TwoNames, Zenon DEF ReadInv, InLib, InApp, LibSteps, TypeOK, Name
<1>9. WrittenInv' /\ LoadedInv' /\ TablesInv'
  BY <1>1, <1>2, <1>4, Zenon DEF WrittenInv, LoadedInv, TablesInv
<1>10. /\ ConfInv' /\ Kept' = conf /\ Kept = conf /\ Complete' = Complete
  <2>1. Saving = {} /\ Saving' = {}
    BY <1>2, Zenon DEF Saving
  <2>2. Unmarked' \subseteq Unmarked /\ Marked' \subseteq Marked
    BY <1>2, <1>4, TwoNames, Zenon DEF Unmarked, Marked, InLib, LibSteps
  <2> QED BY <1>1, <1>2, <2>1, <2>2, ConfStays, Zenon
<1>11. SubsInv'
  BY <1>1, <1>2, <1>4, <1>10, TwoNames, Zenon DEF SubsInv, InLib, InApp, LibSteps, TypeOK
<1> QED BY <1>6, <1>7, <1>8, <1>9, <1>10, <1>11, Zenon DEF StoreInv

\* Extracting the library from the app that was read.
LEMMA ExtractLibKeeps == ASSUME StoreInv, ExtractLib PROVE StoreInv'
<1>1. PlanInv /\ TypeOK /\ ReadInv /\ WrittenInv /\ ConfInv /\ SubsInv /\ LoadedInv /\ TablesInv
  BY Zenon DEF StoreInv
<1>2. /\ Doing = "extract" /\ Of = Lib /\ ~Idle /\ plan = L1
      /\ half' = ~half
      /\ got' = IF half THEN got ELSE [got EXCEPT ![Lib] = LibOf[artifact]]
      /\ extracted' = IF half THEN got[Lib] ELSE Torn
      /\ imports' = imports /\ subs' = subs
      /\ prog' = prog /\ vmt' = vmt /\ artifact' = artifact /\ calm' = calm
      /\ facts' = facts /\ result' = result /\ stamp' = stamp /\ conf' = conf
  <2>1. Doing = "extract" /\ Of = Lib /\ ~Idle /\ plan = L1
    BY <1>1, Where, PlanOfPlace DEF ExtractLib
  <2> QED BY <2>1, Zenon DEF ExtractLib, env, index
<1>3. IF half THEN plan' = L2 /\ Doing' = "check" /\ Of' = Lib
              ELSE plan' = L1 /\ Doing' = "extract" /\ Of' = Lib
  <2>1. plan' = IF half THEN << <<"check", Lib>> >> \o Rest(L1) ELSE L1
    BY <1>2, Zenon DEF ExtractLib, Then, Rest
  <2>2. plan' = IF half THEN L2 ELSE L1
    BY <2>1, Tails, Joins, Zenon
  <2> QED BY <2>2, Places, Zenon DEF Doing, Of
<1>4. LibOf[artifact] \in Version
  BY <1>1, VersionMaps, Zenon DEF TypeOK
<1>5. half \in BOOLEAN /\ got[Lib] \in File
  BY <1>1, Zenon DEF TypeOK, Name
<1>6. TypeOK'
  BY <1>1, <1>2, <1>4, <1>5, Zenon DEF TypeOK, File
<1>7. PlanInv'
  BY <1>2, <1>3, <1>5, Places, Zenon DEF PlanInv, LibPlans
<1>8. ReadInv'
  BY <1>1, <1>2, <1>3, <1>4, <1>5, TwoNames, Zenon DEF ReadInv, InLib, InApp, LibSteps, TypeOK, Name
<1>9. WrittenInv' /\ LoadedInv' /\ TablesInv'
  BY <1>1, <1>2, <1>3, Zenon DEF WrittenInv, LoadedInv, TablesInv
<1>10. /\ ConfInv' /\ Kept' = conf /\ Kept = conf /\ Complete' = Complete
  <2>1. Saving = {} /\ Saving' = {}
    BY <1>2, <1>3, <1>5, Zenon DEF Saving, ConfSteps
  <2>2. Unmarked' \subseteq Unmarked /\ Marked' \subseteq Marked
    BY <1>2, <1>3, TwoNames, Zenon DEF Unmarked, Marked, InLib, LibSteps
  <2> QED BY <1>1, <1>2, <2>1, <2>2, ConfStays, Zenon
<1>11. SubsInv'
  BY <1>1, <1>2, <1>3, <1>10, TwoNames, Zenon DEF SubsInv, InLib, InApp, LibSteps, TypeOK
<1> QED BY <1>6, <1>7, <1>8, <1>9, <1>10, <1>11, Zenon DEF StoreInv

\* Deciding whether the import of the library is up to date or made again.
LEMMA CheckLibKeeps == ASSUME StoreInv, CheckLib PROVE StoreInv'
<1>1. PlanInv /\ TypeOK /\ ReadInv /\ WrittenInv /\ ConfInv /\ SubsInv /\ LoadedInv /\ TablesInv
  BY Zenon DEF StoreInv
<1>2. /\ Doing = "check" /\ Of = Lib /\ ~Idle /\ plan = L2 /\ ~half
      /\ half' = half /\ got' = got /\ extracted' = extracted /\ imports' = imports
      /\ prog' = prog /\ vmt' = vmt /\ artifact' = artifact /\ calm' = calm
      /\ facts' = facts /\ result' = result /\ stamp' = stamp /\ conf' = conf
  <2>1. Doing = "check" /\ Of = Lib /\ ~Idle /\ plan = L2
    BY <1>1, Where, PlanOfPlace DEF CheckLib
  <2>2. ~half
    BY <1>1, <2>1, Zenon DEF PlanInv, ConfSteps
  <2> QED BY <2>1, <2>2, Zenon DEF CheckLib, env, files, index
<1>3. \/ UpToDate(Lib) /\ subs' = {Lib} /\ plan' = LS /\ Doing' = "subs" /\ Of' = App
      \/ subs' = subs /\ plan' = L3 /\ Doing' = "create" /\ Of' = Lib
  <2>1. \/ /\ UpToDate(Lib) /\ subs' = {Lib} 
           /\ plan' = << <<"subs", App>> >> \o Rest(L2)
        \/ /\ subs' = subs
           /\ plan' = << <<"create", Lib>>, <<"read", Lib>>, <<"base", Lib>> >>
                      \o Save(Lib) \o << <<"subs", App>> >> \o Rest(L2)
    BY <1>2, Zenon DEF CheckLib, Then, Rest
  <2>2. \/ UpToDate(Lib) /\ subs' = {Lib} /\ plan' = LS
        \/ subs' = subs /\ plan' = L3
    BY <2>1, Tails, Joins, Zenon
  <2> QED BY <2>2, Places, Zenon DEF Doing, Of
<1>4. TypeOK'
  BY <1>1, <1>2, <1>3, Zenon DEF TypeOK
<1>5. PlanInv'
  BY <1>2, <1>3, Places, Zenon DEF PlanInv, LibPlans, AppPlans
<1>6. ReadInv' /\ WrittenInv' /\ LoadedInv' /\ TablesInv'
  BY <1>1, <1>2, <1>3, TwoNames, Zenon
     DEF ReadInv, WrittenInv, LoadedInv, TablesInv, InLib, InApp, LibSteps
<1>7. /\ ConfInv' /\ Kept' = conf /\ Kept = conf /\ Complete' = Complete
  <2>1. Saving = {} /\ Saving' = {}
    BY <1>2, <1>3, Zenon DEF Saving, ConfSteps
  <2>2. Unmarked' \subseteq Unmarked /\ Marked' \subseteq Marked
    BY <1>2, <1>3, TwoNames, Zenon DEF Unmarked, Marked, InLib, LibSteps
  <2> QED BY <1>1, <1>2, <2>1, <2>2, ConfStays, Zenon
<1>8. UpToDate(Lib) => Lib \in Complete /\ (calm => prog[Lib] = LibOf[got[App]])
  BY <1>1, <1>2, <1>7, TwoNames, Zenon
     DEF UpToDate, Complete, IsComplete, ConfInv, Contents, ReadInv, InLib, LibSteps, Name
<1>9. SubsInv'
  BY <1>1, <1>2, <1>3, <1>7, <1>8, TwoNames, Zenon DEF SubsInv, InLib, InApp, LibSteps, TypeOK
<1> QED BY <1>4, <1>5, <1>6, <1>7, <1>9, Zenon DEF StoreInv

\* Writing the program: torn at first, then whole.
LEMMA WriteProgramKeeps == ASSUME StoreInv, WriteProgram PROVE StoreInv'
<1>1. PlanInv /\ TypeOK /\ ReadInv /\ WrittenInv /\ ConfInv /\ SubsInv /\ LoadedInv /\ TablesInv
  BY Zenon DEF StoreInv
<1>2. /\ Doing = "prog" /\ Of \in Name /\ ~Idle
      /\ half' = ~half
      /\ prog' = [prog EXCEPT ![Of] = IF half THEN got[Of] ELSE Torn]
      /\ got' = got /\ extracted' = extracted /\ imports' = imports /\ subs' = subs
      /\ vmt' = vmt /\ artifact' = artifact /\ calm' = calm
      /\ facts' = facts /\ result' = result /\ stamp' = stamp /\ conf' = conf
  <2>1. Doing = "prog" /\ Of \in Name /\ ~Idle /\ This = Of
    BY <1>1, Where DEF WriteProgram
  <2> QED BY <2>1, Zenon DEF WriteProgram, env, index
<1>3. IF half THEN plan' = Rest(plan) /\ Doing' = "vmt" /\ Of' = Of
              ELSE plan' = plan /\ Doing' = Doing /\ Of' = Of
  <2>1. CASE half
    <3>1. plan' = Rest(plan)
      BY <2>1, Zenon DEF WriteProgram, Then, Rest
    <3> QED BY <1>1, <1>2, <2>1, <3>1, Turn, Zenon DEF Name
  <2>2. CASE ~half
    BY <2>2, Zenon DEF WriteProgram, Then, Doing, Of
  <2> QED BY <2>1, <2>2, Zenon
<1>4. half \in BOOLEAN /\ got[Of] \in File
  BY <1>1, <1>2, Zenon DEF TypeOK
<1>5. TypeOK'
  BY <1>1, <1>2, <1>4, Zenon DEF TypeOK, File
<1>6. PlanInv'
  BY <1>1, <1>2, <1>3, <1>4, Turn, Zenon DEF PlanInv
<1>7. ReadInv' /\ WrittenInv' /\ LoadedInv' /\ TablesInv'
  BY <1>1, <1>2, <1>3, <1>4, TwoNames, Zenon
     DEF ReadInv, WrittenInv, LoadedInv, TablesInv, InLib, InApp, LibSteps, TypeOK
<1>8. /\ ConfInv' /\ Kept' = conf /\ Kept = conf /\ Complete' = Complete
      /\ Complete \cap Unmarked = {} /\ Of \in Unmarked
  <2>1. Saving = {} /\ Saving' = {}
    BY <1>2, <1>3, <1>4, Zenon DEF Saving, ConfSteps
  <2>2. Unmarked' \subseteq Unmarked /\ Marked' \subseteq Marked
    BY <1>2, <1>3, <1>4, TwoNames, Zenon DEF Unmarked, Marked, InLib, LibSteps
  <2>3. Of \in Unmarked
    BY <1>2, Zenon DEF Unmarked
  <2>4. \A n \in Name \ Unmarked : prog'[n] = prog[n] /\ vmt'[n] = vmt[n]
    BY <1>1, <1>2, <2>3, Zenon DEF TypeOK
  <2> QED BY <1>1, <1>2, <2>1, <2>2, <2>3, <2>4, ConfStays, Zenon
<1>9. SubsInv'
  <2>1. CASE Of = Lib
    BY <1>1, <1>2, <1>3, <1>4, <1>8, <2>1, TwoNames, Zenon DEF SubsInv, InLib, InApp, LibSteps, TypeOK
  <2>2. CASE Of = App
    <3>1. prog'[Lib] = prog[Lib] /\ ~conf[App].done
      BY <1>1, <1>2, <1>8, <2>2, TwoNames, Zenon DEF TypeOK, Name, ConfInv
    <3> QED BY <1>1, <1>2, <1>3, <1>4, <1>8, <2>2, <3>1, TwoNames, Zenon DEF SubsInv, InLib, InApp, LibSteps
  <2> QED BY <1>2, <2>1, <2>2, Zenon DEF Name
<1> QED BY <1>5, <1>6, <1>7, <1>8, <1>9, Zenon DEF StoreInv

\* Writing the virtual method table: torn at first, then whole.
LEMMA WriteVmtKeeps == ASSUME StoreInv, WriteVmt PROVE StoreInv'
<1>1. PlanInv /\ TypeOK /\ ReadInv /\ WrittenInv /\ ConfInv /\ SubsInv /\ LoadedInv /\ TablesInv
  BY Zenon DEF StoreInv
<1>2. /\ Doing = "vmt" /\ Of \in Name /\ ~Idle
      /\ half' = ~half
      /\ vmt' = [vmt EXCEPT ![Of] = IF half THEN got[Of] ELSE Torn]
      /\ got' = got /\ extracted' = extracted /\ imports' = imports /\ subs' = subs
      /\ prog' = prog /\ artifact' = artifact /\ calm' = calm
      /\ facts' = facts /\ result' = result /\ stamp' = stamp /\ conf' = conf
  <2>1. Doing = "vmt" /\ Of \in Name /\ ~Idle /\ This = Of
    BY <1>1, Where DEF WriteVmt
  <2> QED BY <2>1, Zenon DEF WriteVmt, env, index
<1>3. IF half THEN plan' = Rest(plan) /\ Doing' = "mark" /\ Of' = Of
              ELSE plan' = plan /\ Doing' = Doing /\ Of' = Of
  <2>1. CASE half
    <3>1. plan' = Rest(plan)
      BY <2>1, Zenon DEF WriteVmt, Then, Rest
    <3> QED BY <1>1, <1>2, <2>1, <3>1, Turn, Zenon DEF Name
  <2>2. CASE ~half
    BY <2>2, Zenon DEF WriteVmt, Then, Doing, Of
  <2> QED BY <2>1, <2>2, Zenon
<1>4. half \in BOOLEAN /\ got[Of] \in File
  BY <1>1, <1>2, Zenon DEF TypeOK
<1>5. TypeOK'
  BY <1>1, <1>2, <1>4, Zenon DEF TypeOK, File
<1>6. PlanInv'
  BY <1>1, <1>2, <1>3, <1>4, Turn, Zenon DEF PlanInv
<1>7. ReadInv' /\ WrittenInv' /\ LoadedInv' /\ TablesInv'
  BY <1>1, <1>2, <1>3, <1>4, TwoNames, Zenon
     DEF ReadInv, WrittenInv, LoadedInv, TablesInv, InLib, InApp, LibSteps, TypeOK
<1>8. /\ ConfInv' /\ Kept' = conf /\ Kept = conf /\ Complete' = Complete
      /\ Complete \cap Unmarked = {} /\ Of \in Unmarked
  <2>1. Saving = {} /\ Saving' = {}
    BY <1>2, <1>3, <1>4, Zenon DEF Saving, ConfSteps
  <2>2. Unmarked' \subseteq Unmarked /\ Marked' \subseteq Marked
    BY <1>2, <1>3, <1>4, TwoNames, Zenon DEF Unmarked, Marked, InLib, LibSteps
  <2>3. Of \in Unmarked
    BY <1>2, Zenon DEF Unmarked
  <2>4. \A n \in Name \ Unmarked : prog'[n] = prog[n] /\ vmt'[n] = vmt[n]
    BY <1>1, <1>2, <2>3, Zenon DEF TypeOK
  <2> QED BY <1>1, <1>2, <2>1, <2>2, <2>3, <2>4, ConfStays, Zenon
<1>9. SubsInv'
  <2>1. CASE Of = Lib
    BY <1>1, <1>2, <1>3, <1>4, <1>8, <2>1, TwoNames, Zenon DEF SubsInv, InLib, InApp, LibSteps, TypeOK
  <2>2. CASE Of = App
    <3>1. ~conf[App].done
      BY <1>1, <1>8, <2>2, Zenon DEF ConfInv, Name
    <3> QED BY <1>1, <1>2, <1>3, <1>4, <1>8, <2>2, <3>1, TwoNames, Zenon DEF SubsInv, InLib, InApp, LibSteps
  <2> QED BY <1>2, <2>1, <2>2, Zenon DEF Name
<1> QED BY <1>5, <1>6, <1>7, <1>8, <1>9, Zenon DEF StoreInv

-----------------------------------------------------------------------------
(* The other steps. *)

\* The steps of a command that is not importing anything.
Quiet == {"idle", "project", "load", "clear", "facts", "result", "stamp"}

\* Nothing of an import changes while no import runs, nor when one starts.
LEMMA QuietKeeps ==
    ASSUME StoreInv, Doing \in Quiet, Doing' \in Quiet \/ (Doing' = "create" /\ Of' = App /\ ~half'),
           conf' = conf, prog' = prog, vmt' = vmt, calm' => calm, subs' \in {subs, {}}
    PROVE  /\ ReadInv' /\ WrittenInv' /\ ConfInv' /\ SubsInv'
           /\ Kept = conf /\ Complete' = Complete
<1>1. PlanInv /\ TypeOK /\ ReadInv /\ WrittenInv /\ ConfInv /\ SubsInv /\ LoadedInv /\ TablesInv
  BY Zenon DEF StoreInv
<1>2. ~InLib /\ ~InApp
  BY Zenon DEF InLib, InApp, LibSteps, Quiet
<1>3. ~InLib' /\ ~InApp'
  BY TwoNames, Zenon DEF InLib, InApp, LibSteps, Quiet
<1>4. Saving = {} /\ Saving' = {}
  BY Zenon DEF Saving, ConfSteps, Quiet
<1>5. Unmarked' = {} /\ Marked' = {}
  BY <1>3, Zenon DEF Unmarked, Marked, Quiet
<1>6. ConfInv' /\ Kept' = conf /\ Kept = conf /\ Complete' = Complete
  BY <1>1, <1>4, <1>5, ConfStays, Zenon
<1>7. ReadInv' /\ WrittenInv'
  BY <1>3, Zenon DEF ReadInv, WrittenInv, Quiet
<1>8. SubsInv'
  BY <1>1, <1>2, <1>3, <1>6, Zenon DEF SubsInv, Quiet
<1> QED BY <1>6, <1>7, <1>8, Zenon

\* Starting an import of the app.
LEMMA StartImportKeeps ==
    ASSUME StoreInv, NEW native \in BOOLEAN, NEW force \in BOOLEAN, StartImport(native, force)
    PROVE  StoreInv'
<1>1. PlanInv /\ TypeOK /\ ReadInv /\ WrittenInv /\ ConfInv /\ SubsInv /\ LoadedInv /\ TablesInv
  BY Zenon DEF StoreInv
<1>2. /\ Idle /\ Doing = "idle" /\ ~half
      /\ half' = half /\ got' = got /\ extracted' = extracted /\ imports' = imports
      /\ prog' = prog /\ vmt' = vmt /\ artifact' = artifact /\ calm' = calm
      /\ facts' = facts /\ result' = result /\ stamp' = stamp /\ conf' = conf
  <2>1. Idle /\ Doing = "idle"
    BY <1>1, Where, Zenon DEF StartImport
  <2>2. ~half
    BY <1>1, <2>1, Zenon DEF PlanInv, ConfSteps
  <2> QED BY <2>1, <2>2, Zenon DEF StartImport, env, files, index
<1>3. /\ \/ plan' = <<>> /\ Doing' = "idle" /\ Of' = App
         \/ plan' = P1 /\ Doing' = "create" /\ Of' = App
      /\ subs' \in {subs, {}}
  <2>1. /\ plan' = <<>> \/ plan' = P1
        /\ subs' \in {subs, {}}
    BY Joins, Zenon DEF StartImport, Idle
  <2> QED BY <2>1, Places, Zenon DEF Doing, Of
<1>4. TypeOK'
  BY <1>1, <1>2, <1>3, Zenon DEF TypeOK
<1>5. PlanInv'
  BY <1>2, <1>3, Places, Zenon DEF PlanInv, AppPlans
<1>6. ReadInv' /\ WrittenInv' /\ ConfInv' /\ SubsInv'
  BY <1>2, <1>3, QuietKeeps, Zenon DEF Quiet
<1>7. LoadedInv' /\ TablesInv'
  BY <1>1, <1>2, <1>3, Zenon DEF LoadedInv, TablesInv
<1> QED BY <1>4, <1>5, <1>6, <1>7, Zenon DEF StoreInv

\* Starting an index of the project.
LEMMA StartIndexKeeps ==
    ASSUME StoreInv, NEW native \in BOOLEAN, StartIndex(native)
    PROVE  StoreInv'
<1>1. PlanInv /\ TypeOK /\ ReadInv /\ WrittenInv /\ ConfInv /\ SubsInv /\ LoadedInv /\ TablesInv
  BY Zenon DEF StoreInv
<1>2. /\ Idle /\ Doing = "idle" /\ ~half /\ imports' = Imports(native)
      /\ half' = half /\ got' = got /\ extracted' = extracted /\ subs' = subs
      /\ prog' = prog /\ vmt' = vmt /\ artifact' = artifact /\ calm' = calm
      /\ facts' = facts /\ result' = result /\ stamp' = stamp /\ conf' = conf
  <2>1. Idle /\ Doing = "idle"
    BY <1>1, Where, Zenon DEF StartIndex
  <2>2. ~half
    BY <1>1, <2>1, Zenon DEF PlanInv, ConfSteps
  <2> QED BY <2>1, <2>2, Zenon DEF StartIndex, env, files, index
<1>3. /\ Doing' = "project" /\ Of' = App
      /\ plan' = IF Lib \in imports' THEN I1 ELSE J1
  <2>1. plan' = IF Lib \in imports' THEN I1 ELSE J1
    BY <1>2, Joins, Zenon DEF StartIndex
  <2> QED BY <2>1, Places, Zenon DEF Doing, Of
<1>4. imports' \subseteq Name
  BY <1>1, <1>2, TwoNames, Zenon DEF Imports, TypeOK, Config, Name, Whole
<1>5. TypeOK'
  BY <1>1, <1>2, <1>4, Zenon DEF TypeOK
<1>6. PlanInv'
  <2>1. I1 # J2
    BY Places, Zenon
  <2> QED BY <1>2, <1>3, <2>1, Places, Differ, Zenon DEF PlanInv, IndexPlans
<1>7. ReadInv' /\ WrittenInv' /\ ConfInv' /\ SubsInv'
  BY <1>2, <1>3, QuietKeeps, Zenon DEF Quiet
<1>8. LoadedInv' /\ TablesInv'
  BY <1>1, <1>2, <1>3, Zenon DEF LoadedInv, TablesInv
<1> QED BY <1>5, <1>6, <1>7, <1>8, Zenon DEF StoreInv

\* Saving the project config.
LEMMA SaveProjectKeeps == ASSUME StoreInv, SaveProject PROVE StoreInv'
<1>1. PlanInv /\ TypeOK /\ ReadInv /\ WrittenInv /\ ConfInv /\ SubsInv /\ LoadedInv /\ TablesInv
  BY Zenon DEF StoreInv
<1>2. /\ Doing = "project" /\ Of = App /\ ~Idle /\ half' = ~half
      /\ got' = got /\ extracted' = extracted /\ subs' = subs /\ imports' = imports
      /\ prog' = prog /\ vmt' = vmt /\ artifact' = artifact /\ calm' = calm
      /\ facts' = facts /\ result' = result /\ stamp' = stamp /\ conf' = conf
  <2>1. Doing = "project" /\ Of = App /\ ~Idle
    BY <1>1, Where DEF SaveProject
  <2> QED BY <2>1, Zenon DEF SaveProject, env
<1>3. IF half THEN plan' = Rest(plan) /\ Doing' = "load" /\ Of' = App
              ELSE plan' = plan /\ Doing' = Doing /\ Of' = Of
  <2>1. CASE half
    <3>1. plan' = Rest(plan)
      BY <2>1, Zenon DEF SaveProject, Then, Rest
    <3> QED BY <1>1, <1>2, <2>1, <3>1, Turn, Zenon
  <2>2. CASE ~half
    BY <2>2, Zenon DEF SaveProject, Then, Doing, Of
  <2> QED BY <2>1, <2>2, Zenon
<1>4. half \in BOOLEAN
  BY <1>1, Zenon DEF TypeOK
<1>5. TypeOK'
  BY <1>1, <1>2, <1>4, Zenon DEF TypeOK
<1>6. PlanInv'
  BY <1>1, <1>2, <1>3, <1>4, Turn, Zenon DEF PlanInv
<1>7. ReadInv' /\ WrittenInv' /\ ConfInv' /\ SubsInv'
  BY <1>2, <1>3, <1>4, QuietKeeps, Zenon DEF Quiet
<1>8. LoadedInv' /\ TablesInv'
  BY <1>1, <1>2, <1>3, <1>4, TwoNames, Zenon DEF LoadedInv, TablesInv
<1> QED BY <1>5, <1>6, <1>7, <1>8, Zenon DEF StoreInv

\* Loading an import for the index: what it loads is whole.
LEMMA LoadImportKeeps == ASSUME StoreInv, LoadImport PROVE StoreInv'
<1>1. PlanInv /\ TypeOK /\ ReadInv /\ WrittenInv /\ ConfInv /\ SubsInv /\ LoadedInv /\ TablesInv
  BY Zenon DEF StoreInv
<1>2. /\ Doing = "load" /\ Of \in Name /\ ~Idle /\ ~half /\ half' = half /\ This = Of
      /\ extracted' = extracted
      /\ prog' = prog /\ vmt' = vmt /\ artifact' = artifact /\ calm' = calm
      /\ facts' = facts /\ result' = result /\ stamp' = stamp /\ conf' = conf
  <2>1. Doing = "load" /\ Of \in Name /\ ~Idle /\ This = Of
    BY <1>1, Where DEF LoadImport
  <2>2. ~half
    BY <1>1, <2>1, Zenon DEF PlanInv, ConfSteps
  <2> QED BY <2>1, <2>2, Zenon DEF LoadImport, env, files, index
<1>3. CASE /\ Of \in Complete /\ got' = [got EXCEPT ![Of] = prog[Of]]
           /\ plan' = Rest(plan) /\ subs' = subs /\ imports' = imports
  <2>1. \/ Of = Lib /\ Doing' = "clear" /\ Of' = App
        \/ Of = App /\ Doing' = "clear" /\ Of' = App /\ plan = J2
        \/ Of = App /\ Doing' = "load" /\ Of' = Lib
    BY <1>1, <1>2, <1>3, Turn, Zenon DEF Name
  <2>2. TypeOK'
    BY <1>1, <1>2, <1>3, Zenon DEF TypeOK
  <2>3. PlanInv'
    BY <1>1, <1>2, <1>3, Turn, Zenon DEF PlanInv
  <2>4. ReadInv' /\ WrittenInv' /\ ConfInv' /\ SubsInv' /\ Complete' = Complete
    BY <1>2, <1>3, <2>1, QuietKeeps, Zenon DEF Quiet
  <2>5. LoadedInv'
    BY <1>1, <1>2, <1>3, <2>1, <2>4, TwoNames, Zenon DEF LoadedInv, PlanInv, TypeOK, Name
  <2>6. TablesInv'
    BY <1>1, <1>2, <2>1, Zenon DEF TablesInv
  <2> QED BY <2>2, <2>3, <2>4, <2>5, <2>6, Zenon DEF StoreInv
<1>4. CASE plan' = <<>> /\ Drop
  <2>1. Doing' = "idle" /\ Of' = App
    BY <1>4, Places, Zenon DEF Doing, Of
  <2>2. TypeOK'
    BY <1>1, <1>2, <1>4, Zenon DEF TypeOK, Drop, File
  <2>3. PlanInv'
    BY <1>2, <1>4, Places, Zenon DEF PlanInv
  <2>4. ReadInv' /\ WrittenInv' /\ ConfInv' /\ SubsInv'
    BY <1>2, <1>4, <2>1, QuietKeeps, Zenon DEF Quiet, Drop
  <2>5. LoadedInv' /\ TablesInv'
    BY <1>1, <1>2, <2>1, Zenon DEF LoadedInv, TablesInv
  <2> QED BY <2>2, <2>3, <2>4, <2>5, Zenon DEF StoreInv
<1> QED BY <1>2, <1>3, <1>4, Zenon DEF LoadImport, Then, Rest, Complete

\* Removing the stamp before the tables are rewritten.
LEMMA ClearStampKeeps == ASSUME StoreInv, ClearStamp PROVE StoreInv'
<1>1. PlanInv /\ TypeOK /\ ReadInv /\ WrittenInv /\ ConfInv /\ SubsInv /\ LoadedInv /\ TablesInv
  BY Zenon DEF StoreInv
<1>2. /\ Doing = "clear" /\ Of = App /\ ~Idle /\ ~half /\ half' = half /\ stamp' = NoFile
      /\ got' = got /\ extracted' = extracted /\ subs' = subs /\ imports' = imports
      /\ prog' = prog /\ vmt' = vmt /\ artifact' = artifact /\ calm' = calm /\ conf' = conf
      /\ plan' = Rest(plan)
  <2>1. Doing = "clear" /\ Of = App /\ ~Idle
    BY <1>1, Where DEF ClearStamp
  <2>2. ~half
    BY <1>1, <2>1, Zenon DEF PlanInv, ConfSteps
  <2> QED BY <2>1, <2>2, Zenon DEF ClearStamp, env, Then, Rest
<1>3. Doing' = "facts" /\ Of' = App
  BY <1>1, <1>2, Turn, Zenon
<1>4. TypeOK'
  BY <1>1, <1>2, Zenon DEF TypeOK
<1>5. PlanInv'
  BY <1>1, <1>2, <1>3, Turn, Zenon DEF PlanInv
<1>6. ReadInv' /\ WrittenInv' /\ ConfInv' /\ SubsInv' /\ Complete' = Complete
  BY <1>2, <1>3, QuietKeeps, Zenon DEF Quiet
<1>7. LoadedInv' /\ TablesInv'
  BY <1>1, <1>2, <1>3, <1>6, Zenon DEF LoadedInv, TablesInv, Whole
<1> QED BY <1>4, <1>5, <1>6, <1>7, Zenon DEF StoreInv

\* Writing the fact tables.
LEMMA SaveFactsKeeps == ASSUME StoreInv, SaveFacts PROVE StoreInv'
<1>1. PlanInv /\ TypeOK /\ ReadInv /\ WrittenInv /\ ConfInv /\ SubsInv /\ LoadedInv /\ TablesInv
  BY Zenon DEF StoreInv
<1>2. /\ Doing = "facts" /\ Of = App /\ ~Idle /\ half' = ~half
      /\ facts' = IF half THEN Table ELSE Torn
      /\ got' = got /\ extracted' = extracted /\ subs' = subs /\ imports' = imports
      /\ prog' = prog /\ vmt' = vmt /\ artifact' = artifact /\ calm' = calm
      /\ result' = result /\ stamp' = stamp /\ conf' = conf
  <2>1. Doing = "facts" /\ Of = App /\ ~Idle
    BY <1>1, Where DEF SaveFacts
  <2> QED BY <2>1, Zenon DEF SaveFacts, env
<1>3. IF half THEN plan' = Rest(plan) /\ Doing' = "result" /\ Of' = App
              ELSE plan' = plan /\ Doing' = Doing /\ Of' = Of
  <2>1. CASE half
    <3>1. plan' = Rest(plan)
      BY <2>1, Zenon DEF SaveFacts, Then, Rest
    <3> QED BY <1>1, <1>2, <2>1, <3>1, Turn, Zenon
  <2>2. CASE ~half
    BY <2>2, Zenon DEF SaveFacts, Then, Doing, Of
  <2> QED BY <2>1, <2>2, Zenon
<1>4. half \in BOOLEAN /\ Table' = Table
  BY <1>1, <1>2, Zenon DEF TypeOK, Table
<1>5. TypeOK'
  BY <1>1, <1>2, <1>4, Zenon DEF TypeOK
<1>6. PlanInv'
  BY <1>1, <1>2, <1>3, <1>4, Turn, Zenon DEF PlanInv
<1>7. ReadInv' /\ WrittenInv' /\ ConfInv' /\ SubsInv' /\ Complete' = Complete
  BY <1>2, <1>3, <1>4, QuietKeeps, Zenon DEF Quiet
<1>8. LoadedInv' /\ TablesInv'
  BY <1>1, <1>2, <1>3, <1>4, <1>7, Zenon DEF LoadedInv, TablesInv, Whole
<1> QED BY <1>5, <1>6, <1>7, <1>8, Zenon DEF StoreInv

\* Writing the result tables.
LEMMA SaveResultKeeps == ASSUME StoreInv, SaveResult PROVE StoreInv'
<1>1. PlanInv /\ TypeOK /\ ReadInv /\ WrittenInv /\ ConfInv /\ SubsInv /\ LoadedInv /\ TablesInv
  BY Zenon DEF StoreInv
<1>2. /\ Doing = "result" /\ Of = App /\ ~Idle /\ half' = ~half
      /\ result' = IF half THEN Table ELSE Torn
      /\ got' = got /\ extracted' = extracted /\ subs' = subs /\ imports' = imports
      /\ prog' = prog /\ vmt' = vmt /\ artifact' = artifact /\ calm' = calm
      /\ facts' = facts /\ stamp' = stamp /\ conf' = conf
  <2>1. Doing = "result" /\ Of = App /\ ~Idle
    BY <1>1, Where DEF SaveResult
  <2> QED BY <2>1, Zenon DEF SaveResult, env
<1>3. IF half THEN plan' = Rest(plan) /\ Doing' = "stamp" /\ Of' = App
              ELSE plan' = plan /\ Doing' = Doing /\ Of' = Of
  <2>1. CASE half
    <3>1. plan' = Rest(plan)
      BY <2>1, Zenon DEF SaveResult, Then, Rest
    <3> QED BY <1>1, <1>2, <2>1, <3>1, Turn, Zenon
  <2>2. CASE ~half
    BY <2>2, Zenon DEF SaveResult, Then, Doing, Of
  <2> QED BY <2>1, <2>2, Zenon
<1>4. half \in BOOLEAN /\ Table' = Table
  BY <1>1, <1>2, Zenon DEF TypeOK, Table
<1>5. TypeOK'
  BY <1>1, <1>2, <1>4, Zenon DEF TypeOK
<1>6. PlanInv'
  BY <1>1, <1>2, <1>3, <1>4, Turn, Zenon DEF PlanInv
<1>7. ReadInv' /\ WrittenInv' /\ ConfInv' /\ SubsInv' /\ Complete' = Complete
  BY <1>2, <1>3, <1>4, QuietKeeps, Zenon DEF Quiet
<1>8. LoadedInv' /\ TablesInv'
  BY <1>1, <1>2, <1>3, <1>4, <1>7, Zenon DEF LoadedInv, TablesInv, Whole
<1> QED BY <1>5, <1>6, <1>7, <1>8, Zenon DEF StoreInv

\* Writing the stamp, once the tables are those of what was loaded.
LEMMA WriteStampKeeps == ASSUME StoreInv, WriteStamp PROVE StoreInv'
<1>1. PlanInv /\ TypeOK /\ ReadInv /\ WrittenInv /\ ConfInv /\ SubsInv /\ LoadedInv /\ TablesInv
  BY Zenon DEF StoreInv
<1> DEFINE hashed == {i \in imports : Whole(conf[i]) /\ conf[i].hash # NoFile}
<1>2. /\ Doing = "stamp" /\ Of = App /\ ~Idle /\ half' = ~half
      /\ stamp' = IF half THEN [n \in hashed |-> conf[n].hash] ELSE Torn
      /\ extracted' = extracted
      /\ prog' = prog /\ vmt' = vmt /\ artifact' = artifact /\ calm' = calm
      /\ facts' = facts /\ result' = result /\ conf' = conf
  <2>1. Doing = "stamp" /\ Of = App /\ ~Idle
    BY <1>1, Where DEF WriteStamp
  <2> QED BY <2>1, Zenon DEF WriteStamp, env
<1>3. half \in BOOLEAN
  BY <1>1, Zenon DEF TypeOK
<1>4. CASE half
  <2>1. plan' = Rest(plan) /\ Drop
    BY <1>4, Zenon DEF WriteStamp, Then, Rest
  <2>2. Doing' = "idle" /\ Of' = App
    BY <1>1, <1>2, <2>1, Turn, Zenon
  <2>3. TypeOK'
    BY <1>1, <1>2, <1>4, <2>1, Zenon DEF TypeOK, Drop, File
  <2>4. PlanInv'
    <3>1. plan = I7
      BY <1>1, <1>2, PlanOfPlace, Zenon
    <3>2. plan' = <<>>
      BY <2>1, <3>1, Tails, Zenon
    <3> QED BY <1>2, <1>4, <3>2, Places, Zenon DEF PlanInv
  <2>5. ReadInv' /\ WrittenInv' /\ ConfInv' /\ SubsInv' /\ Kept = conf
    BY <1>2, <1>4, <2>1, <2>2, QuietKeeps, Zenon DEF Quiet, Drop
  <2>6. LoadedInv'
    BY <2>2, Zenon DEF LoadedInv
  <2>7. \A n \in imports : n \in Name /\ got[n] \in Version /\ (calm /\ n \in hashed => conf[n].hash = got[n])
    BY <1>1, <1>2, <2>5, ZenonT(60) DEF LoadedInv, ConfInv, Complete, IsComplete, TypeOK
  <2>8. facts = [n \in imports |-> got[n]] /\ result = facts
    BY <1>1, <1>2, Zenon DEF TablesInv, Table
  <2>9. facts \in Tables
    <3>1. facts \in [imports -> Version]
      BY <2>7, <2>8, Zenon
    <3>2. imports \in SUBSET Name
      BY <2>7, Zenon
    <3> QED BY <3>1, <3>2, Zenon DEF Tables
  <2>10. /\ DOMAIN stamp' \subseteq DOMAIN facts
         /\ calm => \A n \in DOMAIN stamp' : stamp'[n] = facts[n]
    <3>1. stamp' = [n \in hashed |-> conf[n].hash]
      BY <1>2, <1>4, Zenon
    <3> HIDE DEF hashed
    <3>2. hashed \subseteq imports
      BY Zenon DEF hashed
    <3> QED BY <2>7, <2>8, <3>1, <3>2, Zenon
  <2>11. TablesInv'
    BY <1>2, <2>2, <2>8, <2>9, <2>10, Zenon DEF TablesInv
  <2> QED BY <2>3, <2>4, <2>5, <2>6, <2>11, Zenon DEF StoreInv
<1>5. CASE ~half
  <2>1. plan' = plan /\ got' = got /\ subs' = subs /\ imports' = imports
    BY <1>5, Zenon DEF WriteStamp, Then, Locals
  <2>2. Doing' = "stamp" /\ Of' = App /\ half' = TRUE /\ stamp' = Torn
    BY <1>2, <1>5, <2>1, Zenon DEF Doing, Of
  <2>3. TypeOK'
    BY <1>1, <1>2, <2>1, <2>2, Zenon DEF TypeOK
  <2>4. PlanInv'
    BY <1>1, <2>1, <2>2, Zenon DEF PlanInv
  <2>5. ReadInv' /\ WrittenInv' /\ ConfInv' /\ SubsInv' /\ Complete' = Complete
    BY <1>2, <2>1, <2>2, QuietKeeps, Zenon DEF Quiet
  <2>6. LoadedInv'
    BY <1>1, <1>2, <2>1, <2>2, <2>5, Zenon DEF LoadedInv
  <2>7. TablesInv'
    BY <1>1, <1>2, <2>1, <2>2, Zenon DEF TablesInv, Table, Whole
  <2> QED BY <2>3, <2>4, <2>5, <2>6, <2>7, Zenon DEF StoreInv
<1> QED BY <1>3, <1>4, <1>5, Zenon

\* A library whose import fails is dropped, and the import of the app goes on.
LEMMA LibFailsKeeps == ASSUME StoreInv, LibFails PROVE StoreInv'
<1>1. PlanInv /\ TypeOK /\ ReadInv /\ WrittenInv /\ ConfInv /\ SubsInv /\ LoadedInv /\ TablesInv
  BY Zenon DEF StoreInv
<1>2. /\ ~Idle /\ Of = Lib /\ Doing # "load" /\ half' = FALSE
      /\ got' = got /\ extracted' = extracted /\ subs' = subs /\ imports' = imports
      /\ prog' = prog /\ vmt' = vmt /\ artifact' = artifact /\ calm' = calm
      /\ facts' = facts /\ result' = result /\ stamp' = stamp /\ conf' = conf
  <2>1. ~Idle /\ Of = Lib /\ Doing # "load"
    BY <1>1, Where, Zenon DEF LibFails
  <2> QED BY <2>1, Zenon DEF LibFails, env, files, index, Locals
<1>3. InLib
  <2>1. plan \notin AppPlans
    BY <1>2, Places, TwoNames, ZenonT(60) DEF AppPlans, Of
  <2>2. plan \notin IndexPlans
    BY <1>2, Places, TwoNames, ZenonT(60) DEF IndexPlans, Doing, Of
  <2>3. plan \in LibPlans
    BY <1>1, <1>2, <2>1, <2>2, Zenon DEF PlanInv, Idle
  <2> QED BY <1>2, <2>3, Places, ZenonT(60) DEF LibPlans, InLib, LibSteps, Doing
<1>4. plan' = P3 /\ Doing' = "prog" /\ Of' = App
  <2>1. plan' = P3
    BY Tails, Zenon DEF LibFails
  <2> QED BY <2>1, Places, Zenon DEF Doing, Of
<1>5. TypeOK'
  BY <1>1, <1>2, Zenon DEF TypeOK
<1>6. PlanInv'
  BY <1>2, <1>4, Places, Zenon DEF PlanInv, AppPlans
<1>7. ReadInv' /\ WrittenInv' /\ LoadedInv' /\ TablesInv'
  BY <1>1, <1>2, <1>3, <1>4, TwoNames, Zenon
     DEF ReadInv, WrittenInv, LoadedInv, TablesInv, InLib, InApp, LibSteps
<1>8. /\ Kept' = conf /\ Kept[App] = conf[App]
      /\ \A n \in Name : Whole(conf[n]) => Kept[n] = conf[n]
  <2>1. Saving' = {} /\ App \notin Saving
    BY <1>2, TwoNames, Zenon DEF Saving
  <2> QED BY <1>1, <1>2, <2>1, Zenon DEF Kept, TypeOK, ConfInv, Whole, Name
<1>9. ConfInv'
  <2>1. Saving' = {} /\ Unmarked' = {App} /\ Marked' = {}
    BY <1>2, <1>4, TwoNames, Zenon DEF Saving, Unmarked, Marked, InLib, Name
  <2>2. conf[App] \in Config /\ ~conf[App].done
    BY <1>1, <1>3, <1>8, Zenon DEF ConfInv, Unmarked, Name
  <2> QED BY <1>1, <1>2, <1>8, <2>1, <2>2, Zenon DEF ConfInv, Whole
<1>10. SubsInv'
  <2>1. subs = {} /\ conf[App].subs = {}
    BY <1>1, <1>2, <1>3, <1>8, TwoNames, Zenon DEF SubsInv, InApp, TypeOK
  <2>2. Whole(conf[Lib]) => conf[Lib].subs = {}
    BY <1>1, <1>8, Zenon DEF SubsInv, Name
  <2> QED BY <1>2, <1>4, <1>8, <2>1, <2>2, Zenon DEF SubsInv, InLib, InApp
<1> QED BY <1>5, <1>6, <1>7, <1>9, <1>10, Zenon DEF StoreInv

\* A crash leaves the files as they are, torn ones included.
LEMMA CrashKeeps == ASSUME StoreInv, Crash PROVE StoreInv'
<1>1. PlanInv /\ TypeOK /\ ReadInv /\ WrittenInv /\ ConfInv /\ SubsInv /\ LoadedInv /\ TablesInv
  BY Zenon DEF StoreInv
<1>2. /\ plan' = <<>> /\ half' = FALSE /\ Drop
      /\ extracted' = extracted
      /\ prog' = prog /\ vmt' = vmt /\ artifact' = artifact /\ calm' = calm
      /\ facts' = facts /\ result' = result /\ stamp' = stamp /\ conf' = conf
  BY Zenon DEF Crash, env, files, index
<1>3. Doing' = "idle" /\ Of' = App
  BY <1>2, Places, Zenon DEF Doing, Of
<1>4. TypeOK'
  BY <1>1, <1>2, Zenon DEF TypeOK, Drop, File
<1>5. PlanInv'
  BY <1>2, Places, Zenon DEF PlanInv
<1>6. ReadInv' /\ WrittenInv' /\ LoadedInv' /\ TablesInv'
  BY <1>1, <1>2, <1>3, Zenon DEF ReadInv, WrittenInv, LoadedInv, TablesInv, InLib, InApp, LibSteps
<1>7. Kept' = conf /\ \A n \in Name : Whole(conf[n]) => Kept[n] = conf[n]
  <2>1. Saving' = {}
    BY <1>2, Zenon DEF Saving
  <2> QED BY <1>1, <1>2, <2>1, Zenon DEF Kept, TypeOK, ConfInv, Whole
<1>8. ConfInv'
  <2>1. Saving' = {} /\ Unmarked' = {} /\ Marked' = {}
    BY <1>2, <1>3, Zenon DEF Saving, Unmarked, Marked, InLib, LibSteps
  <2> QED BY <1>1, <1>2, <1>7, <2>1, Zenon DEF ConfInv, Whole
<1>9. SubsInv'
  <2>1. Complete' = Complete /\ subs' = {}
    BY <1>2, Zenon DEF Complete, IsComplete, Drop
  <2>2. Kept'[App] = conf[App] /\ Kept'[Lib] = conf[Lib]
    BY <1>7, Zenon
  <2>3. /\ Whole(conf[App]) => Kept[App] = conf[App]
        /\ Whole(conf[Lib]) => Kept[Lib] = conf[Lib]
    BY <1>7, Zenon DEF Name
  <2> QED BY <1>1, <1>2, <1>3, <2>1, <2>2, <2>3, Zenon DEF SubsInv, InLib, InApp, LibSteps
<1> QED BY <1>4, <1>5, <1>6, <1>8, <1>9, Zenon DEF StoreInv

\* A rebuild of the app, or nothing at all.
LEMMA EnvKeeps ==
    ASSUME StoreInv, UNCHANGED <<files, plan, half, copy, imports, got, subs>>,
           artifact' \in Version, calm' \in BOOLEAN, calm' => calm /\ (Idle \/ artifact' = artifact)
    PROVE  StoreInv'
<1>1. PlanInv /\ TypeOK /\ ReadInv /\ WrittenInv /\ ConfInv /\ SubsInv /\ LoadedInv /\ TablesInv
  BY Zenon DEF StoreInv
<1>2. /\ extracted' = extracted /\ prog' = prog /\ vmt' = vmt /\ facts' = facts /\ result' = result
      /\ stamp' = stamp /\ conf' = conf /\ half' = half /\ copy' = copy /\ plan' = plan
      /\ imports' = imports /\ got' = got /\ subs' = subs
      /\ half' <=> half
  BY Zenon DEF files, index
<1>3. Doing' = Doing /\ Of' = Of /\ (Idle => Doing = "idle")
  BY <1>1, <1>2, Where, Zenon DEF Doing, Of
<1>4. InLib' = InLib /\ InApp' = InApp
  BY <1>3, Zenon DEF InLib, InApp
<1>5. Saving' = Saving /\ Unmarked' = Unmarked /\ Marked' = Marked /\ Complete' = Complete
  BY <1>2, <1>3, <1>4, Zenon DEF Saving, Unmarked, Marked, Complete, IsComplete
<1>6. Kept' = Kept /\ Table' = Table
  BY <1>2, <1>5, Zenon DEF Kept, Table
<1>7. TypeOK' /\ PlanInv'
  BY <1>1, <1>2, <1>3, Zenon DEF TypeOK, PlanInv
<1>8. ReadInv'
  <2>1. Idle => ~InLib /\ ~InApp
    BY <1>3, Zenon DEF InLib, InApp, LibSteps
  <2> QED BY <1>1, <1>2, <1>3, <1>4, <2>1, ZenonT(60) DEF ReadInv
<1>9. WrittenInv' /\ LoadedInv'
  BY <1>1, <1>2, <1>3, <1>5, Zenon DEF WrittenInv, LoadedInv
<1>10. ConfInv'
  BY <1>1, <1>2, <1>5, <1>6, Zenon DEF ConfInv, Whole
<1>11. SubsInv'
  BY <1>1, <1>2, <1>3, <1>4, <1>5, <1>6, Zenon DEF SubsInv, Whole
<1>12. TablesInv'
  BY <1>1, <1>2, <1>3, <1>6, Zenon DEF TablesInv, Whole
<1> QED BY <1>7, <1>8, <1>9, <1>10, <1>11, <1>12, Zenon DEF StoreInv

-----------------------------------------------------------------------------
(* The theorems. *)

\* The places of import and index agree with what is on disk, whatever commands
\* were run, killed and run again, and whenever the app was rebuilt.
THEOREM StoreInvariant == Spec => []StoreInv
<1>1. Init => StoreInv
  BY InitHolds, Zenon
<1>2. StoreInv /\ [Next]_vars => StoreInv'
  <2> SUFFICES ASSUME StoreInv, [Next]_vars PROVE StoreInv'
    BY Zenon
  <2>1. artifact \in Version /\ calm \in BOOLEAN
    BY Zenon DEF StoreInv, TypeOK
  <2>2. CASE Step
    BY <2>2, SaveConfKeeps, SavedConfKeeps, ReadArtifactKeeps, ExtractLibKeeps, CheckLibKeeps,
       WriteProgramKeeps, WriteVmtKeeps, SaveProjectKeeps, LoadImportKeeps, ClearStampKeeps,
       SaveFactsKeeps, SaveResultKeeps, WriteStampKeeps DEF Step
  <2>3. CASE Start
    BY <2>3, StartImportKeeps, StartIndexKeeps, Zenon DEF Start
  <2>4. CASE LibFails
    BY <2>4, LibFailsKeeps, Zenon
  <2>5. CASE Crash
    BY <2>5, CrashKeeps, Zenon
  <2>6. CASE Edit
    <3>1. artifact' \in Version
      BY <2>1, <2>6, VersionMaps, ZenonT(60) DEF Edit
    <3>2. calm' \in BOOLEAN /\ (calm' => calm /\ Idle)
      BY <2>1, <2>6, Zenon DEF Edit
    <3> QED BY <2>6, <3>1, <3>2, EnvKeeps, Zenon DEF Edit
  <2>7. CASE UNCHANGED vars
    BY <2>1, <2>7, EnvKeeps, Zenon DEF vars, env, cmd
  <2> QED BY <2>2, <2>3, <2>4, <2>5, <2>6, <2>7, Zenon DEF Next
<1> QED BY <1>1, <1>2, PTL DEF Spec

\* In any state that satisfies the invariant the four properties hold.
LEMMA StoreInvImplies ==
    ASSUME StoreInv
    PROVE  CompleteIsWhole /\ StampIsWhole /\ UpToDateIsSound /\ SubsBelong
<1>1. TypeOK /\ ConfInv /\ SubsInv /\ TablesInv
  BY Zenon DEF StoreInv
<1>2. \A n \in Name : IsComplete(n) => Kept[n] = conf[n] /\ Whole(Kept[n]) /\ Kept[n].done
  BY <1>1, Zenon DEF IsComplete, Whole, Kept, ConfInv
<1>3. \A n \in Name : IsComplete(n) => prog[n] \in Version /\ vmt[n] = prog[n]
  BY <1>1, <1>2, Zenon DEF ConfInv
<1>4. IsComplete(App) /\ Lib \in conf[App].subs => Lib \in Complete /\ (calm => prog[Lib] = LibOf[prog[App]])
  BY <1>1, <1>2, Zenon DEF SubsInv, Name
<1>5. IsComplete(Lib) => conf[Lib].subs = {}
  BY <1>1, <1>2, Zenon DEF SubsInv, Name
<1>6. IsComplete(App) => conf[App].subs \subseteq {Lib}
  BY <1>1, Zenon DEF TypeOK, IsComplete, Whole, Config, Name
<1>7. CompleteIsWhole
  BY <1>3, <1>4, <1>5, <1>6, WholeThings DEF CompleteIsWhole, Complete, Name
<1>8. SubsBelong
  BY <1>4, Zenon DEF SubsBelong
<1>9. UpToDateIsSound
  BY <1>1, <1>2, <1>3, ZenonT(60) DEF UpToDateIsSound, UpToDate, ConfInv
<1>10. StampIsWhole
  BY <1>1, WholeThings, Zenon DEF StampIsWhole, TablesInv
<1> QED BY <1>7, <1>8, <1>9, <1>10, Zenon

\* What load_import accepts can be loaded, and so can what it names: no crash, no
\* failed library and no rebuild makes mark_complete vouch for a torn or a mixed
\* import.
THEOREM ImportsAreWhole == Spec => []CompleteIsWhole
BY StoreInvariant, StoreInvImplies, PTL

\* What check_index_config accepts can be read, and, if no rebuild ever came during a
\* command, the hashes of the stamp are those of the imports that the tables were
\* computed from.
THEOREM StampsAreWhole == Spec => []StampIsWhole
BY StoreInvariant, StoreInvImplies, PTL

\* What is_up_to_date lets the caller skip is the translation of the artifact's
\* current bytes, if no rebuild ever came during a command.
THEOREM SkipsAreSound == Spec => []UpToDateIsSound
BY StoreInvariant, StoreInvImplies, PTL

\* The native library recorded by record_sub_imports is the app's own, if no rebuild
\* ever came during a command.
THEOREM SubImportsBelong == Spec => []SubsBelong
BY StoreInvariant, StoreInvImplies, PTL
=============================================================================
