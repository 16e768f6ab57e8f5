---------------------------- MODULE ImportStore -----------------------------
(***************************************************************************)
(* The store that `ctadl import` and `ctadl index` share on disk           *)
(* (src/ctadl-import/src/project.rs, store.rs; the drivers in              *)
(* src/ctadl-frontends and src/ctadl-ascent/src/cli). App is the import of *)
(* an APK; Lib is the sub-import of the native library packaged in it. The *)
(* commands run one after the other. Any of them can die at any write, and *)
(* a file that is being written is torn until its last byte is out.        *)
(*                                                                         *)
(* An artifact is abstracted to its version; LibOf says which version of   *)
(* the library a version of the app packages. An IR file is abstracted to  *)
(* the version it was translated from, a hash to the version it was taken  *)
(* of.                                                                     *)
(***************************************************************************)
EXTENDS Integers, Sequences

CONSTANTS
    App, Lib,      \* the names of the two imports
    MaxVersion,    \* bound: versions of the artifact
    LibOf,         \* the version of the library in each version of the app
    Rebuild,       \* the versions that may take the place of a version
    MaxEdits,      \* bound: rebuilds of the app
    MaxCrashes,    \* bound: crashes and errors
    NoFile, Torn   \* a file that is missing, or was not written to its end

Name == {App, Lib}
Version == 1..MaxVersion

\* What a config says, and what a table or a stamp is computed from.
Config == [done : BOOLEAN, hash : Version \cup {NoFile}, subs : SUBSET {Lib}]
Tables == UNION {[S -> Version] : S \in SUBSET Name}

ASSUME StoreAssumption ==
    /\ App # Lib /\ MaxVersion \in Nat \ {0}
    /\ MaxEdits \in Nat /\ MaxCrashes \in Nat
    /\ LibOf \in [Version -> Version]
    /\ Rebuild \in [Version -> SUBSET Version]
    /\ NoFile # Torn /\ {NoFile, Torn} \cap Version = {}
    /\ {NoFile, Torn} \cap Config = {} /\ {NoFile, Torn} \cap Tables = {}

VARIABLES
    artifact,   \* the version of the app's file now
    extracted,  \* the library file extracted from the app
    conf,       \* import_config.json of each import
    prog, vmt,  \* program and virtual method table of each import
    project,    \* the project's config: the imports it is made of
    facts,      \* the index's input tables
    result,     \* the index's result tables
    stamp,      \* index_config.json
    plan,       \* what the command still has to do, a sequence of <<step, import>>
    half,       \* whether the file of the current step is truncated, not written
    copy,       \* the config that the command is writing
    imports,    \* the imports of the project that is being indexed
    got,        \* the version of each import that the command has read
    subs,       \* the sub-imports the running import has produced
    opts,       \* the options of the command: native, force
    edits,      \* rebuilds so far
    calm,       \* history: no rebuild came while a command ran
    crashes     \* crashes and errors so far

index == <<project, facts, result, stamp>>
files == <<extracted, conf, prog, vmt, index>>
cmd == <<plan, half, copy, imports, got, subs, opts>>
env == <<artifact, edits, calm>>
vars == <<env, files, cmd, crashes>>

NoOpts == [native |-> FALSE, force |-> FALSE]
Fresh == [done |-> FALSE, hash |-> NoFile, subs |-> {}]
Whole(x) == x \notin {NoFile, Torn}
IsComplete(n) == Whole(conf[n]) /\ conf[n].done
Contents(n) == IF n = App THEN artifact ELSE extracted

Init ==
    /\ artifact = 1 /\ extracted = NoFile
    /\ conf = [n \in Name |-> NoFile]
    /\ prog = [n \in Name |-> NoFile] /\ vmt = [n \in Name |-> NoFile]
    /\ project = NoFile /\ facts = NoFile /\ result = NoFile /\ stamp = NoFile
    /\ plan = <<>> /\ half = FALSE /\ copy = NoFile /\ imports = {}
    /\ got = [n \in Name |-> NoFile] /\ subs = {}
    /\ opts = NoOpts
    /\ edits = 0 /\ calm = TRUE /\ crashes = 0

Idle == plan = <<>>
At(step) == ~Idle /\ plan[1][1] = step
This == plan[1][2]
Then(rest) == plan' = rest

\* The locals of a command, which end with it.
Locals == <<got, subs, imports, opts>>
Drop ==
    /\ got' = [n \in Name |-> NoFile] /\ subs' = {} /\ imports' = {}
    /\ opts' = NoOpts

-----------------------------------------------------------------------------
(* ctadl import. *)

\* Mutant: the completion mark goes on before the virtual method table.
SaveMarksFirst(n) == << <<"prog", n>>, <<"mark", n>>, <<"vmt", n>>, <<"hash", n>> >>

\* save_program_info, then the hash that a later import compares.
Save(n) == << <<"prog", n>>, <<"vmt", n>>, <<"mark", n>>, <<"hash", n>> >>

\* The destination exists, whether or not it was written to its end.
UpToDate(n) ==
    /\ IsComplete(n) /\ prog[n] # NoFile
    /\ conf[n].hash # NoFile /\ conf[n].hash = Contents(n)

\* Mutant: a config that does not parse is an error, not a missing import.
StartImportStrict(native, force) ==
    /\ Idle /\ conf[App] # Torn
    /\ \/ /\ ~force /\ UpToDate(App)
          /\ UNCHANGED <<plan, opts, subs>>
       \/ /\ force \/ ~UpToDate(App)
          /\ opts' = [native |-> native, force |-> force] /\ subs' = {}
          /\ plan' = << <<"create", App>>, <<"read", App>> >> \o Save(App)
    /\ UNCHANGED <<env, files, half, copy, imports, got, crashes>>

StartImport(native, force) ==
    /\ Idle
    /\ \/ /\ ~force /\ UpToDate(App)
          /\ UNCHANGED <<plan, opts, subs>>
       \/ /\ force \/ ~UpToDate(App)
          /\ opts' = [native |-> native, force |-> force] /\ subs' = {}
          /\ plan' = << <<"create", App>>, <<"read", App>> >> \o Save(App)
    /\ UNCHANGED <<env, files, half, copy, imports, got, crashes>>

\* Mutant: try_create keeps the config of an earlier import.
NewConfKeeps(step, n) ==
    CASE step \in {"create", "base"} -> IF Whole(conf[n]) THEN conf[n] ELSE Fresh
      [] step = "subs" -> [conf[n] EXCEPT !.subs = subs]
      [] step = "mark" -> [conf[n] EXCEPT !.done = TRUE]
      [] step = "hash" -> [conf[n] EXCEPT !.hash = Contents(n)]

\* try_create and import_pcode write a config of their own; record_sub_imports,
\* mark_complete and record_artifact_hash load the one there is and change it.
\* The file is truncated first.
ConfSteps == {"create", "base", "subs", "mark", "hash"}
NewConf(step, n) ==
    CASE step \in {"create", "base"} -> Fresh
      [] step = "subs" -> [conf[n] EXCEPT !.subs = subs]
      [] step = "mark" -> [conf[n] EXCEPT !.done = TRUE]
      [] step = "hash" -> [conf[n] EXCEPT !.hash = Contents(n)]

SaveConf ==
    /\ \E step \in ConfSteps :
        /\ At(step) /\ ~half
        /\ copy' = NewConf(step, This)
    /\ conf' = [conf EXCEPT ![This] = Torn]
    /\ half' = TRUE
    /\ UNCHANGED <<env, extracted, prog, vmt, index,
                   plan, got, subs, imports, opts, crashes>>

SavedConf ==
    /\ \E step \in ConfSteps : At(step) /\ half
    /\ conf' = [conf EXCEPT ![This] = copy]
    /\ half' = FALSE /\ copy' = NoFile
    /\ Then(Tail(plan))
    /\ \/ At("hash") /\ This = App /\ Drop
       \* import_one has returned the library's name once its hash is there.
       \/ At("hash") /\ This = Lib /\ subs' = {Lib} /\ UNCHANGED <<got, imports, opts>>
       \/ ~At("hash") /\ UNCHANGED Locals
    /\ UNCHANGED <<env, extracted, prog, vmt, index, crashes>>

\* The front end reads the artifact; with native libraries wanted, import_apk
\* goes on to the app's library. import_pcode records the image base it finds.
ReadArtifact ==
    /\ At("read")
    /\ got' = [got EXCEPT ![This] = Contents(This)]
    /\ Then(IF This = App /\ opts.native THEN << <<"extract", Lib>> >> \o Tail(plan) ELSE Tail(plan))
    /\ UNCHANGED <<env, files, half, copy, subs, imports, opts, crashes>>

\* import_native_libs reads the app a second time, and import_one writes the
\* library before it looks at the import there may be of it.
ExtractLib ==
    /\ At("extract")
    /\ half' = ~half
    /\ got' = IF half THEN got ELSE [got EXCEPT ![Lib] = LibOf[artifact]]
    /\ extracted' = IF half THEN got[Lib] ELSE Torn
    /\ Then(IF half THEN << <<"check", Lib>> >> \o Tail(plan) ELSE plan)
    /\ UNCHANGED <<env, conf, prog, vmt, index, copy, subs, imports, opts, crashes>>

\* Mutant: a complete import of a library of that name is reused unseen.
CheckLibByName ==
    LET record == << <<"subs", App>> >>
    IN  /\ At("check")
        /\ \/ /\ ~opts.force /\ IsComplete(Lib)
              /\ subs' = {Lib}
              /\ Then(record \o Tail(plan))
           \/ /\ opts.force \/ ~IsComplete(Lib)
              /\ UNCHANGED subs
              /\ Then(<< <<"create", Lib>>, <<"read", Lib>>, <<"base", Lib>> >> \o Save(Lib)
                       \o record \o Tail(plan))
        /\ UNCHANGED <<env, files, half, copy, imports, got, opts, crashes>>

\* import_one reuses an up-to-date import of the library, or imports it.
CheckLib ==
    LET record == << <<"subs", App>> >>
    IN  /\ At("check")
        /\ \/ /\ ~opts.force /\ UpToDate(Lib)
              /\ subs' = {Lib}
              /\ Then(record \o Tail(plan))
           \/ /\ opts.force \/ ~UpToDate(Lib)
              /\ UNCHANGED subs
              /\ Then(<< <<"create", Lib>>, <<"read", Lib>>, <<"base", Lib>> >> \o Save(Lib) \o record \o Tail(plan))
        /\ UNCHANGED <<env, files, half, copy, got, imports, opts, crashes>>

\* The native front end is missing or refuses the library, or writing its
\* import fails: a warning, and the app is imported without it.
LibFails ==
    /\ ~Idle /\ This = Lib /\ ~At("load")
    /\ crashes < MaxCrashes
    /\ crashes' = crashes + 1
    /\ half' = FALSE /\ copy' = NoFile
    /\ plan' = Save(App)
    /\ UNCHANGED <<env, files, Locals>>

\* save_program_info writes the program, then the virtual method table.
WriteProgram ==
    /\ At("prog")
    /\ half' = ~half
    /\ prog' = [prog EXCEPT ![This] = IF half THEN got[This] ELSE Torn]
    /\ Then(IF half THEN Tail(plan) ELSE plan)
    /\ UNCHANGED <<env, extracted, conf, vmt, index, copy, got, subs, imports, opts, crashes>>

WriteVmt ==
    /\ At("vmt")
    /\ half' = ~half
    /\ vmt' = [vmt EXCEPT ![This] = IF half THEN got[This] ELSE Torn]
    /\ Then(IF half THEN Tail(plan) ELSE plan)
    /\ UNCHANGED <<env, extracted, conf, prog, index, copy, got, subs, imports, opts, crashes>>

-----------------------------------------------------------------------------
(* ctadl index. *)

\* AnalysisProject::ephemeral: the import named, then its sub-imports, unless
\* they are filtered out; a config that does not load has none.
Imports(native) ==
    {App} \cup IF native /\ Whole(conf[App]) THEN conf[App].subs ELSE {}

StartIndex(native) ==
    /\ Idle
    /\ opts' = [native |-> native, force |-> FALSE]
    /\ imports' = Imports(native)
    /\ plan' = << <<"project", App>>, <<"load", App>> >>
               \o (IF Lib \in Imports(native) THEN << <<"load", Lib>> >> ELSE <<>>)
               \o << <<"clear", App>>, <<"facts", App>>, <<"result", App>>, <<"stamp", App>> >>
    /\ UNCHANGED <<env, files, half, copy, got, subs, crashes>>

\* AnalysisProject::try_create saves the project before anything is loaded.
SaveProject ==
    /\ At("project")
    /\ half' = ~half
    /\ project' = IF half THEN imports ELSE Torn
    /\ Then(IF half THEN Tail(plan) ELSE plan)
    /\ UNCHANGED <<env, extracted, conf, prog, vmt, facts, result, stamp,
                   copy, imports, got, subs, opts, crashes>>

\* load_import refuses an import that is not marked complete; index then fails.
LoadImport ==
    /\ At("load")
    /\ \/ /\ IsComplete(This)
          /\ got' = [got EXCEPT ![This] = prog[This]]
          /\ Then(Tail(plan))
          /\ UNCHANGED <<subs, imports, opts>>
       \/ /\ ~IsComplete(This)
          /\ plan' = <<>>
          /\ Drop
    /\ UNCHANGED <<env, files, half, copy, crashes>>

\* Mutant: the old stamp stays until it is written over.
ClearStampNever ==
    /\ At("clear")
    /\ Then(Tail(plan))
    /\ UNCHANGED <<env, files, half, copy, imports, got, subs, opts, crashes>>

ClearStamp ==
    /\ At("clear")
    /\ stamp' = NoFile
    /\ Then(Tail(plan))
    /\ UNCHANGED <<env, extracted, conf, prog, vmt, project, facts, result,
                   half, copy, imports, got, subs, opts, crashes>>

\* What the tables say is a function of the imports they were computed from.
Table == [n \in imports |-> got[n]]

SaveFacts ==
    /\ At("facts")
    /\ half' = ~half
    /\ facts' = IF half THEN Table ELSE Torn
    /\ Then(IF half THEN Tail(plan) ELSE plan)
    /\ UNCHANGED <<env, extracted, conf, prog, vmt, project, result, stamp,
                   copy, imports, got, subs, opts, crashes>>

SaveResult ==
    /\ At("result")
    /\ half' = ~half
    /\ result' = IF half THEN Table ELSE Torn
    /\ Then(IF half THEN Tail(plan) ELSE plan)
    /\ UNCHANGED <<env, extracted, conf, prog, vmt, project, facts, stamp,
                   copy, imports, got, subs, opts, crashes>>

\* The stamp records the hash of every import that has one.
WriteStamp ==
    /\ At("stamp")
    /\ half' = ~half
    /\ stamp' = IF half
                THEN [n \in {i \in imports : Whole(conf[i]) /\ conf[i].hash # NoFile} |-> conf[n].hash]
                ELSE Torn
    /\ Then(IF half THEN Tail(plan) ELSE plan)
    /\ IF half THEN Drop ELSE UNCHANGED Locals
    /\ UNCHANGED <<env, extracted, conf, prog, vmt, project, facts, result, copy, crashes>>

-----------------------------------------------------------------------------
(* The environment. *)

\* The process is killed, or an i/o error that is not a warning ends it.
Crash ==
    /\ ~Idle /\ crashes < MaxCrashes
    /\ crashes' = crashes + 1
    /\ plan' = <<>> /\ half' = FALSE /\ copy' = NoFile
    /\ Drop
    /\ UNCHANGED <<env, files>>

\* The user puts another build of the app in its place, an earlier one included.
Edit ==
    /\ edits < MaxEdits
    /\ edits' = edits + 1
    /\ artifact' \in Rebuild[artifact]
    /\ calm' = (calm /\ Idle)
    /\ UNCHANGED <<files, plan, half, copy, imports, got, subs, opts, crashes>>

Step ==
    \/ SaveConf \/ SavedConf \/ ReadArtifact \/ ExtractLib \/ CheckLib
    \/ WriteProgram \/ WriteVmt
    \/ SaveProject \/ LoadImport \/ ClearStamp \/ SaveFacts \/ SaveResult \/ WriteStamp

Start ==
    \/ \E native, force \in BOOLEAN : StartImport(native, force)
    \/ \E native \in BOOLEAN : StartIndex(native)

Next == Step \/ Start \/ LibFails \/ Crash \/ Edit

Spec == Init /\ [][Next]_vars

\* A running command keeps going, and the user keeps trying to import.
FairSpec ==
    /\ Spec
    /\ WF_vars(Step)
    /\ SF_vars(StartImport(TRUE, FALSE))

-----------------------------------------------------------------------------
\* An import marked complete can be loaded: its program and virtual method table
\* are whole and of one version of the artifact, and so is every sub-import that
\* it names. load_import decodes them without looking at anything but the mark.
CompleteIsWhole ==
    \A n \in Name : IsComplete(n) =>
        /\ Whole(prog[n]) /\ vmt[n] = prog[n]
        /\ \A m \in conf[n].subs : IsComplete(m)

\* A stamped index can be read: its tables are whole and come from one run. The
\* table decoders panic on anything else (check_index_config). The hashes in the stamp
\* are those of what the tables were computed from, so check_summary_provenance
\* compares the right build, without rebuilds during an import.
StampIsWhole ==
    Whole(stamp) => /\ Whole(facts) /\ result = facts
                    /\ calm => \A n \in DOMAIN stamp : stamp[n] = facts[n]

\* An import that is_up_to_date lets the caller skip on path and hash holds the
\* translation of the artifact as it is now, for the app and for the reused library,
\* whatever was rebuilt between commands and wherever they died. The hash is taken
\* after the translation, so a rebuild in between is missed.
UpToDateIsSound ==
    calm => \A n \in Name : UpToDate(n) => prog[n] = Contents(n) /\ vmt[n] = Contents(n)

\* The library that a complete app names is the one packaged in the version of
\* the app that was imported, whether it was imported then or reused, unless the
\* app was rebuilt between the two reads of it.
SubsBelong ==
    calm /\ IsComplete(App) /\ Lib \in conf[App].subs => prog[Lib] = LibOf[prog[App]]

\* Whatever the crashes left behind, trying again brings the store to an
\* up-to-date import: no torn or half-finished state wedges it.
ImportRecovers == []<>UpToDate(App)
=============================================================================
