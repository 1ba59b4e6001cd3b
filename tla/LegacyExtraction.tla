-------------------------- MODULE LegacyExtraction --------------------------
(***************************************************************************)
(* action_to_legacy_batch of src/src/lib.rs: packages of an opened         *)
(* composite store are converted to loose files, item after item.  An item *)
(* names the containers it wants, or none for all of them; its packages    *)
(* are converted in parallel, each from the container that listed it, and  *)
(* each conversion writes its files one by one.  A package that fails is   *)
(* counted and the others go on; anything else ends the whole batch.       *)
(*                                                                         *)
(* What a file holds is the sequence of containers its bytes came from.    *)
(* How a package's imports are answered is the matter of PackageContext: a *)
(* conversion here works or fails.                                         *)
(***************************************************************************)
EXTENDS CompositeStore

CONSTANTS Workers,   \* rayon threads; one of them without parallelism
          Items,     \* for each item, the containers of its inputs
          NoTask,
          Cut        \* the content of a file that was not written to its end

\* Listings of packages.
Tasks == [id : Packages, container : Containers]

\* Without items there is only the store to be opened.
ASSUME SomeItems == Items \in Seq(SUBSET Containers) /\ Items # <<>>
ASSUME NoTaskIsNone == NoTask \notin [source : Tasks, file : 1..4]
ASSUME CutIsNoContainer == Cut \notin Containers

VARIABLES
    optional,  \* container -> packages whose optional bulk data it has
    unmounted, \* containers whose paths are not below ../../../
    item,      \* the item in work
    phase,     \* "scanning", "converting", "shaders", "done" or "failed"
    todo,      \* packages_to_extract, what is left of it
    tasks,     \* history: packages_to_extract
    task,      \* worker -> the package it converts, with its next file
    failed,    \* failed_count
    files      \* item -> package -> extension -> what was written

given == <<optional, unmounted>>
vars == <<storeVars, given, item, phase, todo, tasks, task, failed, files>>

Exts == <<"uasset", "uexp", "ubulk", "uptnl">>
NoFile == <<>>
CutFile == <<Cut>>

Init ==
    /\ InitStore
    /\ optional \in [Containers -> SUBSET Packages]
    /\ unmounted \in SUBSET Containers
    /\ item = 1
    /\ phase = "scanning"
    /\ todo = {} /\ tasks = {}
    /\ task = [w \in Workers |-> NoTask]
    /\ failed = 0
    /\ files = [i \in DOMAIN Items |-> [p \in Packages |-> [e \in ToSet(Exts) |-> NoFile]]]

OpenBatch ==
    /\ OpenStore
    /\ UNCHANGED <<given, item, phase, todo, tasks, task, failed, files>>

\* What the item asks for: each package once, or whatever its containers list.
Listing(names) ==
    IF names = {} THEN ToSet(UniquePackages)
    ELSE {l \in ToSet(PackagesAll) : l.container \in names}

Scan ==
    /\ Ready /\ phase = "scanning"
    /\ tasks' = Listing(Items[item])
    /\ todo' = tasks'
    /\ failed' = 0
    /\ phase' = "converting"
    /\ UNCHANGED <<storeVars, given, item, task, files>>

\* A package listed by the item has no path: that ends it all.
ScanFails ==
    /\ Ready /\ phase = "scanning"
    /\ Listing(Items[item]) # {}
    /\ phase' = "failed"
    /\ UNCHANGED <<storeVars, given, item, todo, tasks, task, failed, files>>

\* A worker starts with a package; a path outside the mount point ends it all.
Take(w) ==
    /\ phase = "converting"
    /\ task[w] = NoTask
    /\ \E t \in todo :
        /\ todo' = todo \ {t}
        /\ IF t.container \in unmounted
           THEN phase' = "failed" /\ UNCHANGED task
           ELSE /\ task' = [task EXCEPT ![w] = [source |-> t, file |-> 1]]
                /\ UNCHANGED phase
    /\ UNCHANGED <<storeVars, given, item, tasks, failed, files>>

\* A variant of ConvertFails that does not count.
FailsUncounted(w) ==
    /\ task[w] # NoTask
    /\ task[w].file = 1
    /\ task' = [task EXCEPT ![w] = NoTask]
    /\ UNCHANGED <<storeVars, given, item, phase, todo, tasks, failed, files>>

\* build_asset_from_zen or serialize_asset fails: nothing is written.
ConvertFails(w) ==
    /\ task[w] # NoTask
    /\ task[w].file = 1
    /\ failed' = failed + 1
    /\ task' = [task EXCEPT ![w] = NoTask]
    /\ UNCHANGED <<storeVars, given, item, phase, todo, tasks, files>>

\* The optional bulk data is read from every container that has some; the
\* other files come from the container that listed the package.
Contents(source, ext) ==
    IF ext = "uptnl"
    THEN KeepAt(containers, {i \in DOMAIN containers : source.id \in optional[containers[i]]})
    ELSE <<source.container>>

\* The worker goes on to its next file, or is done with the package.
Advance(w) ==
    task' = IF task[w].file = Len(Exts) THEN [task EXCEPT ![w] = NoTask]
                                        ELSE [task EXCEPT ![w].file = @ + 1]

\* A variant of Write that takes everything from the container in use.
WriteFromWinner(w) ==
    /\ task[w] # NoTask
    /\ files' = [files EXCEPT ![item][task[w].source.id][Exts[task[w].file]] =
                    Contents([task[w].source EXCEPT !.container = ReadFrom(task[w].source.id)],
                             Exts[task[w].file])]
    /\ Advance(w)
    /\ UNCHANGED <<storeVars, given, item, phase, todo, tasks, failed>>

\* write_asset: the next file is written over whatever was there.
Write(w) ==
    /\ task[w] # NoTask
    /\ files' = [files EXCEPT ![item][task[w].source.id][Exts[task[w].file]] =
                    Contents(task[w].source, Exts[task[w].file])]
    /\ Advance(w)
    /\ UNCHANGED <<storeVars, given, item, phase, todo, tasks, failed>>

\* Writing fails and leaves a cut file behind.
WriteFails(w) ==
    /\ task[w] # NoTask
    /\ files' = [files EXCEPT ![item][task[w].source.id][Exts[task[w].file]] = CutFile]
    /\ failed' = failed + 1
    /\ task' = [task EXCEPT ![w] = NoTask]
    /\ UNCHANGED <<storeVars, given, item, phase, todo, tasks>>

\* par_iter returns when all its packages are through.
Converted ==
    /\ phase = "converting"
    /\ todo = {}
    /\ \A w \in Workers : task[w] = NoTask
    /\ phase' = "shaders"
    /\ UNCHANGED <<storeVars, given, item, todo, tasks, task, failed, files>>

\* A variant of Shaders that stays with the item.
ShadersRepeat ==
    /\ phase = "shaders"
    /\ phase' = "scanning"
    /\ UNCHANGED <<storeVars, given, item, todo, tasks, task, failed, files>>

\* action_to_legacy_shaders: the first library that fails ends the batch.
Shaders ==
    /\ phase = "shaders"
    /\ \/ phase' = "failed" /\ UNCHANGED item
       \/ IF item = Len(Items)
          THEN phase' = "done" /\ UNCHANGED item
          ELSE phase' = "scanning" /\ item' = item + 1
    /\ UNCHANGED <<storeVars, given, todo, tasks, task, failed, files>>

Ended ==
    /\ store = "refused" \/ (phase \in {"done", "failed"} /\ \A w \in Workers : task[w] = NoTask)
    /\ UNCHANGED vars

Work(w) == Take(w) \/ ConvertFails(w) \/ Write(w) \/ WriteFails(w)
Main == OpenBatch \/ Scan \/ ScanFails \/ Converted \/ Shaders

Next == Main \/ (\E w \in Workers : Work(w)) \/ Ended

\* The caller and every rayon worker keep running.
Spec == Init /\ [][Next]_vars /\ WF_vars(Main) /\ \A w \in Workers : WF_vars(Work(w))

-----------------------------------------------------------------------------
(* Properties                                                              *)

TypeOK ==
    /\ StoreTypeOK
    /\ item \in DOMAIN Items
    /\ phase \in {"scanning", "converting", "shaders", "done", "failed"}
    /\ todo \subseteq tasks
    /\ \A w \in Workers : task[w] # NoTask => task[w].source \in tasks \ todo
    /\ failed \in 0..Cardinality(tasks)

\* No package of the item is listed by two of the containers it names.
NoOverlap == \A s, t \in tasks : s.id = t.id => s = t

Complete(t) ==
    \A e \in ToSet(Exts) : files[item][t.id][e] = Contents(t, e)

\* The count the item reports is the number of packages whose files are all
\* there, each from the container that listed the package: no conversion is
\* lost, counted twice or mixed with another.
ReportIsTrue ==
    /\ TypeOK
    /\ phase = "shaders" /\ NoOverlap =>
           Cardinality(tasks) - failed = Cardinality({t \in tasks : Complete(t)})

\* Without a filter, a package is extracted once, from the container whose
\* store entry is the one in use; with a filter, from a container it names,
\* whatever overrides that one.
ExtractsWhatWasAsked ==
    \A p \in Packages, i \in DOMAIN Items :
        LET asset == files[i][p]["uasset"]
        IN  asset \notin {NoFile, CutFile} =>
                IF Items[i] = {} THEN asset = <<StoreEntryFrom(p)>> ELSE asset[1] \in Items[i]

\* Every batch comes to its end.
BatchEnds == <>(store = "refused" \/ phase \in {"done", "failed"})
=============================================================================
