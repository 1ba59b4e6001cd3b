--------------------------- MODULE PackageContext ---------------------------
(***************************************************************************)
(* FZenPackageContext of src/src/asset_conversion.rs: the packages that    *)
(* others import from are loaded once and shared by all the conversions    *)
(* that run in parallel.                                                   *)
(*                                                                         *)
(* A lookup first searches the cache under the read lock; a miss takes the *)
(* package's own mutex, searches again and loads.  What was learned is put *)
(* under the write lock: the header with its table of public exports, or   *)
(* the package's name among those that failed.  Each region under the      *)
(* inner lock is one action.  The files may change while this runs, so a   *)
(* parse may give any of ExportLists, and a read may fail once and succeed *)
(* the next time.                                                          *)
(*                                                                         *)
(* An import is a package and the hash of one of its public exports.  The  *)
(* exits for a store without versions are left out: a store that has the   *)
(* chunk has a table of contents, and one that has the store entry has a   *)
(* header, so both versions are there.                                     *)
(***************************************************************************)
EXTENDS Naturals, Sequences, FiniteSets

CONSTANTS Threads,      \* conversions in progress
          ImportedPackages,
          Hashes,       \* public export hashes
          Private,      \* the hash of an export that is not public
          ExportLists,  \* what the export map of a parsed package may hold
          Inferable,    \* imports whose name and hash alone identify the object
          Misnamed,     \* imports whose package calls itself something else
          NoThread, NoHeader, Failed,
          MaxLookups    \* bound: imports resolved

ASSUME MaxLookupsIsNat == MaxLookups \in Nat
ASSUME ExportListsAreSequences ==
    /\ ExportLists \subseteq Seq(Hashes \cup {Private})
    /\ Private \notin Hashes
ASSUME SomethingToImport == ImportedPackages # {} /\ Hashes # {}
ASSUME NoneOfThem ==
    /\ NoThread \notin Threads
    /\ NoHeader \notin ExportLists
    /\ Failed \notin ExportLists
    /\ NoHeader # Failed

VARIABLES
    package_headers_cache,   \* package -> the shared header, or NoHeader
    public_export_indices,   \* package -> hash -> index, or NoHeader
    packages_failed_load,
    package_lookup_locks,    \* package -> the thread inside, or NoThread
    pc,
    import,                  \* thread -> the import it resolves
    header,                  \* thread -> the header it was given, or NoHeader
    lookups,                 \* imports resolved so far
    answers                  \* history: what each resolution answered

inner_state == <<package_headers_cache, public_export_indices, packages_failed_load>>
contextVars == <<inner_state, package_lookup_locks, pc, import, header, lookups, answers>>

Imports == [package : ImportedPackages, hash : Hashes]
Package(t) == import[t].package

\* A variant of FirstMatches in which a later export replaces an earlier one.
LastMatches(exports) ==
    [h \in {exports[i] : i \in DOMAIN exports} \ {Private} |->
        CHOOSE i \in DOMAIN exports :
            /\ exports[i] = h
            /\ \A j \in DOMAIN exports : exports[j] = h => j <= i]

\* The table of public exports: for a hash, the first export that has it.
FirstMatches(exports) ==
    [h \in {exports[i] : i \in DOMAIN exports} \ {Private} |->
        CHOOSE i \in DOMAIN exports :
            /\ exports[i] = h
            /\ \A j \in DOMAIN exports : exports[j] = h => i <= j]

\* infer_top_level_package_import: the import's own metadata must do.
Infer(p, h) == IF <<p, h>> \in Inferable THEN <<"inferred">> ELSE <<"error">>

ContextInit ==
    /\ package_headers_cache = [p \in ImportedPackages |-> NoHeader]
    /\ public_export_indices = [p \in ImportedPackages |-> NoHeader]
    /\ packages_failed_load = {}
    /\ package_lookup_locks = [p \in ImportedPackages |-> NoThread]
    /\ pc = [t \in Threads |-> "idle"]
    /\ import = [t \in Threads |-> CHOOSE i \in Imports : TRUE]
    /\ header = [t \in Threads |-> NoHeader]
    /\ lookups = 0
    /\ answers = {}

Goto(t, label) == pc' = [pc EXCEPT ![t] = label]

-----------------------------------------------------------------------------
(* lookup                                                                  *)

Start(t, i) ==
    /\ pc[t] = "idle"
    /\ lookups < MaxLookups
    /\ lookups' = lookups + 1
    /\ import' = [import EXCEPT ![t] = i]
    /\ header' = [header EXCEPT ![t] = NoHeader]
    /\ Goto(t, "searching")
    /\ UNCHANGED <<inner_state, package_lookup_locks, answers>>

\* try_lookup finds the header, before or after the lock was taken.
Found(t) ==
    /\ pc[t] \in {"searching", "locked"}
    /\ package_headers_cache[Package(t)] # NoHeader
    /\ header' = [header EXCEPT ![t] = package_headers_cache[Package(t)]]
    /\ Goto(t, IF pc[t] = "locked" THEN "unlocking" ELSE "resolving")
    /\ UNCHANGED <<inner_state, package_lookup_locks, import, lookups, answers>>

\* A variant of KnownToFail that waits for the package to get better.
WaitsForBetter(t) ==
    /\ pc[t] \in {"searching", "locked"}
    /\ package_headers_cache[Package(t)] = NoHeader
    /\ Package(t) \in packages_failed_load
    /\ package_lookup_locks' = IF pc[t] = "locked"
                               THEN [package_lookup_locks EXCEPT ![Package(t)] = NoThread]
                               ELSE package_lookup_locks
    /\ Goto(t, "waiting")
    /\ UNCHANGED <<inner_state, import, header, lookups, answers>>

\* try_lookup finds the package among those that failed.
KnownToFail(t) ==
    /\ pc[t] \in {"searching", "locked"}
    /\ package_headers_cache[Package(t)] = NoHeader
    /\ Package(t) \in packages_failed_load
    /\ Goto(t, IF pc[t] = "locked" THEN "unlocking" ELSE "resolving")
    /\ UNCHANGED <<inner_state, package_lookup_locks, import, header, lookups, answers>>

Missing(t) ==
    /\ package_headers_cache[Package(t)] = NoHeader
    /\ Package(t) \notin packages_failed_load

\* try_lookup finds neither: the thread goes for the package's mutex.
Miss(t) ==
    /\ pc[t] = "searching"
    /\ Missing(t)
    /\ Goto(t, "waiting")
    /\ UNCHANGED <<inner_state, package_lookup_locks, import, header, lookups, answers>>

\* A variant of Lock with a mutex that is not shared.
LockOwn(t) ==
    /\ pc[t] = "waiting"
    /\ package_lookup_locks' = [package_lookup_locks EXCEPT ![Package(t)] = t]
    /\ Goto(t, "locked")
    /\ UNCHANGED <<inner_state, import, header, lookups, answers>>

Lock(t) ==
    /\ pc[t] = "waiting"
    /\ package_lookup_locks[Package(t)] = NoThread
    /\ package_lookup_locks' = [package_lookup_locks EXCEPT ![Package(t)] = t]
    /\ Goto(t, "locked")
    /\ UNCHANGED <<inner_state, import, header, lookups, answers>>

\* Still neither: the chunk and the store entry are read from the store.
Load(t) ==
    /\ pc[t] = "locked"
    /\ Missing(t)
    /\ Goto(t, "reading")
    /\ UNCHANGED <<inner_state, package_lookup_locks, import, header, lookups, answers>>

\* A variant of LoadFails that returns the error and remembers nothing.
LoadFailsUnmarked(t) ==
    /\ pc[t] = "reading"
    /\ Goto(t, "unlocking")
    /\ UNCHANGED <<inner_state, package_lookup_locks, import, header, lookups, answers>>

\* The chunk, the store entry or the header in the chunk is no good.
LoadFails(t) ==
    /\ pc[t] = "reading"
    /\ packages_failed_load' = packages_failed_load \cup {Package(t)}
    /\ Goto(t, "unlocking")
    /\ UNCHANGED <<package_headers_cache, public_export_indices, package_lookup_locks, import,
                   header, lookups, answers>>

\* FZenPackageHeader::deserialize gives the header.
Parse(t) ==
    /\ pc[t] = "reading"
    /\ \E exports \in ExportLists : header' = [header EXCEPT ![t] = exports]
    /\ Goto(t, "parsed")
    /\ UNCHANGED <<inner_state, package_lookup_locks, import, lookups, answers>>

\* The table and the header go in under one write lock.
Publish(t) ==
    /\ pc[t] = "parsed"
    /\ public_export_indices' =
        [public_export_indices EXCEPT ![Package(t)] = FirstMatches(header[t])]
    /\ package_headers_cache' = [package_headers_cache EXCEPT ![Package(t)] = header[t]]
    /\ Goto(t, "unlocking")
    /\ UNCHANGED <<packages_failed_load, package_lookup_locks, import, header, lookups, answers>>

\* lookup returns, with a header or with an error.
Unlock(t) ==
    /\ pc[t] = "unlocking"
    /\ package_lookup_locks' = [package_lookup_locks EXCEPT ![Package(t)] = NoThread]
    /\ Goto(t, "resolving")
    /\ UNCHANGED <<inner_state, import, header, lookups, answers>>

-----------------------------------------------------------------------------
(* resolve_package_import_internal_new, after the lookup                   *)

Answered(t, a) ==
    /\ answers' = answers \cup {[package |-> Package(t), hash |-> import[t].hash, answer |-> a]}
    /\ Goto(t, "idle")
    /\ UNCHANGED <<inner_state, package_lookup_locks, import, header, lookups>>

\* The dependency is not available.
ResolveWithout(t) ==
    /\ pc[t] = "resolving"
    /\ header[t] = NoHeader
    /\ Answered(t, Infer(Package(t), import[t].hash))

\* The package there is not the one the import names.
NameMismatch(t) ==
    /\ pc[t] = "resolving"
    /\ header[t] # NoHeader
    /\ <<Package(t), import[t].hash>> \in Misnamed
    /\ Answered(t, <<"error">>)

\* The table is read under the lock again, the export from the header in hand.
ResolveExport(t) ==
    /\ pc[t] = "resolving"
    /\ header[t] # NoHeader
    /\ <<Package(t), import[t].hash>> \notin Misnamed
    /\ import[t].hash \in DOMAIN public_export_indices[Package(t)]
    /\ Answered(t, <<"export", public_export_indices[Package(t)][import[t].hash]>>)

ExportNotThere(t) ==
    /\ pc[t] = "resolving"
    /\ header[t] # NoHeader
    /\ <<Package(t), import[t].hash>> \notin Misnamed
    /\ import[t].hash \notin DOMAIN public_export_indices[Package(t)]
    /\ Answered(t, Infer(Package(t), import[t].hash))

-----------------------------------------------------------------------------
Finished ==
    /\ lookups = MaxLookups
    /\ \A t \in Threads : pc[t] = "idle"
    /\ UNCHANGED contextVars

ThreadStep(t) ==
    \/ Found(t) \/ KnownToFail(t) \/ Miss(t) \/ Lock(t) \/ Load(t) \/ LoadFails(t)
    \/ Parse(t) \/ Publish(t) \/ Unlock(t)
    \/ ResolveWithout(t) \/ NameMismatch(t) \/ ResolveExport(t) \/ ExportNotThere(t)

ContextNext ==
    \/ \E t \in Threads : ThreadStep(t) \/ \E i \in Imports : Start(t, i)
    \/ Finished

\* A running thread is scheduled; a mutex that stays free is taken.
ContextSpec == ContextInit /\ [][ContextNext]_contextVars /\ \A t \in Threads : WF_contextVars(ThreadStep(t))

-----------------------------------------------------------------------------
(* Properties                                                              *)


ContextTypeOK ==
    /\ package_headers_cache \in [ImportedPackages -> ExportLists \cup {NoHeader}]
    /\ DOMAIN public_export_indices = ImportedPackages
    /\ \A p \in ImportedPackages : public_export_indices[p] # NoHeader =>
            DOMAIN public_export_indices[p] \subseteq Hashes
    /\ packages_failed_load \subseteq ImportedPackages
    /\ package_lookup_locks \in [ImportedPackages -> Threads \cup {NoThread}]
    /\ pc \in [Threads -> {"idle", "searching", "waiting", "locked", "reading", "parsed",
                           "unlocking", "resolving"}]
    /\ import \in [Threads -> Imports]
    /\ header \in [Threads -> ExportLists \cup {NoHeader}]
    /\ lookups \in 0..MaxLookups
    /\ \A a \in answers : a.package \in ImportedPackages /\ a.hash \in Hashes

Inside(t) == pc[t] \in {"locked", "reading", "parsed", "unlocking"}

\* The mutex of a package keeps all but one thread out of the load.
OneLoaderPerPackage ==
    \A t, u \in Threads : Inside(t) /\ Inside(u) /\ t # u => Package(t) # Package(u)

\* A thread that goes on to resolve with a header has the one everybody
\* shares, so the index it then reads from the shared table, in a later
\* critical section, is an index into the export map it has in hand.
HeaderInHandIsShared ==
    \A t \in Threads :
        pc[t] = "resolving" /\ header[t] # NoHeader =>
            /\ header[t] = package_headers_cache[Package(t)]
            /\ public_export_indices[Package(t)] = FirstMatches(header[t])

\* Two conversions that import the same object are told the same, whichever
\* came first and whatever happened to the files in between.
AnswersAgree ==
    \A a, b \in answers : a.package = b.package /\ a.hash = b.hash => a.answer = b.answer

\* No package is both shared and given up.
LoadedOrFailed ==
    \A p \in packages_failed_load : package_headers_cache[p] = NoHeader

\* What is decided about a package answers every import of it: the first
\* export with the hash, as a linear search finds it, unless the package is not
\* the one that the import names.
AnswerFrom(p, h, o) ==
    IF o # Failed /\ <<p, h>> \in Misnamed THEN <<"error">>
    ELSE IF o # Failed /\ \E i \in DOMAIN o : o[i] = h
    THEN <<"export", CHOOSE i \in DOMAIN o : o[i] = h /\ \A j \in DOMAIN o : o[j] = h => i <= j>>
    ELSE Infer(p, h)

Outcome(p) ==
    IF p \in packages_failed_load THEN Failed ELSE package_headers_cache[p]

\* The context decides each package once and answers from the decision.
Abstract == INSTANCE ResolveOnce WITH
    Packages <- ImportedPackages, Headers <- ExportLists, Undecided <- NoHeader,
    Answer <- AnswerFrom, outcome <- [p \in ImportedPackages |-> Outcome(p)]

DecidesOnce == Abstract!ResolveSpec

\* Whoever asks for a package gets its answer: the mutexes block nobody for
\* good.
EveryImportIsAnswered == \A t \in Threads : pc[t] # "idle" ~> pc[t] = "idle"
=============================================================================
