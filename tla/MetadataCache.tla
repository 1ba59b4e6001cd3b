--------------------------- MODULE MetadataCache ---------------------------
(***************************************************************************)
(* IoStoreContainer::open and METADATA_CACHE in src/src/iostore.rs: the    *)
(* parsed table of contents, container header and script objects of the    *)
(* game's own containers are kept across runs of the tool in one process.  *)
(*                                                                         *)
(* An entry may be used only while the two files are those it was parsed   *)
(* from.  The files are updated by others at any moment, one of the pair   *)
(* after the other, and several threads open containers at once.  A key is *)
(* made from file stamps read one after the other, before any lock; the    *)
(* mutex is held for the lookup and for the insertion, each one action.    *)
(*                                                                         *)
(* A parse is represented by what was read for it: versions of the files   *)
(* (its first and its last part, which differ if the file was rewritten    *)
(* under it) and the read configuration.  Whether a header parses is a     *)
(* function of those, so "no header" is one more value of that record.     *)
(***************************************************************************)
EXTENDS Naturals, Sequences, FiniteSets, SequencesExt

CONSTANTS Threads,      \* threads that open containers
          Paths,        \* containers, by canonical path
          Cacheable,    \* those named global or pakchunk*
          Configs,      \* AES keys and header version override: read_config
          Capacity,     \* entries the cache holds (2)
          NoKey,        \* metadata_cache_key is None
          NoObjects,    \* an empty OnceLock
          MaxOpens,     \* bound: containers opened
          MaxUpdates    \* bound: updates of a file

ASSUME CapacityPositive == Capacity \in Nat \ {0}
ASSUME CacheableArePaths == Cacheable \subseteq Paths
ASSUME MaxUpdatesIsNat == MaxUpdates \in Nat
ASSUME MaxOpensIsNat == MaxOpens \in Nat

VARIABLES
    toc_file, cas_file,  \* path -> the version of its .utoc, of its .ucas
    updates,             \* updates so far
    cache,       \* METADATA_CACHE, least recently used first
    recent,      \* history: the key of the entry used or inserted last
    cells,       \* serial number -> the OnceLock made by that open
    opens,       \* containers opened so far
    pc,          \* what each thread does
    request,     \* path and configuration it opens, with its serial number
    start,       \* history: the files as they were when the open started
    key,         \* cache_key
    toc, header, \* the parse it made, or took from the cache
    cell,        \* whose OnceLock it holds
    handle,      \* the version its open .ucas handle shows
    objects      \* what load_script_objects gave

files == <<toc_file, cas_file, updates>>
shared == <<cache, recent, cells>>
locals == <<pc, request, start, key, toc, header, cell, handle, objects>>
vars == <<files, shared, opens, locals>>

Versions == 0..MaxUpdates
Serials == 1..MaxOpens
Keys == [path : Paths, config : Configs, toc : Versions, cas : Versions]

ASSUME NoKeyIsNone == NoKey \notin Keys /\ NoKey \notin Versions

Stamp(p) == <<toc_file[p], cas_file[p]>>
Path(t) == request[t].path
Config(t) == request[t].config

Key(p, c, tocStamp, casStamp) == [path |-> p, config |-> c, toc |-> tocStamp, cas |-> casStamp]

Init ==
    /\ toc_file = [p \in Paths |-> 0]
    /\ cas_file = [p \in Paths |-> 0]
    /\ updates = 0
    /\ cache = <<>>
    /\ recent = NoKey
    /\ cells = [n \in Serials |-> NoObjects]
    /\ opens = 0
    /\ pc = [t \in Threads |-> "idle"]
    /\ request = [t \in Threads |-> NoKey]
    /\ start = [t \in Threads |-> <<0, 0>>]
    /\ key = [t \in Threads |-> NoKey]
    /\ toc = [t \in Threads |-> NoKey]
    /\ header = [t \in Threads |-> NoKey]
    /\ cell = [t \in Threads |-> 0]
    /\ handle = [t \in Threads |-> NoKey]
    /\ objects = [t \in Threads |-> NoObjects]

Goto(t, label) == pc' = [pc EXCEPT ![t] = label]

\* The thread has no container: it never had, open() failed or it dropped it.
Leave(t) ==
    /\ Goto(t, "idle")
    /\ request' = [request EXCEPT ![t] = NoKey]
    /\ start' = [start EXCEPT ![t] = <<0, 0>>]
    /\ key' = [key EXCEPT ![t] = NoKey]
    /\ toc' = [toc EXCEPT ![t] = NoKey]
    /\ header' = [header EXCEPT ![t] = NoKey]
    /\ cell' = [cell EXCEPT ![t] = 0]
    /\ handle' = [handle EXCEPT ![t] = NoKey]
    /\ objects' = [objects EXCEPT ![t] = NoObjects]

-----------------------------------------------------------------------------
(* The game is updated: each write gives a file a stamp it never had.      *)

UpdateToc(p) ==
    /\ updates < MaxUpdates
    /\ updates' = updates + 1
    /\ toc_file' = [toc_file EXCEPT ![p] = @ + 1]
    /\ UNCHANGED <<cas_file, shared, opens, locals>>

UpdateCas(p) ==
    /\ updates < MaxUpdates
    /\ updates' = updates + 1
    /\ cas_file' = [cas_file EXCEPT ![p] = @ + 1]
    /\ UNCHANGED <<toc_file, shared, opens, locals>>

-----------------------------------------------------------------------------
(* IoStoreContainer::open                                                  *)

\* metadata_cache_key begins: the name is looked at, the .utoc stamp taken.
Open(t, p, c) ==
    /\ pc[t] = "idle"
    /\ opens < MaxOpens
    /\ opens' = opens + 1
    /\ request' = [request EXCEPT ![t] = [path |-> p, config |-> c, serial |-> opens + 1]]
    /\ start' = [start EXCEPT ![t] = Stamp(p)]
    /\ IF p \in Cacheable
       THEN /\ key' = [key EXCEPT ![t] = Key(p, c, toc_file[p], 0)]
            /\ Goto(t, "stamping")
       ELSE /\ key' = [key EXCEPT ![t] = NoKey]
            /\ Goto(t, "parsing")
    /\ UNCHANGED <<files, shared, toc, header, cell, handle, objects>>

\* A variant of StampCas that leaves the .ucas out of the key.
StampTocOnly(t) ==
    /\ pc[t] = "stamping"
    /\ Goto(t, "looking")
    /\ UNCHANGED <<files, shared, opens, request, start, key, toc, header, cell, handle,
                   objects>>

\* The .ucas stamp completes the key.
StampCas(t) ==
    /\ pc[t] = "stamping"
    /\ key' = [key EXCEPT ![t].cas = cas_file[Path(t)]]
    /\ Goto(t, "looking")
    /\ UNCHANGED <<files, shared, opens, request, start, toc, header, cell, handle, objects>>

\* A file's metadata cannot be read: there is no key, and no caching.
StampFails(t) ==
    /\ pc[t] = "stamping"
    /\ key' = [key EXCEPT ![t] = NoKey]
    /\ Goto(t, "parsing")
    /\ UNCHANGED <<files, shared, opens, request, start, toc, header, cell, handle, objects>>

\* The entry's metadata is shared and the .ucas opened, or that fails.
TakeFrom(t, entry) ==
    \/ /\ toc' = [toc EXCEPT ![t] = entry.toc]
       /\ header' = [header EXCEPT ![t] = entry.header]
       /\ cell' = [cell EXCEPT ![t] = entry.cell]
       /\ Goto(t, "opened")
       /\ UNCHANGED <<request, start, key, handle, objects>>
    \/ Leave(t)

\* A variant of Hit that does not move the entry to the back.
HitInPlace(t) ==
    /\ pc[t] = "looking"
    /\ \E i \in DOMAIN cache :
        /\ cache[i].key = key[t]
        /\ TakeFrom(t, cache[i])
    /\ recent' = key[t]
    /\ UNCHANGED <<files, cache, cells, opens>>

\* An entry has this key: it becomes the most recent one and is used.
Hit(t) ==
    /\ pc[t] = "looking"
    /\ \E i \in DOMAIN cache :
        /\ cache[i].key = key[t]
        /\ cache' = Append(RemoveAt(cache, i), cache[i])
        /\ TakeFrom(t, cache[i])
    /\ recent' = key[t]
    /\ UNCHANGED <<files, cells, opens>>

Miss(t) ==
    /\ pc[t] = "looking"
    /\ \A i \in DOMAIN cache : cache[i].key # key[t]
    /\ Goto(t, "parsing")
    /\ UNCHANGED <<files, shared, opens, request, start, key, toc, header, cell, handle,
                   objects>>

\* Toc::deserialize: its first reads...
ParseToc(t) ==
    /\ pc[t] = "parsing"
    /\ toc' = [toc EXCEPT ![t] =
                [path |-> Path(t), config |-> Config(t),
                 first |-> toc_file[Path(t)], last |-> toc_file[Path(t)]]]
    /\ Goto(t, "parsed")
    /\ UNCHANGED <<files, shared, opens, request, start, key, header, cell, handle, objects>>

\* ... and its last: those of the file as it is now if it was rewritten in place.
FinishToc(t) ==
    /\ pc[t] = "parsed"
    /\ toc' \in {toc, [toc EXCEPT ![t].last = toc_file[Path(t)]]}
    /\ Goto(t, "reading")
    /\ UNCHANGED <<files, shared, opens, request, start, key, header, cell, handle, objects>>

\* FilePool::new, and the ContainerHeader chunk through the parsed table.
ReadHeader(t) ==
    /\ pc[t] = "reading"
    /\ handle' = [handle EXCEPT ![t] = cas_file[Path(t)]]
    /\ header' = [header EXCEPT ![t] = [toc |-> toc[t], cas |-> cas_file[Path(t)]]]
    /\ cell' = [cell EXCEPT ![t] = request[t].serial]
    /\ Goto(t, IF key[t] = NoKey THEN "opened" ELSE "checking")
    /\ UNCHANGED <<files, shared, opens, request, start, key, toc, objects>>

\* The .utoc or .ucas cannot be opened, parsed or read.
OpenFails(t) ==
    /\ pc[t] \in {"parsing", "parsed", "reading"}
    /\ Leave(t)
    /\ UNCHANGED <<files, shared, opens>>

\* A variant of Recheck that inserts the entry unchecked.
RecheckNothing(t) ==
    /\ pc[t] = "checking"
    /\ Goto(t, "checking2")
    /\ UNCHANGED <<files, shared, opens, request, start, key, toc, header, cell, handle,
                   objects>>

\* The key is made again, stamp by stamp, and must not have changed; a stamp that
\* cannot be read counts as a change.
Recheck(t) ==
    /\ pc[t] = "checking"
    /\ \/ toc_file[Path(t)] = key[t].toc /\ Goto(t, "checking2")
       \/ Goto(t, "opened")
    /\ UNCHANGED <<files, shared, opens, request, start, key, toc, header, cell, handle,
                   objects>>

RecheckCas(t) ==
    /\ pc[t] = "checking2"
    /\ \/ cas_file[Path(t)] = key[t].cas /\ Goto(t, "inserting")
       \/ Goto(t, "opened")
    /\ UNCHANGED <<files, shared, opens, request, start, key, toc, header, cell, handle,
                   objects>>

Entry(t) == [key |-> key[t], toc |-> toc[t], header |-> header[t], cell |-> cell[t]]

\* The cache without the path's entry; retain() would remove several, but there is
\* never more than one (OneEntryPerPath).
Without(path) ==
    IF \E i \in DOMAIN cache : cache[i].key.path = path
    THEN RemoveAt(cache, CHOOSE i \in DOMAIN cache : cache[i].key.path = path)
    ELSE cache

\* The oldest entries go until there are fewer than n.
FewerThan(n, entries) ==
    IF Len(entries) < n THEN entries
    ELSE SubSeq(entries, Len(entries) - n + 2, Len(entries))

\* What the path had before goes, then the oldest entries until one more fits.
Insert(t) ==
    /\ pc[t] = "inserting"
    /\ cache' = Append(FewerThan(Capacity, Without(key[t].path)), Entry(t))
    /\ recent' = key[t]
    /\ Goto(t, "opened")
    /\ UNCHANGED <<files, cells, opens, request, start, key, toc, header, cell, handle,
                   objects>>

-----------------------------------------------------------------------------
(* load_script_objects of an opened container                              *)

\* The shared OnceLock is set.
ObjectsThere(t) ==
    /\ pc[t] = "opened"
    /\ cells[cell[t]] # NoObjects
    /\ objects' = [objects EXCEPT ![t] = cells[cell[t]]]
    /\ Goto(t, "loaded")
    /\ UNCHANGED <<files, shared, opens, request, start, key, toc, header, cell, handle>>

\* It is not: the chunk is read, through the handle the container has open (which
\* shows the file it was opened on, or that file rewritten) or through a new one.
ReadObjects(t) ==
    /\ pc[t] = "opened"
    /\ cells[cell[t]] = NoObjects
    /\ \E v \in {cas_file[Path(t)], handle[t]} \ {NoKey} :
        objects' = [objects EXCEPT ![t] = [toc |-> toc[t], cas |-> v]]
    /\ Goto(t, "setting")
    /\ UNCHANGED <<files, shared, opens, request, start, key, toc, header, cell, handle>>

\* OnceLock::set: only the first one counts; the caller keeps its own objects.
SetObjects(t) ==
    /\ pc[t] = "setting"
    /\ cells' = [cells EXCEPT ![cell[t]] = IF @ = NoObjects THEN objects[t] ELSE @]
    /\ Goto(t, "loaded")
    /\ UNCHANGED <<files, cache, recent, opens, request, start, key, toc, header, cell,
                   handle, objects>>

\* The container is dropped.
Drop(t) ==
    /\ pc[t] \in {"opened", "loaded"}
    /\ Leave(t)
    /\ UNCHANGED <<files, shared, opens>>

Opening(t) ==
    \/ \E p \in Paths, c \in Configs : Open(t, p, c)
    \/ StampCas(t) \/ StampFails(t) \/ Hit(t) \/ Miss(t)
    \/ ParseToc(t) \/ FinishToc(t) \/ ReadHeader(t) \/ OpenFails(t)
    \/ Recheck(t) \/ RecheckCas(t) \/ Insert(t)

Using(t) == ObjectsThere(t) \/ ReadObjects(t) \/ SetObjects(t) \/ Drop(t)

Exhausted ==
    /\ opens = MaxOpens
    /\ \A t \in Threads : pc[t] = "idle"
    /\ UNCHANGED vars

Next ==
    \/ \E p \in Paths : UpdateToc(p) \/ UpdateCas(p)
    \/ \E t \in Threads : Opening(t) \/ Using(t)
    \/ Exhausted

Spec == Init /\ [][Next]_vars

-----------------------------------------------------------------------------
Labels == {"idle", "stamping", "looking", "parsing", "parsed", "reading", "checking",
           "checking2", "inserting", "opened", "setting", "loaded"}
Tocs == [path : Paths, config : Configs, first : Versions, last : Versions]
Headers == [toc : Tocs, cas : Versions]
Entries == [key : Keys, toc : Tocs, header : Headers, cell : Serials]
Requests == [path : Paths, config : Configs, serial : Serials]

TypeOK ==
    /\ toc_file \in [Paths -> Versions] /\ cas_file \in [Paths -> Versions]
    /\ cache \in Seq(Entries) /\ Len(cache) <= Capacity
    /\ recent \in Keys \cup {NoKey}
    /\ cells \in [Serials -> Headers \cup {NoObjects}]
    /\ opens \in 0..MaxOpens
    /\ pc \in [Threads -> Labels]
    /\ request \in [Threads -> Requests \cup {NoKey}]
    /\ key \in [Threads -> Keys \cup {NoKey}]
    /\ toc \in [Threads -> Tocs \cup {NoKey}]
    /\ header \in [Threads -> Headers \cup {NoKey}]
    /\ cell \in [Threads -> Serials \cup {0}]
    /\ handle \in [Threads -> Versions \cup {NoKey}]
    /\ objects \in [Threads -> Headers \cup {NoObjects}]

\* The parse of files with these versions, and a chunk read through it.
Parse(p, c, v) == [path |-> p, config |-> c, first |-> v, last |-> v]
ReadThrough(p, c, stamps) == [toc |-> Parse(p, c, stamps[1]), cas |-> stamps[2]]

\* "Do not cache a file that changed while it was being parsed": what an entry
\* holds was read, whole, from the files its key names and with the configuration
\* it names, although the stamps, the parse and the lock come one after the other
\* and the files may change between any two of them.
EntriesMatchTheirKeys ==
    \A i \in DOMAIN cache :
        LET k == cache[i].key
        IN  cache[i].header = ReadThrough(k.path, k.config, <<k.toc, k.cas>>)
            /\ cache[i].toc = cache[i].header.toc

\* A container opened while its files did not change is what those files say under
\* the configuration asked for, wherever the metadata came from, and so are the
\* script objects it gives, whichever container read them into the shared cell.
OpenIsFresh ==
    \A t \in Threads :
        pc[t] \in {"opened", "setting", "loaded"} /\ start[t] = Stamp(Path(t)) =>
            LET now == ReadThrough(Path(t), Config(t), start[t])
            IN  /\ toc[t] = now.toc
                /\ header[t] = now
                /\ pc[t] # "opened" => objects[t] = now

\* A path has one entry, however many threads missed it at once, with whatever
\* configurations: it cannot push the other container out with copies of itself.
OneEntryPerPath ==
    \A i, j \in DOMAIN cache : cache[i].key.path = cache[j].key.path => i = j

\* The container used last is not the one that makes room for a new one, so that
\* alternating between two containers and a third keeps the one in use.
LastUsedSurvives ==
    [][\A i \in DOMAIN cache : cache[i].key = recent =>
        \E j \in DOMAIN cache' : cache'[j].key.path = recent.path]_vars
=============================================================================
