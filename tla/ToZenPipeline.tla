--------------------------- MODULE ToZenPipeline ---------------------------
(***************************************************************************)
(* action_to_zen in src/src/lib.rs: the assets of a mod are converted in   *)
(* parallel on the rayon pool and handed, through a channel of capacity 0, *)
(* to the calling thread, which alone owns the IoStoreWriter.              *)
(*                                                                         *)
(* An asset has bulk data or none: that stands for each of the three files *)
(* .ubulk, .uptnl and .m.ubulk, which are read if they are there and       *)
(* written under chunk types of their own.                                 *)
(*                                                                         *)
(* A container for a new engine takes each asset as it comes: package      *)
(* data, then bulk data.  A UE4 container (needs_asset_import_fixup) takes *)
(* the bulk data as it comes, and the package data only when every asset   *)
(* has been converted, since an asset's import arcs name export bundles of *)
(* other assets.                                                           *)
(*                                                                         *)
(* Every step that can return Err does in some behaviours.  Two input      *)
(* files may hold the same package.                                        *)
(***************************************************************************)
EXTENDS Naturals, Sequences, FiniteSets, SequencesExt

CONSTANTS Assets,      \* the asset files to convert
          Workers,     \* the threads of the rayon pool
          PackageOf,   \* the package each asset holds
          Imports,     \* the packages each asset has import arcs to
          External,    \* an import that no converted asset satisfies (-1)
          NoAsset      \* nothing in hand

\* An asset with an arc to its own package would wait for the read lock of a
\* bundle whose write lock it holds; cooked assets have none.
ASSUME NoSelfImport == \A a \in Assets : PackageOf[a] \notin Imports[a]
ASSUME AssetsAreFinite == IsFiniteSet(Assets)
ASSUME NoAssetIsNone == NoAsset \notin Assets

VARIABLES
    fixup,           \* needs_asset_import_fixup
    hasBulk,         \* the assets that come with bulk data
    active,          \* the threads that convert: one with --no-parallel
    todo,            \* assets no thread has picked
    worker, carried, \* what each thread does, and with which asset
    stop,            \* some asset failed: try_for_each picks no more
    tx, rx,          \* the two ends of the channel: "open" or "dropped"
    consumer, inHand,  \* what the calling thread does, and with which asset
    converted_lookup,  \* package -> its asset, the last one received
    all_converted,   \* the assets received, in order
    cursor,          \* how far the passes over all_converted have come
    resolved,        \* asset -> import -> the asset its arcs were resolved by
    packageData,     \* the chunks written with package data: the asset of each
    bulkData,        \* those with bulk data
    failures,        \* history: the calls that returned Err
    outcome          \* what action_to_zen returned: "running", "ok", "err"

jobVars == <<fixup, hasBulk, active>>
producerVars == <<todo, worker, carried, stop>>
consumerVars == <<consumer, inHand, converted_lookup, all_converted, cursor,
                  resolved, packageData, bulkData>>
vars == <<jobVars, producerVars, tx, rx, consumerVars, failures, outcome>>

Packages == {PackageOf[a] : a \in Assets}

Init ==
    /\ fixup \in BOOLEAN
    /\ hasBulk \in SUBSET Assets
    /\ active \in {Workers} \cup {{w} : w \in Workers}
    /\ todo = Assets
    /\ worker = [w \in Workers |-> "idle"]
    /\ carried = [w \in Workers |-> NoAsset]
    /\ stop = FALSE
    /\ tx = "open"
    /\ rx = "open"
    /\ consumer = "shaders"
    /\ inHand = NoAsset
    /\ converted_lookup = [p \in Packages |-> NoAsset]
    /\ all_converted = <<>>
    /\ cursor = 0
    /\ resolved = [a \in Assets |-> <<>>]
    /\ packageData = <<>>
    /\ bulkData = <<>>
    /\ failures = {}
    /\ outcome = "running"

Fails(call) == failures' = failures \cup {call}

-----------------------------------------------------------------------------
(* The calling thread, before the scope: shader libraries.                 *)

ConvertShaders ==
    /\ consumer = "shaders"
    /\ outcome = "running"
    /\ \/ consumer' = "receiving" /\ UNCHANGED <<failures, outcome>>
       \/ Fails("shaders") /\ outcome' = "err" /\ UNCHANGED consumer
    /\ UNCHANGED <<jobVars, producerVars, tx, rx, inHand, converted_lookup,
                   all_converted, cursor, resolved, packageData, bulkData>>

-----------------------------------------------------------------------------
(* The pool: process_assets.                                               *)

\* try_for_each gives a thread its next asset, unless one has failed.
Pick(w, a) ==
    /\ consumer # "shaders"
    /\ w \in active
    /\ worker[w] = "idle"
    /\ a \in todo
    /\ ~stop
    /\ todo' = todo \ {a}
    /\ worker' = [worker EXCEPT ![w] = "converting"]
    /\ carried' = [carried EXCEPT ![w] = a]
    /\ UNCHANGED <<jobVars, stop, tx, rx, consumerVars, failures, outcome>>

\* The asset is read, perhaps ported, and built; tx.send blocks.
Built(w) ==
    /\ worker[w] = "converting"
    /\ worker' = [worker EXCEPT ![w] = "sending"]
    /\ UNCHANGED <<jobVars, todo, carried, stop, tx, rx, consumerVars, failures,
                   outcome>>

\* The closure returns Err: its asset is gone and no thread picks another.
GiveUp(w) ==
    /\ worker' = [worker EXCEPT ![w] = "idle"]
    /\ carried' = [carried EXCEPT ![w] = NoAsset]
    /\ stop' = TRUE
    /\ UNCHANGED <<jobVars, todo, tx, rx, consumerVars, outcome>>

ConversionFails(w) ==
    /\ worker[w] = "converting"
    /\ GiveUp(w)
    /\ Fails("convert")

\* The receiver is gone: send returns Err, and so does the closure.
SendFails(w) ==
    /\ worker[w] = "sending"
    /\ rx = "dropped"
    /\ GiveUp(w)
    /\ Fails("send")

\* Variants of PoolEnds: one that leaves tx open, one that swallows the error.
PoolEndsKeepsSender ==
    /\ consumer # "shaders"
    /\ tx = "open"
    /\ \A w \in active : worker[w] = "idle"
    /\ todo = {} \/ stop
    /\ UNCHANGED vars
PoolEndsSwallowsError ==
    /\ consumer # "shaders"
    /\ tx = "open"
    /\ \A w \in active : worker[w] = "idle"
    /\ todo = {} \/ stop
    /\ tx' = "dropped"
    /\ stop' = FALSE
    /\ UNCHANGED <<jobVars, todo, worker, carried, rx, consumerVars, failures,
                   outcome>>

\* try_for_each returns; process_assets owns tx and drops it.
PoolEnds ==
    /\ consumer # "shaders"
    /\ tx = "open"
    /\ \A w \in active : worker[w] = "idle"
    /\ todo = {} \/ stop
    /\ tx' = "dropped"
    /\ UNCHANGED <<jobVars, producerVars, rx, consumerVars, failures, outcome>>

-----------------------------------------------------------------------------
(* The calling thread, inside the scope.                                   *)

\* The rendezvous: a blocked send meets the receive of `for converted in rx`.
Receive(w) ==
    /\ consumer = "receiving"
    /\ worker[w] = "sending"
    /\ inHand' = carried[w]
    /\ consumer' = "storing"
    /\ worker' = [worker EXCEPT ![w] = "idle"]
    /\ carried' = [carried EXCEPT ![w] = NoAsset]
    /\ UNCHANGED <<jobVars, todo, stop, tx, rx, converted_lookup, all_converted,
                   cursor, resolved, packageData, bulkData, failures, outcome>>

\* write_and_release_bulk_data: nothing is written for an asset without.
WriteBulk(a) == bulkData' = IF a \in hasBulk THEN Append(bulkData, a) ELSE bulkData

\* converted.write: package data first, then bulk data.
StoreWhole ==
    /\ consumer = "storing"
    /\ ~fixup
    /\ packageData' = Append(packageData, inHand)
    /\ WriteBulk(inHand)
    /\ consumer' = "receiving"
    /\ inHand' = NoAsset
    /\ UNCHANGED <<jobVars, producerVars, tx, rx, converted_lookup,
                   all_converted, cursor, resolved, failures, outcome>>

\* A variant of StoreBulk that keeps the first asset of a package in the lookup.
StoreBulkKeepsFirst ==
    /\ consumer = "storing"
    /\ fixup
    /\ WriteBulk(inHand)
    /\ converted_lookup' = [converted_lookup EXCEPT ![PackageOf[inHand]] =
                                IF @ = NoAsset THEN inHand ELSE @]
    /\ all_converted' = Append(all_converted, inHand)
    /\ consumer' = "receiving"
    /\ inHand' = NoAsset
    /\ UNCHANGED <<jobVars, producerVars, tx, rx, cursor, resolved,
                   packageData, failures, outcome>>

\* write_and_release_bulk_data, then the asset joins the lookup and the list.
StoreBulk ==
    /\ consumer = "storing"
    /\ fixup
    /\ WriteBulk(inHand)
    /\ converted_lookup' = [converted_lookup EXCEPT ![PackageOf[inHand]] = inHand]
    /\ all_converted' = Append(all_converted, inHand)
    /\ consumer' = "receiving"
    /\ inHand' = NoAsset
    /\ UNCHANGED <<jobVars, producerVars, tx, rx, cursor, resolved,
                   packageData, failures, outcome>>

\* An Err in the body of the scope leaves it and drops the receiver.
BodyFails ==
    /\ consumer' = "failed"
    /\ rx' = "dropped"
    /\ inHand' = NoAsset
    /\ UNCHANGED <<jobVars, producerVars, tx, converted_lookup, all_converted,
                   cursor, resolved, outcome>>

\* A chunk cannot be written: package data, which is first without fixup, or bulk
\* data, if there is any.
StoreFails ==
    /\ consumer = "storing"
    /\ BodyFails
    /\ Fails("store")
    /\ \/ ~fixup /\ UNCHANGED packageData
       \/ ~fixup /\ inHand \in hasBulk /\ packageData' = Append(packageData, inHand)
       \/ fixup /\ inHand \in hasBulk /\ UNCHANGED packageData
    /\ UNCHANGED bulkData

\* The sender is gone and nothing is in flight: the loop over rx ends.
Drained ==
    /\ consumer = "receiving"
    /\ tx = "dropped"
    /\ rx' = "dropped"
    /\ consumer' = IF fixup THEN "fixing" ELSE "returned"
    /\ UNCHANGED <<jobVars, producerVars, tx, inHand, converted_lookup,
                   all_converted, cursor, resolved, packageData, bulkData, failures, outcome>>

Resolve(p) ==
    IF p \notin Packages \/ converted_lookup[p] = NoAsset THEN External
    ELSE converted_lookup[p]

\* fixup_legacy_external_arcs of the next asset.
FixNext ==
    /\ consumer = "fixing"
    /\ cursor < Len(all_converted)
    /\ LET a == all_converted[cursor + 1]
       IN  resolved' = [resolved EXCEPT ![a] = [p \in Imports[a] |-> Resolve(p)]]
    /\ cursor' = cursor + 1
    /\ UNCHANGED <<jobVars, producerVars, tx, rx, consumer, inHand,
                   converted_lookup, all_converted, packageData, bulkData, failures, outcome>>

\* An arc has no fixup data, or the imported package has no such export.
FixFails ==
    /\ consumer = "fixing"
    /\ cursor < Len(all_converted)
    /\ BodyFails
    /\ Fails("fixup")
    /\ UNCHANGED <<packageData, bulkData>>

AllFixed ==
    /\ consumer = "fixing"
    /\ cursor = Len(all_converted)
    /\ consumer' = "writing"
    /\ cursor' = 0
    /\ UNCHANGED <<jobVars, producerVars, tx, rx, inHand, converted_lookup,
                   all_converted, resolved, packageData, bulkData, failures, outcome>>

\* A variant of WriteNext that goes through the list from its end.
WriteNextBackwards ==
    /\ consumer = "writing"
    /\ cursor < Len(all_converted)
    /\ packageData' = Append(packageData, all_converted[Len(all_converted) - cursor])
    /\ cursor' = cursor + 1
    /\ UNCHANGED <<jobVars, producerVars, tx, rx, consumer, inHand,
                   converted_lookup, all_converted, resolved, bulkData, failures, outcome>>

\* write_package_data of the next asset.
WriteNext ==
    /\ consumer = "writing"
    /\ cursor < Len(all_converted)
    /\ packageData' = Append(packageData, all_converted[cursor + 1])
    /\ cursor' = cursor + 1
    /\ UNCHANGED <<jobVars, producerVars, tx, rx, consumer, inHand,
                   converted_lookup, all_converted, resolved, bulkData, failures, outcome>>

WriteFails ==
    /\ consumer = "writing"
    /\ cursor < Len(all_converted)
    /\ BodyFails
    /\ Fails("write")
    /\ UNCHANGED <<packageData, bulkData>>

AllWritten ==
    /\ consumer = "writing"
    /\ cursor = Len(all_converted)
    /\ consumer' = "returned"
    /\ UNCHANGED <<jobVars, producerVars, tx, rx, inHand, converted_lookup,
                   all_converted, cursor, resolved, packageData, bulkData, failures, outcome>>

\* The scope waits for the pool; then the body's error, the pool's error, and
\* that of finalize() are returned in this order, and Ok if there is none.
Return ==
    /\ consumer \in {"returned", "failed"}
    /\ tx = "dropped"
    /\ outcome = "running"
    /\ IF consumer = "failed" \/ stop
       THEN outcome' = "err" /\ UNCHANGED failures
       ELSE \/ outcome' = "ok" /\ UNCHANGED failures
            \/ outcome' = "err" /\ Fails("finalize")
    /\ UNCHANGED <<jobVars, producerVars, tx, rx, consumerVars>>

Pool(w) ==
    \/ \E a \in Assets : Pick(w, a)
    \/ Built(w) \/ ConversionFails(w) \/ SendFails(w)

Caller ==
    \/ ConvertShaders \/ \E w \in Workers : Receive(w)
    \/ StoreWhole \/ StoreBulk \/ StoreFails \/ Drained
    \/ FixNext \/ FixFails \/ AllFixed \/ WriteNext \/ WriteFails \/ AllWritten
    \/ Return

Done == outcome # "running" /\ UNCHANGED vars

Next == (\E w \in Workers : Pool(w)) \/ PoolEnds \/ Caller \/ Done

\* Pool threads and the calling thread are scheduled; the calling thread is not
\* one of the pool's.
Fairness == (\A w \in Workers : WF_vars(Pool(w))) /\ WF_vars(PoolEnds) /\ WF_vars(Caller)

Spec == Init /\ [][Next]_vars /\ Fairness

-----------------------------------------------------------------------------
Consumers == {"shaders", "receiving", "storing", "fixing", "writing", "returned",
              "failed"}

TypeOK ==
    /\ fixup \in BOOLEAN
    /\ hasBulk \in SUBSET Assets
    /\ active \in SUBSET Workers
    /\ todo \in SUBSET Assets
    /\ worker \in [Workers -> {"idle", "converting", "sending"}]
    /\ carried \in [Workers -> Assets \cup {NoAsset}]
    /\ stop \in BOOLEAN
    /\ tx \in {"open", "dropped"} /\ rx \in {"open", "dropped"}
    /\ consumer \in Consumers
    /\ inHand \in Assets \cup {NoAsset}
    /\ converted_lookup \in [Packages -> Assets \cup {NoAsset}]
    /\ cursor \in 0..Cardinality(Assets)
    /\ outcome \in {"running", "ok", "err"}
    /\ consumer = "storing" <=> inHand # NoAsset
    /\ \A w \in Workers : worker[w] = "idle" <=> carried[w] = NoAsset

\* The assets the calling thread has stored, in the order in which they came.
Received == IF fixup THEN all_converted ELSE packageData

Times(a, s) == Cardinality({i \in DOMAIN s : s[i] = a})

\* No asset vanishes between the threads: until an error, each is in exactly one
\* place, still to do, with one thread, in the caller's hand, or stored; nothing is
\* stored twice.
AssetsConserved ==
    LET places(a) == (IF a \in todo THEN 1 ELSE 0)
                     + Cardinality({w \in Workers : carried[w] = a})
                     + (IF inHand = a THEN 1 ELSE 0)
                     + Times(a, Received)
    IN  \A a \in Assets :
            /\ failures = {} => places(a) = 1
            /\ places(a) <= 1

\* On the way no asset is lost or stored twice, and success is never reported over
\* an error: "ok" is returned only if no call of any thread has failed, and then
\* every asset's package data is in the container once, and its bulk data if it has
\* any.
OkMeansComplete ==
    /\ TypeOK
    /\ AssetsConserved
    /\ outcome = "ok" =>
        /\ failures = {}
        /\ \A a \in Assets :
            /\ Times(a, packageData) = 1
            /\ Times(a, bulkData) = IF a \in hasBulk THEN 1 ELSE 0

\* The last of the assets that is one of those wanted, if any is.
LastOf(assets, wanted) ==
    IF \A i \in DOMAIN assets : assets[i] \notin wanted THEN NoAsset
    ELSE assets[CHOOSE i \in DOMAIN assets :
            /\ assets[i] \in wanted
            /\ \A j \in DOMAIN assets : assets[j] \in wanted => j <= i]

\* The inputs that hold the package.  Their chunks have the same ids; a reader of
\* the container gets the one written last.
Holders(p) == {a \in Assets : PackageOf[a] = p}

\* Import arcs point into the package that will be read: an import of a package of
\* this mod is never taken for an external one, whatever the order in which the
\* assets came, and where two inputs hold that package it was resolved against the
\* one whose data a reader gets.
ArcsMatchWhatIsRead ==
    outcome = "ok" /\ fixup =>
        \A a \in Assets : \A p \in Imports[a] :
            resolved[a][p] = IF p \in Packages THEN LastOf(packageData, Holders(p))
                             ELSE External

\* Of the inputs that hold one package, a reader gets the package data of the last,
\* and with it the bulk data of the last that has any: never that of an earlier
\* input, or none, when the one whose package data it reads has bulk data too.
BulkFollowsPackageData ==
    outcome = "ok" =>
        \A p \in Packages :
            LastOf(bulkData, Holders(p)) = LastOf(packageData, Holders(p) \cap hasBulk)

\* The conversion always ends, with no thread left waiting on the channel: whoever
\* fails first, the caller, a thread, or none.
AlwaysReturns == <>(outcome # "running" /\ \A w \in Workers : worker[w] = "idle")
=============================================================================
