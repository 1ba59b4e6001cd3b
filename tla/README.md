# retoc-rivals in TLA+

Models of `retoc`, a tool that reads, writes and converts Unreal Engine containers, wherever its correctness
depends on order or agreement: threads, failures, files that change, tables and offsets that must fit each other.
TLC checks every module on small instances; TLAPS proves the most important properties for every value of the
constants. Paths are relative to the repository; a bare file name is one in `src/src/`.

## The program

`retoc` handles IoStore containers (`.utoc` table of contents, `.ucas` data) and converts between *Zen* packages, as
containers hold them, and *legacy* assets, as `.pak` files do.

| Component | State | Operations | What makes it right |
|---|---|---|---|
| File pool `file_pool.rs` | deque of idle handles, count of opened ones, waiters | `acquire`, drop of a handle | no handle shared or leaked, no reader left asleep |
| Container writer `iostore_writer.rs` | `.ucas` offset, block table, chunk table, directory index, container header | `write_chunk*`, `write_package_chunk`, `finalize` | what is read back is what was written; tables agree on duplicates |
| Table of contents `lib.rs` (`Toc`) | the tables, `chunk_id_map`, file maps | parse, serialize, `read` | as above |
| Repacker `iostore_repack.rs` | staged bundle, block table overwritten in place, backups | `repack_iostore`, `publish` | payload preserved; originals never lost |
| Metadata cache `iostore.rs` | two entries, a `OnceLock` of script objects per entry | `IoStoreContainer::open`, `load_script_objects` | metadata of an updated file is never served |
| Composite store `iostore.rs` | containers by priority | open a directory, read, look up, list | what overrides follows the names; data and entry of a package agree |
| Zen pipeline `lib.rs` (`action_to_zen`) | assets to do, a channel of capacity 0, converted assets | convert, send, receive, fix up, write | no asset lost; `Ok` only when complete; always ends |
| Load order `zen_asset_conversion.rs` | edge counts, heap, order | `sort_dependencies_in_load_order` | dependencies first; error only for a cycle |
| Building Zen packages `zen_asset_conversion.rs` | import and export maps, bundles, arcs, dependency lists | `build_zen_*` | references, data and order of loading are those of the legacy package |
| Package context `asset_conversion.rs` | header cache, failed packages, a lock per package | `lookup`, import resolution | each package decided once; all conversions told the same |
| Building legacy assets `asset_conversion.rs` | import map, permutation, dependency lists | `build_asset_from_zen` | imports stay where the data expects them; the order of loading survives |
| Legacy extraction `lib.rs` (`action_to_legacy*`) | items, packages to do, files, a count of failures | list, convert in parallel, write, report | the count is true; files of the containers asked for; always ends |
| Container header `container_header.rs` | store entries, localized packages, redirects | `add_*`, `ser`, `deserialize` | a header read back is the header written |
| Package headers `legacy_asset.rs`, `zen.rs`, `version_heuristics.rs` | summary and sections, patched offsets | serialize, deserialize, guess the version | as above, in every version |
| Shader libraries `shader_library.rs` | groups, a shared index list; a channel, regions of a file | to a container, from a container, layout | no shader lost; preload entries cover their maps |
| KawaiiPhysics port, logging, commands, build script | | | not modelled, see below |

How they meet: the commands in `lib.rs` open containers through the composite store, which opens each one through
the metadata cache and gives it a file pool; every chunk read takes a handle from that pool and decodes blocks as
`Toc::read` does. `action_to_zen` drives the Zen conversion on the rayon pool and owns the only container writer.
`action_to_legacy` drives the conversion to legacy on the rayon pool over a store and a package context that the
conversions share, then extracts shader libraries. The repacker converts nothing: it reads and writes blocks.

The hard behaviour: condition variables, mutexes per package, bounded and rendezvous channels; file stamps read
before a lock and used under it; errors in the middle of multi-step operations; several tables updated for one
chunk; headers patched after they were written and read in versions they do not record; renumbering of imports.
`PROJECT.json` lists the hazards at their lines.

## Modules

| Module | Models | Run | Proofs |
|---|---|---|---|
| `FilePool`, `HandleLending` (abstract) | `file_pool.rs`; a handle is lent to one thread at a time | `file_pool` | `FilePoolProofs` |
| `CasCodec`, `IoStoreWriter` | blocks to bytes and back, `Toc::read`; `iostore_writer.rs` | `iostore_writer` | `CasCodecProofs`, `IoStoreWriterProofs` |
| `RepackBlocks`, `RepackPublish`, `Repack`, `BundleSwap` (abstract) | the block loop, `publish` with its rollback, the two in sequence; old bundle, then new bundle | `repack` | `CasCodecProofs`, `RepackProofs` |
| `ToZenPipeline` | `action_to_zen` with `ConvertedZenAssetBundle` | `to_zen` | `ToZenProofs` |
| `MetadataCache` | `IoStoreContainer::open`, `METADATA_CACHE`, `load_script_objects` | `metadata_cache` | `MetadataCacheProofs` |
| `LoadOrder` | `build_zen_preload_dependencies`, `sort_dependencies_in_load_order` | `load_order` | `ToZenProofs` |
| `PackageContext`, `ResolveOnce` (abstract) | `FZenPackageContext`; a package is decided once | `package_context` | `ToLegacyProofs` |
| `CompositeStore`, `LegacyExtraction` | `IoStoreBackend`; `action_to_legacy_batch` over it | `legacy_extraction` | `ToLegacyProofs` |
| `ContainerHeader`, `LegacyHeader`, `ZenHeader`, `ByteStream`, `Headers` | the three headers; a file of items of known sizes; the three side by side | `headers`, `legacy_header_version` | |
| `ZenPackage`, `LegacyPackage`, `PackageRoundTrip` | legacy to Zen, Zen to legacy, one after the other | `package_round_trip` | |
| `ShaderArchive`, `ShaderLayout`, `ShaderLibraries` | a library into a container and back; the layout of a library file; the two in sequence | `shaders` | `ToLegacyProofs` (the layout) |

Each `MC…` module only gives values to constants and chooses initial states. A definition that a comment calls a
*variant* of another is the same step with a mistake in it, such as a plausible bug would make: put in the other's
place, it breaks the property that is about it, which shows that the property can be broken. No specification uses
one.

### FilePool

A thread is `idle`, `parked` on the condition variable, `woken` (notified or spuriously) or `holding`. Each region of
code under the mutex is one action: `PopAvailable`, `OpenNew`, `OpenFails` and `Park` are the branches of one turn of
the loop in `acquire`; `DropHandle` puts the handle back and notifies in one step, as `Drop` does. A woken thread
competes with every new caller, so the handle it was woken for may be gone. `MaxReads` bounds the reads of a thread.

### CasCodec, IoStoreWriter

A byte is a record: a raw value, byte *i* of the compressed image of a block under a method, or byte *i* of the
encrypted image of a group of `AesBlock` bytes under a key. Reading from a wrong place, with a wrong length, method or
key yields garbage or an error, never the data by accident. Block size and AES size are 4 and 2 instead of 131072 and
16, so that contents of up to six bytes show every case: empty, below a group, not a multiple of one, compressible,
incompressible, more than a block. `OffsetLimit` stands for 2^40; it is small enough for offsets to be cut.
`WriteChunk`, `WritePackageChunk` and `WriteFails` (which leaves what the code leaves, after any number of blocks)
come in any order, then `Finalize`.

### RepackBlocks, RepackPublish, Repack

Inputs of the block loop are all containers `BuildContainer` makes: any form per block, in or out of order, with
gaps, or cut by a byte; one action per turn of the loop. `RepackPublish` has one action per file operation, each with
its failing twin, in the order of the code: for each extension back up, then place; after a failure remove what was
placed and restore what was moved, in reverse. `target`, `backup` and `staged` are the files; `backups` and
`published` are the vectors. The `TempDir` is dropped at the end of `publish`, before the caller has the result:
`DropFile` deletes one file of the staging directory, backups included, and `Returned` is the end of the drop, which
may leave files that cannot be deleted. `Repack` runs the one after the other; an error before `publish` drops the
staging directory in the same way, and the process may be killed between any two steps of all this. `BundleSwap` sees
of each file what can be recovered: the new bundle if all of it is at the destination, else the original, there or in
the staging directory. The one step from old to new is the last `PlaceStaged`.

### ToZenPipeline

The pool's threads pick, build and send assets; the calling thread receives and writes. `Receive` is the rendezvous of
a blocked `send` with the loop over `rx`. `fixup` is `needs_asset_import_fixup`: bulk data is written as assets come,
package data only after all arcs are resolved. `hasBulk` are the assets that come with bulk data; of one without, no bulk
chunk is written (`WriteBulk`), nor can writing one fail. Every call that returns `Result` fails in some behaviour, and adds its
name to `failures`. `stop` is rayon's short circuit: the assets being converted still finish. `PoolEnds` drops the
sender, an error in the caller's body drops the receiver.

### MetadataCache

`toc_file` and `cas_file` are versions that only grow; a stamp is a version. The key is made in two steps, of which the
first is part of `Open`. A parse records what it was made from, and is itself two reads, so that a file rewritten in
place under it is seen. `Hit`, `Miss` and `Insert` are the regions under the mutex. `cells` are the `OnceLock`s: shared
by an entry and every container made from it. `ReadObjects` may read through the handle the container has or a new one.

### LoadOrder

The graph's edges are a set: two equal preload dependencies count twice in `incoming_edge_count` and are discharged in
the same turn of the loop, so multiplicity does not show. `Before` is `ZenExportGraphNode::cmp`, read for the maximum
of a max-heap.

### PackageContext

A thread resolves an import: a package and the hash of one of its public exports. `Found`, `KnownToFail`, `Miss`, `Load`,
`LoadFails` and `Publish` are the regions under the read or write lock of the inner state; `Lock` and `Unlock` are the
package's own mutex. Reads may fail once and succeed later, and a parse may give any export map, as if files changed; the
context must not show it. A resolution ends in one of four ways: by guessing
without a header (`ResolveWithout`), because the package found has another name than the import says (`NameMismatch`),
with an export, or because there is none of that hash. `ResolveExport` looks the hash up in the shared table, in a critical
section of its own, and takes the export from the header the thread has in hand. `ResolveOnce` promises one decision per package and
answers that follow from it.

### CompositeStore, LegacyExtraction

Containers are opened in every order a directory may list them, refused if versions differ, and sorted by priority.
A name is its patch suffix and the rank of its base name; the suffix is a number modulo `Width`, standing for 2^32.
A header that is missing or does not parse leaves a container that has chunks and knows no package. `LegacyExtraction`
runs items over the store: `Scan` lists the packages of the containers an item names, or ends the batch when one of
them has no path (`ScanFails`); `Take` and `Write` convert them
in parallel, each of the files of an asset in its own step, `ConvertFails` and `WriteFails` count, `Shaders` ends the
item. A file's contents is the sequence of containers its bytes came from.

### ContainerHeader, LegacyHeader, ZenHeader

All three write front to back and patch offsets afterwards. `ContainerHeader` lays entries and arrays out word by word
and reads them back through the relative offsets. An old header begins with its container id, which may look like the
magic number and version of a later one: `AfterMagic` are such ids, with the version the reader then takes them to say,
if it is one. `ByteStream`, used by the other two, is a file of items of known
sizes: writing destroys what it overlaps, and reading succeeds only where an item of the size asked for starts, so an
offset that is not patched, patched by the wrong shift or derived from the wrong section gives garbage. The versions
are those the code knows an engine for. `Headers` lets a behaviour be about one of the three.

### ZenPackage, LegacyPackage, PackageRoundTrip

Objects are chains of names from their package inwards, of which the program makes hashes; indices are those of the
format (0 null, *k* an export, -*k* an import). `ZenPackage` maps imports and exports, builds bundles with arcs (UE4
and UE5.0 to 5.2) or dependency lists (from 5.3), and copies the data in bundle order. The order of loading comes
from `sort_dependencies_in_load_order`, here as an operator that takes the most urgent node in turn. `LegacyPackage`
resolves and appends imports, an action for each kind, and permutes them back; an object whose class or script object
cannot be resolved is `lost`, and so is what is inside it. Imports with the name of the tag plugin anywhere in their
path become references to the engine's own classes (`Tagged`). `PackageRoundTrip` composes the two and
states what the engine would see; which other packages are at hand, streamed ahead or converted along is chosen freely.

### ShaderArchive, ShaderLayout, ShaderLibraries

`ShaderArchive` groups shaders by the maps that use them, divides large groups, extends the shared index list and
writes groups, compressed where that is smaller; then reads all back. `ShaderLayout` is the producer, the workers
(`parallel_map_scoped` of `pariter`: any may finish first, results come in order) and the consumer that writes in order, connected by a
bounded channel. `ShaderLayout` begins with any library whose maps list shaders that are there (`LayoutSpec`);
`ShaderLibraries` hands it what was read, and `LayoutSound` says that this is such a library.

## Runs

| Run | Bounds | Shows |
|---|---|---|
| `file_pool` | 4 threads, 2 handles, 3 reads each | `HandlesConserved`, `NoLostWakeup`, implements `HandleLending` (`LendsHandles`), `EveryReadEnds`. Four threads let one be parked, one woken and one overtake it while a fourth holds. |
| `iostore_writer` | 3 chunks before the header, 2 ids, 2 paths, one method, one key | `BlocksTileCas`, `ReadsBackWhatWasWritten`, `PackageAndStoreEntryAgree`, `PathsLeadToTheirChunk`. Three writes are enough for a duplicate with a stranger before, between or after. |
| `repack` | 2 chunks of at most 2 blocks, 2 methods, lists of 0 to 2 methods; one bundle over every destination of 3 files | `PublishedReadsBack`, `RewrittenInPlace`, `OriginalsSurvive`, `RestoredMeansUntouched`, implements `BundleSwap` (`SwapsAtomically`). A method may be at another index in the new list, or not in it; three files is the most the code has. The staging directory is dropped in every order of its files, up to any of them. All but one bundle are published over an empty destination, since what is in the files does not change how they are moved. |
| `to_zen` | 3 assets in 2 packages, each with bulk data or without, 2 threads or 1 | `OkMeansComplete`, `ArcsMatchWhatIsRead`, `BulkFollowsPackageData`, `AlwaysReturns`. Three assets on two threads: one can fail while another is sent and a third is still to do. |
| `metadata_cache` | either 2 threads, 1 container, 3 opens, 2 updates, or 3 game containers and a mod, 2 configurations, 4 opens one after another | `EntriesMatchTheirKeys`, `OpenIsFresh`, `LastUsedSurvives`. Two updates suffice for one file of the pair to change after the other, or twice; four opens to fill two entries, evict one and come back. |
| `load_order` | 3 exports (6 nodes), all public sets, all sets of up to 3 preload edges | `TopologicalOrder`, `ErrorMeansCycle`, `LateOnlyIfForced`. Three edges make cycles through several exports. |
| `package_context` | 3 threads, 2 packages, 2 hashes, 2 export maps, 3 lookups | `OneLoaderPerPackage`, `AnswersAgree`, implements `ResolveOnce` (`DecidesOnce`), `EveryImportIsAnswered`. Three lookups: one loads, one waits for it, one comes later and finds files changed. |
| `legacy_extraction` | 4 containers (global, game, patch, mod), 2 packages, 2 workers, 2 items | `OverrideWins`, `StoreIsConsistent`, `ReportIsTrue`, `ExtractsWhatWasAsked`, `BatchEnds`. Three instances: stores of every content, header and version listed in every order; a batch that extracts everything and then the mod's; a pair of packages converted in parallel. |
| `headers` | every version the code writes, up to 3 additions to a container header | `ContainerHeaderSurvives`, `LegacyHeaderSurvives`, `ZenHeaderSurvives`. Sections are empty, of one or of more entries; names of even and odd length, so that every padding occurs; readers know the version, are told one, or guess. Three container ids: an ordinary one, and two that begin with the magic number and go on with a version or with none. |
| `package_round_trip` | 3 exports, sets of up to 7 dependencies, header versions 0, 2 and 3 | `AssetSurvives`, `LoadOrderSurvives`. The three versions are the three ways the order of loading is written; one import is the tag plugin's; one object of another package, or a class of the engine, may be lost. |
| `shaders` | 4 shaders, up to 2 maps, groups of 4 bytes, channel of 2, 2 in flight | `ArchiveSurvives`, `LayoutSound`, `LayoutEnds`. Lists are disjoint, overlapping, repeat a shader or leave one out; a channel of two fills up and empties with as few messages as there are. |
| `legacy_header_version` | the legacy packages of `headers` | `VersionIsFound`, which does not hold: see Disagreements. |

A property may be a conjunction of named parts; the modules define and explain the parts. The instances of `metadata_cache` and
`legacy_extraction` are told apart by a constraint (`Instances`), which only leaves out states that belong to none of
them; the threads of the cache are interchangeable (symmetry; no liveness is checked there). Under the constraint of
`legacy_extraction` all behaviours of an item are complete, so `BatchEnds` sees them to their end or to the next item.

Every specification ends in an explicit stuttering step (`Done`, `Exhausted`, `Sorted`, `Ended` and the like) that is
enabled only where the code has returned, so deadlock checking stays on: a state in which everyone waits is an error.

**Fairness.** Weak fairness of threads only; nothing is assumed of who gets a mutex, of whom `notify_one` picks, or of
spurious wakeups.

- `FilePool`: each thread's turn in `acquire`, and dropping a handle: the operating system runs threads, and a borrower
  ends its read.
- `ToZenPipeline`: each pool thread, the end of the pool's task, the calling thread. This holds because the caller is not
  one of the pool's threads (the commands run on the main thread); on a pool of one thread it would not, if the caller
  were that thread.
- `PackageContext`: each thread. A thread that waits for a mutex which others keep taking is not helped by this; it does
  return, because a package is decided by the first of them.
- `LegacyExtraction`: the caller, each worker.
- `ShaderLayout`: the producer, the workers, the consumer, the join.

## Proofs

All for every value of the constants the named assumptions allow.

- `FilePoolProofs`. From `ThreadsFinite`, `MaxHandlesPositive`, `NoHandleIsNone`. The inductive invariant is
  `TypeOK /\ HandlesConserved /\ NoLostWakeup`. `NoLostWakeup` is stated with cardinalities (idle handles <= woken
  threads), because "somebody is coming" is not inductive: a caller may overtake. The heart is `DropHandle`: one
  more idle handle, one more woken thread, or nobody left to wake. `PoolLendsHandles`: the refinement of `HandleLending`.
- `SequenceLemmas`. Lemmas about sequences, without assumptions. `Least`, `Upwards`: a set of numbers has a least one, and
  induction over the members of a set, which is how the proofs reason about the recursive functions in `FlattenSeq` and
  `Offsets`. `FlatHolds`, `FlatOnly`: `FlattenSeq` has every part at its offset, and nothing else has.
  `FlatGathers`: its elements are those of the parts, each once if no part has one twice and no two parts share one.
- `CasCodecProofs`. From the assumptions of `CasCodec`: block and AES sizes are positive and fit. Lemmas about operators, for
  the writer and the repacker. `OffsetsAre`, `OffsetsOnly`: `Offsets` is the one function in which things of given
  sizes follow one another.
  `BlocksAre`: the blocks of a chunk are not empty and joined are the chunk. `Deciphers`: decryption undoes encryption,
  group by group. With these, `LoadsBack` (a stored block loads from wherever its bytes are) and `ChunkReads` (a
  chunk whose blocks load is read).
- `IoStoreWriterProofs`. Adds to these assumptions that contents are sequences, a packed block has at least a byte, and ids of
  packages, other chunks and the header differ. The invariant, `WriterInv`: the block table tiles the `.ucas` (`Tiled`), every chunk
  written has its blocks at consecutive rows, each entry with its bytes before the chunk's end (`ChunkOK`), row *i* of
  every table is of the *i*-th write (`RowsOK`), and the directory index and the store entries lead to the last write of
  their key (`PathsOK`, `PackagesOK`). `ReadsBackWhatWasWritten` speaks of a finished container only and is not inductive;
  `ChunkOK` is what a later write must not disturb, and since both files only grow it does not (`StaysLaidOut`).
- `RepackProofs`. From `OffsetLimitPositive`, `MethodsProper`, `ContentsAreBytes` (chunks are sequences of bytes, and a block
  does not compress to nothing), the assumptions of `CasCodec`, and `CountPositive` for the bundle. Of the loop: an entry that is done
  leads to a piece of the staged `.ucas` that opens, under the new list of methods and the new key, as what the input's
  entry gave (`Leads`), and the pieces tile the file (`TableHalfRewritten`); the rest of the table is the input's. The
  payload is preserved only once every entry leads there, and "opens as before" is compared block by block, also for blocks
  that cannot be read: `PublishedReadsBack` follows since `ReadChunk` looks at blocks through the chunk table, which is kept.
  The base case is that the containers the model starts from are well formed (`InputOK`), in any order of blocks, with gaps,
  cut short. Of `publish`: for each extension, by its place before or after
  `current`, what must be at the target, in the backup and in the staging directory in each phase (`FileInv`), and
  what the two vectors hold (`LoopInv`). `OriginalsSurvive` alone is not inductive, since restoring needs to know that
  the vector and the staging directory agree, and deleting backups that nothing waits in them any more: in `drop_ok` all of the
  bundle is in place, in `drop_err` all originals are. `PublishSwapsAtomically`: the refinement of `BundleSwap`. Of both
  (`RepackInv`): as long as nothing is staged, no file has been touched. With this `RepackSwapsAtomically` has the whole of
  `repack_iostore` implement `BundleSwap`, including the failures that drop the staging directory before `publish`.
- `MetadataCacheProofs`. The invariant adds to `EntriesMatchTheirKeys` what each thread knows at each place
  (`ThreadOK`): versions only grow, so a stamp that is the same at the second look was the same in between, and what
  was read in between is of that version. Lemmas give what `RemoveAt` and `FewerThan` leave of a sequence; from them
  also `OnePathOneEntry`, and `LastUsedIsKept`, which needs room for two entries: with one, an insertion evicts the
  entry used last.
  The second half is `OpensAreFresh`. What a thread has was read from versions between those it
  started from and those of now (`StartOK`, `HeldOK`), so if these are equal all are. Script objects come through a cell
  shared by entries and containers: the invariant is that there is a function from cells to headers which every holder
  of a cell agrees with (`Owners`); the witness changes only when an open makes a new cell, whose number nobody had.
- `ToLegacyProofs`, the package context. From `NoneOfThem`, `ExportListsAreSequences`. The invariant says what a thread inside the
  mutex may rely on: nobody else decides its package (`LoadOK`), and after publishing or failing it has in hand what was
  decided (`DecidedOK`); every answer follows from a decision that stays (`AnswersFollowOutcome`).
  `ContextDecidesOnce`: the refinement of `ResolveOnce`, whose steps are `LoadFails` and `Publish` (decide) and the four
  ways to resolve (reply).
- `ToLegacyProofs`, the store and the batch. From the assumptions of `CompositeStore` and `LegacyExtraction`: containers have names, they
  and the packages are finite, there is an item, and a cut file is no container. Its first half is about operators. A
  stable sort by a strict weak order is a permutation that leaves nothing behind what it precedes (`SortedIs`, from
  `Ranks`: in a strict total order on a finite set the ranks are 1 up to its size); `KeepAt` keeps the places it is
  given, once each (`Kept`); every element of `FlattenSeq` comes from one of the parts, in their order, and every element
  of a part is there (`Flattened`). With these, `StoreInv` (every container once, one version once validated, in order
  once ready) gives `OverrideWins` and `StoreIsConsistent`. The batch's invariant has a witness: the set of failed
  packages, which `failed_count` is the size of, which no worker is at and none of which is complete; the files of a
  package in work are there up to the one that is next, and those of a package not yet taken are not there (`Progress`).
  That half needs that no package of the item is listed twice (`NoOverlap`), the count alone does not.
- `ToLegacyProofs`, the shader layout. From `RoomForOne`: the channel and the workers hold at least one message.
  `PlanIs`: the producer's plan has the message of each shader once, and between the two marks of a map those of
  the shaders only it has. This rests on counting references: a shader counted once is at one place of one map
  (`KindsOfShaders`). The invariant (`LayoutInv`) has a witness, the number of messages consumed: the workers and the
  channel hold those sent after it, in order (`Queued`); the regions noted are those of the shaders before it, and tile
  the file (`CodeWritten`); and the bytes of the shaders only one map has are none before the map's first mark, all of
  the file since `start` between the marks, and what was noted for the map after the second (`Mapped`). None of
  `RegionsTile`, `PreloadCoversMap` and `OkMeansComplete` is inductive without it: a region tells whose code is
  there only because results come in the order they were sent, and a consumer that ended tells that all is written only
  because the producer closes after the last message (`Parties`). The theorem is about `LayoutSpec`, which begins with
  any library; the run has it begin with those read from a container.
- `ToZenProofs`. The pipeline, from `NoSelfImport`, `AssetsAreFinite`, `NoAssetIsNone`. The invariant: an asset is in one place
  (`PlacesOK`) and none is lost before an error (`NoneLost`); what the two ends of the channel, the short circuit and the
  errors say of each other (`EndsOK`); and the order of the chunks in either mode of writing, with the last asset of each
  package in the lookup (`ShapeOK`). `ArcsMatch` and `BulkFollows` need that order and not only the set of chunks, since a
  reader gets the last one of a package. `LastOf`, that a set of positions has a last one, comes from the
  well-foundedness of strict inclusion on finite sets, as `Least` of `SequenceLemmas` does.
  The load order of an asset's exports, from `ExportCountIsNat` and `PreloadsAreEdges`. The invariant: a node's counter is the number of its
  dependencies not in the order yet (`CountersOK`), the heap is the set of nodes with none left (`HeapOK`), and a node
  in the heap that is more urgent than one already taken was waiting for it or a later one (`HeapForced`).
  `FailureIsACycle`: the nodes left out are a set each member of which depends on another.

Model-checked only: liveness, since fairness and ENABLED are beyond the prover; and the modules whose operators fold over the items of a file,
where a proof would be by induction over data: the headers, the round trip, `ShaderArchive`.

## Disagreements found

- `version_heuristics.rs:145` reads the header into `Vec::with_capacity(header_size)`, a vector with room and no length, so
  that `read_exact` reads nothing and every trial fails. The comment on the versions tried says the "first version to
  read the full header size and not overflow is the presumed package version". Run `legacy_header_version`.

Met while modelling, without a run of their own:

- `asset_conversion.rs:382` joins the optional bulk data of a package from all containers that have some; the message at
  line 399 speaks of the selected source container. `LegacyExtraction` does what the code does (`Contents`).
- `asset_conversion.rs:1552` adds a missing super class to serialize-before-serialize; the comment at line 1535 says create
  before create. The order of loading is kept, which is what `LoadOrderSurvives` asks.
- `container_header.rs:91` rebuilds the set of localized packages from the redirects, not from the list read. It only
  serves a writer, which a reader never becomes.
- `shader_library.rs:1162` divides a group into a number of parts taken from its size; a part of large shaders can exceed
  the limit the comment at line 1146 speaks of.
- `shader_library.rs:1227` subtracts the length of a group from that of the index list. Shaders of no map can make a group
  longer than the list: the program stops, although the comment at line 633 wants such shaders preserved. The model has the
  panic; `ArchiveSurvives` is about libraries that get written.

## What the properties do not say

- `ReadsBackWhatWasWritten` excludes two chunks the code cannot read back: an empty chunk at offset 0 (`Toc::read`
  underflows) and a chunk beyond 2^40 (the writer cuts the offset silently; the repacker checks).
- A container that could not be written to its end is not described by any property: `finalize` or the write returns
  the error. When flushing the `.ucas` fails, the `.utoc` is still written as the writer is dropped.
- `OpenIsFresh` takes a stamp to identify a version: two writes of the same length within the resolution of the file's
  time stamp would not be told apart. It is about opens during which the files did not change, not about a container
  that stays open while its `.ucas` is replaced.
- When two inputs hold one package, the reader gets the package data of the input written last, and bulk data of the last
  that has some. `BulkFollowsPackageData` says this and no more: an input without bulk data leaves that of an earlier one in
  the container, beside package data it does not belong to.
- `ContainerHeaderSurvives` says which headers are read back. A header of version Initial whose container id begins with the
  magic number is not, unless the reader is told the version: what follows in the id is taken for a version.
- `OriginalsSurvive` and `SwapsAtomically` speak of whoever finds the destination and the staging directory after the
  process, and knows the rule of `BundleSwap`: complete new bundle, else originals. They assume that a rename that
  returned stays done (no power loss). They are not about another process looking at the destination meanwhile; an old `.pak` beside
  a bundle whose input has none is not touched.
- `StoreIsConsistent` is about packages whose container has a readable header. Where a header does not parse, the container
  still gives data, and the store entry comes from another container or is missing.
- `OverrideWins` takes patch numbers below 2^32 - 2; the two largest wrap.
- `ReportIsTrue` takes the containers of an item not to list a package twice; if they do, two workers write the same files.
- `AlwaysReturns` takes the caller of `action_to_zen` not to be a thread of the pool.
- AES and the compression codecs are ideal, and hashes do not collide.

## Not modelled

- *KawaiiPhysics port* (`kawaii_physics.rs`): a managed helper called under a mutex held for the whole call, on temporary
  files of its own; what it does is not in the Rust code. Its failure is part of `ConversionFails` in `ToZenPipeline`.
- *Logging*, *commands* (arguments; the list, info, verify, get, raw pack and unpack commands), *build script and load logger*:
  output, or one sequential pass over the components above.
- `script_objects.rs`, `compact_binary.rs`, `manifest.rs`: sequential readers and writers of one table each, without offsets
  that are patched. The table of engine versions is data.
- Of the container: the directory tree behind the path map, perfect-hash seeds, signatures, partitions, raw chunks, and
  `set_obfuscated`, which nothing in the repository calls after `new`.
- Of the store: the flat file reader of an unpacked directory, listings that only print.
- Of the conversions: the encoding of name maps, renaming while extracting, the asset registry, soft references and optional
  segments, which are copied.
- Of shader libraries: the hashes of maps and groups, names of files, asset info.

## Plan

Left to do: a proof that the library `ShaderArchive` reads is the one written; the directory index as a linked structure
refining the path map of `IoStoreWriter`; the name map.
