------------------------------ MODULE ZenHeader ------------------------------
(***************************************************************************)
(* The header of a Zen package.  It is written front to back behind a      *)
(* summary that is patched at the end with the offsets of the sections.    *)
(* What sections there are depends on the versions of the container header *)
(* and of the package; how many entries a section has a reader derives     *)
(* from the offsets of two sections, or from the package's store entry.    *)
(* In the oldest format the dependencies on other packages are patched     *)
(* later still, when all packages are converted.                           *)
(***************************************************************************)
EXTENDS Integers, FiniteSets, Sequences, ByteStream

CONSTANTS Packages     \* packages written, and how they are read

VARIABLES package,
          file,
          summary,
          store,       \* the store entry: bundles, imported packages, shader maps
          arcs,        \* where the first members of legacy arcs are
          pc,
          result

vars == <<package, file, summary, store, arcs, pc, result>>

Header == package.engine.header
Version == package.engine.version

\* The container header versions that tell the formats apart.
InitialVersion == 0
LocalizedPackages == 1
OptionalSegmentPackages == 2
NoExportInfo == 3
SoftPackageReferences == 4

\* Package versions since which there is bulk data, and padding before it.
DataResources == 1009
PropertyTagCompleteTypeName == 1012

Align(n, to) == ((n + to - 1) \div to) * to

SummarySize ==
    IF Header = InitialVersion THEN 64 ELSE IF Header < NoExportInfo THEN 44 ELSE 52

\* The versions, with one custom version of twenty bytes.
VersioningItems == IF Header > InitialVersion /\ package.versioned THEN << <<<<"versions", Version>>, 40>> >> ELSE <<>>

------------------------------------------------------------------------------
\* write_name_batch_parts and read_name_batch_parts.  A name in wide characters
\* starts at an even position of its buffer.

StringSize(name) == IF name.wide THEN 2 * name.length ELSE name.length
HeaderOf(i) == <<"length", package.names[i]>>

NameGap(name, position) == IF name.wide /\ (position + 2) % 2 = 1 THEN 1 ELSE 0

NamePart(i, position) ==
    LET name == package.names[i]
    IN  << <<HeaderOf(i), 2>>, <<<<"gap">>, NameGap(name, position)>>, <<<<"name", i>>, StringSize(name)>> >>

NameParts ==
    LET parts[i \in 0 .. Len(package.names)] ==
            IF i = 0 THEN <<>> ELSE parts[i - 1] \o NamePart(i, EndAt(0, parts[i - 1]))
    IN  parts[Len(package.names)]

\* The names between two positions: each says how long it is and whether it is
\* in wide characters.
ReadNameParts(from, to) ==
    LET next(p) == LET length == ReadAt(file, p, 2)
                       gap == IF length[2].wide /\ (p - from + 2) % 2 = 1 THEN 1 ELSE 0
                   IN  <<ReadAt(file, p + 2 + gap, StringSize(length[2])), p + 2 + gap + StringSize(length[2])>>
        walk[n \in 0 .. Len(package.names)] ==
            IF n = 0 THEN <<<<>>, from>>
            ELSE LET before == walk[n - 1]
                 IN  IF before[2] >= to \/ ReadAt(file, before[2], 2) = Garbage THEN before
                     ELSE <<Append(before[1], next(before[2])[1]), next(before[2])[2]>>
    IN  walk[Len(package.names)][1]

\* A batch has counts, hashes, lengths and strings, each in a row.
NameBatch ==
    LET strings[i \in 0 .. Len(package.names)] ==
            IF i = 0 THEN 16 ELSE strings[i - 1] + 10 + StringSize(package.names[i])
    IN  << <<<<"names", Len(package.names)>>, IF package.names = <<>> THEN 4 ELSE strings[Len(package.names)]>> >>

------------------------------------------------------------------------------
\* FZenPackageHeader::serialize.

Many(kind, count, size) == [i \in 1 .. count |-> <<<<kind, i>>, size>>]

NameItems ==
    IF Header > InitialVersion THEN NameBatch
    ELSE LET size == EndAt(0, NameParts)
         IN  NameParts \o << <<<<"gap">>, Align(size, 8) - size>>,
                             <<<<"hashes">>, 8 + 8 * Len(package.names)>> >>

BulkItems(position) ==
    LET padding == Align(position, 8) - position
    IN  IF Version < DataResources THEN <<>>
        ELSE (IF Version < PropertyTagCompleteTypeName THEN <<>>
              ELSE << <<<<"padding", padding>>, 8>>, <<<<"gap">>, padding>> >>)
             \o << <<<<"bulk size", 32 * package.bulk>>, 8>> >>
             \o Many("bulk", package.bulk, 32)

HashItems == IF Header > InitialVersion THEN Many("hash", package.hashes, 8) ELSE <<>>
BundleHeaderItems(size) ==
    [b \in DOMAIN package.bundles |-> <<<<"bundle", package.bundles[b]>>, size>>]

\* Two commands for each export; in the oldest format behind the bundles.
EntryItems ==
    (IF Header = InitialVersion THEN BundleHeaderItems(8) ELSE <<>>)
        \o Many("entry", 2 * package.exports, 8)

DependencyItems(kind) ==
    CASE kind = "headers" -> Many("dependency header", package.exports, 20)
      [] kind = "entries" -> Many("dependency", package.dependencies, 4)
      [] kind = "names" -> << <<<<"imported names", package.imported>>, 4 + 10 * Len(package.imported)>> >>

\* Arcs of an imported package, behind their number.
ArcItems(d, size) ==
    << <<<<"arcs", package.arcs[d]>>, 4>> >> \o [a \in 1 .. package.arcs[d] |-> <<<<"arc", d, a>>, size>>]

GraphItems ==
    LET external[d \in 0 .. Len(package.imported)] ==
            IF d = 0 THEN <<>> ELSE external[d - 1] \o ArcItems(d, 9)
    IN  BundleHeaderItems(16)
        \o << <<<<"arcs", package.internal>>, 4>> >> \o Many("internal", package.internal, 8)
        \o external[Len(package.imported)]

\* Only packages with arcs are listed.  The first member of an arc is patched later.
LegacyGraphItems ==
    LET arc(d, a) == << <<<<"from", d, a>>, 4>>, <<<<"to", d, a>>, 4>> >>
        of(d) == LET all[a \in 0 .. package.arcs[d]] == IF a = 0 THEN <<>> ELSE all[a - 1] \o arc(d, a)
                 IN  << <<<<"package", package.imported[d]>>, 8>>, <<<<"arcs", package.arcs[d]>>, 4>> >>
                     \o all[package.arcs[d]]
        listed == {d \in DOMAIN package.imported : package.arcs[d] > 0}
        graph[d \in 0 .. Len(package.imported)] ==
            IF d = 0 THEN << <<<<"packages", Cardinality(listed)>>, 4>> >>
            ELSE graph[d - 1] \o (IF d \in listed THEN of(d) ELSE <<>>)
    IN  graph[Len(package.imported)]

\* Where the members to be patched have been written.
ArcPlaces(position) ==
    LET items == LegacyGraphItems
    IN  {Places(position, items)[i] : i \in {j \in DOMAIN items : items[j][1][1] = "from"}}

WriteHeader ==
    /\ pc = "write"
    /\ LET names == EndAt(SummarySize, VersioningItems)
           parts == EndAt(names, IF Header = InitialVersion THEN NameParts ELSE <<>>)
           bulk == EndAt(names, NameItems)
           hashes == EndAt(bulk, BulkItems(bulk))
           imports == EndAt(hashes, HashItems)
           exports == imports + 8 * package.imports
           entries == exports + 72 * package.exports
           graph == EndAt(entries, EntryItems)
           last == IF Header >= NoExportInfo
                   THEN DependencyItems("headers") \o DependencyItems("entries") \o DependencyItems("names")
                   ELSE IF Header > InitialVersion THEN GraphItems ELSE LegacyGraphItems
           deps == EndAt(graph, DependencyItems("headers"))
       IN  /\ file' = WriteAt(file, 0,
                        << <<<<"summary">>, SummarySize>> >> \o VersioningItems \o NameItems
                        \o BulkItems(bulk) \o HashItems \o Many("import", package.imports, 8)
                        \o Many("export", package.exports, 72) \o EntryItems \o last)
           /\ summary' = [names |-> <<names, parts>>, hashes |-> hashes, imports |-> imports,
                          exports |-> exports, entries |-> entries,
                          graph |-> IF Header < NoExportInfo THEN graph ELSE -1,
                          headers |-> IF Header < NoExportInfo THEN -1 ELSE graph,
                          deps |-> IF Header < NoExportInfo THEN -1 ELSE deps,
                          importedNames |-> IF Header < NoExportInfo THEN -1
                                            ELSE EndAt(deps, DependencyItems("entries")),
                          size |-> EndAt(graph, last)]
           /\ arcs' = IF Header = InitialVersion THEN ArcPlaces(graph) ELSE {}
           /\ store' = [bundles |-> IF Header < NoExportInfo THEN Len(package.bundles) ELSE 0,
                        imported |-> package.imported]
    /\ pc' = "patch"
    /\ UNCHANGED <<package, result>>

PatchSummary ==
    /\ pc = "patch"
    /\ file' = WriteAt(file, 0, << <<<<"summary", summary>>, SummarySize>> >>)
    /\ pc' = IF arcs = {} THEN "read" ELSE "fixup"
    /\ UNCHANGED <<package, summary, store, arcs, result>>

\* fixup_legacy_external_arcs: a placeholder is read where it was noted and
\* replaced by the bundle of the other package.
FixupArc(p) ==
    /\ pc = "fixup" /\ p \in arcs
    /\ LET placeholder == ReadAt(file, p, 4)
       IN  file' = WriteAt(file, p, << <<IF placeholder = Garbage THEN Garbage
                                          ELSE <<"fixed", placeholder[2], placeholder[3]>>, 4>> >>)
    /\ arcs' = arcs \ {p}
    /\ pc' = IF arcs' = {} THEN "read" ELSE pc
    /\ UNCHANGED <<package, summary, store, result>>

------------------------------------------------------------------------------
\* FZenPackageHeader::deserialize.

\* A variant of HasBulkData that takes every version with offsets for bulk data
\* to have it.
HasBulkDataAlways(known, position, hashes) ==
    IF known # -1 THEN known >= DataResources ELSE Header >= OptionalSegmentPackages

\* heuristic_zen_has_bulk_data: between two versions nothing but the place of
\* what follows tells whether there is bulk data.
HasBulkData(known, position, hashes) ==
    IF known # -1 THEN known >= DataResources
    ELSE Header >= NoExportInfo \/ (Header >= OptionalSegmentPackages /\ hashes > position)

\* heuristic_zen_package_version; -1 if the versions of the container do not
\* tell.
GuessedVersion(hasBulk) ==
    CASE Header = InitialVersion -> 0
      [] Header = LocalizedPackages -> 1004
      [] Header = OptionalSegmentPackages -> IF hasBulk THEN DataResources ELSE 1008
      [] Header = NoExportInfo -> IF package.engine.toc < 6 THEN DataResources ELSE PropertyTagCompleteTypeName
      [] Header = SoftPackageReferences -> IF package.engine.toc = 8 THEN 1013 ELSE -1

\* The bulk data entries at a position; none if the size does not fit into what
\* lies before the hashes.
ReadBulk(version, position, hashes) ==
    LET padding == ReadAt(file, position, 8)
        start == IF version < PropertyTagCompleteTypeName THEN position
                 ELSE position + 8 + (IF Len(padding) = 2 THEN padding[2] ELSE 0)
        size == ReadAt(file, start, 8)
    IN  IF Len(size) # 2 \/ size[1] # "bulk size" THEN Garbage
        ELSE IF size[2] % 32 # 0 \/ size[2] > hashes - start - 8 THEN Garbage
        ELSE ReadMany(file, start + 8, 32, size[2] \div 32)

\* The graph of a package before dependency lists, with the store entry.
ReadGraph(s) ==
    LET walk[d \in 0 .. Len(store.imported)] ==
            IF d = 0 THEN <<<<>>, s.graph + 16 * store.bundles + 4 + 8 * ReadAt(file, s.graph + 16 * store.bundles, 4)[2]>>
            ELSE LET count == ReadAt(file, walk[d - 1][2], 4)[2]
                 IN  <<Append(walk[d - 1][1], ReadMany(file, walk[d - 1][2] + 4, 9, count)),
                       walk[d - 1][2] + 4 + 9 * count>>
    IN  [bundles |-> ReadMany(file, s.graph, 16, store.bundles),
         internal |-> ReadMany(file, s.graph + 16 * store.bundles + 4, 8,
                               ReadAt(file, s.graph + 16 * store.bundles, 4)[2]),
         external |-> walk[Len(store.imported)][1]]

ReadLegacyGraph(s) ==
    LET walk[d \in 0 .. ReadAt(file, s.graph, 4)[2]] ==
            IF d = 0 THEN <<<<>>, s.graph + 4>>
            ELSE LET p == walk[d - 1][2]
                     count == ReadAt(file, p + 8, 4)[2]
                 IN  <<Append(walk[d - 1][1], [from |-> ReadAt(file, p, 8)[2],
                                               arcs |-> ReadMany(file, p + 12, 4, 2 * count)]),
                       p + 12 + 8 * count>>
    IN  walk[ReadAt(file, s.graph, 4)[2]][1]

ExportCount(s) == (s.entries - s.exports) \div 72

ReadHeader ==
    /\ pc = "read"
    /\ LET s == ReadAt(file, 0, SummarySize)[2]
           versions == EndAt(SummarySize, VersioningItems)
           own == IF VersioningItems = <<>> THEN package.told ELSE Version
           position == EndAt(versions, IF Header = InitialVersion THEN <<>> ELSE NameBatch)
           hasBulk == HasBulkData(own, position, s.hashes)
           version == IF own # -1 THEN own ELSE GuessedVersion(hasBulk)
           bulk == IF hasBulk THEN ReadBulk(version, position, s.hashes) ELSE <<>>
           bundles == IF Header = InitialVersion THEN store.bundles ELSE 0
           entriesEnd == IF s.headers > 0 THEN s.headers ELSE s.graph
           entries == IF Header = InitialVersion
                      THEN ReadMany(file, s.entries + 8 * bundles, 8,
                               LET sum[b \in 0 .. bundles] == IF b = 0 THEN 0 ELSE sum[b - 1] + ReadAt(file, s.entries + 8 * (b - 1), 8)[2]
                               IN  sum[bundles])
                      ELSE ReadMany(file, s.entries, 8, (entriesEnd - s.entries) \div 8)
           refused == \/ version = -1 \/ bulk = Garbage
                      \/ Header < NoExportInfo /\ ~package.withStore
                      \/ Len(entries) # 2 * ExportCount(s)
                      \/ s.headers > 0 /\ (s.deps - s.headers) \div 20 # ExportCount(s)
       IN  IF refused THEN pc' = "refused" /\ UNCHANGED result
           ELSE /\ pc' = "done"
                /\ result' =
                     [version |-> version,
                      names |-> IF Header = InitialVersion THEN ReadNameParts(s.names[1], s.names[2])
                                ELSE <<ReadAt(file, versions, NameBatch[1][2])>>,
                      bulk |-> bulk,
                      hashes |-> IF Header = InitialVersion THEN <<>>
                                 ELSE ReadMany(file, s.hashes, 8, (s.imports - s.hashes) \div 8),
                      imports |-> ReadMany(file, s.imports, 8, (s.exports - s.imports) \div 8),
                      exports |-> ReadMany(file, s.exports, 72, ExportCount(s)),
                      entries |-> entries,
                      deps |-> IF s.headers <= 0 THEN <<>>
                               ELSE ReadMany(file, s.deps, 4, (s.importedNames - s.deps) \div 4),
                      graph |-> IF s.headers > 0 THEN [bundles |-> <<>>, internal |-> <<>>, external |-> <<>>]
                                ELSE IF Header > InitialVersion THEN ReadGraph(s)
                                ELSE [bundles |-> ReadMany(file, s.entries, 8, bundles), internal |-> <<>>,
                                      external |-> ReadLegacyGraph(s)],
                      imported |-> IF package.withStore THEN store.imported
                                   ELSE ReadAt(file, s.importedNames, 4 + 10 * Len(package.imported))[2]]
    /\ UNCHANGED <<package, file, summary, store, arcs>>

Done == pc \in {"done", "refused"} /\ UNCHANGED vars

Init ==
    /\ package \in Packages
    /\ file = [p \in {} |-> Garbage]
    /\ summary = [size |-> 0] /\ store = [bundles |-> 0, imported |-> <<>>] /\ arcs = {}
    /\ pc = "write" /\ result = [version |-> -1]

Next == WriteHeader \/ PatchSummary \/ (\E p \in arcs : FixupArc(p)) \/ ReadHeader \/ Done

Spec == Init /\ [][Next]_vars

------------------------------------------------------------------------------
Written(kind, count) == [i \in 1 .. count |-> <<kind, i>>]

\* Items follow each other without a gap to the end of the header.
TypeOK ==
    /\ pc \in {"write", "patch", "fixup", "read", "done", "refused"}
    /\ \A p \in DOMAIN file : p + file[p][2] \in DOMAIN file \cup {summary.size}

\* Every section has as many entries when it is read, by the offsets of two
\* sections or by the store entry, as were written, and the same.
SectionsSurvive ==
    pc = "done" =>
        /\ result.names = IF Header = InitialVersion THEN Written("name", Len(package.names))
                          ELSE <<<<"names", Len(package.names)>>>>
        /\ result.hashes = IF Header = InitialVersion THEN <<>> ELSE Written("hash", package.hashes)
        /\ result.imports = Written("import", package.imports)
        /\ result.exports = Written("export", package.exports)
        /\ result.entries = Written("entry", 2 * package.exports)
        /\ result.deps = IF Header < NoExportInfo THEN <<>> ELSE Written("dependency", package.dependencies)
        /\ result.imported = package.imported
        /\ result.graph.bundles = IF Header < NoExportInfo
                                  THEN [b \in DOMAIN package.bundles |-> <<"bundle", package.bundles[b]>>]
                                  ELSE <<>>
        /\ result.graph.internal = IF Header \in {LocalizedPackages, OptionalSegmentPackages}
                                   THEN Written("internal", package.internal) ELSE <<>>

\* The version and the bulk data are found whether or not the package names its
\* version, and a package of a known engine is never refused with its store
\* entry.
BulkDataIsFound ==
    /\ pc = "done" => /\ result.bulk = IF Version < DataResources THEN <<>> ELSE Written("bulk", package.bulk)
                      /\ result.version = Version
    /\ pc = "refused" => Header < NoExportInfo /\ ~package.withStore

\* The size of the bulk data starts at a multiple of eight, as the reader of the
\* engine expects since there is padding.
BulkDataAligned ==
    Version >= PropertyTagCompleteTypeName =>
        \A p \in DOMAIN file : file[p][1][1] = "bulk size" => p % 8 = 0

\* The dependencies on other packages come back for the package they belong to;
\* in the oldest format each has its first member patched, and nothing else is.
ArcsSurvive ==
    pc = "done" =>
        LET arcsOf(d) == package.arcs[d]
            listed == SelectSeq([d \in DOMAIN package.imported |-> d], LAMBDA d : arcsOf(d) > 0)
        IN  CASE Header >= NoExportInfo -> result.graph.external = <<>>
              [] Header = InitialVersion ->
                    result.graph.external =
                        [i \in DOMAIN listed |->
                            [from |-> package.imported[listed[i]],
                             arcs |-> [j \in 1 .. 2 * arcsOf(listed[i]) |->
                                         <<IF j % 2 = 1 THEN "fixed" ELSE "to", listed[i], (j + 1) \div 2>>]]]
              [] OTHER ->
                    result.graph.external =
                        [d \in DOMAIN package.imported |-> [a \in 1 .. arcsOf(d) |-> <<"arc", d, a>>]]
=============================================================================
