---------------------------- MODULE LegacyPackage ----------------------------
(***************************************************************************)
(* The way back: a legacy package built from a Zen one.  Imports are       *)
(* resolved to the objects they mean and appended as they are met; at the  *)
(* end they are put where the Zen package had them, because the data of    *)
(* the exports refers to them by position.                                 *)
(***************************************************************************)
EXTENDS ZenPackage

CONSTANTS LeafName,   \* the last name in the path of a package, that of its main object
          Losses      \* what may be lost at once

VARIABLES available,   \* the packages the open containers hold
          lost,        \* objects at hand that cannot be told: no script object is
                       \* known for them, or none for their class
          built,       \* the package being built
          toLegacy     \* how far it is

legacyVars == <<available, lost, built, toLegacy>>

Unknown == "/Engine/UnknownPackage"
UnknownExport == "UnknownExport"
NoChain == <<>>

------------------------------------------------------------------------------
\* Resolving objects.

\* An object is resolved with all its outers.
Lost(chain) == \E n \in DOMAIN chain : SubSeq(chain, 1, n) \in lost

\* resolve_package_import: in the new style the package is named and, when it is
\* not there, an object with the name of its package can still be told; before,
\* every imported package is searched up to the first that is not there.
ResolveNamed(package, path) ==
    IF package \in available /\ BundlesWith(<<package>> \o path, Create) # {}
    THEN IF Lost(<<package>> \o path) THEN NoChain ELSE <<package>> \o path
    ELSE IF version >= NoExportInfo /\ path = <<LeafName[package]>> THEN <<package>> \o path
    ELSE NoChain

ResolveGlobal(chain) ==
    LET holder == IndexIn(zen.packages, chain[1])
    IN  IF /\ \A i \in 1 .. holder : zen.packages[i] \in available
           /\ BundlesWith(chain, Create) # {} /\ ~Lost(chain)
        THEN chain ELSE NoChain

ResolveObject(o) ==
    IF o[1] = "script" THEN IF Lost(o[2]) THEN NoChain ELSE o[2]
    ELSE IF o[1] = "global" THEN ResolveGlobal(o[2])
    ELSE IF o[1] = "package" THEN ResolveNamed(zen.packages[o[2]], zen.hashes[o[3]])
    ELSE NoChain

\* find_or_add_resolved_import: an object is added with all its outers, each once.
PlaceOf(imports, chain) == SelectInSeq(imports, LAMBDA i : i.known /\ i.chain = chain)

FindOrAdd(imports, chain) ==
    LET add(acc, n) ==
            LET prefix == SubSeq(chain, 1, n)
            IN  IF PlaceOf(acc, prefix) # 0 THEN acc
                ELSE Append(acc, [chain |-> prefix, known |-> TRUE,
                                  outer |-> IF n = 1 THEN 0
                                            ELSE -PlaceOf(acc, SubSeq(chain, 1, n - 1))])
    IN  FoldLeft(add, imports, [n \in 1 .. Len(chain) |-> n])

\* resolve_local_package_object: the package built so far, with the place of the
\* object; 0 for null, and no place at all if it cannot be resolved.
Unresolved == "unresolved"

ResolveLocal(b, o) ==
    IF o = Null THEN [b EXCEPT !.place = 0]
    ELSE IF o[1] = "export" THEN [b EXCEPT !.place = o[2]]
    ELSE IF o \in DOMAIN b.lookup THEN [b EXCEPT !.place = b.lookup[o]]
    ELSE LET chain == ResolveObject(o)
             imports == FindOrAdd(b.imports, chain)
         IN  IF chain = NoChain THEN [b EXCEPT !.resolved = FALSE]
             ELSE [b EXCEPT !.imports = imports, !.place = -PlaceOf(imports, chain),
                            !.lookup = (o :> -PlaceOf(imports, chain)) @@ b.lookup]

UnknownImports(n) ==
    << [chain |-> <<Unknown>>, known |-> FALSE, outer |-> 0],
       [chain |-> <<Unknown, UnknownExport>>, known |-> FALSE, outer |-> -(n + 1)] >>

------------------------------------------------------------------------------
\* The steps of build_asset_from_zen.

Opened == [imports |-> <<>>, lookup |-> [o \in {} |-> 0], order |-> [i \in {} |-> 0],
           next |-> 1, failed |-> FALSE, resolved |-> TRUE, place |-> 0,
           exports |-> <<>>, preload |-> <<>>, data |-> <<>>, name |-> legacy.name]

\* copy_package_sections and the empty maps.  Packages that are streamed ahead
\* are imported without an object: the cooker lists them after the others.
Open ==
    /\ toZen = "done" /\ toLegacy = "closed"
    /\ available' \in SUBSET DOMAIN Foreign
    /\ lost' \in Losses
    /\ \E ahead \in SUBSET (DOMAIN Foreign \ ToSet(zen.packages)) :
          zen' = [zen EXCEPT !.packages = @ \o SetToSeq(ahead)]
    /\ built' = Opened
    /\ toLegacy' = "imports"
    /\ UNCHANGED <<version, legacy, toZen>>

\* build_import_map, one entry: an object that cannot be resolved gets an import
\* of an unknown object, so that the rest of the package can still be read.
BuildImport ==
    /\ toLegacy = "imports" /\ built.next <= Len(zen.imports)
    /\ LET o == zen.imports[built.next]
           b == ResolveLocal(built, o)
           unknown == built.imports \o UnknownImports(Len(built.imports))
       IN  built' =
             IF o = Null THEN [built EXCEPT !.next = @ + 1]
             ELSE IF b.resolved
             THEN [b EXCEPT !.next = @ + 1, !.order = (built.next :> -b.place) @@ b.order]
             ELSE [built EXCEPT !.next = @ + 1, !.imports = unknown, !.failed = TRUE,
                                !.lookup = (o :> -Len(unknown)) @@ built.lookup,
                                !.order = (built.next :> Len(unknown)) @@ built.order]
    /\ UNCHANGED <<zenVars, available, lost, toLegacy>>

\* build_export_map: the objects an export refers to, and where its data goes.
\* Data in bundles is laid out anew in the order of the exports.
ConvertExport(b, k) ==
    LET e == zen.exports[k]
        class == ResolveLocal(b, e.class)
        super == ResolveLocal(class, e.super)
        template == ResolveLocal(super, e.template)
        outer == ResolveLocal(template, e.outer)
        size(j) == zen.exports[j].size
        add(n, j) == n + size(j)
        before == FoldLeft(add, 0, [j \in 1 .. k - 1 |-> j])
    IN  [outer EXCEPT !.exports = Append(@,
            [name |-> e.name, class |-> class.place, super |-> super.place,
             template |-> template.place, outer |-> outer.place,
             flag |-> e.flag, generate |-> version > Initial /\ ~e.flag /\ e.public,
             size |-> e.size, offset |-> IF zen.bundles = <<>> THEN e.offset ELSE before])]

BuildExports ==
    /\ toLegacy = "imports" /\ built.next > Len(zen.imports)
    /\ built' = FoldLeft(ConvertExport, built, [k \in DOMAIN zen.exports |-> k])
    /\ toLegacy' = IF built'.resolved THEN "exports" ELSE "failed"
    /\ UNCHANGED <<zenVars, available, lost>>

\* resolve_prestream_package_imports, unless an import is unknown.
Prestream ==
    /\ toLegacy = "exports"
    /\ LET named == {built.imports[i].chain[1] : i \in {j \in DOMAIN built.imports :
                                                            built.imports[j].outer = 0}}
           ahead == SelectSeq(zen.packages, LAMBDA p : p \notin named /\ p \in available)
       IN  built' = IF built.failed THEN built
                    ELSE [built EXCEPT !.imports = built.imports \o
                             [i \in DOMAIN ahead |-> [chain |-> <<ahead[i]>>, known |-> FALSE,
                                                      outer |-> 0]]]
    /\ toLegacy' = "streamed"
    /\ UNCHANGED <<zenVars, available, lost>>

------------------------------------------------------------------------------
\* Dependencies: <<index, its command, export, its command>>.

First(bundle) == Head(bundle.entries)

\* Within a bundle, each command waits for the one before it.
WithinBundles ==
    UNION {{LET es == zen.bundles[b].entries IN <<es[i - 1][1], es[i - 1][2], es[i][1], es[i][2]>> :
              i \in 2 .. Len(zen.bundles[b].entries)} : b \in DOMAIN zen.bundles}

\* The last command of a bundle comes before the first of one with an arc from
\* it; up to Initial bundles load one after another and no arcs are stored.
BetweenBundles ==
    LET arcs == IF version <= Initial THEN {<<b - 1, b>> : b \in 2 .. Len(zen.bundles)}
                ELSE zen.internal
    IN  {Last(zen.bundles[a[1]].entries) \o First(zen.bundles[a[2]]) : a \in arcs}

FromImports(order) ==
    {<<-order[-x[1]], x[2]>> \o First(zen.bundles[x[3]]) : x \in zen.external}

\* Up to Initial an arc comes from a bundle of another package; the last command
\* of it stands for the bundle and may be a new import.
ForeignEnd(a) == LET bundles == Foreign[a[1]]
                 IN  Last(bundles[IF a[2] = -1 THEN Len(bundles) ELSE a[2]])
Reachable == {a \in zen.legacy : a[1] \in available /\ ~Lost(ForeignEnd(a)[1])}

\* resolve_export_dependencies: those of the lists if there are any, or of the
\* bundles.  Imports are taken where they are now.
DependenciesOf(imports) ==
    IF \E k \in DOMAIN zen.lists, s \in ToSet(Sections) : zen.lists[k][s] # {}
    THEN UNION {UNION {{<<IF d < 0 THEN -built.order[-d] ELSE d, FromCommand(s), k, ToCommand(s)>> :
                           d \in zen.lists[k][s]} : s \in ToSet(Sections)} : k \in DOMAIN zen.lists}
    ELSE WithinBundles \cup BetweenBundles \cup FromImports(built.order)
         \cup {<<-PlaceOf(imports, ForeignEnd(a)[1]), ForeignEnd(a)[2]>> \o First(zen.bundles[a[3]]) :
                  a \in Reachable}

ListedImports ==
    {-d : d \in {e \in UNION {UNION {zen.lists[k][s] : s \in ToSet(Sections)} : k \in DOMAIN zen.lists} :
                    e < 0}}
    \cup {-x[1] : x \in zen.external}

\* apply_standalone_dependencies_to_package: what every export waits for is
\* added, and the lists of all exports are put one after another.
ListsOf(edges, k) ==
    LET e == built.exports[k]
        listed(s) == {x[1] : x \in {y \in edges : y[2] = FromCommand(s) /\ y[3] = k
                                                  /\ y[4] = ToCommand(s) /\ y[1] # k}}
        also(s) == IF s = "cc" THEN {e.outer}
                   ELSE IF s = "ss" THEN IF e.super \in listed("cc") \cup {e.outer} THEN {} ELSE {e.super}
                   ELSE IF s = "sc" THEN {e.class, e.template} ELSE {}
    IN  [s \in ToSet(Sections) |-> Ascending((listed(s) \cup also(s)) \ {0})]

Flattened(lists) ==
    LET flat(k) == FlattenSeq([i \in DOMAIN Sections |-> lists[k][Sections[i]]])
        add(acc, k) == [preload |-> acc.preload \o flat(k),
                        exports |-> Append(acc.exports,
                            [first |-> IF flat(k) = <<>> THEN -1 ELSE Len(acc.preload),
                             counts |-> [s \in ToSet(Sections) |-> Len(lists[k][s])]]
                            @@ built.exports[k])]
    IN  FoldLeft(add, [preload |-> <<>>, exports |-> <<>>], [k \in DOMAIN lists |-> k])

\* A list that names an import the Zen package does not have stops the program; a
\* creation that waits for the serialization of the same export is an error.
ResolveDependencies ==
    /\ toLegacy = "streamed"
    /\ LET add(imports, a) == FindOrAdd(imports, ForeignEnd(a)[1])
           imports == FoldSet(LAMBDA a, acc : add(acc, a), built.imports, Reachable)
       IN  IF ~(ListedImports \subseteq DOMAIN built.order)
           THEN toLegacy' = "panicked" /\ UNCHANGED built
           ELSE LET edges == DependenciesOf(imports)
                    flat == Flattened([k \in DOMAIN built.exports |-> ListsOf(edges, k)])
                IN  IF \E x \in edges : x[1] = x[3] /\ <<x[2], x[4]>> # <<Create, Serialize>>
                    THEN toLegacy' = "failed" /\ UNCHANGED built
                    ELSE /\ built' = [built EXCEPT !.imports = imports, !.exports = flat.exports,
                                                   !.preload = flat.preload]
                         /\ toLegacy' = "resolved"
    /\ UNCHANGED <<zenVars, available, lost>>

------------------------------------------------------------------------------
\* Imports back in their places.

\* A variant of ImportOrder that closes the holes of the Zen import map.
ImportOrderDense ==
    LET fixed == {built.order[i] : i \in DOMAIN built.order}
        rest == Ascending(DOMAIN built.imports \ fixed)
        kept == SelectSeq([i \in DOMAIN zen.imports |->
                              IF i \in DOMAIN built.order THEN built.order[i] ELSE 0],
                          LAMBDA i : i # 0)
    IN  kept \o rest

\* build_import_reorder_plan: the place of an import in the Zen package is its
\* place; other imports fill the holes and follow; 0 is a hole that is left.
ImportOrder ==
    LET fixed == {built.order[i] : i \in DOMAIN built.order}
        rest == Ascending(DOMAIN built.imports \ fixed)
        holes(i) == Cardinality({j \in 1 .. i : j \notin DOMAIN built.order})
        kept == [i \in DOMAIN zen.imports |->
                    IF i \in DOMAIN built.order THEN built.order[i]
                    ELSE IF holes(i) <= Len(rest) THEN rest[holes(i)] ELSE 0]
    IN  kept \o SubSeq(rest, holes(Len(zen.imports)) + 1, Len(rest))

\* finalize_asset: every reference follows its import to its new place, the last
\* one where a Zen package has it twice.
Finalize ==
    /\ toLegacy = "resolved"
    /\ LET plan == ImportOrder
           at(index) == IF index >= 0 THEN index
                        ELSE -SelectLastInSeq(plan, LAMBDA i : i = -index)
           moved(e) == [e EXCEPT !.class = at(@), !.super = at(@), !.template = at(@), !.outer = at(@)]
       IN  built' = [built EXCEPT
               !.imports = [i \in DOMAIN plan |->
                   IF plan[i] = 0 THEN [name |-> Unknown, outer |-> 0]
                   ELSE [name |-> Last(built.imports[plan[i]].chain),
                         outer |-> at(built.imports[plan[i]].outer)]],
               !.exports = [k \in DOMAIN built.exports |-> moved(built.exports[k])],
               !.preload = [i \in DOMAIN built.preload |-> at(built.preload[i])]]
    /\ toLegacy' = "finalized"
    /\ UNCHANGED <<zenVars, available, lost>>

------------------------------------------------------------------------------
\* The data of the exports.

\* Where the data of a bundle starts; up to Initial it follows that of the one before.
StartOf(b) ==
    IF version > Initial THEN zen.bundles[b].offset
    ELSE SizeOf(SerializedIn(FlattenSeq([c \in 1 .. b - 1 |-> zen.bundles[c].entries])))

\* rebuild_asset_export_data_internal: the data of the exports, found bundle by
\* bundle, in the order of the exports; then what follows, and the end tag.
Rebuilt ==
    LET blobs == UNION {LET ns == SerializedIn(zen.bundles[b].entries)
                            at(i) == StartOf(b) + SizeOf(SubSeq(ns, 1, i - 1))
                        IN  {<<ns[i][1], SubSeq(zen.data, at(i) + 1, at(i) + SizeOf(<<ns[i]>>))>> :
                                i \in DOMAIN ns} : b \in DOMAIN zen.bundles}
        blob(k) == (CHOOSE x \in blobs : x[1] = k)[2]
        end == Max({0} \cup {StartOf(b) + SizeOf(SerializedIn(zen.bundles[b].entries)) :
                                b \in DOMAIN zen.bundles})
    IN  FlattenSeq([k \in DOMAIN built.exports |-> blob(k)])
        \o SubSeq(zen.data, end + 1, Len(zen.data)) \o <<Tag>>

SerializeAsset ==
    /\ toLegacy = "finalized"
    /\ built' = [built EXCEPT !.data = IF zen.bundles # <<>> THEN Rebuilt ELSE zen.data]
    /\ toLegacy' = "done"
    /\ UNCHANGED <<zenVars, available, lost>>

InitLegacy == available = {} /\ lost = {} /\ built = <<>> /\ toLegacy = "closed"

NextLegacy ==
    \/ Open \/ BuildImport \/ BuildExports \/ Prestream
    \/ ResolveDependencies \/ Finalize \/ SerializeAsset
=============================================================================
