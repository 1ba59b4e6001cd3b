----------------------------- MODULE ZenPackage -----------------------------
(***************************************************************************)
(* The conversion of one legacy package to a Zen package: its import map,  *)
(* its export map, the order its exports load in and the bundles or        *)
(* dependency lists that say so, and the place of each export's data.      *)
(*                                                                         *)
(* Objects are named by the chain of names from their package inwards: the *)
(* program makes hashes of these chains.  An index is that of the format:  *)
(* 0 is null, k > 0 an export and k < 0 an import.  A list of dependencies *)
(* stands as a set: a loader does not tell a repeated one from another.    *)
(***************************************************************************)
EXTENDS Integers, FiniteSets, SequencesExt, FiniteSetsExt, TLC

CONSTANTS Versions,        \* container header versions converted to
          LegacyPackages,  \* packages considered
          ScriptPackages,  \* those of the game's code
          Engine,          \* the one with what objects of the tag plugin are replaced with
          TagNames,        \* names with that of the plugin in them, of packages and objects
          DefaultNames, UserDataNames,     \* names with "default__", with that of its class
          Foreign          \* the bundles of other packages: sequences of <<chain, command>>

ASSUME Engine \in ScriptPackages \ TagNames

VARIABLES version, legacy, zen, toZen

zenVars == <<version, legacy, zen, toZen>>

Initial == 0
NoExportInfo == 3

Create == 0
Serialize == 1

Null == <<"null">>
IndexIn(seq, x) == SelectInSeq(seq, LAMBDA y : y = x)
Ascending(S) ==
    IF S = {} THEN <<>>
    ELSE SelectSeq([i \in 1 .. Max(S) - Min(S) + 1 |-> Min(S) + i - 1], LAMBDA i : i \in S)
PutIn(seq, x) == IF IndexIn(seq, x) = 0 THEN Append(seq, x) ELSE seq

------------------------------------------------------------------------------
\* Legacy packages.

\* get_package_object_full_name: from the package inwards.
Chain(l, index) ==
    LET chain[i \in -Len(l.imports) .. Len(l.exports)] ==
            IF i = 0 THEN <<>>
            ELSE IF i < 0 THEN Append(chain[l.imports[-i].outer], l.imports[-i].name)
            ELSE IF l.exports[i].outer = 0 THEN <<l.name, l.exports[i].name>>
            ELSE Append(chain[l.exports[i].outer], l.exports[i].name)
    IN  chain[index]

\* The preload dependencies of an export are four runs of one list.
Sections == <<"ss", "cs", "sc", "cc">>
FromCommand(s) == IF s \in {"ss", "sc"} THEN Serialize ELSE Create
ToCommand(s) == IF s \in {"ss", "cs"} THEN Serialize ELSE Create

PreloadOf(l, k, s) ==
    LET e == l.exports[k]
        start == e.first + (IF s = "ss" THEN 0 ELSE e.counts["ss"])
                         + (IF s \in {"ss", "cs"} THEN 0 ELSE e.counts["cs"])
                         + (IF s = "cc" THEN e.counts["sc"] ELSE 0)
    IN  IF e.first = -1 THEN {} ELSE {l.preload[start + i] : i \in 1 .. e.counts[s]}

\* What a node of the graph, an export and a command, waits for.
DependsOn(l, n) ==
    (IF n[2] = Serialize THEN {<<n[1], Create>>} ELSE {})
    \cup UNION {{<<d, FromCommand(s)>> : d \in PreloadOf(l, n[1], s)} :
                s \in {t \in ToSet(Sections) : ToCommand(t) = n[2]}}

Nodes(l) == (DOMAIN l.exports) \X {Create, Serialize}
ExportsOf(nodes) == {n \in nodes : n[1] > 0}

\* sort_dependencies_in_load_order: of the nodes that wait for nothing more, the
\* most urgent; shorter than the nodes are many when they wait for each other.
LoadOrderOf(l, public) ==
    LET rank(n) == (IF n[1] \in public THEN 0 ELSE 2) + n[2]
        less(n, m) == rank(n) < rank(m) \/ (rank(n) = rank(m) /\ n[1] < m[1])
        waits == {<<n, ExportsOf(DependsOn(l, n))>> : n \in Nodes(l)}
        take(order, step) ==
            LET ready == {w[1] : w \in {x \in waits : /\ x[1] \notin ToSet(order)
                                                    /\ x[2] \subseteq ToSet(order)}}
            IN  IF ready = {} THEN order
                ELSE Append(order, CHOOSE n \in ready : \A m \in ready \ {n} : less(n, m))
    IN  FoldLeft(take, <<>>, [i \in 1 .. 2 * Len(l.exports) |-> i])

------------------------------------------------------------------------------
\* The import map and the export map.

\* What has the name of the plugin anywhere in its path is replaced: the game
\* does not know the plugin.
Tagged(chain) == ToSet(chain) \cap TagNames # {}

Equivalent(chain) ==
    IF ~Tagged(chain) THEN chain
    ELSE IF ToSet(chain) \cap DefaultNames # {} THEN <<Engine, "Default__AssetUserData">>
    ELSE IF ToSet(chain) \cap UserDataNames # {} THEN <<Engine, "AssetUserData">>
    ELSE <<Engine>>

\* convert_legacy_import_to_object_index: an import of a package itself becomes
\* null; one of an object names its package and, in the new style, the path in
\* it, each by its place in a list of the package.
ConvertImport ==
    /\ toZen = "imports"
    /\ LET i == Len(zen.imports) + 1
           chain == Chain(legacy, -i)
           packages == PutIn(zen.packages, chain[1])
           hashes == PutIn(zen.hashes, Tail(chain))
       IN  /\ i <= Len(legacy.imports)
           /\ zen' = IF Tagged(chain) \/ chain[1] \in ScriptPackages
                     THEN [zen EXCEPT !.imports = Append(@, <<"script", Equivalent(chain)>>)]
                     ELSE IF Len(chain) = 1
                     THEN [zen EXCEPT !.imports = Append(@, Null)]
                     ELSE IF version <= Initial
                     THEN [zen EXCEPT !.imports = Append(@, <<"global", chain>>),
                                      !.packages = packages]
                     ELSE [zen EXCEPT !.imports = Append(@, <<"package", IndexIn(packages, chain[1]),
                                                              IndexIn(hashes, Tail(chain))>>),
                                      !.packages = packages, !.hashes = hashes]
    /\ UNCHANGED <<version, legacy, toZen>>

ObjectOf(index) ==
    IF index > 0 THEN <<"export", index>> ELSE IF index < 0 THEN zen.imports[-index] ELSE Null

\* build_zen_export_map
ConvertExports ==
    /\ toZen = "imports" /\ Len(zen.imports) = Len(legacy.imports)
    /\ zen' = [zen EXCEPT !.exports =
         [k \in DOMAIN legacy.exports |-> LET e == legacy.exports[k] IN
             [name |-> e.name, class |-> ObjectOf(e.class), super |-> ObjectOf(e.super),
              template |-> ObjectOf(e.template), outer |-> ObjectOf(e.outer),
              flag |-> e.flag, public |-> e.flag \/ e.generate,
              size |-> e.size, offset |-> e.offset]]]
    /\ toZen' = "exports"
    /\ UNCHANGED <<version, legacy>>

------------------------------------------------------------------------------
\* Preload dependencies.

PublicExports == {k \in DOMAIN zen.exports : zen.exports[k].public}
IsPackageImport(index) == index < 0 /\ zen.imports[-index][1] \in {"package", "global"}

\* Export bundles: the load order, cut after each command of a public export.
Bundles(order) ==
    LET add(acc, n) ==
            LET bundles == IF acc.open
                           THEN [acc.bundles EXCEPT ![Len(acc.bundles)].entries = Append(@, n)]
                           ELSE Append(acc.bundles, [offset |-> acc.offset, entries |-> <<n>>])
            IN  [bundles |-> bundles, open |-> n[1] \notin PublicExports,
                 offset |-> acc.offset + (IF n[2] = Serialize THEN zen.exports[n[1]].size ELSE 0)]
    IN  FoldLeft(add, [bundles |-> <<>>, open |-> FALSE, offset |-> 0], order).bundles

BundleOf(bundles, n) == CHOOSE b \in DOMAIN bundles : IndexIn(bundles[b].entries, n) # 0

\* What a node of each bundle waits for.
BundleWaits(bundles) ==
    UNION {{<<d, BundleOf(bundles, n)>> : d \in DependsOn(legacy, n)} : n \in Nodes(legacy)}

\* A variant of InternalArcs that leaves the order of bundles to chance.
InternalArcsNone(bundles) == {}

\* The arcs between bundles of the package.  A header up to Initial keeps none.
InternalArcs(bundles) ==
    IF version <= Initial THEN {}
    ELSE {<<BundleOf(bundles, w[1]), w[2]>> : w \in {x \in BundleWaits(bundles) : x[1][1] > 0}}
         \ {<<b, b>> : b \in DOMAIN bundles}

ImportWaits(bundles) == {w \in BundleWaits(bundles) : IsPackageImport(w[1][1])}

\* <<import, its command, bundle>>
ExternalArcs(bundles) ==
    IF version <= Initial THEN {} ELSE {<<w[1][1], w[1][2], w[2]>> : w \in ImportWaits(bundles)}

BundlesWith(chain, command) ==
    {b \in DOMAIN Foreign[chain[1]] : IndexIn(Foreign[chain[1]][b], <<chain, command>>) # 0}

\* fixup_legacy_external_arcs: the bundle of the imported package an arc comes
\* from; -1, the last one, where that package is not converted along.
ForeignBundle(chain, command, converted) ==
    IF chain[1] \in converted THEN CHOOSE b \in BundlesWith(chain, command) : TRUE ELSE -1

\* Up to Initial an arc does not say which object it is from, but a bundle of a
\* package.  A package converted along without that object is an error.
LegacyArcs(bundles, converted) ==
    IF version > Initial THEN {}
    ELSE {<<zen.imports[-w[1][1]][2][1],
            ForeignBundle(zen.imports[-w[1][1]][2], w[1][2], converted), w[2]>> :
          w \in ImportWaits(bundles)}

Unfixable(bundles, converted) ==
    /\ version <= Initial
    /\ \E w \in ImportWaits(bundles) :
          LET chain == zen.imports[-w[1][1]][2]
          IN  chain[1] \in converted /\ BundlesWith(chain, w[1][2]) = {}

\* build_zen_dependency_bundle_new: the four lists of an export, without itself
\* and without imports that are not objects of another package.
DependencyLists(k) ==
    [s \in ToSet(Sections) |->
        {d \in PreloadOf(legacy, k, s) : d # k /\ (d > 0 \/ IsPackageImport(d))}]

BuildPreloadDependencies ==
    /\ toZen = "exports"
    /\ LET order == LoadOrderOf(legacy, PublicExports)
           bundles == Bundles(order)
       IN  IF Len(order) # 2 * Len(legacy.exports)
           THEN toZen' = "circular" /\ UNCHANGED zen
           ELSE IF version >= NoExportInfo
           THEN /\ zen' = [zen EXCEPT !.lists = [k \in DOMAIN legacy.exports |-> DependencyLists(k)]]
                /\ toZen' = "built"
           ELSE \E converted \in IF version <= Initial THEN SUBSET ToSet(zen.packages) ELSE {{}} :
                   IF Unfixable(bundles, converted) THEN toZen' = "unfixable" /\ UNCHANGED zen
                   ELSE /\ zen' = [zen EXCEPT !.bundles = bundles,
                                              !.internal = InternalArcs(bundles),
                                              !.external = ExternalArcs(bundles),
                                              !.legacy = LegacyArcs(bundles, converted)]
                        /\ toZen' = "built"
    /\ UNCHANGED <<version, legacy>>

------------------------------------------------------------------------------
\* The data of the exports.

Tag == <<"tag">>

SerializedIn(entries) == SelectSeq(entries, LAMBDA n : n[2] = Serialize)
SizeOf(ns) == FoldLeft(LAMBDA acc, n : acc + zen.exports[n[1]].size, 0, ns)
Serialized == SerializedIn(FlattenSeq([b \in DOMAIN zen.bundles |-> zen.bundles[b].entries]))

\* The bundles say where their data is; the writer checks it.
Misplaced ==
    \E b \in DOMAIN zen.bundles :
        zen.bundles[b].offset #
            SizeOf(SerializedIn(FlattenSeq([c \in 1 .. b - 1 |-> zen.bundles[c].entries])))

\* write_exports_in_bundle_order: the data of each export moves to its place in
\* the bundles; what follows the last export is kept, but not the end tag.
InBundleOrder ==
    LET blob(k) == SubSeq(legacy.data, legacy.exports[k].offset + 1,
                          legacy.exports[k].offset + legacy.exports[k].size)
        end == Max({0} \cup {legacy.exports[k].offset + legacy.exports[k].size :
                                k \in DOMAIN legacy.exports})
        rest == SubSeq(legacy.data, end + 1, Len(legacy.data))
        moved == Serialized
    IN  FlattenSeq([i \in DOMAIN moved |-> blob(moved[i][1])])
        \o (IF rest # <<>> /\ Last(rest) = Tag THEN Front(rest) ELSE rest)

SerializeZenAsset ==
    /\ toZen = "built"
    /\ IF Misplaced THEN toZen' = "misplaced" /\ UNCHANGED zen
       ELSE /\ zen' = [zen EXCEPT !.data = IF version >= NoExportInfo THEN legacy.data
                                           ELSE InBundleOrder]
            /\ toZen' = "done"
    /\ UNCHANGED <<version, legacy>>

InitZen ==
    /\ version \in Versions
    /\ legacy \in LegacyPackages
    /\ zen = [imports |-> <<>>, packages |-> <<>>, hashes |-> <<>>, exports |-> <<>>,
              bundles |-> <<>>, internal |-> {}, external |-> {}, legacy |-> {},
              lists |-> <<>>, data |-> <<>>]
    /\ toZen = "imports"

NextZen == ConvertImport \/ ConvertExports \/ BuildPreloadDependencies \/ SerializeZenAsset
=============================================================================
