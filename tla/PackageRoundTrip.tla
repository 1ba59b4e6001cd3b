-------------------------- MODULE PackageRoundTrip --------------------------
(***************************************************************************)
(* A legacy package is converted to Zen and back, as a modder does who     *)
(* packs a mod and unpacks it again.  What must come back is a package the *)
(* engine loads to the same effect: its imports where the data of its      *)
(* exports expects them, its references, an order of loading that honours  *)
(* what it asked for, and its data.                                        *)
(***************************************************************************)
EXTENDS LegacyPackage

vars == <<zenVars, legacyVars>>

Ended == toZen \in {"circular", "unfixable", "misplaced"}
         \/ toLegacy \in {"failed", "panicked", "done"}
Done == Ended /\ UNCHANGED vars

Init == InitZen /\ InitLegacy
Next == (NextZen /\ UNCHANGED legacyVars) \/ NextLegacy \/ Done

Spec == Init /\ [][Next]_vars

------------------------------------------------------------------------------
Back == [name |-> built.name, imports |-> built.imports, exports |-> built.exports,
         preload |-> built.preload, data |-> built.data]
Returned == toLegacy = "done"

\* An object the containers at hand do not have, or not so that it can be told:
\* before its package is named in the package, any missing one can hide it.
Missing(chain) ==
    \/ Lost(chain)
    \/ chain[1] \notin available \/ BundlesWith(chain, Create) = {}
    \/ version <= Initial /\ ~(ToSet(zen.packages) \subseteq available)

\* An index of the package that came back stands for what one of the original does.
Denotes(chain, new) ==
    IF Tagged(chain) \/ chain[1] \in ScriptPackages
    THEN new = Equivalent(chain) \/ (Lost(Equivalent(chain)) /\ new = <<Unknown, UnknownExport>>)
    ELSE new = chain \/ (Missing(chain) /\ new = <<Unknown, UnknownExport>>)
Same(index, new) ==
    IF index >= 0 THEN new = index
    ELSE new < 0 /\ Denotes(Chain(legacy, index), Chain(Back, new))

RECURSIVE Needs(_, _)
\* All that a set of nodes waits for.
Needs(l, nodes) ==
    LET more == nodes \cup UNION {DependsOn(l, n) : n \in ExportsOf(nodes)}
    IN  IF more = nodes THEN nodes ELSE Needs(l, more)

\* The records of both packages: indices name what is there, and offsets of
\* bundles lie within the data.
TypeOK ==
    /\ version \in Versions
    /\ \A i \in DOMAIN zen.imports :
          zen.imports[i][1] = "package" => /\ zen.imports[i][2] \in DOMAIN zen.packages
                                           /\ zen.imports[i][3] \in DOMAIN zen.hashes
    /\ \A a \in zen.internal : a[1] \in DOMAIN zen.bundles /\ a[2] \in DOMAIN zen.bundles
    /\ \A a \in zen.legacy : /\ a[2] \in {-1} \cup DOMAIN Foreign[a[1]]
                             /\ a[3] \in DOMAIN zen.bundles
    /\ toLegacy \in {"exports", "streamed", "resolved", "finalized", "done"} =>
          \A k \in DOMAIN built.exports :
              LET e == built.exports[k]
              IN  {e.class, e.super, e.template, e.outer}
                      \subseteq -Len(built.imports) .. Len(built.exports)

\* The data of the exports refers to imports by position: wherever the Zen
\* package has an import, the new import map has the same object, or an unknown
\* one if it is not to be found, and never another (build_import_reorder_plan).
ImportsStayInPlace ==
    Returned => \A i \in DOMAIN legacy.imports :
                    zen.imports[i] # Null =>
                        Denotes(Chain(legacy, -i), Chain(Back, -i))

\* Class, parent, template and outer of every export are the same objects: the
\* indices survive two renumberings, of which the second moves them again.
ReferencesKept ==
    Returned => \A k \in DOMAIN legacy.exports :
                    LET e == legacy.exports[k]
                        new == Back.exports[k]
                    IN  /\ Same(e.class, new.class) /\ Same(e.super, new.super)
                        /\ Same(e.template, new.template) /\ Same(e.outer, new.outer)

\* What was created or serialized before something else still is, though bundles
\* forget which export an arc was about and headers up to Initial which object.
OrderKept ==
    Returned => \A n \in Nodes(legacy) :
        LET needs == Needs(Back, {n})
            objects == {<<Chain(Back, m[1]), m[2]>> : m \in {x \in needs : x[1] < 0}}
            position(x) == IndexIn(FlattenSeq(Foreign[x[1][1]]), x)
        IN  \A d \in DependsOn(legacy, n) :
                /\ d[1] > 0 => d \in needs
                /\ IsPackageImport(d[1]) =>
                      LET chain == Chain(legacy, d[1])
                      IN  IF version > Initial
                          THEN \E x \in objects : x[2] = d[2] /\ Denotes(chain, x[1])
                          ELSE \/ Missing(chain)
                               \/ \E x \in lost : x[1] = chain[1]
                               \/ \E x \in objects : /\ x[1][1] = chain[1]
                                                  /\ position(x) >= position(<<chain, d[2]>>)

\* From NoExportInfo on the lists of an export say exactly what they said: none
\* is lost but those of script objects, and none is made up.
DependenciesExact ==
    (Returned /\ version >= NoExportInfo) =>
        \A k \in DOMAIN legacy.exports, s \in ToSet(Sections) :
            /\ \A d \in PreloadOf(legacy, k, s) \ {k} :
                  (d > 0 \/ IsPackageImport(d)) => \E e \in PreloadOf(Back, k, s) : Same(d, e)
            /\ \A e \in PreloadOf(Back, k, s) : \E d \in PreloadOf(legacy, k, s) : Same(d, e)

\* A package that could be loaded comes back, and can be: no step fails and the
\* dependencies it got in addition are not circular.
StillLoadable ==
    /\ toZen # "misplaced" /\ toLegacy \notin {"failed", "panicked"}
    /\ Returned => Len(LoadOrderOf(Back, {k \in DOMAIN built.exports :
                                              built.exports[k].flag \/ built.exports[k].generate}))
                   = 2 * Len(built.exports)

\* Each export has its bytes where its entry says, whatever the order of the
\* bundles, and what follows the last one, end tag included, is kept.
ExportDataKept ==
    Returned =>
        LET data(l, k) == SubSeq(l.data, l.exports[k].offset + 1,
                                 l.exports[k].offset + l.exports[k].size)
            total(l) == Max({l.exports[k].offset + l.exports[k].size : k \in DOMAIN l.exports})
            rest(l) == SubSeq(l.data, total(l) + 1, Len(l.data))
        IN  /\ \A k \in DOMAIN legacy.exports : data(Back, k) = data(legacy, k)
            /\ rest(Back) = rest(legacy)

\* A package that is only streamed ahead is not forgotten: every package at hand
\* that the Zen package imports is imported, unless an import was unknown.
PackagesStayImported ==
    (Returned /\ \A i \in DOMAIN built.imports : built.imports[i].name # Unknown) =>
        \A p \in ToSet(zen.packages) \cap available :
            \E i \in DOMAIN built.imports : built.imports[i].outer = 0 /\ built.imports[i].name = p

\* What a package says survives the way to Zen and back: imports, references and
\* data, through import maps that are filled anew, exports that are laid out in
\* bundles, and an import map that is put into the old order at the end.
AssetSurvives ==
    TypeOK /\ ImportsStayInPlace /\ ReferencesKept /\ ExportDataKept /\ PackagesStayImported

\* How a package is loaded survives as well: nothing is created or serialized
\* before what it waited for, no dependency is made up, and what the engine could
\* load it can load again.
LoadOrderSurvives == OrderKept /\ DependenciesExact /\ StillLoadable
=============================================================================
