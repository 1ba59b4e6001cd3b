------------------------------ MODULE MCHeaders ------------------------------
(***************************************************************************)
(* Containers: every version; three ids, two of which begin with the magic *)
(* number, one of these as if the version Initial followed; two packages   *)
(* with no, one or two imports and shader maps, whose hashes are taken     *)
(* from the same numbers as ids.                                           *)
(* Legacy packages of every version the code knows an engine for, with and *)
(* without a version in the file, data for the editor, exports, imports,   *)
(* data resources (which there are since the version 1009), and a header   *)
(* smaller or larger than the one they were cooked with.                   *)
(* Zen packages of the engines 4.27 and 5.0 to 5.5, with and without their *)
(* version, read with and without a store entry by readers who know the    *)
(* version or do not; names of even and odd lengths, narrow and wide.      *)
(***************************************************************************)
EXTENDS Headers
CONSTANTS plain, magic, magicOld, german

MCIds == {1, 2}
MCEntries ==
    {[size |-> 71, order |-> 5, exports |-> 3, bundles |-> 4, imports |-> i, shaders |-> s] :
        i \in {<<>>, <<1>>, <<2, 1>>}, s \in {<<>>, <<2>>, <<1, 2>>}}
MCCultures == {german}
MCContainers == {plain, magic, magicOld}
MCAfterMagic == (magic :> 9) @@ (magicOld :> 0)

MCContents ==
    { [names |-> <<3, 5>>, imports |-> <<1, 2>>, preload |-> <<1, 2, 3>>,
       exports |-> <<[offset |-> 0, size |-> 7], [offset |-> 7, size |-> 2]>>],
      [names |-> <<4>>, imports |-> <<>>, preload |-> <<>>, exports |-> <<[offset |-> 0, size |-> 3]>>],
      [names |-> <<>>, imports |-> <<9>>, preload |-> <<4>>, exports |-> <<>>] }

MCLegacyPackages ==
    {[names |-> c.names, imports |-> c.imports, preload |-> c.preload, exports |-> c.exports,
      version |-> v, unversioned |-> u, filtered |-> f, cooked |-> f, unversionedProperties |-> p,
      desired |-> d, resources |-> IF r /\ v >= 1009 THEN <<5, 6>> ELSE <<>>] :
        c \in MCContents, v \in {0, 1004, 1008, 1009, 1012, 1013}, u \in BOOLEAN, f \in BOOLEAN,
        p \in BOOLEAN, d \in {0, 1000}, r \in BOOLEAN}

MCFallbacks == {-1, 0, 1009}

Engine(h, v, t) == [header |-> h, version |-> v, toc |-> t]

MCEngines == { Engine(0, 0, 3), Engine(1, 1004, 5), Engine(2, 1008, 5), Engine(2, 1009, 5),
               Engine(3, 1009, 5), Engine(3, 1012, 6), Engine(4, 1013, 8) }

Name(length, wide) == [length |-> length, wide |-> wide]

MCNames == { <<Name(3, FALSE), Name(2, TRUE), Name(5, TRUE)>>, <<Name(4, FALSE), Name(1, TRUE)>>, <<Name(2, TRUE)>> }

MCShapes ==
    { [exports |-> 2, bundles |-> <<1, 3>>, dependencies |-> 3, imported |-> <<21, 22>>, arcs |-> <<2, 0>>,
       internal |-> 1, imports |-> 3, hashes |-> 1, bulk |-> 2],
      [exports |-> 1, bundles |-> <<2>>, dependencies |-> 0, imported |-> <<23, 21>>, arcs |-> <<1, 2>>,
       internal |-> 0, imports |-> 0, hashes |-> 0, bulk |-> 0],
      [exports |-> 3, bundles |-> <<2, 2, 2>>, dependencies |-> 2, imported |-> <<>>, arcs |-> <<>>,
       internal |-> 2, imports |-> 1, hashes |-> 2, bulk |-> 1] }

MCZenPackages ==
    {[engine |-> e, names |-> n, versioned |-> w, withStore |-> s, told |-> IF t THEN e.version ELSE -1,
      exports |-> x.exports, bundles |-> x.bundles, dependencies |-> x.dependencies,
      imported |-> x.imported, arcs |-> x.arcs, internal |-> x.internal, imports |-> x.imports,
      hashes |-> x.hashes, bulk |-> x.bulk] :
        e \in MCEngines, n \in MCNames, w \in BOOLEAN, s \in BOOLEAN, t \in BOOLEAN, x \in MCShapes}
=============================================================================
