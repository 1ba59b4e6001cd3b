------------------------- MODULE MCPackageRoundTrip -------------------------
(***************************************************************************)
(* Packages of three exports.  Two import maps: one in the order a cooker  *)
(* writes, with an object inside another, a class of the tag plugin and so *)
(* two imports that become one; one with the packages last, an object its  *)
(* package does not have, and objects with the plugin's name in their path *)
(* that are not scripts.  The data is in the order of the exports or       *)
(* not, and may be followed by more.  The candidates for dependencies      *)
(* include two that are circular together, and a package itself.           *)
(***************************************************************************)
EXTENDS PackageRoundTrip

MCScripts == {"/Script/Engine", "/Script/Tag"}
MCTags == {"/Script/Tag", "/Mod/Tag"}
MCLosses == {{}, {<<"/A", "A">>}, {<<"/B", "x">>}, {<<"/Script/Engine", "Class">>}}
MCLeafName == [p \in {"/A", "/B", "/C"} |-> IF p = "/A" THEN "A" ELSE "main"]

Both(chain) == << <<<<chain, 0>>>>, <<<<chain, 1>>>> >>
MCForeign ==
    [p \in {"/A", "/B", "/C"} |->
        IF p = "/A" THEN Both(<<"/A", "A">>)
        ELSE IF p = "/B" THEN Both(<<"/B", "x">>) \o Both(<<"/B", "x", "y">>)
        ELSE << <<<<<<"/C", "main">>, 0>>, <<<<"/C", "main">>, 1>>>> >>]

Import(name, outer) == [name |-> name, outer |-> outer]
MCImports ==
    { << Import("/Script/Engine", 0), Import("Class", -1), Import("/A", 0), Import("A", -3),
         Import("/B", 0), Import("x", -5), Import("y", -6), Import("/Script/Tag", 0),
         Import("TagData", -8) >>,
      << Import("A", -5), Import("Class", -4), Import("z", -6), Import("/Script/Engine", 0),
         Import("/A", 0), Import("/B", 0), Import("x", -6), Import("/Mod/Tag", 0), Import("one", -8),
         Import("Default__TagData", -9) >> }

MaySay(imports) ==
    { <<2, "ss", 3>>, <<3, "sc", 2>>, <<1, "cs", 3>>, <<1, "sc", IF Len(imports) = 9 THEN -4 ELSE -1>>,
      <<1, "cc", -5>>, <<2, "cs", -7>>, <<3, "ss", IF Len(imports) = 9 THEN -6 ELSE -3>> }

Exports(imports, public, order) ==
    LET size(k) == IF k = 2 THEN 2 ELSE 1
        offset(k) == FoldLeft(LAMBDA n, j : n + size(j), 0,
                              SelectSeq(SubSeq(order, 1, IndexIn(order, k) - 1), LAMBDA j : TRUE))
    IN  [k \in 1 .. 3 |->
            [name |-> <<"one", "two", "three">>[k], class |-> -2,
             super |-> IF k = 3 THEN 1 ELSE 0,
             template |-> IF k = 2 /\ Len(imports) = 9 THEN -9 ELSE 0,
             outer |-> IF k = 2 THEN 1 ELSE 0,
             flag |-> k \in public, generate |-> k = 2 /\ public # {},
             size |-> size(k), offset |-> offset(k)]]

\* The lists of an export: what the cooker always says, and what is asked for.
Lists(exports, said, k) ==
    LET e == exports[k]
        always(s) == IF s = "ss" THEN {e.super} ELSE IF s = "sc" THEN {e.class, e.template}
                     ELSE IF s = "cc" THEN {e.outer} ELSE {}
    IN  [i \in 1 .. 4 |-> Ascending((always(Sections[i]) \ {0})
                                   \cup {x[3] : x \in {y \in said : y[1] = k /\ y[2] = Sections[i]}})]

Package(imports, said, public, order, extra) ==
    LET es == Exports(imports, public, order)
        all(k) == FlattenSeq(Lists(es, said, k))
        bytes(k) == [i \in 1 .. es[k].size |-> <<es[k].name, i>>]
    IN  [name |-> "/P", imports |-> imports,
         exports |-> [k \in 1 .. 3 |->
             [first |-> Len(FlattenSeq([j \in 1 .. k - 1 |-> all(j)])),
              counts |-> [s \in ToSet(Sections) |-> Len(Lists(es, said, k)[IndexIn(Sections, s)])]]
             @@ es[k]],
         preload |-> all(1) \o all(2) \o all(3),
         data |-> FlattenSeq([i \in 1 .. 3 |-> bytes(order[i])]) \o extra \o <<Tag>>]

MCLegacyPackages ==
    UNION {{Package(imports, said, s[1], s[2], s[3]) :
               said \in {x \in SUBSET MaySay(imports) : Cardinality(x) \in {0, 2, 7}},
               s \in {<<{}, <<1, 2, 3>>, <<>>>>, <<{1, 3}, <<3, 1, 2>>, <<<<"extra">>>>>>}} :
           imports \in MCImports}
=============================================================================
