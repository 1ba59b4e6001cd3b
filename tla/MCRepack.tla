------------------------------ MODULE MCRepack ------------------------------
(***************************************************************************)
(* Two chunks of up to two blocks of four bytes, compressible or not, under*)
(* no, one or two methods, with or without a key, published where there is *)
(* nothing; and one bundle with a .pak published over every combination of *)
(* what can be at the destination.                                         *)
(***************************************************************************)
EXTENDS Repack, FiniteSets
CONSTANTS zlib, lz4, aes, newAes
Raw(values) == [i \in DOMAIN values |-> [raw |-> values[i]]]
MCContents == {Raw(<<>>), Raw(<<1, 1, 1>>), Raw(<<1, 1, 1, 1, 2, 1>>)}
MCPackedLen(block) == LET steps == {i \in 2 .. 4 : i \in DOMAIN block /\ block[i] # block[i - 1]}
                      IN  2 * Cardinality(steps) + 1
MCMethods == {zlib, lz4}
MCMethodLists == {<<>>, <<lz4>>, <<lz4, zlib>>}
MCInputKeys == {aes}
MCOutputKeys == {newAes}

OneBundle ==
    /\ input.toc.chunk_offset_lengths = <<[offset |-> 0, length |-> 3], [offset |-> 4, length |-> 3]>>
    /\ request = [compression |-> zlib, key |-> newAes]
    /\ input.toc.methods # <<>> /\ input.toc.key = aes
Empty == [e \in Exts |-> "none"]
MCInit ==
    /\ TransformInit
    /\ original \in IF OneBundle THEN [Exts -> {"none", "old", "dir"}] ELSE {Empty}
    /\ Init
MCSpec == MCInit /\ [][RepackNext]_repackVars
=============================================================================
