-------------------------- MODULE MCIoStoreWriter --------------------------
(***************************************************************************)
(* Blocks of four bytes and AES groups of two: a block of one repeated     *)
(* byte compresses to one byte, which is less than a group, one of two     *)
(* runs to three, which is not a multiple of it, and one of three runs not *)
(* at all.  The contents are empty, compressible, incompressible, and      *)
(* longer than a block.                                                    *)
(***************************************************************************)
EXTENDS IoStoreWriter

CONSTANTS p1, bulk, headerId, pathA, pathB, zlib, aes

Raw(values) == [i \in DOMAIN values |-> [raw |-> values[i]]]
MCData == {Raw(<<>>), Raw(<<1, 1, 1, 1>>), Raw(<<1, 2, 1>>), Raw(<<1, 1, 2, 2, 2>>)}

MCPackedLen(block) ==
    2 * Cardinality({i \in 2..Len(block) : block[i] # block[i - 1]}) + 1

MCPackageIds == {p1}
MCOtherIds == {bulk}
MCPaths == {pathA, pathB}
MCMethods == {zlib}
MCKeys == {aes}
=============================================================================
