-------------------------- MODULE MCPackageContext --------------------------
(***************************************************************************)
(* Three threads resolve imports of two packages, three between them.  An  *)
(* export map may hold the same hash twice, or lack it; one import can be  *)
(* inferred from its own metadata, the other cannot; one names its package *)
(* otherwise than the package does.                                        *)
(***************************************************************************)
EXTENDS PackageContext

CONSTANTS thread1, thread2, thread3, mesh, skin, root, child, private

MCThreads == {thread1, thread2, thread3}
MCPackages == {mesh, skin}
MCHashes == {root, child}
MCExportLists == {<<private, root, root>>, <<child, root>>}
MCInferable == {<<mesh, root>>, <<skin, root>>}
MCMisnamed == {<<skin, root>>}
=============================================================================
