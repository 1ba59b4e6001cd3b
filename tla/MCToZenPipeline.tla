-------------------------- MODULE MCToZenPipeline --------------------------
(***************************************************************************)
(* Two threads convert three assets; b1 and b2 hold the same package pkgQ, *)
(* a1 imports it and one that is not in the mod, and they import a1's.     *)
(***************************************************************************)
EXTENDS ToZenPipeline, TLC

CONSTANTS a1, b1, b2, pkgP, pkgQ, engine, w1, w2

MCAssets == {a1, b1, b2}
MCWorkers == {w1, w2}
MCPackageOf == a1 :> pkgP @@ b1 :> pkgQ @@ b2 :> pkgQ
MCImports == a1 :> {pkgQ, engine} @@ b1 :> {pkgP} @@ b2 :> {pkgP}
=============================================================================
