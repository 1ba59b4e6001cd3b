----------------------------- MODULE BundleSwap -----------------------------
(***************************************************************************)
(* What "Stages the complete bundle beside the destination and restores    *)
(* existing files if publication fails" (iostore_repack.rs) amounts to:    *)
(* the files of a bundle are replaced all at once or not at all.           *)
(***************************************************************************)
EXTENDS Naturals

CONSTANT Exts      \* the extensions of the bundle

VARIABLE bundle    \* what can be found of each file

SwapInit == bundle \in [Exts -> {"none", "old", "dir"}]

\* Only a bundle without a directory in its way is replaced.
SwapAll ==
    /\ \A e \in Exts : bundle[e] # "dir"
    /\ bundle' = [e \in Exts |-> "new"]

SwapSpec == SwapInit /\ [][SwapAll]_bundle
=============================================================================
