---------------------------- MODULE MCLoadOrder ----------------------------
(***************************************************************************)
(* Three exports, any of them public, and every set of up to three preload *)
(* dependencies between their six nodes.                                   *)
(***************************************************************************)
EXTENDS LoadOrder

Edges == Nodes \X Nodes
UpToThree == {{}} \cup {{e, f, g} : e, f, g \in Edges}
=============================================================================
