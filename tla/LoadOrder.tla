----------------------------- MODULE LoadOrder -----------------------------
(***************************************************************************)
(* The load order of a package's exports, in                               *)
(* src/src/zen_asset_conversion.rs: build_zen_preload_dependencies makes a *)
(* graph of two nodes for each export, its creation and its serialization, *)
(* with the edges the preload dependencies of the legacy package give, and *)
(* sort_dependencies_in_load_order sorts it, the most urgent of the nodes  *)
(* that wait for nothing first.                                            *)
(*                                                                         *)
(* A dependency listed twice is counted and discharged twice by the code,  *)
(* so a set of edges stands for the lists.  Dependencies on imports do not *)
(* enter the graph.                                                        *)
(***************************************************************************)
EXTENDS Naturals, Sequences, FiniteSets

CONSTANTS ExportCount,  \* exports of the package
          Preloads      \* the sets of preload dependencies considered

Exports == 0..ExportCount - 1
Commands == {"Create", "Serialize"}
Nodes == [export : Exports, command : Commands]

ASSUME ExportCountIsNat == ExportCount \in Nat
ASSUME PreloadsAreEdges == Preloads \subseteq SUBSET (Nodes \X Nodes)

VARIABLES preload,     \* the preload dependencies: <<dependency, dependant>>
          public,      \* the public exports
          incoming_edge_count,
          nodes_with_no_incoming_edges,
          load_order,
          sort         \* "running", "sorted", "cyclic"

input == <<preload, public>>
sortVars == <<incoming_edge_count, nodes_with_no_incoming_edges, load_order, sort>>
orderVars == <<input, sortVars>>

CreateOf(n) == [export |-> n.export, command |-> "Create"]

\* Serialization depends on creation, and on what the preload dependencies add.
DependsOn(n, d) ==
    \/ n.command = "Serialize" /\ d = CreateOf(n)
    \/ <<d, n>> \in preload

Dependencies(n) == {d \in Nodes : DependsOn(n, d)}

Rank(n) == IF n.command = "Create" THEN 0 ELSE 1

\* ZenExportGraphNode::cmp: public exports first, then Create before Serialize,
\* then export order.
Before(n, m) ==
    LET key(k) == <<IF k.export \in public THEN 0 ELSE 1, Rank(k), k.export>>
        differ(i) == key(n)[i] # key(m)[i]
    IN  \E i \in 1..3 :
            /\ key(n)[i] < key(m)[i]
            /\ \A j \in 1..i - 1 : ~differ(j)

SortInit ==
    /\ preload \in Preloads
    /\ public \in SUBSET Exports
    /\ incoming_edge_count = [n \in Nodes |-> Cardinality(Dependencies(n))]
    /\ nodes_with_no_incoming_edges = {n \in Nodes : Dependencies(n) = {}}
    /\ load_order = <<>>
    /\ sort = "running"

\* A variant of Take that pushes a dependant at its first edge, not its last.
TakePushesEarly(n) ==
    /\ n \in nodes_with_no_incoming_edges
    /\ \A m \in nodes_with_no_incoming_edges \ {n} : Before(n, m)
    /\ load_order' = Append(load_order, n)
    /\ incoming_edge_count' =
        [m \in Nodes |-> IF DependsOn(m, n) /\ incoming_edge_count[m] > 0
                         THEN incoming_edge_count[m] - 1 ELSE incoming_edge_count[m]]
    /\ nodes_with_no_incoming_edges' =
        (nodes_with_no_incoming_edges \ {n}) \cup
            {m \in Nodes : DependsOn(m, n) /\ \A i \in 1..Len(load_order) : load_order[i] # m}
    /\ UNCHANGED <<input, sort>>

\* A variant of Take that looks at the count before it removes the edge.
TakeLooksFirst(n) ==
    /\ n \in nodes_with_no_incoming_edges
    /\ \A m \in nodes_with_no_incoming_edges \ {n} : Before(n, m)
    /\ load_order' = Append(load_order, n)
    /\ incoming_edge_count' =
        [m \in Nodes |-> IF DependsOn(m, n) THEN incoming_edge_count[m] - 1
                         ELSE incoming_edge_count[m]]
    /\ nodes_with_no_incoming_edges' =
        (nodes_with_no_incoming_edges \ {n}) \cup
            {m \in Nodes : DependsOn(m, n) /\ incoming_edge_count[m] = 0}
    /\ UNCHANGED <<input, sort>>

\* A variant of Take whose heap is a bag.
TakeAny(n) ==
    /\ n \in nodes_with_no_incoming_edges
    /\ load_order' = Append(load_order, n)
    /\ incoming_edge_count' =
        [m \in Nodes |-> IF DependsOn(m, n) THEN incoming_edge_count[m] - 1
                         ELSE incoming_edge_count[m]]
    /\ nodes_with_no_incoming_edges' =
        (nodes_with_no_incoming_edges \ {n}) \cup
            {m \in Nodes : DependsOn(m, n) /\ incoming_edge_count[m] = 1}
    /\ UNCHANGED <<input, sort>>

\* A turn of the loop: the first of the waiting nodes is taken, an edge of each
\* node that depends on it removed, and those that have none left wait as well.
Take(n) ==
    /\ n \in nodes_with_no_incoming_edges
    /\ \A m \in nodes_with_no_incoming_edges \ {n} : Before(n, m)
    /\ load_order' = Append(load_order, n)
    /\ incoming_edge_count' =
        [m \in Nodes |-> IF DependsOn(m, n) THEN incoming_edge_count[m] - 1
                         ELSE incoming_edge_count[m]]
    /\ nodes_with_no_incoming_edges' =
        (nodes_with_no_incoming_edges \ {n}) \cup
            {m \in Nodes : DependsOn(m, n) /\ incoming_edge_count[m] = 1}
    /\ UNCHANGED <<input, sort>>

\* No node waits: the order is complete, or there is a circular dependency.
Finish ==
    /\ sort = "running"
    /\ nodes_with_no_incoming_edges = {}
    /\ sort' = IF Len(load_order) = Cardinality(Nodes) THEN "sorted" ELSE "cyclic"
    /\ UNCHANGED <<input, incoming_edge_count, nodes_with_no_incoming_edges, load_order>>

Sorted == sort # "running" /\ UNCHANGED orderVars

SortNext == (\E n \in Nodes : Take(n)) \/ Finish \/ Sorted

SortSpec == SortInit /\ [][SortNext]_orderVars

-----------------------------------------------------------------------------
Ordered == {load_order[i] : i \in 1..Len(load_order)}

SortTypeOK ==
    /\ preload \in SUBSET (Nodes \X Nodes)
    /\ public \in SUBSET Exports
    /\ incoming_edge_count \in [Nodes -> Nat]
    /\ nodes_with_no_incoming_edges \in SUBSET Nodes
    /\ load_order \in Seq(Nodes)
    /\ sort \in {"running", "sorted", "cyclic"}

\* The order can be loaded: what a node depends on comes before it, every node
\* comes once, and an order that is returned leaves none out.
TopologicalOrder ==
    /\ \A i \in 1..Len(load_order) : \A d \in Dependencies(load_order[i]) :
            \E j \in 1..i - 1 : load_order[j] = d
    /\ \A i, j \in 1..Len(load_order) : load_order[i] = load_order[j] => i = j
    /\ sort = "sorted" => Ordered = Nodes

\* "If we did not we have a circular dependency on one of the nodes": the error is
\* returned only for a package in which some exports wait for each other, never
\* because an edge was counted that no node discharges.
ErrorMeansCycle ==
    sort = "cyclic" =>
        \E S \in SUBSET Nodes :
            S # {} /\ \A n \in S : Dependencies(n) \cap S # {}

\* The order is the most urgent possible, and so the same whatever the order in
\* which the graph was built (HashMap iteration): a node comes after a less urgent
\* one only if that one, or something between them, is among its dependencies.
LateOnlyIfForced ==
    \A i, j \in 1..Len(load_order) :
        i < j /\ Before(load_order[j], load_order[i]) =>
            \E k \in i..j - 1 : load_order[k] \in Dependencies(load_order[j])
=============================================================================
