----------------------------- MODULE ToZenProofs --------------------------
(***************************************************************************)
(* Conversion to Zen, for any number of assets, threads, packages, imports *)
(* and exports.                                                            *)
(*                                                                         *)
(* The pipeline: no asset is lost between the threads or written twice, Ok *)
(* means a complete container, arcs are resolved against what is read, and *)
(* bulk data is read in the order of the package data.  The invariant      *)
(* is in three parts.  Places: where an asset can be, and that it is in    *)
(* one place.  Ends: what the two ends of the channel, the short circuit   *)
(* and the errors say of each other.  Shape: in what order the chunks lie  *)
(* in the container, in either mode of writing.                            *)
(*                                                                         *)
(* The load order of one asset's exports: it is topological, most urgent   *)
(* first, and refused only for a circular package.  The invariant says     *)
(* what the counters and the heap are at every turn: a node's counter is   *)
(* the number of its dependencies not yet in the order, and the heap holds *)
(* exactly the nodes that have none left.                                  *)
(***************************************************************************)
EXTENDS ToZenPipeline, LoadOrder, FiniteSetTheorems, SequenceTheorems, TLAPS

-----------------------------------------------------------------------------
(* The load order.                                                         *)

Waiting(n) == Dependencies(n) \ Ordered

DependenciesFirst ==
    \A i \in 1..Len(load_order) : \A d \in Dependencies(load_order[i]) :
        \E j \in 1..i - 1 : load_order[j] = d

Distinct ==
    /\ \A i, j \in 1..Len(load_order) : load_order[i] = load_order[j] => i = j
    /\ Cardinality(Ordered) = Len(load_order)

CountersOK ==
    \A n \in Nodes : incoming_edge_count[n] = Cardinality(Waiting(n))

HeapOK == nodes_with_no_incoming_edges = {n \in Nodes \ Ordered : Waiting(n) = {}}

\* A node in the heap that is more urgent than one already in the order was waiting
\* for that one or for a later one.
HeapForced ==
    \A m \in nodes_with_no_incoming_edges : \A i \in 1..Len(load_order) :
        Before(m, load_order[i]) =>
            \E k \in i..Len(load_order) : load_order[k] \in Dependencies(m)

SortOK ==
    /\ sort # "running" => nodes_with_no_incoming_edges = {}
    /\ sort = "sorted" => Ordered = Nodes
    /\ sort = "cyclic" => Ordered # Nodes

SortInv ==
    /\ SortTypeOK
    /\ DependenciesFirst
    /\ Distinct
    /\ CountersOK
    /\ HeapOK
    /\ HeapForced
    /\ LateOnlyIfForced
    /\ SortOK

-----------------------------------------------------------------------------
(* Nodes                                                                   *)

\* There are finitely many nodes, so an edge count is a natural number.
LEMMA NodesFinite == IsFiniteSet(Nodes)
<1> DEFINE f == [i \in 1..2 * ExportCount |->
                    IF i <= ExportCount THEN [export |-> i - 1, command |-> "Create"]
                    ELSE [export |-> i - ExportCount - 1, command |-> "Serialize"]]
<1>1. f \in [1..2 * ExportCount -> Nodes]
    BY ExportCountIsNat DEF Nodes, Exports, Commands
<1>2. ASSUME NEW n \in Nodes PROVE \E i \in 1..2 * ExportCount : f[i] = n
    <2>1. n.export \in 0..ExportCount - 1 /\ n.command \in {"Create", "Serialize"}
          /\ n = [export |-> n.export, command |-> n.command]
        BY DEF Nodes, Exports, Commands
    <2>2. CASE n.command = "Create"
        <3>1. n.export + 1 \in 1..2 * ExportCount /\ n.export + 1 <= ExportCount
            BY <2>1, ExportCountIsNat
        <3>2. f[n.export + 1] = n
            BY <2>1, <2>2, <3>1, ExportCountIsNat
        <3> QED BY <3>1, <3>2
    <2>3. CASE n.command = "Serialize"
        <3>1. /\ n.export + ExportCount + 1 \in 1..2 * ExportCount
              /\ ~(n.export + ExportCount + 1 <= ExportCount)
            BY <2>1, ExportCountIsNat
        <3>2. f[n.export + ExportCount + 1] = n
            BY <2>1, <2>3, <3>1, ExportCountIsNat
        <3> QED BY <3>1, <3>2
    <2> QED BY <2>1, <2>2, <2>3
<1>3. ExistsSurjection(1..2 * ExportCount, Nodes)
    BY <1>1, <1>2 DEF ExistsSurjection, Surjection
<1>4. 2 * ExportCount \in Nat
    BY ExportCountIsNat
<1> QED BY <1>3, <1>4, FS_NatSurjection

\* Sets of nodes have a cardinality, zero only if they are empty.
LEMMA NodeSets ==
    ASSUME NEW S \in SUBSET Nodes
    PROVE  /\ IsFiniteSet(S) /\ Cardinality(S) \in Nat
           /\ Cardinality(S) = 0 <=> S = {}
BY NodesFinite, FS_Subset, FS_CardinalityType, FS_EmptySet

LEMMA DependenciesAreNodes == \A n : Dependencies(n) \in SUBSET Nodes
BY DEF Dependencies

\* Of two nodes at most one is the more urgent.
LEMMA BeforeAsymmetric ==
    ASSUME NEW n \in Nodes, NEW m \in Nodes, Before(n, m)
    PROVE  ~Before(m, n)
<1> DEFINE p(k) == IF k.export \in public THEN 0 ELSE 1
           key(k) == <<p(k), Rank(k), k.export>>
<1>1. n.export \in Nat /\ m.export \in Nat
    BY ExportCountIsNat DEF Nodes, Exports
<1>2. p(n) \in Nat /\ p(m) \in Nat /\ Rank(n) \in Nat /\ Rank(m) \in Nat
    BY DEF Rank
<1> HIDE DEF p
<1>3. PICK i \in 1..3 : key(n)[i] < key(m)[i] /\ \A j \in 1..i - 1 : key(n)[j] = key(m)[j]
    BY DEF Before, p
<1>4. ASSUME NEW l \in 1..3, key(m)[l] < key(n)[l], \A j \in 1..l - 1 : key(m)[j] = key(n)[j]
      PROVE FALSE
    <2>1. \A j \in 1..3 : key(n)[j] \in Nat /\ key(m)[j] \in Nat
        BY <1>1, <1>2
    <2>2. i < l \/ i = l \/ l < i
        OBVIOUS
    <2> HIDE DEF key
    <2> QED BY <1>3, <1>4, <2>1, <2>2
<1> QED BY <1>4 DEF Before, p

-----------------------------------------------------------------------------
(* The steps                                                               *)

LEMMA InitSortInv == SortInit => SortInv
<1> SUFFICES ASSUME SortInit PROVE SortInv
    OBVIOUS
<1> USE DEF SortInit
<1>1. Ordered = {} /\ Len(load_order) = 0
    BY DEF Ordered
<1>2. SortTypeOK
    <2>1. \A n \in Nodes : Cardinality(Dependencies(n)) \in Nat
        BY NodeSets, DependenciesAreNodes
    <2> QED BY <2>1, PreloadsAreEdges DEF SortTypeOK
<1>3. DependenciesFirst /\ Distinct /\ HeapForced /\ LateOnlyIfForced
    BY <1>1, FS_EmptySet DEF DependenciesFirst, Distinct, HeapForced, LateOnlyIfForced
<1>4. \A n : Waiting(n) = Dependencies(n)
    BY <1>1 DEF Waiting
<1>5. CountersOK /\ HeapOK /\ SortOK
    BY <1>1, <1>4 DEF CountersOK, HeapOK, SortOK
<1> QED BY <1>2, <1>3, <1>5 DEF SortInv

\* A turn of the loop.
LEMMA TakeSortInv ==
    ASSUME SortInv, NEW n \in Nodes, Take(n)
    PROVE  SortInv'
<1> DEFINE L == Len(load_order)
<1>1. /\ SortTypeOK /\ DependenciesFirst /\ Distinct /\ CountersOK /\ HeapOK /\ HeapForced
      /\ LateOnlyIfForced /\ SortOK
    BY DEF SortInv
<1>2. L \in Nat /\ load_order \in Seq(Nodes)
    BY <1>1 DEF SortTypeOK
<1>3. n \in nodes_with_no_incoming_edges /\ n \notin Ordered /\ Waiting(n) = {}
    BY <1>1 DEF Take, HeapOK
<1>4. /\ load_order' \in Seq(Nodes) /\ Len(load_order') = L + 1
      /\ \A i \in 1..L : load_order'[i] = load_order[i]
      /\ load_order'[L + 1] = n
    BY <1>2 DEF Take
<1> HIDE DEF L
<1>5. 1..L + 1 = 1..L \cup {L + 1} /\ L + 1 \notin 1..L
    BY <1>2
<1>6. Ordered' = Ordered \cup {n}
    BY <1>4, <1>5 DEF Ordered, L
<1>7. UNCHANGED <<preload, public, sort>> /\ \A m : Dependencies(m)' = Dependencies(m)
    BY DEF Take, input, Dependencies, DependsOn
<1>8. \A m \in Nodes : Waiting(m)' = Waiting(m) \ {n}
    BY <1>6, <1>7 DEF Waiting
<1>9. \A m \in Nodes : DependsOn(m, n) <=> n \in Waiting(m)
    BY <1>3 DEF Waiting, Dependencies
<1>10. \A m \in Nodes : Waiting(m) \in SUBSET Nodes
    BY DEF Waiting, Dependencies
<1>11. \A m \in Nodes :
          Cardinality(Waiting(m)') = IF DependsOn(m, n) THEN incoming_edge_count[m] - 1
                                     ELSE incoming_edge_count[m]
    <2> TAKE m \in Nodes
    <2>1. incoming_edge_count[m] = Cardinality(Waiting(m)) /\ IsFiniteSet(Waiting(m))
        BY <1>1, <1>10, NodeSets DEF CountersOK
    <2>2. Cardinality(Waiting(m) \ {n}) =
            IF n \in Waiting(m) THEN Cardinality(Waiting(m)) - 1 ELSE Cardinality(Waiting(m))
        BY <2>1, FS_RemoveElement
    <2> QED BY <1>8, <1>9, <2>1, <2>2
<1>12. CountersOK'
    BY <1>11 DEF CountersOK, Take
<1>13. \A m \in Nodes : Waiting(m)' = {} <=>
            Waiting(m) = {} \/ (DependsOn(m, n) /\ incoming_edge_count[m] = 1)
    <2> TAKE m \in Nodes
    <2>1. Waiting(m)' \in SUBSET Nodes
        BY <1>8, <1>10
    <2>2. Waiting(m)' = {} <=> Cardinality(Waiting(m)') = 0
        BY <2>1, NodeSets
    <2>3. Waiting(m) = {} <=> incoming_edge_count[m] = 0
        BY <1>1, <1>10, NodeSets DEF CountersOK
    <2>4. incoming_edge_count[m] \in Nat
        BY <1>1 DEF SortTypeOK
    <2>5. DependsOn(m, n) => Waiting(m) # {}
        BY <1>9
    <2> QED BY <1>11, <2>2, <2>3, <2>4, <2>5
<1>14. SortTypeOK'
    <2>1. incoming_edge_count' \in [Nodes -> Nat]
        <3>1. \A m \in Nodes : Cardinality(Waiting(m)') \in Nat
            BY <1>8, <1>10, NodeSets
        <3> QED BY <1>11, <3>1 DEF Take
    <2>2. nodes_with_no_incoming_edges' \in SUBSET Nodes
        BY <1>1 DEF Take, SortTypeOK
    <2> QED BY <1>1, <1>4, <1>7, <2>1, <2>2 DEF SortTypeOK
<1>15. HeapOK'
    <2>1. \A m \in Nodes : DependsOn(m, n) => m \notin Ordered
        <3> SUFFICES ASSUME NEW m \in Nodes, DependsOn(m, n), m \in Ordered PROVE FALSE
            OBVIOUS
        <3>1. PICK i \in 1..Len(load_order) : load_order[i] = m
            BY DEF Ordered
        <3>2. n \in Dependencies(m)
            BY DEF Dependencies
        <3>3. \E j \in 1..i - 1 : load_order[j] = n
            BY <1>1, <3>1, <3>2 DEF DependenciesFirst
        <3>4. n \in Ordered
            BY <1>2, <3>3 DEF Ordered
        <3> QED BY <1>3, <3>4
    <2>2. DependsOn(n, n) = FALSE
        BY <1>3, <1>9
    <2>3. nodes_with_no_incoming_edges' =
            (nodes_with_no_incoming_edges \ {n}) \cup
                {m \in Nodes : DependsOn(m, n) /\ incoming_edge_count[m] = 1}
        BY DEF Take
    <2>4. nodes_with_no_incoming_edges = {m \in Nodes \ Ordered : Waiting(m) = {}}
        BY <1>1 DEF HeapOK
    <2>5. \A m \in Nodes : m \in nodes_with_no_incoming_edges' <=>
                m \notin Ordered' /\ Waiting(m)' = {}
        BY <1>6, <1>13, <2>1, <2>2, <2>3, <2>4
    <2> QED BY <1>14, <2>5 DEF HeapOK, SortTypeOK
<1>16. DependenciesFirst'
    <2> SUFFICES ASSUME NEW i \in 1..L + 1, NEW d \in Dependencies(load_order'[i])
                 PROVE  \E j \in 1..i - 1 : load_order'[j] = d
        BY <1>4, <1>7 DEF DependenciesFirst
    <2>1. CASE i \in 1..L
        <3>1. PICK j \in 1..i - 1 : load_order[j] = d
            BY <1>1, <1>4, <2>1 DEF DependenciesFirst, L
        <3>2. j \in 1..L
            BY <1>2, <2>1
        <3> QED BY <1>4, <3>1, <3>2
    <2>2. CASE i = L + 1
        <3>1. d \in Ordered
            BY <1>3, <1>4, <2>2 DEF Waiting
        <3>2. PICK j \in 1..L : load_order[j] = d
            BY <3>1 DEF Ordered, L
        <3>3. i - 1 = L
            BY <1>2, <2>2
        <3> QED BY <1>4, <3>2, <3>3
    <2> QED BY <1>5, <2>1, <2>2
<1>17. Distinct'
    <2>1. \A i \in 1..L : load_order[i] # n
        BY <1>3 DEF Ordered, L
    <2>2. \A i, j \in 1..L + 1 : load_order'[i] = load_order'[j] => i = j
        BY <1>1, <1>4, <1>5, <2>1 DEF Distinct, L
    <2>3. Ordered \in SUBSET Nodes
        BY <1>2 DEF Ordered
    <2>4. Cardinality(Ordered') = Cardinality(Ordered) + 1
        BY <1>3, <1>6, <2>3, NodeSets, FS_AddElement
    <2> QED BY <1>1, <1>4, <2>2, <2>4 DEF Distinct, L
<1>18. \A a, b : Before(a, b)' <=> Before(a, b)
    BY <1>7 DEF Before
<1>19. HeapForced'
    <2> SUFFICES ASSUME NEW m \in nodes_with_no_incoming_edges', NEW i \in 1..L + 1,
                        Before(m, load_order'[i])
                 PROVE  \E k \in i..L + 1 : load_order'[k] \in Dependencies(m)
        BY <1>4, <1>7, <1>18 DEF HeapForced
    <2>1. CASE DependsOn(m, n) /\ m \in Nodes
        <3>1. load_order'[L + 1] \in Dependencies(m) /\ L + 1 \in i..L + 1
            BY <1>2, <1>4, <2>1 DEF Dependencies
        <3> QED BY <3>1
    <2>2. CASE m \in nodes_with_no_incoming_edges \ {n}
        <3>1. Before(n, m) /\ m \in Nodes
            BY <1>1, <2>2 DEF Take, SortTypeOK
        <3>2. i # L + 1
            BY <1>4, <3>1, BeforeAsymmetric
        <3>3. i \in 1..L
            BY <1>5, <3>2
        <3>4. PICK k \in i..L : load_order[k] \in Dependencies(m)
            BY <1>1, <1>4, <2>2, <3>3 DEF HeapForced, L
        <3>5. k \in 1..L /\ k \in i..L + 1
            BY <1>2, <3>3
        <3> QED BY <1>4, <3>4, <3>5
    <2>3. m \in nodes_with_no_incoming_edges \ {n} \/ (DependsOn(m, n) /\ m \in Nodes)
        BY DEF Take
    <2> QED BY <2>1, <2>2, <2>3
<1>20. LateOnlyIfForced'
    <2> SUFFICES ASSUME NEW i \in 1..L + 1, NEW j \in 1..L + 1, i < j,
                        Before(load_order'[j], load_order'[i])
                 PROVE  \E k \in i..j - 1 : load_order'[k] \in Dependencies(load_order'[j])
        BY <1>4, <1>7, <1>18 DEF LateOnlyIfForced
    <2>1. CASE j \in 1..L
        <3>1. i \in 1..L
            BY <1>2, <2>1
        <3>2. PICK k \in i..j - 1 : load_order[k] \in Dependencies(load_order[j])
            BY <1>1, <1>4, <2>1, <3>1 DEF LateOnlyIfForced, L
        <3>3. k \in 1..L
            BY <1>2, <2>1, <3>1
        <3> QED BY <1>4, <2>1, <3>2, <3>3
    <2>2. CASE j = L + 1
        <3>1. i \in 1..L /\ j - 1 = L
            BY <1>2, <1>5, <2>2
        <3>2. PICK k \in i..L : load_order[k] \in Dependencies(n)
            BY <1>1, <1>3, <1>4, <2>2, <3>1 DEF HeapForced, L
        <3>3. k \in 1..L
            BY <1>2, <3>1
        <3> QED BY <1>4, <2>2, <3>1, <3>2, <3>3
    <2> QED BY <1>5, <2>1, <2>2
<1>21. SortOK'
    BY <1>1, <1>3, <1>7 DEF SortOK
<1> QED BY <1>12, <1>14, <1>15, <1>16, <1>17, <1>19, <1>20, <1>21 DEF SortInv

\* All but the sort's verdict depends on the graph, the counters, the heap and the
\* order only.
LEMMA SameOrderSortInv ==
    ASSUME SortInv, SortOK', sort' \in {"running", "sorted", "cyclic"},
           UNCHANGED <<preload, public, incoming_edge_count, nodes_with_no_incoming_edges,
                       load_order>>
    PROVE  SortInv'
<1>1. Ordered' = Ordered
    BY DEF Ordered
<1>2. \A m : Dependencies(m)' = Dependencies(m) /\ Waiting(m)' = Waiting(m)
    BY <1>1 DEF Dependencies, DependsOn, Waiting
<1>3. \A a, b : Before(a, b)' <=> Before(a, b)
    BY DEF Before
<1>4. SortTypeOK'
    BY DEF SortInv, SortTypeOK
<1>5. DependenciesFirst'
    BY <1>2 DEF SortInv, DependenciesFirst
<1>6. Distinct'
    BY <1>1 DEF SortInv, Distinct
<1>7. CountersOK'
    BY <1>2 DEF SortInv, CountersOK
<1>8. HeapOK'
    BY <1>1, <1>2 DEF SortInv, HeapOK
<1>9. HeapForced' /\ LateOnlyIfForced'
    BY <1>2, <1>3 DEF SortInv, HeapForced, LateOnlyIfForced
<1> QED BY <1>4, <1>5, <1>6, <1>7, <1>8, <1>9 DEF SortInv

\* The verdict is right: the nodes are finite and each is in the order once.
LEMMA FinishSortInv ==
    ASSUME SortInv, Finish
    PROVE  SortInv'
<1>1. UNCHANGED <<preload, public, incoming_edge_count, nodes_with_no_incoming_edges, load_order>>
    BY DEF Finish, input
<1>2. SortOK'
    <2>1. Ordered \in SUBSET Nodes
        BY DEF SortInv, SortTypeOK, Ordered
    <2>2. Cardinality(Ordered) = Cardinality(Nodes) <=> Ordered = Nodes
        BY <2>1, NodesFinite, FS_Subset
    <2>3. Ordered' = Ordered
        BY <1>1 DEF Ordered
    <2> QED BY <1>1, <2>2, <2>3 DEF Finish, SortOK, SortInv, Distinct
<1> QED BY <1>1, <1>2, SameOrderSortInv DEF Finish

LEMMA NextSortInv == SortInv /\ [SortNext]_orderVars => SortInv'
<1> SUFFICES ASSUME SortInv, [SortNext]_orderVars PROVE SortInv'
    OBVIOUS
<1>1. ASSUME UNCHANGED orderVars PROVE SortInv'
    <2>1. UNCHANGED <<preload, public, incoming_edge_count, nodes_with_no_incoming_edges,
                      load_order, sort>>
        BY <1>1 DEF orderVars, input, sortVars
    <2>2. SortOK'
        BY <2>1 DEF SortInv, SortOK, Ordered
    <2> QED BY <2>1, <2>2, SameOrderSortInv DEF SortInv, SortTypeOK
<1> QED BY <1>1, TakeSortInv, FinishSortInv DEF SortNext, Sorted

-----------------------------------------------------------------------------
(* The theorems                                                            *)

\* The inductive invariant holds in every reachable state.
THEOREM SortInvariant == SortSpec => []SortInv
BY InitSortInv, NextSortInv, PTL DEF SortSpec

\* Every variable has its type; no edge count falls below zero.
THEOREM SortTypeCorrect == SortSpec => []SortTypeOK
<1>1. SortInv => SortTypeOK
    BY DEF SortInv
<1> QED BY <1>1, SortInvariant, PTL

\* What sort_dependencies_in_load_order returns is a topological order of all the
\* nodes.
THEOREM OrderIsTopological == SortSpec => []TopologicalOrder
<1>1. SortInv => TopologicalOrder
    BY DEF SortInv, TopologicalOrder, DependenciesFirst, Distinct, SortOK
<1> QED BY <1>1, SortInvariant, PTL

\* It fails only for a package with a circular dependency.
THEOREM FailureIsACycle == SortSpec => []ErrorMeansCycle
<1>1. SortInv => ErrorMeansCycle
    <2> SUFFICES ASSUME SortInv, sort = "cyclic"
                 PROVE  \E S \in SUBSET Nodes :
                            S # {} /\ \A n \in S : Dependencies(n) \cap S # {}
        BY DEF ErrorMeansCycle
    <2> DEFINE S == Nodes \ Ordered
    <2>1. nodes_with_no_incoming_edges = {} /\ Ordered # Nodes
        BY DEF SortInv, SortOK
    <2>2. Ordered \in SUBSET Nodes
        BY DEF SortInv, SortTypeOK, Ordered
    <2>3. \A n \in S : Waiting(n) # {}
        BY <2>1 DEF SortInv, HeapOK
    <2>4. \A n \in S : Dependencies(n) \cap S # {}
        BY <2>3 DEF Waiting, Dependencies
    <2> QED BY <2>1, <2>2, <2>4
<1> QED BY <1>1, SortInvariant, PTL

\* The order is the most urgent one, whatever order the graph was built in.
THEOREM LatenessIsForced == SortSpec => []LateOnlyIfForced
<1>1. SortInv => LateOnlyIfForced
    BY DEF SortInv
<1> QED BY <1>1, SortInvariant, PTL

-----------------------------------------------------------------------------
(* The pipeline.                                                           *)

Stored == {a \in Assets : \E i \in DOMAIN Received : Received[i] = a}

\* An asset to do, with a thread or in hand is nowhere else, and none is stored twice.
PlacesOK ==
    /\ \A a \in todo : a \notin Stored /\ inHand # a /\ \A w \in Workers : carried[w] # a
    /\ \A w \in Workers : carried[w] # NoAsset =>
            /\ carried[w] \notin Stored /\ inHand # carried[w]
            /\ \A v \in Workers : carried[v] = carried[w] => v = w
    /\ inHand # NoAsset => inHand \notin Stored
    /\ \A i, j \in DOMAIN Received : Received[i] = Received[j] => i = j

NoneLost ==
    failures = {} =>
        \A a \in Assets :
            a \in todo \/ inHand = a \/ a \in Stored \/ \E w \in Workers : carried[w] = a

\* The sender is dropped when the threads have come to rest, the loop over the
\* receiver ends after that, and no error is forgotten.
EndsOK ==
    /\ \A w \in Workers \ active : worker[w] = "idle"
    /\ tx = "dropped" => (todo = {} \/ stop) /\ \A w \in Workers : worker[w] = "idle"
    /\ consumer \in {"fixing", "writing", "returned"} => tx = "dropped"
    /\ failures # {} => stop \/ consumer = "failed" \/ outcome = "err"
    /\ outcome = "ok" => consumer = "returned" /\ tx = "dropped" /\ ~stop /\ failures = {}

\* The bulk data lies in the order of the assets, that of those which have some.
Follows(bulk, assets, H) ==
    /\ \A k \in DOMAIN bulk : bulk[k] \in H /\ \E i \in DOMAIN assets : assets[i] = bulk[k]
    /\ \A i \in DOMAIN assets : assets[i] \in H => \E k \in DOMAIN bulk : bulk[k] = assets[i]
    /\ \A k, l \in DOMAIN bulk : \A i, j \in DOMAIN assets :
            bulk[k] = assets[i] /\ bulk[l] = assets[j] /\ k < l => i < j

\* Without fixup there is no list and no second pass; with it, package data is
\* written in the second pass, in the order of the list.
DirectOK ==
    /\ all_converted = <<>> /\ cursor = 0
    /\ consumer \notin {"fixing", "writing"}

ListOK ==
    /\ cursor <= Len(all_converted)
    /\ consumer \in {"shaders", "receiving", "storing"} => cursor = 0
    /\ consumer \in {"shaders", "receiving", "storing", "fixing"} => packageData = <<>>
    /\ consumer \in {"writing", "returned"} =>
            /\ Len(packageData) = cursor
            /\ \A i \in 1..cursor : packageData[i] = all_converted[i]
    /\ consumer = "returned" => cursor = Len(all_converted)

\* The lookup has the last asset of each package, and arcs are resolved by it.
LookupOK ==
    /\ \A i \in DOMAIN all_converted : converted_lookup[PackageOf[all_converted[i]]] # NoAsset
    /\ \A p \in Packages : converted_lookup[p] # NoAsset =>
        \E i \in DOMAIN all_converted :
            /\ all_converted[i] = converted_lookup[p] /\ PackageOf[all_converted[i]] = p
            /\ \A j \in DOMAIN all_converted : PackageOf[all_converted[j]] = p => j <= i

ArcsOK ==
    \A i \in DOMAIN all_converted :
        \/ consumer = "fixing" /\ i <= cursor
        \/ consumer \in {"writing", "returned"}
        => LET a == all_converted[i]
           IN  resolved[a] = [p \in Imports[a] |-> Resolve(p)]

ShapeOK ==
    /\ packageData \in Seq(Assets) /\ bulkData \in Seq(Assets) /\ all_converted \in Seq(Assets)
    /\ resolved = [a \in Assets |-> resolved[a]]
    /\ consumer # "failed" => Follows(bulkData, Received, hasBulk)
    /\ ~fixup => DirectOK
    /\ fixup => ListOK /\ LookupOK /\ ArcsOK

IInv == TypeOK /\ PlacesOK /\ NoneLost /\ EndsOK /\ ShapeOK

-----------------------------------------------------------------------------
(* Sequences of assets                                                     *)

\* An asset is appended.
LEMMA Added ==
    ASSUME NEW s \in Seq(Assets), NEW a \in Assets
    PROVE  /\ Append(s, a) \in Seq(Assets) /\ Len(Append(s, a)) = Len(s) + 1 /\ Len(s) \in Nat
           /\ DOMAIN s = 1..Len(s) /\ DOMAIN Append(s, a) = 1..Len(s) + 1
           /\ \A i \in DOMAIN s : Append(s, a)[i] = s[i]
           /\ Append(s, a)[Len(s) + 1] = a
           /\ \A i \in DOMAIN Append(s, a) : i \in DOMAIN s \/ i = Len(s) + 1
<1>1. /\ Append(s, a) \in Seq(Assets) /\ Len(Append(s, a)) = Len(s) + 1
      /\ \A i \in 1..Len(s) : Append(s, a)[i] = s[i]
      /\ Append(s, a)[Len(s) + 1] = a
    BY AppendProperties
<1>2. Len(s) \in Nat /\ DOMAIN s = 1..Len(s) /\ DOMAIN Append(s, a) = 1..Len(Append(s, a))
    BY <1>1, LenProperties
<1> QED BY <1>1, <1>2

LEMMA ReceivedIsSeq ==
    ASSUME ShapeOK
    PROVE  Received \in Seq(Assets)
BY DEF ShapeOK, Received

\* One more asset, whose bulk data, if it has some, is written last.
LEMMA FollowsOn ==
    ASSUME NEW bulk \in Seq(Assets), NEW assets \in Seq(Assets), NEW H, NEW a \in Assets,
           Follows(bulk, assets, H), \A i \in DOMAIN assets : assets[i] # a
    PROVE  Follows(IF a \in H THEN Append(bulk, a) ELSE bulk, Append(assets, a), H)
<1>a. PICK more : more = Append(assets, a)
    OBVIOUS
<1>1. /\ Len(assets) \in Nat /\ DOMAIN assets = 1..Len(assets) /\ DOMAIN more = 1..Len(assets) + 1
      /\ \A i \in DOMAIN assets : more[i] = assets[i]
      /\ more[Len(assets) + 1] = a
    BY <1>a, Added
<1>2. \A i \in DOMAIN more : i \in DOMAIN assets \/ i = Len(assets) + 1
    BY <1>1
<1>3. \A i \in DOMAIN assets : i \in DOMAIN more /\ i < Len(assets) + 1
    BY <1>1
<1>4. Len(assets) + 1 \in DOMAIN more
    BY <1>1
<1>5. \A k \in DOMAIN bulk : bulk[k] # a
    BY DEF Follows
<1>6. CASE a \notin H
    <2>1. \A k \in DOMAIN bulk : bulk[k] \in H /\ \E i \in DOMAIN more : more[i] = bulk[k]
        BY <1>1, <1>3 DEF Follows
    <2>2. \A i \in DOMAIN more : more[i] \in H => \E k \in DOMAIN bulk : bulk[k] = more[i]
        BY <1>1, <1>2, <1>6 DEF Follows
    <2>3. ASSUME NEW k \in DOMAIN bulk, NEW l \in DOMAIN bulk, NEW i \in DOMAIN more, NEW j \in DOMAIN more,
                 bulk[k] = more[i], bulk[l] = more[j], k < l
          PROVE  i < j
        <3>1. i \in DOMAIN assets /\ j \in DOMAIN assets
            BY <1>1, <1>2, <1>5, <2>3
        <3> QED BY <1>1, <2>3, <3>1 DEF Follows
    <2> QED BY <1>6, <1>a, <2>1, <2>2, <2>3 DEF Follows
<1>7. CASE a \in H
    <2>a. PICK bigger : bigger = Append(bulk, a)
        OBVIOUS
    <2>1. /\ Len(bulk) \in Nat /\ DOMAIN bulk = 1..Len(bulk) /\ DOMAIN bigger = 1..Len(bulk) + 1
          /\ \A k \in DOMAIN bulk : bigger[k] = bulk[k]
          /\ bigger[Len(bulk) + 1] = a
        BY <2>a, Added
    <2>2. \A k \in DOMAIN bigger : k \in DOMAIN bulk \/ k = Len(bulk) + 1
        BY <2>1
    <2>3. \A k \in DOMAIN bulk : k \in DOMAIN bigger /\ k < Len(bulk) + 1
        BY <2>1
    <2>4. Len(bulk) + 1 \in DOMAIN bigger
        BY <2>1
    <2>5. ASSUME NEW k \in DOMAIN bigger
          PROVE  bigger[k] \in H /\ \E i \in DOMAIN more : more[i] = bigger[k]
        <3>1. CASE k \in DOMAIN bulk
            <4>1. bulk[k] \in H /\ \E i \in DOMAIN assets : assets[i] = bulk[k]
                BY <3>1 DEF Follows
            <4> QED BY <1>1, <1>3, <2>1, <3>1, <4>1
        <3>2. CASE k = Len(bulk) + 1
            BY <1>1, <1>4, <1>7, <2>1, <3>2
        <3> QED BY <2>2, <3>1, <3>2
    <2>6. ASSUME NEW i \in DOMAIN more, more[i] \in H
          PROVE  \E k \in DOMAIN bigger : bigger[k] = more[i]
        <3>1. CASE i \in DOMAIN assets
            <4>1. PICK k \in DOMAIN bulk : bulk[k] = assets[i]
                BY <1>1, <2>6, <3>1 DEF Follows
            <4> QED BY <1>1, <2>1, <2>3, <3>1, <4>1
        <3>2. CASE i = Len(assets) + 1
            BY <1>1, <2>1, <2>4, <3>2
        <3> QED BY <1>2, <3>1, <3>2
    <2>7. ASSUME NEW k \in DOMAIN bigger, NEW l \in DOMAIN bigger,
                 NEW i \in DOMAIN more, NEW j \in DOMAIN more,
                 bigger[k] = more[i], bigger[l] = more[j], k < l
          PROVE  i < j
        <3>1. k \in DOMAIN bulk
            BY <2>1, <2>2, <2>7
        <3>2. i \in DOMAIN assets /\ bulk[k] = assets[i]
            BY <1>1, <1>2, <1>5, <2>1, <2>7, <3>1
        <3>3. CASE l \in DOMAIN bulk
            <4>1. j \in DOMAIN assets /\ bulk[l] = assets[j]
                BY <1>1, <1>2, <1>5, <2>1, <2>7, <3>3
            <4> QED BY <2>7, <3>1, <3>2, <3>3, <4>1 DEF Follows
        <3>4. CASE l = Len(bulk) + 1
            <4>1. more[j] = a
                BY <2>1, <2>7, <3>4
            <4>2. j = Len(assets) + 1
                BY <1>1, <1>2, <4>1
            <4> QED BY <1>3, <3>2, <4>2
        <3> QED BY <2>2, <3>3, <3>4
    <2> QED BY <1>7, <1>a, <2>5, <2>6, <2>7, <2>a DEF Follows
<1> QED BY <1>6, <1>7

\* The list holds every asset once, so it is not longer than there are assets.
LEMMA ListIsShort ==
    ASSUME PlacesOK, fixup, all_converted \in Seq(Assets)
    PROVE  Len(all_converted) <= Cardinality(Assets)
<1> DEFINE n == Len(all_converted)
<1>1. n \in Nat /\ all_converted \in [1..n -> Assets] /\ DOMAIN all_converted = 1..n
    BY LenProperties
<1>2. \A i, j \in 1..n : all_converted[i] = all_converted[j] => i = j
    BY <1>1 DEF PlacesOK, Received
<1>3. all_converted \in Injection(1..n, Assets)
    BY <1>1, <1>2 DEF Injection, IsInjective
<1>4. Cardinality(1..n) <= Cardinality(Assets)
    BY <1>3, FS_Injection, AssetsAreFinite
<1>5. Cardinality(1..n) = n
    <2>1. 1 \in Int /\ n \in Int
        BY <1>1
    <2>2. Cardinality(1..n) = IF 1 > n THEN 0 ELSE n - 1 + 1
        <3> HIDE DEF n
        <3> QED BY <2>1, FS_Interval
    <2> QED BY <1>1, <2>2
<1> QED BY <1>4, <1>5

-----------------------------------------------------------------------------
(* Places                                                                  *)

\* A step that moves no asset.
LEMMA QuietPlaces ==
    ASSUME PlacesOK, NoneLost, UNCHANGED <<todo, carried, inHand, Received>>,
           failures \subseteq failures'
    PROVE  PlacesOK' /\ NoneLost'
<1>1. Stored' = Stored
    BY DEF Stored
<1>2. PlacesOK'
    BY <1>1 DEF PlacesOK
<1>3. NoneLost'
    BY <1>1 DEF NoneLost
<1> QED BY <1>2, <1>3

\* A step after which an asset is nowhere, which is an error.
LEMMA LossPlaces ==
    ASSUME TypeOK, PlacesOK, todo' = todo, Received' = Received, failures' # {},
           inHand' \in {inHand, NoAsset},
           \A w \in Workers : carried'[w] \in {carried[w], NoAsset}
    PROVE  PlacesOK' /\ NoneLost'
<1>1. Stored' = Stored
    BY DEF Stored
<1>2. PlacesOK'
    <2>1. \A a \in todo' : a \notin Stored' /\ inHand' # a /\ \A w \in Workers : carried'[w] # a
        BY <1>1, NoAssetIsNone DEF PlacesOK, TypeOK
    <2> QED BY <1>1, <2>1 DEF PlacesOK
<1>3. NoneLost'
    BY DEF NoneLost
<1> QED BY <1>2, <1>3

LEMMA PickPlaces ==
    ASSUME TypeOK, PlacesOK, NoneLost, NEW w \in Workers, NEW a \in Assets, Pick(w, a)
    PROVE  PlacesOK' /\ NoneLost'
<1>1. /\ a \in todo /\ todo' = todo \ {a} /\ carried' = [carried EXCEPT ![w] = a]
      /\ inHand' = inHand /\ Received' = Received /\ failures' = failures
      /\ carried[w] = NoAsset /\ carried \in [Workers -> Assets \cup {NoAsset}]
    BY DEF Pick, consumerVars, jobVars, Received, TypeOK
<1>2. Stored' = Stored
    BY <1>1 DEF Stored
<1>3. carried'[w] = a /\ \A v \in Workers \ {w} : carried'[v] = carried[v]
    BY <1>1
<1>4. ASSUME NEW b \in todo'
      PROVE  b \notin Stored' /\ inHand' # b /\ \A v \in Workers : carried'[v] # b
    BY <1>1, <1>2, <1>3, <1>4 DEF PlacesOK
<1>5. ASSUME NEW v \in Workers, carried'[v] # NoAsset
      PROVE  /\ carried'[v] \notin Stored' /\ inHand' # carried'[v]
             /\ \A u \in Workers : carried'[u] = carried'[v] => u = v
    <2>1. CASE v = w
        BY <1>1, <1>2, <1>3, <2>1 DEF PlacesOK
    <2>2. CASE v # w
        BY <1>1, <1>2, <1>3, <1>5, <2>2 DEF PlacesOK
    <2> QED BY <2>1, <2>2
<1>6. PlacesOK'
    BY <1>1, <1>2, <1>4, <1>5 DEF PlacesOK
<1>7. NoneLost'
    <2> SUFFICES ASSUME failures' = {}, NEW b \in Assets
                 PROVE  b \in todo' \/ inHand' = b \/ b \in Stored' \/ \E v \in Workers : carried'[v] = b
        BY DEF NoneLost
    <2>1. b \in todo \/ inHand = b \/ b \in Stored \/ \E v \in Workers : carried[v] = b
        BY <1>1 DEF NoneLost
    <2> QED BY <1>1, <1>2, <1>3, <2>1, NoAssetIsNone
<1> QED BY <1>6, <1>7

LEMMA ReceivePlaces ==
    ASSUME TypeOK, PlacesOK, NoneLost, NEW w \in Workers, Receive(w)
    PROVE  PlacesOK' /\ NoneLost'
<1>1. /\ todo' = todo /\ carried' = [carried EXCEPT ![w] = NoAsset] /\ inHand' = carried[w]
      /\ Received' = Received /\ failures' = failures /\ inHand = NoAsset
      /\ carried[w] # NoAsset /\ carried \in [Workers -> Assets \cup {NoAsset}]
    BY DEF Receive, jobVars, Received, TypeOK
<1>2. Stored' = Stored
    BY <1>1 DEF Stored
<1>3. carried'[w] = NoAsset /\ \A v \in Workers \ {w} : carried'[v] = carried[v]
    BY <1>1
<1>4. ASSUME NEW b \in todo, todo \subseteq Assets
      PROVE  b \notin Stored' /\ inHand' # b /\ \A v \in Workers : carried'[v] # b
    <2>1. b # NoAsset
        BY <1>4, NoAssetIsNone
    <2> QED BY <1>1, <1>2, <1>3, <1>4, <2>1 DEF PlacesOK
<1>5. ASSUME NEW v \in Workers, carried'[v] # NoAsset
      PROVE  /\ carried'[v] \notin Stored' /\ inHand' # carried'[v]
             /\ \A u \in Workers : carried'[u] = carried'[v] => u = v
    <2>1. v # w /\ carried'[v] = carried[v]
        BY <1>3, <1>5
    <2>2. carried[v] \notin Stored /\ \A u \in Workers : carried[u] = carried[v] => u = v
        BY <1>5, <2>1 DEF PlacesOK
    <2> QED BY <1>1, <1>2, <1>3, <1>5, <2>1, <2>2
<1>6. PlacesOK'
    <2>1. inHand' \notin Stored'
        BY <1>1, <1>2 DEF PlacesOK
    <2> QED BY <1>1, <1>4, <1>5, <2>1 DEF PlacesOK, TypeOK
<1>7. NoneLost'
    <2> SUFFICES ASSUME failures' = {}, NEW b \in Assets
                 PROVE  b \in todo' \/ inHand' = b \/ b \in Stored' \/ \E v \in Workers : carried'[v] = b
        BY DEF NoneLost
    <2>1. b \in todo \/ inHand = b \/ b \in Stored \/ \E v \in Workers : carried[v] = b
        BY <1>1 DEF NoneLost
    <2> QED BY <1>1, <1>2, <1>3, <2>1, NoAssetIsNone
<1> QED BY <1>6, <1>7

\* The asset in hand is stored, and in hand no more.
LEMMA AddedPlaces ==
    ASSUME TypeOK, PlacesOK, NoneLost, Received \in Seq(Assets), inHand \in Assets,
           Received' = Append(Received, inHand), inHand' = NoAsset,
           UNCHANGED <<todo, carried>>, failures \subseteq failures'
    PROVE  PlacesOK' /\ NoneLost'
<1>a. PICK s : s = Received
    OBVIOUS
<1>b. PICK t : t = Append(s, inHand)
    OBVIOUS
<1>c. s \in Seq(Assets) /\ Received' = t
    BY <1>a, <1>b
<1>1. /\ Len(s) \in Nat /\ DOMAIN s = 1..Len(s) /\ DOMAIN t = 1..Len(s) + 1
      /\ \A i \in DOMAIN s : t[i] = s[i]
      /\ t[Len(s) + 1] = inHand
    BY <1>b, <1>c, Added
<1>2. inHand \notin Stored /\ inHand # NoAsset
    BY NoAssetIsNone DEF PlacesOK
<1>3. \A i \in DOMAIN t : i \in DOMAIN s \/ i = Len(s) + 1
    BY <1>1
<1>4. \A i \in DOMAIN s : i \in DOMAIN t
    BY <1>1
<1>5. Len(s) + 1 \in DOMAIN t
    BY <1>1
<1>6. Stored' = Stored \cup {inHand}
    <2>1. Stored' = {a \in Assets : \E i \in DOMAIN t : t[i] = a}
        BY <1>c DEF Stored
    <2>2. Stored = {a \in Assets : \E i \in DOMAIN s : s[i] = a}
        BY <1>a DEF Stored
    <2> QED BY <1>1, <1>3, <1>4, <1>5, <2>1, <2>2
<1>7. \A i, j \in DOMAIN t : t[i] = t[j] => i = j
    <2>1. \A i, j \in DOMAIN s : s[i] = s[j] => i = j
        BY <1>a DEF PlacesOK
    <2>2. \A i \in DOMAIN s : s[i] # inHand
        BY <1>2, <1>a DEF Stored
    <2> QED BY <1>1, <1>3, <2>1, <2>2
<1>8. PlacesOK'
    <2>1. \A a \in todo : a # NoAsset
        BY NoAssetIsNone DEF TypeOK
    <2>2. \A a \in todo' : a \notin Stored' /\ inHand' # a /\ \A w \in Workers : carried'[w] # a
        BY <1>6, <2>1 DEF PlacesOK
    <2>3. \A w \in Workers : carried'[w] # NoAsset =>
            /\ carried'[w] \notin Stored' /\ inHand' # carried'[w]
            /\ \A v \in Workers : carried'[v] = carried'[w] => v = w
        BY <1>6 DEF PlacesOK
    <2>4. \A i, j \in DOMAIN Received' : Received'[i] = Received'[j] => i = j
        BY <1>7, <1>c
    <2> QED BY <2>2, <2>3, <2>4 DEF PlacesOK
<1>9. NoneLost'
    <2> SUFFICES ASSUME failures' = {}, NEW b \in Assets
                 PROVE  b \in todo' \/ inHand' = b \/ b \in Stored' \/ \E v \in Workers : carried'[v] = b
        BY DEF NoneLost
    <2>1. b \in todo \/ inHand = b \/ b \in Stored \/ \E v \in Workers : carried[v] = b
        BY DEF NoneLost
    <2> QED BY <1>6, <2>1
<1> QED BY <1>8, <1>9

LEMMA StorePlaces ==
    ASSUME TypeOK, PlacesOK, NoneLost, ShapeOK, StoreWhole \/ StoreBulk
    PROVE  PlacesOK' /\ NoneLost' /\ inHand \in Assets /\ Received' = Append(Received, inHand)
<1>1. inHand \in Assets
    BY DEF StoreWhole, StoreBulk, TypeOK
<1>2. Received' = Append(Received, inHand)
    BY DEF StoreWhole, StoreBulk, Received, jobVars
<1>3. UNCHANGED <<todo, carried>> /\ inHand' = NoAsset /\ failures' = failures
    BY DEF StoreWhole, StoreBulk, producerVars
<1>4. PlacesOK' /\ NoneLost'
    BY <1>1, <1>2, <1>3, ReceivedIsSeq, AddedPlaces
<1> QED BY <1>1, <1>2, <1>4

LEMMA StoreFailsPlaces ==
    ASSUME TypeOK, PlacesOK, NoneLost, ShapeOK, StoreFails
    PROVE  PlacesOK' /\ NoneLost' /\ packageData' \in Seq(Assets)
<1>1. /\ UNCHANGED <<todo, carried, fixup, all_converted>> /\ inHand' = NoAsset
      /\ failures' # {} /\ failures \subseteq failures' /\ inHand \in Assets
    BY DEF StoreFails, BodyFails, Fails, producerVars, jobVars, TypeOK
<1>2. CASE UNCHANGED packageData
    <2>1. Received' = Received
        BY <1>1, <1>2 DEF Received
    <2>2. packageData' \in Seq(Assets)
        BY <1>2 DEF ShapeOK
    <2> QED BY <1>1, <2>1, <2>2, LossPlaces
<1>3. CASE ~fixup /\ packageData' = Append(packageData, inHand)
    <2>1. Received' = Append(Received, inHand)
        BY <1>1, <1>3 DEF Received
    <2>2. packageData' \in Seq(Assets)
        BY <1>1, <1>3, Added DEF ShapeOK
    <2> QED BY <1>1, <2>1, <2>2, ReceivedIsSeq, AddedPlaces
<1> QED BY <1>2, <1>3 DEF StoreFails

LEMMA PlacesStep ==
    ASSUME TypeOK, PlacesOK, NoneLost, ShapeOK, [Next]_vars
    PROVE  PlacesOK' /\ NoneLost'
<1>0. UNCHANGED <<fixup, all_converted, packageData>> => Received' = Received
    BY DEF Received
<1>1. ASSUME NEW w \in Workers, Pool(w) PROVE PlacesOK' /\ NoneLost'
    <2>1. ASSUME NEW a \in Assets, Pick(w, a) PROVE PlacesOK' /\ NoneLost'
        BY <2>1, PickPlaces
    <2>2. CASE Built(w)
        BY <1>0, <2>2, QuietPlaces DEF Built, jobVars, consumerVars
    <2>3. CASE ConversionFails(w) \/ SendFails(w)
        <3>1. /\ todo' = todo /\ Received' = Received /\ failures' # {} /\ inHand' = inHand
              /\ carried' = [carried EXCEPT ![w] = NoAsset]
            BY <1>0, <2>3 DEF ConversionFails, SendFails, GiveUp, Fails, jobVars, consumerVars
        <3>2. \A v \in Workers : carried'[v] \in {carried[v], NoAsset}
            BY <3>1 DEF TypeOK
        <3> QED BY <3>1, <3>2, LossPlaces
    <2> QED BY <1>1, <2>1, <2>2, <2>3 DEF Pool
<1>2. CASE PoolEnds
    BY <1>0, <1>2, QuietPlaces DEF PoolEnds, jobVars, producerVars, consumerVars
<1>3. ASSUME NEW w \in Workers, Receive(w) PROVE PlacesOK' /\ NoneLost'
    BY <1>3, ReceivePlaces
<1>4. CASE StoreWhole \/ StoreBulk
    BY <1>4, StorePlaces
<1>5. CASE StoreFails
    BY <1>5, StoreFailsPlaces
<1>6. CASE WriteNext
    <2>1. fixup
        BY <1>6 DEF WriteNext, ShapeOK, DirectOK
    <2>2. UNCHANGED <<todo, carried, inHand, failures, fixup, all_converted>>
        BY <1>6 DEF WriteNext, jobVars, producerVars
    <2>3. Received' = Received
        BY <2>1, <2>2 DEF Received
    <2> QED BY <2>2, <2>3, QuietPlaces
<1>7. CASE FixFails \/ WriteFails
    <2>1. UNCHANGED <<todo, carried, inHand, fixup, all_converted, packageData>>
          /\ failures \subseteq failures'
        BY <1>7 DEF FixFails, WriteFails, BodyFails, Fails, jobVars, producerVars, TypeOK
    <2> QED BY <1>0, <2>1, QuietPlaces
<1>8. CASE ConvertShaders
    BY <1>0, <1>8, QuietPlaces DEF ConvertShaders, Fails, jobVars, producerVars
<1>9. CASE Drained \/ FixNext \/ AllFixed \/ AllWritten
    BY <1>0, <1>9, QuietPlaces DEF Drained, FixNext, AllFixed, AllWritten, jobVars, producerVars
<1>10. CASE Return
    BY <1>0, <1>10, QuietPlaces DEF Return, Fails, jobVars, producerVars, consumerVars
<1>11. CASE Done \/ UNCHANGED vars
    BY <1>0, <1>11, QuietPlaces DEF Done, vars, jobVars, producerVars, consumerVars
<1> QED BY <1>1, <1>2, <1>3, <1>4, <1>5, <1>6, <1>7, <1>8, <1>9, <1>10, <1>11 DEF Next, Caller

-----------------------------------------------------------------------------
(* Ends of the channel                                                     *)

LEMMA EndsStep ==
    ASSUME TypeOK, EndsOK, [Next]_vars
    PROVE  EndsOK'
<1>1. ASSUME NEW w \in Workers, Pool(w) PROVE EndsOK'
    <2>1. ASSUME NEW a \in Assets, Pick(w, a) PROVE EndsOK'
        <3>1. tx = "open"
            BY <2>1 DEF jobVars, Pick, EndsOK, TypeOK
        <3> QED BY <2>1, <3>1 DEF Pick, EndsOK, TypeOK, jobVars, consumerVars
    <2>2. CASE Built(w)
        BY <2>2 DEF Built, EndsOK, TypeOK, jobVars, consumerVars
    <2>3. CASE ConversionFails(w) \/ SendFails(w)
        BY <2>3 DEF ConversionFails, SendFails, GiveUp, Fails, EndsOK, TypeOK, jobVars, consumerVars
    <2> QED BY <1>1, <2>1, <2>2, <2>3 DEF Pool
<1>2. CASE PoolEnds
    BY <1>2 DEF jobVars, PoolEnds, EndsOK, TypeOK, producerVars, consumerVars
<1>3. ASSUME NEW w \in Workers, Receive(w) PROVE EndsOK'
    BY <1>3 DEF jobVars, Receive, EndsOK, TypeOK
<1>4. CASE StoreWhole \/ StoreBulk
    BY <1>4 DEF jobVars, StoreWhole, StoreBulk, EndsOK, producerVars
<1>5. CASE StoreFails \/ FixFails \/ WriteFails
    BY <1>5 DEF jobVars, StoreFails, FixFails, WriteFails, BodyFails, Fails, EndsOK, producerVars
<1>6. CASE Drained \/ FixNext \/ AllFixed \/ WriteNext \/ AllWritten
    BY <1>6 DEF jobVars, Drained, FixNext, AllFixed, WriteNext, AllWritten, EndsOK, producerVars
<1>7. CASE ConvertShaders
    BY <1>7 DEF jobVars, ConvertShaders, Fails, EndsOK, producerVars
<1>8. CASE Return
    BY <1>8 DEF jobVars, Return, Fails, EndsOK, producerVars, consumerVars
<1>9. CASE Done \/ UNCHANGED vars
    BY <1>9 DEF jobVars, Done, vars, EndsOK, producerVars, consumerVars
<1> QED BY <1>1, <1>2, <1>3, <1>4, <1>5, <1>6, <1>7, <1>8, <1>9 DEF Next, Caller

-----------------------------------------------------------------------------
(* The order of the chunks, and the lookup                                 *)

\* A step that touches none of them.
LEMMA QuietShape ==
    ASSUME ShapeOK,
           UNCHANGED <<fixup, hasBulk, packageData, bulkData, all_converted, cursor, resolved,
                       converted_lookup>>,
           \/ consumer' = consumer
           \/ consumer' = "failed"
           \/ consumer \in {"shaders", "receiving"} /\ consumer' \in {"receiving", "storing"}
    PROVE  ShapeOK'
<1>1. consumer' # "failed" => Follows(bulkData', Received', hasBulk')
    BY DEF ShapeOK, Received
<1>2. CASE ~fixup
    BY <1>1, <1>2 DEF ShapeOK, DirectOK
<1>3. CASE fixup
    <2>1. ListOK'
        BY <1>3 DEF ShapeOK, ListOK
    <2>2. LookupOK'
        BY <1>3 DEF ShapeOK, LookupOK
    <2>3. ArcsOK'
        <3>1. \A p : Resolve(p)' = Resolve(p)
            BY <1>3 DEF Resolve
        <3> QED BY <1>3, <3>1 DEF ShapeOK, ArcsOK
    <2> QED BY <1>1, <1>3, <2>1, <2>2, <2>3 DEF ShapeOK
<1> QED BY <1>2, <1>3

\* Storing the asset in hand, in either mode.
LEMMA StoredFollows ==
    ASSUME TypeOK, PlacesOK, ShapeOK, inHand \in Assets, consumer = "storing", hasBulk' = hasBulk,
           WriteBulk(inHand), Received' = Append(Received, inHand)
    PROVE  bulkData' \in Seq(Assets) /\ Follows(bulkData', Received', hasBulk')
<1>1. bulkData \in Seq(Assets) /\ Received \in Seq(Assets) /\ Follows(bulkData, Received, hasBulk)
    BY ReceivedIsSeq DEF ShapeOK
<1>2. bulkData' = IF inHand \in hasBulk THEN Append(bulkData, inHand) ELSE bulkData
    BY DEF WriteBulk
<1>3. bulkData' \in Seq(Assets)
    BY <1>1, <1>2, Added
<1>4. \A i \in DOMAIN Received : Received[i] # inHand
    <2>1. inHand \notin Stored
        BY NoAssetIsNone DEF PlacesOK
    <2> QED BY <2>1 DEF Stored
<1>5. Follows(IF inHand \in hasBulk THEN Append(bulkData, inHand) ELSE bulkData,
              Append(Received, inHand), hasBulk)
    BY <1>1, <1>4, FollowsOn
<1> QED BY <1>2, <1>3, <1>5

LEMMA StoreWholeShape ==
    ASSUME TypeOK, PlacesOK, NoneLost, ShapeOK, StoreWhole
    PROVE  ShapeOK'
<1>1. /\ ~fixup /\ UNCHANGED <<fixup, hasBulk, all_converted, cursor, resolved>>
      /\ consumer = "storing" /\ consumer' = "receiving" /\ WriteBulk(inHand)
      /\ packageData' = Append(packageData, inHand)
    BY DEF StoreWhole, jobVars
<1>2. inHand \in Assets /\ Received' = Append(Received, inHand)
    BY StorePlaces
<1>3. bulkData' \in Seq(Assets) /\ Follows(bulkData', Received', hasBulk')
    BY <1>1, <1>2, StoredFollows
<1>4. packageData' \in Seq(Assets)
    BY <1>1, <1>2, Added DEF ShapeOK
<1>5. DirectOK'
    BY <1>1 DEF ShapeOK, DirectOK
<1> QED BY <1>1, <1>3, <1>4, <1>5 DEF ShapeOK

LEMMA StoreBulkShape ==
    ASSUME TypeOK, PlacesOK, NoneLost, ShapeOK, StoreBulk
    PROVE  ShapeOK'
<1> DEFINE n == Len(all_converted)
<1>1. /\ fixup /\ UNCHANGED <<fixup, hasBulk, packageData, cursor, resolved>>
      /\ consumer = "storing" /\ consumer' = "receiving" /\ WriteBulk(inHand)
      /\ all_converted' = Append(all_converted, inHand)
      /\ converted_lookup' = [converted_lookup EXCEPT ![PackageOf[inHand]] = inHand]
    BY DEF StoreBulk, jobVars
<1>2. inHand \in Assets /\ Received' = Append(Received, inHand)
    BY StorePlaces
<1>3. bulkData' \in Seq(Assets) /\ Follows(bulkData', Received', hasBulk')
    BY <1>1, <1>2, StoredFollows
<1>7. /\ all_converted' \in Seq(Assets) /\ n \in Nat /\ Len(all_converted') = n + 1
      /\ DOMAIN all_converted' = 1..n + 1 /\ DOMAIN all_converted = 1..n
      /\ \A i \in 1..n : all_converted'[i] = all_converted[i]
      /\ all_converted'[n + 1] = inHand
    BY <1>1, <1>2, Added, LenProperties DEF ShapeOK
<1> HIDE DEF n
<1>8. \A i \in 1..n + 1 : i \in 1..n \/ i = n + 1
    BY <1>7
<1>9. ListOK'
    <2>1. cursor = 0 /\ packageData = <<>>
        BY <1>1 DEF ShapeOK, ListOK
    <2> QED BY <1>1, <1>7, <2>1 DEF ListOK
<1>10. LookupOK'
    <2>1. inHand # NoAsset /\ PackageOf[inHand] \in Packages
        BY <1>2, NoAssetIsNone DEF Packages
    <2>2. /\ converted_lookup'[PackageOf[inHand]] = inHand
          /\ \A p \in Packages \ {PackageOf[inHand]} : converted_lookup'[p] = converted_lookup[p]
        BY <1>1, <2>1 DEF TypeOK
    <2>3. \A i \in 1..n : all_converted[i] \in Assets /\ PackageOf[all_converted[i]] \in Packages
        BY ElementOfSeq DEF ShapeOK, Packages, n
    <2>4. ASSUME NEW i \in DOMAIN all_converted'
          PROVE  converted_lookup'[PackageOf[all_converted'[i]]] # NoAsset
        BY <1>1, <1>7, <1>8, <2>1, <2>2, <2>3 DEF ShapeOK, LookupOK
    <2>5. ASSUME NEW p \in Packages, converted_lookup'[p] # NoAsset
          PROVE  \E i \in DOMAIN all_converted' :
                    /\ all_converted'[i] = converted_lookup'[p] /\ PackageOf[all_converted'[i]] = p
                    /\ \A j \in DOMAIN all_converted' : PackageOf[all_converted'[j]] = p => j <= i
        <3>1. CASE p = PackageOf[inHand]
            <4>1. n + 1 \in DOMAIN all_converted' /\ \A j \in DOMAIN all_converted' : j <= n + 1
                BY <1>7
            <4> QED BY <1>7, <2>2, <3>1, <4>1
        <3>2. CASE p # PackageOf[inHand]
            <4>1. PICK i \in DOMAIN all_converted :
                    /\ all_converted[i] = converted_lookup[p] /\ PackageOf[all_converted[i]] = p
                    /\ \A j \in DOMAIN all_converted : PackageOf[all_converted[j]] = p => j <= i
                BY <1>1, <2>2, <2>5, <3>2 DEF ShapeOK, LookupOK
            <4>2. i \in DOMAIN all_converted' /\ all_converted'[i] = all_converted[i]
                BY <1>7, <4>1
            <4>3. \A j \in DOMAIN all_converted' : PackageOf[all_converted'[j]] = p => j <= i
                BY <1>7, <1>8, <3>2, <4>1
            <4> QED BY <2>2, <3>2, <4>1, <4>2, <4>3
        <3> QED BY <3>1, <3>2
    <2> QED BY <2>4, <2>5 DEF LookupOK
<1>11. ArcsOK'
    BY <1>1 DEF ArcsOK
<1>12. resolved' = [a \in Assets |-> resolved'[a]] /\ packageData' \in Seq(Assets)
    BY <1>1 DEF ShapeOK
<1> QED BY <1>1, <1>3, <1>7, <1>9, <1>10, <1>11, <1>12 DEF ShapeOK

LEMMA StoreFailsShape ==
    ASSUME TypeOK, PlacesOK, NoneLost, ShapeOK, StoreFails
    PROVE  ShapeOK'
<1>1. /\ consumer' = "failed"
      /\ UNCHANGED <<fixup, hasBulk, bulkData, all_converted, cursor, resolved, converted_lookup>>
    BY DEF StoreFails, BodyFails, jobVars
<1>2. CASE UNCHANGED packageData
    BY <1>1, <1>2, QuietShape
<1>3. CASE ~fixup
    <2>1. packageData' \in Seq(Assets)
        BY StoreFailsPlaces
    <2>2. DirectOK'
        BY <1>1, <1>3 DEF ShapeOK, DirectOK
    <2> QED BY <1>1, <1>3, <2>1, <2>2 DEF ShapeOK
<1> QED BY <1>2, <1>3 DEF StoreFails

\* The passes over the list.
LEMMA PassShape ==
    ASSUME TypeOK, ShapeOK, Drained \/ FixNext \/ AllFixed \/ AllWritten
    PROVE  ShapeOK'
<1>0. /\ UNCHANGED <<fixup, hasBulk, packageData, bulkData, all_converted, converted_lookup>>
      /\ consumer # "failed"
    BY DEF Drained, FixNext, AllFixed, AllWritten, jobVars
<1>a. Follows(bulkData', Received', hasBulk')
    BY <1>0 DEF ShapeOK, Received
<1>b. /\ packageData' \in Seq(Assets) /\ bulkData' \in Seq(Assets) /\ all_converted' \in Seq(Assets)
    BY <1>0 DEF ShapeOK
<1>1. CASE Drained
    <2>1. UNCHANGED <<cursor, resolved>>
          /\ consumer = "receiving" /\ consumer' = IF fixup THEN "fixing" ELSE "returned"
        BY <1>1 DEF Drained
    <2>2. CASE fixup
        <3>1. ListOK' /\ LookupOK'
            BY <1>0, <2>1, <2>2 DEF ShapeOK, ListOK, LookupOK
        <3>2. cursor = 0 /\ DOMAIN all_converted = 1..Len(all_converted)
            BY <2>1, <2>2, LenProperties DEF ShapeOK, ListOK
        <3>3. ArcsOK'
            BY <1>0, <2>1, <2>2, <3>2 DEF ArcsOK
        <3> QED BY <1>0, <1>a, <1>b, <2>1, <2>2, <3>1, <3>3 DEF ShapeOK
    <2>3. CASE ~fixup
        <3>1. DirectOK'
            BY <1>0, <2>1, <2>3 DEF ShapeOK, DirectOK
        <3> QED BY <1>0, <1>a, <1>b, <2>1, <2>3, <3>1 DEF ShapeOK
    <2> QED BY <2>2, <2>3
<1>2. CASE FixNext
    <2> DEFINE a == all_converted[cursor + 1]
               r == [p \in Imports[a] |-> Resolve(p)]
    <2>1. /\ consumer' = consumer
          /\ consumer = "fixing" /\ cursor < Len(all_converted) /\ cursor' = cursor + 1
          /\ resolved' = [resolved EXCEPT ![a] = r]
        BY <1>2 DEF FixNext
    <2>2. fixup
        BY <2>1 DEF ShapeOK, DirectOK
    <2>3. /\ cursor \in Nat /\ Len(all_converted) \in Nat /\ DOMAIN all_converted = 1..Len(all_converted)
        BY LenProperties DEF ShapeOK, TypeOK
    <2>4. \A i \in DOMAIN all_converted : all_converted[i] \in Assets
        BY <2>3, ElementOfSeq DEF ShapeOK
    <2> HIDE DEF r
    <2>5. /\ resolved' = [b \in Assets |-> resolved'[b]]
          /\ \A b \in Assets : resolved'[b] = IF b = a THEN r ELSE resolved[b]
        <3>1. resolved = [b \in Assets |-> resolved[b]]
            BY DEF ShapeOK
        <3>2. a \in Assets
            BY <2>1, <2>3, <2>4
        <3> HIDE DEF a
        <3> QED BY <2>1, <3>1, <3>2
    <2>6. ListOK' /\ LookupOK'
        BY <1>0, <2>1, <2>2, <2>3 DEF ShapeOK, ListOK, LookupOK
    <2>7. \A p : Resolve(p)' = Resolve(p)
        BY <1>0 DEF Resolve
    <2>8. ArcsOK'
        <3> SUFFICES ASSUME NEW i \in DOMAIN all_converted, i <= cursor + 1
                     PROVE  resolved'[all_converted[i]] = [p \in Imports[all_converted[i]] |-> Resolve(p)]
            BY <1>0, <2>1, <2>7 DEF ArcsOK
        <3>1. CASE all_converted[i] = a
            BY <2>4, <2>5, <3>1 DEF r
        <3>2. CASE all_converted[i] # a
            <4>1. i <= cursor
                BY <2>3, <3>2
            <4>2. resolved[all_converted[i]] = [p \in Imports[all_converted[i]] |-> Resolve(p)]
                BY <2>1, <2>2, <4>1 DEF ShapeOK, ArcsOK
            <4> QED BY <2>4, <2>5, <3>2, <4>2
        <3> QED BY <3>1, <3>2
    <2> QED BY <1>0, <1>a, <1>b, <2>2, <2>5, <2>6, <2>8 DEF ShapeOK
<1>3. CASE AllFixed
    <2>1. /\ resolved' = resolved
          /\ consumer = "fixing" /\ consumer' = "writing" /\ cursor = Len(all_converted) /\ cursor' = 0
        BY <1>3 DEF AllFixed
    <2>2. fixup
        BY <2>1 DEF ShapeOK, DirectOK
    <2>3. Len(all_converted) \in Nat /\ DOMAIN all_converted = 1..Len(all_converted)
        BY LenProperties DEF ShapeOK
    <2>4. ListOK' /\ LookupOK'
        <3>1. packageData = <<>> /\ Len(packageData) = 0
            BY <2>1, <2>2, EmptySeq DEF ShapeOK, ListOK
        <3>2. ListOK'
            BY <1>0, <2>1, <2>2, <2>3, <3>1 DEF ListOK
        <3> QED BY <1>0, <2>2, <3>2 DEF ShapeOK, LookupOK
    <2>5. ArcsOK'
        BY <1>0, <2>1, <2>2, <2>3 DEF ShapeOK, ArcsOK, Resolve
    <2> QED BY <1>0, <1>a, <1>b, <2>1, <2>2, <2>4, <2>5 DEF ShapeOK
<1>4. CASE AllWritten
    <2>1. /\ UNCHANGED <<cursor, resolved>>
          /\ consumer = "writing" /\ consumer' = "returned" /\ cursor = Len(all_converted)
        BY <1>4 DEF AllWritten
    <2>2. fixup
        BY <2>1 DEF ShapeOK, DirectOK
    <2>3. ListOK' /\ LookupOK'
        BY <1>0, <2>1, <2>2 DEF ShapeOK, ListOK, LookupOK
    <2>4. ArcsOK'
        <3>1. \A p : Resolve(p)' = Resolve(p)
            BY <1>0 DEF Resolve
        <3> QED BY <1>0, <2>1, <2>2, <3>1 DEF ShapeOK, ArcsOK
    <2> QED BY <1>0, <1>a, <1>b, <2>1, <2>2, <2>3, <2>4 DEF ShapeOK
<1> QED BY <1>1, <1>2, <1>3, <1>4

LEMMA WriteNextShape ==
    ASSUME TypeOK, ShapeOK, WriteNext
    PROVE  ShapeOK'
<1> DEFINE a == all_converted[cursor + 1]
<1>1. /\ UNCHANGED <<fixup, hasBulk, consumer, bulkData, all_converted, resolved, converted_lookup>>
      /\ consumer = "writing" /\ cursor < Len(all_converted) /\ cursor' = cursor + 1
      /\ packageData' = Append(packageData, a)
    BY DEF WriteNext, jobVars
<1>2. fixup /\ cursor \in Nat
    BY <1>1 DEF ShapeOK, DirectOK, TypeOK
<1>3. Len(all_converted) \in Nat
    BY LenProperties DEF ShapeOK
<1>4. a \in Assets
    <2>1. cursor + 1 \in 1..Len(all_converted)
        BY <1>1, <1>2, <1>3
    <2> QED BY <2>1, ElementOfSeq DEF ShapeOK
<1>5. Len(packageData) = cursor /\ \A i \in 1..cursor : packageData[i] = all_converted[i]
    BY <1>1, <1>2 DEF ShapeOK, ListOK
<1> HIDE DEF a
<1>6. /\ packageData' \in Seq(Assets) /\ Len(packageData') = cursor + 1
      /\ DOMAIN packageData = 1..cursor
      /\ \A i \in 1..cursor : packageData'[i] = packageData[i]
      /\ packageData'[cursor + 1] = a
    BY <1>1, <1>4, <1>5, Added DEF ShapeOK
<1>7. \A i \in 1..cursor + 1 : packageData'[i] = all_converted[i]
    <2> TAKE i \in 1..cursor + 1
    <2>1. CASE i \in 1..cursor
        BY <1>5, <1>6, <2>1
    <2>2. CASE i = cursor + 1
        BY <1>6, <2>2 DEF a
    <2> QED BY <1>2, <2>1, <2>2
<1>8. ListOK'
    BY <1>1, <1>2, <1>3, <1>6, <1>7 DEF ListOK
<1>9. LookupOK'
    BY <1>1, <1>2 DEF ShapeOK, LookupOK
<1>10. ArcsOK'
    <2>1. \A p : Resolve(p)' = Resolve(p)
        BY <1>1, <1>2 DEF Resolve
    <2> QED BY <1>1, <1>2, <2>1 DEF ShapeOK, ArcsOK
<1>11. Follows(bulkData', Received', hasBulk')
    BY <1>1, <1>2 DEF ShapeOK, Received
<1>12. bulkData' \in Seq(Assets) /\ all_converted' \in Seq(Assets)
       /\ resolved' = [b \in Assets |-> resolved'[b]]
    BY <1>1 DEF ShapeOK
<1> QED BY <1>1, <1>2, <1>6, <1>8, <1>9, <1>10, <1>11, <1>12 DEF ShapeOK

LEMMA ShapeStep ==
    ASSUME TypeOK, PlacesOK, NoneLost, ShapeOK, [Next]_vars
    PROVE  ShapeOK'
<1>1. ASSUME NEW w \in Workers, Pool(w) PROVE ShapeOK'
    BY <1>1, QuietShape DEF Pool, Pick, Built, ConversionFails, SendFails, GiveUp, jobVars, consumerVars
<1>2. CASE PoolEnds \/ Return \/ Done \/ UNCHANGED vars
    BY <1>2, QuietShape DEF PoolEnds, Return, Done, vars, jobVars, consumerVars
<1>3. CASE ConvertShaders \/ \E w \in Workers : Receive(w)
    BY <1>3, QuietShape DEF ConvertShaders, Receive, jobVars
<1>4. CASE FixFails \/ WriteFails
    BY <1>4, QuietShape DEF FixFails, WriteFails, BodyFails, jobVars
<1>5. CASE Drained \/ FixNext \/ AllFixed \/ AllWritten
    BY <1>5, PassShape
<1>6. CASE StoreWhole \/ StoreBulk \/ StoreFails \/ WriteNext
    BY <1>6, StoreWholeShape, StoreBulkShape, StoreFailsShape, WriteNextShape
<1> QED BY <1>1, <1>2, <1>3, <1>4, <1>5, <1>6 DEF Next, Caller

-----------------------------------------------------------------------------
(* The invariant                                                           *)

LEMMA TypeStep ==
    ASSUME TypeOK, PlacesOK, ShapeOK, [Next]_vars
    PROVE  TypeOK'
<1>0. Cardinality(Assets) \in Nat /\ cursor \in Nat
    BY AssetsAreFinite, FS_CardinalityType DEF TypeOK
<1>1. ASSUME NEW w \in Workers, Pool(w) PROVE TypeOK'
    <2>1. ASSUME NEW a \in Assets, Pick(w, a) PROVE TypeOK'
        BY <2>1, NoAssetIsNone DEF Pick, TypeOK, jobVars, consumerVars
    <2>2. CASE Built(w)
        BY <2>2 DEF Built, TypeOK, jobVars, consumerVars
    <2>3. CASE ConversionFails(w) \/ SendFails(w)
        BY <2>3 DEF ConversionFails, SendFails, GiveUp, TypeOK, jobVars, consumerVars
    <2> QED BY <1>1, <2>1, <2>2, <2>3 DEF Pool
<1>2. CASE PoolEnds
    BY <1>2 DEF PoolEnds, TypeOK, jobVars, producerVars, consumerVars
<1>3. ASSUME NEW w \in Workers, Receive(w) PROVE TypeOK'
    BY <1>3 DEF Receive, TypeOK, Consumers, jobVars
<1>4. CASE StoreWhole
    BY <1>4 DEF StoreWhole, TypeOK, Consumers, jobVars, producerVars
<1>5. CASE StoreBulk
    BY <1>5 DEF StoreBulk, TypeOK, Consumers, jobVars, producerVars, Packages
<1>6. CASE StoreFails \/ FixFails \/ WriteFails
    BY <1>6 DEF StoreFails, FixFails, WriteFails, BodyFails, TypeOK, Consumers, jobVars, producerVars
<1>7. CASE Drained \/ AllFixed \/ AllWritten
    BY <1>0, <1>7 DEF Drained, AllFixed, AllWritten, TypeOK, Consumers, jobVars, producerVars
<1>8. CASE FixNext \/ WriteNext
    <2>1. cursor' \in 0..Cardinality(Assets)
        <3>1. cursor' = cursor + 1 /\ cursor < Len(all_converted) /\ consumer \in {"fixing", "writing"}
            BY <1>8 DEF FixNext, WriteNext
        <3>2. fixup
            BY <3>1 DEF ShapeOK, DirectOK
        <3>3. Len(all_converted) <= Cardinality(Assets)
            BY <3>2, ListIsShort DEF ShapeOK
        <3>4. Len(all_converted) \in Nat
            BY LenProperties DEF ShapeOK
        <3> QED BY <1>0, <3>1, <3>3, <3>4
    <2> QED BY <1>8, <2>1 DEF FixNext, WriteNext, TypeOK, jobVars, producerVars
<1>9. CASE ConvertShaders
    BY <1>9 DEF ConvertShaders, TypeOK, Consumers, jobVars, producerVars
<1>10. CASE Return
    BY <1>10 DEF Return, TypeOK, jobVars, producerVars, consumerVars
<1>11. CASE Done \/ UNCHANGED vars
    BY <1>11 DEF Done, vars, TypeOK, jobVars, producerVars, consumerVars
<1> QED BY <1>1, <1>2, <1>3, <1>4, <1>5, <1>6, <1>7, <1>8, <1>9, <1>10, <1>11 DEF Next, Caller

LEMMA InitInv ==
    ASSUME Init
    PROVE  IInv
<1>1. TypeOK
    <2>1. Cardinality(Assets) \in Nat
        BY AssetsAreFinite, FS_CardinalityType
    <2>2. active \in SUBSET Workers
        BY DEF Init
    <2>3. \A w \in Workers : worker[w] = "idle" /\ carried[w] = NoAsset
        BY DEF Init
    <2>4. cursor \in 0..Cardinality(Assets)
        BY <2>1 DEF Init
    <2> QED BY <2>2, <2>3, <2>4 DEF Init, TypeOK, Consumers
<1>2. packageData = <<>> /\ bulkData = <<>> /\ all_converted = <<>>
    BY DEF Init
<1>3. Received = <<>> /\ DOMAIN Received = {} /\ Stored = {}
    BY <1>2 DEF Received, Stored
<1>4. PlacesOK /\ NoneLost
    <2>1. todo = Assets /\ inHand = NoAsset /\ failures = {}
        BY DEF Init
    <2>2. \A w \in Workers : carried[w] = NoAsset
        BY DEF Init
    <2>3. \A a \in Assets : a # NoAsset
        BY NoAssetIsNone
    <2> QED BY <1>3, <2>1, <2>2, <2>3 DEF PlacesOK, NoneLost
<1>5. EndsOK
    BY DEF Init, EndsOK
<1>6. packageData \in Seq(Assets) /\ bulkData \in Seq(Assets) /\ all_converted \in Seq(Assets)
    BY <1>2, EmptySeq
<1>7. DOMAIN all_converted = {} /\ DOMAIN bulkData = {} /\ Len(all_converted) = 0
    BY <1>2
<1>8. DirectOK /\ ListOK
    BY <1>2, <1>7 DEF Init, DirectOK, ListOK
<1>9. LookupOK /\ ArcsOK
    BY <1>7 DEF Init, LookupOK, ArcsOK
<1>10. Follows(bulkData, Received, hasBulk)
    BY <1>3, <1>7 DEF Follows
<1>11. resolved = [a \in Assets |-> resolved[a]]
    BY DEF Init
<1> QED BY <1>1, <1>4, <1>5, <1>6, <1>8, <1>9, <1>10, <1>11 DEF IInv, ShapeOK

THEOREM PipelineInvariant == Spec => []IInv
<1>1. Init => IInv
    BY InitInv
<1>2. IInv /\ [Next]_vars => IInv'
    <2> SUFFICES ASSUME IInv, [Next]_vars PROVE IInv'
        OBVIOUS
    <2>1. TypeOK /\ PlacesOK /\ NoneLost /\ EndsOK /\ ShapeOK
        BY DEF IInv
    <2>2. PlacesOK' /\ NoneLost'
        BY <2>1, PlacesStep
    <2>3. EndsOK'
        BY <2>1, EndsStep
    <2>4. ShapeOK'
        BY <2>1, ShapeStep
    <2>5. TypeOK'
        BY <2>1, TypeStep
    <2> QED BY <2>2, <2>3, <2>4, <2>5 DEF IInv
<1> QED BY <1>1, <1>2, PTL DEF Spec

-----------------------------------------------------------------------------
(* The last of several assets                                              *)

\* A set of positions has a last one.
LEMMA LastExists ==
    ASSUME NEW n \in Nat, NEW S, S \subseteq 1..n, S # {}
    PROVE  \E i \in S : \A j \in S : j <= i
<1> DEFINE above(i) == {k \in 1..n : k > i}
           T == {above(i) : i \in S}
<1>1. IsFiniteSet(1..n)
    BY FS_Interval
<1>2. T \subseteq FiniteSubsetsOf(1..n) /\ T # {}
    <2>1. ASSUME NEW i \in S PROVE above(i) \in FiniteSubsetsOf(1..n)
        BY <1>1, FS_Subset DEF FiniteSubsetsOf
    <2> QED BY <2>1
<1>3. IsWellFoundedOn(StrictSubsetOrdering(1..n), FiniteSubsetsOf(1..n))
    BY FS_StrictSubsetOrderingWellFounded
<1>4. PICK x \in T : \A y \in T : ~(<<y, x>> \in StrictSubsetOrdering(1..n))
    <2> HIDE DEF T
    <2> QED BY <1>2, <1>3, WFMin
<1>5. PICK i \in S : x = above(i)
    BY <1>4
<1>6. ASSUME NEW j \in S, j > i PROVE FALSE
    <2>1. above(j) \in SUBSET (1..n) /\ above(i) \in SUBSET (1..n) /\ above(j) \subseteq above(i)
        BY <1>6
    <2>2. j \in above(i) /\ j \notin above(j)
        BY <1>6
    <2>3. <<above(j), above(i)>> \in StrictSubsetOrdering(1..n)
        <3> HIDE DEF above
        <3> QED BY <2>1, <2>2 DEF StrictSubsetOrdering
    <2>4. above(j) \in T
        BY <1>6
    <2> HIDE DEF above, T
    <2> QED BY <1>4, <1>5, <2>3, <2>4
<1>7. \A j \in S : j <= i
    BY <1>5, <1>6
<1> QED BY <1>7

LEMMA LastIs ==
    ASSUME NEW s \in Seq(Assets), NEW W, NEW i \in DOMAIN s, s[i] \in W,
           \A j \in DOMAIN s : s[j] \in W => j <= i
    PROVE  LastOf(s, W) = s[i]
<1> DEFINE LastAt(k) == s[k] \in W /\ \A j \in DOMAIN s : s[j] \in W => j <= k
           c == CHOOSE k \in DOMAIN s : LastAt(k)
<1>1. DOMAIN s = 1..Len(s) /\ Len(s) \in Nat
    BY LenProperties
<1>2. c \in DOMAIN s /\ LastAt(c)
    <2>1. LastAt(i)
        OBVIOUS
    <2> HIDE DEF LastAt
    <2> QED BY <2>1
<1>3. c = i
    <2>1. c <= i /\ i <= c
        BY <1>2
    <2>2. c \in Nat /\ i \in Nat
        BY <1>1, <1>2
    <2> HIDE DEF c
    <2> QED BY <2>1, <2>2
<1>4. LastOf(s, W) = s[c]
    BY DEF LastOf
<1> QED BY <1>3, <1>4

\* Bulk data that follows the assets: the last of it that is wanted is that of the last
\* wanted asset which has some.
LEMMA LastFollows ==
    ASSUME NEW bulk \in Seq(Assets), NEW assets \in Seq(Assets), NEW H, NEW W,
           Follows(bulk, assets, H)
    PROVE  LastOf(bulk, W) = LastOf(assets, W \cap H)
<1>1. /\ DOMAIN bulk = 1..Len(bulk) /\ Len(bulk) \in Nat
      /\ DOMAIN assets = 1..Len(assets) /\ Len(assets) \in Nat
    BY LenProperties
<1> DEFINE S == {i \in DOMAIN assets : assets[i] \in W \cap H}
<1>2. CASE S = {}
    <2>1. \A i \in DOMAIN assets : assets[i] \notin W \cap H
        BY <1>2
    <2>2. \A k \in DOMAIN bulk : bulk[k] \notin W
        BY <2>1 DEF Follows
    <2> QED BY <2>1, <2>2 DEF LastOf
<1>3. CASE S # {}
    <2>1. PICK i \in S : \A j \in S : j <= i
        <3>1. S \subseteq 1..Len(assets)
            BY <1>1
        <3> HIDE DEF S
        <3> QED BY <1>1, <1>3, <3>1, LastExists
    <2>2. i \in DOMAIN assets /\ assets[i] \in W \cap H
        BY <2>1
    <2>3. LastOf(assets, W \cap H) = assets[i]
        BY <2>1, <2>2, LastIs
    <2>4. PICK k \in DOMAIN bulk : bulk[k] = assets[i]
        BY <2>2 DEF Follows
    <2>5. ASSUME NEW l \in DOMAIN bulk, bulk[l] \in W PROVE l <= k
        <3>1. PICK j \in DOMAIN assets : assets[j] = bulk[l]
            BY DEF Follows
        <3>2. j <= i
            BY <2>1, <2>5, <3>1 DEF Follows
        <3>3. k < l => i < j
            BY <2>2, <2>4, <3>1 DEF Follows
        <3> QED BY <1>1, <2>2, <3>2, <3>3
    <2>6. LastOf(bulk, W) = bulk[k]
        BY <2>2, <2>4, <2>5, LastIs
    <2> QED BY <2>3, <2>4, <2>6
<1> QED BY <1>2, <1>3

-----------------------------------------------------------------------------
(* What the invariant says of a container when Ok is returned              *)

LEMMA AllStored ==
    ASSUME IInv, outcome = "ok"
    PROVE  consumer = "returned" /\ failures = {} /\ \A a \in Assets : a \in Stored
<1>1. TypeOK /\ PlacesOK /\ NoneLost /\ EndsOK
    BY DEF IInv
<1>2. consumer = "returned" /\ tx = "dropped" /\ ~stop /\ failures = {}
    BY <1>1 DEF EndsOK
<1>3. todo = {} /\ \A w \in Workers : worker[w] = "idle"
    BY <1>1, <1>2 DEF EndsOK
<1>4. inHand = NoAsset /\ \A w \in Workers : carried[w] = NoAsset
    BY <1>1, <1>2, <1>3 DEF TypeOK
<1>5. ASSUME NEW a \in Assets PROVE a \in Stored
    <2>1. a # NoAsset
        BY NoAssetIsNone
    <2> QED BY <1>1, <1>2, <1>3, <1>4, <2>1 DEF NoneLost
<1> QED BY <1>2, <1>5

\* Package data is in the container in the order in which assets came, in either mode.
LEMMA PackagesInOrder ==
    ASSUME IInv, outcome = "ok"
    PROVE  Received = packageData /\ Follows(bulkData, packageData, hasBulk)
<1>1. consumer = "returned" /\ ShapeOK
    BY AllStored DEF IInv
<1>2. Received = packageData
    <2>1. CASE ~fixup
        BY <2>1 DEF Received
    <2>2. CASE fixup
        <3>1. /\ Len(packageData) = Len(all_converted)
              /\ \A i \in 1..Len(packageData) : packageData[i] = all_converted[i]
            BY <1>1, <2>2 DEF ShapeOK, ListOK
        <3>2. packageData \in Seq(Assets) /\ all_converted \in Seq(Assets)
            BY <1>1 DEF ShapeOK
        <3>3. packageData = all_converted
            BY <3>1, <3>2, SeqEqual
        <3> QED BY <2>2, <3>3 DEF Received
    <2> QED BY <2>1, <2>2
<1> QED BY <1>1, <1>2 DEF ShapeOK

\* With fixup: an import is resolved by the asset whose package data is read.
LEMMA FixupReads ==
    ASSUME IInv, outcome = "ok", fixup, NEW p \in Packages
    PROVE  /\ converted_lookup[p] # NoAsset
           /\ LastOf(packageData, Holders(p)) = converted_lookup[p]
<1>1. all_converted \in Seq(Assets) /\ LookupOK
    BY DEF IInv, ShapeOK
<1>2. packageData = all_converted
    BY PackagesInOrder DEF Received
<1>3. PICK b \in Assets : p = PackageOf[b]
    BY DEF Packages
<1>4. PICK l \in DOMAIN all_converted : all_converted[l] = b
    BY AllStored DEF Stored, Received
<1>5. converted_lookup[p] # NoAsset
    BY <1>1, <1>3, <1>4 DEF LookupOK
<1>6. PICK m \in DOMAIN all_converted :
        /\ all_converted[m] = converted_lookup[p] /\ PackageOf[all_converted[m]] = p
        /\ \A j \in DOMAIN all_converted : PackageOf[all_converted[j]] = p => j <= m
    BY <1>1, <1>5 DEF LookupOK
<1>7. all_converted[m] \in Holders(p)
    <2>1. m \in 1..Len(all_converted)
        BY <1>1, LenProperties
    <2>2. all_converted[m] \in Assets
        BY <1>1, <2>1, ElementOfSeq
    <2> QED BY <1>6, <2>2 DEF Holders
<1>8. \A j \in DOMAIN all_converted : all_converted[j] \in Holders(p) => j <= m
    BY <1>6 DEF Holders
<1>9. LastOf(all_converted, Holders(p)) = all_converted[m]
    BY <1>1, <1>7, <1>8, LastIs
<1> QED BY <1>2, <1>5, <1>6, <1>9

-----------------------------------------------------------------------------
(* The properties                                                          *)

LEMMA AtMostOne ==
    ASSUME NEW S, \A x, y \in S : x = y
    PROVE  Cardinality(S) = IF S = {} THEN 0 ELSE 1
<1>1. CASE S = {}
    BY <1>1, FS_EmptySet
<1>2. CASE S # {}
    <2>1. PICK x \in S : S = {x}
        BY <1>2
    <2> QED BY <1>2, <2>1, FS_Singleton
<1> QED BY <1>1, <1>2

LEMMA StoredOnce ==
    ASSUME IInv, NEW a \in Assets
    PROVE  Times(a, Received) = IF a \in Stored THEN 1 ELSE 0
<1> DEFINE S == {i \in DOMAIN Received : Received[i] = a}
<1>1. \A i, j \in S : i = j
    BY DEF IInv, PlacesOK
<1>2. S = {} <=> a \notin Stored
    BY DEF Stored
<1>3. Cardinality(S) = IF S = {} THEN 0 ELSE 1
    <2> HIDE DEF S
    <2> QED BY <1>1, AtMostOne
<1> QED BY <1>2, <1>3 DEF Times

LEMMA BulkOnce ==
    ASSUME IInv, outcome = "ok", NEW a \in Assets
    PROVE  Times(a, bulkData) = IF a \in hasBulk THEN 1 ELSE 0
<1> DEFINE S == {k \in DOMAIN bulkData : bulkData[k] = a}
<1>1. Follows(bulkData, packageData, hasBulk)
    BY PackagesInOrder
<1>2. PICK i \in DOMAIN packageData : packageData[i] = a
    BY AllStored, PackagesInOrder DEF Stored
<1>3. /\ DOMAIN bulkData = 1..Len(bulkData) /\ Len(bulkData) \in Nat
      /\ DOMAIN packageData = 1..Len(packageData) /\ Len(packageData) \in Nat
    BY LenProperties DEF IInv, ShapeOK
<1>4. \A k, l \in S : k = l
    <2>1. ASSUME NEW k \in S, NEW l \in S PROVE ~(k < l)
        <3>1. k < l => i < i
            BY <1>1, <1>2 DEF Follows
        <3> QED BY <1>3, <3>1
    <2> QED BY <1>3, <2>1
<1>5. S = {} <=> a \notin hasBulk
    BY <1>1, <1>2 DEF Follows
<1>6. Cardinality(S) = IF S = {} THEN 0 ELSE 1
    <2> HIDE DEF S
    <2> QED BY <1>4, AtMostOne
<1> QED BY <1>5, <1>6 DEF Times

LEMMA Conserved ==
    ASSUME IInv
    PROVE  AssetsConserved
<1>1. PlacesOK /\ NoneLost
    BY DEF IInv
<1> SUFFICES ASSUME NEW a \in Assets
             PROVE  LET places == (IF a \in todo THEN 1 ELSE 0)
                                  + Cardinality({w \in Workers : carried[w] = a})
                                  + (IF inHand = a THEN 1 ELSE 0)
                                  + Times(a, Received)
                    IN  (failures = {} => places = 1) /\ places <= 1
    BY DEF AssetsConserved
<1> DEFINE C == {w \in Workers : carried[w] = a}
<1>2. a # NoAsset
    BY NoAssetIsNone
<1>3. Cardinality(C) = IF C = {} THEN 0 ELSE 1
    <2>1. \A v, w \in C : v = w
        BY <1>1, <1>2 DEF PlacesOK
    <2> HIDE DEF C
    <2> QED BY <2>1, AtMostOne
<1>4. Times(a, Received) = IF a \in Stored THEN 1 ELSE 0
    BY StoredOnce
<1>5. /\ a \in todo => C = {} /\ inHand # a /\ a \notin Stored
      /\ C # {} => a \notin Stored /\ inHand # a
      /\ inHand = a => a \notin Stored
    BY <1>1, <1>2 DEF PlacesOK
<1>6. failures = {} => a \in todo \/ C # {} \/ inHand = a \/ a \in Stored
    BY <1>1 DEF NoneLost
<1> HIDE DEF C
<1>7. LET places == (IF a \in todo THEN 1 ELSE 0) + Cardinality(C)
                    + (IF inHand = a THEN 1 ELSE 0) + Times(a, Received)
      IN  (failures = {} => places = 1) /\ places <= 1
    BY <1>3, <1>4, <1>5, <1>6
<1> QED BY <1>7 DEF C

\* Until an error each asset is in exactly one place between the threads and the
\* container, and Ok is returned only when nothing failed and every asset's package
\* data is in the container once, and its bulk data if it has any: process_assets and
\* the loop over the receiver in action_to_zen.
THEOREM OkIsComplete == Spec => []OkMeansComplete
<1>1. IInv => OkMeansComplete
    <2> SUFFICES ASSUME IInv PROVE OkMeansComplete
        OBVIOUS
    <2>1. TypeOK
        BY DEF IInv
    <2>2. AssetsConserved
        BY Conserved
    <2>3. ASSUME outcome = "ok"
          PROVE  /\ failures = {}
                 /\ \A a \in Assets :
                        /\ Times(a, packageData) = 1
                        /\ Times(a, bulkData) = IF a \in hasBulk THEN 1 ELSE 0
        <3>1. failures = {} /\ \A a \in Assets : a \in Stored
            BY <2>3, AllStored
        <3>2. Received = packageData
            BY <2>3, PackagesInOrder
        <3>3. \A a \in Assets : Times(a, packageData) = 1
            BY <3>1, <3>2, StoredOnce
        <3>4. \A a \in Assets : Times(a, bulkData) = IF a \in hasBulk THEN 1 ELSE 0
            BY <2>3, BulkOnce
        <3> QED BY <3>1, <3>3, <3>4
    <2> QED BY <2>1, <2>2, <2>3 DEF OkMeansComplete
<1> QED BY <1>1, PipelineInvariant, PTL

\* An arc to a package of this mod is resolved against the asset whose data a reader
\* of that package gets, in whatever order assets came and with several inputs for
\* one package: the lookup and the second pass of action_to_zen.
THEOREM ArcsMatch == Spec => []ArcsMatchWhatIsRead
<1>1. IInv => ArcsMatchWhatIsRead
    <2> SUFFICES ASSUME IInv, outcome = "ok", fixup, NEW a \in Assets, NEW p \in Imports[a]
                 PROVE  resolved[a][p] = IF p \in Packages THEN LastOf(packageData, Holders(p))
                                         ELSE External
        BY DEF ArcsMatchWhatIsRead
    <2>1. PICK i \in DOMAIN all_converted : all_converted[i] = a
        BY AllStored DEF Stored, Received
    <2>2. resolved[a] = [q \in Imports[a] |-> Resolve(q)]
        BY <2>1, AllStored DEF IInv, ShapeOK, ArcsOK
    <2>3. resolved[a][p] = Resolve(p)
        BY <2>2
    <2>4. CASE p \in Packages
        BY <2>3, <2>4, FixupReads DEF Resolve
    <2>5. CASE p \notin Packages
        BY <2>3, <2>5 DEF Resolve
    <2> QED BY <2>4, <2>5
<1> QED BY <1>1, PipelineInvariant, PTL

\* Of several inputs for one package, a reader gets the bulk data of the last that has
\* any, in the order of the package data, of which it gets the last: the calling thread
\* alone writes, and both passes keep the order in which assets came.
THEOREM BulkFollows == Spec => []BulkFollowsPackageData
<1>1. IInv => BulkFollowsPackageData
    <2> SUFFICES ASSUME IInv, outcome = "ok", NEW p \in Packages
                 PROVE  LastOf(bulkData, Holders(p)) = LastOf(packageData, Holders(p) \cap hasBulk)
        BY DEF BulkFollowsPackageData
    <2>1. packageData \in Seq(Assets) /\ bulkData \in Seq(Assets)
        BY DEF IInv, ShapeOK
    <2> QED BY <2>1, PackagesInOrder, LastFollows
<1> QED BY <1>1, PipelineInvariant, PTL
=============================================================================
