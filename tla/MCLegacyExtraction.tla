------------------------- MODULE MCLegacyExtraction -------------------------
(***************************************************************************)
(* Four containers: global, one of the game, its numbered patch and a mod. *)
(* Three instances in one run.  Stores: listed in every order, holding a   *)
(* package or not, with and without headers, in mixed versions.  Batches:  *)
(* one package in the game or the mod, extracted with everything and then  *)
(* from the mod alone.  Pairs: two packages converted in parallel.         *)
(***************************************************************************)
EXTENDS LegacyExtraction
CONSTANTS mesh, skin, worker1, worker2
Global == [rank |-> 1, suffix |-> 0]
Game == [rank |-> 2, suffix |-> 0]
Patch == [rank |-> 2, suffix |-> 3]
Mod == [rank |-> 3, suffix |-> 1]
MCContainers == {Global, Game, Patch, Mod}
MCPackages == {mesh, skin}
MCVersions == {1, 2}
MCWorkers == {worker1, worker2}
AllThenMod == <<{}, {Mod}>>

Per(here, others) == {[c \in MCContainers |-> IF c \in DOMAIN h THEN h[c] ELSE others] : h \in here}
Nothing == [c \in MCContainers |-> {}]
First == [c \in MCContainers |-> 1]

StoreInit ==
    /\ data \in [MCContainers -> {{}, {mesh}}]
    /\ toc_version \in {[First EXCEPT ![c] = v] : c \in MCContainers, v \in MCVersions}
    /\ header_version \in [MCContainers -> MCVersions \cup {NoVersion}]
    /\ toc_version = First \/ ToSet(<<header_version[Game], header_version[Mod]>>) = {1}
    /\ optional = Nothing
    /\ unmounted = {}
BatchInit ==
    /\ data \in Per([{Game, Mod} -> {{}, {mesh}}], {})
    /\ toc_version = First
    /\ header_version \in Per([{Game, Mod} -> {1, NoVersion}], 1)
    /\ optional \in Per([{Game, Mod} -> {{}, {mesh}}], {})
    /\ unmounted \in SUBSET {Game, Mod}
PairInit ==
    /\ data \in Per([{Game, Mod} -> {{skin}, {mesh, skin}}], {})
    /\ toc_version = First
    /\ header_version = First
    /\ optional = [Nothing EXCEPT ![Mod] = {skin}]
    /\ unmounted = {}

MCInit == (StoreInit \/ BatchInit \/ PairInit) /\ Init
MCSpec == MCInit /\ [][Next]_vars /\ WF_vars(Main) /\ \A w \in Workers : WF_vars(Work(w))

\* A store is left alone once it is open, a pair after one item.
Pair == \E c \in MCContainers : skin \in data[c]
Batch == \A c \in {Global, Patch} : data[c] = {} /\ toc_version[c] = 1 /\ header_version[c] = 1
Instances ==
    \/ item = 1 /\ (phase = "scanning" \/ Pair \/ Batch)
    \/ Batch /\ ~Pair
=============================================================================
