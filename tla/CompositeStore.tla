--------------------------- MODULE CompositeStore ---------------------------
(***************************************************************************)
(* IoStoreBackend of src/src/iostore.rs: several containers seen as one.   *)
(* They are opened in whatever order the directory lists them, refused if  *)
(* their versions differ, and sorted by priority; every question is then   *)
(* put to them one after the other and the first that knows answers.       *)
(*                                                                         *)
(* What decides a container's place is its name: global or not, the patch  *)
(* suffix and the base name.  The suffix is 0 for none, 1 for _P without a *)
(* number and n + 2 for _n_P; base names stand for their alphabetical      *)
(* rank.  The chunk version is a u32, so n + 2 wraps at Width.             *)
(*                                                                         *)
(* A chunk and a store entry are named by their package.  A header may be  *)
(* missing, or fail to parse, which IoStoreContainer::open forgives: such  *)
(* a container has chunks and knows no package.                            *)
(***************************************************************************)
EXTENDS Naturals, Sequences, FiniteSets, SequencesExt

CONSTANTS Containers,   \* the .utoc files of the directory, by name
          Packages,
          GlobalRank,   \* the rank of the base name "global"
          Width,        \* 2^32
          Versions,     \* of a table of contents, and of a header
          NoVersion     \* the container has no header

Names == [rank : Nat, suffix : Nat]

ASSUME ContainersHaveNames == Containers \subseteq Names
ASSUME ContainersFinite == IsFiniteSet(Containers)
ASSUME PackagesFinite == IsFiniteSet(Packages)
ASSUME VersionsAreNumbers == Versions \subseteq Nat /\ NoVersion \notin Versions
ASSUME WidthPositive == Width \in Nat \ {0}

VARIABLES
    data,            \* container -> packages whose export data it has
    entries,         \* container -> packages its header lists
    toc_version, header_version,
    containers,      \* the sequence of containers
    store            \* "listed", "opened", "validated", "ready" or "refused"

contents == <<data, entries, toc_version, header_version>>
storeVars == <<contents, containers, store>>

InitStore ==
    /\ data \in [Containers -> SUBSET Packages]
    /\ toc_version \in [Containers -> Versions]
    /\ header_version \in [Containers -> Versions \cup {NoVersion}]
    /\ entries = [c \in Containers |-> IF header_version[c] = NoVersion THEN {} ELSE data[c]]
    /\ containers \in SetToSeqs(Containers)
    /\ store = "listed"

\* open_paths opens them in parallel and keeps their order, or one fails.
OpenAll ==
    /\ store = "listed"
    /\ store' \in {"opened", "refused"}
    /\ UNCHANGED <<contents, containers>>

Listed(S) == {i \in DOMAIN containers : containers[i] \in S}

\* find and find_map: the first container that is in S.
FirstOf(S) == containers[CHOOSE i \in Listed(S) : \A j \in Listed(S) : i <= j]

Headed == {c \in Containers : header_version[c] # NoVersion}

\* Each container is compared with the first, and with the first that has a
\* header.
Versioned ==
    /\ \A i \in DOMAIN containers : toc_version[containers[i]] = toc_version[containers[1]]
    /\ \A i \in Listed(Headed) : header_version[containers[i]] = header_version[FirstOf(Headed)]

Validate ==
    /\ store = "opened"
    /\ store' = IF Versioned THEN "validated" ELSE "refused"
    /\ UNCHANGED <<contents, containers>>

ChunkVersion(c) == c.suffix % Width

\* A variant of Before that takes the patch number last.
BeforeByBase(a, b) ==
    LET global(c) == c = [rank |-> GlobalRank, suffix |-> 0]
    IN  \/ global(a) /\ ~global(b)
        \/ /\ global(a) <=> global(b)
           /\ \/ a.rank > b.rank
              \/ a.rank = b.rank /\ ChunkVersion(a) > ChunkVersion(b)

\* sort_container_name, compared in descending order.
Before(a, b) ==
    LET global(c) == c = [rank |-> GlobalRank, suffix |-> 0]
    IN  \/ global(a) /\ ~global(b)
        \/ /\ global(a) <=> global(b)
           /\ \/ ChunkVersion(a) > ChunkVersion(b)
              \/ ChunkVersion(a) = ChunkVersion(b) /\ a.rank > b.rank

\* sort_by is stable: containers neither of which precedes keep their order.
Sorted(s) ==
    LET place(i) == 1 + Cardinality({j \in DOMAIN s :
                            Before(s[j], s[i]) \/ (~Before(s[i], s[j]) /\ j < i)})
    IN  [k \in DOMAIN s |-> s[CHOOSE i \in DOMAIN s : place(i) = k]]

SortByPriority ==
    /\ store = "validated"
    /\ containers' = Sorted(containers)
    /\ store' = "ready"
    /\ UNCHANGED contents

OpenStore == OpenAll \/ Validate \/ SortByPriority

-----------------------------------------------------------------------------
(* What the composite store answers                                        *)

\* A variant of FirstOf that lets later containers win.
LastOf(S) == containers[CHOOSE i \in Listed(S) : \A j \in Listed(S) : j <= i]

HasChunk(p) == {c \in Containers : p \in data[c]}
HasEntry(p) == {c \in Containers : p \in entries[c]}

\* A variant of ReadFrom that searches the containers backwards.
ReadFromLast(p) == LastOf(HasChunk(p))

ReadFrom(p) == FirstOf(HasChunk(p))
StoreEntryFrom(p) == FirstOf(HasEntry(p))

\* The elements of s at the places I, in order.
KeepAt(s, I) ==
    LET place(i) == 1 + Cardinality({j \in I : j < i})
    IN  [k \in 1..Cardinality(I) |-> s[CHOOSE i \in I : place(i) = k]]

\* packages_all: a package as often as there are headers that list it.
PackagesAll ==
    LET listing(c) == SetToSeq({[id |-> p, container |-> c] : p \in entries[c]})
    IN  FlattenSeq([i \in DOMAIN containers |-> listing(containers[i])])

\* packages: UniqueIterator passes the first listing of each.
UniquePackages ==
    LET all == PackagesAll
        first(i) == \A j \in DOMAIN all : j < i => all[j].id # all[i].id
    IN  KeepAt(all, {i \in DOMAIN all : first(i)})

-----------------------------------------------------------------------------
(* Properties                                                              *)

Ready == store = "ready"

StoreTypeOK ==
    /\ data \in [Containers -> SUBSET Packages]
    /\ entries \in [Containers -> SUBSET Packages]
    /\ store \in {"listed", "opened", "validated", "ready", "refused"}
    /\ ToSet(containers) = Containers /\ Len(containers) = Cardinality(Containers)

\* How a modder expects names to override each other.
Overrides(a, b) ==
    \/ a = [rank |-> GlobalRank, suffix |-> 0]
    \/ /\ b # [rank |-> GlobalRank, suffix |-> 0]
       /\ \/ a.suffix > 0 /\ b.suffix = 0
          \/ a.suffix > 1 /\ b.suffix = 1
          \/ a.suffix > 1 /\ b.suffix > 1 /\ a.suffix > b.suffix
          \/ a.suffix = b.suffix /\ a.rank > b.rank

\* However the directory lists them, a chunk is read from the container that
\* overrides all others that have it, as long as no patch number wraps.
OverrideWins ==
    Ready /\ (\A c \in Containers : c.suffix < Width) =>
        \A p \in Packages : HasChunk(p) # {} =>
            /\ ReadFrom(p) \in HasChunk(p)
            /\ \A c \in HasChunk(p) \ {ReadFrom(p)} : Overrides(ReadFrom(p), c)

\* A store that opens holds no two tables of contents, and no two headers, of
\* different versions, however many containers without a header lie between.
NoMixedVersions ==
    Ready => \A a, b \in Containers :
        /\ toc_version[a] = toc_version[b]
        /\ NoVersion \notin {header_version[a], header_version[b]} =>
                header_version[a] = header_version[b]

\* The export data of a package and its store entry are searched for one
\* after the other, and come from one container if that has a header.
DataAndEntryAgree ==
    Ready => \A p \in Packages :
        HasChunk(p) # {} /\ header_version[ReadFrom(p)] # NoVersion =>
            StoreEntryFrom(p) = ReadFrom(p)

\* packages() names every package once, under the container whose store entry
\* is the one that is used.
PackagesOnce ==
    Ready =>
        /\ {UniquePackages[i].id : i \in DOMAIN UniquePackages} = UNION {entries[c] : c \in Containers}
        /\ \A i, j \in DOMAIN UniquePackages : UniquePackages[i].id = UniquePackages[j].id => i = j
        /\ \A i \in DOMAIN UniquePackages :
            UniquePackages[i].container = StoreEntryFrom(UniquePackages[i].id)

\* What a store answers is consistent, whatever its containers hold.
StoreIsConsistent == NoMixedVersions /\ DataAndEntryAgree /\ PackagesOnce
=============================================================================
