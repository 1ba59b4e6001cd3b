-------------------------- MODULE ContainerHeader --------------------------
(***************************************************************************)
(* The header of a container: its packages with their store entries, the   *)
(* packages it localizes and those it redirects.  A writer makes one with  *)
(* new and adds to it; a reader gets it back from the bytes of the chunk,  *)
(* whose layout depends on a version that old headers do not record.       *)
(*                                                                         *)
(* The entries and the arrays they point to are laid out word by word (of  *)
(* four bytes), with the offsets the code computes.  Names stand for their *)
(* package; optional segments and soft references, which the program       *)
(* copies unread, are left out.                                            *)
(***************************************************************************)
EXTENDS Integers, SequencesExt, TLC

CONSTANTS Ids, Entries, Cultures, Containers, NoOverride, NoPackage,
          AfterMagic,        \* of container ids whose lower half is the magic number:
                             \* the version that their upper half reads as, if any
          NoVersion,
          MaxAdded           \* bound on the calls that build one header

PreInitial == -1
Initial == 0
LocalizedPackages == 1
NoExportInfo == 3
Versions == -1 .. 4

ASSUME HeaderAssumption ==
    /\ Ids \subseteq Nat /\ NoPackage \notin Ids /\ MaxAdded \in Nat
    /\ DOMAIN AfterMagic \subseteq Containers
    /\ Range(AfterMagic) \subseteq Versions \cup {NoVersion}
    /\ NoOverride \notin Versions /\ NoVersion \notin Versions

VARIABLES header,
          built,    \* history: the header as it was built
          told,     \* history: the override it was read with
          phase     \* "building", or what reading it came to

vars == <<header, built, told, phase>>

\* The words of FFilePackageStoreEntry in a version, in the order written.
Words(v) ==
    (IF v = Initial THEN << <<"size", 0>>, <<"size", 1>> >> ELSE <<>>)
    \o (IF v < NoExportInfo THEN << <<"exports", 0>>, <<"bundles", 0>> >> ELSE <<>>)
    \o (IF v = Initial THEN << <<"order", 0>>, <<"pad", 0>> >> ELSE <<>>)
    \o << <<"importsNum", 0>>, <<"importsOffset", 0>> >>
    \o (IF v > Initial THEN << <<"shadersNum", 0>>, <<"shadersOffset", 0>> >> ELSE <<>>)

\* Where the code takes imported_packages to be, from the start of an entry.
MemberOffset(v) == IF v = Initial THEN 6 ELSE IF v < NoExportInfo THEN 2 ELSE 0

\* A variant of EntrySize that keeps the size of the first version.
EntrySizeUnchanged(v) == IF v = Initial THEN 8 ELSE 4

\* The size of an entry: where the arrays start, and what the reader steps by.
EntrySize(v) ==
    IF v = Initial THEN 8 ELSE IF v \in {PreInitial, 3, 4} THEN 4 ELSE 6

IdWords == 2
HashWords == 5

\* Words of items laid out one after another from a position.
At(items, p, width) ==
    [q \in p .. p + width * Len(items) - 1 |->
        <<items[(q - p) \div width + 1], (q - p) % width>>]

IndexOf(seq, x) == SelectInSeq(seq, LAMBDA y : y = x)

\* What a word of an entry holds: the reader asks for field f of entry i.
Field(image, v, i, f) == image[(i - 1) * Len(Words(v)) + IndexOf(Words(v), <<f, 0>>) - 1][1]

ArrayAt(image, p, num, width) ==
    IF \E items \in [1 .. num -> Ids] : \A q \in DOMAIN At(items, p, width) :
            q \in DOMAIN image /\ image[q] = At(items, p, width)[q]
    THEN [k \in 1 .. num |-> image[p + width * (k - 1)][1]]
    ELSE <<NoPackage>>

\* StoreEntries::serialize: for each package in the order of the ids, first its
\* arrays behind all entries, then its entry with the offsets of the arrays.
WriteEntry(v, acc, e) ==
    LET shadersAt == acc.array + IdWords * Len(e.imports)
        shaders == IF v > Initial THEN e.shaders ELSE <<>>
        from(p, k, items) == IF items = <<>> THEN 0 ELSE p - acc.entry - MemberOffset(v) - k
        stored == [size |-> e.size, exports |-> e.exports, bundles |-> e.bundles,
                   order |-> e.order, pad |-> 0,
                   importsNum |-> Len(e.imports),
                   importsOffset |-> from(acc.array, 0, e.imports),
                   shadersNum |-> Len(shaders), shadersOffset |-> from(shadersAt, 2, shaders)]
        entry == [q \in acc.entry .. acc.entry + Len(Words(v)) - 1 |->
                     LET w == Words(v)[q - acc.entry + 1] IN <<stored[w[1]], w[2]>>]
    IN  [image |-> entry @@ At(shaders, shadersAt, HashWords)
                         @@ At(e.imports, acc.array, IdWords) @@ acc.image,
         entry |-> acc.entry + Len(Words(v)),
         array |-> shadersAt + HashWords * Len(shaders)]

Serialize(v, packages) ==
    LET ids == SetToSortSeq(DOMAIN packages, <)
        write(acc, id) == WriteEntry(v, acc, packages[id])
    IN  [ids |-> ids,
         image |-> FoldLeft(write, [image |-> <<>>, entry |-> 0,
                                    array |-> Len(ids) * EntrySize(v)], ids).image]

\* StoreEntries::deserialize: fields the version does not store are zero.
ReadEntry(v, image, i) ==
    LET base == (i - 1) * EntrySize(v) + MemberOffset(v)
        has(f) == <<f, 0>> \in ToSet(Words(v))
        get(f) == IF has(f) THEN Field(image, v, i, f) ELSE 0
    IN  [size |-> get("size"), exports |-> get("exports"), bundles |-> get("bundles"),
         order |-> get("order"),
         imports |-> ArrayAt(image, base + get("importsOffset"), get("importsNum"), IdWords),
         shaders |-> ArrayAt(image, base + get("shadersOffset") + 2, get("shadersNum"), HashWords)]

Deserialize(v, written) ==
    [id \in ToSet(written.ids) |-> ReadEntry(v, written.image, IndexOf(written.ids, id))]

\* FIoContainerHeader::deserialize takes the bytes to begin with the magic number and
\* a version, as those of later versions do.  An old header begins with its container
\* id, whose lower half may be the magic number too.
TakenAsRecorded(h, override) ==
    /\ override = NoOverride \/ override > Initial
    /\ h.version > Initial \/ h.id \in DOMAIN AfterMagic

\* The version it takes them to be in.
VersionRead(h, override) ==
    IF TakenAsRecorded(h, override)
    THEN IF h.version > Initial THEN h.version ELSE AfterMagic[h.id]
    ELSE IF override = NoOverride THEN Initial ELSE override

LookupOf(redirects) ==
    LET add(lookup, r) == [lookup EXCEPT ![r.source] = r.target]
    IN  FoldLeft(add, [id \in Ids |-> NoPackage], redirects)

New(v, id) ==
    [version |-> v, id |-> id, packages |-> <<>>, localized |-> <<>>, localizedIds |-> {},
     redirects |-> <<>>, lookup |-> [x \in Ids |-> NoPackage],
     cultures |-> [c \in {} |-> <<>>]]

Added(h) == Cardinality(DOMAIN h.packages) + Len(h.localized) + Len(h.redirects)
            + FoldFunction(LAMBDA seq, n : n + Len(seq), 0, h.cultures)

\* What is read back: the ids of localized packages are collected from the list
\* of redirects.
ReadBack(h) ==
    [h EXCEPT !.packages = Deserialize(h.version, Serialize(h.version, h.packages)),
              !.localizedIds = IF h.version > Initial
                               THEN {r.source : r \in ToSet(h.redirects)} ELSE {},
              !.lookup = LookupOf(h.redirects)]

Init ==
    /\ \E v \in Versions, id \in Containers : header = New(v, id)
    /\ built = header
    /\ told = NoOverride
    /\ phase = "building"

Building == phase = "building" /\ Added(header) < MaxAdded

AddPackage(id, e) ==
    /\ Building
    /\ header' = [header EXCEPT !.packages = (id :> e) @@ @]
    /\ built' = header' /\ UNCHANGED <<told, phase>>

AddLocalizedPackage(culture, id, localized) ==
    /\ Building
    /\ header' =
         IF header.version > Initial
         THEN IF id \in header.localizedIds THEN header
              ELSE [header EXCEPT !.localizedIds = @ \cup {id}, !.localized = Append(@, id)]
         ELSE LET before == IF culture \in DOMAIN header.cultures
                            THEN header.cultures[culture] ELSE <<>>
              IN  [header EXCEPT !.cultures =
                       (culture :> Append(before, <<id, localized>>)) @@ @]
    /\ built' = header' /\ UNCHANGED <<told, phase>>

AddPackageRedirect(id, target) ==
    /\ Building
    /\ header' = [header EXCEPT !.redirects = Append(@, [source |-> id, target |-> target]),
                                !.lookup[id] = target]
    /\ built' = header' /\ UNCHANGED <<told, phase>>

\* The chunk is written, and read with the override the user gives, if any.  Where a
\* version is expected there may be none, an Err, or one that is not the override, which
\* stops the program in an assertion; a wrong version, or a version taken out of a
\* container id, leaves bytes read in the wrong layout.
SaveAndReload(override) ==
    /\ phase = "building"
    /\ LET v == VersionRead(header, override)
           recorded == TakenAsRecorded(header, override)
       IN  phase' = IF recorded /\ v = NoVersion THEN "failed"
                    ELSE IF recorded /\ override \notin {NoOverride, v} THEN "asserted"
                    ELSE IF v = header.version /\ (recorded <=> v > Initial) THEN "reloaded"
                    ELSE "misread"
    /\ header' = IF phase' = "reloaded" THEN ReadBack(header) ELSE header
    /\ told' = override
    /\ UNCHANGED built

\* A built header says what the bytes hold; one that is read stays as it is.
Done == phase # "building" /\ UNCHANGED vars

Next ==
    \/ \E id \in Ids, e \in Entries : AddPackage(id, e)
    \/ \E c \in Cultures, id \in Ids, l \in Ids : AddLocalizedPackage(c, id, l)
    \/ \E id \in Ids, target \in Ids : AddPackageRedirect(id, target)
    \/ \E o \in Versions \cup {NoOverride} : SaveAndReload(o)
    \/ Done

Spec == Init /\ [][Next]_vars

TypeOK ==
    /\ phase \in {"building", "reloaded", "misread", "asserted", "failed"}
    /\ header.version = built.version /\ header.id = built.id
    /\ DOMAIN header.packages \subseteq Ids /\ Range(header.localized) \subseteq Ids
    /\ header.lookup \in [Ids -> Ids \cup {NoPackage}]

\* What a version of the header keeps of a store entry.
KeptOf(v, e) ==
    [e EXCEPT !.size = IF v = Initial THEN @ ELSE 0,
              !.order = IF v = Initial THEN @ ELSE 0,
              !.exports = IF v < NoExportInfo THEN @ ELSE 0,
              !.bundles = IF v < NoExportInfo THEN @ ELSE 0,
              !.shaders = IF v > Initial THEN @ ELSE <<>>]

\* A header that is read back has the packages it was built with, each with all
\* its version keeps of it: no array overwrites an entry or another array, and
\* the reader finds each by the offset the writer computed for it.
EntriesSurvive ==
    phase = "reloaded" =>
        header.packages = [id \in DOMAIN built.packages |->
                              KeptOf(built.version, built.packages[id])]

\* The offset stored with an array, counted from the place of the pair of words
\* that holds it, is where its elements start: what the engine, which knows
\* nothing of the constants of this program, follows.
OffsetsPointFromMember ==
    LET v == header.version
        written == Serialize(v, header.packages)
        word(i, f) == (i - 1) * Len(Words(v)) + IndexOf(Words(v), <<f, 0>>) - 1
        follows(i, num, offset, items, width) ==
            items # <<>> => LET p == word(i, num) + written.image[word(i, offset)][1]
                            IN  \A q \in DOMAIN At(items, p, width) :
                                    q \in DOMAIN written.image
                                    /\ written.image[q] = At(items, p, width)[q]
    IN  phase = "building" =>
        \A i \in DOMAIN written.ids : LET e == header.packages[written.ids[i]] IN
            /\ follows(i, "importsNum", "importsOffset", e.imports, IdWords)
            /\ v > Initial => follows(i, "shadersNum", "shadersOffset", e.shaders, HashWords)

\* The override a user gives for a version is enough to read every header in it.  A
\* header later than Initial needs none, and one in Initial needs none unless its
\* container id begins with the magic number: that one is not read.
ReadableByVersion ==
    phase \notin {"building", "reloaded"} =>
        /\ told # built.version
        /\ told = NoOverride =>
            \/ built.version < Initial
            \/ built.version = Initial /\ built.id \in DOMAIN AfterMagic

\* The lookup answers with the redirect added last, in a header being built and
\* in one that was read.
LastRedirectWins ==
    \A id \in Ids :
        LET last == SelectLastInSeq(header.redirects, LAMBDA r : r.source = id)
        IN  header.lookup[id] = IF last = 0 THEN NoPackage ELSE header.redirects[last].target

\* A package is listed as localized once, however many cultures it has, and in a
\* header being built the set of localized packages is what the list says.
LocalizedOnce ==
    /\ IsInjective(header.localized)
    /\ phase = "building" => header.localizedIds = ToSet(header.localized)
=============================================================================
