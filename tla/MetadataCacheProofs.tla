------------------------ MODULE MetadataCacheProofs ------------------------
(***************************************************************************)
(* What an entry of the metadata cache holds was read from the files its   *)
(* key names, for any number of threads, paths, configurations, opens and  *)
(* updates.  The invariant follows one open from stamp to insertion: the   *)
(* versions only grow, so a version read between two equal stamps is that  *)
(* of the stamps.                                                          *)
(***************************************************************************)
EXTENDS MetadataCache, TLAPS

\* No file has a version above the number of updates.
FilesOK ==
    /\ updates \in 0..MaxUpdates
    /\ \A p \in Paths : toc_file[p] <= updates /\ cas_file[p] <= updates

KeyOK(t) ==
    /\ pc[t] # "idle" => request[t] \in Requests
    /\ pc[t] \in {"stamping", "looking", "checking", "checking2", "inserting"} =>
            key[t] # NoKey
    /\ key[t] # NoKey /\ pc[t] # "idle" =>
            /\ key[t].path = Path(t) /\ key[t].config = Config(t)
            /\ key[t].toc <= toc_file[Path(t)]
            /\ pc[t] # "stamping" => key[t].cas <= cas_file[Path(t)]

TocOK(t) ==
    /\ pc[t] \in {"parsed", "reading", "checking", "checking2"} =>
            /\ toc[t] \in Tocs
            /\ toc[t].path = Path(t) /\ toc[t].config = Config(t)
            /\ key[t] # NoKey => key[t].toc <= toc[t].first
            /\ toc[t].first <= toc[t].last /\ toc[t].last <= toc_file[Path(t)]
    /\ pc[t] = "checking2" => toc[t] = Parse(Path(t), Config(t), key[t].toc)

HeaderOK(t) ==
    /\ pc[t] \in {"checking", "checking2"} =>
            /\ header[t] \in Headers
            /\ header[t].toc = toc[t]
            /\ key[t].cas <= header[t].cas /\ header[t].cas <= cas_file[Path(t)]
            /\ cell[t] \in Serials
    /\ pc[t] = "inserting" =>
            /\ header[t] = ReadThrough(Path(t), Config(t), <<key[t].toc, key[t].cas>>)
            /\ toc[t] = header[t].toc
            /\ cell[t] \in Serials

OpenedOK(t) ==
    /\ pc[t] \in {"opened", "setting", "loaded"} =>
            toc[t] \in Tocs /\ header[t] \in Headers /\ cell[t] \in Serials
    /\ pc[t] = "setting" => objects[t] \in Headers

ThreadOK(t) == KeyOK(t) /\ TocOK(t) /\ HeaderOK(t) /\ OpenedOK(t)

IInv ==
    /\ TypeOK
    /\ FilesOK
    /\ \A t \in Threads : ThreadOK(t)
    /\ EntriesMatchTheirKeys

-----------------------------------------------------------------------------
(* Sequences                                                               *)

\* What RemoveAt leaves of a sequence are its elements, one fewer.
LEMMA RemoveAtElements ==
    ASSUME NEW S, NEW s \in Seq(S), NEW i \in 1..Len(s)
    PROVE  /\ RemoveAt(s, i) \in Seq(S)
           /\ Len(RemoveAt(s, i)) = Len(s) - 1
           /\ \A k \in 1..Len(RemoveAt(s, i)) :
                \E j \in 1..Len(s) : RemoveAt(s, i)[k] = s[j]
<1> DEFINE front == SubSeq(s, 1, i - 1)
           back == SubSeq(s, i + 1, Len(s))
<1>1. front \in Seq(S) /\ Len(front) = i - 1
       /\ \A k \in 1..i - 1 : front[k] = s[k]
    OBVIOUS
<1>2. back \in Seq(S) /\ Len(back) = Len(s) - i
       /\ \A k \in 1..Len(s) - i : back[k] = s[i + k]
    OBVIOUS
<1>3. RemoveAt(s, i) = front \o back
    BY DEF RemoveAt
<1> HIDE DEF front, back
<1>4. Len(front \o back) = Len(s) - 1 /\ front \o back \in Seq(S)
    BY <1>1, <1>2
<1>5. ASSUME NEW k \in 1..Len(s) - 1 PROVE \E j \in 1..Len(s) : (front \o back)[k] = s[j]
    <2>1. CASE k <= i - 1
        BY <2>1, <1>1, <1>2
    <2>2. CASE k > i - 1
        <3>1. (front \o back)[k] = back[k - (i - 1)]
            BY <2>2, <1>1, <1>2
        <3>2. k - (i - 1) \in 1..Len(s) - i
            BY <2>2
        <3>3. back[k - (i - 1)] = s[k + 1] /\ k + 1 \in 1..Len(s)
            BY <3>2, <1>2
        <3> QED BY <3>1, <3>3
    <2>3. k <= i - 1 \/ k > i - 1
        OBVIOUS
    <2> QED BY <2>1, <2>2, <2>3, Zenon
<1> QED BY <1>3, <1>4, <1>5

\* Making room keeps elements of the sequence, fewer than n of them.
LEMMA FewerThanElements ==
    ASSUME NEW S, NEW s \in Seq(S), NEW n \in Nat \ {0}
    PROVE  /\ FewerThan(n, s) \in Seq(S)
           /\ Len(FewerThan(n, s)) < n
           /\ \A k \in 1..Len(FewerThan(n, s)) :
                \E j \in 1..Len(s) : FewerThan(n, s)[k] = s[j]
<1>1. CASE Len(s) < n
    BY <1>1 DEF FewerThan
<1>2. CASE Len(s) >= n
    <2> DEFINE first == Len(s) - n + 2
               rest == SubSeq(s, first, Len(s))
    <2>1. first \in 1..Len(s) + 1 /\ Len(s) \in Nat
        BY <1>2
    <2>2. rest \in Seq(S) /\ Len(rest) = Len(s) - first + 1
           /\ \A k \in 1..Len(rest) : rest[k] = s[first + k - 1]
        BY <2>1
    <2>3. \A k \in 1..Len(rest) : first + k - 1 \in 1..Len(s)
        BY <2>1, <2>2
    <2>4. FewerThan(n, s) = rest
        BY <1>2 DEF FewerThan
    <2>5. Len(rest) < n
        BY <1>2, <2>1, <2>2
    <2> HIDE DEF rest
    <2> QED BY <2>2, <2>3, <2>4, <2>5
<1>3. Len(s) \in Nat
    OBVIOUS
<1> QED BY <1>1, <1>2, <1>3

\* What retain() leaves are entries of the cache.
LEMMA WithoutElements ==
    ASSUME TypeOK, NEW path
    PROVE  /\ Without(path) \in Seq(Entries)
           /\ \A k \in 1..Len(Without(path)) :
                \E j \in 1..Len(cache) : Without(path)[k] = cache[j]
<1>1. cache \in Seq(Entries)
    BY DEF TypeOK
<1>2. CASE \E i \in DOMAIN cache : cache[i].key.path = path
    <2> DEFINE i == CHOOSE i \in DOMAIN cache : cache[i].key.path = path
    <2>1. i \in 1..Len(cache)
        BY <1>1, <1>2
    <2>2. Without(path) = RemoveAt(cache, i)
        BY <1>2 DEF Without
    <2> HIDE DEF i
    <2> QED BY <1>1, <2>1, <2>2, RemoveAtElements
<1>3. CASE ~ \E i \in DOMAIN cache : cache[i].key.path = path
    BY <1>1, <1>3 DEF Without
<1> QED BY <1>2, <1>3

-----------------------------------------------------------------------------
(* Every action keeps the invariant                                        *)

\* A step that leaves the files and a thread alone leaves what is known of it.
LEMMA OtherThread ==
    ASSUME NEW u \in Threads, ThreadOK(u), UNCHANGED <<toc_file, cas_file>>,
           pc'[u] = pc[u], request'[u] = request[u], key'[u] = key[u],
           toc'[u] = toc[u], header'[u] = header[u], cell'[u] = cell[u],
           objects'[u] = objects[u]
    PROVE  ThreadOK(u)'
BY DEF ThreadOK, KeyOK, TocOK, HeaderOK, OpenedOK, Path, Config, Parse, ReadThrough

LEMMA InitIInv == Init => IInv
<1> SUFFICES ASSUME Init PROVE IInv
    OBVIOUS
<1> USE DEF Init
<1>1. TypeOK
    <2>1. 0 \in Versions /\ 0 \in 0..MaxOpens
        BY MaxUpdatesIsNat, MaxOpensIsNat DEF Versions
    <2>2. cache \in Seq(Entries) /\ Len(cache) <= Capacity
        BY CapacityPositive
    <2> QED BY <2>1, <2>2 DEF TypeOK, Labels
<1>2. FilesOK
    BY MaxUpdatesIsNat DEF FilesOK
<1>3. \A t \in Threads : ThreadOK(t)
    BY DEF ThreadOK, KeyOK, TocOK, HeaderOK, OpenedOK
<1>4. EntriesMatchTheirKeys
    BY DEF EntriesMatchTheirKeys
<1> QED BY <1>1, <1>2, <1>3, <1>4 DEF IInv

\* A new version is above every version read so far.
LEMMA UpdateIInv ==
    ASSUME IInv, NEW p \in Paths, UpdateToc(p) \/ UpdateCas(p)
    PROVE  IInv'
<1> USE DEF IInv
<1>1. UNCHANGED <<shared, opens, locals>> /\ updates' \in 0..MaxUpdates
    BY MaxUpdatesIsNat DEF UpdateToc, UpdateCas, FilesOK
<1>2. /\ toc_file' \in [Paths -> Versions] /\ cas_file' \in [Paths -> Versions]
      /\ \A q \in Paths : toc_file[q] <= toc_file'[q] /\ cas_file[q] <= cas_file'[q]
      /\ \A q \in Paths : toc_file'[q] <= updates' /\ cas_file'[q] <= updates'
    <2>1. /\ toc_file \in [Paths -> 0..MaxUpdates] /\ cas_file \in [Paths -> 0..MaxUpdates]
          /\ \A q \in Paths : toc_file[q] <= updates /\ cas_file[q] <= updates
          /\ updates \in Nat /\ updates < MaxUpdates /\ updates' = updates + 1
        BY MaxUpdatesIsNat DEF UpdateToc, UpdateCas, FilesOK, TypeOK, Versions
    <2>2. CASE UpdateToc(p)
        <3>1. toc_file' = [toc_file EXCEPT ![p] = @ + 1] /\ cas_file' = cas_file
            BY <2>2 DEF UpdateToc
        <3> QED BY <2>1, <3>1, MaxUpdatesIsNat DEF Versions
    <2>3. CASE UpdateCas(p)
        <3>1. cas_file' = [cas_file EXCEPT ![p] = @ + 1] /\ toc_file' = toc_file
            BY <2>3 DEF UpdateCas
        <3> QED BY <2>1, <3>1, MaxUpdatesIsNat DEF Versions
    <2> QED BY <2>2, <2>3
<1>3. TypeOK'
    BY <1>1, <1>2 DEF TypeOK, shared, locals
<1>4. FilesOK'
    BY <1>1, <1>2 DEF FilesOK
<1>5. ASSUME NEW t \in Threads PROVE ThreadOK(t)'
    <2>1. ThreadOK(t) /\ TypeOK
        OBVIOUS
    <2>2. KeyOK(t)'
        BY <1>1, <1>2, <2>1 DEF ThreadOK, KeyOK, locals, Path, Config, Requests, Keys, TypeOK, Versions
    <2>3. TocOK(t)'
        BY <1>1, <1>2, <2>1
        DEF ThreadOK, KeyOK, TocOK, locals, Path, Config, Requests, Tocs, TypeOK, Versions, Parse
    <2>4. HeaderOK(t)'
        BY <1>1, <1>2, <2>1
        DEF ThreadOK, KeyOK, HeaderOK, locals, Path, Config, Requests, Headers, TypeOK, Versions, Parse,
            ReadThrough
    <2>5. OpenedOK(t)'
        BY <1>1, <2>1 DEF ThreadOK, OpenedOK, locals
    <2> QED BY <2>2, <2>3, <2>4, <2>5 DEF ThreadOK
<1>6. EntriesMatchTheirKeys'
    BY <1>1 DEF EntriesMatchTheirKeys, shared
<1> QED BY <1>3, <1>4, <1>5, <1>6

\* A step of one thread that leaves the files and the cache alone.
LEMMA OneThreadIInv ==
    ASSUME IInv, NEW t \in Threads, UNCHANGED <<files, cache>>, TypeOK', ThreadOK(t)',
           \A u \in Threads \ {t} :
                /\ pc'[u] = pc[u] /\ request'[u] = request[u] /\ key'[u] = key[u]
                /\ toc'[u] = toc[u] /\ header'[u] = header[u] /\ cell'[u] = cell[u]
                /\ objects'[u] = objects[u]
    PROVE  IInv'
<1>1. FilesOK'
    BY DEF IInv, FilesOK, files
<1>2. ASSUME NEW u \in Threads \ {t} PROVE ThreadOK(u)'
    <2>1. UNCHANGED <<toc_file, cas_file>>
        BY DEF files
    <2> QED BY <2>1, OtherThread DEF IInv
<1>3. EntriesMatchTheirKeys'
    BY DEF IInv, EntriesMatchTheirKeys
<1> QED BY <1>1, <1>2, <1>3 DEF IInv

\* metadata_cache_key begins: the stamp is the file's.
LEMMA OpenIInv ==
    ASSUME IInv, NEW t \in Threads, NEW p \in Paths, NEW c \in Configs, Open(t, p, c)
    PROVE  IInv'
<1> USE DEF IInv
<1>1. TypeOK'
    <2>1. opens' \in 0..MaxOpens /\ opens + 1 \in Serials
        BY MaxOpensIsNat DEF Open, TypeOK, Serials
    <2>2. toc_file[p] \in Versions /\ 0 \in Versions
        BY MaxUpdatesIsNat DEF TypeOK, Versions
    <2>3. key' \in [Threads -> Keys \cup {NoKey}]
        BY <2>2 DEF Open, Key, Keys, TypeOK
    <2>4. request' \in [Threads -> Requests \cup {NoKey}]
        BY <2>1 DEF Open, Requests, TypeOK
    <2>5. pc' \in [Threads -> Labels]
        BY DEF Open, TypeOK, Labels, Goto
    <2> QED BY <2>1, <2>3, <2>4, <2>5 DEF Open, TypeOK, files, shared
<1>2. ThreadOK(t)'
    BY MaxOpensIsNat, MaxUpdatesIsNat, NoKeyIsNone DEF Open, Key, Keys, Requests, Serials, Versions, ThreadOK, KeyOK, TocOK, HeaderOK, OpenedOK, Path, Config, TypeOK, files, Goto
<1>3. UNCHANGED <<files, cache>>
    BY DEF Open, files, shared
<1> QED BY <1>1, <1>2, <1>3, OneThreadIInv DEF TypeOK, Open, Goto

\* The second stamp is the file's.
LEMMA StampCasIInv ==
    ASSUME IInv, NEW t \in Threads, StampCas(t)
    PROVE  IInv'
<1> USE DEF IInv
<1>1. TypeOK'
    <2>1. request[t] \in Requests /\ key[t] \in Keys
        BY DEF StampCas, TypeOK, ThreadOK, KeyOK
    <2>2. cas_file[Path(t)] \in Versions
        BY <2>1 DEF TypeOK, Path, Requests
    <2>3. [key[t] EXCEPT !.cas = cas_file[Path(t)]] \in Keys
        BY <2>1, <2>2 DEF Keys
    <2>4. key' \in [Threads -> Keys \cup {NoKey}]
        BY <2>3 DEF StampCas, TypeOK
    <2>5. pc' \in [Threads -> Labels]
        BY DEF StampCas, TypeOK, Labels, Goto
    <2> QED BY <2>4, <2>5 DEF StampCas, TypeOK, files, shared
<1>2. ThreadOK(t)'
    <2>1. /\ KeyOK(t) /\ pc[t] = "stamping" /\ pc'[t] = "looking"
          /\ UNCHANGED <<toc_file, cas_file, request>>
        BY DEF StampCas, Goto, files, TypeOK, ThreadOK
    <2>2. request[t] \in Requests /\ key[t] \in Keys
        BY <2>1 DEF TypeOK, KeyOK
    <2>3. cas_file[Path(t)] \in 0..MaxUpdates
        BY <2>2 DEF TypeOK, Path, Requests, Versions
    <2>4. key'[t] = [key[t] EXCEPT !.cas = cas_file[Path(t)]]
        BY DEF StampCas, TypeOK
    <2>5. /\ key'[t].path = key[t].path /\ key'[t].config = key[t].config
          /\ key'[t].toc = key[t].toc /\ key'[t].cas = cas_file[Path(t)]
          /\ key'[t] \in Keys
        BY <2>2, <2>3, <2>4 DEF Keys, Versions
    <2>6. KeyOK(t)'
        BY <2>1, <2>2, <2>3, <2>5, NoKeyIsNone, MaxUpdatesIsNat DEF KeyOK, Path, Config
    <2> QED BY <2>1, <2>6 DEF ThreadOK, TocOK, HeaderOK, OpenedOK
<1>3. UNCHANGED <<files, cache>>
    BY DEF StampCas, files, shared
<1> QED BY <1>1, <1>2, <1>3, OneThreadIInv DEF TypeOK, StampCas, Goto

\* Without a key, nothing is claimed.
LEMMA StampFailsIInv ==
    ASSUME IInv, NEW t \in Threads, StampFails(t)
    PROVE  IInv'
<1> USE DEF IInv
<1>1. TypeOK'
    BY DEF StampFails, TypeOK, files, shared, locals, Labels, Goto
<1>2. ThreadOK(t)'
    BY DEF StampFails, ThreadOK, KeyOK, TocOK, HeaderOK, OpenedOK, Path, Config, TypeOK, files, Goto
<1>3. UNCHANGED <<files, cache>>
    BY DEF StampFails, files, shared
<1> QED BY <1>1, <1>2, <1>3, OneThreadIInv DEF TypeOK, StampFails, Goto

\* A miss changes nothing.
LEMMA MissIInv ==
    ASSUME IInv, NEW t \in Threads, Miss(t)
    PROVE  IInv'
<1> USE DEF IInv
<1>1. TypeOK'
    BY DEF Miss, TypeOK, files, shared, locals, Labels, Goto
<1>2. ThreadOK(t)'
    BY DEF Miss, ThreadOK, KeyOK, TocOK, HeaderOK, OpenedOK, Path, Config, TypeOK, files, Goto
<1>3. UNCHANGED <<files, cache>>
    BY DEF Miss, files, shared
<1> QED BY <1>1, <1>2, <1>3, OneThreadIInv DEF TypeOK, Miss, Goto

\* The first part read is not older than the stamp.
LEMMA ParseTocIInv ==
    ASSUME IInv, NEW t \in Threads, ParseToc(t)
    PROVE  IInv'
<1> USE DEF IInv
<1>1. TypeOK'
    BY DEF ParseToc, Tocs, Path, Config, KeyOK, ThreadOK, Requests, TypeOK, files, shared, locals, Labels, Goto
<1>2. ThreadOK(t)'
    <2>1. request[t] \in Requests /\ toc_file[Path(t)] \in Versions
        BY DEF ParseToc, TypeOK, ThreadOK, KeyOK, Path, Requests
    <2>2. pc'[t] = "parsed" /\ UNCHANGED <<request, key, toc_file, cas_file>>
          /\ toc'[t] = [path |-> Path(t), config |-> Config(t),
                        first |-> toc_file[Path(t)], last |-> toc_file[Path(t)]]
        BY DEF ParseToc, TypeOK, Goto, files
    <2>3. toc'[t] \in Tocs
        BY <2>1, <2>2 DEF Tocs, Path, Config, Requests
    <2>4. toc_file[Path(t)] <= toc_file[Path(t)]
        BY <2>1, MaxUpdatesIsNat DEF Versions
    <2>5. KeyOK(t) /\ pc[t] = "parsing"
        BY DEF ParseToc, ThreadOK
    <2>6. KeyOK(t)'
        BY <2>2, <2>5 DEF KeyOK, Path, Config
    <2>7. TocOK(t)'
        BY <2>2, <2>3, <2>4, <2>5 DEF TocOK, KeyOK, Path, Config
    <2> QED BY <2>2, <2>6, <2>7 DEF ThreadOK, HeaderOK, OpenedOK
<1>3. UNCHANGED <<files, cache>>
    BY DEF ParseToc, files, shared
<1> QED BY <1>1, <1>2, <1>3, OneThreadIInv DEF TypeOK, ParseToc, Goto

\* The last part is not older than the first.
LEMMA FinishTocIInv ==
    ASSUME IInv, NEW t \in Threads, FinishToc(t)
    PROVE  IInv'
<1> USE DEF IInv
<1>1. TypeOK'
    <2>1. request[t] \in Requests /\ toc[t] \in Tocs
        BY DEF FinishToc, ThreadOK, KeyOK, TocOK
    <2>2. toc_file[Path(t)] \in Versions
        BY <2>1 DEF TypeOK, Path, Requests
    <2>3. [toc[t] EXCEPT !.last = toc_file[Path(t)]] \in Tocs
        BY <2>1, <2>2 DEF Tocs
    <2>4. toc' \in [Threads -> Tocs \cup {NoKey}]
        BY <2>3 DEF FinishToc, TypeOK
    <2>5. pc' \in [Threads -> Labels]
        BY DEF FinishToc, TypeOK, Labels, Goto
    <2> QED BY <2>4, <2>5 DEF FinishToc, TypeOK, files, shared
<1>2. ThreadOK(t)'
    <2>1. /\ KeyOK(t) /\ TocOK(t) /\ pc[t] = "parsed" /\ pc'[t] = "reading"
          /\ UNCHANGED <<toc_file, cas_file, request, key>>
        BY DEF FinishToc, Goto, files, TypeOK, ThreadOK
    <2>2. request[t] \in Requests /\ toc[t] \in Tocs
        BY <2>1 DEF KeyOK, TocOK
    <2>3. toc_file[Path(t)] \in Versions
        BY <2>2 DEF TypeOK, Path, Requests
    <2>4. toc'[t] = toc[t] \/ toc'[t] = [toc[t] EXCEPT !.last = toc_file[Path(t)]]
        BY DEF FinishToc, TypeOK
    <2>5. /\ toc'[t] \in Tocs /\ toc'[t].path = toc[t].path
          /\ toc'[t].config = toc[t].config /\ toc'[t].first = toc[t].first
          /\ toc'[t].last = toc[t].last \/ toc'[t].last = toc_file[Path(t)]
        BY <2>2, <2>3, <2>4 DEF Tocs
    <2>6. toc[t].first \in 0..MaxUpdates /\ toc[t].last \in 0..MaxUpdates
          /\ toc_file[Path(t)] \in 0..MaxUpdates
        BY <2>2, <2>3 DEF Tocs, Versions
    <2>7. toc'[t].first <= toc'[t].last /\ toc'[t].last <= toc_file[Path(t)]
        BY <2>1, <2>5, <2>6, MaxUpdatesIsNat DEF TocOK
    <2>8. KeyOK(t)'
        BY <2>1 DEF KeyOK, Path, Config
    <2>9. TocOK(t)'
        BY <2>1, <2>5, <2>7 DEF TocOK, Path, Config
    <2> QED BY <2>1, <2>8, <2>9 DEF ThreadOK, HeaderOK, OpenedOK
<1>3. UNCHANGED <<files, cache>>
    BY DEF FinishToc, files, shared
<1> QED BY <1>1, <1>2, <1>3, OneThreadIInv DEF TypeOK, FinishToc, Goto

\* The header is read through the parsed table, after the .ucas stamp.
LEMMA ReadHeaderIInv ==
    ASSUME IInv, NEW t \in Threads, ReadHeader(t)
    PROVE  IInv'
<1> USE DEF IInv
<1>1. TypeOK'
    <2>1. request[t] \in Requests /\ toc[t] \in Tocs
        BY DEF ReadHeader, ThreadOK, KeyOK, TocOK
    <2>2. cas_file[Path(t)] \in Versions /\ request[t].serial \in Serials
        BY <2>1 DEF TypeOK, Path, Requests
    <2>3. header' \in [Threads -> Headers \cup {NoKey}]
        BY <2>1, <2>2 DEF ReadHeader, TypeOK, Headers
    <2>4. cell' \in [Threads -> Serials \cup {0}] /\ handle' \in [Threads -> Versions \cup {NoKey}]
        BY <2>2 DEF ReadHeader, TypeOK
    <2>5. pc' \in [Threads -> Labels]
        BY DEF ReadHeader, TypeOK, Labels, Goto
    <2> QED BY <2>3, <2>4, <2>5 DEF ReadHeader, TypeOK, files, shared
<1>2. ThreadOK(t)'
    <2>1. /\ KeyOK(t) /\ TocOK(t) /\ pc[t] = "reading"
          /\ pc'[t] = IF key[t] = NoKey THEN "opened" ELSE "checking"
          /\ UNCHANGED <<toc_file, cas_file, request, key, toc>>
        BY DEF ReadHeader, Goto, files, TypeOK, ThreadOK
    <2>2. request[t] \in Requests /\ toc[t] \in Tocs
        BY <2>1 DEF KeyOK, TocOK
    <2>3. cas_file[Path(t)] \in Versions /\ request[t].serial \in Serials
        BY <2>2 DEF TypeOK, Path, Requests
    <2>4. header'[t] = [toc |-> toc[t], cas |-> cas_file[Path(t)]]
          /\ cell'[t] = request[t].serial
        BY DEF ReadHeader, TypeOK
    <2>5. header'[t] \in Headers /\ cell'[t] \in Serials
        BY <2>2, <2>3, <2>4 DEF Headers
    <2>6. cas_file[Path(t)] <= cas_file[Path(t)]
        BY <2>3, MaxUpdatesIsNat DEF Versions
    <2>7. KeyOK(t)' /\ TocOK(t)'
        BY <2>1 DEF KeyOK, TocOK, Path, Config
    <2>8. HeaderOK(t)'
        BY <2>1, <2>4, <2>5, <2>6 DEF HeaderOK, KeyOK, Path
    <2>9. OpenedOK(t)'
        BY <2>1, <2>2, <2>5 DEF OpenedOK
    <2> QED BY <2>7, <2>8, <2>9 DEF ThreadOK
<1>3. UNCHANGED <<files, cache>>
    BY DEF ReadHeader, files, shared
<1> QED BY <1>1, <1>2, <1>3, OneThreadIInv DEF TypeOK, ReadHeader, Goto

\* A failed open leaves the thread with nothing.
LEMMA OpenFailsIInv ==
    ASSUME IInv, NEW t \in Threads, OpenFails(t)
    PROVE  IInv'
<1> USE DEF IInv
<1>1. TypeOK'
    BY DEF OpenFails, Leave, TypeOK, files, shared, locals, Labels, Goto
<1>2. ThreadOK(t)'
    BY DEF OpenFails, Leave, ThreadOK, KeyOK, TocOK, HeaderOK, OpenedOK, Path, Config, TypeOK, files, Goto
<1>3. UNCHANGED <<files, cache>>
    BY DEF OpenFails, files, shared, Leave
<1> QED BY <1>1, <1>2, <1>3, OneThreadIInv DEF TypeOK, OpenFails, Goto, Leave

\* Equal stamps around the parse: the table is that of the stamp.
LEMMA RecheckIInv ==
    ASSUME IInv, NEW t \in Threads, Recheck(t)
    PROVE  IInv'
<1> USE DEF IInv
<1>1. TypeOK'
    BY DEF Recheck, TypeOK, files, shared, locals, Labels, Goto
<1>2. ThreadOK(t)'
    <2>1. /\ ThreadOK(t) /\ pc[t] = "checking" /\ pc'[t] \in {"checking2", "opened"}
          /\ UNCHANGED <<toc_file, cas_file, request, key, toc, header, cell, objects>>
        BY DEF Recheck, Goto, files, TypeOK
    <2>2. request[t] \in Requests /\ key[t] \in Keys /\ toc[t] \in Tocs
        BY <2>1 DEF ThreadOK, KeyOK, TocOK, TypeOK
    <2>3. CASE pc'[t] = "checking2"
        <3>1. toc_file[Path(t)] = key[t].toc
            BY <2>3 DEF Recheck, Goto, TypeOK
        <3>2. key[t].toc <= toc[t].first /\ toc[t].first <= toc[t].last
              /\ toc[t].last <= key[t].toc
            BY <2>1, <3>1 DEF ThreadOK, KeyOK, TocOK
        <3>3. toc[t].first = key[t].toc /\ toc[t].last = key[t].toc
            BY <2>2, <3>2, MaxUpdatesIsNat DEF Keys, Tocs, Versions
        <3>4. toc[t] = Parse(Path(t), Config(t), key[t].toc)
            BY <2>1, <2>2, <3>3 DEF ThreadOK, TocOK, Parse, Tocs
        <3> QED BY <2>1, <2>3, <3>4
                DEF ThreadOK, KeyOK, TocOK, HeaderOK, OpenedOK, Path, Config, Parse
    <2>4. CASE pc'[t] = "opened"
        BY <2>1, <2>4 DEF ThreadOK, KeyOK, TocOK, HeaderOK, OpenedOK, Path, Config
    <2> QED BY <2>1, <2>3, <2>4
<1>3. UNCHANGED <<files, cache>>
    BY DEF Recheck, files, shared
<1> QED BY <1>1, <1>2, <1>3, OneThreadIInv DEF TypeOK, Recheck, Goto

\* Equal stamps around the read: the header is that of the stamp.
LEMMA RecheckCasIInv ==
    ASSUME IInv, NEW t \in Threads, RecheckCas(t)
    PROVE  IInv'
<1> USE DEF IInv
<1>1. TypeOK'
    BY DEF RecheckCas, TypeOK, files, shared, locals, Labels, Goto
<1>2. ThreadOK(t)'
    BY MaxUpdatesIsNat DEF RecheckCas, Tocs, Headers, Keys, Requests, Versions, Parse, ReadThrough, ThreadOK, KeyOK, TocOK, HeaderOK, OpenedOK, Path, Config, TypeOK, files, Goto
<1>3. UNCHANGED <<files, cache>>
    BY DEF RecheckCas, files, shared
<1> QED BY <1>1, <1>2, <1>3, OneThreadIInv DEF TypeOK, RecheckCas, Goto

\* The cell holds objects some container read.
LEMMA ObjectsThereIInv ==
    ASSUME IInv, NEW t \in Threads, ObjectsThere(t)
    PROVE  IInv'
<1> USE DEF IInv
<1>1. TypeOK'
    BY DEF ObjectsThere, OpenedOK, ThreadOK, TypeOK, files, shared, locals, Labels, Goto
<1>2. ThreadOK(t)'
    BY DEF ObjectsThere, ThreadOK, KeyOK, TocOK, HeaderOK, OpenedOK, Path, Config, TypeOK, files, Goto
<1>3. UNCHANGED <<files, cache>>
    BY DEF ObjectsThere, files, shared
<1> QED BY <1>1, <1>2, <1>3, OneThreadIInv DEF TypeOK, ObjectsThere, Goto

\* The objects are read through the container's table.
LEMMA ReadObjectsIInv ==
    ASSUME IInv, NEW t \in Threads, ReadObjects(t)
    PROVE  IInv'
<1> USE DEF IInv
<1>1. TypeOK'
    BY DEF ReadObjects, Headers, OpenedOK, KeyOK, ThreadOK, Path, Requests, TypeOK, files, shared, locals, Labels, Goto
<1>2. ThreadOK(t)'
    <2>1. request[t] \in Requests /\ toc[t] \in Tocs
        BY DEF ReadObjects, ThreadOK, KeyOK, OpenedOK
    <2>2. cas_file[Path(t)] \in Versions
        BY <2>1 DEF TypeOK, Path, Requests
    <2>3. objects'[t] \in Headers
        BY <2>1, <2>2 DEF ReadObjects, TypeOK, Headers
    <2>4. /\ ThreadOK(t) /\ pc[t] = "opened" /\ pc'[t] = "setting"
          /\ UNCHANGED <<toc_file, cas_file, request, key, toc, header, cell>>
        BY DEF ReadObjects, Goto, files, TypeOK
    <2> QED BY <2>3, <2>4 DEF ThreadOK, KeyOK, TocOK, HeaderOK, OpenedOK, Path, Config
<1>3. UNCHANGED <<files, cache>>
    BY DEF ReadObjects, files, shared
<1> QED BY <1>1, <1>2, <1>3, OneThreadIInv DEF TypeOK, ReadObjects, Goto

\* The cell keeps the first objects.
LEMMA SetObjectsIInv ==
    ASSUME IInv, NEW t \in Threads, SetObjects(t)
    PROVE  IInv'
<1> USE DEF IInv
<1>1. TypeOK'
    BY DEF SetObjects, OpenedOK, ThreadOK, TypeOK, files, shared, locals, Labels, Goto
<1>2. ThreadOK(t)'
    BY DEF SetObjects, ThreadOK, KeyOK, TocOK, HeaderOK, OpenedOK, Path, Config, TypeOK, files, Goto
<1>3. UNCHANGED <<files, cache>>
    BY DEF SetObjects, files, shared
<1> QED BY <1>1, <1>2, <1>3, OneThreadIInv DEF TypeOK, SetObjects, Goto

\* A dropped container leaves the thread with nothing.
LEMMA DropIInv ==
    ASSUME IInv, NEW t \in Threads, Drop(t)
    PROVE  IInv'
<1> USE DEF IInv
<1>1. TypeOK'
    BY DEF Drop, Leave, TypeOK, files, shared, locals, Labels, Goto
<1>2. ThreadOK(t)'
    BY DEF Drop, Leave, ThreadOK, KeyOK, TocOK, HeaderOK, OpenedOK, Path, Config, TypeOK, files, Goto
<1>3. UNCHANGED <<files, cache>>
    BY DEF Drop, files, shared, Leave
<1> QED BY <1>1, <1>2, <1>3, OneThreadIInv DEF TypeOK, Drop, Goto, Leave

\* A hit moves an entry; what it gives the thread is what the entry holds.
LEMMA HitIInv ==
    ASSUME IInv, NEW t \in Threads, Hit(t)
    PROVE  IInv'
<1> USE DEF IInv
<1>0. DOMAIN cache = 1..Len(cache)
    BY DEF TypeOK
<1>1. PICK i \in 1..Len(cache) :
        /\ cache[i].key = key[t]
        /\ cache' = Append(RemoveAt(cache, i), cache[i])
        /\ TakeFrom(t, cache[i])
    BY <1>0 DEF Hit
<1>2. cache \in Seq(Entries) /\ cache[i] \in Entries /\ Len(cache) \in Nat
    BY <1>1 DEF TypeOK
<1>3. /\ RemoveAt(cache, i) \in Seq(Entries) /\ Len(RemoveAt(cache, i)) = Len(cache) - 1
      /\ \A k \in 1..Len(RemoveAt(cache, i)) :
            \E j \in 1..Len(cache) : RemoveAt(cache, i)[k] = cache[j]
    BY <1>2, RemoveAtElements
<1> DEFINE rest == RemoveAt(cache, i)
<1>4. /\ cache' \in Seq(Entries) /\ Len(cache') = Len(cache)
      /\ \A k \in 1..Len(cache') : cache'[k] = IF k <= Len(rest) THEN rest[k] ELSE cache[i]
    <2> HIDE DEF rest
    <2>1. rest \in Seq(Entries) /\ Len(rest) = Len(cache) - 1
        BY <1>3 DEF rest
    <2>2. cache' = Append(rest, cache[i])
        BY <1>1 DEF rest
    <2> QED BY <1>2, <2>1, <2>2
<1>5. EntriesMatchTheirKeys'
    <2> DEFINE Matches(e) ==
            /\ e.header = ReadThrough(e.key.path, e.key.config, <<e.key.toc, e.key.cas>>)
            /\ e.toc = e.header.toc
    <2>1. \A j \in 1..Len(cache) : Matches(cache[j])
        BY <1>0 DEF EntriesMatchTheirKeys
    <2>2. ASSUME NEW k \in 1..Len(cache') PROVE \E j \in 1..Len(cache) : cache'[k] = cache[j]
        <3>1. CASE k <= Len(rest)
            <4>1. k \in 1..Len(rest)
                BY <3>1, <1>2, <1>3, <1>4
            <4> QED BY <3>1, <4>1, <1>3, <1>4
        <3>2. CASE ~(k <= Len(rest))
            BY <3>2, <1>4
        <3> QED BY <3>1, <3>2
    <2>3. DOMAIN cache' = 1..Len(cache')
        BY <1>4
    <2> QED BY <2>1, <2>2, <2>3 DEF EntriesMatchTheirKeys
<1>6. cache[i].toc \in Tocs /\ cache[i].header \in Headers /\ cache[i].cell \in Serials
      /\ key[t] \in Keys
    BY <1>1, <1>2 DEF Entries
<1>7. TypeOK'
    <2>1. CASE Leave(t)
        BY <1>4, <1>6, <2>1 DEF Hit, TypeOK, Leave, Goto, Labels, files
    <2>2. CASE ~Leave(t)
        BY <1>1, <1>4, <1>6, <2>2 DEF Hit, TypeOK, TakeFrom, Goto, Labels, files
    <2> QED BY <2>1, <2>2
<1>8. ThreadOK(t)'
    <2>1. CASE Leave(t)
        BY <2>1 DEF Leave, Goto, TypeOK, ThreadOK, KeyOK, TocOK, HeaderOK, OpenedOK
    <2>2. CASE ~Leave(t)
        <3>1. /\ pc'[t] = "opened" /\ UNCHANGED <<toc_file, cas_file, request, key>>
              /\ toc'[t] \in Tocs /\ header'[t] \in Headers /\ cell'[t] \in Serials
            BY <1>1, <1>6, <2>2 DEF Hit, TakeFrom, Goto, files, TypeOK
        <3>2. KeyOK(t) /\ pc[t] = "looking"
            BY DEF Hit, ThreadOK
        <3> QED BY <3>1, <3>2 DEF ThreadOK, KeyOK, TocOK, HeaderOK, OpenedOK, Path, Config
    <2> QED BY <2>1, <2>2
<1>9. ASSUME NEW u \in Threads, u # t PROVE ThreadOK(u)'
    <2>1. /\ UNCHANGED <<toc_file, cas_file>>
          /\ pc'[u] = pc[u] /\ request'[u] = request[u] /\ key'[u] = key[u]
          /\ toc'[u] = toc[u] /\ header'[u] = header[u] /\ cell'[u] = cell[u]
          /\ objects'[u] = objects[u]
        BY <1>1, <1>9 DEF Hit, TakeFrom, Leave, Goto, files, TypeOK
    <2> QED BY <2>1, OtherThread
<1>10. FilesOK'
    BY DEF Hit, FilesOK, files
<1> QED BY <1>5, <1>7, <1>8, <1>9, <1>10

\* The entry inserted was checked; the others were there.
LEMMA InsertIInv ==
    ASSUME IInv, NEW t \in Threads, Insert(t)
    PROVE  IInv'
<1> USE DEF IInv
<1> DEFINE kept == Without(key[t].path)
           fits == FewerThan(Capacity, kept)
<1>1. kept \in Seq(Entries)
      /\ \A k \in 1..Len(kept) : \E j \in 1..Len(cache) : kept[k] = cache[j]
    BY WithoutElements
<1>2. /\ fits \in Seq(Entries) /\ Len(fits) < Capacity
      /\ \A k \in 1..Len(fits) : \E j \in 1..Len(kept) : fits[k] = kept[j]
    <2> HIDE DEF kept
    <2> QED BY <1>1, FewerThanElements, CapacityPositive
<1>3. \A k \in 1..Len(fits) : \E j \in 1..Len(cache) : fits[k] = cache[j]
    <2> HIDE DEF kept, fits
    <2> QED BY <1>1, <1>2
<1>4. cache' = Append(fits, Entry(t)) /\ key[t] \in Keys /\ recent' = key[t]
    BY DEF Insert, TypeOK, ThreadOK, KeyOK
<1> HIDE DEF fits
<1>5. /\ pc[t] = "inserting"
      /\ header[t] = ReadThrough(key[t].path, key[t].config, <<key[t].toc, key[t].cas>>)
      /\ toc[t] = header[t].toc /\ cell[t] \in Serials
    BY <1>4, NoKeyIsNone DEF Insert, ThreadOK, KeyOK, HeaderOK
<1>6. header[t] \in Headers /\ toc[t] \in Tocs
    BY <1>4, <1>5 DEF ReadThrough, Parse, Keys, Headers, Tocs
<1>7. Entry(t) \in Entries
    BY <1>4, <1>5, <1>6 DEF Entry, Entries
<1>8. /\ cache' \in Seq(Entries) /\ Len(cache') <= Capacity /\ Len(cache') = Len(fits) + 1
      /\ \A k \in 1..Len(cache') : cache'[k] = IF k <= Len(fits) THEN fits[k] ELSE Entry(t)
    BY <1>2, <1>4, <1>7, CapacityPositive
<1>9. EntriesMatchTheirKeys'
    <2> DEFINE Matches(e) ==
            /\ e.header = ReadThrough(e.key.path, e.key.config, <<e.key.toc, e.key.cas>>)
            /\ e.toc = e.header.toc
    <2>1. \A j \in 1..Len(cache) : Matches(cache[j])
        BY DEF EntriesMatchTheirKeys, TypeOK
    <2>2. Matches(Entry(t))
        BY <1>5 DEF Entry
    <2>3. ASSUME NEW k \in 1..Len(cache') PROVE Matches(cache'[k])
        <3>1. CASE k <= Len(fits)
            <4>1. k \in 1..Len(fits)
                BY <3>1, <1>2, <1>8
            <4> QED BY <4>1, <3>1, <1>3, <1>8, <2>1
        <3>2. CASE ~(k <= Len(fits))
            BY <3>2, <1>8, <2>2
        <3> QED BY <3>1, <3>2
    <2>4. DOMAIN cache' = 1..Len(cache')
        BY <1>8
    <2> QED BY <2>3, <2>4 DEF EntriesMatchTheirKeys
<1>10. TypeOK'
    BY <1>4, <1>8 DEF Insert, TypeOK, Goto, Labels, files
<1>11. ThreadOK(t)'
    <2>1. /\ pc'[t] = "opened" /\ UNCHANGED <<toc_file, cas_file, request, key, toc, header, cell>>
        BY DEF Insert, Goto, files, TypeOK
    <2> QED BY <1>5, <1>6, <2>1 DEF ThreadOK, KeyOK, TocOK, HeaderOK, OpenedOK, Path, Config
<1>12. ASSUME NEW u \in Threads, u # t PROVE ThreadOK(u)'
    <2>1. /\ UNCHANGED <<toc_file, cas_file>>
          /\ pc'[u] = pc[u] /\ request'[u] = request[u] /\ key'[u] = key[u]
          /\ toc'[u] = toc[u] /\ header'[u] = header[u] /\ cell'[u] = cell[u]
          /\ objects'[u] = objects[u]
        BY <1>12 DEF Insert, Goto, files, TypeOK
    <2> QED BY <2>1, OtherThread
<1>13. FilesOK'
    BY DEF Insert, FilesOK, files
<1> QED BY <1>9, <1>10, <1>11, <1>12, <1>13

\* Every step keeps the invariant.
LEMMA NextIInv == IInv /\ [Next]_vars => IInv'
<1> SUFFICES ASSUME IInv, [Next]_vars PROVE IInv'
    OBVIOUS
<1>1. ASSUME NEW p \in Paths, UpdateToc(p) \/ UpdateCas(p) PROVE IInv'
    BY <1>1, UpdateIInv
<1>2. ASSUME NEW t \in Threads, Opening(t) PROVE IInv'
    BY <1>2, OpenIInv, StampCasIInv, StampFailsIInv, HitIInv, MissIInv, ParseTocIInv,
       FinishTocIInv, ReadHeaderIInv, OpenFailsIInv, RecheckIInv, RecheckCasIInv, InsertIInv
       DEF Opening
<1>3. ASSUME NEW t \in Threads, Using(t) PROVE IInv'
    BY <1>3, ObjectsThereIInv, ReadObjectsIInv, SetObjectsIInv, DropIInv DEF Using
<1>4. ASSUME UNCHANGED vars PROVE IInv'
    <2>1. UNCHANGED <<files, cache, recent, cells, opens, pc, request, key, toc, header, cell,
                      handle, objects>>
        BY <1>4 DEF vars, shared, locals
    <2>2. TypeOK' /\ EntriesMatchTheirKeys' /\ FilesOK'
        BY <2>1 DEF IInv, TypeOK, EntriesMatchTheirKeys, FilesOK, files
    <2>3. ASSUME NEW u \in Threads PROVE ThreadOK(u)'
        BY <2>1, OtherThread DEF IInv, files
    <2> QED BY <2>2, <2>3 DEF IInv
<1> QED BY <1>1, <1>2, <1>3, <1>4 DEF Next, Exhausted

-----------------------------------------------------------------------------
(* One entry per path                                                      *)

\* RemoveAt closes the gap.
LEMMA RemoveAtPlaces ==
    ASSUME NEW S, NEW s \in Seq(S), NEW i \in 1..Len(s)
    PROVE  /\ RemoveAt(s, i) \in Seq(S)
           /\ Len(RemoveAt(s, i)) = Len(s) - 1
           /\ \A k \in 1..Len(s) - 1 : RemoveAt(s, i)[k] = s[IF k < i THEN k ELSE k + 1]
<1> DEFINE front == SubSeq(s, 1, i - 1)
           back == SubSeq(s, i + 1, Len(s))
<1>1. front \in Seq(S) /\ Len(front) = i - 1
       /\ \A k \in 1..i - 1 : front[k] = s[k]
    OBVIOUS
<1>2. back \in Seq(S) /\ Len(back) = Len(s) - i
       /\ \A k \in 1..Len(s) - i : back[k] = s[i + k]
    OBVIOUS
<1>3. RemoveAt(s, i) = front \o back
    BY DEF RemoveAt
<1> HIDE DEF front, back
<1>4. Len(front \o back) = Len(s) - 1 /\ front \o back \in Seq(S)
    BY <1>1, <1>2
<1>5. ASSUME NEW k \in 1..Len(s) - 1
      PROVE  (front \o back)[k] = s[IF k < i THEN k ELSE k + 1]
    <2>1. CASE k < i
        BY <2>1, <1>1, <1>2
    <2>2. CASE ~(k < i)
        <3>1. (front \o back)[k] = back[k - (i - 1)]
            BY <2>2, <1>1, <1>2
        <3>2. k - (i - 1) \in 1..Len(s) - i
            BY <2>2
        <3>3. back[k - (i - 1)] = s[k + 1]
            BY <3>2, <1>2
        <3> QED BY <2>2, <3>1, <3>3
    <2> QED BY <2>1, <2>2
<1> QED BY <1>3, <1>4, <1>5

\* Append puts an element behind the others.
LEMMA AppendPlaces ==
    ASSUME NEW S, NEW s \in Seq(S), NEW e \in S, NEW r, r = Append(s, e)
    PROVE  /\ Len(r) = Len(s) + 1 /\ DOMAIN r = 1..Len(s) + 1
           /\ r[Len(s) + 1] = e
           /\ \A k \in 1..Len(s) : r[k] = s[k]
OBVIOUS

\* A hit moves an entry to the end and duplicates none.
LEMMA HitKeepsOne ==
    ASSUME TypeOK, OneEntryPerPath, NEW t \in Threads, Hit(t)
    PROVE  OneEntryPerPath'
<1>1. cache \in Seq(Entries) /\ DOMAIN cache = 1..Len(cache) /\ Len(cache) \in Nat
    BY DEF TypeOK
<1>0. Len(cache) \in Nat
    BY <1>1
<1>2. PICK i \in 1..Len(cache) : cache' = Append(RemoveAt(cache, i), cache[i])
    BY <1>1 DEF Hit
<1> DEFINE rest == RemoveAt(cache, i)
           from == [k \in 1..Len(cache) |->
                    IF k < i THEN k ELSE IF k < Len(cache) THEN k + 1 ELSE i]
<1>3. /\ rest \in Seq(Entries) /\ Len(rest) = Len(cache) - 1
      /\ \A k \in 1..Len(cache) - 1 : rest[k] = cache[IF k < i THEN k ELSE k + 1]
    BY <1>1, RemoveAtPlaces
<1>4. cache[i] \in Entries /\ cache' = Append(rest, cache[i])
    BY <1>1, <1>2
<1> HIDE DEF rest
<1>5. /\ DOMAIN cache' = 1..Len(rest) + 1
      /\ cache'[Len(rest) + 1] = cache[i]
      /\ \A k \in 1..Len(rest) : cache'[k] = rest[k]
    BY <1>3, <1>4, AppendPlaces
<1>6. ASSUME NEW k \in 1..Len(cache) PROVE cache'[k] = cache[from[k]]
    <2>1. CASE k < Len(cache)
        <3>1. k \in 1..Len(rest) /\ k \in 1..Len(cache) - 1
            BY <1>1, <1>3, <2>1
        <3> QED BY <1>3, <1>5, <2>1, <3>1
    <2>2. CASE k = Len(cache)
        <3>1. Len(rest) + 1 = Len(cache)
            BY <1>1, <1>3
        <3>2. cache'[Len(cache)] = cache[i]
            BY <1>5, <3>1
        <3>3. from[Len(cache)] = i
            BY <1>0
        <3> QED BY <2>2, <3>2, <3>3
    <2>3. k < Len(cache) \/ k = Len(cache)
        BY <1>0
    <2> QED BY <2>1, <2>2, <2>3
<1>7. \A j, k \in 1..Len(cache) :
        from[j] \in 1..Len(cache) /\ (from[j] = from[k] => j = k)
    BY <1>1
<1>8. \A j, k \in 1..Len(cache) : cache[j].key.path = cache[k].key.path => j = k
    BY <1>1 DEF OneEntryPerPath
<1> HIDE DEF from
<1>9. ASSUME NEW j \in 1..Len(cache), NEW k \in 1..Len(cache),
             cache'[j].key.path = cache'[k].key.path
      PROVE  j = k
    <2>1. cache[from[j]].key.path = cache[from[k]].key.path
        BY <1>6, <1>9
    <2>2. from[j] = from[k]
        BY <1>7, <1>8, <2>1
    <2> QED BY <1>7, <2>2
<1>10. DOMAIN cache' = 1..Len(cache)
    BY <1>1, <1>3, <1>5
<1> QED BY <1>9, <1>10 DEF OneEntryPerPath

\* Removing the path's entry leaves none of it, and no two of another.
LEMMA WithoutLeavesNone ==
    ASSUME TypeOK, OneEntryPerPath, NEW path
    PROVE  /\ \A k \in 1..Len(Without(path)) : Without(path)[k].key.path # path
           /\ \A j, k \in 1..Len(Without(path)) :
                Without(path)[j].key.path = Without(path)[k].key.path => j = k
<1>1. cache \in Seq(Entries) /\ DOMAIN cache = 1..Len(cache) /\ Len(cache) \in Nat
    BY DEF TypeOK
<1>2. \A j, k \in 1..Len(cache) : cache[j].key.path = cache[k].key.path => j = k
    BY <1>1 DEF OneEntryPerPath
<1>3. CASE \E i \in DOMAIN cache : cache[i].key.path = path
    <2> DEFINE i == CHOOSE i \in DOMAIN cache : cache[i].key.path = path
               rest == RemoveAt(cache, i)
               from(k) == IF k < i THEN k ELSE k + 1
    <2>1. i \in 1..Len(cache) /\ cache[i].key.path = path
        BY <1>1, <1>3
    <2>2. Without(path) = rest
        BY <1>3 DEF Without
    <2> HIDE DEF i
    <2>3. /\ Len(rest) = Len(cache) - 1
          /\ \A k \in 1..Len(cache) - 1 : rest[k] = cache[from(k)]
        BY <1>1, <2>1, RemoveAtPlaces
    <2> HIDE DEF rest
    <2>4. \A k \in 1..Len(cache) - 1 : from(k) \in 1..Len(cache) /\ from(k) # i
        BY <1>1, <2>1
    <2>5. \A j, k \in 1..Len(cache) - 1 : from(j) = from(k) => j = k
        BY <1>1, <2>1
    <2> HIDE DEF from
    <2>6. ASSUME NEW k \in 1..Len(rest) PROVE rest[k].key.path # path
        BY <1>2, <2>1, <2>3, <2>4
    <2>7. ASSUME NEW j \in 1..Len(rest), NEW k \in 1..Len(rest),
                 rest[j].key.path = rest[k].key.path
          PROVE  j = k
        <3>1. cache[from(j)].key.path = cache[from(k)].key.path
            BY <2>3, <2>7
        <3>2. from(j) = from(k)
            BY <1>2, <2>3, <2>4, <3>1
        <3> QED BY <2>3, <2>5, <3>2
    <2> QED BY <2>2, <2>6, <2>7
<1>4. CASE ~ \E i \in DOMAIN cache : cache[i].key.path = path
    BY <1>1, <1>2, <1>4 DEF Without
<1> QED BY <1>3, <1>4

\* An insertion puts in the only entry of its path.
LEMMA InsertKeepsOne ==
    ASSUME TypeOK, OneEntryPerPath, NEW t \in Threads, Insert(t)
    PROVE  OneEntryPerPath'
<1> DEFINE kept == Without(key[t].path)
           fits == FewerThan(Capacity, kept)
           gone == Len(kept) - Len(fits)
<1>1. /\ kept \in Seq(Entries)
      /\ \A k \in 1..Len(kept) : kept[k].key.path # key[t].path
      /\ \A j, k \in 1..Len(kept) : kept[j].key.path = kept[k].key.path => j = k
    BY WithoutElements, WithoutLeavesNone
<1>2. cache' = Append(fits, Entry(t)) /\ Entry(t).key = key[t]
    BY DEF Insert, Entry
<1> HIDE DEF kept
<1>3. /\ fits \in Seq(Entries) /\ Len(fits) \in Nat /\ Len(kept) \in Nat
      /\ Len(fits) <= Len(kept)
      /\ \A k \in 1..Len(fits) : fits[k] = kept[gone + k]
    <2>1. CASE Len(kept) < Capacity
        <3>1. fits = kept
            BY <2>1 DEF FewerThan
        <3> QED BY <1>1, <3>1
    <2>2. CASE ~(Len(kept) < Capacity)
        <3> DEFINE first == Len(kept) - Capacity + 2
        <3>1. Len(kept) \in Nat /\ first \in 1..Len(kept) + 1
            BY <1>1, <2>2, CapacityPositive
        <3>2. fits = SubSeq(kept, first, Len(kept))
            BY <2>2 DEF FewerThan
        <3> HIDE DEF fits
        <3>3. /\ fits \in Seq(Entries) /\ Len(fits) = Len(kept) - first + 1
              /\ \A k \in 1..Len(fits) : fits[k] = kept[first + k - 1]
            BY <1>1, <3>1, <3>2
        <3> QED BY <3>1, <3>3
    <2> QED BY <2>1, <2>2
<1> HIDE DEF fits
<1>4. Len(cache') = Len(fits) + 1 /\ DOMAIN cache' = 1..Len(fits) + 1
      /\ cache'[Len(fits) + 1] = Entry(t)
      /\ \A k \in 1..Len(fits) : cache'[k] = kept[gone + k]
    BY <1>2, <1>3
<1>5. ASSUME NEW k \in 1..Len(fits) PROVE cache'[k].key.path # key[t].path
    <2>1. gone + k \in 1..Len(kept)
        BY <1>3
    <2> QED BY <1>1, <1>4, <2>1
<1>6. ASSUME NEW j \in 1..Len(fits), NEW k \in 1..Len(fits),
             cache'[j].key.path = cache'[k].key.path
      PROVE  j = k
    <2>1. gone + j \in 1..Len(kept) /\ gone + k \in 1..Len(kept)
        BY <1>3
    <2>2. gone + j = gone + k
        BY <1>1, <1>4, <1>6, <2>1
    <2> QED BY <1>3, <2>2
<1>7. cache'[Len(fits) + 1].key.path = key[t].path
    BY <1>2, <1>4
<1>8. \A k \in 1..Len(fits) + 1 : k \in 1..Len(fits) \/ k = Len(fits) + 1
    BY <1>3
<1> QED BY <1>4, <1>5, <1>6, <1>7, <1>8 DEF OneEntryPerPath

-----------------------------------------------------------------------------
(* The entry used last                                                     *)

\* It is the last one of the cache.
RecentIsLast == Len(cache) > 0 => cache[Len(cache)].key = recent

\* Removing another path's entry leaves the last one where it was, at the end.
LEMMA WithoutKeepsLast ==
    ASSUME TypeOK, NEW path, Len(cache) > 0, cache[Len(cache)].key.path # path
    PROVE  /\ Len(Without(path)) > 0
           /\ Without(path)[Len(Without(path))] = cache[Len(cache)]
<1>1. cache \in Seq(Entries) /\ DOMAIN cache = 1..Len(cache)
    BY DEF TypeOK
<1>2. Len(cache) \in Nat
    BY <1>1
<1>3. CASE \E i \in DOMAIN cache : cache[i].key.path = path
    <2> DEFINE i == CHOOSE i \in DOMAIN cache : cache[i].key.path = path
    <2>1. i \in 1..Len(cache) /\ cache[i].key.path = path
        BY <1>1, <1>3
    <2>2. Without(path) = RemoveAt(cache, i)
        BY <1>3 DEF Without
    <2> HIDE DEF i
    <2>3. i # Len(cache)
        BY <2>1
    <2>4. /\ Len(RemoveAt(cache, i)) = Len(cache) - 1
          /\ \A k \in 1..Len(cache) - 1 :
                RemoveAt(cache, i)[k] = cache[IF k < i THEN k ELSE k + 1]
        BY <1>1, <2>1, RemoveAtPlaces
    <2>5. Len(cache) - 1 \in 1..Len(cache) - 1 /\ ~(Len(cache) - 1 < i)
        BY <1>2, <2>1, <2>3
    <2>6. RemoveAt(cache, i)[Len(cache) - 1] = cache[Len(cache) - 1 + 1]
        BY <2>4, <2>5
    <2>7. Len(cache) - 1 + 1 = Len(cache) /\ Len(cache) - 1 > 0
        BY <1>2, <2>5
    <2> QED BY <2>2, <2>4, <2>6, <2>7
<1>4. CASE ~ \E i \in DOMAIN cache : cache[i].key.path = path
    BY <1>4 DEF Without
<1> QED BY <1>3, <1>4

\* A cache with room for two makes room without the last entry.
LEMMA FewerThanKeepsLast ==
    ASSUME NEW S, NEW s \in Seq(S), NEW n \in Nat, n > 1, Len(s) > 0
    PROVE  /\ Len(FewerThan(n, s)) > 0
           /\ FewerThan(n, s)[Len(FewerThan(n, s))] = s[Len(s)]
<1>1. CASE Len(s) < n
    BY <1>1 DEF FewerThan
<1>2. CASE ~(Len(s) < n)
    <2> DEFINE first == Len(s) - n + 2
               rest == SubSeq(s, first, Len(s))
    <2>1. first \in 1..Len(s) /\ Len(s) \in Nat
        BY <1>2
    <2>2. Len(rest) = Len(s) - first + 1 /\ \A k \in 1..Len(rest) : rest[k] = s[first + k - 1]
        BY <2>1
    <2>3. FewerThan(n, s) = rest
        BY <1>2 DEF FewerThan
    <2> HIDE DEF rest
    <2>4. Len(rest) \in 1..Len(rest) /\ first + Len(rest) - 1 = Len(s)
        BY <2>1, <2>2
    <2>5. rest[Len(rest)] = s[first + Len(rest) - 1]
        BY <2>2, <2>4
    <2> QED BY <2>1, <2>2, <2>3, <2>4, <2>5
<1> QED BY <1>1, <1>2

\* What a hit uses becomes the last entry.
LEMMA HitMakesLast ==
    ASSUME TypeOK, NEW t \in Threads, Hit(t)
    PROVE  /\ RecentIsLast'
           /\ \A i \in DOMAIN cache : \E j \in DOMAIN cache' : cache'[j] = cache[i]
<1>1. cache \in Seq(Entries) /\ DOMAIN cache = 1..Len(cache)
    BY DEF TypeOK
<1>2. Len(cache) \in Nat
    BY <1>1
<1>3. PICK i \in 1..Len(cache) : /\ cache[i].key = key[t]
                                 /\ cache' = Append(RemoveAt(cache, i), cache[i])
    BY <1>1 DEF Hit
<1> DEFINE rest == RemoveAt(cache, i)
<1>4. /\ rest \in Seq(Entries) /\ Len(rest) = Len(cache) - 1
      /\ \A k \in 1..Len(cache) - 1 : rest[k] = cache[IF k < i THEN k ELSE k + 1]
    BY <1>1, RemoveAtPlaces
<1>5. cache[i] \in Entries /\ cache' = Append(rest, cache[i])
    BY <1>1, <1>3
<1> HIDE DEF rest
<1>6. /\ Len(cache') = Len(rest) + 1 /\ DOMAIN cache' = 1..Len(rest) + 1
      /\ cache'[Len(rest) + 1] = cache[i]
      /\ \A k \in 1..Len(rest) : cache'[k] = rest[k]
    BY <1>4, <1>5, AppendPlaces
<1>7. RecentIsLast'
    BY <1>3, <1>6 DEF Hit, RecentIsLast
<1>8. ASSUME NEW k \in 1..Len(cache) PROVE \E j \in DOMAIN cache' : cache'[j] = cache[k]
    <2>1. CASE k < i
        <3>1. k \in 1..Len(cache) - 1
            BY <1>2, <2>1
        <3>2. cache'[k] = cache[k] /\ k \in DOMAIN cache'
            BY <1>2, <1>4, <1>6, <2>1, <3>1
        <3> QED BY <3>2
    <2>2. CASE k = i
        <3>1. Len(rest) + 1 \in DOMAIN cache'
            BY <1>2, <1>4, <1>6
        <3> QED BY <1>6, <2>2, <3>1
    <2>3. CASE i < k
        <3>1. k - 1 \in 1..Len(cache) - 1 /\ ~(k - 1 < i) /\ k - 1 + 1 = k
            BY <1>2, <2>3
        <3>2. rest[k - 1] = cache[k - 1 + 1]
            BY <1>4, <3>1
        <3>3. cache'[k - 1] = cache[k] /\ k - 1 \in DOMAIN cache'
            BY <1>2, <1>4, <1>6, <3>1, <3>2
        <3> QED BY <3>3
    <2>4. k < i \/ k = i \/ i < k
        BY <1>2
    <2> QED BY <2>1, <2>2, <2>3, <2>4
<1> QED BY <1>1, <1>7, <1>8

\* An insertion becomes the last entry, behind the one that was last.
LEMMA InsertMakesLast ==
    ASSUME TypeOK, NEW t \in Threads, Insert(t), Capacity > 1
    PROVE  /\ RecentIsLast'
           /\ Len(cache) > 0 =>
                \E j \in DOMAIN cache' : cache'[j].key.path = cache[Len(cache)].key.path
<1> DEFINE kept == Without(key[t].path)
           fits == FewerThan(Capacity, kept)
<1>1. cache' = Append(fits, Entry(t)) /\ Entry(t).key = key[t] /\ recent' = key[t]
    BY DEF Insert, Entry
<1>2. kept \in Seq(Entries)
    BY WithoutElements
<1>3. fits \in Seq(Entries)
    <2> HIDE DEF kept
    <2> QED BY <1>2, FewerThanElements, CapacityPositive
<1>4. Len(cache) > 0 /\ cache[Len(cache)].key.path # key[t].path =>
        Len(fits) > 0 /\ fits[Len(fits)] = cache[Len(cache)]
    <2> SUFFICES ASSUME Len(cache) > 0, cache[Len(cache)].key.path # key[t].path
                 PROVE  Len(fits) > 0 /\ fits[Len(fits)] = cache[Len(cache)]
        OBVIOUS
    <2>1. Len(kept) > 0 /\ kept[Len(kept)] = cache[Len(cache)]
        BY WithoutKeepsLast
    <2> HIDE DEF kept
    <2> QED BY <1>2, <2>1, FewerThanKeepsLast, CapacityPositive
<1> HIDE DEF fits
<1>5. /\ Len(cache') = Len(fits) + 1 /\ DOMAIN cache' = 1..Len(fits) + 1
      /\ cache'[Len(fits) + 1] = Entry(t)
      /\ \A k \in 1..Len(fits) : cache'[k] = fits[k]
    BY <1>1, <1>3, AppendPlaces
<1>6. RecentIsLast'
    BY <1>1, <1>5 DEF RecentIsLast
<1>7. ASSUME Len(cache) > 0
      PROVE  \E j \in DOMAIN cache' : cache'[j].key.path = cache[Len(cache)].key.path
    <2>0. Len(fits) \in Nat
        BY <1>3
    <2>1. CASE cache[Len(cache)].key.path = key[t].path
        <3>1. Len(fits) + 1 \in DOMAIN cache'
            BY <1>5, <2>0
        <3> QED BY <1>1, <1>5, <2>1, <3>1
    <2>2. CASE cache[Len(cache)].key.path # key[t].path
        <3>1. Len(fits) \in 1..Len(fits) /\ Len(fits) \in DOMAIN cache'
            BY <1>4, <1>5, <1>7, <2>0, <2>2
        <3> QED BY <1>4, <1>5, <1>7, <2>2, <3>1
    <2> QED BY <2>1, <2>2
<1> QED BY <1>6, <1>7

-----------------------------------------------------------------------------
(* The theorems                                                            *)

\* The inductive invariant holds in every reachable state.
THEOREM CacheInvariant == Spec => []IInv
BY InitIInv, NextIInv, PTL DEF Spec

\* Every variable has its type, and the cache never exceeds its capacity.
THEOREM CacheTypeCorrect == Spec => []TypeOK
<1>1. IInv => TypeOK
    BY DEF IInv
<1> QED BY <1>1, CacheInvariant, PTL

\* What an entry holds was read, whole, from the files its key names and with its
\* configuration, although nothing locks the files (metadata_cache_key is made
\* before the parse and again after it).
THEOREM EntriesAreWhatTheirKeysName == Spec => []EntriesMatchTheirKeys
<1>1. IInv => EntriesMatchTheirKeys
    BY DEF IInv
<1> QED BY <1>1, CacheInvariant, PTL

\* However many threads miss a path at once and insert what they parsed, it has
\* one entry (IoStoreContainer::open retains the other paths before it inserts).
THEOREM OnePathOneEntry == Spec => []OneEntryPerPath
<1>1. Init => OneEntryPerPath
    BY DEF Init, OneEntryPerPath
<1>2. IInv /\ OneEntryPerPath /\ [Next]_vars => OneEntryPerPath'
    <2> SUFFICES ASSUME IInv, OneEntryPerPath, [Next]_vars PROVE OneEntryPerPath'
        OBVIOUS
    <2>1. TypeOK
        BY DEF IInv
    <2>2. ASSUME NEW t \in Threads, Hit(t) PROVE OneEntryPerPath'
        BY <2>1, <2>2, HitKeepsOne
    <2>3. ASSUME NEW t \in Threads, Insert(t) PROVE OneEntryPerPath'
        BY <2>1, <2>3, InsertKeepsOne
    <2>4. CASE UNCHANGED cache
        BY <2>4 DEF OneEntryPerPath
    <2>5. UNCHANGED cache \/ \E t \in Threads : Hit(t) \/ Insert(t)
        BY DEF Next, Opening, Using, UpdateToc, UpdateCas, Open, StampCas, StampFails, Miss,
               ParseToc, FinishToc, ReadHeader, OpenFails, Recheck, RecheckCas, ObjectsThere,
               ReadObjects, SetObjects, Drop, Exhausted, vars, shared
    <2> QED BY <2>2, <2>3, <2>4, <2>5
<1> QED BY <1>1, <1>2, CacheInvariant, PTL DEF Spec

\* In a cache with room for two, the container used last still has an entry after
\* any step: opening another one does not push it out (the code moves what it uses
\* to the back and removes from the front, METADATA_CACHE holds two).
THEOREM LastUsedIsKept ==
    ASSUME Capacity > 1
    PROVE  Spec => LastUsedSurvives
<1> DEFINE Kept == \A i \in DOMAIN cache : cache[i].key = recent =>
                      \E j \in DOMAIN cache' : cache'[j].key.path = recent.path
<1>1. Init => RecentIsLast
    BY DEF Init, RecentIsLast
<1>2. IInv /\ RecentIsLast /\ [Next]_vars => RecentIsLast' /\ Kept
    <2> SUFFICES ASSUME IInv, RecentIsLast, [Next]_vars PROVE RecentIsLast' /\ Kept
        OBVIOUS
    <2>1. TypeOK /\ cache \in Seq(Entries) /\ DOMAIN cache = 1..Len(cache)
        BY DEF IInv, TypeOK
    <2>2. ASSUME NEW t \in Threads, Hit(t) PROVE RecentIsLast' /\ Kept
        <3>1. \A i \in DOMAIN cache : \E j \in DOMAIN cache' : cache'[j] = cache[i]
            BY <2>1, <2>2, HitMakesLast
        <3>2. RecentIsLast'
            BY <2>1, <2>2, HitMakesLast
        <3> QED BY <3>1, <3>2
    <2>3. ASSUME NEW t \in Threads, Insert(t) PROVE RecentIsLast' /\ Kept
        <3>1. Len(cache) > 0 =>
                \E j \in DOMAIN cache' : cache'[j].key.path = cache[Len(cache)].key.path
            BY <2>1, <2>3, InsertMakesLast
        <3>2. RecentIsLast'
            BY <2>1, <2>3, InsertMakesLast
        <3>3. \A i \in DOMAIN cache : Len(cache) > 0
            BY <2>1
        <3>4. Kept
            BY <3>1, <3>3 DEF RecentIsLast
        <3> QED BY <3>2, <3>4
    <2>4. CASE UNCHANGED <<cache, recent>>
        BY <2>4 DEF RecentIsLast
    <2>5. UNCHANGED <<cache, recent>> \/ \E t \in Threads : Hit(t) \/ Insert(t)
        BY DEF Next, Opening, Using, UpdateToc, UpdateCas, Open, StampCas, StampFails, Miss,
               ParseToc, FinishToc, ReadHeader, OpenFails, Recheck, RecheckCas, ObjectsThere,
               ReadObjects, SetObjects, Drop, Exhausted, vars, shared
    <2> HIDE DEF Kept
    <2> QED BY <2>2, <2>3, <2>4, <2>5
<1>3. IInv /\ RecentIsLast /\ [Next]_vars => [Kept]_vars
    BY <1>2
<1> HIDE DEF Kept
<1>4. Spec => [][Kept]_vars
    BY <1>1, <1>2, <1>3, CacheInvariant, PTL DEF Spec
<1> QED BY <1>4 DEF LastUsedSurvives, Kept

-----------------------------------------------------------------------------
(***************************************************************************)
(* A container opened while its files did not change is what the files     *)
(* say, and so are its script objects, for any number of threads, paths,   *)
(* configurations, opens and updates.                                      *)
(*                                                                         *)
(* Versions only grow, so what a thread has was read from versions between *)
(* those it started from and those of now: if these are equal, all are.    *)
(* Script objects come through a cell shared by an entry and the           *)
(* containers made from it.  A cell is made by one open, for one header;   *)
(* the invariant is that there is a function from cells to headers all     *)
(* their holders agree with.                                               *)
(***************************************************************************)

Before == {"stamping", "looking", "parsing", "parsed", "reading"}
Holding == {"checking", "checking2", "inserting", "opened", "setting", "loaded"}

\* What the thread has is not older than the files were when it started.
StartOK(t) ==
    /\ pc[t] # "idle" =>
            /\ start[t][1] <= toc_file[Path(t)] /\ start[t][2] <= cas_file[Path(t)]
            /\ key[t] # NoKey =>
                    /\ start[t][1] <= key[t].toc
                    /\ pc[t] # "stamping" => start[t][2] <= key[t].cas
    /\ pc[t] \in {"parsed", "reading"} => start[t][1] <= toc[t].first

\* ... nor newer than they are now.
HeldOK(t) ==
    pc[t] \in Holding =>
        /\ header[t] \in Headers /\ toc[t] = header[t].toc
        /\ toc[t].path = Path(t) /\ toc[t].config = Config(t)
        /\ start[t][1] <= toc[t].first /\ toc[t].first <= toc[t].last
        /\ toc[t].last <= toc_file[Path(t)]
        /\ start[t][2] <= header[t].cas /\ header[t].cas <= cas_file[Path(t)]
        /\ cell[t] \in Serials

HandleOK(t) ==
    IF pc[t] \in Holding
    THEN handle[t] # NoKey => handle[t] = header[t].cas
    ELSE handle[t] = NoKey

ObjectsOK(t) ==
    pc[t] \in {"setting", "loaded"} =>
        /\ objects[t] \in Headers /\ objects[t].toc = toc[t]
        /\ header[t].cas <= objects[t].cas /\ objects[t].cas <= cas_file[Path(t)]

FreshOK(t) == StartOK(t) /\ HeldOK(t) /\ HandleOK(t) /\ ObjectsOK(t)

\* The cells in use, each with the header of whoever uses it.
Pairs ==
    {<<cell[t], header[t]>> : t \in {u \in Threads : pc[u] \in Holding}}
    \cup {<<cache[i].cell, cache[i].header>> : i \in DOMAIN cache}

\* Cells are numbered by the open that makes them; before it does, nobody has it.
SerialsOK ==
    /\ \A x \in Pairs : x[1] \in 1..opens
    /\ \A t \in Threads : pc[t] # "idle" => request[t].serial \in 1..opens
    /\ \A t, u \in Threads :
            t # u /\ pc[t] # "idle" /\ pc[u] # "idle" => request[t].serial # request[u].serial
    /\ \A t \in Threads : pc[t] \in Before =>
            /\ cells[request[t].serial] = NoObjects
            /\ \A x \in Pairs : x[1] # request[t].serial
    /\ \A n \in Serials : n > opens => cells[n] = NoObjects

\* Everybody who has a cell has the header it was made for, and what is in it was
\* read through that header's table, not before the header.
Owned(owner) ==
    /\ owner \in [Serials -> Headers \cup {NoKey}]
    /\ \A x \in Pairs : x[2] = owner[x[1]]
    /\ \A n \in Serials : cells[n] # NoObjects =>
            /\ owner[n] \in Headers /\ cells[n].toc = owner[n].toc
            /\ owner[n].cas <= cells[n].cas
            /\ cells[n].cas <= cas_file[owner[n].toc.path]

Owners == \E owner \in [Serials -> Headers \cup {NoKey}] : Owned(owner)

FreshInv ==
    /\ start \in [Threads -> Versions \X Versions]
    /\ \A t \in Threads : FreshOK(t)
    /\ SerialsOK
    /\ Owners

-----------------------------------------------------------------------------
(* The shared cells                                                        *)

\* Cells that are passed on or dropped keep their owners.
LEMMA PairsShrink ==
    ASSUME TypeOK, TypeOK', SerialsOK, Owners, Pairs' \subseteq Pairs,
           cells' = cells, opens' = opens,
           \A p \in Paths : cas_file[p] <= cas_file'[p],
           \A u \in Threads :
                \/ pc'[u] = "idle"
                \/ /\ pc[u] # "idle" /\ request'[u] = request[u]
                   /\ pc'[u] \in Before => pc[u] \in Before
    PROVE  SerialsOK' /\ Owners'
<1>1. SerialsOK'
    <2>1. \A x \in Pairs' : x[1] \in 1..opens'
        BY DEF SerialsOK
    <2>2. \A u \in Threads : pc'[u] # "idle" => pc[u] # "idle" /\ request'[u] = request[u]
        OBVIOUS
    <2>3. \A u \in Threads : pc'[u] # "idle" => request'[u].serial \in 1..opens'
        BY <2>2 DEF SerialsOK
    <2>4. \A t, u \in Threads : t # u /\ pc'[t] # "idle" /\ pc'[u] # "idle" =>
                request'[t].serial # request'[u].serial
        BY <2>2 DEF SerialsOK
    <2>5. ASSUME NEW u \in Threads, pc'[u] \in Before
          PROVE  /\ cells'[request'[u].serial] = NoObjects
                 /\ \A x \in Pairs' : x[1] # request'[u].serial
        <3>1. pc'[u] # "idle"
            BY <2>5 DEF Before
        <3> QED BY <2>2, <2>5, <3>1 DEF SerialsOK
    <2>6. \A n \in Serials : n > opens' => cells'[n] = NoObjects
        BY DEF SerialsOK
    <2> QED BY <2>1, <2>3, <2>4, <2>5, <2>6 DEF SerialsOK
<1>2. PICK owner \in [Serials -> Headers \cup {NoKey}] : Owned(owner)
    BY DEF Owners
<1>3. ASSUME NEW n \in Serials, cells[n] # NoObjects
      PROVE  cells[n].cas <= cas_file'[owner[n].toc.path]
    <2>1. owner[n].toc.path \in Paths /\ cells[n] \in Headers
        BY <1>2, <1>3 DEF Owned, Headers, Tocs, TypeOK
    <2>2. cells[n].cas \in Int /\ cas_file[owner[n].toc.path] \in Int
          /\ cas_file'[owner[n].toc.path] \in Int
        BY <2>1, MaxUpdatesIsNat DEF Headers, Versions, TypeOK
    <2>3. cells[n].cas <= cas_file[owner[n].toc.path]
        BY <1>2, <1>3 DEF Owned
    <2>4. cas_file[owner[n].toc.path] <= cas_file'[owner[n].toc.path]
        BY <2>1
    <2> QED BY <2>2, <2>3, <2>4
<1>4. Owned(owner)'
    BY <1>2, <1>3 DEF Owned
<1> QED BY <1>1, <1>2, <1>4 DEF Owners

\* A thread that takes no cell, while the cache stays as it is, adds no pair.
LEMMA NoNewPair ==
    ASSUME NEW t \in Threads, cache' = cache,
           \A u \in Threads \ {t} :
                pc'[u] = pc[u] /\ header'[u] = header[u] /\ cell'[u] = cell[u],
           \/ pc'[t] \notin Holding
           \/ pc[t] \in Holding /\ header'[t] = header[t] /\ cell'[t] = cell[t]
    PROVE  Pairs' \subseteq Pairs
<1>1. ASSUME NEW u \in Threads, pc'[u] \in Holding
      PROVE  pc[u] \in Holding /\ header'[u] = header[u] /\ cell'[u] = cell[u]
    BY <1>1
<1> QED BY <1>1 DEF Pairs

\* An action of a thread that only works on what is its own.
Private(t) ==
    /\ UNCHANGED <<files, cache, cells, opens>>
    /\ start' \in [Threads -> Versions \X Versions]
    /\ \A u \in Threads \ {t} :
        /\ pc'[u] = pc[u] /\ request'[u] = request[u] /\ start'[u] = start[u]
        /\ key'[u] = key[u] /\ toc'[u] = toc[u] /\ header'[u] = header[u]
        /\ cell'[u] = cell[u] /\ handle'[u] = handle[u] /\ objects'[u] = objects[u]

\* A step that leaves a thread alone leaves what is known of it.
LEMMA OtherFresh ==
    ASSUME NEW u \in Threads, FreshOK(u), UNCHANGED <<toc_file, cas_file>>,
           pc'[u] = pc[u], request'[u] = request[u], start'[u] = start[u], key'[u] = key[u],
           toc'[u] = toc[u], header'[u] = header[u], cell'[u] = cell[u],
           handle'[u] = handle[u], objects'[u] = objects[u]
    PROVE  FreshOK(u)'
BY DEF FreshOK, StartOK, HeldOK, HandleOK, ObjectsOK, Path, Config

LEMMA PrivateFresh ==
    ASSUME IInv, IInv', FreshInv, NEW t \in Threads, Private(t), FreshOK(t)',
           \/ pc'[t] = "idle"
           \/ /\ pc[t] # "idle" /\ request'[t] = request[t]
              /\ \/ pc[t] \in Before /\ pc'[t] \in Before
                 \/ /\ pc[t] \in Holding /\ pc'[t] \in Holding
                    /\ header'[t] = header[t] /\ cell'[t] = cell[t]
    PROVE  FreshInv'
<1>1. ASSUME NEW u \in Threads, u # t PROVE FreshOK(u)'
    BY <1>1, OtherFresh DEF Private, FreshInv, files
<1>2. Pairs' \subseteq Pairs
    <2>1. \/ pc'[t] \notin Holding
          \/ pc[t] \in Holding /\ header'[t] = header[t] /\ cell'[t] = cell[t]
        BY DEF Holding, Before
    <2> QED BY <2>1, NoNewPair DEF Private
<1>3. \A p \in Paths : cas_file[p] <= cas_file'[p]
    BY MaxUpdatesIsNat DEF Private, files, IInv, TypeOK, Versions
<1>4. \A u \in Threads :
        \/ pc'[u] = "idle"
        \/ /\ pc[u] # "idle" /\ request'[u] = request[u]
           /\ pc'[u] \in Before => pc[u] \in Before
    BY DEF Private, Before, Holding
<1>5. SerialsOK' /\ Owners'
    BY <1>2, <1>3, <1>4, PairsShrink DEF Private, FreshInv, IInv
<1> QED BY <1>1, <1>5 DEF Private, FreshInv

-----------------------------------------------------------------------------
(* Every action keeps the invariant                                        *)

LEMMA InitFresh == Init => FreshInv
<1> SUFFICES ASSUME Init PROVE FreshInv
    OBVIOUS
<1>1. Pairs = {}
    BY DEF Init, Pairs, Holding
<1>2. \A t \in Threads : FreshOK(t)
    BY DEF Init, FreshOK, StartOK, HeldOK, HandleOK, ObjectsOK, Holding
<1>3. SerialsOK
    BY <1>1 DEF Init, SerialsOK, Before
<1>4. [n \in Serials |-> NoKey] \in [Serials -> Headers \cup {NoKey}]
    OBVIOUS
<1>5. Owned([n \in Serials |-> NoKey])
    BY <1>1, <1>4 DEF Init, Owned
<1>6. start \in [Threads -> Versions \X Versions]
    BY MaxUpdatesIsNat DEF Init, Versions
<1> QED BY <1>2, <1>3, <1>4, <1>5, <1>6 DEF FreshInv, Owners

\* An update leaves older what was not newer.
LEMMA UpdateFresh ==
    ASSUME IInv, IInv', FreshInv, NEW p \in Paths, UpdateToc(p) \/ UpdateCas(p)
    PROVE  FreshInv'
<1>1. UNCHANGED <<shared, opens, locals>>
    BY DEF UpdateToc, UpdateCas
<1>2. \A q \in Paths : /\ toc_file[q] \in Versions /\ toc_file'[q] \in Versions
                       /\ cas_file[q] \in Versions /\ cas_file'[q] \in Versions
    BY DEF IInv, TypeOK
<1>3. \A q \in Paths : toc_file[q] <= toc_file'[q] /\ cas_file[q] <= cas_file'[q]
    <2>1. toc_file \in [Paths -> 0..MaxUpdates] /\ cas_file \in [Paths -> 0..MaxUpdates]
        BY DEF Versions, IInv, TypeOK
    <2>2. CASE UpdateToc(p)
        <3>1. toc_file' = [toc_file EXCEPT ![p] = @ + 1] /\ cas_file' = cas_file
            BY <2>2 DEF UpdateToc
        <3> QED BY <2>1, <3>1, MaxUpdatesIsNat
    <2>3. CASE UpdateCas(p)
        <3>1. cas_file' = [cas_file EXCEPT ![p] = @ + 1] /\ toc_file' = toc_file
            BY <2>3 DEF UpdateCas
        <3> QED BY <2>1, <3>1, MaxUpdatesIsNat
    <2> QED BY <2>2, <2>3
<1>4. ASSUME NEW u \in Threads PROVE FreshOK(u)'
    <2>1. CASE pc[u] = "idle"
        BY <1>1, <2>1 DEF locals, FreshInv, FreshOK, StartOK, HeldOK, HandleOK, ObjectsOK, Holding
    <2>2. CASE pc[u] # "idle"
        <3>1. Path(u) \in Paths
            BY <2>2 DEF IInv, ThreadOK, KeyOK, Path, Requests
        <3>2. Path(u)' = Path(u) /\ Config(u)' = Config(u)
            BY <1>1 DEF locals, Path, Config
        <3>3. toc_file[Path(u)] <= toc_file'[Path(u)] /\ cas_file[Path(u)] <= cas_file'[Path(u)]
            BY <1>3, <3>1
        <3>4. StartOK(u)'
            BY <1>1, <1>2, <2>2, <3>1, <3>2, <3>3, MaxUpdatesIsNat
               DEF locals, FreshInv, FreshOK, StartOK, Versions
        <3>5. HeldOK(u)'
            BY <1>1, <1>2, <3>1, <3>2, <3>3, MaxUpdatesIsNat
               DEF locals, FreshInv, FreshOK, HeldOK, Versions, Headers, Tocs
        <3>6. HandleOK(u)' /\ ObjectsOK(u)'
            BY <1>1, <1>2, <3>1, <3>2, <3>3, MaxUpdatesIsNat
               DEF locals, FreshInv, FreshOK, HandleOK, ObjectsOK, Versions, Headers
        <3> QED BY <3>4, <3>5, <3>6 DEF FreshOK
    <2> QED BY <2>1, <2>2
<1>5. Pairs' \subseteq Pairs
    BY <1>1 DEF Pairs, shared, locals
<1>6. SerialsOK' /\ Owners'
    <2>1. cells' = cells /\ opens' = opens /\ pc' = pc /\ request' = request
        BY <1>1 DEF shared, locals
    <2> QED BY <1>3, <1>5, <2>1, PairsShrink DEF FreshInv, IInv
<1> QED BY <1>1, <1>4, <1>6 DEF FreshInv, locals

\* An open starts from the versions of now, with a number nobody has.
LEMMA OpenFresh ==
    ASSUME IInv, IInv', FreshInv, NEW t \in Threads, NEW p \in Paths, NEW c \in Configs,
           Open(t, p, c)
    PROVE  FreshInv'
<1>0. /\ UNCHANGED <<files, cache, cells, toc, header, cell, handle, objects>>
      /\ pc[t] = "idle" /\ opens < MaxOpens /\ opens' = opens + 1
      /\ request'[t] = [path |-> p, config |-> c, serial |-> opens + 1]
      /\ start'[t] = <<toc_file[p], cas_file[p]>>
    <2>1. /\ request' = [request EXCEPT ![t] = [path |-> p, config |-> c, serial |-> opens + 1]]
          /\ request \in [Threads -> Requests \cup {NoKey}]
        BY DEF Open, IInv, TypeOK
    <2>2. start' = [start EXCEPT ![t] = Stamp(p)] /\ start \in [Threads -> Versions \X Versions]
        BY DEF Open, FreshInv
    <2> QED BY <2>1, <2>2 DEF Open, shared, Stamp
<1>1. /\ UNCHANGED <<files, cache, cells, toc, header, cell, handle, objects>>
      /\ pc[t] = "idle" /\ pc'[t] \in {"stamping", "parsing"} /\ opens' = opens + 1
      /\ request'[t].serial = opens + 1 /\ opens' <= MaxOpens /\ Path(t)' = p
      /\ start'[t] = <<toc_file[p], cas_file[p]>>
      /\ key'[t] = NoKey \/ (pc'[t] = "stamping" /\ key'[t].toc = toc_file[p])
    <2>1. opens' <= MaxOpens
        BY <1>0, MaxOpensIsNat DEF IInv, TypeOK
    <2>2. pc'[t] \in {"stamping", "parsing"}
          /\ (key'[t] = NoKey \/ (pc'[t] = "stamping" /\ key'[t].toc = toc_file[p]))
        BY DEF Open, Goto, IInv, TypeOK, Key
    <2> QED BY <1>0, <2>1, <2>2 DEF Path
<1>2. \A u \in Threads \ {t} :
        pc'[u] = pc[u] /\ request'[u] = request[u] /\ start'[u] = start[u] /\ key'[u] = key[u]
    BY DEF Open, Goto, IInv, TypeOK
<1>3. opens \in Nat /\ toc_file[p] \in Versions /\ cas_file[p] \in Versions
    BY MaxOpensIsNat DEF IInv, TypeOK
<1>4. ASSUME NEW u \in Threads PROVE FreshOK(u)'
    <2>1. CASE u # t
        BY <1>1, <1>2, <2>1, OtherFresh DEF FreshInv, files
    <2>2. CASE u = t
        <3>1. handle[t] = NoKey
            BY <1>1 DEF FreshInv, FreshOK, HandleOK, Holding
        <3>2. StartOK(t)'
            BY <1>1, <1>3, MaxUpdatesIsNat DEF StartOK, files, Versions
        <3>3. HeldOK(t)' /\ HandleOK(t)' /\ ObjectsOK(t)'
            BY <1>1, <3>1 DEF HeldOK, HandleOK, ObjectsOK, Holding
        <3> QED BY <2>2, <3>2, <3>3 DEF FreshOK
    <2> QED BY <2>1, <2>2
<1>5. Pairs' \subseteq Pairs
    BY <1>1, <1>2, NoNewPair DEF Holding
<1>6. SerialsOK'
    <2>1. \A x \in Pairs' : x[1] \in 1..opens /\ x[1] \in 1..opens'
        BY <1>1, <1>3, <1>5 DEF FreshInv, SerialsOK
    <2>2. \A u \in Threads \ {t} : pc'[u] # "idle" =>
                /\ pc[u] # "idle" /\ request'[u] = request[u]
                /\ request'[u].serial \in 1..opens /\ request'[u].serial \in 1..opens'
        BY <1>1, <1>2, <1>3 DEF FreshInv, SerialsOK
    <2>3. request'[t].serial \in 1..opens' /\ request'[t].serial \notin 1..opens
        BY <1>1, <1>3
    <2>4. \A u, v \in Threads : u # v /\ pc'[u] # "idle" /\ pc'[v] # "idle" =>
                request'[u].serial # request'[v].serial
        BY <2>2, <2>3 DEF FreshInv, SerialsOK
    <2>5. ASSUME NEW u \in Threads, pc'[u] \in Before
          PROVE  /\ cells'[request'[u].serial] = NoObjects
                 /\ \A x \in Pairs' : x[1] # request'[u].serial
        <3>1. CASE u # t
            <4>1. request'[u] = request[u] /\ pc[u] \in Before
                BY <1>2, <2>5, <3>1
            <4> QED BY <1>1, <1>5, <4>1 DEF FreshInv, SerialsOK
        <3>2. CASE u = t
            <4>1. opens + 1 \in Serials /\ opens + 1 > opens
                BY <1>1, <1>3, MaxOpensIsNat DEF Serials
            <4> QED BY <1>1, <2>1, <2>3, <3>2, <4>1 DEF FreshInv, SerialsOK
        <3> QED BY <3>1, <3>2
    <2>6. \A n \in Serials : n > opens' => cells'[n] = NoObjects
        BY <1>1, <1>3, MaxOpensIsNat DEF FreshInv, SerialsOK, Serials
    <2> QED BY <2>1, <2>2, <2>3, <2>4, <2>5, <2>6 DEF SerialsOK
<1>7. Owners'
    BY <1>1, <1>5 DEF FreshInv, Owners, Owned, files
<1>8. start' \in [Threads -> Versions \X Versions]
    <2>1. Stamp(p) \in Versions \X Versions
        BY <1>3 DEF Stamp
    <2> QED BY <2>1 DEF Open, FreshInv
<1> QED BY <1>4, <1>6, <1>7, <1>8 DEF FreshInv

\* A thread that gives up or drops its container has nothing.
LEMMA LeaveFresh ==
    ASSUME IInv, IInv', NEW t \in Threads, Leave(t)
    PROVE  FreshOK(t)' /\ pc'[t] = "idle"
BY DEF Leave, Goto, IInv, TypeOK, FreshOK, StartOK, HeldOK, HandleOK, ObjectsOK, Holding

\* The key is of versions not older than those at the start.
LEMMA StampFresh ==
    ASSUME IInv, IInv', FreshInv, NEW t \in Threads, StampCas(t) \/ StampFails(t) \/ Miss(t)
    PROVE  FreshInv'
<1>1. Private(t)
    BY DEF Private, FreshInv, StampCas, StampFails, Miss, shared, Goto, IInv, TypeOK
<1>2. /\ pc[t] \in Before \ {"parsed", "reading"} /\ pc'[t] \in {"looking", "parsing"}
      /\ UNCHANGED <<request, start, handle>>
    BY DEF StampCas, StampFails, Miss, Goto, Before, IInv, TypeOK
<1>3. \/ key'[t] = NoKey
      \/ key'[t].toc = key[t].toc /\ key[t] # NoKey /\ key'[t].cas = cas_file[Path(t)]
      \/ key'[t] = key[t] /\ pc[t] # "stamping"
    BY DEF StampCas, StampFails, Miss, IInv, TypeOK, Keys, ThreadOK, KeyOK
<1>4. StartOK(t)'
    BY <1>1, <1>2, <1>3 DEF Private, files, FreshInv, FreshOK, StartOK, Before, Path
<1>5. FreshOK(t)'
    BY <1>2, <1>4 DEF FreshInv, FreshOK, HeldOK, HandleOK, ObjectsOK, Before, Holding
<1> QED BY <1>1, <1>2, <1>5, PrivateFresh DEF Before

\* The table is of versions not older than those at the start.
LEMMA ParseFresh ==
    ASSUME IInv, IInv', FreshInv, NEW t \in Threads, ParseToc(t) \/ FinishToc(t)
    PROVE  FreshInv'
<1>1. Private(t)
    <2>1. CASE ParseToc(t)
        BY <2>1 DEF Private, FreshInv, ParseToc, shared, Goto, IInv, TypeOK
    <2>2. CASE FinishToc(t)
        BY <2>2 DEF Private, FreshInv, FinishToc, shared, Goto, IInv, TypeOK
    <2> QED BY <2>1, <2>2
<1>2. /\ pc[t] \in Before /\ pc[t] \in {"parsing", "parsed"} /\ pc'[t] \in {"parsed", "reading"}
      /\ UNCHANGED <<request, start, key, handle>>
    BY DEF ParseToc, FinishToc, Goto, Before, IInv, TypeOK
<1>3. toc'[t].first = IF pc[t] = "parsing" THEN toc_file[Path(t)] ELSE toc[t].first
    <2>1. CASE ParseToc(t)
        BY <2>1 DEF ParseToc, IInv, TypeOK
    <2>2. CASE FinishToc(t)
        <3>1. toc[t] \in Tocs
            BY <2>2 DEF FinishToc, IInv, ThreadOK, TocOK
        <3> QED BY <2>2, <3>1 DEF FinishToc, IInv, TypeOK, Tocs
    <2> QED BY <2>1, <2>2
<1>4. StartOK(t)'
    BY <1>1, <1>2, <1>3 DEF Private, files, FreshInv, FreshOK, StartOK, Before, Path
<1>5. FreshOK(t)'
    BY <1>2, <1>4 DEF FreshInv, FreshOK, HeldOK, HandleOK, ObjectsOK, Before, Holding
<1> QED BY <1>1, <1>2, <1>5, PrivateFresh DEF Before

LEMMA DropFresh ==
    ASSUME IInv, IInv', FreshInv, NEW t \in Threads, OpenFails(t) \/ Drop(t)
    PROVE  FreshInv'
<1>1. Leave(t) /\ UNCHANGED <<files, shared, opens>>
    BY DEF OpenFails, Drop
<1>2. Private(t)
    BY <1>1, MaxUpdatesIsNat
       DEF Private, FreshInv, Leave, shared, Goto, IInv, TypeOK, Versions
<1> QED BY <1>1, <1>2, LeaveFresh, PrivateFresh

\* The header is not older than the start, and its cell is this open's own.
LEMMA ReadHeaderFresh ==
    ASSUME IInv, IInv', FreshInv, NEW t \in Threads, ReadHeader(t)
    PROVE  FreshInv'
<1> DEFINE n == request[t].serial
           v == cas_file[Path(t)]
<1>1. /\ UNCHANGED <<files, cache, cells, opens, request, start, key, toc, objects>>
      /\ pc[t] = "reading" /\ pc'[t] \in {"opened", "checking"}
      /\ header'[t] = [toc |-> toc[t], cas |-> v] /\ cell'[t] = n /\ handle'[t] = v
    BY DEF ReadHeader, shared, Goto, IInv, TypeOK
<1>2. \A u \in Threads \ {t} :
        /\ pc'[u] = pc[u] /\ header'[u] = header[u] /\ cell'[u] = cell[u]
        /\ handle'[u] = handle[u]
    BY DEF ReadHeader, Goto, IInv, TypeOK
<1>3. /\ n \in Serials /\ toc[t] \in Tocs /\ v \in Versions
      /\ toc[t].path = Path(t) /\ toc[t].config = Config(t)
      /\ toc[t].first <= toc[t].last /\ toc[t].last <= toc_file[Path(t)]
      /\ start[t][1] <= toc[t].first /\ start[t][2] <= v
    BY <1>1 DEF IInv, TypeOK, ThreadOK, KeyOK, TocOK, Requests, Path, FreshInv, FreshOK, StartOK
<1>4. header'[t] \in Headers /\ header'[t].toc = toc[t] /\ header'[t].cas = v
    BY <1>1, <1>3 DEF Headers
<1>5. v <= v
    BY <1>3, MaxUpdatesIsNat DEF Versions
<1>6. ASSUME NEW u \in Threads PROVE FreshOK(u)'
    <2>1. CASE u # t
        BY <1>1, <1>2, <2>1, OtherFresh DEF FreshInv, files
    <2>2. CASE u = t
        <3>1. StartOK(t)'
            BY <1>1 DEF FreshInv, FreshOK, StartOK, files, Path
        <3>2. HeldOK(t)'
            BY <1>1, <1>3, <1>4, <1>5 DEF HeldOK, files, Path, Config
        <3>3. HandleOK(t)' /\ ObjectsOK(t)'
            BY <1>1, <1>4 DEF HandleOK, ObjectsOK, Holding
        <3> QED BY <2>2, <3>1, <3>2, <3>3 DEF FreshOK
    <2> QED BY <2>1, <2>2
<1>7. ASSUME NEW x \in Pairs' PROVE x \in Pairs \/ x = <<n, header'[t]>>
    <2>1. CASE \E i \in DOMAIN cache' : x = <<cache'[i].cell, cache'[i].header>>
        BY <1>1, <2>1 DEF Pairs
    <2>2. ASSUME NEW u \in Threads, pc'[u] \in Holding, x = <<cell'[u], header'[u]>>
          PROVE  x \in Pairs \/ x = <<n, header'[t]>>
        BY <1>1, <1>2, <2>2 DEF Pairs
    <2> QED BY <2>1, <2>2 DEF Pairs
<1>8. cells[n] = NoObjects /\ n \in 1..opens /\ \A x \in Pairs : x[1] # n
    BY <1>1 DEF FreshInv, SerialsOK, Before
<1>9. SerialsOK'
    <2>1. \A x \in Pairs' : x[1] \in 1..opens'
        BY <1>1, <1>7, <1>8 DEF FreshInv, SerialsOK
    <2>2. \A u \in Threads : (pc'[u] # "idle" => pc[u] # "idle") /\ request'[u] = request[u]
        BY <1>1, <1>2
    <2>3. ASSUME NEW u \in Threads, pc'[u] \in Before
          PROVE  /\ cells'[request'[u].serial] = NoObjects
                 /\ \A x \in Pairs' : x[1] # request'[u].serial
        <3>1. u # t /\ pc[u] \in Before
            BY <1>1, <1>2, <2>3 DEF Before
        <3>2. request[u].serial # n
            BY <1>1, <3>1 DEF FreshInv, SerialsOK, Before
        <3> QED BY <1>1, <1>7, <3>1, <3>2 DEF FreshInv, SerialsOK
    <2>4. \A u, w \in Threads : u # w /\ pc'[u] # "idle" /\ pc'[w] # "idle" =>
                request'[u].serial # request'[w].serial
        BY <2>2 DEF FreshInv, SerialsOK
    <2>5. \A u \in Threads : pc'[u] # "idle" => request'[u].serial \in 1..opens'
        BY <1>1, <2>2 DEF FreshInv, SerialsOK
    <2>6. \A k \in Serials : k > opens' => cells'[k] = NoObjects
        BY <1>1 DEF FreshInv, SerialsOK
    <2> QED BY <2>1, <2>3, <2>4, <2>5, <2>6 DEF SerialsOK
<1>10. Owners'
    <2>1. PICK owner \in [Serials -> Headers \cup {NoKey}] : Owned(owner)
        BY DEF FreshInv, Owners
    <2>2. PICK mine \in [Serials -> Headers \cup {NoKey}] :
            mine[n] = header'[t] /\ \A k \in Serials \ {n} : mine[k] = owner[k]
        <3>1. [owner EXCEPT ![n] = header'[t]] \in [Serials -> Headers \cup {NoKey}]
            BY <1>3, <1>4
        <3> QED BY <1>3, <3>1
    <2>3. \A x \in Pairs' : x[2] = mine[x[1]]
        <3>1. \A x \in Pairs : x[1] \in Serials \ {n} /\ x[2] = owner[x[1]]
            BY <1>8, <2>1, MaxOpensIsNat DEF FreshInv, SerialsOK, Owned, IInv, TypeOK, Serials
        <3> QED BY <1>7, <2>2, <3>1
    <2>4. ASSUME NEW k \in Serials, cells'[k] # NoObjects
          PROVE  /\ mine[k] \in Headers /\ cells'[k].toc = mine[k].toc
                 /\ mine[k].cas <= cells'[k].cas
                 /\ cells'[k].cas <= cas_file'[mine[k].toc.path]
        BY <1>1, <1>8, <2>1, <2>2, <2>4 DEF Owned, files
    <2>5. Owned(mine)'
        BY <2>2, <2>3, <2>4 DEF Owned
    <2> QED BY <2>2, <2>5 DEF Owners
<1> QED BY <1>1, <1>6, <1>9, <1>10 DEF FreshInv

\* The second look at the stamps changes nothing of what the thread has.
LEMMA RecheckFresh ==
    ASSUME IInv, IInv', FreshInv, NEW t \in Threads, Recheck(t) \/ RecheckCas(t)
    PROVE  FreshInv'
<1>1. Private(t)
    BY DEF Private, FreshInv, Recheck, RecheckCas, shared, Goto, IInv, TypeOK
<1>2. /\ pc[t] \in Holding /\ pc'[t] \in Holding \ {"setting", "loaded"} /\ pc[t] # "idle"
      /\ UNCHANGED <<request, start, key, toc, header, cell, handle, objects>>
      /\ pc[t] # "stamping" /\ pc'[t] \notin {"parsed", "reading"}
    BY DEF Recheck, RecheckCas, Goto, Holding, IInv, TypeOK
<1>3. FreshOK(t)'
    BY <1>1, <1>2
       DEF Private, files, FreshInv, FreshOK, StartOK, HeldOK, HandleOK, ObjectsOK, Path, Config
<1> QED BY <1>1, <1>2, <1>3, PrivateFresh

\* The objects in the cell were read through the container's own table.
LEMMA ObjectsThereFresh ==
    ASSUME IInv, IInv', FreshInv, NEW t \in Threads, ObjectsThere(t)
    PROVE  FreshInv'
<1>1. Private(t)
    BY DEF Private, FreshInv, ObjectsThere, shared, Goto, IInv, TypeOK
<1>2. /\ pc[t] = "opened" /\ pc'[t] = "loaded" /\ objects'[t] = cells[cell[t]]
      /\ cells[cell[t]] # NoObjects
      /\ UNCHANGED <<request, start, key, toc, header, cell, handle>>
    BY DEF ObjectsThere, Goto, IInv, TypeOK
<1>3. PICK owner \in [Serials -> Headers \cup {NoKey}] : Owned(owner)
    BY DEF FreshInv, Owners
<1>4. cell[t] \in Serials /\ header[t] = owner[cell[t]]
    <2>1. <<cell[t], header[t]>> \in Pairs
        BY <1>2 DEF Pairs, Holding
    <2>2. <<cell[t], header[t]>>[2] = owner[<<cell[t], header[t]>>[1]]
        BY <1>3, <2>1 DEF Owned
    <2> QED BY <1>2, <2>2 DEF FreshInv, FreshOK, HeldOK, Holding
<1>5. /\ cells[cell[t]] \in Headers /\ header[t].toc = toc[t] /\ toc[t].path = Path(t)
    BY <1>2, <1>4 DEF FreshInv, FreshOK, HeldOK, Holding, IInv, TypeOK
<1>6. ObjectsOK(t)'
    BY <1>1, <1>2, <1>3, <1>4, <1>5 DEF Private, files, Owned, ObjectsOK, Path
<1>7. FreshOK(t)'
    BY <1>1, <1>2, <1>6
       DEF Private, files, FreshInv, FreshOK, StartOK, HeldOK, HandleOK, Path, Config, Holding
<1> QED BY <1>1, <1>2, <1>7, PrivateFresh DEF Holding

\* The objects are read through the container's table, not before its header.
LEMMA ReadObjectsFresh ==
    ASSUME IInv, IInv', FreshInv, NEW t \in Threads, ReadObjects(t)
    PROVE  FreshInv'
<1>1. Private(t)
    BY DEF Private, FreshInv, ReadObjects, shared, Goto, IInv, TypeOK
<1>2. /\ pc[t] = "opened" /\ pc'[t] = "setting"
      /\ UNCHANGED <<request, start, key, toc, header, cell, handle>>
    BY DEF ReadObjects, Goto, IInv, TypeOK
<1>3. PICK v \in {cas_file[Path(t)], handle[t]} \ {NoKey} :
        objects'[t] = [toc |-> toc[t], cas |-> v]
    BY DEF ReadObjects, IInv, TypeOK
<1>4. /\ header[t] \in Headers /\ toc[t] = header[t].toc /\ Path(t) \in Paths
      /\ header[t].cas <= cas_file[Path(t)]
      /\ handle[t] # NoKey => handle[t] = header[t].cas
    BY <1>2 DEF FreshInv, FreshOK, HeldOK, HandleOK, Holding, Headers, Tocs
<1>5. /\ v \in Versions /\ header[t].cas <= v /\ v <= cas_file[Path(t)]
    BY <1>4, MaxUpdatesIsNat DEF IInv, TypeOK, Headers, Versions
<1>6. objects'[t] \in Headers
    BY <1>3, <1>4, <1>5 DEF Headers
<1>7. ObjectsOK(t)'
    BY <1>1, <1>2, <1>3, <1>5, <1>6 DEF Private, files, ObjectsOK, Path
<1>8. FreshOK(t)'
    BY <1>1, <1>2, <1>7
       DEF Private, files, FreshInv, FreshOK, StartOK, HeldOK, HandleOK, Path, Config, Holding
<1> QED BY <1>1, <1>2, <1>8, PrivateFresh DEF Holding

\* A cell that was empty gets what its owner's table gave.
LEMMA SetObjectsFresh ==
    ASSUME IInv, IInv', FreshInv, NEW t \in Threads, SetObjects(t)
    PROVE  FreshInv'
<1> DEFINE n == cell[t]
<1>1. /\ UNCHANGED <<files, cache, opens, request, start, key, toc, header, cell, handle, objects>>
      /\ pc[t] = "setting" /\ pc'[t] = "loaded"
      /\ \A u \in Threads \ {t} : pc'[u] = pc[u]
    BY DEF SetObjects, Goto, IInv, TypeOK
<1>2. /\ n \in Serials /\ header[t] \in Headers /\ header[t].toc.path = Path(t)
      /\ objects[t] \in Headers /\ objects[t].toc = header[t].toc
      /\ header[t].cas <= objects[t].cas /\ objects[t].cas <= cas_file[Path(t)]
    BY <1>1 DEF FreshInv, FreshOK, HeldOK, ObjectsOK, Holding
<1>3. /\ \A k \in Serials \ {n} : cells'[k] = cells[k]
      /\ cells'[n] = cells[n] \/ (cells[n] = NoObjects /\ cells'[n] = objects[t])
    BY <1>2 DEF SetObjects, IInv, TypeOK
<1>4. Pairs' = Pairs
    <2>1. {u \in Threads : pc'[u] \in Holding} = {u \in Threads : pc[u] \in Holding}
        BY <1>1 DEF Holding
    <2> QED BY <1>1, <2>1 DEF Pairs
<1>5. <<n, header[t]>> \in Pairs
    BY <1>1 DEF Pairs, Holding
<1>6. n \in 1..opens /\ \A u \in Threads : pc[u] \in Before => n # request[u].serial
    <2>1. <<n, header[t]>>[1] = n
        OBVIOUS
    <2> QED BY <1>5, <2>1 DEF FreshInv, SerialsOK
<1>7. \A u \in Threads : (pc'[u] # "idle" => pc[u] # "idle") /\ (pc'[u] \in Before => pc[u] \in Before)
    BY <1>1 DEF Before
<1>8. SerialsOK'
    <2>1. \A x \in Pairs' : x[1] \in 1..opens'
        BY <1>1, <1>4 DEF FreshInv, SerialsOK
    <2>2. \A u \in Threads : pc'[u] # "idle" => request'[u].serial \in 1..opens'
        BY <1>1, <1>7 DEF FreshInv, SerialsOK
    <2>3. \A u, w \in Threads : u # w /\ pc'[u] # "idle" /\ pc'[w] # "idle" =>
                request'[u].serial # request'[w].serial
        BY <1>1, <1>7 DEF FreshInv, SerialsOK
    <2>4. ASSUME NEW u \in Threads, pc'[u] \in Before
          PROVE  /\ cells'[request'[u].serial] = NoObjects
                 /\ \A x \in Pairs' : x[1] # request'[u].serial
        <3>1. /\ pc[u] \in Before /\ request'[u] = request[u]
              /\ request[u].serial \in 1..opens /\ request[u].serial # n
            BY <1>1, <1>6, <1>7, <2>4 DEF FreshInv, SerialsOK, Before
        <3>2. request[u].serial \in Serials
            BY <3>1, MaxOpensIsNat DEF Serials, IInv, TypeOK
        <3> QED BY <1>3, <1>4, <3>1, <3>2 DEF FreshInv, SerialsOK
    <2>5. \A k \in Serials : k > opens' => cells'[k] = NoObjects
        <3>1. ASSUME NEW k \in Serials, k > opens PROVE k # n
            BY <1>6, <3>1, MaxOpensIsNat DEF Serials, IInv, TypeOK
        <3> QED BY <1>1, <1>3, <3>1 DEF FreshInv, SerialsOK
    <2> QED BY <2>1, <2>2, <2>3, <2>4, <2>5 DEF SerialsOK
<1>9. Owners'
    <2>1. PICK owner \in [Serials -> Headers \cup {NoKey}] : Owned(owner)
        BY DEF FreshInv, Owners
    <2>2. owner[n] = header[t]
        <3>1. <<n, header[t]>>[1] = n /\ <<n, header[t]>>[2] = header[t]
            OBVIOUS
        <3> QED BY <1>5, <2>1, <3>1 DEF Owned
    <2>3. ASSUME NEW k \in Serials, cells'[k] # NoObjects
          PROVE  /\ owner[k] \in Headers /\ cells'[k].toc = owner[k].toc
                 /\ owner[k].cas <= cells'[k].cas
                 /\ cells'[k].cas <= cas_file'[owner[k].toc.path]
        <3>1. CASE cells'[k] = cells[k]
            BY <1>1, <2>1, <2>3, <3>1 DEF Owned, files
        <3>2. CASE k = n /\ cells'[n] = objects[t]
            BY <1>1, <1>2, <2>2, <3>2 DEF files
        <3> QED BY <1>3, <3>1, <3>2
    <2>4. \A x \in Pairs' : x[2] = owner[x[1]]
        BY <1>4, <2>1 DEF Owned
    <2>5. Owned(owner)'
        BY <2>1, <2>3, <2>4 DEF Owned
    <2> QED BY <2>5 DEF Owners
<1>10. FreshOK(t)'
    BY <1>1 DEF files, FreshInv, FreshOK, StartOK, HeldOK, HandleOK, ObjectsOK, Path, Config, Holding
<1>11. ASSUME NEW u \in Threads, u # t PROVE FreshOK(u)'
    BY <1>1, <1>11, OtherFresh DEF FreshInv, files
<1>12. start' \in [Threads -> Versions \X Versions]
    BY <1>1 DEF FreshInv
<1> QED BY <1>8, <1>9, <1>10, <1>11, <1>12 DEF FreshInv

\* The entry that is used has the thread's key, whose versions lie between those
\* of the start and of now.
LEMMA HitFresh ==
    ASSUME IInv, IInv', FreshInv, NEW t \in Threads, Hit(t)
    PROVE  FreshInv'
<1>1. cache \in Seq(Entries) /\ DOMAIN cache = 1..Len(cache)
    BY DEF IInv, TypeOK
<1>2. PICK i \in 1..Len(cache) :
        /\ cache[i].key = key[t]
        /\ cache' = Append(RemoveAt(cache, i), cache[i])
        /\ TakeFrom(t, cache[i])
    BY <1>1 DEF Hit
<1>3. /\ UNCHANGED <<files, cells, opens>> /\ pc[t] = "looking" /\ cache[i] \in Entries
    BY <1>1, <1>2 DEF Hit
<1>4. \A k \in DOMAIN cache' : \E j \in DOMAIN cache : cache'[k] = cache[j]
    <2> DEFINE rest == RemoveAt(cache, i)
    <2>1. /\ rest \in Seq(Entries)
          /\ \A k \in 1..Len(rest) : \E j \in 1..Len(cache) : rest[k] = cache[j]
        BY <1>1, RemoveAtElements
    <2>2. cache' = Append(rest, cache[i])
        BY <1>2
    <2> HIDE DEF rest
    <2>3. /\ DOMAIN cache' = 1..Len(rest) + 1 /\ cache'[Len(rest) + 1] = cache[i]
          /\ \A k \in 1..Len(rest) : cache'[k] = rest[k]
        BY <1>3, <2>1, <2>2, AppendPlaces
    <2>4. Len(rest) \in Nat
        BY <2>1
    <2>5. \A k \in 1..Len(rest) + 1 : k \in 1..Len(rest) \/ k = Len(rest) + 1
        BY <2>4
    <2> QED BY <1>1, <2>1, <2>3, <2>5
<1>5. \A u \in Threads \ {t} :
        /\ pc'[u] = pc[u] /\ request'[u] = request[u] /\ start'[u] = start[u]
        /\ key'[u] = key[u] /\ toc'[u] = toc[u] /\ header'[u] = header[u]
        /\ cell'[u] = cell[u] /\ handle'[u] = handle[u] /\ objects'[u] = objects[u]
    BY <1>2 DEF TakeFrom, Leave, Goto, FreshInv, IInv, TypeOK
<1>6. start' \in [Threads -> Versions \X Versions]
    <2>1. <<0, 0>> \in Versions \X Versions
        BY MaxUpdatesIsNat DEF Versions
    <2>2. start' = [start EXCEPT ![t] = <<0, 0>>] \/ start' = start
        BY <1>2 DEF TakeFrom, Leave
    <2>3. start \in [Threads -> Versions \X Versions]
        BY DEF FreshInv
    <2> QED BY <2>1, <2>2, <2>3
<1>7. \/ Leave(t)
      \/ /\ pc'[t] = "opened" /\ toc'[t] = cache[i].toc /\ header'[t] = cache[i].header
         /\ cell'[t] = cache[i].cell /\ UNCHANGED <<request, start, key, handle, objects>>
    BY <1>2 DEF TakeFrom, Goto, IInv, TypeOK
<1>8. FreshOK(t)'
    <2>1. CASE Leave(t)
        BY <2>1, LeaveFresh
    <2>2. CASE ~Leave(t)
        <3>1. /\ key[t].path = Path(t) /\ key[t].config = Config(t) /\ key[t] # NoKey
              /\ key[t].toc <= toc_file[Path(t)] /\ key[t].cas <= cas_file[Path(t)]
            BY <1>3 DEF IInv, ThreadOK, KeyOK
        <3>2. start[t][1] <= key[t].toc /\ start[t][2] <= key[t].cas /\ handle[t] = NoKey
            BY <1>3, <3>1 DEF FreshInv, FreshOK, StartOK, HandleOK, Holding
        <3>3. /\ cache[i].header = ReadThrough(key[t].path, key[t].config, <<key[t].toc, key[t].cas>>)
              /\ cache[i].toc = cache[i].header.toc
            BY <1>1, <1>2 DEF IInv, EntriesMatchTheirKeys
        <3>4. /\ cache[i].header \in Headers /\ cache[i].cell \in Serials
              /\ cache[i].toc.path = Path(t) /\ cache[i].toc.config = Config(t)
              /\ cache[i].toc.first = key[t].toc /\ cache[i].toc.last = key[t].toc
              /\ cache[i].header.cas = key[t].cas
            BY <1>3, <3>1, <3>3 DEF Entries, ReadThrough, Parse
        <3>5. key[t].toc <= key[t].toc
            BY <1>2, <1>3, MaxUpdatesIsNat DEF Entries, Keys, Versions
        <3>6. HeldOK(t)'
            BY <1>3, <1>7, <2>2, <3>1, <3>2, <3>3, <3>4, <3>5 DEF HeldOK, files, Path, Config
        <3>7. StartOK(t)'
            BY <1>3, <1>7, <2>2 DEF FreshInv, FreshOK, StartOK, files, Path
        <3>8. HandleOK(t)' /\ ObjectsOK(t)'
            BY <1>7, <2>2, <3>2 DEF HandleOK, ObjectsOK, Holding
        <3> QED BY <3>6, <3>7, <3>8 DEF FreshOK
    <2> QED BY <2>1, <2>2
<1>9. ASSUME NEW u \in Threads, u # t PROVE FreshOK(u)'
    BY <1>3, <1>5, <1>9, OtherFresh DEF FreshInv, files
<1>10. Pairs' \subseteq Pairs
    <2>1. ASSUME NEW u \in Threads, pc'[u] \in Holding PROVE <<cell'[u], header'[u]>> \in Pairs
        <3>1. CASE u # t
            BY <1>5, <2>1, <3>1 DEF Pairs
        <3>2. CASE u = t
            <4>1. cell'[t] = cache[i].cell /\ header'[t] = cache[i].header
                BY <1>7, <2>1, <3>2, LeaveFresh DEF Holding
            <4> QED BY <1>1, <3>2, <4>1 DEF Pairs
        <3> QED BY <3>1, <3>2
    <2>2. ASSUME NEW k \in DOMAIN cache' PROVE <<cache'[k].cell, cache'[k].header>> \in Pairs
        BY <1>4, <2>2 DEF Pairs
    <2> QED BY <2>1, <2>2 DEF Pairs
<1>11. \A u \in Threads :
        \/ pc'[u] = "idle"
        \/ /\ pc[u] # "idle" /\ request'[u] = request[u]
           /\ pc'[u] \in Before => pc[u] \in Before
    BY <1>3, <1>5, <1>7, LeaveFresh DEF Before
<1>12. \A p \in Paths : cas_file[p] <= cas_file'[p]
    BY <1>3, MaxUpdatesIsNat DEF files, IInv, TypeOK, Versions
<1>13. SerialsOK' /\ Owners'
    BY <1>3, <1>10, <1>11, <1>12, PairsShrink DEF FreshInv, IInv
<1> QED BY <1>6, <1>8, <1>9, <1>13 DEF FreshInv

\* The entry inserted shares the cell with the thread.
LEMMA InsertFresh ==
    ASSUME IInv, IInv', FreshInv, NEW t \in Threads, Insert(t)
    PROVE  FreshInv'
<1>1. /\ UNCHANGED <<files, cells, opens, request, start, key, toc, header, cell, handle, objects>>
      /\ pc[t] = "inserting" /\ pc'[t] = "opened"
      /\ \A u \in Threads \ {t} : pc'[u] = pc[u]
    BY DEF Insert, Goto, IInv, TypeOK
<1>2. ASSUME NEW k \in DOMAIN cache'
      PROVE  cache'[k] = Entry(t) \/ \E j \in DOMAIN cache : cache'[k] = cache[j]
    <2> DEFINE kept == Without(key[t].path)
               fits == FewerThan(Capacity, kept)
    <2>1. kept \in Seq(Entries)
          /\ \A m \in 1..Len(kept) : \E j \in 1..Len(cache) : kept[m] = cache[j]
        BY WithoutElements DEF IInv
    <2>2. /\ fits \in Seq(Entries)
          /\ \A m \in 1..Len(fits) : \E j \in 1..Len(kept) : fits[m] = kept[j]
        <3> HIDE DEF kept
        <3>1. kept \in Seq(Entries)
            BY <2>1
        <3> QED BY <3>1, FewerThanElements, CapacityPositive
    <2>3. cache' = Append(fits, Entry(t))
        BY DEF Insert
    <2> HIDE DEF kept, fits
    <2>4. Entry(t) \in Entries
        <3>1. /\ header[t] \in Headers /\ toc[t] = header[t].toc /\ cell[t] \in Serials
              /\ key[t] \in Keys
            BY <1>1 DEF FreshInv, FreshOK, HeldOK, Holding, IInv, TypeOK, ThreadOK, KeyOK
        <3> QED BY <3>1 DEF Entry, Entries, Headers
    <2>5. /\ DOMAIN cache' = 1..Len(fits) + 1 /\ cache'[Len(fits) + 1] = Entry(t)
          /\ \A m \in 1..Len(fits) : cache'[m] = fits[m]
        BY <2>2, <2>3, <2>4, AppendPlaces
    <2>6. Len(fits) \in Nat /\ DOMAIN cache = 1..Len(cache)
        BY <2>2 DEF IInv, TypeOK
    <2>7. k \in 1..Len(fits) \/ k = Len(fits) + 1
        BY <2>5, <2>6
    <2>8. CASE k \in 1..Len(fits)
        <3>1. PICK m \in 1..Len(kept) : fits[k] = kept[m]
            BY <2>2, <2>8
        <3>2. PICK j \in 1..Len(cache) : kept[m] = cache[j]
            BY <2>1, <3>1
        <3>3. cache'[k] = cache[j] /\ j \in DOMAIN cache
            BY <2>5, <2>6, <2>8, <3>1, <3>2
        <3> QED BY <3>3
    <2>9. CASE k = Len(fits) + 1
        BY <2>5, <2>9
    <2> QED BY <2>7, <2>8, <2>9
<1>3. Pairs' \subseteq Pairs
    <2>1. ASSUME NEW u \in Threads, pc'[u] \in Holding PROVE <<cell'[u], header'[u]>> \in Pairs
        BY <1>1, <2>1 DEF Pairs, Holding
    <2>2. ASSUME NEW k \in DOMAIN cache' PROVE <<cache'[k].cell, cache'[k].header>> \in Pairs
        <3>1. CASE cache'[k] = Entry(t)
            <4>1. cache'[k].cell = cell[t] /\ cache'[k].header = header[t]
                BY <3>1 DEF Entry
            <4> QED BY <1>1, <4>1 DEF Pairs, Holding
        <3>2. CASE \E j \in DOMAIN cache : cache'[k] = cache[j]
            BY <3>2 DEF Pairs
        <3> QED BY <1>2, <3>1, <3>2
    <2> QED BY <2>1, <2>2 DEF Pairs
<1>4. \A p \in Paths : cas_file[p] <= cas_file'[p]
    BY <1>1, MaxUpdatesIsNat DEF files, IInv, TypeOK, Versions
<1>5. \A u \in Threads :
        \/ pc'[u] = "idle"
        \/ /\ pc[u] # "idle" /\ request'[u] = request[u]
           /\ pc'[u] \in Before => pc[u] \in Before
    BY <1>1 DEF Before
<1>6. SerialsOK' /\ Owners'
    BY <1>1, <1>3, <1>4, <1>5, PairsShrink DEF FreshInv, IInv
<1>7. FreshOK(t)'
    BY <1>1 DEF files, FreshInv, FreshOK, StartOK, HeldOK, HandleOK, ObjectsOK, Path, Config, Holding
<1>8. ASSUME NEW u \in Threads, u # t PROVE FreshOK(u)'
    BY <1>1, <1>8, OtherFresh DEF FreshInv, files
<1>9. start' \in [Threads -> Versions \X Versions]
    BY <1>1 DEF FreshInv
<1> QED BY <1>6, <1>7, <1>8, <1>9 DEF FreshInv

\* Every step keeps the invariant.
LEMMA NextFresh == IInv /\ IInv' /\ FreshInv /\ [Next]_vars => FreshInv'
<1> SUFFICES ASSUME IInv, IInv', FreshInv, [Next]_vars PROVE FreshInv'
    OBVIOUS
<1>1. ASSUME NEW p \in Paths, UpdateToc(p) \/ UpdateCas(p) PROVE FreshInv'
    BY <1>1, UpdateFresh
<1>2. ASSUME NEW t \in Threads, Opening(t) PROVE FreshInv'
    BY <1>2, OpenFresh, StampFresh, HitFresh, ParseFresh, ReadHeaderFresh, DropFresh,
       RecheckFresh, InsertFresh DEF Opening
<1>3. ASSUME NEW t \in Threads, Using(t) PROVE FreshInv'
    BY <1>3, ObjectsThereFresh, ReadObjectsFresh, SetObjectsFresh, DropFresh DEF Using
<1>4. CASE UNCHANGED vars
    <2>1. UNCHANGED <<files, cache, cells, opens, pc, request, start, key, toc, header, cell,
                      handle, objects>>
        BY <1>4 DEF vars, shared, locals
    <2>2. \A u \in Threads : FreshOK(u)'
        BY <2>1, OtherFresh DEF FreshInv, files
    <2>3. Pairs' \subseteq Pairs
        BY <2>1 DEF Pairs
    <2>4. \A p \in Paths : cas_file[p] <= cas_file'[p]
        BY <2>1, MaxUpdatesIsNat DEF files, IInv, TypeOK, Versions
    <2>5. SerialsOK' /\ Owners'
        BY <2>1, <2>3, <2>4, PairsShrink DEF FreshInv, IInv
    <2> QED BY <2>1, <2>2, <2>5 DEF FreshInv
<1> QED BY <1>1, <1>2, <1>3, <1>4 DEF Next, Exhausted

-----------------------------------------------------------------------------
(* The theorem                                                             *)

\* IoStoreContainer::open and load_script_objects: if the files are those they were
\* when the open started, the container's table, header and script objects are what
\* the files say, out of the cache or not.
THEOREM OpensAreFresh == Spec => []OpenIsFresh
<1>1. IInv /\ FreshInv => OpenIsFresh
    <2> SUFFICES ASSUME IInv, FreshInv, NEW t \in Threads,
                        pc[t] \in {"opened", "setting", "loaded"}, start[t] = Stamp(Path(t))
                 PROVE  LET now == ReadThrough(Path(t), Config(t), start[t])
                        IN  /\ toc[t] = now.toc
                            /\ header[t] = now
                            /\ pc[t] # "opened" => objects[t] = now
        BY DEF OpenIsFresh
    <2>1. /\ start[t][1] = toc_file[Path(t)] /\ start[t][2] = cas_file[Path(t)]
          /\ start[t] = <<start[t][1], start[t][2]>>
        BY DEF Stamp
    <2>2. /\ header[t] \in Headers /\ toc[t] = header[t].toc /\ toc[t] \in Tocs
          /\ toc[t].path = Path(t) /\ toc[t].config = Config(t)
          /\ start[t][1] <= toc[t].first /\ toc[t].first <= toc[t].last
          /\ toc[t].last <= start[t][1]
          /\ start[t][2] <= header[t].cas /\ header[t].cas <= start[t][2]
        BY <2>1 DEF FreshInv, FreshOK, HeldOK, Holding, Headers
    <2>3. /\ toc[t].first \in Int /\ toc[t].last \in Int /\ header[t].cas \in Int
          /\ start[t][1] \in Int /\ start[t][2] \in Int
        BY <2>2, MaxUpdatesIsNat DEF FreshInv, Headers, Tocs, Versions
    <2>4. toc[t].first = start[t][1] /\ toc[t].last = start[t][1] /\ header[t].cas = start[t][2]
        BY <2>2, <2>3
    <2>5. toc[t] = Parse(Path(t), Config(t), start[t][1])
        BY <2>2, <2>4 DEF Tocs, Parse
    <2>6. header[t] = [toc |-> toc[t], cas |-> start[t][2]]
        BY <2>2, <2>4 DEF Headers
    <2>7. ASSUME pc[t] # "opened" PROVE objects[t] = header[t]
        <3>1. /\ objects[t] \in Headers /\ objects[t].toc = toc[t]
              /\ header[t].cas <= objects[t].cas /\ objects[t].cas <= start[t][2]
            BY <2>1, <2>7 DEF FreshInv, FreshOK, ObjectsOK
        <3>2. objects[t].cas \in Int
            BY <3>1, MaxUpdatesIsNat DEF Headers, Versions
        <3>3. objects[t].cas = start[t][2]
            BY <2>3, <2>4, <3>1, <3>2
        <3> QED BY <2>6, <3>1, <3>3 DEF Headers
    <2> QED BY <2>5, <2>6, <2>7 DEF ReadThrough
<1> QED BY <1>1, InitFresh, NextFresh, CacheInvariant, PTL DEF Spec
=============================================================================
