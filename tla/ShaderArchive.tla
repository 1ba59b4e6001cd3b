---------------------------- MODULE ShaderArchive ----------------------------
(***************************************************************************)
(* A shader library on its way into a container and out of it.  Shaders    *)
(* used by the same maps are put together in groups, each a chunk; a group *)
(* that is too large is divided.  The list of indices, which says what     *)
(* shaders a map has, also says what shaders a group has.  A reader finds  *)
(* the code of a shader between two offsets in its group.                  *)
(*                                                                         *)
(* Code is a sequence of bytes <<shader, place>>.  Data compresses to one  *)
(* byte less, to as much or to more; only smaller data is kept, and        *)
(* unequal sizes are how a reader knows.                                   *)
(***************************************************************************)
EXTENDS Integers, FiniteSets, SequencesExt, TLC

CONSTANTS Libraries,            \* libraries written
          MaxGroupSize          \* bytes in a group

ASSUME MaxGroupSize \in Nat \ {0}

VARIABLES library,   \* the library written
          indices,   \* its list of indices, grown by that of the groups
          groups,    \* the groups written: where their shaders are listed, how many, sizes
          entries,   \* <<group, offset>> of each shader
          chunks,    \* the data of the groups in the container
          method,    \* the writer knows how the code is compressed
          read,      \* the code the reader has
          pc

vars == <<library, indices, groups, entries, chunks, method, read, pc>>

Shaders == DOMAIN library.shaders
Size(k) == library.shaders[k].size
RECURSIVE SizeOf(_)
SizeOf(group) == IF group = <<>> THEN 0 ELSE Size(Head(group)) + SizeOf(Tail(group))
Code(k) == [i \in 1 .. Size(k) |-> <<k, i>>]

------------------------------------------------------------------------------
\* build_io_store_shader_code_archive_header: the groups.

\* The maps a shader belongs to, in order, one as often as it lists the shader.
MapsOf(k) ==
    LET times(m) == Cardinality({i \in 1 .. library.maps[m].num :
                                    library.indices[library.maps[m].first + i] = k})
    IN  FlattenSeq([m \in DOMAIN library.maps |-> [i \in 1 .. times(m) |-> m]])

RECURSIVE Less(_, _)
\* The order of sequences, first by their first element.
Less(s, t) ==
    IF s = <<>> THEN t # <<>>
    ELSE t # <<>> /\ (Head(s) < Head(t) \/ (Head(s) = Head(t) /\ Less(Tail(s), Tail(t))))

SameMaps ==
    LET before(s, t) == Len(s) < Len(t) \/ (Len(s) = Len(t) /\ Less(s, t))
        sets == SortSeq(SetToSeq({MapsOf(k) : k \in Shaders}), before)
    IN  [i \in DOMAIN sets |-> SelectSeq([k \in Shaders |-> k], LAMBDA k : MapsOf(k) = sets[i])]

\* Shaders for ray tracing are kept apart in the format that asks for it.
SplitRayTracing(group) ==
    LET ray == SelectSeq(group, LAMBDA k : library.shaders[k].ray)
        other == SelectSeq(group, LAMBDA k : ~library.shaders[k].ray)
    IN  IF library.separate /\ ray # <<>> /\ other # <<>> THEN <<other, ray>> ELSE <<group>>

Key(k) == LET s == library.shaders[k]
          IN  <<s.size, s.stored, IF s.ray THEN 1 ELSE 0, s.offset>>
Ascends(j, k) == Less(Key(j), Key(k))

\* The largest shaders first, each goes to the group that is smallest so far.
SplitBySize(group) ==
    LET n == IF SizeOf(group) \div MaxGroupSize + 1 < Len(group)
             THEN SizeOf(group) \div MaxGroupSize + 1 ELSE Len(group)
        sorted == SortSeq(group, LAMBDA j, k : Ascends(k, j))
        smallest(parts) == CHOOSE p \in 1 .. n :
            /\ \A q \in 1 .. n : SizeOf(parts[p]) <= SizeOf(parts[q])
            /\ \A q \in 1 .. p - 1 : SizeOf(parts[p]) < SizeOf(parts[q])
        parts[i \in 0 .. Len(group)] ==
            IF i = 0 THEN [p \in 1 .. n |-> <<>>]
            ELSE LET before == parts[i - 1]
                 IN  [p \in 1 .. n |-> IF p = smallest(before) THEN Append(before[p], sorted[i])
                                        ELSE before[p]]
    IN  IF SizeOf(group) <= MaxGroupSize \/ Len(group) = 1 THEN <<group>> ELSE parts[Len(group)]

Groups ==
    LET apart == FlattenSeq([i \in DOMAIN SameMaps |-> SplitRayTracing(SameMaps[i])])
        small == FlattenSeq([i \in DOMAIN apart |-> SplitBySize(apart[i])])
    IN  [i \in DOMAIN small |-> SortSeq(small[i], Ascends)]

\* A variant of PlaceIn that looks at the first shader of the group only.
PlaceInByFirst(list, group) == SelectInSeq(list, LAMBDA k : k = group[1])

\* find_or_add_sequence_in_shader_indices: where the list has the group; 0 if it
\* does not.
PlaceIn(list, group) ==
    LET places == {i \in 1 .. Len(list) - Len(group) + 1 :
                      SubSeq(list, i, i + Len(group) - 1) = group}
    IN  IF places = {} THEN 0 ELSE CHOOSE i \in places : \A j \in places : i <= j

FindOrAdd(list, group) == IF PlaceIn(list, group) = 0 THEN list \o group ELSE list

\* The number of places to look at is computed without a sign: a group that is
\* longer than the list stops the program, and so, where overflows are checked,
\* does the least that is longer.
Overflows(list, group, checked) ==
    Len(group) > Len(list) + 1 \/ (checked /\ Len(group) = Len(list) + 1)

AddGroup(acc, group) ==
    LET list == FindOrAdd(acc.indices, group)
    IN  [indices |-> list,
         groups |-> Append(acc.groups, [first |-> PlaceIn(list, group) - 1, num |-> Len(group),
                                        size |-> SizeOf(group), stored |-> 0]),
         entries |-> [k \in Shaders |->
             IF k \in ToSet(group)
             THEN <<Len(acc.groups) + 1,
                    SizeOf(SubSeq(group, 1, SelectInSeq(group, LAMBDA j : j = k) - 1))>>
             ELSE acc.entries[k]]]

BuildHeader ==
    /\ pc = "header"
    /\ LET header[n \in 0 .. Len(Groups)] ==
               IF n = 0 THEN [indices |-> library.indices, groups |-> <<>>,
                              entries |-> [k \in Shaders |-> <<1, 0>>]]
               ELSE AddGroup(header[n - 1], Groups[n])
           built == header[Len(Groups)]
       IN  \E checked \in BOOLEAN :
              IF \E n \in DOMAIN Groups : Overflows(header[n - 1].indices, Groups[n], checked)
              THEN pc' = "panicked" /\ UNCHANGED <<indices, groups, entries>>
              ELSE /\ indices' = built.indices /\ groups' = built.groups
                   /\ entries' = built.entries /\ pc' = "write"
    /\ UNCHANGED <<library, chunks, method, read>>

------------------------------------------------------------------------------
\* write_io_store_library: one group.

Listed(g) == SubSeq(indices, groups[g].first + 1, groups[g].first + groups[g].num)

\* Compressed data is kept if it saves something.
Smaller(data, size) == size < Len(data)

WriteGroup ==
    /\ pc = "write" /\ Len(chunks) < Len(groups)
    /\ LET g == Len(chunks) + 1
           list == Listed(g)
           data == FlattenSeq([i \in DOMAIN list |-> Code(list[i])])
           known == method \/ \E i \in DOMAIN list :
                        library.shaders[list[i]].stored # Size(list[i])
           placed == /\ \A i \in DOMAIN list : entries[list[i]][2] = SizeOf(SubSeq(list, 1, i - 1))
                     /\ Len(data) = groups[g].size
       IN  IF ~placed
           THEN pc' = "failed" /\ UNCHANGED <<groups, chunks, method>>
           ELSE \E saved \in -1 .. 1 :
                   LET compressed == known /\ Smaller(data, Len(data) - saved)
                   IN  /\ chunks' = Append(chunks, IF compressed THEN <<"compressed", data>>
                                                   ELSE <<"plain", data>>)
                       /\ groups' = [groups EXCEPT ![g].stored =
                                        IF compressed THEN Len(data) - saved ELSE Len(data)]
                       /\ method' = known
                       /\ UNCHANGED pc
    /\ UNCHANGED <<library, indices, entries, read>>

WriteHeader ==
    /\ pc = "write" /\ Len(chunks) = Len(groups)
    /\ pc' = "read"
    /\ UNCHANGED <<library, indices, groups, entries, chunks, method, read>>

------------------------------------------------------------------------------
\* IoStoreShaderCodeArchive::read.  The maps, their indices and the frequencies
\* of the shaders are read as they were written.

\* Data of the full size is taken as it is, be it compressed or not.
Decompressed(g) ==
    IF groups[g].stored # groups[g].size \/ chunks[g][1] = "plain" THEN chunks[g][2]
    ELSE [i \in 1 .. groups[g].size |-> <<0, i>>]

\* A shader ends where the next one in the group starts, the last with the group.
EndOf(g, k) ==
    LET later == {entries[j][2] : j \in ToSet(Listed(g))} \cap {n \in 0 .. groups[g].size : n > entries[k][2]}
    IN  IF later = {} THEN groups[g].size ELSE CHOOSE n \in later : \A m \in later : n <= m

ReadArchive ==
    /\ pc = "read"
    /\ LET sound == /\ \A g \in DOMAIN groups : /\ Len(Decompressed(g)) = groups[g].size
                                                /\ \A k \in ToSet(Listed(g)) : entries[k][1] = g
                    /\ \A k \in Shaders : \E g \in DOMAIN groups : k \in ToSet(Listed(g))
       IN  IF ~sound THEN pc' = "failed" /\ UNCHANGED read
           ELSE /\ read' = [k \in Shaders |-> SubSeq(Decompressed(entries[k][1]), entries[k][2] + 1,
                                                     EndOf(entries[k][1], k))]
                /\ pc' = "done"
    /\ UNCHANGED <<library, indices, groups, entries, chunks, method>>

Done == pc \in {"done", "failed", "panicked"} /\ UNCHANGED vars

Init ==
    /\ library \in Libraries
    /\ indices = library.indices /\ groups = <<>> /\ entries = <<>> /\ chunks = <<>>
    /\ method = FALSE /\ read = <<>> /\ pc = "header"

Next == BuildHeader \/ WriteGroup \/ WriteHeader \/ ReadArchive \/ Done

Spec == Init /\ [][Next]_vars

------------------------------------------------------------------------------
\* Groups lie within the list of indices and shaders within their groups.
GroupsLieWithin ==
    /\ pc \in {"header", "write", "read", "done", "failed", "panicked"}
    /\ \A g \in DOMAIN groups : groups[g].num \in 1 .. Len(indices) - groups[g].first
    /\ \A k \in DOMAIN entries : /\ entries[k][1] \in DOMAIN groups
                                 /\ entries[k][2] \in 0 .. groups[entries[k][1]].size - Size(k)

\* Every shader is in one group, with shaders only that are used by the same maps
\* as often: loading a map does not load the code of others.
GroupsFollowMaps ==
    groups # <<>> =>
        /\ \A k \in Shaders : Cardinality({g \in DOMAIN groups : k \in ToSet(Listed(g))}) = 1
        /\ \A g \in DOMAIN groups : \A j, k \in ToSet(Listed(g)) :
              \A m \in DOMAIN library.maps :
                  LET uses(x) == {i \in 1 .. library.maps[m].num :
                                     library.indices[library.maps[m].first + i] = x}
                  IN  Cardinality(uses(j)) = Cardinality(uses(k))

\* The list of indices means for the maps what it did, and for each group the
\* shaders whose entries point to it, though both use the same list.
IndicesServeBoth ==
    groups # <<>> =>
        /\ \A m \in DOMAIN library.maps, i \in 1 .. Len(library.indices) :
              indices[i] = library.indices[i]
        /\ \A g \in DOMAIN groups : /\ IsInjective(Listed(g))
                                    /\ ToSet(Listed(g)) = {k \in Shaders : entries[k][1] = g}

\* No check of the writer or the reader refuses what the writer itself laid out.
NeverRefused == pc # "failed"

\* The code of each shader is read back, whichever groups were compressed.
CodeSurvives == pc = "done" => read = [k \in Shaders |-> Code(k)]

=============================================================================
