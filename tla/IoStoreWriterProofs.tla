------------------------- MODULE IoStoreWriterProofs -------------------------
(***************************************************************************)
(* What the container writer stores, Toc::read gives back: for any chunks, *)
(* written in any order, compressed and enciphered or not, of any block    *)
(* sizes.                                                                  *)
(*                                                                         *)
(* The invariant says where everything is: the blocks follow one another,  *)
(* the blocks of every chunk lie where the tables say, and each map leads  *)
(* to the last write of its key.                                           *)
(***************************************************************************)
EXTENDS IoStoreWriter, CasCodecProofs

(* The invariant                                                           *)

\* Block b of the table is this block, in the .ucas before the given end.
LaidOut(T, s, key, b, block, method, end) ==
    LET stored == StoredBlock(block, method, key)
    IN  \E o \in 0..Len(s) :
            /\ T[b] = BlockEntry(o, stored)
            /\ o + Len(stored.bytes) <= end
            /\ Holds(s, o, stored.bytes)

Strides(T, key) == [k \in DOMAIN T |-> Stride(T[k].csize, key)]

\* The blocks of the table follow one another, from the first byte to the last.
Tiled(T, s, key) ==
    /\ IsSeq(s) /\ IsSeq(T) /\ Strides(T, key) \in Seq(Nat)
    /\ \A k \in 1..Len(T) : T[k].offset = Offsets(0, Strides(T, key))[k] % OffsetLimit
    /\ Offsets(0, Strides(T, key))[Len(T) + 1] = Len(s)

\* What was written is there, under one of the two methods.
ChunkOK(w, c, T, s) ==
    /\ IsSeq(w.data) /\ w.start \in Nat /\ w.end \in 0..Len(s)
    /\ w.start + Len(Blocks(w.data)) <= Len(T)
    /\ \E method \in {NoMethod, c.compression} :
            \A k \in 1..Len(Blocks(w.data)) :
                /\ Storable(Blocks(w.data)[k], method)
                /\ LaidOut(T, s, c.key, w.start + k, Blocks(w.data)[k], method, w.end)

CasOK == Tiled(compression_blocks, cas, config.key) /\ cas_offset = Len(cas)

\* Row i of every table is of the i-th write.
RowsOK ==
    /\ IsSeq(written) /\ IsSeq(chunks) /\ IsSeq(chunk_offset_lengths) /\ IsSeq(chunk_metas)
    /\ Len(chunks) = Len(written) /\ Len(chunk_offset_lengths) = Len(written)
    /\ Len(chunk_metas) = Len(written)
    /\ \A i \in 1..Len(written) :
            /\ chunks[i] = written[i].id /\ chunk_metas[i] = written[i].data
            /\ chunk_offset_lengths[i] =
                    OffsetAndLength(written[i].start * BlockSize, Len(written[i].data))
            /\ ChunkOK(written[i], config, compression_blocks, cas)

\* f has x when some write of S did, and leads to the last of them.
LeadsToLast(f, x, S) ==
    /\ x \in DOMAIN f <=> S # {}
    /\ S # {} => f[x] \in S /\ \A i \in S : i <= f[x]

\* The writes under a path, and those of an id.
WithPath(p) == {i \in DOMAIN written : written[i].path = p}
WithId(id) == {i \in DOMAIN written : written[i].id = id}

\* Each map leads to the last write of its key.
PathsOK == \A p \in Paths : LeadsToLast(directory_index, p, WithPath(p))

PackagesOK ==
    config.header => \A id \in PackageIds :
        /\ LeadsToLast(packages, id, WithId(id))
        /\ id \in DOMAIN packages => written[packages[id]].entry = packages[id]

\* finalize() wrote the tables and the bytes as they are.
OnDisk ==
    /\ utoc = [chunks |-> chunks, chunk_offset_lengths |-> chunk_offset_lengths,
               compression_blocks |-> compression_blocks, metas |-> chunk_metas,
               files |-> directory_index, key |-> config.key,
               methods |-> IF config.compression = NoMethod THEN <<>>
                           ELSE <<config.compression>>]
    /\ ucas = cas
    /\ config.header => /\ Len(written) > 0
                        /\ written[Len(written)].id = HeaderId
                        /\ written[Len(written)].data = HeaderChunk

WriterInv ==
    /\ TypeOK
    /\ status # "failed" => CasOK /\ RowsOK /\ PathsOK /\ PackagesOK
    /\ status = "finalized" => OnDisk

\* What is there stays there when both files grow.
LEMMA StaysLaidOut ==
    ASSUME NEW T, IsSeq(T), NEW s, IsSeq(s), NEW T2, NEW s2, IsSeq(s2), Len(s) <= Len(s2),
           \A b \in 1..Len(T) : T2[b] = T[b],
           \A i \in 1..Len(s) : s2[i] = s[i],
           NEW key, NEW b \in 1..Len(T), NEW block, NEW method, NEW end,
           IsSeq(StoredBlock(block, method, key).bytes),
           LaidOut(T, s, key, b, block, method, end)
    PROVE  LaidOut(T2, s2, key, b, block, method, end)
<1> DEFINE stored == StoredBlock(block, method, key)
           t == stored.bytes
<1>1. PICK o \in 0..Len(s) : /\ T[b] = BlockEntry(o, stored)
                             /\ o + Len(t) <= end /\ Holds(s, o, t)
    BY DEF LaidOut
<1>2. Len(s) \in Nat /\ Len(s2) \in Nat /\ Len(t) \in Nat
    BY SeqHas
<1>3. o + Len(t) <= Len(s) /\ \A i \in 1..Len(t) : s[o + i] = t[i]
    BY <1>1 DEF Holds
<1> HIDE DEF t, stored
<1>4. Holds(s2, o, t)
    <2>1. o + Len(t) <= Len(s2)
        BY <1>2, <1>3
    <2>2. ASSUME NEW i \in 1..Len(t) PROVE s2[o + i] = t[i]
        <3>1. o + i \in 1..Len(s)
            BY <1>2, <1>3
        <3>2. s2[o + i] = s[o + i]
            BY <3>1
        <3> QED BY <1>3, <3>2
    <2> QED BY <2>1, <2>2 DEF Holds
<1>5. o \in 0..Len(s2) /\ T2[b] = BlockEntry(o, stored)
    BY <1>1, <1>2
<1> QED BY <1>1, <1>4, <1>5 DEF LaidOut, stored, t

\* The entries of the stored parts, at these offsets.
EntriesOf(more, at, parts, key) ==
    /\ IsSeq(more) /\ Len(more) = Len(parts)
    /\ \A k \in 1..Len(parts) : /\ more[k].offset = at[k] % OffsetLimit
                                /\ Stride(more[k].csize, key) = Len(parts[k])

\* The offsets of the blocks that were there go on with those of the new ones.
LEMMA TilesOn ==
    ASSUME NEW T, NEW s, NEW key, Tiled(T, s, key),
           NEW parts, Parts(parts), NEW at, IsOffsets(at, Len(s), Sizes(parts)),
           NEW more, EntriesOf(more, at, parts, key)
    PROVE  Tiled(T \o more, s \o FlattenSeq(parts), key)
<1>0. IsSeq(s) /\ IsSeq(T) /\ IsSeq(more) /\ Len(more) = Len(parts)
    BY DEF Tiled, EntriesOf
<1>e. \A k \in 1..Len(parts) : /\ more[k].offset = at[k] % OffsetLimit
                              /\ Stride(more[k].csize, key) = Len(parts[k])
    BY DEF EntriesOf
<1>a. PICK T2 : T2 = T \o more
    OBVIOUS
<1>b. PICK s2 : s2 = s \o FlattenSeq(parts)
    OBVIOUS
<1>c. /\ IsSeq(T2) /\ Len(T2) = Len(T) + Len(more)
      /\ \A i \in 1..Len(T) : T2[i] = T[i]
      /\ \A i \in 1..Len(more) : T2[Len(T) + i] = more[i]
    <2>1. IsSeq(T \o more)
        BY <1>0, Joined
    <2>2. Len(T \o more) = Len(T) + Len(more)
        BY <1>0, Joined
    <2>3. \A i \in 1..Len(T) : (T \o more)[i] = T[i]
        BY <1>0, Joined
    <2>4. \A i \in 1..Len(more) : (T \o more)[Len(T) + i] = more[i]
        BY <1>0, Joined
    <2> QED BY <1>a, <2>1, <2>2, <2>3, <2>4
<1>d. IsSeq(s2) /\ Len(s2) = at[Len(parts) + 1]
    <2>1. FollowOn(s \o FlattenSeq(parts), s, parts, at)
        BY <1>0, Laid
    <2> QED BY <1>b, <2>1 DEF FollowOn
<1> DEFINE t == Len(T)
           n == Len(parts)
           z == Strides(T, key)
           z2 == Strides(T2, key)
           st == Offsets(0, z)
           f == [k \in 1..(t + n + 1) |-> IF k <= t THEN st[k] ELSE at[k - t]]
<1>1. IsSeq(s) /\ IsSeq(T) /\ z \in Seq(Nat)
      /\ (\A k \in 1..t : T[k].offset = st[k] % OffsetLimit)
      /\ st[t + 1] = Len(s)
    BY DEF Tiled
<1>2. t \in Nat /\ DOMAIN T = 1..t /\ Len(s) \in Nat
    BY <1>1, SeqHas
<1>3. /\ Sizes(parts) \in Seq(Nat) /\ Len(Sizes(parts)) = n /\ n \in Nat
      /\ \A k \in 1..n : Sizes(parts)[k] = Len(parts[k]) /\ Len(parts[k]) \in Nat
    BY SizesAre
<1>4. /\ IsSeq(T2) /\ Len(T2) = t + n /\ DOMAIN T2 = 1..(t + n)
      /\ \A k \in 1..t : T2[k] = T[k]
      /\ \A k \in 1..n : T2[t + k] = more[k]
    <2>1. DOMAIN T2 = 1..Len(T2)
        BY <1>c, SeqHas
    <2>2. Len(more) = n
        BY <1>0
    <2> HIDE DEF n
    <2> QED BY <1>c, <2>1, <2>2
<1>5. /\ IsSeq(s2) /\ Len(s2) = at[n + 1]
    BY <1>d
<1> HIDE DEF st, z, z2
<1>6. z = [k \in 1..t |-> Stride(T[k].csize, key)] /\ Len(z) = t
      /\ \A k \in 1..t : z[k] = Stride(T[k].csize, key) /\ z[k] \in Nat
    <2>1. z = [k \in 1..t |-> Stride(T[k].csize, key)]
        BY <1>2 DEF z, Strides
    <2>2. z = [k \in 1..t |-> z[k]]
        BY <2>1
    <2>3. Len(z) = t
        BY <1>2, <2>2, Made
    <2>4. \A k \in 1..t : z[k] \in Nat
        BY <1>1, <2>3, ElementOfSeq
    <2> QED BY <2>1, <2>3, <2>4
<1>7. z2 \in Seq(Nat) /\ Len(z2) = t + n
      /\ (\A k \in 1..t : z2[k] = z[k])
      /\ (\A k \in 1..n : z2[t + k] = Len(parts[k]))
    <2>1. z2 = [k \in 1..(t + n) |-> Stride(T2[k].csize, key)]
        BY <1>4 DEF z2, Strides
    <2>2. \A k \in 1..(t + n) : z2[k] = Stride(T2[k].csize, key)
        BY <2>1
    <2>3. ASSUME NEW k \in 1..t PROVE z2[k] = z[k]
        <3>1. k \in 1..(t + n)
            BY <1>2, <1>3
        <3> QED BY <1>4, <1>6, <2>2, <3>1
    <2>4. ASSUME NEW k \in 1..n PROVE z2[t + k] = Len(parts[k])
        <3>1. t + k \in 1..(t + n)
            BY <1>2, <1>3
        <3>2. z2[t + k] = Stride(T2[t + k].csize, key)
            BY <2>2, <3>1
        <3> QED BY <1>4, <1>e, <3>2
    <2>5. ASSUME NEW k \in 1..(t + n) PROVE z2[k] \in Nat
        <3>1. CASE k <= t
            <4>1. k \in 1..t
                BY <1>2, <3>1
            <4> QED BY <1>6, <2>3, <4>1
        <3>2. CASE ~(k <= t)
            <4>1. k - t \in 1..n /\ t + (k - t) = k
                BY <1>2, <1>3, <3>2
            <4>2. z2[t + (k - t)] = Len(parts[k - t])
                BY <2>4, <4>1
            <4> QED BY <1>3, <4>1, <4>2
        <3> QED BY <3>1, <3>2
    <2>6. z2 \in [1..(t + n) -> Nat]
        BY <2>1, <2>5
    <2>7. t + n \in Nat
        BY <1>2, <1>3
    <2>8. z2 \in Seq(Nat)
        BY <2>6, <2>7
    <2>9. Len(z2) = t + n
        <3>1. z2 = [k \in 1..(t + n) |-> z2[k]]
            BY <2>1
        <3> QED BY <2>7, <3>1, Made
    <2> QED BY <2>3, <2>4, <2>8, <2>9
<1>8. IsOffsets(st, 0, z)
    BY <1>1, OffsetsAre DEF st
<1>9. /\ \A k \in 1..(t + 1) : st[k] \in Nat
      /\ st[1] = 0
      /\ \A k \in 1..t : st[k + 1] = st[k] + z[k]
    BY <1>6, <1>8 DEF IsOffsets
<1>10. /\ \A k \in 1..(n + 1) : at[k] \in Nat
       /\ at[1] = Len(s)
       /\ \A k \in 1..n : at[k + 1] = at[k] + Len(parts[k])
    BY <1>3 DEF IsOffsets
<1>11. \A k \in 1..(t + 1) : f[k] = st[k]
    <2> TAKE k \in 1..(t + 1)
    <2>1. k \in 1..(t + n + 1)
        BY <1>2, <1>3
    <2>2. CASE k <= t
        BY <2>1, <2>2
    <2>3. CASE ~(k <= t)
        <3>1. k = t + 1 /\ k - t = 1
            BY <1>2, <2>3
        <3>2. f[k] = at[1]
            BY <2>1, <2>3, <3>1
        <3> HIDE DEF f
        <3> QED BY <1>1, <1>10, <3>1, <3>2
    <2> QED BY <2>2, <2>3
<1>12. \A k \in 1..(n + 1) : f[t + k] = at[k]
    <2> TAKE k \in 1..(n + 1)
    <2>1. t + k \in 1..(t + n + 1) /\ ~(t + k <= t) /\ t + k - t = k
        BY <1>2, <1>3
    <2> DEFINE l == t + k
    <2>2. l \in 1..(t + n + 1) /\ ~(l <= t) /\ l - t = k
        BY <2>1
    <2> HIDE DEF l
    <2>3. f[l] = at[k]
        BY <2>2
    <2> QED BY <2>3 DEF l
<1>13. IsOffsets(f, 0, z2)
    <2>1. f \in [1..(t + n + 1) -> Nat]
        <3>1. ASSUME NEW k \in 1..(t + n + 1) PROVE f[k] \in Nat
            <4>1. CASE k <= t
                <5>1. k \in 1..(t + 1)
                    BY <1>2, <4>1
                <5> HIDE DEF f
                <5> QED BY <1>9, <1>11, <5>1
            <4>2. CASE ~(k <= t)
                <5>1. k - t \in 1..(n + 1) /\ t + (k - t) = k
                    BY <1>2, <1>3, <4>2
                <5>2. f[t + (k - t)] = at[k - t]
                    <6> HIDE DEF f
                    <6> QED BY <1>12, <5>1
                <5> HIDE DEF f
                <5> QED BY <1>10, <5>1, <5>2
            <4> QED BY <4>1, <4>2
        <3>2. f = [k \in 1..(t + n + 1) |-> f[k]]
            OBVIOUS
        <3> HIDE DEF f
        <3> QED BY <3>1, <3>2
    <2> HIDE DEF f
    <2>2. f[1] = 0
        <3>1. 1 \in 1..(t + 1)
            BY <1>2
        <3> QED BY <1>9, <1>11, <3>1
    <2>3. ASSUME NEW k \in 1..(t + n) PROVE f[k + 1] = f[k] + z2[k]
        <3>1. CASE k <= t
            <4>1. k \in 1..t /\ k \in 1..(t + 1) /\ k + 1 \in 1..(t + 1)
                BY <1>2, <3>1
            <4> QED BY <1>7, <1>9, <1>11, <4>1
        <3>2. CASE ~(k <= t)
            <4> DEFINE j == k - t
            <4>1. j \in 1..n /\ j \in 1..(n + 1) /\ j + 1 \in 1..(n + 1)
                  /\ t + j = k /\ t + (j + 1) = k + 1
                BY <1>2, <1>3, <3>2
            <4> HIDE DEF j
            <4>2. f[t + j] = at[j] /\ f[t + (j + 1)] = at[j + 1] /\ z2[t + j] = Len(parts[j])
                BY <1>7, <1>12, <4>1
            <4> QED BY <1>10, <4>1, <4>2
        <3> QED BY <3>1, <3>2
    <2> QED BY <1>7, <2>1, <2>2, <2>3 DEF IsOffsets
<1>14. f = Offsets(0, z2)
    <2> HIDE DEF f
    <2> QED BY <1>7, <1>13, OffsetsOnly
<1> HIDE DEF f
<1>15. \A k \in 1..(t + n) : T2[k].offset = f[k] % OffsetLimit
    <2> TAKE k \in 1..(t + n)
    <2>1. CASE k <= t
        <3>1. k \in 1..t /\ k \in 1..(t + 1)
            BY <1>2, <2>1
        <3> QED BY <1>1, <1>4, <1>11, <3>1
    <2>2. CASE ~(k <= t)
        <3> DEFINE j == k - t
        <3>1. j \in 1..n /\ j \in 1..(n + 1) /\ t + j = k
            BY <1>2, <1>3, <2>2
        <3> HIDE DEF j
        <3>2. T2[t + j] = more[j] /\ f[t + j] = at[j] /\ more[j].offset = at[j] % OffsetLimit
            BY <1>4, <1>12, <1>e, <3>1
        <3> QED BY <3>1, <3>2
    <2> QED BY <2>1, <2>2
<1>16. f[t + n + 1] = Len(s2)
    <2>1. n + 1 \in 1..(n + 1) /\ t + (n + 1) = t + n + 1
        BY <1>2, <1>3
    <2>2. f[t + (n + 1)] = at[n + 1]
        BY <1>12, <2>1
    <2> QED BY <1>5, <2>1, <2>2
<1>17. Tiled(T2, s2, key)
    BY <1>4, <1>5, <1>7, <1>14, <1>15, <1>16 DEF Tiled, z2
<1> QED BY <1>17, <1>a, <1>b

\* These blocks come behind what is there.
Extended(T, s, T2, s2, key, blocks, method, end) ==
    /\ Tiled(T2, s2, key)
    /\ IsSeq(s2) /\ Len(s) <= Len(s2) /\ Len(T2) = Len(T) + Len(blocks) /\ end = Len(s2)
    /\ \A b \in 1..Len(T) : T2[b] = T[b]
    /\ \A i \in 1..Len(s) : s2[i] = s[i]
    /\ \A k \in 1..Len(blocks) :
            LaidOut(T2, s2, key, Len(T) + k, blocks[k], method, end)

\* The fields of an entry.
LEMMA EntryIs ==
    ASSUME NEW o, NEW stored
    PROVE  /\ BlockEntry(o, stored).offset = o % OffsetLimit
           /\ BlockEntry(o, stored).csize = stored.csize
           /\ BlockEntry(o, stored).usize = stored.usize
           /\ BlockEntry(o, stored).method = stored.method
BY DEF BlockEntry

\* Blocks that are stored and appended come behind what is there.
LEMMA Extends ==
    ASSUME NEW T, NEW s, NEW key, Tiled(T, s, key),
           NEW blocks, IsSeq(blocks), NEW method,
           \A k \in 1..Len(blocks) : Storable(blocks[k], method),
           NEW stored, stored = [k \in DOMAIN blocks |-> StoredBlock(blocks[k], method, key)],
           NEW parts, parts = [k \in DOMAIN stored |-> stored[k].bytes],
           NEW at, at = Offsets(Len(s), [k \in DOMAIN stored |-> Len(stored[k].bytes)]),
           NEW more, more = [k \in DOMAIN stored |-> BlockEntry(at[k], stored[k])]
    PROVE  Extended(T, s, T \o more, s \o FlattenSeq(parts), key, blocks, method,
                    at[Len(stored) + 1])
<1>1. PICK n \in Nat : n = Len(blocks) /\ DOMAIN blocks = 1..n
    BY SeqHas
<1>2. /\ stored = [k \in 1..n |-> StoredBlock(blocks[k], method, key)]
      /\ DOMAIN stored = 1..n /\ IsSeq(stored) /\ Len(stored) = n
      /\ \A k \in 1..n : stored[k] = StoredBlock(blocks[k], method, key)
    <2>1. stored = [k \in 1..n |-> StoredBlock(blocks[k], method, key)]
        BY <1>1
    <2>2. stored = [k \in 1..n |-> stored[k]]
        BY <2>1
    <2>3. IsSeq(stored) /\ Len(stored) = n
        BY <2>2, Made
    <2> QED BY <2>1, <2>3
<1>3. \A k \in 1..n : /\ parts[k] = stored[k].bytes
                      /\ IsSeq(stored[k].bytes)
                      /\ Len(stored[k].bytes) = Stride(stored[k].csize, key)
    <2> TAKE k \in 1..n
    <2>1. parts[k] = stored[k].bytes
        BY <1>2
    <2>2. stored[k] = StoredBlock(blocks[k], method, key) /\ Storable(blocks[k], method)
        BY <1>1, <1>2
    <2>3. /\ IsSeq(StoredBlock(blocks[k], method, key).bytes)
          /\ Len(StoredBlock(blocks[k], method, key).bytes)
                = Stride(StoredBlock(blocks[k], method, key).csize, key)
        BY <2>2, StoredIs
    <2> QED BY <2>1, <2>2, <2>3
<1>4. IsSeq(parts) /\ Len(parts) = n /\ Parts(parts)
    <2>1. parts = [k \in 1..n |-> parts[k]]
        BY <1>2
    <2>2. IsSeq(parts) /\ Len(parts) = n
        BY <2>1, Made
    <2> QED BY <1>3, <2>2 DEF Parts
<1>5. Sizes(parts) = [k \in DOMAIN stored |-> Len(stored[k].bytes)]
    BY <1>2, <1>3 DEF Sizes
<1>6. IsSeq(s) /\ IsSeq(T)
    BY DEF Tiled
<1>7. Len(s) \in Nat /\ Len(T) \in Nat
    BY <1>6, SeqHas
<1>8. IsOffsets(at, Len(s), Sizes(parts))
    <2>1. Sizes(parts) \in Seq(Nat)
        BY <1>4, SizesAre
    <2>2. at = Offsets(Len(s), Sizes(parts))
        BY <1>5
    <2> QED BY <1>7, <2>1, <2>2, OffsetsAre
<1>9. IsSeq(more) /\ Len(more) = n /\ \A k \in 1..n : more[k] = BlockEntry(at[k], stored[k])
    <2>1. more = [k \in 1..n |-> more[k]]
        BY <1>2
    <2>2. \A k \in 1..n : more[k] = BlockEntry(at[k], stored[k])
        BY <1>2
    <2> QED BY <2>1, <2>2, Made
<1>10. EntriesOf(more, at, parts, key)
    <2>1. ASSUME NEW k \in 1..n
          PROVE  /\ more[k].offset = at[k] % OffsetLimit
                 /\ Stride(more[k].csize, key) = Len(parts[k])
        <3>1. more[k] = BlockEntry(at[k], stored[k])
            BY <1>9
        <3>2. more[k].offset = at[k] % OffsetLimit
            BY <3>1, EntryIs
        <3>3. more[k].csize = stored[k].csize
            BY <3>1, EntryIs
        <3> QED BY <1>3, <3>2, <3>3
    <2> QED BY <1>4, <1>9, <2>1 DEF EntriesOf
<1>11. PICK T2 : T2 = T \o more
    OBVIOUS
<1>12. PICK s2 : s2 = s \o FlattenSeq(parts)
    OBVIOUS
<1>13. Tiled(T2, s2, key)
    <2>1. Tiled(T \o more, s \o FlattenSeq(parts), key)
        BY <1>4, <1>8, <1>10, TilesOn
    <2> QED BY <1>11, <1>12, <2>1
<1>14. FollowOn(s2, s, parts, at)
    <2>1. FollowOn(s \o FlattenSeq(parts), s, parts, at)
        BY <1>4, <1>6, <1>8, Laid
    <2> QED BY <1>12, <2>1
<1>15. /\ IsSeq(s2) /\ Len(s2) = at[n + 1] /\ Len(s) <= Len(s2)
       /\ \A i \in 1..Len(s) : s2[i] = s[i]
       /\ \A k \in 1..n : at[k] \in Nat /\ Holds(s2, at[k], parts[k])
    BY <1>4, <1>14 DEF FollowOn
<1>16. /\ Len(T2) = Len(T) + n
       /\ \A b \in 1..Len(T) : T2[b] = T[b]
       /\ \A k \in 1..n : T2[Len(T) + k] = more[k]
    <2>1. Len(T \o more) = Len(T) + Len(more)
        BY <1>6, <1>9, Joined
    <2>2. \A i \in 1..Len(T) : (T \o more)[i] = T[i]
        BY <1>6, <1>9, Joined
    <2>3. \A i \in 1..Len(more) : (T \o more)[Len(T) + i] = more[i]
        BY <1>6, <1>9, Joined
    <2> QED BY <1>9, <1>11, <2>1, <2>2, <2>3
<1>17. \A k \in 1..n : LaidOut(T2, s2, key, Len(T) + k, blocks[k], method, Len(s2))
    <2> TAKE k \in 1..n
    <2>1. PICK o : o = at[k]
        OBVIOUS
    <2>2. PICK t : t = StoredBlock(blocks[k], method, key)
        OBVIOUS
    <2>3. o \in Nat /\ Holds(s2, o, t.bytes) /\ IsSeq(t.bytes)
        BY <1>2, <1>3, <1>15, <2>1, <2>2
    <2>4. Len(t.bytes) \in Nat /\ Len(s2) \in Nat
        BY <1>15, <2>3, SeqHas
    <2>5. o + Len(t.bytes) <= Len(s2)
        BY <2>3 DEF Holds
    <2>6. o \in 0..Len(s2)
        BY <2>3, <2>4, <2>5
    <2>7. T2[Len(T) + k] = BlockEntry(o, t)
        BY <1>2, <1>9, <1>16, <2>1, <2>2
    <2> QED BY <2>2, <2>3, <2>5, <2>6, <2>7 DEF LaidOut
<1>18. Extended(T, s, T2, s2, key, blocks, method, at[Len(stored) + 1])
    BY <1>1, <1>2, <1>13, <1>15, <1>16, <1>17 DEF Extended
<1> QED BY <1>11, <1>12, <1>18

\* What the loop over the blocks of a chunk leaves.
LEMMA WriteBlocksExtends ==
    ASSUME CasOK, NEW blocks, IsSeq(blocks), NEW method,
           \A k \in 1..Len(blocks) : Storable(blocks[k], method)
    PROVE  Extended(compression_blocks, cas, WriteBlocks(blocks, method).table,
                    WriteBlocks(blocks, method).cas, config.key, blocks, method,
                    WriteBlocks(blocks, method).offset)
<1>1. PICK T : T = compression_blocks
    OBVIOUS
<1>2. PICK s : s = cas
    OBVIOUS
<1>3. PICK key : key = config.key
    OBVIOUS
<1>4. PICK stored : stored = [k \in DOMAIN blocks |-> StoredBlock(blocks[k], method, key)]
    OBVIOUS
<1>5. PICK parts : parts = [k \in DOMAIN stored |-> stored[k].bytes]
    OBVIOUS
<1>6. PICK at : at = Offsets(Len(s), [k \in DOMAIN stored |-> Len(stored[k].bytes)])
    OBVIOUS
<1>7. PICK more : more = [k \in DOMAIN stored |-> BlockEntry(at[k], stored[k])]
    OBVIOUS
<1>8. Tiled(T, s, key) /\ cas_offset = Len(s)
    BY <1>1, <1>2, <1>3 DEF CasOK
<1>9. Extended(T, s, T \o more, s \o FlattenSeq(parts), key, blocks, method, at[Len(stored) + 1])
    BY <1>4, <1>5, <1>6, <1>7, <1>8, Extends
<1>10. WriteBlocks(blocks, method)
            = [cas |-> s \o FlattenSeq(parts), table |-> T \o more, offset |-> at[Len(stored) + 1]]
    <2>1. WriteBlocks(blocks, method) = Appended(stored, at)
        BY <1>3, <1>4, <1>6, <1>8 DEF WriteBlocks
    <2>2. Appended(stored, at)
            = [cas |-> s \o FlattenSeq(parts), table |-> T \o more, offset |-> at[Len(stored) + 1]]
        BY <1>1, <1>2, <1>5, <1>7 DEF Appended
    <2> QED BY <2>1, <2>2
<1> QED BY <1>1, <1>2, <1>3, <1>9, <1>10

\* An entry that is put in wins.
LEMMA PutIn ==
    ASSUME NEW f, NEW y, NEW m
    PROVE  /\ \A x : x \in DOMAIN Insert(f, y, m) <=> x = y \/ x \in DOMAIN f
           /\ Insert(f, y, m)[y] = m
           /\ \A x \in DOMAIN f : x # y => Insert(f, y, m)[x] = f[x]
BY DEF Insert

\* One more write under a key is the last one, and the last of no other key.
LEMMA LastAdded ==
    ASSUME NEW f, NEW x, NEW n \in Nat, NEW S, S \subseteq 1..n,
           NEW y, LeadsToLast(f, x, S)
    PROVE  /\ LeadsToLast(Insert(f, x, n + 1), x, S \cup {n + 1})
           /\ x # y => LeadsToLast(Insert(f, y, n + 1), x, S)
<1>1. PICK g : g = Insert(f, x, n + 1)
    OBVIOUS
<1>2. PICK h : h = Insert(f, y, n + 1)
    OBVIOUS
<1>3. x \in DOMAIN g /\ g[x] = n + 1
    BY <1>1, PutIn
<1>4. LeadsToLast(g, x, S \cup {n + 1})
    BY <1>3 DEF LeadsToLast
<1>5. ASSUME x # y PROVE LeadsToLast(h, x, S)
    <2>1. x \in DOMAIN h <=> x \in DOMAIN f
        BY <1>2, <1>5, PutIn
    <2>2. x \in DOMAIN f => h[x] = f[x]
        BY <1>2, <1>5, PutIn
    <2> QED BY <2>1, <2>2 DEF LeadsToLast
<1> QED BY <1>1, <1>2, <1>4, <1>5

\* A chunk that is there stays there when blocks are added.
LEMMA ChunkStays ==
    ASSUME NEW w, NEW c, NEW T, NEW s, NEW T2, NEW s2, Tiled(T, s, c.key),
           NEW blocks, NEW method, NEW end, IsSeq(blocks),
           Extended(T, s, T2, s2, c.key, blocks, method, end), ChunkOK(w, c, T, s)
    PROVE  ChunkOK(w, c, T2, s2)
<1>1. /\ IsSeq(s) /\ IsSeq(T) /\ IsSeq(s2) /\ Len(s) <= Len(s2) /\ Len(T2) = Len(T) + Len(blocks)
      /\ \A b \in 1..Len(T) : T2[b] = T[b]
      /\ \A i \in 1..Len(s) : s2[i] = s[i]
    BY DEF Tiled, Extended
<1>2. Len(s) \in Nat /\ Len(s2) \in Nat /\ Len(T) \in Nat /\ Len(blocks) \in Nat
    BY <1>1, SeqHas
<1>3. PICK b, n : b = Blocks(w.data) /\ n = Len(b)
    OBVIOUS
<1>4. /\ IsSeq(w.data) /\ w.start \in Nat /\ w.end \in 0..Len(s) /\ w.start + n <= Len(T)
    BY <1>3 DEF ChunkOK
<1>5. PICK m \in {NoMethod, c.compression} :
            \A k \in 1..n : Storable(b[k], m) /\ LaidOut(T, s, c.key, w.start + k, b[k], m, w.end)
    BY <1>3 DEF ChunkOK
<1>6. n \in Nat
    <2>1. Parts(b)
        BY <1>3, <1>4, BlocksAre
    <2> QED BY <1>3, <2>1, SizesAre
<1>7. ASSUME NEW k \in 1..n PROVE LaidOut(T2, s2, c.key, w.start + k, b[k], m, w.end)
    <2>1. w.start + k \in 1..Len(T)
        BY <1>2, <1>4, <1>6
    <2>2. IsSeq(StoredBlock(b[k], m, c.key).bytes)
        BY <1>5, StoredIs
    <2>3. LaidOut(T, s, c.key, w.start + k, b[k], m, w.end)
        BY <1>5
    <2> QED BY <1>1, <2>1, <2>2, <2>3, StaysLaidOut
<1>8. w.end \in 0..Len(s2) /\ w.start + n <= Len(T2)
    BY <1>1, <1>2, <1>4, <1>6
<1> QED BY <1>3, <1>4, <1>5, <1>7, <1>8 DEF ChunkOK

\* The chunk whose blocks they are is there.
LEMMA ChunkNew ==
    ASSUME NEW w, NEW c, NEW T, NEW s, NEW T2, NEW s2, Tiled(T, s, c.key),
           NEW method \in {NoMethod, c.compression}, IsSeq(w.data),
           Extended(T, s, T2, s2, c.key, Blocks(w.data), method, w.end),
           \A k \in 1..Len(Blocks(w.data)) : Storable(Blocks(w.data)[k], method),
           w.start = Len(T)
    PROVE  ChunkOK(w, c, T2, s2)
<1>1. PICK b : b = Blocks(w.data)
    OBVIOUS
<1>2. IsSeq(s2) /\ Len(T2) = Len(T) + Len(b) /\ w.end = Len(s2)
    BY <1>1 DEF Extended
<1>3. Parts(b)
    BY <1>1, BlocksAre
<1>4. IsSeq(T)
    BY DEF Tiled
<1>5. Len(s2) \in Nat /\ Len(T) \in Nat /\ Len(b) \in Nat
    BY <1>2, <1>3, <1>4, SeqHas, SizesAre
<1>6. \A k \in 1..Len(b) : LaidOut(T2, s2, c.key, w.start + k, b[k], method, w.end)
    BY <1>1 DEF Extended
<1>7. w.start \in Nat /\ w.end \in 0..Len(s2) /\ w.start + Len(b) <= Len(T2)
    BY <1>2, <1>5
<1> QED BY <1>1, <1>6, <1>7 DEF ChunkOK

StorableData(data, method) ==
    /\ IsSeq(data) /\ method \in {NoMethod, config.compression}
    /\ \A k \in 1..Len(Blocks(data)) : Storable(Blocks(data)[k], method)

\* Writing a chunk keeps the blocks on end and every chunk where it is.
LEMMA InnerExtends ==
    ASSUME CasOK, NEW id, NEW path, NEW data, NEW method, StorableData(data, method),
           NEW entry, WriteChunkInner(id, path, data, method, entry)
    PROVE  /\ Extended(compression_blocks, cas, compression_blocks', cas', config.key,
                       Blocks(data), method, cas_offset')
           /\ IsSeq(Blocks(data))
<1>1. PICK b : b = Blocks(data)
    OBVIOUS
<1>2. IsSeq(b) /\ \A k \in 1..Len(b) : Storable(b[k], method)
    <2>1. Parts(Blocks(data))
        BY BlocksAre DEF StorableData
    <2> QED BY <1>1, <2>1 DEF Parts, StorableData
<1>3. /\ compression_blocks' = WriteBlocks(b, method).table
      /\ cas' = WriteBlocks(b, method).cas
      /\ cas_offset' = WriteBlocks(b, method).offset
    BY <1>1 DEF WriteChunkInner
<1>4. Extended(compression_blocks, cas, WriteBlocks(b, method).table,
               WriteBlocks(b, method).cas, config.key, b, method,
               WriteBlocks(b, method).offset)
    BY <1>2, WriteBlocksExtends
<1> QED BY <1>1, <1>2, <1>3, <1>4

\* The block table goes on tiling the .ucas.
LEMMA InnerKeepsCas ==
    ASSUME CasOK, NEW id, NEW path, NEW data, NEW method, StorableData(data, method),
           NEW entry, WriteChunkInner(id, path, data, method, entry), config' = config
    PROVE  CasOK'
<1>1. Extended(compression_blocks, cas, compression_blocks', cas', config.key,
               Blocks(data), method, cas_offset')
    BY InnerExtends
<1>2. Tiled(compression_blocks', cas', config.key) /\ cas_offset' = Len(cas')
    BY <1>1 DEF Extended
<1> QED BY <1>2 DEF CasOK

\* Every chunk stays where it is, and the new one is there.
LEMMA InnerKeepsRows ==
    ASSUME CasOK, RowsOK, NEW id, NEW path, NEW data, NEW method, StorableData(data, method),
           NEW entry, WriteChunkInner(id, path, data, method, entry), config' = config
    PROVE  RowsOK'
<1>1. PICK T, s, T2, s2, c : /\ T = compression_blocks /\ s = cas /\ c = config
                             /\ T2 = compression_blocks' /\ s2 = cas'
    OBVIOUS
<1>2. PICK end : end = cas_offset'
    OBVIOUS
<1>3. Extended(T, s, T2, s2, c.key, Blocks(data), method, end) /\ IsSeq(Blocks(data))
    BY <1>1, <1>2, InnerExtends
<1>4. Tiled(T, s, c.key)
    BY <1>1 DEF CasOK
<1>5. PICK w : w = [id |-> id, path |-> path, data |-> data, entry |-> entry,
                    start |-> Len(T), end |-> end]
    OBVIOUS
<1>6. ChunkOK(w, c, T2, s2)
    <2>1. /\ w.data = data /\ w.start = Len(T) /\ w.end = end
        BY <1>5
    <2>2. /\ IsSeq(w.data) /\ method \in {NoMethod, c.compression}
          /\ \A k \in 1..Len(Blocks(w.data)) : Storable(Blocks(w.data)[k], method)
        BY <1>1, <2>1 DEF StorableData
    <2>3. Extended(T, s, T2, s2, c.key, Blocks(w.data), method, w.end)
        BY <1>3, <2>1
    <2> QED BY <1>4, <2>1, <2>2, <2>3, ChunkNew
<1>7. /\ chunks' = Append(chunks, id)
      /\ chunk_offset_lengths' = Append(chunk_offset_lengths,
                                        OffsetAndLength(Len(T) * BlockSize, Len(data)))
      /\ chunk_metas' = Append(chunk_metas, data)
      /\ written' = Append(written, w)
    <2>1. WriteBlocks(Blocks(data), method).offset = end
        BY <1>2 DEF WriteChunkInner
    <2> QED BY <1>1, <1>5, <2>1 DEF WriteChunkInner
<1>8. PICK n : n = Len(written)
    OBVIOUS
<1>9. /\ IsSeq(written) /\ IsSeq(chunks) /\ IsSeq(chunk_offset_lengths) /\ IsSeq(chunk_metas)
      /\ Len(chunks) = n /\ Len(chunk_offset_lengths) = n /\ Len(chunk_metas) = n
    BY <1>8 DEF RowsOK
<1>10. n \in Nat
    BY <1>8, <1>9, SeqHas
<1>11. /\ IsSeq(written') /\ Len(written') = n + 1 /\ written'[n + 1] = w
       /\ \A i \in 1..n : written'[i] = written[i]
    BY <1>7, <1>8, <1>9, Pushed
<1>12. /\ IsSeq(chunks') /\ Len(chunks') = n + 1 /\ chunks'[n + 1] = id
       /\ \A i \in 1..n : chunks'[i] = chunks[i]
    BY <1>7, <1>9, Pushed
<1>13. /\ IsSeq(chunk_metas') /\ Len(chunk_metas') = n + 1 /\ chunk_metas'[n + 1] = data
       /\ \A i \in 1..n : chunk_metas'[i] = chunk_metas[i]
    BY <1>7, <1>9, Pushed
<1>14. /\ IsSeq(chunk_offset_lengths') /\ Len(chunk_offset_lengths') = n + 1
       /\ chunk_offset_lengths'[n + 1] = OffsetAndLength(Len(T) * BlockSize, Len(data))
       /\ \A i \in 1..n : chunk_offset_lengths'[i] = chunk_offset_lengths[i]
    BY <1>7, <1>9, Pushed
<1>15. ASSUME NEW i \in 1..(n + 1)
       PROVE  /\ chunks'[i] = written'[i].id /\ chunk_metas'[i] = written'[i].data
              /\ chunk_offset_lengths'[i] =
                    OffsetAndLength(written'[i].start * BlockSize, Len(written'[i].data))
              /\ ChunkOK(written'[i], c, T2, s2)
    <2>1. CASE i = n + 1
        <3>1. w.id = id /\ w.data = data /\ w.start = Len(T)
            BY <1>5
        <3> QED BY <1>6, <1>11, <1>12, <1>13, <1>14, <2>1, <3>1
    <2>2. CASE i # n + 1
        <3>1. i \in 1..n
            BY <1>10, <2>2
        <3>2. /\ chunks[i] = written[i].id /\ chunk_metas[i] = written[i].data
              /\ chunk_offset_lengths[i] =
                    OffsetAndLength(written[i].start * BlockSize, Len(written[i].data))
              /\ ChunkOK(written[i], c, T, s)
            BY <1>1, <1>8, <3>1 DEF RowsOK
        <3>3. ChunkOK(written[i], c, T2, s2)
            <4>1. PICK v : v = written[i]
                OBVIOUS
            <4> QED BY <1>3, <1>4, <3>2, <4>1, ChunkStays
        <3> QED BY <1>11, <1>12, <1>13, <1>14, <3>1, <3>2, <3>3
    <2> QED BY <2>1, <2>2
<1> QED BY <1>1, <1>11, <1>12, <1>13, <1>14, <1>15 DEF RowsOK

\* The chunks with some path or id, when there is one more.
LEMMA OneMore ==
    ASSUME RowsOK, NEW w, written' = Append(written, w)
    PROVE  /\ Len(written) \in Nat
           /\ \A p : /\ WithPath(p) \subseteq 1..Len(written)
                     /\ WithPath(p)' = IF w.path = p THEN WithPath(p) \cup {Len(written) + 1}
                                       ELSE WithPath(p)
           /\ \A x : /\ WithId(x) \subseteq 1..Len(written)
                     /\ WithId(x)' = IF w.id = x THEN WithId(x) \cup {Len(written) + 1}
                                     ELSE WithId(x)
<1>1. PICK n : n = Len(written)
    OBVIOUS
<1>2. n \in Nat /\ DOMAIN written = 1..n /\ IsSeq(written)
    BY <1>1, SeqHas DEF RowsOK
<1>3. /\ DOMAIN written' = 1..(n + 1) /\ written'[n + 1] = w
      /\ \A i \in 1..n : written'[i] = written[i]
    BY <1>1, <1>2, Pushed
<1>4. ASSUME NEW p
      PROVE  /\ WithPath(p) \subseteq 1..n
             /\ WithPath(p)' = IF w.path = p THEN WithPath(p) \cup {n + 1} ELSE WithPath(p)
    <2>1. WithPath(p) = {i \in 1..n : written[i].path = p}
        BY <1>2 DEF WithPath
    <2>2. WithPath(p)' = {i \in 1..(n + 1) : written'[i].path = p}
        BY <1>3 DEF WithPath
    <2>3. \A i \in 1..(n + 1) : i \in 1..n \/ i = n + 1
        BY <1>2
    <2>4. \A i \in 1..n : i \in 1..(n + 1) /\ i # n + 1
        BY <1>2
    <2>5. n + 1 \in 1..(n + 1)
        BY <1>2
    <2> QED BY <1>3, <2>1, <2>2, <2>3, <2>4, <2>5
<1>5. ASSUME NEW x
      PROVE  /\ WithId(x) \subseteq 1..n
             /\ WithId(x)' = IF w.id = x THEN WithId(x) \cup {n + 1} ELSE WithId(x)
    <2>1. WithId(x) = {i \in 1..n : written[i].id = x}
        BY <1>2 DEF WithId
    <2>2. WithId(x)' = {i \in 1..(n + 1) : written'[i].id = x}
        BY <1>3 DEF WithId
    <2>3. \A i \in 1..(n + 1) : i \in 1..n \/ i = n + 1
        BY <1>2
    <2>4. \A i \in 1..n : i \in 1..(n + 1) /\ i # n + 1
        BY <1>2
    <2>5. n + 1 \in 1..(n + 1)
        BY <1>2
    <2> QED BY <1>3, <2>1, <2>2, <2>3, <2>4, <2>5
<1> QED BY <1>1, <1>2, <1>4, <1>5

\* A path leads to the last chunk written under it.
LEMMA InnerKeepsPaths ==
    ASSUME RowsOK, PathsOK, NEW id, NEW path, NEW data, NEW method,
           NEW entry, WriteChunkInner(id, path, data, method, entry)
    PROVE  PathsOK'
<1>1. PICK w : /\ w = [id |-> id, path |-> path, data |-> data, entry |-> entry,
                       start |-> Len(compression_blocks),
                       end |-> WriteBlocks(Blocks(data), method).offset]
    OBVIOUS
<1>2. written' = Append(written, w) /\ directory_index' = AddFile(path)
    BY <1>1 DEF WriteChunkInner
<1>3. w.path = path
    BY <1>1
<1>4. PICK n : n = Len(written)
    OBVIOUS
<1>5. n \in Nat /\ Len(chunks) = n
    BY <1>2, <1>4, OneMore DEF RowsOK
<1>6. ASSUME NEW p \in Paths PROVE LeadsToLast(directory_index, p, WithPath(p))'
    <2>1. PICK S : S = WithPath(p)
        OBVIOUS
    <2>2. S \subseteq 1..n /\ WithPath(p)' = IF path = p THEN S \cup {n + 1} ELSE S
        BY <1>2, <1>3, <1>4, <2>1, OneMore
    <2>3. LeadsToLast(directory_index, p, S)
        BY <2>1 DEF PathsOK
    <2>4. CASE path = NoPath
        <3>1. directory_index' = directory_index /\ path # p
            BY <1>2, <2>4, PathsProper DEF AddFile
        <3>2. WithPath(p)' = S
            BY <2>2, <3>1
        <3> QED BY <2>3, <3>1, <3>2 DEF LeadsToLast
    <2>5. CASE path # NoPath
        <3>1. directory_index' = Insert(directory_index, path, n + 1)
            BY <1>2, <1>5, <2>5 DEF AddFile
        <3>2. PICK f : f = directory_index
            OBVIOUS
        <3>3. /\ LeadsToLast(Insert(f, p, n + 1), p, S \cup {n + 1})
              /\ p # path => LeadsToLast(Insert(f, path, n + 1), p, S)
            BY <1>5, <2>2, <2>3, <3>2, LastAdded
        <3>4. PICK g, R : g = directory_index' /\ R = WithPath(p)'
            OBVIOUS
        <3>5. LeadsToLast(g, p, R)
            BY <2>2, <3>1, <3>2, <3>3, <3>4
        <3> QED BY <3>4, <3>5 DEF LeadsToLast
    <2> QED BY <2>4, <2>5
<1> QED BY <1>6 DEF PathsOK

\* A sequence of one.
LEMMA Single ==
    ASSUME NEW x
    PROVE  IsSeq(<<x>>) /\ Len(<<x>>) = 1 /\ <<x>>[1] = x
<1>1. <<x>> \in Seq({x})
    OBVIOUS
<1>2. Len(<<x>>) = 1 /\ <<x>>[1] = x
    OBVIOUS
<1> QED BY <1>1, <1>2, SeqIs

\* The data offered can be stored under the method of the container.
LEMMA DataStorable ==
    ASSUME NEW data \in Data, NEW c, c = config.compression
    PROVE  StorableData(data, c)
<1>1. IsSeq(data)
    BY DataAreBytes DEF IsSeq
<1>2. PICK b : b = Blocks(data)
    OBVIOUS
<1>3. Parts(b) /\ \A k \in 1..Len(b) : Len(b[k]) \in Nat \ {0}
    BY <1>1, <1>2, BlocksAre
<1>4. DOMAIN b = 1..Len(b)
    BY <1>3, SizesAre
<1>5. ASSUME NEW k \in 1..Len(b) PROVE Storable(b[k], c)
    <2>1. PackedLen(b[k]) \in Nat \ {0}
        BY <1>2, <1>4, DataAreBytes
    <2>2. IsSeq(b[k])
        BY <1>3 DEF Parts
    <2> QED BY <1>3, <2>1, <2>2 DEF Storable
<1> QED BY <1>1, <1>2, <1>5 DEF StorableData

\* So can the container header, which is never compressed.
LEMMA HeaderStorable ==
    StorableData(HeaderChunk, NoMethod)
<1>1. PICK d : d = HeaderChunk
    OBVIOUS
<1>2. IsSeq(d)
    <2>1. IsSeq(<<[packages |-> packages]>>)
        BY Single
    <2> QED BY <1>1, <2>1, PadIs DEF HeaderChunk
<1>3. Parts(Blocks(d)) /\ \A k \in 1..Len(Blocks(d)) : Len(Blocks(d)[k]) \in Nat \ {0}
    BY <1>2, BlocksAre
<1>4. \A k \in 1..Len(Blocks(d)) : Storable(Blocks(d)[k], NoMethod)
    BY <1>3 DEF Storable, Parts
<1> QED BY <1>1, <1>2, <1>4 DEF StorableData

\* What TypeOK says of what a chunk that is written changes.
LEMMA InnerKeepsType ==
    ASSUME TypeOK, RowsOK, CasOK', RowsOK', NEW id, NEW path, NEW data, NEW method, NEW entry,
           WriteChunkInner(id, path, data, method, entry),
           path \in Paths \cup {NoPath, Outside},
           id \in PackageIds \cup OtherIds \cup {HeaderId}
    PROVE  /\ cas_offset' \in Nat
           /\ \A i \in DOMAIN chunks' : chunks'[i] \in PackageIds \cup OtherIds \cup {HeaderId}
           /\ Len(chunks') = Len(chunk_offset_lengths') /\ Len(chunks') = Len(chunk_metas')
           /\ \A p \in DOMAIN directory_index' : p \in Paths
<1>1. cas_offset' \in Nat
    <2>1. IsSeq(cas') /\ cas_offset' = Len(cas')
        BY DEF CasOK, Tiled
    <2> QED BY <2>1, SeqHas
<1>2. ASSUME NEW i \in DOMAIN chunks'
      PROVE  chunks'[i] \in PackageIds \cup OtherIds \cup {HeaderId}
    <2>1. IsSeq(chunks) /\ chunks' = Append(chunks, id)
        BY DEF RowsOK, WriteChunkInner
    <2>2. PICK n : n = Len(chunks)
        OBVIOUS
    <2>3. n \in Nat /\ DOMAIN chunks = 1..n
        BY <2>1, <2>2, SeqHas
    <2>4. /\ DOMAIN chunks' = 1..(n + 1) /\ chunks'[n + 1] = id
          /\ \A j \in 1..n : chunks'[j] = chunks[j]
        BY <2>1, <2>2, Pushed
    <2>5. i = n + 1 \/ i \in 1..n
        BY <2>3, <2>4
    <2>6. CASE i = n + 1
        BY <2>4, <2>6
    <2>7. CASE i \in 1..n
        BY <2>3, <2>4, <2>7 DEF TypeOK
    <2> QED BY <2>5, <2>6, <2>7
<1>3. Len(chunks') = Len(chunk_offset_lengths') /\ Len(chunks') = Len(chunk_metas')
    BY DEF RowsOK
<1>4. ASSUME NEW p \in DOMAIN directory_index' PROVE p \in Paths
    <2>1. path # Outside /\ directory_index' = AddFile(path)
        BY DEF WriteChunkInner
    <2>2. path = NoPath \/ path \in Paths
        BY <2>1
    <2>3. p \in DOMAIN directory_index \/ p \in Paths
        BY <2>1, <2>2, PutIn DEF AddFile
    <2> QED BY <2>3 DEF TypeOK
<1> QED BY <1>1, <1>2, <1>3, <1>4

\* A chunk that is no package leaves the store entries right.
LEMMA PackagesKept ==
    ASSUME RowsOK, PackagesOK, NEW w, written' = Append(written, w),
           config.header => w.id \notin PackageIds, config' = config, packages' = packages
    PROVE  PackagesOK'
<1> SUFFICES ASSUME config.header, NEW id \in PackageIds
             PROVE  /\ LeadsToLast(packages, id, WithId(id))'
                    /\ id \in DOMAIN packages => written'[packages[id]].entry = packages[id]
    BY DEF PackagesOK
<1>1. PICK f, S, n : f = packages /\ S = WithId(id) /\ n = Len(written)
    OBVIOUS
<1>2. w.id # id
    OBVIOUS
<1>3. S \subseteq 1..n /\ n \in Nat /\ WithId(id)' = S
    BY <1>1, <1>2, OneMore
<1>4. LeadsToLast(f, id, S) /\ (id \in DOMAIN f => written[f[id]].entry = f[id])
    BY <1>1 DEF PackagesOK
<1>5. LeadsToLast(packages, id, WithId(id))'
    BY <1>1, <1>3, <1>4 DEF LeadsToLast
<1>6. ASSUME id \in DOMAIN f PROVE written'[f[id]].entry = f[id]
    <2>1. f[id] \in 1..n
        BY <1>3, <1>4, <1>6 DEF LeadsToLast
    <2>2. written'[f[id]] = written[f[id]]
        BY <1>1, <2>1, Pushed DEF RowsOK
    <2> QED BY <1>4, <1>6, <2>2
<1> QED BY <1>1, <1>5, <1>6

\* A package is entered with the index its chunk will have.
LEMMA PackagesPut ==
    ASSUME RowsOK, PackagesOK, NEW w, written' = Append(written, w), NEW y, w.id = y,
           w.entry = Len(written) + 1, config' = config,
           packages' = Insert(packages, y, Len(written) + 1)
    PROVE  PackagesOK'
<1> SUFFICES ASSUME config.header, NEW id \in PackageIds
             PROVE  /\ LeadsToLast(packages, id, WithId(id))'
                    /\ id \in DOMAIN packages' => written'[packages'[id]].entry = packages'[id]
    BY DEF PackagesOK
<1>1. PICK f, S, n : f = packages /\ S = WithId(id) /\ n = Len(written)
    OBVIOUS
<1>2. /\ S \subseteq 1..n /\ n \in Nat
      /\ WithId(id)' = IF y = id THEN S \cup {n + 1} ELSE S
    BY <1>1, OneMore
<1>3. LeadsToLast(f, id, S) /\ (id \in DOMAIN f => written[f[id]].entry = f[id])
    BY <1>1 DEF PackagesOK
<1>4. PICK g, R : g = Insert(f, y, n + 1) /\ R = WithId(id)'
    OBVIOUS
<1>5. packages' = g
    BY <1>1, <1>4
<1>6. LeadsToLast(g, id, R)
    <2>1. /\ LeadsToLast(Insert(f, id, n + 1), id, S \cup {n + 1})
          /\ id # y => LeadsToLast(Insert(f, y, n + 1), id, S)
        BY <1>2, <1>3, LastAdded
    <2> QED BY <1>2, <1>4, <2>1
<1>7. LeadsToLast(packages, id, WithId(id))'
    BY <1>4, <1>5, <1>6 DEF LeadsToLast
<1>8. /\ written'[n + 1] = w /\ \A i \in 1..n : written'[i] = written[i]
    BY <1>1, Pushed DEF RowsOK
<1>9. ASSUME id \in DOMAIN g PROVE written'[g[id]].entry = g[id]
    <2>1. CASE id = y
        <3>1. g[id] = n + 1
            BY <1>4, <2>1, PutIn
        <3> QED BY <1>1, <1>8, <3>1
    <2>2. CASE id # y
        <3>1. id \in DOMAIN f /\ g[id] = f[id]
            BY <1>4, <1>9, <2>2, PutIn
        <3>2. f[id] \in 1..n
            BY <1>2, <1>3, <3>1 DEF LeadsToLast
        <3> QED BY <1>3, <1>8, <3>1, <3>2
    <2> QED BY <2>1, <2>2
<1> QED BY <1>5, <1>7, <1>9

ChunkRecord(id, path, data, method, entry) ==
    [id |-> id, path |-> path, data |-> data, entry |-> entry,
     start |-> Len(compression_blocks), end |-> WriteBlocks(Blocks(data), method).offset]

\* A write that succeeds is remembered.
LEMMA WrittenGrows ==
    ASSUME NEW id, NEW path, NEW data, NEW method, NEW entry,
           WriteChunkInner(id, path, data, method, entry)
    PROVE  \E w : /\ written' = Append(written, w)
                  /\ w.id = id /\ w.entry = entry /\ w.data = data
<1>1. PICK w : w = ChunkRecord(id, path, data, method, entry)
    OBVIOUS
<1>2. w.id = id /\ w.entry = entry /\ w.data = data
    BY <1>1 DEF ChunkRecord
<1>3. written' = Append(written, w)
    BY <1>1 DEF WriteChunkInner, ChunkRecord
<1> QED BY <1>2, <1>3

\* Two empty files.
LEMMA InitTiled ==
    ASSUME NEW key
    PROVE  Tiled(<<>>, <<>>, key)
<1>1. PICK e : e = <<>>
    OBVIOUS
<1>2. IsSeq(e) /\ Len(e) = 0 /\ DOMAIN e = {}
    BY <1>1, EmptyIs
<1>3. Strides(e, key) = [k \in {} |-> Stride(e[k].csize, key)]
    BY <1>2 DEF Strides
<1>4. PICK z : z = Strides(e, key)
    OBVIOUS
<1>5. z = [k \in 1..0 |-> z[k]]
    BY <1>3, <1>4
<1>6. Len(z) = 0
    BY <1>5, Made
<1>7. z \in Seq(Nat)
    <2>1. z \in [1..0 -> Nat]
        BY <1>5
    <2> QED BY <2>1
<1>8. IsOffsets(Offsets(0, z), 0, z)
    BY <1>7, OffsetsAre
<1>9. Offsets(0, z)[Len(e) + 1] = Len(e)
    BY <1>2, <1>8 DEF IsOffsets
<1> QED BY <1>1, <1>2, <1>4, <1>7, <1>9 DEF Tiled

\* A new writer.
LEMMA InitHolds == Init => WriterInv
<1> SUFFICES ASSUME Init PROVE WriterInv
    OBVIOUS
<1>1. IsSeq(<<>>) /\ Len(<<>>) = 0 /\ DOMAIN <<>> = {}
    BY EmptyIs
<1>2. TypeOK
    BY <1>1 DEF Init, TypeOK
<1>3. CasOK
    <2>1. compression_blocks = <<>> /\ cas = <<>> /\ cas_offset = 0
        BY DEF Init
    <2>2. Tiled(compression_blocks, cas, config.key)
        BY <2>1, InitTiled
    <2> QED BY <1>1, <2>1, <2>2 DEF CasOK
<1>4. RowsOK
    BY <1>1 DEF Init, RowsOK
<1>5. PathsOK
    BY <1>1 DEF Init, PathsOK, WithPath, LeadsToLast
<1>6. PackagesOK
    BY <1>1 DEF Init, PackagesOK, WithId, LeadsToLast
<1>7. status # "finalized"
    BY DEF Init
<1> QED BY <1>2, <1>3, <1>4, <1>5, <1>6, <1>7 DEF WriterInv

\* What holds of a writer that is open.
LEMMA OpenIs ==
    ASSUME WriterInv, status = "open"
    PROVE  TypeOK /\ CasOK /\ RowsOK /\ PathsOK /\ PackagesOK
BY DEF WriterInv

\* write_chunk
LEMMA WriteChunkKeeps ==
    ASSUME WriterInv, NEW id \in ChunkIds, NEW path \in Paths \cup {NoPath, Outside},
           NEW data \in Data, WriteChunk(id, path, data)
    PROVE  WriterInv'
<1>1. /\ status = "open" /\ status' = "open" /\ config' = config /\ packages' = packages
      /\ WriteChunkInner(id, path, data, config.compression, NoEntry)
    BY DEF WriteChunk
<1>2. TypeOK /\ CasOK /\ RowsOK /\ PathsOK /\ PackagesOK
    BY <1>1, OpenIs
<1>3. PICK c : c = config.compression
    OBVIOUS
<1>4. WriteChunkInner(id, path, data, c, NoEntry) /\ StorableData(data, c)
    BY <1>1, <1>3, DataStorable
<1>5. CasOK'
    BY <1>1, <1>2, <1>4, InnerKeepsCas
<1>6. RowsOK'
    BY <1>1, <1>2, <1>4, InnerKeepsRows
<1>7. PathsOK'
    BY <1>2, <1>4, InnerKeepsPaths
<1>8. PackagesOK'
    <2>1. PICK w : written' = Append(written, w) /\ w.id = id
        BY <1>4, WrittenGrows
    <2>2. config.header => w.id \notin PackageIds
        BY <2>1, IdsApart DEF ChunkIds
    <2> QED BY <1>1, <1>2, <2>1, <2>2, PackagesKept
<1>9. id \in PackageIds \cup OtherIds \cup {HeaderId}
    BY DEF ChunkIds
<1>10. TypeOK'
    <2>1. /\ cas_offset' \in Nat
          /\ \A i \in DOMAIN chunks' : chunks'[i] \in PackageIds \cup OtherIds \cup {HeaderId}
          /\ Len(chunks') = Len(chunk_offset_lengths') /\ Len(chunks') = Len(chunk_metas')
          /\ \A p \in DOMAIN directory_index' : p \in Paths
        BY <1>2, <1>4, <1>5, <1>6, <1>9, InnerKeepsType
    <2> QED BY <1>1, <1>2, <2>1 DEF TypeOK
<1> QED BY <1>1, <1>5, <1>6, <1>7, <1>8, <1>10 DEF WriterInv

\* write_package_chunk
LEMMA WritePackageChunkKeeps ==
    ASSUME WriterInv, NEW id \in PackageIds, NEW path \in Paths \cup {NoPath, Outside},
           NEW data \in Data, WritePackageChunk(id, path, data)
    PROVE  WriterInv'
<1>1. PICK e : e = Len(written) + 1
    OBVIOUS
<1>2. /\ status = "open" /\ status' = "open" /\ config' = config
      /\ packages' = Insert(packages, id, e)
      /\ WriteChunkInner(id, path, data, config.compression, e)
    BY <1>1 DEF WritePackageChunk
<1>3. TypeOK /\ CasOK /\ RowsOK /\ PathsOK /\ PackagesOK
    BY <1>2, OpenIs
<1>4. PICK c : c = config.compression
    OBVIOUS
<1>5. WriteChunkInner(id, path, data, c, e) /\ StorableData(data, c)
    BY <1>2, <1>4, DataStorable
<1>6. CasOK'
    BY <1>2, <1>3, <1>5, InnerKeepsCas
<1>7. RowsOK'
    BY <1>2, <1>3, <1>5, InnerKeepsRows
<1>8. PathsOK'
    BY <1>3, <1>5, InnerKeepsPaths
<1>9. PackagesOK'
    <2>1. PICK w : written' = Append(written, w) /\ w.id = id /\ w.entry = e
        BY <1>5, WrittenGrows
    <2> QED BY <1>1, <1>2, <1>3, <2>1, PackagesPut
<1>10. TypeOK'
    <2>1. id \in PackageIds \cup OtherIds \cup {HeaderId}
        OBVIOUS
    <2>2. /\ cas_offset' \in Nat
          /\ \A i \in DOMAIN chunks' : chunks'[i] \in PackageIds \cup OtherIds \cup {HeaderId}
          /\ Len(chunks') = Len(chunk_offset_lengths') /\ Len(chunks') = Len(chunk_metas')
          /\ \A p \in DOMAIN directory_index' : p \in Paths
        BY <1>3, <1>5, <1>6, <1>7, <2>1, InnerKeepsType
    <2>3. \A p \in DOMAIN packages' : p \in PackageIds
        BY <1>2, <1>3, PutIn DEF TypeOK
    <2> QED BY <1>2, <1>3, <2>2, <2>3 DEF TypeOK
<1> QED BY <1>2, <1>6, <1>7, <1>8, <1>9, <1>10 DEF WriterInv

\* A write that fails leaves a writer nobody calls again.
LEMMA WriteFailsKeeps ==
    ASSUME WriterInv, NEW id \in OtherIds \cup PackageIds,
           NEW path \in Paths \cup {NoPath, Outside}, NEW data \in Data,
           WriteFails(id, path, data)
    PROVE  WriterInv'
<1>1. TypeOK
    BY DEF WriterInv
<1>2. /\ status' = "failed" /\ config' = config /\ cas_offset' = cas_offset
      /\ chunks' = chunks /\ chunk_offset_lengths' = chunk_offset_lengths
      /\ chunk_metas' = chunk_metas
    BY DEF WriteFails
<1>3. \A p \in DOMAIN packages' : p \in PackageIds
    <2>1. \/ packages' = packages
          \/ id \in PackageIds /\ packages' = Insert(packages, id, Len(written) + 1)
        BY DEF WriteFails
    <2> QED BY <1>1, <2>1, PutIn DEF TypeOK
<1>4. \A p \in DOMAIN directory_index' : p \in Paths
    <2>1. \/ directory_index' = directory_index
          \/ path # Outside /\ directory_index' = AddFile(path)
        BY DEF WriteFails
    <2>2. CASE path # Outside /\ directory_index' = AddFile(path)
        <3>1. path = NoPath \/ path \in Paths
            BY <2>2
        <3> QED BY <1>1, <2>2, <3>1, PutIn DEF AddFile, TypeOK
    <2> QED BY <1>1, <2>1, <2>2 DEF TypeOK
<1>5. TypeOK'
    BY <1>1, <1>2, <1>3, <1>4 DEF TypeOK
<1> QED BY <1>2, <1>5 DEF WriterInv

\* finalize
LEMMA FinalizeKeeps ==
    ASSUME WriterInv, Finalize
    PROVE  WriterInv'
<1>1. /\ status = "open" /\ config' = config /\ packages' = packages
      /\ utoc' = TocOnDisk
      /\ \/ status' = "finalized" /\ ucas' = cas'
         \/ status' = "failed"
    BY DEF Finalize
<1>2. TypeOK /\ CasOK /\ RowsOK /\ PathsOK /\ PackagesOK
    BY <1>1, OpenIs
<1>3. /\ CasOK' /\ RowsOK' /\ PathsOK' /\ PackagesOK' /\ TypeOK'
      /\ config.header => /\ Len(written') > 0
                          /\ written'[Len(written')].id = HeaderId
                          /\ written'[Len(written')].data = HeaderChunk
    <2>1. CASE config.header
        <3>1. PICK d : d = HeaderChunk
            OBVIOUS
        <3>2. WriteChunkInner(HeaderId, NoPath, d, NoMethod, NoEntry) /\ StorableData(d, NoMethod)
            BY <2>1, <3>1, HeaderStorable DEF Finalize
        <3>3. CasOK'
            BY <1>1, <1>2, <3>2, InnerKeepsCas
        <3>4. RowsOK'
            BY <1>1, <1>2, <3>2, InnerKeepsRows
        <3>5. PathsOK'
            BY <1>2, <3>2, InnerKeepsPaths
        <3>6. PICK w : written' = Append(written, w) /\ w.id = HeaderId /\ w.data = d
            BY <3>2, WrittenGrows
        <3>7. PackagesOK'
            <4>1. w.id \notin PackageIds
                BY <3>6, IdsApart
            <4> QED BY <1>1, <1>2, <3>6, <4>1, PackagesKept
        <3>8. TypeOK'
            <4>1. /\ NoPath \in Paths \cup {NoPath, Outside}
                  /\ HeaderId \in PackageIds \cup OtherIds \cup {HeaderId}
                OBVIOUS
            <4>2. /\ cas_offset' \in Nat
                  /\ \A i \in DOMAIN chunks' :
                        chunks'[i] \in PackageIds \cup OtherIds \cup {HeaderId}
                  /\ Len(chunks') = Len(chunk_offset_lengths') /\ Len(chunks') = Len(chunk_metas')
                  /\ \A p \in DOMAIN directory_index' : p \in Paths
                BY <1>2, <3>2, <3>3, <3>4, <4>1, InnerKeepsType
            <4> QED BY <1>1, <1>2, <4>2 DEF TypeOK
        <3>9. /\ Len(written') = Len(written) + 1 /\ written'[Len(written) + 1] = w
              /\ Len(written) \in Nat
            BY <1>2, <3>6, Pushed, SeqHas DEF RowsOK
        <3>10. /\ Len(written') > 0 /\ written'[Len(written')] = w
            BY <3>9
        <3> QED BY <3>1, <3>3, <3>4, <3>5, <3>6, <3>7, <3>8, <3>10
    <2>2. CASE ~config.header
        <3>1. UNCHANGED <<directory_index, cas, cas_offset, tables, written, config, packages>>
            BY <1>1, <2>2 DEF Finalize
        <3>2. /\ directory_index' = directory_index /\ cas' = cas /\ cas_offset' = cas_offset
              /\ chunks' = chunks /\ chunk_offset_lengths' = chunk_offset_lengths
              /\ compression_blocks' = compression_blocks /\ chunk_metas' = chunk_metas
              /\ written' = written /\ config' = config /\ packages' = packages
            BY <3>1 DEF tables
        <3>3. CasOK'
            BY <1>2, <3>2 DEF CasOK
        <3>4. RowsOK'
            BY <1>2, <3>2 DEF RowsOK
        <3>5. PathsOK'
            BY <1>2, <3>2 DEF PathsOK, WithPath, LeadsToLast
        <3>6. PackagesOK'
            BY <2>2, <3>2 DEF PackagesOK
        <3>7. TypeOK'
            BY <1>1, <1>2, <3>2 DEF TypeOK
        <3> QED BY <2>2, <3>3, <3>4, <3>5, <3>6, <3>7
    <2> QED BY <2>1, <2>2
<1>4. ASSUME status' = "finalized" PROVE OnDisk'
    <2>1. ucas' = cas'
        BY <1>1, <1>4
    <2>2. HeaderChunk' = HeaderChunk
        BY <1>1 DEF HeaderChunk
    <2>3. utoc' = [chunks |-> chunks', chunk_offset_lengths |-> chunk_offset_lengths',
                   compression_blocks |-> compression_blocks', metas |-> chunk_metas',
                   files |-> directory_index', key |-> config'.key,
                   methods |-> IF config'.compression = NoMethod THEN <<>>
                               ELSE <<config'.compression>>]
        BY <1>1 DEF TocOnDisk
    <2> QED BY <1>1, <1>3, <2>1, <2>2, <2>3 DEF OnDisk
<1> QED BY <1>3, <1>4 DEF WriterInv

\* Nothing changes.
LEMMA StutterKeeps ==
    ASSUME WriterInv, UNCHANGED vars
    PROVE  WriterInv'
<1>1. /\ config' = config /\ status' = status /\ cas' = cas /\ cas_offset' = cas_offset
      /\ chunks' = chunks /\ chunk_offset_lengths' = chunk_offset_lengths
      /\ compression_blocks' = compression_blocks /\ chunk_metas' = chunk_metas
      /\ directory_index' = directory_index /\ packages' = packages
      /\ utoc' = utoc /\ ucas' = ucas /\ written' = written
    BY DEF vars, tables
<1>2. TypeOK' <=> TypeOK
    BY <1>1 DEF TypeOK
<1>3. CasOK' <=> CasOK
    BY <1>1 DEF CasOK
<1>4. RowsOK' <=> RowsOK
    BY <1>1 DEF RowsOK
<1>5. PathsOK' <=> PathsOK
    BY <1>1 DEF PathsOK, WithPath, LeadsToLast
<1>6. PackagesOK' <=> PackagesOK
    BY <1>1 DEF PackagesOK, WithId, LeadsToLast
<1>7. OnDisk' <=> OnDisk
    BY <1>1 DEF OnDisk, HeaderChunk
<1> QED BY <1>1, <1>2, <1>3, <1>4, <1>5, <1>6, <1>7 DEF WriterInv

\* In every reachable state the tables say where each chunk is.
THEOREM WriterInvariant == Spec => []WriterInv
<1>1. Init => WriterInv
    BY InitHolds
<1>2. WriterInv /\ [Next]_vars => WriterInv'
    <2> SUFFICES ASSUME WriterInv, [Next]_vars PROVE WriterInv'
        OBVIOUS
    <2>1. CASE \E path \in Paths \cup {NoPath, Outside}, data \in Data, id \in ChunkIds :
                    WriteChunk(id, path, data)
        BY <2>1, WriteChunkKeeps
    <2>2. CASE \E path \in Paths \cup {NoPath, Outside}, data \in Data, id \in PackageIds :
                    WritePackageChunk(id, path, data)
        BY <2>2, WritePackageChunkKeeps
    <2>3. CASE \E path \in Paths \cup {NoPath, Outside}, data \in Data,
                  id \in OtherIds \cup PackageIds : WriteFails(id, path, data)
        BY <2>3, WriteFailsKeeps
    <2>4. CASE Finalize
        BY <2>4, FinalizeKeeps
    <2>5. CASE UNCHANGED vars
        BY <2>5, StutterKeeps
    <2>6. Done => UNCHANGED vars
        BY DEF Done
    <2> QED BY <2>1, <2>2, <2>3, <2>4, <2>5, <2>6 DEF Next
<1> QED BY <1>1, <1>2, PTL DEF Spec

-----------------------------------------------------------------------------
(* What follows from it                                                    *)

\* The entries tile the .ucas.
LEMMA InvTilesCas == WriterInv => BlocksTileCas
<1> SUFFICES ASSUME WriterInv PROVE BlocksTileCas
    OBVIOUS
<1>1. TypeOK
    BY DEF WriterInv
<1>2. ASSUME status # "failed"
      PROVE  LET start == Offsets(0, [k \in DOMAIN compression_blocks |->
                                Stride(compression_blocks[k].csize, config.key)])
             IN  /\ \A k \in DOMAIN compression_blocks :
                        compression_blocks[k].offset = start[k] % OffsetLimit
                 /\ start[Len(compression_blocks) + 1] = Len(cas)
                 /\ cas_offset = Len(cas)
    <2>1. CasOK
        BY <1>2 DEF WriterInv
    <2>2. Tiled(compression_blocks, cas, config.key) /\ cas_offset = Len(cas)
        BY <2>1 DEF CasOK
    <2>3. IsSeq(compression_blocks)
        BY <2>2 DEF Tiled
    <2>4. DOMAIN compression_blocks = 1..Len(compression_blocks)
        BY <2>3, SeqHas
    <2> QED BY <2>2, <2>4 DEF Tiled, Strides
<1> QED BY <1>1, <1>2 DEF BlocksTileCas

\* The blocks of a write load, one by one, under the methods and the key.
AllLoad(w, c, T, s, methods) ==
    \A k \in 1..Len(Blocks(w.data)) :
        LoadedBlock(s, T[w.start + k], methods, c.key) = Readable(Blocks(w.data)[k])

\* Every block of a chunk that is there loads.
LEMMA BlocksLoad ==
    ASSUME NEW w, NEW c, NEW T, NEW s, IsSeq(s), ChunkOK(w, c, T, s), w.end <= OffsetLimit,
           NEW methods, c.compression # NoMethod => methods[1] = c.compression
    PROVE  AllLoad(w, c, T, s, methods)
<1>1. PICK b, n : b = Blocks(w.data) /\ n = Len(b)
    OBVIOUS
<1>2. PICK m \in {NoMethod, c.compression} :
            \A k \in 1..n : Storable(b[k], m) /\ LaidOut(T, s, c.key, w.start + k, b[k], m, w.end)
    BY <1>1 DEF ChunkOK
<1>3. Len(s) \in Nat /\ w.end \in Nat
    <2>1. Len(s) \in Nat /\ w.end \in 0..Len(s)
        BY SeqHas DEF ChunkOK
    <2> QED BY <2>1
<1>4. ASSUME NEW k \in 1..n PROVE LoadedBlock(s, T[w.start + k], methods, c.key) = Readable(b[k])
    <2>1. PICK st : st = StoredBlock(b[k], m, c.key)
        OBVIOUS
    <2>2. PICK e : e = T[w.start + k]
        OBVIOUS
    <2>3. PICK o \in 0..Len(s) : /\ e = BlockEntry(o, st)
                                 /\ o + Len(st.bytes) <= w.end
                                 /\ Holds(s, o, st.bytes)
        BY <1>2, <2>1, <2>2 DEF LaidOut
    <2>4. Storable(b[k], m)
        BY <1>2
    <2>5. Len(st.bytes) \in Nat \ {0}
        BY <2>1, <2>4, StoredIs
    <2>6. o \in Nat /\ o < OffsetLimit
        BY <1>3, <2>3, <2>5, OffsetLimitPositive
    <2>7. o % OffsetLimit = o
        BY <2>6, Small, OffsetLimitPositive
    <2>8. /\ e.offset = o /\ e.csize = st.csize /\ e.usize = st.usize /\ e.method = st.method
        BY <2>3, <2>7, EntryIs
    <2>9. m # NoMethod => methods[1] = m
        BY <1>2
    <2>10. LoadedBlock(s, e, methods, c.key) = Readable(b[k])
        BY <2>1, <2>3, <2>4, <2>6, <2>8, <2>9, LoadsBack
    <2> QED BY <2>2, <2>10
<1> QED BY <1>1, <1>4 DEF AllLoad

\* What the finished container has.
LEMMA FinalizedIs ==
    ASSUME WriterInv, status = "finalized"
    PROVE  /\ TypeOK /\ CasOK /\ RowsOK /\ PathsOK /\ PackagesOK /\ ucas = cas
           /\ utoc.chunks = chunks /\ utoc.chunk_offset_lengths = chunk_offset_lengths
           /\ utoc.compression_blocks = compression_blocks /\ utoc.metas = chunk_metas
           /\ utoc.files = directory_index /\ utoc.key = config.key
           /\ utoc.methods = IF config.compression = NoMethod THEN <<>>
                             ELSE <<config.compression>>
           /\ config.header => /\ Len(written) > 0
                               /\ written[Len(written)].id = HeaderId
                               /\ written[Len(written)].data = HeaderChunk
<1>1. TypeOK /\ CasOK /\ RowsOK /\ PathsOK /\ PackagesOK /\ OnDisk
    BY DEF WriterInv
<1>2. utoc = [chunks |-> chunks, chunk_offset_lengths |-> chunk_offset_lengths,
              compression_blocks |-> compression_blocks, metas |-> chunk_metas,
              files |-> directory_index, key |-> config.key,
              methods |-> IF config.compression = NoMethod THEN <<>>
                          ELSE <<config.compression>>]
    BY <1>1 DEF OnDisk
<1>3. /\ utoc.chunks = chunks /\ utoc.chunk_offset_lengths = chunk_offset_lengths
      /\ utoc.compression_blocks = compression_blocks /\ utoc.metas = chunk_metas
      /\ utoc.files = directory_index /\ utoc.key = config.key
    BY <1>2
<1>4. utoc.methods = IF config.compression = NoMethod THEN <<>> ELSE <<config.compression>>
    BY <1>2
<1>5. /\ ucas = cas
      /\ config.header => /\ Len(written) > 0
                          /\ written[Len(written)].id = HeaderId
                          /\ written[Len(written)].data = HeaderChunk
    BY <1>1 DEF OnDisk
<1> QED BY <1>1, <1>3, <1>4, <1>5

\* A chunk of the finished container that fits is read back.
LEMMA ReadsBack ==
    ASSUME WriterInv, status = "finalized", NEW i \in 1..Len(written), Fits(i),
           Len(written[i].data) > 0 \/ utoc.chunk_offset_lengths[i].offset > 0
    PROVE  /\ ReadChunk(utoc, ucas, i) = Readable(written[i].data)
           /\ utoc.metas[i] = written[i].data
<1>1. PICK w, c, T, s, toc : /\ w = written[i] /\ c = config /\ T = compression_blocks
                             /\ s = cas /\ toc = utoc
    OBVIOUS
<1>2. /\ CasOK /\ RowsOK /\ ucas = s
      /\ toc.compression_blocks = T /\ toc.key = c.key
      /\ toc.methods = IF c.compression = NoMethod THEN <<>> ELSE <<c.compression>>
      /\ toc.chunk_offset_lengths[i] = chunk_offset_lengths[i] /\ toc.metas[i] = chunk_metas[i]
    BY <1>1, FinalizedIs
<1>3. /\ chunk_metas[i] = w.data
      /\ chunk_offset_lengths[i] = OffsetAndLength(w.start * BlockSize, Len(w.data))
      /\ ChunkOK(w, c, T, s)
    BY <1>1, <1>2 DEF RowsOK
<1>4. IsSeq(s) /\ IsSeq(T) /\ Len(T) \in Nat
    <2>1. IsSeq(s) /\ IsSeq(T)
        BY <1>1, <1>2 DEF CasOK, Tiled
    <2> QED BY <2>1, SeqHas
<1>5. /\ IsSeq(w.data) /\ w.start \in Nat /\ w.start + Len(Blocks(w.data)) <= Len(T)
    BY <1>3 DEF ChunkOK
<1>6. w.end <= OffsetLimit /\ w.start * BlockSize + Len(w.data) < OffsetLimit
    BY <1>1 DEF Fits
<1>7. PICK x, l : x = w.start * BlockSize /\ l = Len(w.data)
    OBVIOUS
<1>8. x \in Nat /\ l \in Nat
    BY <1>5, <1>7, SeqHas, BlockSizesPositive
<1>9. x < OffsetLimit /\ l < OffsetLimit
    BY <1>6, <1>7, <1>8, OffsetLimitPositive
<1>10. x % OffsetLimit = x /\ l % OffsetLimit = l
    BY <1>8, <1>9, Small, OffsetLimitPositive
<1>11. OffsetAndLength(x, l) = [offset |-> x, length |-> l]
    BY <1>10 DEF OffsetAndLength
<1>12. toc.chunk_offset_lengths[i] = [offset |-> w.start * BlockSize, length |-> Len(w.data)]
    BY <1>2, <1>3, <1>7, <1>11
<1>13. Len(w.data) > 0 \/ w.start * BlockSize > 0
    <2>1. toc.chunk_offset_lengths[i].offset = w.start * BlockSize
        BY <1>12
    <2> QED BY <1>1, <2>1
<1>14. c.compression # NoMethod => toc.methods[1] = c.compression
    BY <1>2
<1>15. \A k \in 1..Len(Blocks(w.data)) :
            LoadedBlock(s, T[w.start + k], toc.methods, c.key) = Readable(Blocks(w.data)[k])
    <2>1. PICK methods : methods = toc.methods
        OBVIOUS
    <2>2. c.compression # NoMethod => methods[1] = c.compression
        BY <1>14, <2>1
    <2>3. AllLoad(w, c, T, s, methods)
        BY <1>3, <1>4, <1>6, <2>2, BlocksLoad
    <2> QED BY <2>1, <2>3 DEF AllLoad
<1>16. ReadChunk(toc, s, i) = Readable(w.data)
    <2>1. PICK d, a : d = w.data /\ a = w.start
        OBVIOUS
    <2>2. /\ toc.chunk_offset_lengths[i] = [offset |-> a * BlockSize, length |-> Len(d)]
          /\ Len(d) > 0 \/ a * BlockSize > 0
          /\ IsSeq(d) /\ a \in Nat
          /\ a + Len(Blocks(d)) <= Len(toc.compression_blocks)
          /\ Len(toc.compression_blocks) \in Nat
        BY <1>2, <1>4, <1>5, <1>12, <1>13, <2>1
    <2>3. \A k \in 1..Len(Blocks(d)) :
                LoadedBlock(s, toc.compression_blocks[a + k], toc.methods, toc.key)
                    = Readable(Blocks(d)[k])
        BY <1>2, <1>15, <2>1
    <2>4. ReadChunk(toc, s, i) = Readable(d)
        BY <2>2, <2>3, ChunkReads
    <2> QED BY <2>1, <2>4
<1> QED BY <1>1, <1>2, <1>3, <1>16

\* Every chunk that fits is read back.
LEMMA InvReadsBack == WriterInv => ReadsBackWhatWasWritten
<1> SUFFICES ASSUME WriterInv, status = "finalized", NEW i \in DOMAIN written, Fits(i),
                    Len(written[i].data) > 0 \/ utoc.chunk_offset_lengths[i].offset > 0
             PROVE  /\ ReadChunk(utoc, ucas, i) = Readable(written[i].data)
                    /\ utoc.metas[i] = written[i].data
    BY DEF ReadsBackWhatWasWritten
<1>1. i \in 1..Len(written)
    BY FinalizedIs, SeqHas DEF RowsOK
<1> QED BY <1>1, ReadsBack

\* The last chunk of an id, in the table on disk.
LEMMA LookedUp ==
    ASSUME WriterInv, status = "finalized", NEW id, NEW m \in WithId(id),
           \A i \in WithId(id) : i <= m
    PROVE  /\ ChunkIdMap(utoc, id) = m
           /\ Max({i \in DOMAIN written : written[i].id = id}) = m
<1>1. PICK n : n = Len(written)
    OBVIOUS
<1>2. RowsOK /\ utoc.chunks = chunks
    BY FinalizedIs
<1>3. /\ n \in Nat /\ DOMAIN written = 1..n /\ DOMAIN chunks = 1..n
      /\ \A i \in 1..n : chunks[i] = written[i].id
    BY <1>1, <1>2, SeqHas DEF RowsOK
<1>4. {i \in DOMAIN written : written[i].id = id} = WithId(id)
    BY DEF WithId
<1>5. {i \in DOMAIN utoc.chunks : utoc.chunks[i] = id} = WithId(id)
    BY <1>2, <1>3 DEF WithId
<1>6. WithId(id) \subseteq Nat
    BY <1>3 DEF WithId
<1>7. PICK S : S = WithId(id)
    OBVIOUS
<1>8. Max(S) = m
    BY <1>6, <1>7, MaxIs
<1> QED BY <1>4, <1>5, <1>7, <1>8 DEF ChunkIdMap

\* The store entry and the package data are of the same write.
LEMMA InvEntriesAgree == WriterInv => PackageAndStoreEntryAgree
<1> SUFFICES ASSUME WriterInv, status = "finalized", config.header, Fits(Len(written)),
                    NEW id \in PackageIds \cap {written[i].id : i \in DOMAIN written}
             PROVE  LET header == ReadChunk(utoc, ucas, ChunkIdMap(utoc, HeaderId)).data[1].packages
                    IN  /\ id \in DOMAIN header
                        /\ header[id] = written[ChunkIdMap(utoc, id)].entry
                        /\ ChunkIdMap(utoc, id) = Max({i \in DOMAIN written : written[i].id = id})
    BY DEF PackageAndStoreEntryAgree
<1>1. PICK n, p : n = Len(written) /\ p = packages
    OBVIOUS
<1>2. /\ RowsOK /\ PackagesOK /\ n > 0 /\ written[n].id = HeaderId
      /\ written[n].data = Pad(<<[packages |-> p]>>, AesBlock)
    BY <1>1, FinalizedIs DEF HeaderChunk
<1>3. n \in Nat /\ DOMAIN written = 1..n
    BY <1>1, <1>2, SeqHas DEF RowsOK
<1>4. n \in 1..n
    BY <1>2, <1>3
<1>5. ChunkIdMap(utoc, HeaderId) = n
    <2>1. n \in WithId(HeaderId) /\ \A i \in WithId(HeaderId) : i <= n
        BY <1>2, <1>3, <1>4 DEF WithId
    <2> QED BY <2>1, LookedUp
<1>6. PICK d : d = written[n].data
    OBVIOUS
<1>7. Len(d) > 0 /\ d[1].packages = p
    <2>1. PICK t : t = <<[packages |-> p]>>
        OBVIOUS
    <2>2. IsSeq(t) /\ Len(t) = 1 /\ t[1] = [packages |-> p]
        BY <2>1, Single
    <2>3. d = Pad(t, AesBlock)
        BY <1>2, <1>6, <2>1
    <2>4. /\ Len(d) = Align(Len(t), AesBlock) /\ Len(t) <= Align(Len(t), AesBlock)
          /\ Align(Len(t), AesBlock) \in Nat
          /\ \A i \in 1..Len(t) : d[i] = t[i]
        BY <2>2, <2>3, PadIs
    <2>5. 1 \in 1..Len(t)
        BY <2>2
    <2>6. Len(d) > 0
        BY <2>2, <2>4
    <2> QED BY <2>2, <2>4, <2>5, <2>6
<1>8. ReadChunk(utoc, ucas, n).data[1].packages = p
    <2>1. ReadChunk(utoc, ucas, n) = Readable(d)
        BY <1>1, <1>4, <1>6, <1>7, ReadsBack
    <2> QED BY <1>7, <2>1 DEF Readable
<1>9. PICK m : m = p[id]
    OBVIOUS
<1>10. /\ id \in DOMAIN p /\ m \in WithId(id) /\ \A i \in WithId(id) : i <= m
       /\ written[m].entry = m
    <2>1. WithId(id) # {}
        BY DEF WithId
    <2>2. LeadsToLast(p, id, WithId(id)) /\ (id \in DOMAIN p => written[p[id]].entry = p[id])
        BY <1>1, <1>2 DEF PackagesOK
    <2> QED BY <1>9, <2>1, <2>2 DEF LeadsToLast
<1>11. /\ ChunkIdMap(utoc, id) = m
       /\ Max({i \in DOMAIN written : written[i].id = id}) = m
    BY <1>10, LookedUp
<1> QED BY <1>5, <1>8, <1>9, <1>10, <1>11

\* A path names its chunk, and the chunk its path.
LEMMA InvPathsLead == WriterInv => PathsLeadToTheirChunk
<1> SUFFICES ASSUME WriterInv, status = "finalized", NEW p \in Paths
             PROVE  LET writes == {i \in DOMAIN written : written[i].path = p}
                    IN  IF writes = {} THEN p \notin DOMAIN utoc.files
                        ELSE /\ p \in DOMAIN utoc.files
                             /\ utoc.files[p] = Max(writes)
                             /\ FileName(utoc, utoc.files[p]) = p
    BY DEF PathsLeadToTheirChunk
<1>1. PICK S, toc, f : S = WithPath(p) /\ toc = utoc /\ f = toc.files
    OBVIOUS
<1>2. TypeOK /\ RowsOK /\ PathsOK /\ f = directory_index
    BY <1>1, FinalizedIs
<1>3. \A q \in DOMAIN f : q \in Paths
    BY <1>2 DEF TypeOK
<1>4. \A q \in Paths : LeadsToLast(f, q, WithPath(q))
    BY <1>2 DEF PathsOK
<1>5. \A q \in DOMAIN f : written[f[q]].path = q
    BY <1>3, <1>4 DEF LeadsToLast, WithPath
<1>6. S = {i \in DOMAIN written : written[i].path = p}
    BY <1>1 DEF WithPath
<1>7. LeadsToLast(f, p, S)
    BY <1>1, <1>4
<1>8. CASE S = {}
    BY <1>1, <1>6, <1>7, <1>8 DEF LeadsToLast
<1>9. CASE S # {}
    <2>1. p \in DOMAIN f /\ f[p] \in S /\ \A i \in S : i <= f[p]
        BY <1>7, <1>9 DEF LeadsToLast
    <2>2. S \subseteq Nat
        BY <1>2, <1>6, SeqHas DEF RowsOK
    <2>3. PICK m : m = f[p]
        OBVIOUS
    <2>4. Max(S) = m
        BY <2>1, <2>2, <2>3, MaxIs
    <2>5. FileName(toc, m) = p
        <3>1. \A q \in DOMAIN f : f[q] = m => q = p
            BY <1>5, <2>1, <2>3
        <3>2. FileName(toc, m) = CHOOSE q \in DOMAIN f : f[q] = m
            BY <1>1, <2>1, <2>3 DEF FileName
        <3> QED BY <2>1, <2>3, <3>1, <3>2
    <2> QED BY <1>1, <1>6, <1>9, <2>1, <2>3, <2>4, <2>5
<1> QED BY <1>8, <1>9

\* The block table tiles the .ucas and cas_offset is its end, whatever
\* write_chunk, write_package_chunk and finalize are called with and in which
\* order: no block is entered at a place that is not its own.
THEOREM BlocksFollowOn == Spec => []BlocksTileCas
BY WriterInvariant, InvTilesCas, PTL

\* What Toc::read gives for a chunk of a finished container is what
\* write_chunk_inner was given, compressed and enciphered or not; the chunk must
\* fit the 40-bit offsets and not be an empty one at offset 0.
THEOREM WhatIsWrittenIsRead == Spec => []ReadsBackWhatWasWritten
BY WriterInvariant, InvReadsBack, PTL

\* A package written twice is one package: the store entry in the container
\* header on disk is of the same write_package_chunk as the data a lookup finds.
THEOREM StoreEntriesAgree == Spec => []PackageAndStoreEntryAgree
BY WriterInvariant, InvEntriesAgree, PTL

\* The directory index of a finished container names the last chunk of a path.
THEOREM PathsAreRight == Spec => []PathsLeadToTheirChunk
BY WriterInvariant, InvPathsLead, PTL
=============================================================================
