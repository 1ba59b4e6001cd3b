------------------------------ MODULE CasCodec ------------------------------
(***************************************************************************)
(* How one block of a chunk becomes bytes of a .ucas file and back: the    *)
(* block codec shared by the writer (iostore_writer.rs), the reader        *)
(* (Toc::read in lib.rs) and the repacker (iostore_repack.rs).             *)
(*                                                                         *)
(* Compression and AES are ideal: a compressed byte knows the block and    *)
(* method it stands for and its place in it, a ciphertext byte the key and *)
(* the plaintext group of AesBlock bytes.  Only the whole image, read from *)
(* where it was written with the right method and key, decodes; anything   *)
(* else is garbage or an error, which is what the properties tell apart.   *)
(***************************************************************************)
EXTENDS Naturals, Sequences, SequencesExt

CONSTANTS AesBlock,      \* the AES block size, 16 in the code
          BlockSize,     \* Toc::compression_block_size, a multiple of AesBlock
          PackedLen(_),  \* how long the compressed form of a block is
          NoMethod,      \* Option<CompressionMethod>::None
          NoKey          \* the container is not encrypted

ASSUME BlockSizesPositive == AesBlock \in Nat \ {0} /\ BlockSize \in Nat \ {0}
ASSUME BlockSizeAligned == BlockSize % AesBlock = 0

Align(n, a) == ((n + a - 1) \div a) * a

\* Where each of some things of the given sizes starts when they follow one
\* another from a place, and where the last one ends.
Offsets(from, sizes) ==
    LET at[k \in 1..(Len(sizes) + 1)] ==
            IF k = 1 THEN from ELSE at[k - 1] + sizes[k - 1]
    IN  at

\* What a block of this size takes in a .ucas.
Stride(csize, key) == IF key = NoKey THEN csize ELSE Align(csize, AesBlock)

Zero == [raw |-> 0]
Pad(bytes, a) ==
    bytes \o [i \in 1..(Align(Len(bytes), a) - Len(bytes)) |-> Zero]

\* data.chunks(compression_block_size)
Blocks(data) ==
    [k \in 1..(Align(Len(data), BlockSize) \div BlockSize) |->
        SubSeq(data, (k - 1) * BlockSize + 1,
               IF k * BlockSize <= Len(data) THEN k * BlockSize ELSE Len(data))]

Compress(method, block) ==
    [i \in 1..PackedLen(block) |-> [packed |-> block, method |-> method, at |-> i]]

\* decompress() fills an output of exactly n bytes or fails.
Decompresses(method, bytes, n) ==
    /\ bytes # <<>>
    /\ "packed" \in DOMAIN bytes[1]
    /\ Len(bytes[1].packed) = n
    /\ bytes[1].packed = [i \in 1..n |-> bytes[1].packed[i]]
    /\ bytes = Compress(method, bytes[1].packed)
Decompress(bytes) == bytes[1].packed

Group(bytes, i) == SubSeq(bytes, ((i - 1) \div AesBlock) * AesBlock + 1,
                                 ((i - 1) \div AesBlock + 1) * AesBlock)

Encrypt(key, bytes) ==
    [i \in DOMAIN bytes |->
        [aes |-> Group(bytes, i), key |-> key, at |-> (i - 1) % AesBlock]]

\* A group deciphers when it is, byte for byte, the image of some plaintext.
Decrypt(key, bytes) ==
    [i \in DOMAIN bytes |->
        LET g == Group(bytes, i)
            plain == g[1].aes
        IN  IF "aes" \in DOMAIN g[1] /\ g = Encrypt(key, plain)
            THEN plain[((i - 1) % AesBlock) + 1]
            ELSE [garbled |-> g, at |-> (i - 1) % AesBlock]]

\* A variant of StoredBlock whose table entry has the size after padding.
StoredBlockPaddedSize(block, compression, key) ==
    LET packed == Compress(compression, block)
        keep   == compression # NoMethod /\ Len(packed) < Len(block)
        bytes  == Pad(IF keep THEN packed ELSE block, AesBlock)
    IN  [ bytes  |-> IF key = NoKey THEN bytes ELSE Encrypt(key, bytes),
          csize  |-> Len(bytes),
          usize  |-> Len(block),
          method |-> IF keep THEN 1 ELSE 0 ]

\* One block as the writer stores it: compressed only if that is shorter,
\* padded to the AES block size only if encrypted; the sizes in the block table
\* are those before padding.
StoredBlock(block, compression, key) ==
    LET packed == Compress(compression, block)
        keep   == compression # NoMethod /\ Len(packed) < Len(block)
        bytes  == IF keep THEN packed ELSE block
    IN  [ bytes  |-> IF key = NoKey THEN bytes ELSE Encrypt(key, Pad(bytes, AesBlock)),
          csize  |-> Len(bytes),
          usize  |-> Len(block),
          method |-> IF keep THEN 1 ELSE 0 ]

Unreadable == [ok |-> FALSE, data |-> <<>>]
Readable(data) == [ok |-> TRUE, data |-> data]

\* read_exact of n bytes at an offset, deciphered if there is a key.
ReadExact(cas, offset, n, key) ==
    IF offset + n > Len(cas) THEN Unreadable
    ELSE LET bytes == SubSeq(cas, offset + 1, offset + n)
         IN  Readable(IF key = NoKey THEN bytes ELSE Decrypt(key, bytes))

\* One block as Toc::read loads it.  An uncompressed block is read by its
\* uncompressed size, a compressed one by its compressed size; with a key both
\* are read up to the next AES boundary and cut afterwards.
LoadedBlock(cas, entry, methods, key) ==
    LET size  == IF entry.method = 0 THEN entry.usize ELSE entry.csize
        read  == ReadExact(cas, entry.offset,
                           IF key = NoKey THEN size ELSE Align(size, AesBlock), key)
        bytes == SubSeq(read.data, 1, size)
    IN  CASE ~read.ok -> Unreadable
          [] read.ok /\ entry.method = 0 -> Readable(bytes)
          [] read.ok /\ entry.method # 0 ->
                IF Decompresses(methods[entry.method], bytes, entry.usize)
                THEN Readable(Decompress(bytes)) ELSE Unreadable

\* Toc::read: the chunk's blocks from the quotient of its offset to that of its
\* end, decoded one after the other and cut to the chunk's length.  For an empty
\* chunk at offset 0 the subtraction in last_block_index underflows and the
\* read panics; any other empty chunk selects the empty range of blocks.
ReadChunk(toc, cas, index) ==
    LET at     == toc.chunk_offset_lengths[index]
        first  == at.offset \div BlockSize + 1
        end    == Align(at.offset + at.length, BlockSize)
        last   == (end - 1) \div BlockSize + 1
        loaded == [b \in first..last |->
                    LoadedBlock(cas, toc.compression_blocks[b], toc.methods, toc.key)]
        data   == FlattenSeq([b \in 1..(last + 1 - first) |-> loaded[first + b - 1].data])
    IN  IF \/ end = 0
           \/ last > Len(toc.compression_blocks)
           \/ \E b \in first..last : ~loaded[b].ok
        THEN Unreadable
        ELSE Readable(SubSeq(data, 1, at.length))
=============================================================================
