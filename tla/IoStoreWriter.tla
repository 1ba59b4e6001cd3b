--------------------------- MODULE IoStoreWriter ---------------------------
(***************************************************************************)
(* src/src/iostore_writer.rs, and the table of contents it writes as the   *)
(* reader in src/src/lib.rs (Toc) sees it: chunks are cut into blocks that *)
(* are compressed, encrypted and appended to the .ucas, while the block    *)
(* table, the chunk table, the directory index and the container header    *)
(* grow in memory; finalize() appends the header as a last chunk and       *)
(* writes the .utoc.                                                       *)
(*                                                                         *)
(* An error in the middle of a chunk makes every caller return, which      *)
(* drops the writer: "failed" is final.                                    *)
(***************************************************************************)
EXTENDS CasCodec

CONSTANTS PackageIds,    \* ids of ExportBundleData chunks
          OtherIds,      \* ids of chunks that hold no package
          HeaderId,      \* the id of the ContainerHeader chunk
          Paths,         \* file paths under the mount point
          NoPath,        \* Option<&UEPath>::None
          Outside,       \* a path that is not under the mount point
          Data,          \* the chunk contents offered
          Methods,       \* compression methods a container may be given
          Keys,          \* AES keys a container may be given
          NoEntry,       \* a chunk that is not a package has no store entry
          MaxChunks,     \* bound: chunks written before finalize
          OffsetLimit    \* 2^40: what the offset fields hold

ASSUME OffsetLimitPositive == OffsetLimit \in Nat \ {0}

\* The type of a chunk is part of its id.
ASSUME IdsApart == HeaderId \notin PackageIds /\ PackageIds \cap OtherIds = {}
ASSUME PathsProper == NoPath \notin Paths /\ Outside \notin Paths

\* Chunks are sequences of bytes, and compress to at least a byte a block.
ASSUME DataAreBytes ==
    \A data \in Data :
        /\ data \in Seq(Range(data))
        /\ \A k \in DOMAIN Blocks(data) : PackedLen(Blocks(data)[k]) \in Nat \ {0}

VARIABLES config,        \* what IoStoreWriter::new was given
          status,        \* "open", "finalized", or "failed" once a call has
          cas,           \* the bytes written to cas_stream
          cas_offset,    \* IoStoreWriter::cas_offset
          chunks, chunk_offset_lengths, compression_blocks, chunk_metas,
          directory_index,  \* path -> user_data, as add_file left it
          packages,      \* the container header: package -> store entry
          utoc, ucas,    \* the two files on disk
          written        \* history: every chunk whose write returned Ok

tables == <<chunks, chunk_offset_lengths, compression_blocks, chunk_metas>>
vars == <<config, status, cas, cas_offset, tables, directory_index, packages,
          utoc, ucas, written>>

NoFile == <<>>

\* FIoOffsetAndLength::new and FIoStoreTocCompressedBlockEntry::new keep the
\* low 40 bits of an offset.
OffsetAndLength(offset, length) ==
    [offset |-> offset % OffsetLimit, length |-> length % OffsetLimit]
BlockEntry(offset, stored) ==
    [offset |-> offset % OffsetLimit, csize |-> stored.csize,
     usize |-> stored.usize, method |-> stored.method]

Init ==
    /\ config \in [compression : Methods \cup {NoMethod},
                   key : Keys \cup {NoKey},
                   header : BOOLEAN]
    /\ status = "open"
    /\ cas = <<>>
    /\ cas_offset = 0
    /\ chunks = <<>>
    /\ chunk_offset_lengths = <<>>
    /\ compression_blocks = <<>>
    /\ chunk_metas = <<>>
    /\ directory_index = <<>>
    /\ packages = <<>>
    /\ utoc = NoFile
    /\ ucas = NoFile
    /\ written = <<>>

\* insert() on a map: the entry of a key that is there is replaced.
Insert(map, key, value) ==
    [k \in DOMAIN map \cup {key} |-> IF k = key THEN value ELSE map[k]]

\* A variant of AddFile that keeps the first chunk of a path.
AddFileKeepsFirst(path) ==
    IF path = NoPath \/ path \in DOMAIN directory_index THEN directory_index
    ELSE Insert(directory_index, path, Len(chunks) + 1)

\* directory_index.add_file: a path that exists is pointed at the new chunk.
\* It runs before any data is written, with the index the chunk will have.
AddFile(path) ==
    IF path = NoPath THEN directory_index
    ELSE Insert(directory_index, path, Len(chunks) + 1)

\* The blocks as they are stored, appended to the .ucas and entered in the block
\* table at these offsets.
Appended(stored, offset) ==
    [cas    |-> cas \o FlattenSeq([k \in DOMAIN stored |-> stored[k].bytes]),
     table  |-> compression_blocks \o
                    [k \in DOMAIN stored |-> BlockEntry(offset[k], stored[k])],
     offset |-> offset[Len(stored) + 1]]

\* A variant of WriteBlocks that advances by the size before padding.
WriteBlocksUnpadded(blocks, compression) ==
    LET stored == [k \in DOMAIN blocks |-> StoredBlock(blocks[k], compression, config.key)]
    IN  Appended(stored, Offsets(cas_offset, [k \in DOMAIN stored |-> stored[k].csize]))

\* The loop over data.chunks(): each block goes to the .ucas and the block
\* table, and advances the local offset by the bytes written.
WriteBlocks(blocks, compression) ==
    LET stored == [k \in DOMAIN blocks |-> StoredBlock(blocks[k], compression, config.key)]
    IN  Appended(stored, Offsets(cas_offset, [k \in DOMAIN stored |-> Len(stored[k].bytes)]))

\* write_chunk_inner.  The chunk's offset counts uncompressed blocks; its hash
\* is that of the data, symbolically the data itself.
WriteChunkInner(id, path, data, compression, entry) ==
    LET w == WriteBlocks(Blocks(data), compression)
        start_block == Len(compression_blocks)
    IN  /\ path # Outside
        /\ directory_index' = AddFile(path)
        /\ cas' = w.cas
        /\ compression_blocks' = w.table
        /\ cas_offset' = w.offset
        /\ chunks' = Append(chunks, id)
        /\ chunk_offset_lengths' =
            Append(chunk_offset_lengths,
                   OffsetAndLength(start_block * BlockSize, Len(data)))
        /\ chunk_metas' = Append(chunk_metas, data)
        /\ written' = Append(written, [id |-> id, path |-> path, data |-> data, entry |-> entry,
                                       start |-> start_block, end |-> w.offset])

\* The ids written without a store entry: all of them in a container without a
\* header, as pack_raw makes it.
ChunkIds == OtherIds \cup IF config.header THEN {} ELSE PackageIds

\* write_chunk, write_chunk_raw
WriteChunk(id, path, data) ==
    /\ status = "open"
    /\ Len(chunks) < MaxChunks
    /\ WriteChunkInner(id, path, data, config.compression, NoEntry)
    /\ UNCHANGED <<config, status, packages, utoc, ucas>>

\* A variant of WritePackageChunk that keeps the first store entry of a package.
WritePackageChunkKeepsFirst(id, path, data) ==
    /\ status = "open"
    /\ config.header
    /\ Len(chunks) < MaxChunks
    /\ packages' = IF id \in DOMAIN packages THEN packages
                 ELSE Insert(packages, id, Len(written) + 1)
    /\ WriteChunkInner(id, path, data, config.compression, Len(written) + 1)
    /\ UNCHANGED <<config, status, utoc, ucas>>

\* write_package_chunk: the store entry is registered first; the container must
\* have a header.  The entry is told apart by the write it comes from.
WritePackageChunk(id, path, data) ==
    /\ status = "open"
    /\ config.header
    /\ Len(chunks) < MaxChunks
    /\ packages' = Insert(packages, id, Len(written) + 1)
    /\ WriteChunkInner(id, path, data, config.compression, Len(written) + 1)
    /\ UNCHANGED <<config, status, utoc, ucas>>

\* A write that returns Err: the path is outside the mount point, or compress()
\* or the output fails after some blocks.  What was done before stays: the store
\* entry, the directory entry, the blocks, but neither cas_offset nor the chunk
\* table moves.  The caller drops the writer, which flushes cas_stream; nothing
\* was written to toc_stream.
WriteFails(id, path, data) ==
    /\ status = "open"
    /\ Len(chunks) < MaxChunks
    /\ status' = "failed"
    /\ packages' = IF id \in PackageIds /\ config.header
                   THEN Insert(packages, id, Len(written) + 1) ELSE packages
    /\ IF path = Outside
       THEN UNCHANGED <<directory_index, cas, compression_blocks>> /\ ucas' = cas
       ELSE /\ directory_index' = AddFile(path)
            /\ \E k \in 0..(Len(Blocks(data)) - 1) :
                LET w == WriteBlocks(SubSeq(Blocks(data), 1, k), config.compression)
                IN  cas' = w.cas /\ compression_blocks' = w.table /\ ucas' = w.cas
    /\ UNCHANGED <<config, cas_offset, chunks, chunk_offset_lengths, chunk_metas,
                   utoc, written>>

\* The serialized container header: one symbolic byte, padded for AES.
HeaderChunk == Pad(<<[packages |-> packages]>>, AesBlock)

\* Toc::ser of the tables finalize() leaves.
TocOnDisk ==
    [chunks |-> chunks', chunk_offset_lengths |-> chunk_offset_lengths',
     compression_blocks |-> compression_blocks', metas |-> chunk_metas',
     files |-> directory_index', key |-> config.key,
     methods |-> IF config.compression = NoMethod THEN <<>>
                 ELSE <<config.compression>>]

\* finalize: the container header becomes the last chunk, never compressed; then
\* the table of contents is serialized, and the .ucas flushed before the .utoc.
\* When flushing the .ucas fails, dropping the writer still flushes the .utoc.
Finalize ==
    /\ status = "open"
    /\ IF config.header
       THEN WriteChunkInner(HeaderId, NoPath, HeaderChunk, NoMethod, NoEntry)
       ELSE UNCHANGED <<directory_index, cas, cas_offset, tables, written>>
    /\ utoc' = TocOnDisk
    /\ \/ status' = "finalized" /\ ucas' = cas'
       \/ /\ status' = "failed"
          /\ cas' # <<>>
          /\ ucas' = SubSeq(cas', 1, Len(cas') - 1)
    /\ UNCHANGED <<config, packages>>

\* The writer is consumed by finalize() and dropped after an error.
Done == status # "open" /\ UNCHANGED vars

Next ==
    \/ \E path \in Paths \cup {NoPath, Outside}, data \in Data :
        \/ \E id \in ChunkIds : WriteChunk(id, path, data)
        \/ \E id \in PackageIds : WritePackageChunk(id, path, data)
        \/ \E id \in OtherIds \cup PackageIds : WriteFails(id, path, data)
    \/ Finalize
    \/ Done

Spec == Init /\ [][Next]_vars

-----------------------------------------------------------------------------
\* The reader's side: opening a .utoc builds chunk_id_map, in which the last
\* chunk of an id wins, and file_map_rev, which names a chunk by its path.
ChunkIdMap(toc, id) == Max({i \in DOMAIN toc.chunks : toc.chunks[i] = id})

FileName(toc, index) ==
    IF \E p \in DOMAIN toc.files : toc.files[p] = index
    THEN CHOOSE p \in DOMAIN toc.files : toc.files[p] = index
    ELSE NoPath

\* The .ucas end and the uncompressed end of chunk i stay in 40 bits.
Fits(i) ==
    /\ written[i].end <= OffsetLimit
    /\ written[i].start * BlockSize + Len(written[i].data) < OffsetLimit

\* The tables of the writer, row by row.
TypeOK ==
    /\ config.compression \in Methods \cup {NoMethod}
    /\ config.key \in Keys \cup {NoKey}
    /\ config.header \in BOOLEAN
    /\ status \in {"open", "finalized", "failed"}
    /\ cas_offset \in Nat
    /\ \A i \in DOMAIN chunks : chunks[i] \in PackageIds \cup OtherIds \cup {HeaderId}
    /\ Len(chunks) = Len(chunk_offset_lengths) /\ Len(chunks) = Len(chunk_metas)
    /\ \A p \in DOMAIN directory_index : p \in Paths
    /\ \A p \in DOMAIN packages : p \in PackageIds

\* The tables agree, and the block table tiles the .ucas: entry after entry, with the AES padding in
\* between, from its first byte to its last, and cas_offset is where the next
\* block goes.  An offset that forgot the padding, or a cas_offset that did not
\* follow, would send every later read to the wrong place.
BlocksTileCas ==
    LET start == Offsets(0, [k \in DOMAIN compression_blocks |->
                                Stride(compression_blocks[k].csize, config.key)])
    IN  /\ TypeOK
        /\ status # "failed" =>
            /\ \A k \in DOMAIN compression_blocks :
                compression_blocks[k].offset = start[k] % OffsetLimit
            /\ start[Len(compression_blocks) + 1] = Len(cas)
            /\ cas_offset = Len(cas)

\* What was written is what is read: in a finished container every chunk, by its
\* index, reads back as the data given to write_chunk, whatever its compression,
\* encryption and neighbours, and so passes action_verify's hash check.  The code
\* has two exceptions: an empty first chunk (the read underflows) and a chunk
\* beyond the 40-bit offsets, which nothing checks.
ReadsBackWhatWasWritten ==
    status = "finalized" =>
        \A i \in DOMAIN written :
            Fits(i) /\ (Len(written[i].data) > 0 \/ utoc.chunk_offset_lengths[i].offset > 0) =>
                /\ ReadChunk(utoc, ucas, i) = Readable(written[i].data)
                /\ utoc.metas[i] = written[i].data

\* A chunk id written twice, a package converted from two inputs, resolves to one
\* write on both sides: the package data that a lookup by id reads and the store
\* entry that the container header on disk holds for it are of the same, last
\* call of write_package_chunk.
PackageAndStoreEntryAgree ==
    status = "finalized" /\ config.header /\ Fits(Len(written)) =>
        LET header == ReadChunk(utoc, ucas, ChunkIdMap(utoc, HeaderId)).data[1].packages
        IN  \A id \in PackageIds \cap {written[i].id : i \in DOMAIN written} :
                /\ id \in DOMAIN header
                /\ header[id] = written[ChunkIdMap(utoc, id)].entry
                /\ ChunkIdMap(utoc, id) = Max({i \in DOMAIN written : written[i].id = id})

\* The directory index of a finished container never points past the chunk table
\* or at a stranger: a path leads to the last chunk written under it, though
\* add_file runs before that chunk exists.
PathsLeadToTheirChunk ==
    status = "finalized" =>
        \A p \in Paths :
            LET writes == {i \in DOMAIN written : written[i].path = p}
            IN  IF writes = {} THEN p \notin DOMAIN utoc.files
                ELSE /\ p \in DOMAIN utoc.files
                     /\ utoc.files[p] = Max(writes)
                     /\ FileName(utoc, utoc.files[p]) = p
=============================================================================
