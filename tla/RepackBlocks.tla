---------------------------- MODULE RepackBlocks ----------------------------
(***************************************************************************)
(* The transform of repack_iostore() in src/src/iostore_repack.rs: every   *)
(* compression block of a container is read, deciphered, reused or decoded *)
(* and compressed anew, enciphered and appended to a new .ucas, while its  *)
(* entry in the block table is overwritten in place.  The chunk table is   *)
(* kept: it must go on describing the same data.                           *)
(*                                                                         *)
(* The input is a container that any tool may have written: each block     *)
(* uncompressed or under any listed method, the blocks in the .ucas in     *)
(* table order or not, with unused bytes between them.                     *)
(***************************************************************************)
EXTENDS CasCodec

CONSTANTS Methods,       \* compression methods
          MethodLists,   \* the lists of methods an input may declare
          InputKeys,     \* AES keys of inputs
          OutputKeys,    \* AES keys asked for
          Contents,      \* contents of the chunks of the input
          OffsetLimit    \* 2^40, the limit of an offset in the block table

ASSUME OffsetLimitPositive == OffsetLimit \in Nat \ {0}
ASSUME MethodsProper ==
    /\ NoMethod \notin Methods
    /\ \A methods \in MethodLists : methods \in Seq(Methods)
\* Chunks are sequences of bytes, and compress to at least a byte a block.
ASSUME ContentsAreBytes ==
    \A content \in Contents :
        /\ content \in Seq(Range(content))
        /\ \A k \in DOMAIN Blocks(content) : PackedLen(Blocks(content)[k]) \in Nat \ {0}

VARIABLES input,         \* the container being repacked: its toc and its .ucas
          request,       \* the compression method and key asked for
          compression_blocks,  \* toc.compression_blocks, overwritten in place
          destination,   \* the staged .ucas
          index,         \* blocks done
          status         \* "repacking", "staged" or "failed"

blockVars == <<input, request, compression_blocks, destination, index, status>>

\* One block in some form: 0 uncompressed, m under the m-th method listed.
Form(block, methods, m) ==
    IF m = 0 THEN block ELSE Compress(methods[m], block)

\* Which block comes i-th in the .ucas, and where block i comes.
Place(n, backwards, i) == IF backwards THEN n + 1 - i ELSE i

\* The .ucas piece by piece: each block in its form after one unused byte.
Layout(blocks, methods, key, forms, backwards) ==
    LET n == Len(blocks)
        image(i) == LET b == Form(blocks[i], methods, forms[i])
                    IN  IF key = NoKey THEN b ELSE Encrypt(key, Pad(b, AesBlock))
    IN  [j \in 1..n |-> <<Zero>> \o image(Place(n, backwards, j))]

\* A container of the given chunks: block i in form forms[i], the blocks laid
\* out from the first or, backwards, from the last.
BuildContainer(chunks, methods, key, forms, backwards) ==
    LET blocks == FlattenSeq([c \in DOMAIN chunks |-> Blocks(chunks[c])])
        n      == Len(blocks)
        layout == Layout(blocks, methods, key, forms, backwards)
        before(i) == FlattenSeq([j \in 1..(i - 1) |-> layout[j]])
        blocksBefore == Offsets(0, [c \in DOMAIN chunks |-> Len(Blocks(chunks[c]))])
  IN  [ cas |-> before(n + 1),
          toc |-> [ compression_blocks |->
                        [i \in 1..n |->
                            [offset |-> Len(before(Place(n, backwards, i))) + 1,
                             csize  |-> Len(Form(blocks[i], methods, forms[i])),
                             usize  |-> Len(blocks[i]),
                             method |-> forms[i]]],
                    chunk_offset_lengths |->
                        [c \in DOMAIN chunks |->
                            [offset |-> blocksBefore[c] * BlockSize,
                             length |-> Len(chunks[c])]],
                    methods |-> methods,
                    key     |-> key ] ]

TransformInit ==
    /\ \E chunks \in [1..2 -> Contents], methods \in MethodLists,
          key \in InputKeys \cup {NoKey}, backwards \in BOOLEAN, cut \in 0..1 :
        LET n == Len(Blocks(chunks[1])) + Len(Blocks(chunks[2]))
        IN  \E forms \in [1..n -> 0..Len(methods)] :
                LET container == BuildContainer(chunks, methods, key, forms, backwards)
                IN  input = [container EXCEPT !.cas = SubSeq(@, 1, Len(@) - cut)]
    /\ request \in [compression : Methods \cup {NoMethod}, key : OutputKeys \cup {NoKey}]
    /\ compression_blocks = input.toc.compression_blocks
    /\ destination = <<>>
    /\ index = 0
    /\ status = "repacking"

MethodOf(entry) == IF entry.method = 0 THEN NoMethod ELSE input.toc.methods[entry.method]

\* preserve_uncompressed: blocks the source left uncompressed stay so when the
\* source used the wanted method elsewhere, or when none is wanted.
PreserveUncompressed ==
    \/ request.compression = NoMethod
    \/ \E i \in DOMAIN input.toc.methods : input.toc.methods[i] = request.compression

\* A variant of Reuse for which any compressed block will do.
ReuseAnyCompressed(entry) ==
    \/ MethodOf(entry) # NoMethod /\ request.compression # NoMethod
    \/ MethodOf(entry) = NoMethod /\ PreserveUncompressed

Reuse(entry) ==
    \/ MethodOf(entry) = request.compression
    \/ MethodOf(entry) = NoMethod /\ PreserveUncompressed

\* The block's bytes as stored, deciphered and cut to the compressed size.
Encoded(entry) ==
    LET key  == input.toc.key
        read == ReadExact(input.cas, entry.offset,
                          IF key = NoKey THEN entry.csize ELSE Align(entry.csize, AesBlock),
                          key)
    IN  IF read.ok THEN Readable(SubSeq(read.data, 1, entry.csize)) ELSE Unreadable

Decodes(entry, encoded) ==
    \/ MethodOf(entry) = NoMethod
    \/ Decompresses(MethodOf(entry), encoded, entry.usize)

Decoded(entry, encoded) ==
    IF MethodOf(entry) = NoMethod THEN encoded ELSE Decompress(encoded)

\* The block as it will be stored, before encryption.
Output(entry, encoded) ==
    LET plain  == Decoded(entry, encoded)
        packed == Compress(request.compression, plain)
    IN  IF Reuse(entry)
        THEN [bytes |-> encoded, method |-> MethodOf(entry)]
        ELSE IF request.compression # NoMethod /\ Len(packed) < Len(plain)
        THEN [bytes |-> packed, method |-> request.compression]
        ELSE [bytes |-> plain, method |-> NoMethod]

\* The checks that bail out of the loop for this block.
BlockInvalid(entry) ==
    LET encoded == Encoded(entry)
    IN  \/ entry.usize > BlockSize
        \/ entry.csize = 0
        \/ entry.method = 0 /\ entry.csize # entry.usize
        \/ ~encoded.ok
        \/ ~Reuse(entry) /\ ~Decodes(entry, encoded.data)
        \/ Len(destination) >= OffsetLimit

\* FIoStoreTocCompressedBlockEntry::new keeps the low bits of the offset.
NewEntry(entry, out, offset) ==
    [offset |-> offset % OffsetLimit,
     csize  |-> Len(out.bytes),
     usize  |-> entry.usize,
     method |-> IF out.method = NoMethod THEN 0 ELSE 1]

Enciphered(out) ==
    IF request.key = NoKey THEN out.bytes ELSE Encrypt(request.key, Pad(out.bytes, AesBlock))

\* One turn of the loop, on the given entry, with the new entry that results.
Turn(entry, out, table) ==
    /\ status = "repacking"
    /\ ~BlockInvalid(entry)
    /\ compression_blocks' = table
    /\ destination' = destination \o Enciphered(out)
    /\ index' = index + 1
    /\ UNCHANGED <<input, request, status>>

\* A variant of RepackBlock whose offsets count the sizes before padding.
RepackBlockUnpadded ==
    /\ index < Len(compression_blocks)
    /\ LET entry == compression_blocks[index + 1]
           out   == Output(entry, Encoded(entry).data)
           sizes == [i \in 1..index |-> compression_blocks[i].csize]
       IN  Turn(entry, out,
                [compression_blocks EXCEPT ![index + 1] =
                    NewEntry(entry, out, FoldLeft(+, 0, sizes))])

RepackBlock ==
    /\ index < Len(compression_blocks)
    /\ LET entry == compression_blocks[index + 1]
           out   == Output(entry, Encoded(entry).data)
       IN  Turn(entry, out,
                [compression_blocks EXCEPT ![index + 1] =
                    NewEntry(entry, out, Len(destination))])

\* The loop bails out: nothing is published, the staging directory is dropped.
RepackFails ==
    /\ status = "repacking"
    /\ index < Len(compression_blocks)
    /\ BlockInvalid(compression_blocks[index + 1])
    /\ status' = "failed"
    /\ UNCHANGED <<input, request, compression_blocks, destination, index>>

\* Every block is done: the table of contents is staged with the one method
\* asked for, or none.
StageToc ==
    /\ status = "repacking"
    /\ index = Len(compression_blocks)
    /\ status' = "staged"
    /\ UNCHANGED <<input, request, compression_blocks, destination, index>>

Transform == RepackBlock \/ RepackFails \/ StageToc

-----------------------------------------------------------------------------
StagedToc ==
    [input.toc EXCEPT !.compression_blocks = compression_blocks,
                      !.methods = IF request.compression = NoMethod THEN <<>>
                                  ELSE <<request.compression>>,
                      !.key = request.key]

Chunks == DOMAIN input.toc.chunk_offset_lengths

TransformTypeOK ==
    /\ request.compression \in Methods \cup {NoMethod}
    /\ request.key \in OutputKeys \cup {NoKey}
    /\ index \in 0..Len(compression_blocks)
    /\ Len(compression_blocks) = Len(input.toc.compression_blocks)
    /\ status \in {"repacking", "staged", "failed"}

\* The payload is preserved: every chunk that could be read from the input reads
\* as the same data from the staged container, with the same chunk table, under
\* the new method and key.  A block reused under another method, a method left out
\* of the new list, or an offset beyond 40 bits would break it.
PayloadPreserved ==
    status = "staged" =>
        \A c \in Chunks :
            ReadChunk(StagedToc, destination, c) = ReadChunk(input.toc, input.cas, c)

\* While the loop runs the table is half rewritten, and no entry is read twice:
\* the entries done lead into the destination, one after the other from its first
\* byte to its last, those to come are still the input's.
TableHalfRewritten ==
    LET start == Offsets(0, [k \in 1..index |->
                                Stride(compression_blocks[k].csize, request.key)])
    IN  /\ \A k \in 1..index : compression_blocks[k].offset = start[k]
        /\ start[index + 1] = Len(destination)
        /\ \A k \in (index + 1)..Len(compression_blocks) :
            compression_blocks[k] = input.toc.compression_blocks[k]

\* Toggling encryption never re-encodes: a block already in the wanted form goes
\* through verbatim, so that encrypting and decrypting again is the identity; and
\* no block grows unless it had to be decompressed.
ReusedVerbatim ==
    \A k \in 1..index :
        LET before == input.toc.compression_blocks[k]
            after  == compression_blocks[k]
            stored == SubSeq(destination, after.offset + 1, after.offset + after.csize)
        IN  /\ Reuse(before) /\ request.key = NoKey =>
                stored = Encoded(before).data
            /\ after.csize <= IF Reuse(before) THEN before.csize ELSE after.usize
=============================================================================
