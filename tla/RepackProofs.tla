---------------------------- MODULE RepackProofs ----------------------------
(***************************************************************************)
(* A repacked container holds the same payload, and replaces the old one   *)
(* at one stroke: for any chunks, laid out in any way under any methods,   *)
(* any block sizes, any method and key asked for, and a bundle of any      *)
(* number of files.                                                        *)
(*                                                                         *)
(* The loop first: an entry that is done leads to a piece of the staged    *)
(* .ucas that opens as what the input's entry gave, and the pieces follow  *)
(* one another.  Then publish(): what each file's place, backup and        *)
(* membership of the two vectors have to do with each other.  Last, both   *)
(* together.                                                               *)
(***************************************************************************)
EXTENDS Repack, CasCodecProofs

(* The invariant of the loop                                               *)

OldTable == input.toc.compression_blocks

\* What the block table of an input may hold; whatever its blocks decode to can
\* be compressed.
EntryOK(e) ==
    /\ e.offset \in Nat /\ e.csize \in Nat /\ e.usize \in Nat \ {0}
    /\ e.method \in 0..Len(input.toc.methods)
    /\ Encoded(e).ok /\ Decodes(e, Encoded(e).data) =>
            PackedLen(Decoded(e, Encoded(e).data)) \in Nat \ {0}

InputOK ==
    /\ {"compression_blocks", "chunk_offset_lengths", "methods", "key"} \subseteq DOMAIN input.toc
    /\ IsSeq(input.cas) /\ IsSeq(OldTable) /\ input.toc.methods \in Seq(Methods)
    /\ \A i \in 1..Len(OldTable) : EntryOK(OldTable[i])
    /\ \A c \in Chunks : /\ input.toc.chunk_offset_lengths[c].offset \in Nat
                         /\ input.toc.chunk_offset_lengths[c].length \in Nat

NewMethods == IF request.compression = NoMethod THEN <<>> ELSE <<request.compression>>

OldBlock(k) == LoadedBlock(input.cas, OldTable[k], input.toc.methods, input.toc.key)
NewBlock(k) == LoadedBlock(destination, compression_blocks[k], NewMethods, request.key)

\* An entry that leads into the staged .ucas and opens as the one it replaces.
Leads(e, old, d) ==
    /\ e.offset \in Nat /\ e.csize \in Nat \ {0}
    /\ e.offset + Stride(e.csize, request.key) <= Len(d)
    /\ e.method = 0 => e.csize = e.usize
    /\ LoadedBlock(d, e, NewMethods, request.key)
            = LoadedBlock(input.cas, old, input.toc.methods, input.toc.key)
    /\ Reuse(old) /\ request.key = NoKey =>
            SubSeq(d, e.offset + 1, e.offset + e.csize) = Encoded(old).data
    /\ e.csize <= IF Reuse(old) THEN old.csize ELSE e.usize

TransformInv ==
    /\ TransformTypeOK
    /\ InputOK
    /\ IsSeq(destination) /\ IsSeq(compression_blocks)
    /\ TableHalfRewritten
    /\ \A k \in 1..index : Leads(compression_blocks[k], OldTable[k], destination)
    /\ status = "staged" => index = Len(compression_blocks)

-----------------------------------------------------------------------------
(* One block                                                               *)

\* Encoded is what the codec fetches.
LEMMA EncodedIs ==
    ASSUME NEW e
    PROVE  Encoded(e) = Fetched(input.cas, e.offset, e.csize, input.toc.key)
BY DEF Encoded, Fetched, Stride

\* The methods an input lists are methods.
LEMMA MethodsAre ==
    ASSUME InputOK, NEW e, EntryOK(e)
    PROVE  /\ MethodOf(e) = NoMethod <=> e.method = 0
           /\ e.method # 0 => MethodOf(e) = input.toc.methods[e.method]
<1>1. \A m \in 1..Len(input.toc.methods) : input.toc.methods[m] \in Methods
    BY ElementOfSeq DEF InputOK
<1>2. e.method # 0 => e.method \in 1..Len(input.toc.methods)
    <2>1. Len(input.toc.methods) \in Nat
        BY LenProperties DEF InputOK
    <2> QED BY <2>1 DEF EntryOK
<1> QED BY <1>1, <1>2, MethodsProper DEF MethodOf

\* A block that the loop accepts: what it decodes to, and how the input's entry
\* opens.
LEMMA AcceptedIs ==
    ASSUME InputOK, NEW e, EntryOK(e), ~BlockInvalid(e)
    PROVE  LET encoded == Encoded(e).data IN
           /\ Encoded(e) = Readable(encoded)
           /\ IsSeq(encoded) /\ Len(encoded) = e.csize /\ e.csize \in Nat \ {0}
           /\ e.method = 0 => e.csize = e.usize
           /\ ~Reuse(e) => Decodes(e, encoded)
           /\ LoadedBlock(input.cas, e, input.toc.methods, input.toc.key)
                = Opened(Readable(encoded), MethodOf(e) # NoMethod, MethodOf(e), e.usize)
<1>1. Encoded(e).ok /\ e.csize \in Nat \ {0} /\ (e.method = 0 => e.csize = e.usize)
      /\ (~Reuse(e) => Decodes(e, Encoded(e).data))
    BY DEF BlockInvalid, EntryOK
<1>2. /\ Encoded(e) = Readable(Encoded(e).data)
      /\ IsSeq(Encoded(e).data) /\ Len(Encoded(e).data) = e.csize
    <2>1. IsSeq(input.cas) /\ e.offset \in Nat
        BY DEF InputOK, EntryOK
    <2> QED BY <1>1, <2>1, EncodedIs, FetchedIs
<1>3. LoadedBlock(input.cas, e, input.toc.methods, input.toc.key) =
            Opened(Encoded(e), e.method # 0, input.toc.methods[e.method], e.usize)
    BY <1>1, EncodedIs, LoadedIs
<1>4. Opened(Encoded(e), e.method # 0, input.toc.methods[e.method], e.usize)
        = Opened(Encoded(e), MethodOf(e) # NoMethod, MethodOf(e), e.usize)
    <2>1. CASE e.method = 0
        BY <2>1, MethodsAre DEF Opened
    <2>2. CASE e.method # 0
        <3>1. (e.method # 0) = TRUE /\ (MethodOf(e) # NoMethod) = TRUE
              /\ MethodOf(e) = input.toc.methods[e.method]
            BY <2>2, MethodsAre
        <3> QED BY <3>1
    <2> QED BY <2>1, <2>2
<1> QED BY <1>1, <1>2, <1>3, <1>4

\* What a block decodes to is as long as its entry says, and what the input's
\* entry opens as.
LEMMA DecodedIs ==
    ASSUME InputOK, NEW e, EntryOK(e), ~BlockInvalid(e), ~Reuse(e)
    PROVE  LET plain == Decoded(e, Encoded(e).data) IN
           /\ IsSeq(plain) /\ Len(plain) = e.usize /\ PackedLen(plain) \in Nat \ {0}
           /\ LoadedBlock(input.cas, e, input.toc.methods, input.toc.key) = Readable(plain)
<1> DEFINE encoded == Encoded(e).data
           plain == Decoded(e, encoded)
<1>1. /\ Encoded(e) = Readable(encoded)
      /\ IsSeq(encoded) /\ Len(encoded) = e.csize
      /\ e.method = 0 => e.csize = e.usize
      /\ Decodes(e, encoded)
      /\ LoadedBlock(input.cas, e, input.toc.methods, input.toc.key)
            = Opened(Readable(encoded), MethodOf(e) # NoMethod, MethodOf(e), e.usize)
    BY AcceptedIs
<1>2. Encoded(e).ok
    BY DEF BlockInvalid
<1>3. PackedLen(plain) \in Nat \ {0}
    BY <1>1, <1>2 DEF EntryOK
<1>4. Readable(encoded).ok /\ Readable(encoded).data = encoded
    BY DEF Readable
<1>5. CASE MethodOf(e) = NoMethod
    <2>1. plain = encoded
        BY <1>5 DEF Decoded
    <2>2. Opened(Readable(encoded), MethodOf(e) # NoMethod, MethodOf(e), e.usize) = Readable(encoded)
        BY <1>4, <1>5 DEF Opened
    <2>3. e.method = 0
        BY <1>5, MethodsAre
    <2> HIDE DEF plain, encoded
    <2> QED BY <1>1, <1>3, <2>1, <2>2, <2>3 DEF plain, encoded
<1>6. CASE MethodOf(e) # NoMethod
    <2>1. plain = encoded[1].packed /\ plain = Decompress(encoded)
        BY <1>6 DEF Decoded, Decompress
    <2>2. Decompresses(MethodOf(e), encoded, e.usize)
        BY <1>1, <1>6 DEF Decodes
    <2>3. Len(plain) = e.usize /\ plain = [i \in 1..e.usize |-> plain[i]]
        BY <2>1, <2>2 DEF Decompresses
    <2>4. Opened(Readable(encoded), MethodOf(e) # NoMethod, MethodOf(e), e.usize) = Readable(plain)
        <3> HIDE DEF encoded, plain
        <3> QED BY <1>4, <1>6, <2>1, <2>2 DEF Opened
    <2>5. e.usize \in Nat
        BY DEF EntryOK
    <2> HIDE DEF plain, encoded
    <2>6. IsSeq(plain)
        BY <2>3, <2>5, Made
    <2> QED BY <1>1, <1>3, <2>3, <2>4, <2>6 DEF plain, encoded
<1> QED BY <1>5, <1>6

\* The output of a turn opens, under the method it is listed with, as the input's
\* entry did; it is the block verbatim when that is reused.
LEMMA OutputIs ==
    ASSUME InputOK, NEW e, EntryOK(e), ~BlockInvalid(e)
    PROVE  LET out == Output(e, Encoded(e).data) IN
           /\ IsSeq(out.bytes) /\ Len(out.bytes) \in Nat \ {0}
           /\ out.method \in {NoMethod, request.compression}
           /\ out.method = NoMethod => Len(out.bytes) = e.usize
           /\ Opened(Readable(out.bytes), out.method # NoMethod, out.method, e.usize)
                = LoadedBlock(input.cas, e, input.toc.methods, input.toc.key)
           /\ Reuse(e) => out.bytes = Encoded(e).data
           /\ Len(out.bytes) <= IF Reuse(e) THEN e.csize ELSE e.usize
<1> DEFINE encoded == Encoded(e).data
           plain == Decoded(e, encoded)
           packed == Compress(request.compression, plain)
           out == Output(e, encoded)
<1>0. e.usize \in Nat \ {0}
    BY DEF EntryOK
<1>1. CASE Reuse(e)
    <2>1. out = [bytes |-> encoded, method |-> MethodOf(e)]
        BY <1>1 DEF Output
    <2>2. out.bytes = encoded /\ out.method = MethodOf(e)
        BY <2>1
    <2>3. MethodOf(e) = NoMethod => e.csize = e.usize
        BY AcceptedIs, MethodsAre
    <2>4. MethodOf(e) \in {NoMethod, request.compression}
        BY <1>1 DEF Reuse
    <2>5. /\ IsSeq(encoded) /\ Len(encoded) = e.csize /\ e.csize \in Nat \ {0}
          /\ LoadedBlock(input.cas, e, input.toc.methods, input.toc.key)
                = Opened(Readable(encoded), MethodOf(e) # NoMethod, MethodOf(e), e.usize)
        BY AcceptedIs
    <2> HIDE DEF out, encoded
    <2> QED BY <1>1, <2>2, <2>3, <2>4, <2>5 DEF out, encoded
<1>2. CASE ~Reuse(e)
    <2>1. /\ IsSeq(plain) /\ Len(plain) = e.usize /\ PackedLen(plain) \in Nat \ {0}
          /\ LoadedBlock(input.cas, e, input.toc.methods, input.toc.key) = Readable(plain)
        BY <1>2, DecodedIs
    <2> HIDE DEF plain
    <2>2. IsSeq(packed) /\ Len(packed) = PackedLen(plain)
        BY <2>1, CompressIs
    <2>3. CASE request.compression # NoMethod /\ Len(packed) < Len(plain)
        <3>1. out = [bytes |-> packed, method |-> request.compression]
            BY <1>2, <2>3 DEF Output, plain
        <3>2. out.bytes = packed /\ out.method = request.compression
            BY <3>1
        <3>3. Opened(Readable(packed), TRUE, request.compression, e.usize) = Readable(plain)
            BY <2>1, CompressedOpens
        <3>4. (out.method # NoMethod) = TRUE
            BY <2>3, <3>2
        <3>5. Opened(Readable(out.bytes), out.method # NoMethod, out.method, e.usize)
                = Readable(plain)
            <4> HIDE DEF out, packed
            <4> QED BY <3>2, <3>3, <3>4
        <3> HIDE DEF out, packed
        <3>6. /\ IsSeq(out.bytes) /\ Len(out.bytes) \in Nat \ {0}
              /\ Len(out.bytes) <= e.usize /\ out.method = request.compression
              /\ out.method # NoMethod
            BY <1>0, <2>1, <2>2, <2>3, <3>2
        <3> QED BY <1>2, <2>1, <3>5, <3>6 DEF out
    <2>4. CASE ~(request.compression # NoMethod /\ Len(packed) < Len(plain))
        <3>1. out = [bytes |-> plain, method |-> NoMethod]
            BY <1>2, <2>4 DEF Output, plain
        <3>2. out.bytes = plain /\ out.method = NoMethod
            BY <3>1
        <3> HIDE DEF out
        <3>3. Readable(plain).ok
            BY DEF Readable
        <3>4. Opened(Readable(out.bytes), out.method # NoMethod, out.method, e.usize)
                = Readable(plain)
            BY <3>2, <3>3 DEF Opened
        <3> QED BY <1>0, <1>2, <2>1, <3>2, <3>4 DEF out
    <2> QED BY <2>3, <2>4
<1> QED BY <1>1, <1>2

\* What a turn on the entry makes of it and of the staged .ucas.
TurnOutput(e) == Output(e, Encoded(e).data)
TurnEntry(e) == NewEntry(e, TurnOutput(e), Len(destination))
TurnDestination(e) == destination \o Enciphered(TurnOutput(e))

\* An entry leads to what is appended with it.
Appends(e, new, d) ==
    /\ IsSeq(d) /\ Len(d) = Len(destination) + Stride(new.csize, request.key)
    /\ \A i \in 1..Len(destination) : d[i] = destination[i]
    /\ new.offset = Len(destination) /\ new.csize \in Nat \ {0}
    /\ Leads(new, e, d)

LEMMA TurnLeads ==
    ASSUME InputOK, IsSeq(destination), NEW e, EntryOK(e), ~BlockInvalid(e)
    PROVE  Appends(e, TurnEntry(e), TurnDestination(e))
<1>a. PICK out : out = TurnOutput(e)
    OBVIOUS
<1>b. PICK d : d = TurnDestination(e)
    OBVIOUS
<1>c. PICK new : new = TurnEntry(e)
    OBVIOUS
<1> DEFINE bytes == Sealed(out.bytes, request.key)
           o == Len(destination)
           n == Len(out.bytes)
<1>1. /\ IsSeq(out.bytes) /\ n \in Nat \ {0}
      /\ out.method \in {NoMethod, request.compression}
      /\ out.method = NoMethod => n = e.usize
      /\ Opened(Readable(out.bytes), out.method # NoMethod, out.method, e.usize)
            = LoadedBlock(input.cas, e, input.toc.methods, input.toc.key)
      /\ Reuse(e) => out.bytes = Encoded(e).data
      /\ n <= IF Reuse(e) THEN e.csize ELSE e.usize
    BY <1>a, OutputIs DEF TurnOutput
<1>2. d = destination \o bytes
    BY <1>a, <1>b DEF TurnDestination, Enciphered, Sealed
<1>3. /\ IsSeq(bytes) /\ Len(bytes) = Stride(n, request.key)
      /\ Stride(n, request.key) \in Nat \ {0} /\ n <= Stride(n, request.key)
    BY <1>1, SealedIs
<1>4. o \in Nat /\ o < OffsetLimit
    <2>1. o \in Nat
        BY SeqHas
    <2>2. ~(o >= OffsetLimit)
        BY DEF BlockInvalid
    <2> QED BY <2>1, <2>2, OffsetLimitPositive
<1>5. /\ new.offset = o /\ new.csize = n /\ new.usize = e.usize
      /\ new.method = IF out.method = NoMethod THEN 0 ELSE 1
    <2> HIDE DEF o
    <2>1. o % OffsetLimit = o
        BY <1>4, OffsetLimitPositive, Small
    <2> QED BY <1>a, <1>c, <2>1 DEF TurnEntry, NewEntry, o
<1> HIDE DEF bytes
<1>6. /\ IsSeq(d) /\ Len(d) = o + Len(bytes)
      /\ \A i \in 1..o : d[i] = destination[i]
      /\ \A i \in 1..Len(bytes) : d[o + i] = bytes[i]
    <2>1. IsSeq(destination \o bytes) /\ Len(destination \o bytes) = o + Len(bytes)
        BY <1>3, Joined
    <2>2. \A i \in 1..o : (destination \o bytes)[i] = destination[i]
        BY <1>3, Joined
    <2>3. \A i \in 1..Len(bytes) : (destination \o bytes)[o + i] = bytes[i]
        BY <1>3, Joined
    <2> HIDE DEF o
    <2> QED BY <1>2, <2>1, <2>2, <2>3
<1> HIDE DEF o, n
<1>7. Len(d) = o + Stride(n, request.key)
    BY <1>3, <1>6
<1>8. Holds(d, o, bytes)
    BY <1>3, <1>4, <1>6 DEF Holds
<1>9. Fetched(d, o, n, request.key) = Readable(out.bytes)
    BY <1>1, <1>4, <1>6, <1>8, FetchesBack DEF bytes, n
<1>10. new.method = 0 => new.csize = new.usize
    BY <1>1, <1>5
<1>11. LoadedBlock(d, new, NewMethods, request.key)
        = LoadedBlock(input.cas, e, input.toc.methods, input.toc.key)
    <2>1. LoadedBlock(d, new, NewMethods, request.key) =
            Opened(Fetched(d, new.offset, new.csize, request.key), new.method # 0,
                   NewMethods[new.method], new.usize)
        BY <1>10, LoadedIs
    <2>2. LoadedBlock(d, new, NewMethods, request.key) =
            Opened(Readable(out.bytes), new.method # 0, NewMethods[new.method], e.usize)
        BY <1>5, <1>9, <2>1
    <2>3. CASE out.method = NoMethod
        <3>1. (new.method # 0) = FALSE /\ (out.method # NoMethod) = FALSE
            BY <1>5, <2>3
        <3>2. Readable(out.bytes).ok
            BY DEF Readable
        <3> QED BY <1>1, <2>2, <3>1, <3>2 DEF Opened
    <2>4. CASE out.method # NoMethod
        <3>1. (new.method # 0) = TRUE /\ (out.method # NoMethod) = TRUE /\ new.method = 1
            BY <1>5, <2>4
        <3>2. NewMethods[1] = out.method
            BY <1>1, <2>4 DEF NewMethods
        <3> QED BY <1>1, <2>2, <3>1, <3>2
    <2> QED BY <2>3, <2>4
<1>12. Reuse(e) /\ request.key = NoKey => SubSeq(d, o + 1, o + n) = Encoded(e).data
    <2> SUFFICES ASSUME Reuse(e), request.key = NoKey PROVE SubSeq(d, o + 1, o + n) = Encoded(e).data
        OBVIOUS
    <2>1. bytes = Encoded(e).data /\ bytes = out.bytes
        BY <1>1 DEF bytes, Sealed
    <2>2. SubSeq(d, o + 1, o + Len(bytes)) = bytes
        BY <1>3, <1>4, <1>6, <1>8, ReadsPiece
    <2> QED BY <2>1, <2>2 DEF n
<1>13. Leads(new, e, d)
    <2>1. new.offset + Stride(new.csize, request.key) <= Len(d)
        BY <1>3, <1>4, <1>5, <1>7
    <2>2. new.csize <= IF Reuse(e) THEN e.csize ELSE new.usize
        BY <1>1, <1>5
    <2> QED BY <1>1, <1>4, <1>5, <1>10, <1>11, <1>12, <2>1, <2>2 DEF Leads
<1>14. Appends(e, new, d)
    BY <1>1, <1>5, <1>6, <1>7, <1>13 DEF Appends, o
<1> QED BY <1>b, <1>c, <1>14

\* An entry goes on leading to its piece when the staged .ucas grows.
LEMMA LeadsOn ==
    ASSUME NEW d, IsSeq(d), NEW d2, IsSeq(d2), Len(d) <= Len(d2),
           \A i \in 1..Len(d) : d2[i] = d[i],
           NEW e, NEW old, Leads(e, old, d)
    PROVE  Leads(e, old, d2)
<1> DEFINE o == e.offset
           c == e.csize
<1>1. /\ o \in Nat /\ c \in Nat \ {0} /\ o + Stride(c, request.key) <= Len(d)
      /\ Stride(c, request.key) \in Nat /\ c <= Stride(c, request.key)
      /\ Len(d) \in Nat /\ Len(d2) \in Nat
    BY StrideIs, SeqHas DEF Leads
<1>2. Fetched(d2, o, c, request.key) = Fetched(d, o, c, request.key)
    BY <1>1, FetchedStays
<1>3. LoadedBlock(d2, e, NewMethods, request.key) = LoadedBlock(d, e, NewMethods, request.key)
    <2>1. e.method = 0 => e.csize = e.usize
        BY DEF Leads
    <2> QED BY <1>2, <2>1, LoadedIs
<1>4. SubSeq(d2, o + 1, o + c) = SubSeq(d, o + 1, o + c)
    <2> DEFINE u == o + 1
               v == o + c
    <2> HIDE DEF o, c
    <2>1. u \in Nat \ {0} /\ v \in Nat /\ v <= Len(d) /\ v <= Len(d2) /\ u <= v + 1
          /\ \A i \in 1..(v - u + 1) : u + i - 1 \in 1..Len(d)
        BY <1>1
    <2> HIDE DEF u, v
    <2>2. /\ IsSeq(SubSeq(d, u, v)) /\ Len(SubSeq(d, u, v)) = v - u + 1
          /\ \A i \in 1..(v - u + 1) : SubSeq(d, u, v)[i] = d[u + i - 1]
        BY <2>1, Part
    <2>3. /\ IsSeq(SubSeq(d2, u, v)) /\ Len(SubSeq(d2, u, v)) = v - u + 1
          /\ \A i \in 1..(v - u + 1) : SubSeq(d2, u, v)[i] = d2[u + i - 1]
        BY <2>1, Part
    <2>4. SubSeq(d2, u, v) = SubSeq(d, u, v)
        BY <2>1, <2>2, <2>3, SameSeq
    <2> QED BY <2>4 DEF u, v
<1>5. e.offset + Stride(e.csize, request.key) <= Len(d2)
    BY <1>1
<1> QED BY <1>3, <1>4, <1>5 DEF Leads

-----------------------------------------------------------------------------
(* The loop                                                                *)

\* Where the first n entries start when they follow one another.
Starts(T, n, key) == Offsets(0, [k \in 1..n |-> Stride(T[k].csize, key)])

\* One more entry starts where those before it end.
LEMMA StartsOn ==
    ASSUME NEW n \in Nat, NEW T, NEW T2, NEW key, \A k \in 1..n : T2[k] = T[k],
           \A k \in 1..(n + 1) : T2[k].csize \in Nat \ {0}
    PROVE  /\ \A k \in 1..(n + 1) : Starts(T2, n + 1, key)[k] = Starts(T, n, key)[k]
           /\ Starts(T2, n + 1, key)[n + 2] = Starts(T, n, key)[n + 1] + Stride(T2[n + 1].csize, key)
<1> DEFINE y == [k \in 1..n |-> Stride(T[k].csize, key)]
           z == [k \in 1..(n + 1) |-> Stride(T2[k].csize, key)]
<1>1. \A k \in 1..(n + 1) : Stride(T2[k].csize, key) \in Nat
    BY StrideIs
<1>2. z \in [1..(n + 1) -> Nat] /\ z[n + 1] = Stride(T2[n + 1].csize, key)
    BY <1>1
<1>3. y \in [1..n -> Nat] /\ \A k \in 1..n : z[k] = y[k]
    <2>1. \A k \in 1..n : k \in 1..(n + 1)
        OBVIOUS
    <2> QED BY <1>1, <2>1
<1>4. Starts(T, n, key) = Offsets(0, y) /\ Starts(T2, n + 1, key) = Offsets(0, z)
    BY DEF Starts
<1> HIDE DEF y, z
<1>5. /\ \A k \in 1..(n + 1) : Offsets(0, z)[k] = Offsets(0, y)[k]
      /\ Offsets(0, z)[n + 2] = Offsets(0, y)[n + 1] + z[n + 1]
    BY <1>2, <1>3, OffsetsPush
<1> QED BY <1>2, <1>4, <1>5

\* The table with one entry replaced.
IsReplaced(T2, T, i, x) ==
    /\ IsSeq(T2) /\ Len(T2) = Len(T) /\ T2[i] = x
    /\ \A k \in 1..Len(T) : k # i => T2[k] = T[k]

LEMMA Replaced ==
    ASSUME NEW T, IsSeq(T), NEW i \in 1..Len(T), NEW x
    PROVE  IsReplaced([T EXCEPT ![i] = x], T, i, x)
<1> DEFINE n == Len(T)
           T2 == [T EXCEPT ![i] = x]
<1>1. n \in Nat /\ DOMAIN T = 1..n
    BY SeqHas
<1>2. T = [k \in DOMAIN T |-> T[k]]
    BY DEF IsSeq
<1>3. T2 = [k \in 1..n |-> T2[k]] /\ T2[i] = x /\ \A k \in 1..n : k # i => T2[k] = T[k]
    BY <1>1, <1>2
<1> HIDE DEF n, T2
<1>4. IsSeq(T2) /\ Len(T2) = n
    BY <1>1, <1>3, Made
<1> QED BY <1>3, <1>4 DEF n, T2, IsReplaced

\* The input does not change.
LEMMA InputStays ==
    ASSUME InputOK, UNCHANGED input
    PROVE  InputOK'
<1>1. OldTable' = OldTable /\ Chunks' = Chunks
    BY DEF OldTable, Chunks
<1>2. ASSUME NEW i \in 1..Len(OldTable) PROVE EntryOK(OldTable[i])'
    <2>1. EntryOK(OldTable[i])
        BY DEF InputOK
    <2>2. Encoded(OldTable[i])' = Encoded(OldTable[i])
        BY DEF Encoded, OldTable
    <2>3. Decodes(OldTable[i], Encoded(OldTable[i]).data)' <=> Decodes(OldTable[i], Encoded(OldTable[i]).data)
        BY DEF Decodes, MethodOf, Encoded, OldTable
    <2>4. Decoded(OldTable[i], Encoded(OldTable[i]).data)' = Decoded(OldTable[i], Encoded(OldTable[i]).data)
        BY DEF Decoded, MethodOf, Encoded, OldTable
    <2> QED BY <1>1, <2>1, <2>2, <2>3, <2>4 DEF EntryOK
<1>3. (\A i \in 1..Len(OldTable) : EntryOK(OldTable[i]))'
    BY <1>1, <1>2
<1> QED BY <1>1, <1>3 DEF InputOK

\* What is read of the input does not change either.
LEMMA LeadsStays ==
    ASSUME UNCHANGED <<input, request>>, NEW T, NEW d, T = compression_blocks', d = destination',
           NEW n, n = index', \A k \in 1..n : Leads(T[k], OldTable[k], d)
    PROVE  (\A k \in 1..index : Leads(compression_blocks[k], OldTable[k], destination))'
<1> SUFFICES ASSUME NEW k \in 1..n PROVE Leads(compression_blocks[k], OldTable[k], destination)'
    OBVIOUS
<1>1. OldTable' = OldTable /\ NewMethods' = NewMethods
    BY DEF OldTable, NewMethods
<1>2. Reuse(OldTable[k])' <=> Reuse(OldTable[k])
    BY DEF Reuse, MethodOf, PreserveUncompressed, OldTable
<1>3. Encoded(OldTable[k])' = Encoded(OldTable[k])
    BY DEF Encoded, OldTable
<1>4. Leads(T[k], OldTable[k], d)
    OBVIOUS
<1> QED BY <1>1, <1>2, <1>3, <1>4 DEF Leads

\* The offsets, of a table that is half rewritten.
HalfRewritten(T, n, d) ==
    /\ \A k \in 1..n : T[k].offset = Starts(T, n, request.key)[k]
    /\ Starts(T, n, request.key)[n + 1] = Len(d)
    /\ \A k \in (n + 1)..Len(T) : T[k] = OldTable[k]

LEMMA HalfIs == TableHalfRewritten <=> HalfRewritten(compression_blocks, index, destination)
BY DEF TableHalfRewritten, HalfRewritten, Starts, OldTable

\* A turn of the loop.
LEMMA RepackBlockKeeps ==
    ASSUME TransformInv, RepackBlock
    PROVE  TransformInv'
<1> DEFINE i == index + 1
<1>1. /\ index \in 0..Len(compression_blocks) /\ index < Len(compression_blocks)
      /\ Len(compression_blocks) = Len(OldTable) /\ IsSeq(compression_blocks)
      /\ IsSeq(destination) /\ InputOK /\ Len(compression_blocks) \in Nat
    BY SeqHas DEF TransformInv, TransformTypeOK, RepackBlock, OldTable
<1>2. index \in Nat /\ i \in 1..Len(compression_blocks)
    BY <1>1
<1>3. PICK T, d, n : T = compression_blocks /\ d = destination /\ n = index
    OBVIOUS
<1>4. PICK T2, d2 : T2 = compression_blocks' /\ d2 = destination'
    OBVIOUS
<1>5. PICK e : e = compression_blocks[i]
    OBVIOUS
<1>7. PICK new : new = TurnEntry(e)
    OBVIOUS
<1>8. /\ ~BlockInvalid(e) /\ status = "repacking"
      /\ T2 = [compression_blocks EXCEPT ![i] = new]
      /\ d2 = TurnDestination(e)
      /\ index' = index + 1 /\ UNCHANGED <<input, request, status>>
    BY <1>4, <1>5, <1>7 DEF RepackBlock, Turn, TurnEntry, TurnOutput, TurnDestination
<1>9. HalfRewritten(T, n, d)
    BY <1>3, HalfIs DEF TransformInv
<1>10. e = OldTable[i] /\ EntryOK(e)
    <2>1. e = OldTable[i]
        BY <1>1, <1>2, <1>3, <1>5, <1>9 DEF HalfRewritten
    <2> QED BY <1>1, <1>2, <2>1 DEF InputOK
<1>11. /\ IsSeq(d2) /\ Len(d2) = Len(d) + Stride(new.csize, request.key)
       /\ \A k \in 1..Len(d) : d2[k] = d[k]
       /\ new.offset = Len(d) /\ new.csize \in Nat \ {0}
       /\ Leads(new, e, d2)
    <2>1. Appends(e, TurnEntry(e), TurnDestination(e))
        BY <1>1, <1>8, <1>10, TurnLeads
    <2>2. Appends(e, new, d2)
        BY <1>7, <1>8, <2>1
    <2> QED BY <1>3, <2>2 DEF Appends
<1>12. /\ IsSeq(T2) /\ Len(T2) = Len(T) /\ T2[i] = new
       /\ \A k \in 1..Len(T) : k # i => T2[k] = T[k]
    <2>1. T2 = [T EXCEPT ![i] = new]
        BY <1>3, <1>8
    <2>2. IsSeq(T) /\ i \in 1..Len(T)
        BY <1>1, <1>2, <1>3
    <2> HIDE DEF i
    <2>3. IsReplaced([T EXCEPT ![i] = new], T, i, new)
        BY <2>2, Replaced
    <2>4. IsReplaced(T2, T, i, new)
        BY <2>1, <2>3
    <2> QED BY <2>4 DEF IsReplaced
<1>13. \A k \in 1..n : Leads(T[k], OldTable[k], d)
    BY <1>3 DEF TransformInv
<1>14. n \in Nat /\ i = n + 1 /\ i \in 1..Len(T) /\ \A k \in 1..n : T2[k] = T[k]
    <2>1. n \in Nat /\ i = n + 1 /\ i \in 1..Len(T) /\ Len(T) \in Nat
        BY <1>1, <1>2, <1>3
    <2>2. \A k \in 1..n : k \in 1..Len(T) /\ k # i
        BY <2>1
    <2> QED BY <1>12, <2>1, <2>2
<1> HIDE DEF i
<1>15. \A k \in 1..i : Leads(T2[k], OldTable[k], d2)
    <2> SUFFICES ASSUME NEW k \in 1..i PROVE Leads(T2[k], OldTable[k], d2)
        OBVIOUS
    <2>1. CASE k = i
        BY <1>10, <1>11, <1>12, <2>1
    <2>2. CASE k # i
        <3>1. k \in 1..n
            BY <1>14, <2>2
        <3>2. Leads(T[k], OldTable[k], d) /\ T2[k] = T[k]
            BY <1>13, <1>14, <3>1
        <3>3. IsSeq(d) /\ IsSeq(d2) /\ Len(d) <= Len(d2)
            <4>1. Len(d) \in Nat /\ Len(d2) \in Nat /\ Stride(new.csize, request.key) \in Nat
                BY <1>1, <1>3, <1>11, SeqHas, StrideIs
            <4> QED BY <1>1, <1>3, <1>11, <4>1
        <3> QED BY <1>11, <3>2, <3>3, LeadsOn
    <2> QED BY <2>1, <2>2
<1>16. HalfRewritten(T2, i, d2)
    <2>1. \A k \in 1..(n + 1) : T2[k].csize \in Nat \ {0}
        BY <1>14, <1>15 DEF Leads
    <2>2. /\ \A k \in 1..(n + 1) : Starts(T2, n + 1, request.key)[k] = Starts(T, n, request.key)[k]
          /\ Starts(T2, n + 1, request.key)[n + 2]
                = Starts(T, n, request.key)[n + 1] + Stride(T2[n + 1].csize, request.key)
        BY <1>14, <2>1, StartsOn
    <2>3. \A k \in 1..n : T[k].offset = Starts(T, n, request.key)[k]
        BY <1>9 DEF HalfRewritten
    <2>4. Starts(T, n, request.key)[n + 1] = Len(d)
        BY <1>9 DEF HalfRewritten
    <2>5. \A k \in 1..i : T2[k].offset = Starts(T2, i, request.key)[k]
        <3> SUFFICES ASSUME NEW k \in 1..i PROVE T2[k].offset = Starts(T2, i, request.key)[k]
            OBVIOUS
        <3>1. CASE k = i
            BY <1>11, <1>12, <1>14, <2>2, <2>4, <3>1
        <3>2. CASE k # i
            <4>1. k \in 1..n /\ k \in 1..(n + 1)
                BY <1>14, <3>2
            <4> QED BY <1>14, <2>2, <2>3, <4>1
        <3> QED BY <3>1, <3>2
    <2>6. i + 1 = n + 2
        BY <1>14
    <2>7. Starts(T2, i, request.key)[i + 1] = Len(d2)
        BY <1>11, <1>12, <1>14, <2>2, <2>4, <2>6
    <2>8. \A k \in (i + 1)..Len(T2) : T2[k] = OldTable[k]
        <3>1. ASSUME NEW k \in (i + 1)..Len(T2) PROVE T2[k] = OldTable[k]
            <4>1. k \in (n + 1)..Len(T) /\ k \in 1..Len(T) /\ k # i
                BY <1>12, <1>14
            <4> QED BY <1>9, <1>12, <4>1 DEF HalfRewritten
        <3> QED BY <3>1
    <2> QED BY <2>5, <2>7, <2>8 DEF HalfRewritten
<1>17. TableHalfRewritten'
    <2>1. OldTable' = OldTable /\ request' = request /\ index' = i
        BY <1>8 DEF OldTable, i
    <2> QED BY <1>4, <1>16, <2>1 DEF TableHalfRewritten, HalfRewritten, Starts, OldTable
<1>18. TransformTypeOK'
    <2>1. index' \in 0..Len(compression_blocks') /\ Len(compression_blocks') = Len(OldTable)
        BY <1>1, <1>3, <1>4, <1>8, <1>12
    <2> QED BY <1>8, <2>1 DEF TransformInv, TransformTypeOK, OldTable
<1>19. InputOK'
    BY <1>1, <1>8, InputStays
<1>20. (\A k \in 1..index : Leads(compression_blocks[k], OldTable[k], destination))'
    <2>1. i = index'
        BY <1>8 DEF i
    <2> QED BY <1>4, <1>8, <1>15, <2>1, LeadsStays
<1>21. status' # "staged"
    BY <1>8
<1> QED BY <1>4, <1>11, <1>12, <1>17, <1>18, <1>19, <1>20, <1>21 DEF TransformInv

\* The other steps move the status alone.
LEMMA StatusKeeps ==
    ASSUME TransformInv, UNCHANGED <<input, request, compression_blocks, destination, index>>,
           status' \in {"repacking", "staged", "failed"},
           status' = "staged" => index = Len(compression_blocks)
    PROVE  TransformInv'
<1>1. TransformTypeOK'
    BY DEF TransformInv, TransformTypeOK
<1>2. InputOK'
    BY InputStays DEF TransformInv
<1>3. TableHalfRewritten'
    BY DEF TransformInv, TableHalfRewritten
<1>4. (\A k \in 1..index : Leads(compression_blocks[k], OldTable[k], destination))'
    <2>1. PICK T, d, n : T = compression_blocks' /\ d = destination' /\ n = index'
        OBVIOUS
    <2>2. \A k \in 1..n : Leads(T[k], OldTable[k], d)
        BY <2>1 DEF TransformInv
    <2> QED BY <2>1, <2>2, LeadsStays
<1> QED BY <1>1, <1>2, <1>3, <1>4 DEF TransformInv

\* Every step of the loop keeps the invariant.
LEMMA TransformKeeps ==
    ASSUME TransformInv, Transform \/ UNCHANGED blockVars
    PROVE  TransformInv'
<1>1. CASE RepackFails
    BY <1>1, StatusKeeps DEF RepackFails
<1>2. CASE StageToc
    BY <1>2, StatusKeeps DEF StageToc
<1>3. CASE UNCHANGED blockVars
    BY <1>3, StatusKeeps DEF blockVars, TransformInv, TransformTypeOK
<1> QED BY <1>1, <1>2, <1>3, RepackBlockKeeps DEF Transform

\* The entries done open, lead where the reused bytes are and do not grow.
LEMMA InPlace == TransformInv => RewrittenInPlace
<1> SUFFICES ASSUME TransformInv PROVE RewrittenInPlace
    OBVIOUS
<1>1. ReusedVerbatim
    <2> SUFFICES ASSUME NEW k \in 1..index
                 PROVE  LET before == OldTable[k]
                            after  == compression_blocks[k]
                            stored == SubSeq(destination, after.offset + 1,
                                             after.offset + after.csize)
                        IN  /\ Reuse(before) /\ request.key = NoKey =>
                                stored = Encoded(before).data
                            /\ after.csize <= IF Reuse(before) THEN before.csize ELSE after.usize
        BY DEF ReusedVerbatim, OldTable
    <2>1. Leads(compression_blocks[k], OldTable[k], destination)
        BY DEF TransformInv
    <2> QED BY <2>1 DEF Leads
<1> QED BY <1>1 DEF TransformInv, RewrittenInPlace

\* Once all are done every chunk reads as before.
LEMMA Preserved == TransformInv => PayloadPreserved
<1> SUFFICES ASSUME TransformInv, status = "staged", NEW c \in Chunks
             PROVE  ReadChunk(StagedToc, destination, c) = ReadChunk(input.toc, input.cas, c)
    BY DEF PayloadPreserved
<1>1. PICK new : new = StagedToc
    OBVIOUS
<1>2. PICK toc : toc = input.toc
    OBVIOUS
<1>3. /\ new.compression_blocks = compression_blocks
      /\ new.chunk_offset_lengths = toc.chunk_offset_lengths
      /\ new.methods = NewMethods /\ new.key = request.key
    <2>1. {"compression_blocks", "chunk_offset_lengths", "methods", "key"} \subseteq DOMAIN toc
        BY <1>2 DEF TransformInv, InputOK
    <2>2. new = [toc EXCEPT !.compression_blocks = compression_blocks,
                            !.methods = NewMethods, !.key = request.key]
        BY <1>1, <1>2 DEF StagedToc, NewMethods
    <2> QED BY <2>1, <2>2
<1>4. index = Len(compression_blocks) /\ Len(compression_blocks) = Len(toc.compression_blocks)
      /\ Len(compression_blocks) \in Nat
    BY <1>2, SeqHas DEF TransformInv, TransformTypeOK
<1>5. /\ toc.chunk_offset_lengths[c].offset \in Nat
      /\ toc.chunk_offset_lengths[c].length \in Nat
    BY <1>2 DEF TransformInv, InputOK
<1>6. \A k \in 1..Len(toc.compression_blocks) :
            LoadedBlock(destination, new.compression_blocks[k], new.methods, new.key)
                = LoadedBlock(input.cas, toc.compression_blocks[k], toc.methods, toc.key)
    <2> SUFFICES ASSUME NEW k \in 1..Len(toc.compression_blocks)
                 PROVE  LoadedBlock(destination, new.compression_blocks[k], new.methods, new.key)
                        = LoadedBlock(input.cas, toc.compression_blocks[k], toc.methods, toc.key)
        OBVIOUS
    <2>1. Leads(compression_blocks[k], OldTable[k], destination)
        BY <1>4 DEF TransformInv
    <2> QED BY <1>2, <1>3, <2>1 DEF Leads, OldTable
<1>7. ReadChunk(new, destination, c) = ReadChunk(toc, input.cas, c)
    BY <1>3, <1>4, <1>5, <1>6, SameChunk
<1> QED BY <1>1, <1>2, <1>7

-----------------------------------------------------------------------------
(* The container the loop starts with                                      *)

\* One chunk after the other: what both hold is what either holds.
Both(all, x, y) ==
    /\ IsSeq(all) /\ Len(all) = Len(x) + Len(y)
    /\ \A i \in 1..Len(all) : \/ \E k \in 1..Len(x) : all[i] = x[k]
                              \/ \E k \in 1..Len(y) : all[i] = y[k]

LEMMA TwoJoin ==
    ASSUME NEW x, Parts(x), NEW y, Parts(y)
    PROVE  Both(FlattenSeq([c \in 1..2 |-> IF c = 1 THEN x ELSE y]), x, y)
<1> DEFINE p == [c \in 1..2 |-> IF c = 1 THEN x ELSE y]
           all == FlattenSeq(p)
           at == Offsets(0, Sizes(p))
<1>1. IsSeq(x) /\ IsSeq(y) /\ Len(x) \in Nat /\ Len(y) \in Nat
    BY SeqHas DEF Parts
<1>2. p = [c \in 1..2 |-> p[c]] /\ p[1] = x /\ p[2] = y
    OBVIOUS
<1> HIDE DEF p
<1>3. IsSeq(p) /\ Len(p) = 2
    BY <1>2, Made
<1>4. Parts(p)
    BY <1>1, <1>2, <1>3 DEF Parts
<1>5. /\ Sizes(p) \in Seq(Nat) /\ Len(Sizes(p)) = 2
      /\ Sizes(p)[1] = Len(x) /\ Sizes(p)[2] = Len(y)
    <2>1. /\ Sizes(p) \in Seq(Nat) /\ Len(Sizes(p)) = Len(p)
          /\ \A k \in 1..Len(p) : Sizes(p)[k] = Len(p[k])
        BY <1>4, SizesAre
    <2>2. 1 \in 1..Len(p) /\ 2 \in 1..Len(p)
        BY <1>3
    <2> QED BY <1>2, <1>3, <2>1, <2>2
<1>6. IsOffsets(at, 0, Sizes(p))
    BY <1>5, OffsetsAre
<1> HIDE DEF at, all
<1>7. at[1] = 0 /\ at[2] = Len(x) /\ at[3] = Len(x) + Len(y)
    <2>1. at[1] = 0 /\ \A k \in 1..2 : at[k + 1] = at[k] + Sizes(p)[k]
        BY <1>5, <1>6 DEF IsOffsets
    <2>2. at[1 + 1] = at[1] + Sizes(p)[1] /\ at[2 + 1] = at[2] + Sizes(p)[2]
        BY <2>1
    <2> QED BY <1>1, <1>5, <2>1, <2>2
<1>8. FlatOK(all, 0, at, p, 2)
    BY <1>3, <1>4, <1>6, FlatHolds DEF all
<1>9. /\ IsSeq(all) /\ Len(all) \in Nat /\ 0 + Len(all) = at[2 + 1]
      /\ Holds(all, at[1] - 0, p[1]) /\ Holds(all, at[2] - 0, p[2])
    BY <1>8, SeqHas DEF FlatOK
<1>10. Len(all) = Len(x) + Len(y)
    BY <1>1, <1>7, <1>9
<1>11. /\ \A k \in 1..Len(x) : all[k] = x[k]
       /\ \A k \in 1..Len(y) : all[Len(x) + k] = y[k]
    <2>1. at[1] - 0 = 0 /\ at[2] - 0 = Len(x)
        BY <1>1, <1>7
    <2>2. Holds(all, 0, x) /\ Holds(all, Len(x), y)
        BY <1>2, <1>9, <2>1
    <2>3. \A k \in 1..Len(x) : all[0 + k] = x[k]
        BY <2>2 DEF Holds
    <2> QED BY <1>1, <2>2, <2>3 DEF Holds
<1>12. ASSUME NEW i \in 1..Len(all)
       PROVE  \/ \E k \in 1..Len(x) : all[i] = x[k]
              \/ \E k \in 1..Len(y) : all[i] = y[k]
    <2>1. CASE i <= Len(x)
        BY <1>1, <1>11, <2>1
    <2>2. CASE i > Len(x)
        <3>1. i - Len(x) \in 1..Len(y) /\ Len(x) + (i - Len(x)) = i
            BY <1>1, <1>10, <2>2
        <3>2. all[i] = y[i - Len(x)]
            BY <1>11, <3>1
        <3> QED BY <3>1, <3>2
    <2> QED BY <1>1, <2>1, <2>2
<1> QED BY <1>9, <1>10, <1>12 DEF Both, all, p

\* A block that an input may hold.
BlockOK(block) ==
    IsSeq(block) /\ Len(block) \in Nat \ {0} /\ PackedLen(block) \in Nat \ {0}

LEMMA ContentIs ==
    ASSUME NEW content \in Contents
    PROVE  /\ IsSeq(content) /\ Len(content) \in Nat /\ Parts(Blocks(content))
           /\ \A k \in 1..Len(Blocks(content)) : BlockOK(Blocks(content)[k])
<1>1. IsSeq(content)
    BY ContentsAreBytes DEF IsSeq
<1>2. /\ Parts(Blocks(content))
      /\ \A k \in 1..Len(Blocks(content)) : Len(Blocks(content)[k]) \in Nat \ {0}
    BY <1>1, BlocksAre
<1>3. DOMAIN Blocks(content) = 1..Len(Blocks(content))
    BY <1>2, SeqHas DEF Parts
<1>4. \A k \in 1..Len(Blocks(content)) : PackedLen(Blocks(content)[k]) \in Nat \ {0}
    BY <1>3, ContentsAreBytes
<1> QED BY <1>1, <1>2, <1>4, SeqHas DEF Parts, BlockOK

\* A block in some form.
LEMMA FormIs ==
    ASSUME NEW block, BlockOK(block), NEW methods, NEW m
    PROVE  IsSeq(Form(block, methods, m)) /\ Len(Form(block, methods, m)) \in Nat \ {0}
<1>1. CASE m = 0
    BY <1>1 DEF Form, BlockOK
<1>2. CASE m # 0
    <2>1. Form(block, methods, m) = Compress(methods[m], block)
        BY <1>2 DEF Form
    <2>2. /\ IsSeq(Compress(methods[m], block))
          /\ Len(Compress(methods[m], block)) = PackedLen(block)
        BY CompressIs DEF BlockOK
    <2> QED BY <2>1, <2>2 DEF BlockOK
<1> QED BY <1>1, <1>2

\* The bytes of block i.
Image(blocks, methods, key, forms, i) == Sealed(Form(blocks[i], methods, forms[i]), key)

\* Block i is found in the container where its entry says.
Found(cas, blocks, methods, key, forms, offset, i) ==
    /\ offset \in Nat
    /\ Holds(cas, offset, Image(blocks, methods, key, forms, i))

\* What lies in front of a piece.
Before(parts, i) == FlattenSeq([j \in 1..(i - 1) |-> parts[j]])

\* Every block lies behind an unused byte, and nothing else does.
LaysOut(parts, blocks, methods, key, forms, backwards) ==
    LET n == Len(blocks) IN
    /\ IsSeq(Before(parts, n + 1))
    /\ \A i \in 1..n : Found(Before(parts, n + 1), blocks, methods, key, forms,
                             Len(Before(parts, Place(n, backwards, i))) + 1, i)

LEMMA LayoutHolds ==
    ASSUME NEW blocks, IsSeq(blocks), \A i \in 1..Len(blocks) : BlockOK(blocks[i]),
           NEW methods, NEW key, NEW forms, NEW backwards \in BOOLEAN,
           NEW parts, parts = Layout(blocks, methods, key, forms, backwards)
    PROVE  LaysOut(parts, blocks, methods, key, forms, backwards)
<1> DEFINE n == Len(blocks)
           before(i) == FlattenSeq([j \in 1..(i - 1) |-> parts[j]])
           P(i) == Place(n, backwards, i)
           I(i) == Image(blocks, methods, key, forms, i)
           at == Offsets(0, Sizes(parts))
<1>0. n \in Nat
    BY SeqHas
<1>1. \A i \in 1..n : P(i) \in 1..n /\ P(P(i)) = i
    <2> HIDE DEF n
    <2> QED BY <1>0 DEF Place
<1>2. \A i \in 1..n : IsSeq(I(i))
    BY FormIs, SealedIs DEF Image
<1> HIDE DEF P, I
<1>3. parts = [j \in 1..n |-> <<Zero>> \o I(P(j))]
    BY DEF Layout, P, I, Image, Sealed
<1>4. IsSeq(<<Zero>>) /\ Len(<<Zero>>) = 1
    <2>1. <<Zero>> \in Seq({Zero})
        OBVIOUS
    <2> QED BY <2>1, SeqIs
<1>5. \A j \in 1..n : /\ IsSeq(parts[j]) /\ Len(parts[j]) = 1 + Len(I(P(j)))
                      /\ \A k \in 1..Len(I(P(j))) : parts[j][1 + k] = I(P(j))[k]
    <2> SUFFICES ASSUME NEW j \in 1..n
                 PROVE /\ IsSeq(parts[j]) /\ Len(parts[j]) = 1 + Len(I(P(j)))
                       /\ \A k \in 1..Len(I(P(j))) : parts[j][1 + k] = I(P(j))[k]
        OBVIOUS
    <2>1. parts[j] = <<Zero>> \o I(P(j))
        BY <1>3
    <2>2. IsSeq(I(P(j)))
        BY <1>1, <1>2
    <2> DEFINE z == <<Zero>>
               q == I(P(j))
    <2> HIDE DEF z, q
    <2>3. /\ IsSeq(z \o q) /\ Len(z \o q) = Len(z) + Len(q)
          /\ \A k \in 1..Len(q) : (z \o q)[Len(z) + k] = q[k]
        BY <1>4, <2>2, Joined DEF z, q
    <2>4. Len(z) = 1 /\ parts[j] = z \o q
        BY <1>4, <2>1 DEF z, q
    <2> QED BY <2>3, <2>4 DEF q
<1>6. Parts(parts) /\ Len(parts) = n
    <2>1. parts = [j \in 1..n |-> parts[j]]
        BY <1>3
    <2> HIDE DEF n
    <2>2. IsSeq(parts) /\ Len(parts) = n
        BY <1>0, <2>1, Made
    <2> QED BY <1>5, <2>2 DEF Parts
<1>7. IsOffsets(at, 0, Sizes(parts))
    BY <1>6, SizesAre, OffsetsAre
<1> HIDE DEF at
<1>8. \A k \in 1..(n + 1) : at[k] \in Nat
    BY <1>6, <1>7, SizesAre DEF IsOffsets
<1> HIDE DEF n
<1>9. \A i \in 1..(n + 1) : IsSeq(before(i)) /\ Len(before(i)) = at[i]
    <2> SUFFICES ASSUME NEW i \in 1..(n + 1) PROVE IsSeq(before(i)) /\ Len(before(i)) = at[i]
        OBVIOUS
    <2> DEFINE m == i - 1
    <2>1. m \in Nat /\ m <= Len(parts) /\ m + 1 = i
        BY <1>0, <1>6
    <2> HIDE DEF m
    <2>2. /\ IsSeq(FlattenSeq([j \in 1..m |-> parts[j]]))
          /\ Len(FlattenSeq([j \in 1..m |-> parts[j]])) = at[m + 1]
        BY <1>6, <1>7, <2>1, FlatPrefix
    <2> QED BY <2>1, <2>2 DEF m
<1>10. before(n + 1) = FlattenSeq(parts)
    <2>1. n + 1 - 1 = n
        BY <1>0
    <2>2. [j \in 1..n |-> parts[j]] = parts
        BY <1>3
    <2> DEFINE first(m) == FlattenSeq([j \in 1..m |-> parts[j]])
    <2>3. first(n) = FlattenSeq(parts)
        BY <2>2
    <2>a. \A i \in Nat : before(i) = first(i - 1)
        OBVIOUS
    <2> HIDE DEF first, before
    <2>4. before(n + 1) = first(n + 1 - 1)
        BY <1>0, <2>a
    <2>5. first(n + 1 - 1) = first(n)
        BY <2>1
    <2> QED BY <2>3, <2>4, <2>5
<1> DEFINE cas == before(n + 1)
<1>11. FlatOK(cas, 0, at, parts, n)
    BY <1>6, <1>7, <1>10, FlatHolds
<1>12. IsSeq(cas) /\ Len(cas) \in Nat
    BY <1>11, SeqHas DEF FlatOK
<1>13. \A i \in 1..n : Len(before(P(i))) = at[P(i)]
    <2>1. \A i \in 1..n : P(i) \in 1..(n + 1)
        BY <1>0, <1>1
    <2> QED BY <1>9, <2>1
<1>a. n + 1 \in 1..(n + 1)
    BY <1>0
<1> HIDE DEF before, cas
<1>14. ASSUME NEW i \in 1..n
       PROVE  Found(cas, blocks, methods, key, forms, Len(before(P(i))) + 1, i)
    <2> DEFINE p == P(i)
               o == at[p]
    <2>1. p \in 1..n /\ P(p) = i
        BY <1>1
    <2>2. o \in Nat /\ Len(before(p)) = o
        BY <1>0, <1>8, <1>13, <2>1
    <2>3. Holds(cas, o - 0, parts[p])
        BY <1>11, <2>1 DEF FlatOK
    <2>4. /\ IsSeq(parts[p]) /\ Len(parts[p]) = 1 + Len(I(i)) /\ IsSeq(I(i))
          /\ \A k \in 1..Len(I(i)) : parts[p][1 + k] = I(i)[k]
        BY <1>2, <1>5, <2>1
    <2> HIDE DEF o, p
    <2>5. o - 0 = o
        BY <2>2
    <2>6. Holds(cas, o, parts[p])
        BY <2>3, <2>5
    <2>7. Len(I(i)) \in Nat
        BY <2>4, SeqHas
    <2>8. /\ o + 1 + Len(I(i)) <= Len(cas)
          /\ \A k \in 1..Len(I(i)) : cas[o + 1 + k] = I(i)[k]
        <3>1. o + Len(parts[p]) <= Len(cas) /\ \A k \in 1..Len(parts[p]) : cas[o + k] = parts[p][k]
            BY <2>6 DEF Holds
        <3>2. ASSUME NEW k \in 1..Len(I(i)) PROVE cas[o + 1 + k] = I(i)[k]
            <4>1. 1 + k \in 1..Len(parts[p]) /\ o + (1 + k) = o + 1 + k
                BY <2>2, <2>4, <2>7
            <4> QED BY <2>4, <3>1, <4>1
        <3> QED BY <1>12, <2>2, <2>4, <2>7, <3>1, <3>2
    <2>9. Holds(cas, o + 1, I(i))
        BY <2>8 DEF Holds
    <2> QED BY <2>2, <2>9 DEF Found, I, o, p
<1> QED BY <1>12, <1>14 DEF n, P, cas, before, LaysOut, Before

\* What is left of a file that may have lost its last byte.
Begins(cut, cas) ==
    /\ IsSeq(cut) /\ Len(cut) <= Len(cas)
    /\ \A k \in 1..Len(cut) : cas[k] = cut[k]

\* The first part of a sequence, all but the last element or none.
LEMMA CutOff ==
    ASSUME NEW s, IsSeq(s), NEW cut \in 0..1
    PROVE  Begins(SubSeq(s, 1, Len(s) - cut), s)
<1> SUFFICES ASSUME NEW t, t = SubSeq(s, 1, Len(s) - cut)
             PROVE  IsSeq(t) /\ Len(t) <= Len(s) /\ \A i \in 1..Len(t) : s[i] = t[i]
    BY DEF Begins
<1> DEFINE n == Len(s) - cut
<1>0. Len(s) \in Nat
    BY SeqHas
<1>1. CASE n \in Nat
    <2>1. n <= Len(s) /\ 1 <= n + 1
        BY <1>0, <1>1
    <2>a. t = SubSeq(s, 1, n)
        OBVIOUS
    <2> HIDE DEF n
    <2>2. /\ IsSeq(SubSeq(s, 1, n)) /\ Len(SubSeq(s, 1, n)) = n - 1 + 1
          /\ \A i \in 1..(n - 1 + 1) : SubSeq(s, 1, n)[i] = s[1 + i - 1]
        BY <1>1, <2>1, Part
    <2>3. n - 1 + 1 = n /\ \A i \in 1..n : 1 + i - 1 = i
        BY <1>1
    <2> QED BY <2>a, <2>1, <2>2, <2>3
<1>2. CASE n \notin Nat
    <2>1. s = <<>> /\ n = -1
        <3>1. Len(s) = 0 /\ n = -1
            BY <1>0, <1>2
        <3> QED BY <3>1, EmptyIs, SameSeq
    <2>2. t = [i \in 1..(1 + (0 - 1) - 1) |-> s[i + 1 - 1]]
        BY <2>1
    <2>3. t = [i \in 1..0 |-> t[i]]
        BY <2>2
    <2>4. IsSeq(t) /\ Len(t) = 0
        BY <2>3, Made
    <2> QED BY <1>0, <2>4
<1> QED BY <1>1, <1>2

\* An entry leads to its block, if it leads into what is left.
LEMMA FoundIs ==
    ASSUME NEW cas, IsSeq(cas), NEW cut, Begins(cut, cas),
           NEW blocks, NEW methods, NEW key, NEW forms, NEW i, NEW o,
           BlockOK(blocks[i]), Found(cas, blocks, methods, key, forms, o, i),
           Fetched(cut, o, Len(Form(blocks[i], methods, forms[i])), key).ok
    PROVE  Fetched(cut, o, Len(Form(blocks[i], methods, forms[i])), key) = Readable(Form(blocks[i], methods, forms[i]))
<1> DEFINE p == Form(blocks[i], methods, forms[i])
           c == Len(p)
<1>1. IsSeq(p) /\ c \in Nat \ {0}
    BY FormIs
<1>2. o \in Nat /\ Holds(cas, o, Sealed(p, key))
    BY DEF Found, Image
<1> HIDE DEF p
<1>a. IsSeq(cut) /\ Len(cut) <= Len(cas) /\ \A k \in 1..Len(cut) : cas[k] = cut[k]
    BY DEF Begins
<1>3. Fetched(cas, o, Len(p), key) = Readable(p)
    BY <1>1, <1>2, FetchesBack
<1>b. Fetched(cut, o, c, key).ok
    BY DEF p
<1> HIDE DEF c
<1>4. o + Stride(c, key) <= Len(cut)
    BY <1>1, <1>2, <1>a, <1>b, FetchedIs
<1>5. Fetched(cas, o, c, key) = Fetched(cut, o, c, key)
    BY <1>1, <1>2, <1>4, <1>a, FetchedStays
<1> QED BY <1>3, <1>5 DEF p, c

\* Whatever the loop starts with, its entries are as they should be.
LEMMA BuiltIs ==
    ASSUME NEW blocks, IsSeq(blocks), \A i \in 1..Len(blocks) : BlockOK(blocks[i]),
           NEW methods \in Seq(Methods), input.toc.methods = methods,
           NEW forms \in [1..Len(blocks) -> 0..Len(methods)],
           NEW cas, IsSeq(cas), Begins(input.cas, cas),
           NEW i \in 1..Len(blocks), NEW o,
           Found(cas, blocks, methods, input.toc.key, forms, o, i),
           NEW e, e = [offset |-> o, csize |-> Len(Form(blocks[i], methods, forms[i])),
                       usize |-> Len(blocks[i]), method |-> forms[i]]
    PROVE  EntryOK(e)
<1> DEFINE p == Form(blocks[i], methods, forms[i])
           key == input.toc.key
<1>1. /\ e.offset = o /\ e.csize = Len(p) /\ e.usize = Len(blocks[i]) /\ e.method = forms[i]
    OBVIOUS
<1>2. BlockOK(blocks[i])
    OBVIOUS
<1>3. IsSeq(p) /\ Len(p) \in Nat \ {0}
    BY <1>2, FormIs
<1>4. o \in Nat /\ Len(blocks[i]) \in Nat \ {0} /\ forms[i] \in 0..Len(methods)
    BY <1>2 DEF Found, BlockOK
<1>5. ASSUME Encoded(e).ok PROVE PackedLen(Decoded(e, Encoded(e).data)) \in Nat \ {0}
    <2> DEFINE x == Encoded(e).data
    <2>1. x = p
        <3>1. Fetched(input.cas, o, Len(p), key).ok
            BY <1>1, <1>5, EncodedIs
        <3>2. Fetched(input.cas, o, Len(p), key) = Readable(p)
            BY <1>2, <3>1, FoundIs
        <3>3. Encoded(e) = Readable(p)
            BY <1>1, <3>2, EncodedIs
        <3> HIDE DEF p
        <3> QED BY <3>3 DEF Readable
    <2>2. Decoded(e, x) = blocks[i]
        <3>1. CASE forms[i] = 0
            <4>1. MethodOf(e) = NoMethod /\ p = blocks[i]
                BY <1>1, <3>1 DEF MethodOf, Form
            <4> HIDE DEF x, p
            <4> QED BY <2>1, <4>1 DEF Decoded
        <3>2. CASE forms[i] # 0
            <4>1. p = Compress(methods[forms[i]], blocks[i]) /\ MethodOf(e) = methods[forms[i]]
                BY <1>1, <3>2 DEF MethodOf, Form
            <4>2. MethodOf(e) # NoMethod
                <5>1. Len(methods) \in Nat
                    BY LenProperties
                <5>2. forms[i] \in 1..Len(methods)
                    BY <1>4, <3>2, <5>1
                <5>3. methods[forms[i]] \in Methods
                    BY <5>2, ElementOfSeq
                <5> QED BY <4>1, <5>3, MethodsProper
            <4>3. p[1].packed = blocks[i]
                BY <1>2, <4>1, CompressIs DEF BlockOK
            <4> HIDE DEF x, p
            <4> QED BY <2>1, <4>2, <4>3 DEF Decoded, Decompress
        <3> QED BY <3>1, <3>2
    <2> QED BY <1>2, <2>2 DEF BlockOK
<1> HIDE DEF p
<1> QED BY <1>1, <1>3, <1>4, <1>5 DEF EntryOK

\* The blocks of the container the loop starts with, and what lies in its .ucas.
BlocksOf(chunks) == FlattenSeq([c \in DOMAIN chunks |-> Blocks(chunks[c])])
LengthsOf(chunks) == [c \in DOMAIN chunks |-> Len(Blocks(chunks[c]))]

IsContainer(b, chunks, methods, key, forms, backwards, blocks, parts) ==
    /\ DOMAIN b = {"cas", "toc"}
    /\ DOMAIN b.toc = {"compression_blocks", "chunk_offset_lengths", "methods", "key"}
    /\ b.cas = Before(parts, Len(blocks) + 1)
    /\ b.toc.methods = methods /\ b.toc.key = key
    /\ b.toc.chunk_offset_lengths =
            [c \in DOMAIN chunks |->
                [offset |-> Offsets(0, LengthsOf(chunks))[c] * BlockSize,
                 length |-> Len(chunks[c])]]
    /\ b.toc.compression_blocks =
            [i \in 1..Len(blocks) |->
                [offset |-> Len(Before(parts, Place(Len(blocks), backwards, i))) + 1,
                 csize  |-> Len(Form(blocks[i], methods, forms[i])),
                 usize  |-> Len(blocks[i]),
                 method |-> forms[i]]]

LEMMA ContainerIs ==
    ASSUME NEW chunks, NEW methods, NEW key, NEW forms, NEW backwards
    PROVE  LET blocks == BlocksOf(chunks) IN
           IsContainer(BuildContainer(chunks, methods, key, forms, backwards),
                       chunks, methods, key, forms, backwards, blocks,
                       Layout(blocks, methods, key, forms, backwards))
<1> DEFINE blocks == BlocksOf(chunks)
           parts == Layout(blocks, methods, key, forms, backwards)
           table == [i \in 1..Len(blocks) |->
                        [offset |-> Len(Before(parts, Place(Len(blocks), backwards, i))) + 1,
                         csize  |-> Len(Form(blocks[i], methods, forms[i])),
                         usize  |-> Len(blocks[i]),
                         method |-> forms[i]]]
           lengths == [c \in DOMAIN chunks |->
                        [offset |-> Offsets(0, LengthsOf(chunks))[c] * BlockSize,
                         length |-> Len(chunks[c])]]
           b == BuildContainer(chunks, methods, key, forms, backwards)
<1>1. b = [ cas |-> Before(parts, Len(blocks) + 1),
            toc |-> [ compression_blocks |-> table, chunk_offset_lengths |-> lengths,
                      methods |-> methods, key |-> key ] ]
    BY DEF BuildContainer, BlocksOf, Before, LengthsOf
<1> HIDE DEF b, table, lengths, parts, blocks
<1>2. /\ DOMAIN b = {"cas", "toc"}
      /\ DOMAIN b.toc = {"compression_blocks", "chunk_offset_lengths", "methods", "key"}
      /\ b.cas = Before(parts, Len(blocks) + 1)
      /\ b.toc.methods = methods /\ b.toc.key = key
      /\ b.toc.chunk_offset_lengths = lengths /\ b.toc.compression_blocks = table
    BY <1>1
<1> HIDE DEF b
<1>3. IsContainer(b, chunks, methods, key, forms, backwards, blocks, parts)
    BY <1>2 DEF IsContainer, table, lengths
<1> QED BY <1>3 DEF b, parts, blocks

\* The loop starts with an input that it can go through, and nothing staged.
LEMMA InitTransformInv == TransformInit => TransformInv
<1> SUFFICES ASSUME TransformInit PROVE TransformInv
    OBVIOUS
<1>1. PICK chunks \in [1..2 -> Contents], methods \in MethodLists,
           key \in InputKeys \cup {NoKey}, backwards \in BOOLEAN, cut \in 0..1 :
        \E forms \in [1..(Len(Blocks(chunks[1])) + Len(Blocks(chunks[2])))
                        -> 0..Len(methods)] :
            LET container == BuildContainer(chunks, methods, key, forms, backwards)
            IN  input = [container EXCEPT !.cas = SubSeq(@, 1, Len(@) - cut)]
    BY DEF TransformInit
<1>2. PICK forms \in [1..(Len(Blocks(chunks[1])) + Len(Blocks(chunks[2]))) -> 0..Len(methods)] :
            LET container == BuildContainer(chunks, methods, key, forms, backwards)
            IN  input = [container EXCEPT !.cas = SubSeq(@, 1, Len(@) - cut)]
    BY <1>1
<1>3. PICK b : b = BuildContainer(chunks, methods, key, forms, backwards)
    OBVIOUS
<1>4. PICK blocks : blocks = BlocksOf(chunks)
    OBVIOUS
<1>5. PICK parts : parts = Layout(blocks, methods, key, forms, backwards)
    OBVIOUS
<1> DEFINE n == Len(blocks)
<1>6. /\ IsSeq(blocks) /\ n \in Nat
      /\ n = Len(Blocks(chunks[1])) + Len(Blocks(chunks[2]))
      /\ \A i \in 1..n : BlockOK(blocks[i])
    <2> DEFINE x == Blocks(chunks[1])
               y == Blocks(chunks[2])
    <2>1. /\ Parts(x) /\ \A k \in 1..Len(x) : BlockOK(x[k])
          /\ Parts(y) /\ \A k \in 1..Len(y) : BlockOK(y[k])
        BY ContentIs
    <2>2. [c \in DOMAIN chunks |-> Blocks(chunks[c])] = [c \in 1..2 |-> IF c = 1 THEN x ELSE y]
        OBVIOUS
    <2> HIDE DEF x, y
    <2>3. blocks = FlattenSeq([c \in 1..2 |-> IF c = 1 THEN x ELSE y])
        BY <1>4, <2>2 DEF BlocksOf
    <2>a. Both(FlattenSeq([c \in 1..2 |-> IF c = 1 THEN x ELSE y]), x, y)
        BY <2>1, TwoJoin
    <2>b. Both(blocks, x, y)
        BY <2>3, <2>a
    <2>4. /\ IsSeq(blocks) /\ n = Len(x) + Len(y)
          /\ \A i \in 1..n : \/ \E k \in 1..Len(x) : blocks[i] = x[k]
                             \/ \E k \in 1..Len(y) : blocks[i] = y[k]
        BY <2>b DEF Both
    <2> QED BY <2>1, <2>4, SeqHas DEF x, y
<1>7. IsContainer(b, chunks, methods, key, forms, backwards, blocks, parts)
    <2>1. IsContainer(BuildContainer(chunks, methods, key, forms, backwards),
                      chunks, methods, key, forms, backwards, BlocksOf(chunks),
                      Layout(BlocksOf(chunks), methods, key, forms, backwards))
        BY ContainerIs
    <2> QED BY <1>3, <1>4, <1>5, <2>1
<1> HIDE DEF n
<1>8. PICK cas : cas = b.cas
    OBVIOUS
<1>9. input.cas = SubSeq(cas, 1, Len(cas) - cut) /\ input.toc = b.toc
    <2>1. input = [b EXCEPT !.cas = SubSeq(@, 1, Len(@) - cut)]
        BY <1>2, <1>3
    <2>2. DOMAIN b = {"cas", "toc"}
        BY <1>7 DEF IsContainer
    <2> QED BY <1>8, <2>1, <2>2
<1>10. /\ IsSeq(cas)
       /\ \A i \in 1..n : Found(cas, blocks, methods, key, forms,
                                Len(Before(parts, Place(n, backwards, i))) + 1, i)
    <2>1. LaysOut(parts, blocks, methods, key, forms, backwards)
        BY <1>5, <1>6, LayoutHolds DEF n
    <2>2. cas = Before(parts, n + 1)
        BY <1>7, <1>8 DEF IsContainer, n
    <2> QED BY <2>1, <2>2 DEF LaysOut, n
<1>11. Begins(input.cas, cas)
    <2>1. Begins(SubSeq(cas, 1, Len(cas) - cut), cas)
        BY <1>10, CutOff
    <2> QED BY <1>9, <2>1
<1>12. methods \in Seq(Methods) /\ forms \in [1..n -> 0..Len(methods)]
    BY <1>6, MethodsProper
<1>13. IsSeq(OldTable) /\ Len(OldTable) = n
    <2>1. OldTable = [i \in 1..n |-> OldTable[i]]
        BY <1>7, <1>9 DEF OldTable, IsContainer, n
    <2> QED BY <1>6, <2>1, Made
<1>14. ASSUME NEW i \in 1..n PROVE EntryOK(OldTable[i])
    <2>1. PICK e, o : /\ o = Len(Before(parts, Place(n, backwards, i))) + 1
                      /\ e = [offset |-> o,
                              csize  |-> Len(Form(blocks[i], methods, forms[i])),
                              usize  |-> Len(blocks[i]),
                              method |-> forms[i]]
        OBVIOUS
    <2>2. OldTable[i] = e
        BY <1>7, <1>9, <2>1 DEF OldTable, IsContainer, n
    <2>3. input.toc.methods = methods /\ input.toc.key = key
        BY <1>7, <1>9 DEF IsContainer
    <2>4. Found(cas, blocks, methods, input.toc.key, forms, o, i)
        BY <1>10, <2>1, <2>3
    <2>5. EntryOK(e)
        BY <1>6, <1>10, <1>11, <1>12, <2>1, <2>3, <2>4, BuiltIs DEF n
    <2> QED BY <2>2, <2>5
<1>15. ASSUME NEW c \in Chunks
       PROVE  /\ input.toc.chunk_offset_lengths[c].offset \in Nat
              /\ input.toc.chunk_offset_lengths[c].length \in Nat
    <2>1. c \in 1..2
        BY <1>7, <1>9 DEF Chunks, IsContainer
    <2> DEFINE z == LengthsOf(chunks)
    <2>2. z \in [1..2 -> Nat]
        <3>1. \A d \in 1..2 : Len(Blocks(chunks[d])) \in Nat
            BY ContentIs, SeqHas DEF Parts
        <3> QED BY <3>1 DEF LengthsOf
    <2> HIDE DEF z
    <2>3. z \in Seq(Nat) /\ Len(z) = 2
        <3>1. z \in Seq(Nat)
            <4>1. PICK m \in Nat : m = 2
                OBVIOUS
            <4>2. z \in [1..m -> Nat]
                BY <2>2, <4>1
            <4> QED BY <4>2
        <3>2. DOMAIN z = 1..2 /\ DOMAIN z = 1..Len(z) /\ Len(z) \in Nat
            BY <2>2, <3>1, LenProperties
        <3> QED BY <3>1, <3>2
    <2>4. Offsets(0, z)[c] \in Nat
        <3>1. IsOffsets(Offsets(0, z), 0, z)
            BY <2>3, OffsetsAre
        <3>2. Offsets(0, z) \in [1..(2 + 1) -> Nat]
            BY <2>3, <3>1 DEF IsOffsets
        <3> QED BY <2>1, <3>2
    <2>5. Offsets(0, z)[c] * BlockSize \in Nat
        BY <2>4, BlockSizesPositive
    <2>6. Len(chunks[c]) \in Nat
        BY <2>1, ContentIs
    <2>7. input.toc.chunk_offset_lengths[c] =
            [offset |-> Offsets(0, z)[c] * BlockSize, length |-> Len(chunks[c])]
        BY <1>7, <1>9, <2>1 DEF z, IsContainer
    <2> QED BY <2>5, <2>6, <2>7
<1>16. InputOK
    BY <1>7, <1>9, <1>11, <1>12, <1>13, <1>14, <1>15 DEF InputOK, Begins, IsContainer
<1>17. /\ compression_blocks = OldTable /\ destination = <<>> /\ index = 0
       /\ status = "repacking" /\ request.compression \in Methods \cup {NoMethod}
       /\ request.key \in OutputKeys \cup {NoKey}
    BY DEF TransformInit, OldTable
<1>18. TransformTypeOK
    BY <1>6, <1>13, <1>17 DEF TransformTypeOK, OldTable
<1>19. TableHalfRewritten
    <2> DEFINE z == [k \in 1..0 |-> Stride(compression_blocks[k].csize, request.key)]
    <2>1. z \in Seq(Nat) /\ Len(z) = 0
        <3>1. z \in [1..0 -> Nat] /\ 0 \in Nat
            OBVIOUS
        <3> HIDE DEF z
        <3> QED BY <3>1, LenProperties
    <2>2. Offsets(0, z)[1] = 0
        BY <2>1, OffsetsAre DEF IsOffsets
    <2>3. Starts(compression_blocks, 0, request.key)[0 + 1] = 0
        BY <2>2 DEF Starts
    <2>4. HalfRewritten(compression_blocks, 0, destination)
        BY <1>17, <2>3, EmptyIs DEF HalfRewritten
    <2> QED BY <1>17, <2>4, HalfIs
<1> QED BY <1>13, <1>16, <1>17, <1>18, <1>19, EmptyIs DEF TransformInv

-----------------------------------------------------------------------------
(* publish()                                                               *)

USE CountPositive

\* What each file's place, backup and membership of the two vectors have to do
\* with each other.  While no rollback step has failed, they determine what is
\* at the destination; a published file is there until it is removed; a vector
\* element waits for its own rollback step only.
FileInv(e) ==
    /\ backup[e] = "old" => original[e] = "old"
    /\ target[e] = "old" => original[e] = "old"
    /\ original[e] = "dir" => /\ target[e] = "dir"
                              /\ e \notin backups
                              /\ e \notin published
    /\ target[e] = "dir" => original[e] = "dir"
    /\ e \in published => /\ target[e] = "new"
                          /\ original[e] = "old" => e \in backups
    /\ e \in backups /\ published # Exts => backup[e] = "old"
    /\ original[e] = "old" /\ published # Exts => target[e] = "old" \/ backup[e] = "old"
    /\ ~rollback_errors =>
        target[e] = IF e \in published THEN "new"
                    ELSE IF e \in backups THEN "none" ELSE original[e]

\* How far the loop has come.
LoopInv ==
    /\ pc \in {"backup", "place"} =>
        /\ ~rollback_errors
        /\ published = 1..(current - 1)
        /\ \A e \in backups : e <= current
    /\ pc = "backup" => current \notin backups
    /\ pc = "place" => target[current] = "none"
    /\ pc \in {"drop_ok", "ok"} => published = Exts
    /\ pc = "rollback" => published # Exts
    /\ pc \in {"drop_err", "restored"} => ~rollback_errors /\ published = {} /\ backups = {}
    /\ published # Exts => current \in Exts /\ target[current] # "new"

IInv == TypeOK /\ LoopInv /\ \A e \in Exts : FileInv(e)

\* Nothing is moved yet.
LEMMA InitIInv == Init => IInv
<1> SUFFICES ASSUME Init PROVE IInv
    OBVIOUS
<1>1. TypeOK
    <2>1. 1 \in 1..(Count + 1)
        OBVIOUS
    <2>2. target \in [Exts -> {"none", "old", "dir", "new"}]
        BY DEF Init
    <2> QED BY <2>1, <2>2 DEF Init, TypeOK
<1>2. LoopInv
    BY DEF Init, LoopInv, Exts
<1>3. \A e \in Exts : FileInv(e)
    BY DEF Init, FileInv
<1> QED BY <1>1, <1>2, <1>3 DEF IInv

\* The forward loop.
LEMMA ForwardIInv ==
    ASSUME IInv, NothingThere \/ MoveOriginalAway \/ PlaceStaged
    PROVE  IInv'
<1> USE DEF IInv
<1>1. CASE NothingThere
    <2>1. TypeOK'
        BY <1>1 DEF TypeOK, NothingThere
    <2>2. LoopInv'
        BY <1>1 DEF LoopInv, NothingThere
    <2>3. \A e \in Exts : FileInv(e)'
        BY <1>1 DEF FileInv, NothingThere
    <2> QED BY <2>1, <2>2, <2>3
<1>2. CASE MoveOriginalAway
    <2>1. TypeOK'
        BY <1>2 DEF TypeOK, MoveOriginalAway
    <2>2. LoopInv'
        BY <1>2 DEF LoopInv, TypeOK, MoveOriginalAway
    <2>3. \A e \in Exts : FileInv(e)'
        <3>1. current \notin published
            BY <1>2 DEF LoopInv, MoveOriginalAway, TypeOK
        <3>2. original[current] = "old"
            BY <1>2 DEF FileInv, MoveOriginalAway
        <3> QED BY <1>2, <3>1, <3>2 DEF FileInv, MoveOriginalAway, TypeOK
    <2> QED BY <2>1, <2>2, <2>3
<1>3. CASE PlaceStaged
    <2>1. current \in Exts
        BY <1>3 DEF PlaceStaged, TypeOK
    <2>2. TypeOK'
        BY <1>3, <2>1 DEF TypeOK, PlaceStaged, Exts
    <2>3. LoopInv'
        <3>1. published' = 1..(current' - 1)
            BY <1>3, <2>1 DEF LoopInv, PlaceStaged, Exts
        <3>2. \A e \in backups' : e <= current' /\ e # current'
            BY <1>3, <2>1 DEF LoopInv, PlaceStaged, Exts, TypeOK
        <3>3. published' # Exts => current' \in Exts /\ target'[current'] # "new"
            <4> SUFFICES ASSUME published' # Exts
                         PROVE  current' \in Exts /\ target'[current'] # "new"
                OBVIOUS
            <4>1. current' = current + 1 /\ current' \in Exts
                BY <1>3, <2>1, <3>1 DEF PlaceStaged, Exts
            <4>2. current' # current /\ current' \notin published /\ ~rollback_errors
                BY <1>3, <2>1, <4>1 DEF LoopInv, PlaceStaged, Exts
            <4>3. target[current'] # "new"
                BY <4>1, <4>2 DEF FileInv, TypeOK
            <4>4. target'[current'] = target[current']
                BY <1>3, <4>1, <4>2 DEF PlaceStaged, TypeOK
            <4> QED BY <4>1, <4>3, <4>4
        <3>4. pc' = "backup"
            BY <1>3 DEF PlaceStaged
        <3>5. ~rollback_errors'
            BY <1>3 DEF PlaceStaged, LoopInv
        <3> QED BY <3>1, <3>2, <3>3, <3>4, <3>5 DEF LoopInv
    <2>4. \A e \in Exts : FileInv(e)'
        BY <1>3, <2>1 DEF FileInv, PlaceStaged, LoopInv, TypeOK
    <2> QED BY <2>2, <2>3, <2>4
<1> QED BY <1>1, <1>2, <1>3

\* The failing steps and the kill move no file; rollback begins with a file that
\* has not been published.
LEMMA FailIInv ==
    ASSUME IInv, BackupFails \/ PlaceFails \/ Killed
    PROVE  IInv'
<1> USE DEF IInv
<1>1. UNCHANGED <<original, target, backup, staged, current, backups, published,
                  rollback_errors>> /\ pc' \in {"rollback", "killed"}
    BY DEF BackupFails, PlaceFails, Killed, StepFails, Ended
<1>2. TypeOK'
    BY <1>1 DEF TypeOK
<1>3. pc' = "rollback" => published # Exts
    <2> SUFFICES ASSUME pc' = "rollback" PROVE published # Exts
        OBVIOUS
    <2>1. current \in Exts /\ pc \in {"backup", "place"}
        BY DEF BackupFails, PlaceFails, Killed, TypeOK
    <2>2. current \notin published
        BY <2>1 DEF LoopInv, Exts
    <2> QED BY <2>1, <2>2
<1>4. LoopInv'
    BY <1>1, <1>3 DEF LoopInv
<1>5. \A e \in Exts : FileInv(e)'
    BY <1>1 DEF FileInv
<1> QED BY <1>2, <1>4, <1>5

\* The rollback steps, failing or not.
LEMMA RollbackIInv ==
    ASSUME IInv, NEW e \in Exts,
           \/ RemovePublished(e) \/ RemoveFails(e)
           \/ RestoreOriginal(e) \/ RestoreFails(e)
    PROVE  IInv'
<1> USE DEF IInv
<1>1. pc = "rollback" /\ UNCHANGED <<original, staged, current, pc>>
    BY DEF RemovePublished, RemoveFails, RestoreOriginal, RestoreFails
<1>2. TypeOK'
    BY <1>1 DEF TypeOK, RemovePublished, RemoveFails, RestoreOriginal, RestoreFails
<1>0. published # Exts /\ published' # Exts
    <2>1. published # Exts
        BY <1>1 DEF LoopInv
    <2>2. published \subseteq Exts
        BY DEF TypeOK
    <2>3. published' \in {published, published \ {e}}
        BY DEF RemovePublished, RemoveFails, RestoreOriginal, RestoreFails
    <2> QED BY <2>1, <2>2, <2>3
<1>3. LoopInv'
    <2>1. current \in Exts /\ target[current] # "new"
        BY <1>0 DEF LoopInv
    <2>2. target'[current] \in {target[current], "none", "old"}
        BY <2>1 DEF RemovePublished, RemoveFails, RestoreOriginal, RestoreFails, TypeOK
    <2> QED BY <1>0, <1>1, <2>1, <2>2 DEF LoopInv
<1>4. CASE RemovePublished(e)
    <2>1. e \in published
        BY <1>4 DEF RemovePublished, Latest
    <2>2. target[e] = "new" /\ original[e] # "dir"
        BY <2>1 DEF FileInv
    <2>3. \A f \in Exts : FileInv(f)'
        <3> SUFFICES ASSUME NEW f \in Exts PROVE FileInv(f)'
            OBVIOUS
        <3>1. CASE f = e
            <4>1. target'[e] = "none" /\ e \notin published'
                BY <1>4 DEF RemovePublished, TypeOK
            <4>2. UNCHANGED <<original, backup, backups, rollback_errors>>
                BY <1>4 DEF RemovePublished
            <4> QED BY <1>0, <2>1, <2>2, <3>1, <4>1, <4>2 DEF FileInv, TypeOK
        <3>2. CASE f # e
            BY <1>0, <1>4, <3>2 DEF FileInv, RemovePublished, TypeOK
        <3> QED BY <3>1, <3>2
    <2> QED BY <1>2, <1>3, <2>3
<1>5. CASE RemoveFails(e)
    BY <1>0, <1>1, <1>2, <1>3, <1>5 DEF FileInv, RemoveFails
<1>6. CASE RestoreOriginal(e)
    <2>1. e \in backups
        BY <1>6 DEF RestoreOriginal, Latest
    <2>2. original[e] = "old"
        BY <1>0, <2>1 DEF FileInv
    <2>3. \A f \in Exts : FileInv(f)'
        <3> SUFFICES ASSUME NEW f \in Exts PROVE FileInv(f)'
            OBVIOUS
        <3>1. UNCHANGED <<original, published, rollback_errors>> /\ published = {}
            BY <1>6 DEF RestoreOriginal
        <3>2. CASE f = e
            <4>1. target'[e] = "old" /\ backup'[e] = "none" /\ e \notin backups'
                BY <1>6 DEF RestoreOriginal, TypeOK
            <4> QED BY <1>0, <2>2, <3>1, <3>2, <4>1 DEF FileInv
        <3>3. CASE f # e
            <4>1. target'[f] = target[f] /\ backup'[f] = backup[f]
                  /\ (f \in backups' <=> f \in backups)
                BY <1>6, <3>3 DEF RestoreOriginal, TypeOK
            <4> QED BY <1>0, <3>1, <4>1 DEF FileInv
        <3> QED BY <3>2, <3>3
    <2> QED BY <1>2, <1>3, <2>3
<1>7. CASE RestoreFails(e)
    BY <1>1, <1>2, <1>3, <1>7 DEF FileInv, RestoreFails
<1> QED BY <1>4, <1>5, <1>6, <1>7

\* The three ways publish() returns.
LEMMA ReturnIInv ==
    ASSUME IInv, AllPublished \/ ReportRestored \/ ReportKept
    PROVE  IInv'
<1> USE DEF IInv
<1>1. UNCHANGED <<original, target, backup, staged, current, backups, published,
                  rollback_errors>> /\ pc' \in {"drop_ok", "drop_err", "kept"}
    BY DEF AllPublished, ReportRestored, ReportKept
<1>2. TypeOK'
    BY <1>1 DEF TypeOK
<1>3. pc' = "drop_ok" => published = Exts
    <2> SUFFICES ASSUME AllPublished PROVE published = Exts
        BY DEF AllPublished, ReportRestored, ReportKept
    <2>1. current = Count + 1
        BY CountPositive DEF AllPublished, TypeOK
    <2> QED BY <2>1, CountPositive DEF AllPublished, LoopInv, Exts
<1>4. pc' = "drop_err" => ~rollback_errors /\ published = {} /\ backups = {}
    BY DEF AllPublished, ReportRestored, ReportKept, RolledBack
<1>5. LoopInv'
    BY <1>1, <1>3, <1>4 DEF LoopInv
<1>6. \A e \in Exts : FileInv(e)'
    BY <1>1 DEF FileInv
<1> QED BY <1>2, <1>5, <1>6

\* The drop of the staging directory: nothing in it is needed any more.
LEMMA DropIInv ==
    ASSUME IInv, (\E e \in Exts : DropFile(e)) \/ Returned
    PROVE  IInv'
<1> USE DEF IInv
<1>1. CASE \E e \in Exts : DropFile(e)
    <2>1. PICK e \in Exts : DropFile(e)
        BY <1>1
    <2>2. /\ UNCHANGED <<original, target, current, pc, backups, published, rollback_errors>>
          /\ pc \in {"drop_ok", "drop_err"}
        BY <2>1 DEF DropFile, Dropping
    <2>3. TypeOK'
        BY <2>1 DEF TypeOK, DropFile
    <2>4. LoopInv'
        BY <2>2 DEF LoopInv
    <2>5. \A f \in Exts : backup'[f] \in {"none", backup[f]}
        BY <2>1 DEF DropFile, TypeOK
    <2>6. published = Exts \/ (~rollback_errors /\ published = {} /\ backups = {})
        BY <2>2 DEF LoopInv
    <2>7. \A f \in Exts : FileInv(f)'
        BY <2>2, <2>5, <2>6 DEF FileInv
    <2> QED BY <2>3, <2>4, <2>7
<1>2. CASE Returned
    <2>1. /\ UNCHANGED <<original, target, backup, staged, current, backups, published,
                        rollback_errors>>
          /\ \/ pc = "drop_ok" /\ pc' = "ok"
             \/ pc = "drop_err" /\ pc' = "restored"
        BY <1>2 DEF Returned, Dropping
    <2>2. TypeOK'
        BY <2>1 DEF TypeOK
    <2>3. LoopInv'
        BY <2>1 DEF LoopInv
    <2>4. \A f \in Exts : FileInv(f)'
        BY <2>1 DEF FileInv
    <2> QED BY <2>2, <2>3, <2>4
<1> QED BY <1>1, <1>2

\* Every step of publish() keeps the invariant.
LEMMA NextIInv == IInv /\ [Next]_vars => IInv'
<1> SUFFICES ASSUME IInv, [Next]_vars PROVE IInv'
    OBVIOUS
<1>1. CASE UNCHANGED vars
    BY <1>1 DEF IInv, TypeOK, LoopInv, FileInv, vars
<1>2. CASE Done
    BY <1>1, <1>2 DEF Done
<1> QED BY <1>1, <1>2, ForwardIInv, FailIInv, RollbackIInv, ReturnIInv, DropIInv DEF Next

\* publish() is always in a state of the inductive invariant.
THEOREM PublishInvariant == Spec => []IInv
BY InitIInv, NextIInv, PTL DEF Spec

\* Type correctness of publish().
THEOREM PublishTypeCorrect == Spec => []TypeOK
<1>1. IInv => TypeOK
    BY DEF IInv
<1> QED BY <1>1, PublishInvariant, PTL

\* The new bundle is in place exactly when all its files have been published.
LEMMA InPlaceIs == IInv => (NewInPlace <=> published = Exts)
<1> SUFFICES ASSUME IInv PROVE NewInPlace <=> published = Exts
    OBVIOUS
<1>1. published = Exts => NewInPlace
    BY DEF IInv, FileInv, NewInPlace
<1>2. published # Exts => ~NewInPlace
    BY DEF IInv, LoopInv, NewInPlace
<1> QED BY <1>1, <1>2

LEMMA InPlaceIsThen == IInv' => (NewInPlace' <=> published' = Exts)
<1> SUFFICES ASSUME IInv' PROVE NewInPlace' <=> published' = Exts
    OBVIOUS
<1>1. published' = Exts => NewInPlace'
    BY DEF IInv, FileInv, NewInPlace
<1>2. published' # Exts => ~NewInPlace'
    BY DEF IInv, LoopInv, NewInPlace
<1> QED BY <1>1, <1>2

\* In these states nothing is lost and the message is true.
LEMMA IInvMeans == IInv => OriginalsSurvive /\ RestoredMeansUntouched
<1>1. IInv => OriginalsSurvive
    BY InPlaceIs DEF IInv, FileInv, OriginalsSurvive
<1>2. IInv => RestoredMeansUntouched
    <2> SUFFICES ASSUME IInv, pc \in {"drop_err", "restored"} PROVE target = original
        BY DEF RestoredMeansUntouched
    <2>1. \A e \in Exts : target[e] = original[e]
        BY DEF IInv, LoopInv, FileInv
    <2> QED BY <2>1 DEF IInv, TypeOK
<1> QED BY <1>1, <1>2

\* An original is at its place or in staging until the last file of the new bundle
\* is at the destination, whatever fails, and wherever the process is killed, the
\* drop of the staging directory included.
THEOREM OriginalsAreNeverLost == Spec => []OriginalsSurvive
BY IInvMeans, PublishInvariant, PTL

\* The message "original files restored" is true.
THEOREM RestoredIsUntouched == Spec => []RestoredMeansUntouched
BY IInvMeans, PublishInvariant, PTL

\* A step that changes neither what is at the destination nor what the staging
\* directory holds changes nothing that can be recovered.
LEMMA SameFiles ==
    ASSUME UNCHANGED <<target, backup>>
    PROVE  UNCHANGED [e \in Exts |-> Recoverable(e)]
BY DEF Recoverable, NewInPlace, Exts

\* A step of publish() replaces the whole bundle, or leaves what can be
\* recovered of it as it was.
LEMMA StepSwaps ==
    ASSUME IInv, IInv', [Next]_vars
    PROVE  [Swap!SwapAll]_([e \in Exts |-> Recoverable(e)])
<1> USE DEF IInv
<1> DEFINE Same == \A e \in Exts : Recoverable(e)' = Recoverable(e)
<1>0. Same => UNCHANGED [e \in Exts |-> Recoverable(e)]
    OBVIOUS
<1>a. /\ NewInPlace <=> published = Exts
      /\ NewInPlace' <=> published' = Exts
    BY InPlaceIs, InPlaceIsThen
<1>1. CASE UNCHANGED <<target, backup>>
    BY <1>1, SameFiles
<1>2. CASE MoveOriginalAway
    <2>1. current \in published' => current \in published
        BY <1>2 DEF MoveOriginalAway
    <2>2. published # Exts /\ published' # Exts
        BY <1>2 DEF MoveOriginalAway, FileInv
    <2> QED BY <1>0, <1>2, <1>a, <2>2 DEF MoveOriginalAway, Recoverable, TypeOK
<1>3. CASE PlaceStaged
    <2>1. current \in Exts /\ target[current] = "none" /\ current \notin published
        BY <1>3 DEF PlaceStaged, TypeOK, LoopInv, Exts
    <2>2. ~NewInPlace
        BY <1>a, <2>1
    <2>3. CASE published' # Exts
        <3>1. ~NewInPlace'
            BY <1>a, <2>3
        <3> QED BY <1>0, <1>3, <2>1, <2>2, <3>1 DEF PlaceStaged, Recoverable, TypeOK
    <2>4. CASE published' = Exts
        <3>1. \A e \in Exts : Recoverable(e)' = "new"
            BY <1>a, <2>4 DEF Recoverable
        <3>2. \A e \in Exts : target[e] # "dir"
            BY <1>3, <2>1, <2>4 DEF PlaceStaged, FileInv
        <3>3. \A e \in Exts : Recoverable(e) # "dir"
            BY <2>2, <3>2 DEF Recoverable
        <3> QED BY <3>1, <3>3 DEF Swap!SwapAll
    <2> QED BY <2>3, <2>4
<1>4. ASSUME NEW e \in Exts, RemovePublished(e)
      PROVE  Same
    <2>1. target[e] = "new" /\ published # Exts /\ published' # Exts
        BY <1>4 DEF RemovePublished, Latest, FileInv, LoopInv
    <2>2. ~NewInPlace /\ ~NewInPlace'
        BY <1>a, <2>1
    <2> QED BY <1>4, <2>1, <2>2 DEF RemovePublished, Recoverable, TypeOK
<1>5. ASSUME NEW e \in Exts, RestoreOriginal(e)
      PROVE  Same
    <2>1. backup[e] = "old" /\ published # Exts /\ published' # Exts
        BY <1>5 DEF RestoreOriginal, Latest, FileInv, LoopInv
    <2>2. ~NewInPlace /\ ~NewInPlace'
        BY <1>a, <2>1
    <2> QED BY <1>5, <2>1, <2>2 DEF RestoreOriginal, Recoverable, TypeOK
<1>6. ASSUME NEW e \in Exts, DropFile(e)
      PROVE  Same
    <2>1. UNCHANGED <<target, published>> /\ pc \in {"drop_ok", "drop_err"}
        BY <1>6 DEF DropFile, Dropping
    <2>2. CASE published = Exts
        BY <1>a, <2>1, <2>2 DEF Recoverable
    <2>3. CASE published # Exts
        <3>1. ~NewInPlace /\ ~NewInPlace' /\ pc = "drop_err"
            BY <1>a, <2>1, <2>3 DEF LoopInv
        <3>2. \A f \in Exts : target[f] = original[f] /\ target[f] # "new"
            BY <3>1 DEF LoopInv, FileInv, TypeOK
        <3>3. \A f \in Exts : backup[f] = "old" => target[f] = "old"
            BY <3>2 DEF FileInv
        <3>4. \A f \in Exts : backup'[f] = "old" => backup[f] = "old"
            BY <1>6 DEF DropFile, TypeOK
        <3> QED BY <2>1, <3>1, <3>2, <3>3, <3>4 DEF Recoverable
    <2> QED BY <2>2, <2>3
<1>7. Next => UNCHANGED <<target, backup>> \/ MoveOriginalAway \/ PlaceStaged
             \/ \E e \in Exts : RemovePublished(e) \/ RestoreOriginal(e) \/ DropFile(e)
    BY DEF Next, NothingThere, BackupFails, PlaceFails, StepFails, AllPublished, RemoveFails,
           RestoreFails, ReportRestored, ReportKept, Returned, Killed, Done, vars
<1>8. CASE UNCHANGED vars
    BY <1>1, <1>8 DEF vars
<1> QED BY <1>0, <1>1, <1>2, <1>3, <1>4, <1>5, <1>6, <1>7, <1>8

\* Nothing of the new bundle is there at first.
LEMMA InitSwap == Init => Swap!SwapInit
<1> SUFFICES ASSUME Init PROVE Swap!SwapInit
    OBVIOUS
<1>1. ~NewInPlace
    <2>1. 1 \in Exts /\ target[1] # "new"
        BY CountPositive DEF Init, Exts
    <2> QED BY <2>1 DEF NewInPlace
<1> QED BY <1>1 DEF Init, Swap!SwapInit, Recoverable

\* The sequence of renames, rollbacks and deletions implements one atomic
\* replacement.
THEOREM PublishSwapsAtomically == Spec => SwapsAtomically
<1>1. Init => Swap!SwapInit
    BY InitSwap
<1> QED BY <1>1, StepSwaps, PublishInvariant, PTL DEF Spec, SwapsAtomically, Swap!SwapSpec

-----------------------------------------------------------------------------
(* Both together                                                           *)

\* publish() has moved nothing.
Untouched ==
    /\ backups = {} /\ published = {} /\ rollback_errors = FALSE
    /\ backup = [e \in Exts |-> "none"]
    /\ pc \in {"backup", "drop_err", "restored", "killed"}

\* publish() starts when everything is staged.
RepackInv ==
    /\ TransformInv
    /\ IInv
    /\ status # "staged" => Untouched

\* Nothing of the new bundle is at the destination before.
LEMMA NothingNew ==
    ASSUME IInv, Untouched
    PROVE  target = original /\ \A e \in Exts : target[e] # "new"
<1>1. \A e \in Exts : target[e] = original[e]
    BY DEF IInv, FileInv, Untouched
<1>2. original \in [Exts -> {"none", "old", "dir"}] /\ target \in [Exts -> {"none", "old", "dir", "new"}]
    BY DEF IInv, TypeOK
<1> QED BY <1>1, <1>2

\* Nothing is staged and nothing moved yet.
LEMMA InitRepackInv == RepackInit => RepackInv
<1> SUFFICES ASSUME RepackInit PROVE RepackInv
    OBVIOUS
<1>1. TransformInv /\ IInv
    BY InitTransformInv, InitIInv DEF RepackInit
<1>2. Untouched
    BY DEF RepackInit, Init, Untouched
<1> QED BY <1>1, <1>2 DEF RepackInv

\* What publish() has, it has as long as none of its steps is taken.
LEMMA PublishWaits ==
    ASSUME RepackInv, UNCHANGED vars
    PROVE  IInv' /\ (Untouched => Untouched')
<1>1. IInv'
    BY NextIInv DEF RepackInv
<1>2. Untouched => Untouched'
    BY DEF Untouched, vars
<1> QED BY <1>1, <1>2

\* A repack that fails leaves everything where it is.
LEMMA GiveUpKeeps ==
    ASSUME RepackInv, GiveUp
    PROVE  IInv' /\ Untouched'
<1>1. Untouched /\ IInv
    BY DEF RepackInv, GiveUp
<1>2. /\ UNCHANGED <<original, target, backup, staged, current, backups, published,
                     rollback_errors>>
      /\ pc' = "drop_err" /\ pc = "backup"
    BY DEF GiveUp
<1>3. Untouched'
    BY <1>1, <1>2 DEF Untouched
<1>4. TypeOK'
    BY <1>1, <1>2 DEF IInv, TypeOK
<1>5. LoopInv'
    <2>1. published # Exts => current \in Exts /\ target[current] # "new"
        BY <1>1 DEF IInv, LoopInv
    <2> QED BY <1>1, <1>2, <2>1 DEF LoopInv, Untouched
<1>6. \A e \in Exts : FileInv(e)'
    BY <1>1, <1>2 DEF IInv, FileInv, Untouched
<1> QED BY <1>3, <1>4, <1>5, <1>6 DEF IInv

\* Its staging directory holds no backup.
LEMMA DropKeeps ==
    ASSUME RepackInv, DropStep
    PROVE  IInv' /\ Untouched'
<1>1. Untouched /\ IInv
    BY DEF RepackInv, DropStep
<1>2. IInv'
    BY <1>1, DropIInv DEF DropStep
<1>3. CASE \E e \in Exts : DropFile(e)
    <2>1. PICK e \in Exts : DropFile(e)
        BY <1>3
    <2>2. backup' = backup
        BY <1>1, <2>1 DEF DropFile, Untouched
    <2> QED BY <1>1, <1>2, <2>1, <2>2 DEF DropFile, Dropping, Untouched
<1>4. CASE Returned
    <2>1. pc = "drop_err" /\ pc' = "restored"
        BY <1>1, <1>4 DEF Returned, Dropping, Untouched
    <2> QED BY <1>1, <1>2, <1>4, <2>1 DEF Returned, Untouched
<1> QED BY <1>3, <1>4 DEF DropStep

\* Every step of the repacker keeps the invariant.
LEMMA NextRepackInv == RepackInv /\ [RepackNext]_repackVars => RepackInv'
<1> SUFFICES ASSUME RepackInv, [RepackNext]_repackVars PROVE RepackInv'
    OBVIOUS
<1>1. CASE StageStep
    <2>1. TransformInv'
        BY <1>1, TransformKeeps DEF StageStep, RepackInv
    <2>2. status = "repacking"
        BY <1>1 DEF StageStep, Transform, RepackBlock, Turn, RepackFails, StageToc
    <2>3. IInv' /\ Untouched'
        BY <1>1, <2>2, PublishWaits DEF StageStep, RepackInv
    <2> QED BY <2>1, <2>3 DEF RepackInv
<1>2. CASE GiveUp
    <2>1. TransformInv'
        BY <1>2, TransformKeeps DEF GiveUp, RepackInv
    <2> QED BY <1>2, <2>1, GiveUpKeeps DEF RepackInv
<1>3. CASE PublishStep
    <2>1. TransformInv' /\ status' = "staged"
        BY <1>3, TransformKeeps DEF PublishStep, RepackInv, blockVars
    <2>2. IInv'
        BY <1>3, NextIInv DEF PublishStep, RepackInv
    <2> QED BY <2>1, <2>2 DEF RepackInv
<1>4. CASE KilledEarly
    <2>1. TransformInv' /\ status # "staged"
        BY <1>4, TransformKeeps DEF KilledEarly, RepackInv
    <2>2. IInv'
        BY <1>4, NextIInv DEF KilledEarly, RepackInv, Next
    <2>3. Untouched'
        BY <1>4, <2>1 DEF KilledEarly, Killed, RepackInv, Untouched
    <2> QED BY <2>1, <2>2, <2>3 DEF RepackInv
<1>5. CASE DropStep
    <2>1. TransformInv'
        BY <1>5, TransformKeeps DEF DropStep, RepackInv
    <2> QED BY <1>5, <2>1, DropKeeps DEF RepackInv
<1>6. CASE UNCHANGED repackVars
    <2>1. UNCHANGED blockVars /\ UNCHANGED vars
        BY <1>6 DEF repackVars
    <2>2. TransformInv' /\ status' = status
        BY <2>1, TransformKeeps DEF RepackInv, blockVars
    <2>3. IInv' /\ (Untouched => Untouched')
        BY <2>1, PublishWaits
    <2> QED BY <2>2, <2>3 DEF RepackInv
<1> QED BY <1>1, <1>2, <1>3, <1>4, <1>5, <1>6 DEF RepackNext, RepackDone

\* The repacker is always in a state of the inductive invariant.
THEOREM RepackInvariant == RepackSpec => []RepackInv
BY InitRepackInv, NextRepackInv, PTL DEF RepackSpec

\* What is published reads as what was repacked.
THEOREM PublishedIsPreserved == RepackSpec => []PublishedReadsBack
<1>1. RepackInv => PublishedReadsBack
    BY Preserved, NothingNew DEF RepackInv, PublishedReadsBack
<1> QED BY <1>1, RepackInvariant, PTL

\* The table is rewritten in place, an entry at a time, and reused blocks go
\* through verbatim.
THEOREM TableIsRewrittenInPlace == RepackSpec => []RewrittenInPlace
<1>1. RepackInv => RewrittenInPlace
    BY InPlace DEF RepackInv
<1> QED BY <1>1, RepackInvariant, PTL

\* Also in a repack that fails or is killed before it publishes, the user's files
\* are never lost, and "restored" is true.
THEOREM RepackLosesNothing == RepackSpec => [](OriginalsSurvive /\ RestoredMeansUntouched)
<1>1. RepackInv => OriginalsSurvive /\ RestoredMeansUntouched
    BY IInvMeans DEF RepackInv
<1> QED BY <1>1, RepackInvariant, PTL

\* Staging and giving up show nothing of the new bundle; publishing replaces it all.
LEMMA RepackStepSwaps ==
    ASSUME RepackInv, RepackInv', [RepackNext]_repackVars
    PROVE  [Swap!SwapAll]_([e \in Exts |-> Recoverable(e)])
<1>1. IInv /\ IInv'
    BY DEF RepackInv
<1>2. CASE [Next]_vars
    BY <1>1, <1>2, StepSwaps
<1>3. CASE GiveUp
    BY <1>3, SameFiles DEF GiveUp
<1>4. CASE StageStep \/ PublishStep \/ DropStep \/ KilledEarly \/ RepackDone \/ UNCHANGED repackVars
    <2>1. [Next]_vars
        BY <1>4 DEF StageStep, PublishStep, DropStep, KilledEarly, RepackDone, repackVars, Next
    <2> QED BY <1>2, <2>1
<1> QED BY <1>3, <1>4 DEF RepackNext

\* From end to end a repack replaces the whole bundle at once, or leaves it.
THEOREM RepackSwapsAtomically == RepackSpec => SwapsAtomically
<1>1. RepackInit => Swap!SwapInit
    BY InitSwap DEF RepackInit
<1> QED BY <1>1, RepackStepSwaps, RepackInvariant, PTL
    DEF RepackSpec, SwapsAtomically, Swap!SwapSpec
=============================================================================
