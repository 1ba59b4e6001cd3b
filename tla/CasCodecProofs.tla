--------------------------- MODULE CasCodecProofs ---------------------------
(***************************************************************************)
(* Lemmas about the block codec, for the writer and the repacker: about    *)
(* numbers and offsets; about blocks, padding and the two ideal ciphers;   *)
(* and that a block stored anywhere in a .ucas loads from there, and the   *)
(* blocks of a chunk, loaded one after the other, are its data.            *)
(***************************************************************************)
EXTENDS CasCodec, SequenceLemmas

-----------------------------------------------------------------------------
(* Numbers                                                                 *)

\* A multiple of a greater number is a whole piece further.
LEMMA Monotone ==
    ASSUME NEW x \in Int, NEW y \in Int, x < y, NEW a \in Nat
    PROVE  x * a \in Int /\ y * a \in Int /\ x * a + a <= y * a
<1>1. /\ x * a \in Int /\ y * a \in Int /\ (y - x - 1) * a \in Int
      /\ (y - x - 1) * a = y * a - x * a - a
    OBVIOUS
<1>2. \A p, q \in Nat : p * q \in Nat
    OBVIOUS
<1>3. (y - x - 1) \in Nat
    OBVIOUS
<1>4. (y - x - 1) * a >= 0
    BY <1>2, <1>3
<1> QED BY <1>1, <1>4

\* Quotient and remainder.
LEMMA DivMod ==
    ASSUME NEW n \in Nat, NEW a \in Nat \ {0}
    PROVE  /\ n \div a \in Nat /\ n % a \in Nat /\ n % a < a
           /\ n = (n \div a) * a + (n % a)
OBVIOUS

Splits(n, q, a, r) == n = q * a + r

\* A number splits in only one way.
LEMMA DivIs ==
    ASSUME NEW q \in Nat, NEW r \in Nat, NEW a \in Nat \ {0}, r < a, NEW n, Splits(n, q, a, r)
    PROVE  n \div a = q /\ n % a = r /\ n \in Nat
<1>0. n = q * a + r
    BY DEF Splits
<1>1. n \in Nat
    BY <1>0
<1> DEFINE p == n \div a
           s == n % a
<1>2. p \in Nat /\ s \in Nat /\ s < a /\ n = p * a + s
    BY <1>1, DivMod
<1> HIDE DEF p, s
<1>3. CASE p < q
    <2>1. p * a \in Int /\ q * a \in Int /\ p * a + a <= q * a
        BY <1>2, <1>3, Monotone
    <2> QED BY <1>0, <1>2, <2>1
<1>4. CASE q < p
    <2>1. p * a \in Int /\ q * a \in Int /\ q * a + a <= p * a
        BY <1>2, <1>4, Monotone
    <2> QED BY <1>0, <1>2, <2>1
<1>5. CASE p = q
    <2>1. q * a \in Nat
        OBVIOUS
    <2>2. s = r
        BY <1>0, <1>2, <1>5, <2>1
    <2> QED BY <1>1, <1>5, <2>2 DEF p, s
<1> QED BY <1>1, <1>2, <1>3, <1>4, <1>5

\* A number below the divisor is its own remainder.
LEMMA Small ==
    ASSUME NEW r \in Nat, NEW a \in Nat \ {0}, r < a
    PROVE  r \div a = 0 /\ r % a = r
OBVIOUS

\* How many pieces of length a it takes to hold n, the last one full or not.
LEMMA Pieces ==
    ASSUME NEW n \in Nat, NEW a \in Nat \ {0}
    PROVE  /\ Align(n, a) \in Nat /\ n <= Align(n, a) /\ Align(n, a) < n + a
           /\ Align(n, a) \div a \in Nat
           /\ Align(n, a) = (Align(n, a) \div a) * a
           /\ Align(n, a) % a = 0
           /\ Align(n, a) \div a = 0 <=> n = 0
<1> DEFINE q == (n + a - 1) \div a
           r == (n + a - 1) % a
<1>1. n + a - 1 \in Nat
    OBVIOUS
<1>2. q \in Nat /\ r \in Nat /\ r < a /\ n + a - 1 = q * a + r
    BY <1>1, DivMod
<1>3. Align(n, a) = q * a
    BY DEF Align
<1> HIDE DEF q, r
<1>4. q * a \in Nat
    BY <1>2
<1>5. q * a = q * a + 0 /\ 0 \in Nat /\ 0 < a
    BY <1>4
<1>6. Align(n, a) \div a = q /\ Align(n, a) % a = 0
    <2> DEFINE m == q * a
    <2>1. Splits(m, q, a, 0)
        BY <1>5 DEF Splits
    <2> HIDE DEF m
    <2>2. m \div a = q /\ m % a = 0
        BY <1>2, <1>5, <2>1, DivIs
    <2> QED BY <1>3, <2>2 DEF m
<1>7. n <= q * a /\ q * a < n + a
    BY <1>2, <1>4
<1>8. q = 0 <=> n = 0
    <2>1. q = 0 => q * a = 0
        BY <1>2
    <2>2. q # 0 => 0 * a + a <= q * a
        BY <1>2, Monotone
    <2>3. 0 * a = 0
        OBVIOUS
    <2> QED BY <1>2, <1>4, <1>7, <2>1, <2>2, <2>3
<1> QED BY <1>2, <1>3, <1>4, <1>6, <1>7, <1>8

-----------------------------------------------------------------------------
(* Offsets                                                                 *)

\* Offsets follow one another.
LEMMA OffsetsAre ==
    ASSUME NEW sizes \in Seq(Nat), NEW from \in Nat
    PROVE  IsOffsets(Offsets(from, sizes), from, sizes)
<1> DEFINE at == CHOOSE at : at = [k \in 1..(Len(sizes) + 1) |->
                                    IF k = 1 THEN from ELSE at[k - 1] + sizes[k - 1]]
<1>1. Offsets(from, sizes) = at
    BY DEF Offsets
<1>2. \E f : f = [k \in 1..(Len(sizes) + 1) |->
                    IF k = 1 THEN from ELSE f[k - 1] + sizes[k - 1]]
    <2>1. IsSeq(sizes)
        BY SeqIs
    <2>2. \E f : Recurs(f, from, sizes, Len(sizes) + 1)
        BY <2>1, OffsetsExist
    <2> QED BY <2>2 DEF Recurs
<1>3. at = [k \in 1..(Len(sizes) + 1) |-> IF k = 1 THEN from ELSE at[k - 1] + sizes[k - 1]]
    BY <1>2
<1> HIDE DEF at
<1>4. Recurs(at, from, sizes, Len(sizes) + 1)
    BY <1>3 DEF Recurs
<1> QED BY <1>1, <1>4, RecursIs

\* Nothing else does.
LEMMA OffsetsOnly ==
    ASSUME NEW sizes \in Seq(Nat), NEW from \in Nat, NEW f, IsOffsets(f, from, sizes)
    PROVE  f = Offsets(from, sizes)
<1> DEFINE n == Len(sizes) + 1
           at == Offsets(from, sizes)
           S == {k \in 1..n : f[k] = at[k]}
<1>0. Len(sizes) \in Nat /\ n \in Nat \ {0}
    BY LenProperties
<1>1. IsOffsets(at, from, sizes)
    BY OffsetsAre
<1> HIDE DEF at
<1>2. f \in [1..n -> Nat] /\ at \in [1..n -> Nat] /\ f[1] = at[1]
    BY <1>1 DEF IsOffsets
<1>3. 1 \in S
    BY <1>0, <1>2
<1>4. ASSUME NEW k \in 1..n, k + 1 <= n, k \in S PROVE k + 1 \in S
    <2>1. k \in 1..Len(sizes) /\ k + 1 \in 1..n
        BY <1>0, <1>4
    <2>2. f[k + 1] = f[k] + sizes[k] /\ at[k + 1] = at[k] + sizes[k]
        BY <1>1, <2>1 DEF IsOffsets
    <2> QED BY <1>4, <2>1, <2>2
<1>5. 1..n \subseteq S
    <2> HIDE DEF S, n
    <2> QED BY <1>0, <1>3, <1>4, Upwards
<1>6. \A k \in 1..n : f[k] = at[k]
    <2> HIDE DEF n
    <2> QED BY <1>5
<1> HIDE DEF n
<1>7. f = at
    <2>1. f = [k \in 1..n |-> f[k]] /\ at = [k \in 1..n |-> at[k]]
        BY <1>2
    <2>2. [k \in 1..n |-> f[k]] = [k \in 1..n |-> at[k]]
        BY <1>6
    <2> QED BY <2>1, <2>2
<1> QED BY <1>7 DEF at

\* One more size leaves the offsets as they were.
LEMMA OffsetsPush ==
    ASSUME NEW n \in Nat, NEW y \in [1..n -> Nat], NEW z \in [1..(n + 1) -> Nat],
           \A k \in 1..n : z[k] = y[k]
    PROVE  /\ \A k \in 1..(n + 1) : Offsets(0, z)[k] = Offsets(0, y)[k]
           /\ Offsets(0, z)[n + 2] = Offsets(0, y)[n + 1] + z[n + 1]
<1>1. y \in Seq(Nat) /\ Len(y) = n /\ z \in Seq(Nat) /\ Len(z) = n + 1
    <2>1. y \in Seq(Nat) /\ z \in Seq(Nat)
        OBVIOUS
    <2>2. DOMAIN y = 1..n /\ DOMAIN y = 1..Len(y) /\ Len(y) \in Nat
        BY <2>1, LenProperties
    <2>3. DOMAIN z = 1..(n + 1) /\ DOMAIN z = 1..Len(z) /\ Len(z) \in Nat
        BY <2>1, LenProperties
    <2> QED BY <2>1, <2>2, <2>3
<1>2. PICK at : at = Offsets(0, z)
    OBVIOUS
<1>3. IsOffsets(at, 0, z)
    BY <1>1, <1>2, OffsetsAre
<1>4. /\ at \in [1..(n + 2) -> Nat] /\ at[1] = 0
      /\ \A k \in 1..(n + 1) : at[k + 1] = at[k] + z[k]
    BY <1>1, <1>3 DEF IsOffsets
<1> DEFINE f == [k \in 1..(n + 1) |-> at[k]]
<1>5. IsOffsets(f, 0, y)
    <2>1. f \in [1..(n + 1) -> Nat] /\ f[1] = 0
        BY <1>4
    <2>2. ASSUME NEW k \in 1..n PROVE f[k + 1] = f[k] + y[k]
        <3>1. k \in 1..(n + 1) /\ k + 1 \in 1..(n + 1)
            OBVIOUS
        <3>2. f[k] = at[k] /\ f[k + 1] = at[k + 1]
            BY <3>1
        <3> HIDE DEF f
        <3> QED BY <1>4, <3>1, <3>2
    <2> HIDE DEF f
    <2> QED BY <1>1, <2>1, <2>2 DEF IsOffsets
<1>6. f = Offsets(0, y)
    <2> HIDE DEF f
    <2> QED BY <1>1, <1>5, OffsetsOnly
<1>7. \A k \in 1..(n + 1) : at[k] = f[k]
    OBVIOUS
<1> HIDE DEF f
<1>8. at[n + 2] = at[n + 1] + z[n + 1]
    BY <1>4
<1> QED BY <1>2, <1>6, <1>7, <1>8

-----------------------------------------------------------------------------
(* The codec                                                               *)

\* A chunk is cut into blocks that are not empty, and joined give it back.
LEMMA BlocksAre ==
    ASSUME NEW data, IsSeq(data)
    PROVE  /\ Parts(Blocks(data))
           /\ Len(Blocks(data)) = Align(Len(data), BlockSize) \div BlockSize
           /\ \A k \in 1..Len(Blocks(data)) : Len(Blocks(data)[k]) \in Nat \ {0}
           /\ FlattenSeq(Blocks(data)) = data
<1> DEFINE m == Len(data)
           c == BlockSize
           n == Align(m, c) \div c
           b == Blocks(data)
           lo(k) == (k - 1) * c
           hi(k) == IF k * c <= m THEN k * c ELSE m
<1>1. m \in Nat /\ c \in Nat \ {0}
    BY SeqHas, BlockSizesPositive
<1>2. /\ Align(m, c) \in Nat /\ m <= Align(m, c) /\ Align(m, c) < m + c
      /\ n \in Nat /\ Align(m, c) = n * c /\ (n = 0 <=> m = 0)
    BY <1>1, Pieces
<1>3. b = [k \in 1..n |-> SubSeq(data, lo(k) + 1, hi(k))]
    BY DEF Blocks
<1> HIDE DEF n, b, c, m
<1>4. b = [k \in 1..n |-> b[k]] /\ \A k \in 1..n : b[k] = SubSeq(data, lo(k) + 1, hi(k))
    BY <1>3
<1>5. IsSeq(b) /\ Len(b) = n /\ DOMAIN b = 1..n
    BY <1>2, <1>4, Made
<1>6. ASSUME NEW k \in 1..n
      PROVE  /\ k * c \in Nat /\ lo(k) \in Nat /\ lo(k) + c = k * c
             /\ lo(k) < m /\ hi(k) \in Nat /\ hi(k) <= m /\ lo(k) < hi(k)
             /\ k # n => hi(k) = k * c
             /\ k = n => hi(k) = m
    <2>1. k \in Nat /\ k - 1 \in Nat
        BY <1>2
    <2>2. k * c \in Nat /\ lo(k) \in Nat /\ lo(k) + c = k * c
        BY <1>1, <2>1
    <2>3. k # n => k * c + c <= n * c
        BY <1>1, <1>2, Monotone
    <2>4. n * c \in Nat /\ m <= n * c /\ n * c < m + c
        BY <1>2
    <2>5. lo(k) < m
        <3>1. CASE k = n
            BY <1>1, <2>2, <2>4, <3>1
        <3>2. CASE k # n
            BY <1>1, <2>2, <2>3, <2>4, <3>2
        <3> QED BY <3>1, <3>2
    <2> HIDE DEF lo
    <2>6. hi(k) \in Nat /\ hi(k) <= m /\ lo(k) < hi(k)
        BY <1>1, <2>2, <2>5
    <2>7. k # n => hi(k) = k * c
        BY <1>1, <2>2, <2>3, <2>4
    <2>8. k = n => hi(k) = m
        BY <1>1, <2>2, <2>4
    <2> HIDE DEF hi
    <2> QED BY <2>2, <2>5, <2>6, <2>7, <2>8
<1>7. ASSUME NEW k \in 1..n
      PROVE  /\ IsSeq(b[k]) /\ Len(b[k]) = hi(k) - lo(k)
             /\ Len(b[k]) \in Nat \ {0} /\ Holds(data, lo(k), b[k])
    <2> DEFINE i == lo(k) + 1
               j == hi(k)
    <2>1. i \in Nat \ {0} /\ j \in Nat /\ j <= m /\ i <= j + 1 /\ j - i + 1 = hi(k) - lo(k)
          /\ hi(k) - lo(k) \in Nat \ {0} /\ lo(k) \in Nat /\ hi(k) \in Nat
        <3> HIDE DEF lo, hi
        <3> QED BY <1>1, <1>6
    <2>2. b[k] = SubSeq(data, i, j)
        BY <1>4
    <2> HIDE DEF i, j
    <2>3. /\ IsSeq(b[k]) /\ Len(b[k]) = j - i + 1
          /\ \A h \in 1..(j - i + 1) : b[k][h] = data[i + h - 1]
        BY <2>1, <2>2, Part DEF m
    <2>4. Holds(data, lo(k), b[k])
        <3>1. lo(k) + Len(b[k]) <= Len(data)
            <4> HIDE DEF lo, hi
            <4> QED BY <1>1, <1>6, <2>1, <2>3 DEF m
        <3>2. ASSUME NEW h \in 1..Len(b[k]) PROVE data[lo(k) + h] = b[k][h]
            <4>1. lo(k) + h = i + h - 1
                <5>1. lo(k) + h = lo(k) + 1 + h - 1
                    <6> HIDE DEF lo, hi
                    <6> QED BY <2>1, <2>3
                <5> QED BY <5>1 DEF i
            <4> HIDE DEF lo, hi
            <4> QED BY <2>3, <3>2, <4>1
        <3> HIDE DEF lo
        <3> QED BY <3>1, <3>2 DEF Holds
    <2> HIDE DEF lo, hi
    <2> QED BY <2>1, <2>3, <2>4
<1>8. Parts(b)
    BY <1>5, <1>7 DEF Parts
<1> DEFINE at == [k \in 1..(n + 1) |-> IF k = n + 1 THEN m ELSE lo(k)]
<1>9. at[n + 1] = m /\ \A k \in 1..n : at[k] = lo(k)
    <2> HIDE DEF lo
    <2>1. n + 1 \in 1..(n + 1)
        BY <1>2
    <2>2. \A k \in 1..n : k \in 1..(n + 1) /\ k # n + 1
        BY <1>2
    <2> QED BY <2>1, <2>2
<1>10. IsOffsets(at, 0, Sizes(b))
    <2>1. Len(Sizes(b)) = n /\ \A k \in 1..n : Sizes(b)[k] = Len(b[k])
        BY <1>5, <1>8, SizesAre
    <2>2. at \in [1..(n + 1) -> Nat]
        <3>1. \A k \in 1..n : lo(k) \in Nat
            BY <1>6
        <3>2. ASSUME NEW k \in 1..(n + 1) PROVE (IF k = n + 1 THEN m ELSE lo(k)) \in Nat
            <4>1. k # n + 1 => k \in 1..n
                BY <1>2
            <4> HIDE DEF lo
            <4> QED BY <1>1, <3>1, <4>1
        <3> HIDE DEF lo
        <3> QED BY <3>2
    <2>3. at[1] = 0
        <3>1. CASE n = 0
            <4>1. at[1] = m /\ m = 0
                BY <1>2, <1>9, <3>1
            <4> QED BY <4>1
        <3>2. CASE n # 0
            <4>1. 1 \in 1..n
                BY <1>2, <3>2
            <4>2. at[1] = lo(1)
                <5> HIDE DEF at, lo
                <5> QED BY <1>9, <4>1
            <4>3. lo(1) = 0
                <5>1. 1 - 1 = 0 /\ 0 * c = 0
                    BY <1>1
                <5> QED BY <5>1
            <4> QED BY <4>2, <4>3
        <3> QED BY <3>1, <3>2
    <2>4. ASSUME NEW k \in 1..n PROVE at[k + 1] = at[k] + Len(b[k])
        <3>1. at[k] = lo(k)
            BY <1>9
        <3>2. at[k] + Len(b[k]) = hi(k)
            <4>1. Len(b[k]) = hi(k) - lo(k) /\ hi(k) \in Nat /\ lo(k) \in Nat
                BY <1>6, <1>7
            <4> HIDE DEF hi, lo, at
            <4> QED BY <3>1, <4>1
        <3>3. CASE k = n
            <4>1. hi(k) = m
                BY <1>6, <3>3
            <4> HIDE DEF hi, lo, at
            <4> QED BY <1>9, <3>2, <3>3, <4>1
        <3>4. CASE k # n
            <4>1. k + 1 \in 1..n /\ k + 1 - 1 = k
                BY <1>2, <3>4
            <4>2. at[k + 1] = lo(k + 1)
                <5> HIDE DEF at, lo
                <5> QED BY <1>9, <4>1
            <4>3. lo(k + 1) = k * c
                BY <4>1
            <4>4. hi(k) = k * c
                BY <1>6, <3>4
            <4> HIDE DEF hi, lo, at
            <4> QED BY <3>2, <4>2, <4>3, <4>4
        <3> QED BY <3>3, <3>4
    <2> HIDE DEF at
    <2> QED BY <2>1, <2>2, <2>3, <2>4 DEF IsOffsets
<1>11. FlattenSeq(b) = data
    <2>1. \A k \in 1..n : Holds(data, at[k], b[k])
        <3>1. \A k \in 1..n : Holds(data, lo(k), b[k])
            BY <1>7
        <3> HIDE DEF at, lo
        <3> QED BY <1>9, <3>1
    <2> HIDE DEF at
    <2> QED BY <1>5, <1>8, <1>9, <1>10, <2>1, FlatOnly DEF m
<1> QED BY <1>5, <1>7, <1>8, <1>11 DEF b, n, m, c

\* Padding appends.
LEMMA PadIs ==
    ASSUME NEW s, IsSeq(s)
    PROVE  /\ IsSeq(Pad(s, AesBlock)) /\ Len(Pad(s, AesBlock)) = Align(Len(s), AesBlock)
           /\ Len(s) <= Align(Len(s), AesBlock)
           /\ Align(Len(s), AesBlock) \in Nat /\ Align(Len(s), AesBlock) % AesBlock = 0
           /\ \A i \in 1..Len(s) : Pad(s, AesBlock)[i] = s[i]
<1> DEFINE m == Len(s)
           e == Align(m, AesBlock)
           t == [i \in 1..(e - m) |-> Zero]
<1>1. m \in Nat /\ AesBlock \in Nat \ {0}
    BY SeqHas, BlockSizesPositive
<1>2. e \in Nat /\ m <= e /\ e % AesBlock = 0
    BY <1>1, Pieces
<1>3. Pad(s, AesBlock) = s \o t
    BY DEF Pad
<1> HIDE DEF m, e
<1>4. e - m \in Nat /\ t = [i \in 1..(e - m) |-> t[i]]
    BY <1>1, <1>2
<1> HIDE DEF t
<1>5. IsSeq(t) /\ Len(t) = e - m
    BY <1>4, Made
<1>6. IsSeq(s \o t) /\ Len(s \o t) = m + (e - m) /\ \A i \in 1..m : (s \o t)[i] = s[i]
    BY <1>5, Joined DEF m
<1>7. m + (e - m) = e
    BY <1>1, <1>2
<1> QED BY <1>2, <1>3, <1>6, <1>7 DEF m, e

\* How many bytes come before the group of the i-th, and before it in there.
Behind(i) == ((i - 1) \div AesBlock) * AesBlock
Within(i) == (i - 1) % AesBlock

\* The bytes of a group, and where they are.
LEMMA GroupIs ==
    ASSUME NEW s, IsSeq(s), Len(s) % AesBlock = 0, NEW i \in 1..Len(s)
    PROVE  /\ Behind(i) \in Nat /\ Behind(i) + AesBlock <= Len(s)
           /\ Within(i) \in 0..(AesBlock - 1) /\ i = Behind(i) + Within(i) + 1
           /\ IsSeq(Group(s, i)) /\ Len(Group(s, i)) = AesBlock
           /\ \A j \in 1..AesBlock : Group(s, i)[j] = s[Behind(i) + j]
<1> DEFINE A == AesBlock
           q == (i - 1) \div A
           r == (i - 1) % A
           m == Len(s)
           p == m \div A
<1>1. A \in Nat \ {0} /\ m \in Nat /\ i - 1 \in Nat /\ i - 1 < m
    BY SeqHas, BlockSizesPositive
<1>2. q \in Nat /\ r \in Nat /\ r < A /\ i - 1 = q * A + r
    BY <1>1, DivMod
<1>3. p \in Nat /\ m = p * A
    <2>1. p \in Nat /\ m = p * A + (m % A) /\ m % A = 0
        BY <1>1, DivMod
    <2> HIDE DEF p, m
    <2>2. p * A \in Nat
        BY <1>1, <2>1
    <2> QED BY <2>1, <2>2
<1>4. Group(s, i) = SubSeq(s, q * A + 1, (q + 1) * A)
    BY DEF Group
<1> HIDE DEF q, r, p, m, A
<1>5. q * A \in Nat /\ p * A \in Nat /\ (q + 1) * A = q * A + A
    BY <1>1, <1>2, <1>3
<1>6. q < p
    <2>1. CASE p < q
        <3>1. p * A + A <= q * A
            BY <1>1, <1>2, <1>3, <2>1, Monotone
        <3> QED BY <1>1, <1>2, <1>3, <1>5, <3>1
    <2>2. CASE p = q
        BY <1>1, <1>2, <1>3, <1>5, <2>2
    <2> QED BY <1>2, <1>3, <2>1, <2>2
<1>7. q * A + A <= m
    <2>1. q * A + A <= p * A
        BY <1>1, <1>2, <1>3, <1>6, Monotone
    <2> QED BY <1>3, <2>1
<1> DEFINE a == q * A
<1>8. a \in Nat /\ a + A <= m /\ Group(s, i) = SubSeq(s, a + 1, a + A) /\ i = a + r + 1 /\ r \in 0..(A - 1)
    BY <1>1, <1>2, <1>4, <1>5, <1>7
<1> HIDE DEF a
<1>9. /\ a + 1 \in Nat \ {0} /\ a + A \in Nat /\ a + 1 <= a + A + 1 /\ a + A - (a + 1) + 1 = A
      /\ \A j \in 1..A : a + 1 + j - 1 = a + j
    BY <1>1, <1>8
<1>10. /\ IsSeq(Group(s, i)) /\ Len(Group(s, i)) = A
       /\ \A j \in 1..A : Group(s, i)[j] = s[a + j]
    <2> DEFINE u == a + 1
               v == a + A
    <2>1. u \in Nat \ {0} /\ v \in Nat /\ v <= Len(s) /\ u <= v + 1 /\ v - u + 1 = A
        <3>1. v <= Len(s)
            BY <1>8 DEF m
        <3>2. u \in Nat \ {0} /\ v \in Nat
            BY <1>9
        <3>3. u <= v + 1 /\ v - u + 1 = A
            BY <1>1, <1>8
        <3> QED BY <3>1, <3>2, <3>3
    <2>2. Group(s, i) = SubSeq(s, u, v)
        BY <1>8
    <2>3. \A j \in 1..A : u + j - 1 = a + j
        BY <1>9
    <2> HIDE DEF u, v
    <2>4. /\ IsSeq(SubSeq(s, u, v)) /\ Len(SubSeq(s, u, v)) = v - u + 1
          /\ \A j \in 1..(v - u + 1) : SubSeq(s, u, v)[j] = s[u + j - 1]
        BY <2>1, Part
    <2> QED BY <2>1, <2>2, <2>3, <2>4
<1> QED BY <1>8, <1>10 DEF Behind, Within, a, q, r, A, m

\* Enciphering keeps the length, and each group is the image of a group.
LEMMA EncryptIs ==
    ASSUME NEW s, IsSeq(s), NEW key
    PROVE  /\ IsSeq(Encrypt(key, s)) /\ Len(Encrypt(key, s)) = Len(s)
           /\ \A i \in 1..Len(s) :
                Encrypt(key, s)[i] = [aes |-> Group(s, i), key |-> key, at |-> Within(i)]
<1> DEFINE e == Encrypt(key, s)
           n == Len(s)
<1>1. n \in Nat /\ DOMAIN s = 1..n
    BY SeqHas
<1>2. e = [i \in 1..n |-> [aes |-> Group(s, i), key |-> key, at |-> (i - 1) % AesBlock]]
    BY <1>1 DEF Encrypt
<1>3. \A i \in 1..n : e[i] = [aes |-> Group(s, i), key |-> key, at |-> Within(i)]
    BY <1>2 DEF Within
<1>4. e = [i \in 1..n |-> e[i]]
    BY <1>2
<1> HIDE DEF e, n
<1>5. IsSeq(e) /\ Len(e) = n
    BY <1>1, <1>4, Made
<1> QED BY <1>3, <1>5 DEF e, n

\* Within one group the groups are the same.
LEMMA SameGroup ==
    ASSUME NEW s, IsSeq(s), Len(s) % AesBlock = 0, NEW i \in 1..Len(s), NEW j \in 1..AesBlock
    PROVE  /\ Behind(i) + j \in 1..Len(s)
           /\ Group(s, Behind(i) + j) = Group(s, i)
           /\ Within(Behind(i) + j) = j - 1
<1> DEFINE A == AesBlock
           q == (i - 1) \div A
           l == q * A + j
<1>1. A \in Nat \ {0} /\ Len(s) \in Nat
    BY SeqHas, BlockSizesPositive
<1>2. i - 1 \in Nat
    OBVIOUS
<1>3. q \in Nat
    BY <1>1, <1>2, DivMod
<1>4. q * A \in Nat /\ q * A + A <= Len(s)
    BY GroupIs DEF Behind
<1> HIDE DEF q
<1>5. l \in 1..Len(s) /\ j - 1 \in Nat /\ j - 1 < A
    BY <1>1, <1>4 DEF A
<1>6. l - 1 = q * A + (j - 1)
    BY <1>1, <1>4 DEF A
<1> HIDE DEF l
<1>7. (l - 1) \div A = q /\ (l - 1) % A = j - 1
    <2> DEFINE k == l - 1
               r == j - 1
    <2>1. r \in Nat /\ r < A /\ Splits(k, q, A, r)
        BY <1>5, <1>6 DEF Splits
    <2> HIDE DEF k, r
    <2>2. k \div A = q /\ k % A = r
        BY <1>1, <1>3, <2>1, DivIs
    <2> QED BY <2>2 DEF k, r
<1>8. Group(s, l) = Group(s, i)
    BY <1>7 DEF Group, A, q
<1>9. Behind(i) = q * A
    BY DEF Behind, q, A
<1>10. Within(l) = j - 1
    BY <1>7 DEF Within, A
<1> QED BY <1>5, <1>8, <1>9, <1>10 DEF l

\* Deciphering gives back what was enciphered, in whole groups.
LEMMA Deciphers ==
    ASSUME NEW s, IsSeq(s), Len(s) % AesBlock = 0, NEW key
    PROVE  Decrypt(key, Encrypt(key, s)) = s
<1> DEFINE e == Encrypt(key, s)
           n == Len(s)
           d == Decrypt(key, e)
           A == AesBlock
           val(i) == LET g == Group(e, i)
                         plain == g[1].aes
                     IN  IF "aes" \in DOMAIN g[1] /\ g = Encrypt(key, plain)
                         THEN plain[Within(i) + 1]
                         ELSE [garbled |-> g, at |-> Within(i)]
<1>1. IsSeq(e) /\ Len(e) = n /\ n \in Nat /\ n % A = 0 /\ A \in Nat \ {0} /\ DOMAIN e = 1..n
    BY EncryptIs, SeqHas, BlockSizesPositive
<1>2. \A i \in 1..n : e[i] = [aes |-> Group(s, i), key |-> key, at |-> Within(i)]
    BY EncryptIs
<1> HIDE DEF e
<1>3. d = [i \in 1..n |-> val(i)]
    BY <1>1 DEF Decrypt, Within
<1>4. ASSUME NEW i \in 1..n PROVE val(i) = s[i]
    <2> DEFINE g == Group(e, i)
               p == Group(s, i)
               a == Behind(i)
    <2>1. /\ IsSeq(g) /\ Len(g) = A /\ \A j \in 1..A : g[j] = e[a + j]
          /\ Within(i) \in 0..(A - 1) /\ i = a + Within(i) + 1 /\ a \in Nat
        <3>1. Len(e) % AesBlock = 0 /\ i \in 1..Len(e) /\ IsSeq(e)
            BY <1>1
        <3> QED BY <3>1, GroupIs
    <2>2. IsSeq(p) /\ Len(p) = A /\ \A j \in 1..A : p[j] = s[a + j]
        BY <1>1, GroupIs
    <2>3. \A j \in 1..A : /\ a + j \in 1..n /\ Group(s, a + j) = p /\ Within(a + j) = j - 1
        <3> TAKE j \in 1..A
        <3>1. /\ Behind(i) + j \in 1..n
              /\ Group(s, Behind(i) + j) = Group(s, i)
              /\ Within(Behind(i) + j) = j - 1
            BY <1>1, SameGroup
        <3> QED BY <3>1
    <2> HIDE DEF g, p, a
    <2>4. \A j \in 1..A : g[j] = [aes |-> p, key |-> key, at |-> j - 1]
        <3> TAKE j \in 1..A
        <3>1. g[j] = e[a + j] /\ a + j \in 1..n /\ Group(s, a + j) = p /\ Within(a + j) = j - 1
            BY <2>1, <2>3
        <3> DEFINE l == a + j
        <3>2. g[j] = e[l] /\ l \in 1..n /\ Group(s, l) = p /\ Within(l) = j - 1
            BY <3>1
        <3> HIDE DEF l
        <3>3. e[l] = [aes |-> Group(s, l), key |-> key, at |-> Within(l)]
            BY <1>2, <3>2
        <3> QED BY <3>2, <3>3
    <2>5. "aes" \in DOMAIN g[1] /\ g[1].aes = p
        <3>1. 1 \in 1..A
            BY <1>1
        <3>2. g[1] = [aes |-> p, key |-> key, at |-> 1 - 1]
            BY <2>4, <3>1
        <3> QED BY <3>2
    <2>6. Len(p) % A = 0
        <3>1. A = 1 * A + 0
            BY <1>1
        <3>2. 1 \in Nat /\ 0 \in Nat /\ 0 < A
            BY <1>1
        <3>3. A % A = 0
            BY <1>1, <3>1, <3>2, DivIs
        <3> QED BY <2>2, <3>3
    <2>7. \A j \in 1..A : Group(p, j) = p /\ Within(j) = j - 1
        <3> TAKE j \in 1..A
        <3>1. j - 1 \in Nat /\ j - 1 < A
            BY <1>1
        <3>2. (j - 1) \div A = 0 /\ (j - 1) % A = j - 1
            BY <1>1, <3>1, Small
        <3>3. Behind(j) = 0 /\ Within(j) = j - 1
            BY <1>1, <3>2 DEF Behind, Within
        <3>4. j \in 1..Len(p)
            BY <2>2
        <3>5. /\ IsSeq(Group(p, j)) /\ Len(Group(p, j)) = A
              /\ \A k \in 1..A : Group(p, j)[k] = p[Behind(j) + k]
            <4>1. Len(p) % AesBlock = 0 /\ IsSeq(p) /\ j \in 1..Len(p)
                BY <2>2, <2>6, <3>4
            <4> QED BY <4>1, GroupIs
        <3>6. \A k \in 1..A : Group(p, j)[k] = p[k]
            <4> TAKE k \in 1..A
            <4> DEFINE z == Behind(j)
            <4>1. z = 0 /\ Group(p, j)[k] = p[z + k]
                BY <3>3, <3>5
            <4> HIDE DEF z
            <4>2. z + k = k
                BY <4>1
            <4> QED BY <4>1, <4>2
        <3>7. Group(p, j) = p
            BY <2>2, <3>5, <3>6, SameSeq
        <3> QED BY <3>3, <3>7
    <2>8. g = Encrypt(key, p)
        <3> DEFINE h == Encrypt(key, p)
        <3>1. IsSeq(h) /\ Len(h) = A
              /\ \A j \in 1..A : h[j] = [aes |-> Group(p, j), key |-> key, at |-> Within(j)]
            BY <2>2, EncryptIs
        <3> HIDE DEF h
        <3>2. \A j \in 1..A : h[j] = g[j]
            BY <2>4, <2>7, <3>1
        <3>3. h = g
            BY <2>1, <3>1, <3>2, SameSeq
        <3> QED BY <3>3 DEF h
    <2>9. p[Within(i) + 1] = s[i]
        <3> DEFINE r == Within(i)
        <3>1. r + 1 \in 1..A /\ a + (r + 1) = i
            BY <1>1, <2>1
        <3> HIDE DEF r
        <3>2. p[r + 1] = s[a + (r + 1)]
            BY <2>2, <3>1
        <3> QED BY <3>1, <3>2 DEF r
    <2>10. val(i) = p[Within(i) + 1]
        BY <2>5, <2>8 DEF g
    <2> QED BY <2>9, <2>10
<1>5. IsSeq(d) /\ Len(d) = n
    <2>1. d = [i \in 1..n |-> d[i]]
        BY <1>3
    <2> HIDE DEF d, val, n
    <2> QED BY <1>1, <2>1, Made
<1>6. \A i \in 1..n : d[i] = s[i]
    <2>1. \A i \in 1..n : d[i] = val(i)
        <3> HIDE DEF val
        <3> QED BY <1>3
    <2> HIDE DEF d, val
    <2> QED BY <1>4, <2>1
<1> HIDE DEF d
<1>7. d = s
    BY <1>5, <1>6, SameSeq
<1> QED BY <1>7 DEF d, e

\* Compressed bytes are those of the block and nothing else.
LEMMA CompressIs ==
    ASSUME NEW block, PackedLen(block) \in Nat \ {0}, NEW method
    PROVE  LET c == Compress(method, block) IN
           /\ IsSeq(c) /\ Len(c) = PackedLen(block) /\ c # <<>>
           /\ "packed" \in DOMAIN c[1] /\ c[1].packed = block
<1> DEFINE c == Compress(method, block)
           n == PackedLen(block)
<1>1. n \in Nat \ {0}
    OBVIOUS
<1>2. c = [i \in 1..n |-> [packed |-> block, method |-> method, at |-> i]]
    BY DEF Compress
<1> HIDE DEF n
<1>3. c = [i \in 1..n |-> c[i]] /\ c[1] = [packed |-> block, method |-> method, at |-> 1]
    BY <1>1, <1>2
<1> HIDE DEF c
<1>4. IsSeq(c) /\ Len(c) = n
    BY <1>1, <1>3, Made
<1>5. "packed" \in DOMAIN c[1] /\ c[1].packed = block
    BY <1>3
<1>6. c # <<>>
    BY <1>1, <1>4, EmptyIs
<1> QED BY <1>4, <1>5, <1>6 DEF c, n

Kept(block, method) == method # NoMethod /\ PackedLen(block) < Len(block)

\* A block before encryption.
Plain(block, method) == IF Kept(block, method) THEN Compress(method, block) ELSE block

Storable(block, method) ==
    /\ IsSeq(block) /\ Len(block) \in Nat \ {0}
    /\ method # NoMethod => PackedLen(block) \in Nat \ {0}

\* A block before encryption is not empty, and knows the block it packs.
LEMMA PlainIs ==
    ASSUME NEW block, NEW method, Storable(block, method)
    PROVE  /\ IsSeq(Plain(block, method)) /\ Len(Plain(block, method)) \in Nat \ {0}
           /\ ~Kept(block, method) => Plain(block, method) = block
           /\ Kept(block, method) =>
                /\ Plain(block, method) = Compress(method, block)
                /\ "packed" \in DOMAIN Plain(block, method)[1]
                /\ Plain(block, method)[1].packed = block
<1>1. CASE Kept(block, method)
    <2>1. PackedLen(block) \in Nat \ {0}
        BY <1>1 DEF Kept, Storable
    <2> QED BY <1>1, <2>1, CompressIs DEF Plain
<1>2. CASE ~Kept(block, method)
    BY <1>2 DEF Plain, Storable
<1> QED BY <1>1, <1>2

\* What StoredBlock makes of a block; its bytes fill a stride.
LEMMA StoredIs ==
    ASSUME NEW block, NEW method, Storable(block, method), NEW key
    PROVE  LET stored == StoredBlock(block, method, key)
               plain == Plain(block, method) IN
           /\ stored.bytes = IF key = NoKey THEN plain ELSE Encrypt(key, Pad(plain, AesBlock))
           /\ stored.csize = Len(plain)
           /\ stored.usize = Len(block)
           /\ stored.method = IF Kept(block, method) THEN 1 ELSE 0
           /\ IsSeq(stored.bytes) /\ Len(stored.bytes) = Stride(stored.csize, key)
           /\ Len(stored.bytes) \in Nat \ {0}
<1> DEFINE stored == StoredBlock(block, method, key)
           p == Plain(block, method)
           packed == Compress(method, block)
           keep == method # NoMethod /\ Len(packed) < Len(block)
<1>1. IsSeq(p) /\ Len(p) \in Nat \ {0}
    BY PlainIs
<1>2. keep <=> Kept(block, method)
    <2>1. CASE method = NoMethod
        BY <2>1 DEF Kept
    <2>2. CASE method # NoMethod
        <3> DEFINE n == PackedLen(block)
        <3>1. n \in Nat
            BY <2>2 DEF Storable
        <3>2. packed = [i \in 1..n |-> [packed |-> block, method |-> method, at |-> i]]
            BY DEF Compress
        <3> HIDE DEF n
        <3>3. packed = [i \in 1..n |-> packed[i]]
            BY <3>2
        <3> HIDE DEF packed
        <3>4. Len(packed) = n
            BY <3>1, <3>3, Made
        <3> QED BY <2>2, <3>4 DEF Kept, n
    <2> QED BY <2>1, <2>2
<1>3. p = IF keep THEN packed ELSE block
    <2> HIDE DEF packed, keep
    <2> QED BY <1>2 DEF Plain, packed
<1>4. stored = [bytes  |-> IF key = NoKey THEN p ELSE Encrypt(key, Pad(p, AesBlock)),
                csize  |-> Len(p),
                usize  |-> Len(block),
                method |-> IF keep THEN 1 ELSE 0]
    <2> DEFINE q == IF keep THEN packed ELSE block
    <2>1. stored = [bytes  |-> IF key = NoKey THEN q ELSE Encrypt(key, Pad(q, AesBlock)),
                    csize  |-> Len(q),
                    usize  |-> Len(block),
                    method |-> IF keep THEN 1 ELSE 0]
        BY DEF StoredBlock
    <2>2. p = q
        BY <1>3
    <2> HIDE DEF stored, p, q, keep
    <2> QED BY <2>1, <2>2
<1> HIDE DEF stored, p, packed, keep
<1>5. /\ stored.bytes = IF key = NoKey THEN p ELSE Encrypt(key, Pad(p, AesBlock))
      /\ stored.csize = Len(p) /\ stored.usize = Len(block)
      /\ stored.method = IF Kept(block, method) THEN 1 ELSE 0
    BY <1>2, <1>4
<1>6. CASE key = NoKey
    BY <1>1, <1>5, <1>6 DEF Stride, stored, p
<1>7. CASE key # NoKey
    <2> DEFINE d == Pad(p, AesBlock)
    <2>1. /\ IsSeq(d) /\ Len(d) = Align(Len(p), AesBlock) /\ Align(Len(p), AesBlock) \in Nat
          /\ Len(p) <= Align(Len(p), AesBlock)
        BY <1>1, PadIs
    <2> HIDE DEF d
    <2>2. IsSeq(Encrypt(key, d)) /\ Len(Encrypt(key, d)) = Len(d)
        BY <2>1, EncryptIs
    <2>3. stored.bytes = Encrypt(key, d)
        BY <1>5, <1>7 DEF d
    <2>4. Len(stored.bytes) = Align(Len(p), AesBlock) /\ IsSeq(stored.bytes)
        BY <2>1, <2>2, <2>3
    <2>5. Len(stored.bytes) \in Nat \ {0}
        BY <1>1, <2>1, <2>4
    <2>6. Stride(stored.csize, key) = Align(Len(p), AesBlock)
        BY <1>5, <1>7 DEF Stride
    <2> QED BY <1>5, <2>4, <2>5, <2>6 DEF stored, p
<1> QED BY <1>6, <1>7

\* A piece that is there is what reading it gives.
LEMMA ReadsPiece ==
    ASSUME NEW s, IsSeq(s), NEW o \in Nat, NEW t, IsSeq(t), Holds(s, o, t)
    PROVE  o + Len(t) <= Len(s) /\ SubSeq(s, o + 1, o + Len(t)) = t
<1> DEFINE u == o + 1
           v == o + Len(t)
<1>1. Len(t) \in Nat /\ Len(s) \in Nat
    BY SeqHas
<1>2. v <= Len(s) /\ \A i \in 1..Len(t) : s[o + i] = t[i]
    BY DEF Holds
<1>3. u \in Nat \ {0} /\ v \in Nat /\ u <= v + 1 /\ v - u + 1 = Len(t)
    BY <1>1
<1>4. \A i \in 1..Len(t) : u + i - 1 = o + i
    BY <1>1
<1> HIDE DEF u, v
<1>5. /\ IsSeq(SubSeq(s, u, v)) /\ Len(SubSeq(s, u, v)) = v - u + 1
      /\ \A i \in 1..(v - u + 1) : SubSeq(s, u, v)[i] = s[u + i - 1]
    BY <1>2, <1>3, Part
<1>6. \A i \in 1..Len(t) : SubSeq(s, u, v)[i] = t[i]
    BY <1>2, <1>3, <1>4, <1>5
<1>7. SubSeq(s, u, v) = t
    BY <1>3, <1>5, <1>6, SameSeq
<1> QED BY <1>2, <1>7 DEF u, v

\* What is enciphered and what is not, as it is in a .ucas.
Sealed(bytes, key) == IF key = NoKey THEN bytes ELSE Encrypt(key, Pad(bytes, AesBlock))

\* The bytes of a block fill a stride.
LEMMA SealedIs ==
    ASSUME NEW bytes, IsSeq(bytes), Len(bytes) \in Nat \ {0}, NEW key
    PROVE  /\ IsSeq(Sealed(bytes, key)) /\ Len(Sealed(bytes, key)) = Stride(Len(bytes), key)
           /\ Stride(Len(bytes), key) \in Nat \ {0} /\ Len(bytes) <= Stride(Len(bytes), key)
<1>1. CASE key = NoKey
    BY <1>1 DEF Sealed, Stride
<1>2. CASE key # NoKey
    <2> DEFINE d == Pad(bytes, AesBlock)
    <2>1. /\ IsSeq(d) /\ Len(d) = Align(Len(bytes), AesBlock)
          /\ Align(Len(bytes), AesBlock) \in Nat /\ Len(bytes) <= Align(Len(bytes), AesBlock)
        BY PadIs
    <2>2. Sealed(bytes, key) = Encrypt(key, d) /\ Stride(Len(bytes), key) = Align(Len(bytes), AesBlock)
        BY <1>2 DEF Sealed, Stride
    <2> HIDE DEF d
    <2>3. IsSeq(Encrypt(key, d)) /\ Len(Encrypt(key, d)) = Len(d)
        BY <2>1, EncryptIs
    <2> QED BY <2>1, <2>2, <2>3
<1> QED BY <1>1, <1>2

\* Deciphering keeps the length.
LEMMA DecryptIs ==
    ASSUME NEW s, IsSeq(s), NEW key
    PROVE  IsSeq(Decrypt(key, s)) /\ Len(Decrypt(key, s)) = Len(s)
<1> DEFINE d == Decrypt(key, s)
           n == Len(s)
<1>1. n \in Nat /\ DOMAIN s = 1..n
    BY SeqHas
<1>2. d = [i \in DOMAIN s |-> d[i]]
    BY DEF Decrypt
<1>3. d = [i \in 1..n |-> d[i]]
    <2> HIDE DEF d, n
    <2> QED BY <1>1, <1>2
<1> HIDE DEF d, n
<1>4. IsSeq(d) /\ Len(d) = n
    BY <1>1, <1>3, Made
<1> QED BY <1>4 DEF d, n

\* The bytes of a block, deciphered and cut to its size.
Fetched(s, offset, csize, key) ==
    LET read == ReadExact(s, offset, Stride(csize, key), key)
    IN  IF read.ok THEN Readable(SubSeq(read.data, 1, csize)) ELSE Unreadable

\* A stride holds the block.
LEMMA StrideIs ==
    ASSUME NEW c \in Nat \ {0}, NEW key
    PROVE  Stride(c, key) \in Nat \ {0} /\ c <= Stride(c, key)
<1>1. CASE key = NoKey
    BY <1>1 DEF Stride
<1>2. CASE key # NoKey
    <2>1. Align(c, AesBlock) \in Nat /\ c <= Align(c, AesBlock)
        BY Pieces, BlockSizesPositive
    <2> QED BY <1>2, <2>1 DEF Stride
<1> QED BY <1>1, <1>2

\* The raw bytes a read takes; Fetched depends on these alone.
LEMMA FetchedFrom ==
    ASSUME NEW s, IsSeq(s), NEW o \in Nat, NEW c \in Nat \ {0}, NEW key
    PROVE  LET n == Stride(c, key)
               raw == SubSeq(s, o + 1, o + n)
               read == IF key = NoKey THEN raw ELSE Decrypt(key, raw) IN
           Fetched(s, o, c, key) = IF o + n <= Len(s) THEN Readable(SubSeq(read, 1, c))
                                   ELSE Unreadable
<1> DEFINE n == Stride(c, key)
           raw == SubSeq(s, o + 1, o + n)
           read == IF key = NoKey THEN raw ELSE Decrypt(key, raw)
           r == ReadExact(s, o, n, key)
<1>1. n \in Nat /\ Len(s) \in Nat
    BY StrideIs, SeqHas
<1>2. Fetched(s, o, c, key) = IF r.ok THEN Readable(SubSeq(r.data, 1, c)) ELSE Unreadable
    BY DEF Fetched
<1>3. r = IF o + n > Len(s) THEN Unreadable ELSE Readable(read)
    BY DEF ReadExact
<1> HIDE DEF n, r, read
<1>4. CASE o + n <= Len(s)
    <2>1. r = Readable(read)
        BY <1>1, <1>3, <1>4
    <2>2. r.ok /\ r.data = read
        BY <2>1 DEF Readable
    <2> QED BY <1>2, <1>4, <2>2 DEF n, read
<1>5. CASE ~(o + n <= Len(s))
    <2>1. ~r.ok
        BY <1>1, <1>3, <1>5 DEF Unreadable
    <2> QED BY <1>2, <1>5, <2>1 DEF n
<1> QED BY <1>4, <1>5

\* What was fetched has the size asked for and lies within the file.
LEMMA FetchedIs ==
    ASSUME NEW s, IsSeq(s), NEW o \in Nat, NEW c \in Nat \ {0}, NEW key, Fetched(s, o, c, key).ok
    PROVE  /\ Fetched(s, o, c, key) = Readable(Fetched(s, o, c, key).data)
           /\ IsSeq(Fetched(s, o, c, key).data) /\ Len(Fetched(s, o, c, key).data) = c
           /\ o + Stride(c, key) <= Len(s)
<1> DEFINE n == Stride(c, key)
           raw == SubSeq(s, o + 1, o + n)
           read == IF key = NoKey THEN raw ELSE Decrypt(key, raw)
           f == Fetched(s, o, c, key)
<1>1. n \in Nat \ {0} /\ c <= n /\ Len(s) \in Nat
    BY StrideIs, SeqHas
<1>2. f = IF o + n <= Len(s) THEN Readable(SubSeq(read, 1, c)) ELSE Unreadable
    BY FetchedFrom
<1>3. f.ok
    OBVIOUS
<1> HIDE DEF n, f, read
<1>4. o + n <= Len(s)
    BY <1>2, <1>3 DEF Unreadable
<1>5. f = Readable(SubSeq(read, 1, c)) /\ f.data = SubSeq(read, 1, c)
    BY <1>2, <1>4 DEF Readable
<1>6. IsSeq(raw) /\ Len(raw) = n
    <2> DEFINE u == o + 1
               v == o + n
    <2>1. u \in Nat \ {0} /\ v \in Nat /\ v <= Len(s) /\ u <= v + 1 /\ v - u + 1 = n
        BY <1>1, <1>4
    <2> HIDE DEF u, v
    <2>2. IsSeq(SubSeq(s, u, v)) /\ Len(SubSeq(s, u, v)) = v - u + 1
        BY <2>1, Part
    <2> QED BY <2>1, <2>2 DEF u, v
<1> HIDE DEF raw
<1>7. IsSeq(read) /\ Len(read) = n
    BY <1>6, DecryptIs DEF read
<1>8. IsSeq(SubSeq(read, 1, c)) /\ Len(SubSeq(read, 1, c)) = c
    <2>1. 1 \in Nat \ {0} /\ 1 <= c + 1 /\ c - 1 + 1 = c
        BY <1>1
    <2> QED BY <1>1, <1>7, <2>1, Part
<1> QED BY <1>4, <1>5, <1>8 DEF f, n

\* A file that grows goes on giving what was in it.
LEMMA FetchedStays ==
    ASSUME NEW s, IsSeq(s), NEW t, IsSeq(t), Len(s) <= Len(t), \A i \in 1..Len(s) : t[i] = s[i],
           NEW o \in Nat, NEW c \in Nat \ {0}, NEW key, o + Stride(c, key) <= Len(s)
    PROVE  Fetched(t, o, c, key) = Fetched(s, o, c, key)
<1> DEFINE n == Stride(c, key)
<1>1. n \in Nat /\ Len(s) \in Nat /\ Len(t) \in Nat
    BY StrideIs, SeqHas
<1>2. SubSeq(t, o + 1, o + n) = SubSeq(s, o + 1, o + n)
    <2> DEFINE u == o + 1
               v == o + n
    <2>1. u \in Nat \ {0} /\ v \in Nat /\ v <= Len(s) /\ v <= Len(t) /\ u <= v + 1
        BY <1>1
    <2>2. \A i \in 1..(v - u + 1) : u + i - 1 \in 1..Len(s)
        BY <1>1
    <2> HIDE DEF n, u, v
    <2>3. /\ IsSeq(SubSeq(s, u, v)) /\ Len(SubSeq(s, u, v)) = v - u + 1
          /\ \A i \in 1..(v - u + 1) : SubSeq(s, u, v)[i] = s[u + i - 1]
        BY <2>1, Part
    <2>4. /\ IsSeq(SubSeq(t, u, v)) /\ Len(SubSeq(t, u, v)) = v - u + 1
          /\ \A i \in 1..(v - u + 1) : SubSeq(t, u, v)[i] = t[u + i - 1]
        BY <2>1, Part
    <2>5. SubSeq(t, u, v) = SubSeq(s, u, v)
        BY <2>2, <2>3, <2>4, SameSeq
    <2> QED BY <2>5 DEF u, v
<1> DEFINE raw == SubSeq(s, o + 1, o + n)
           read == IF key = NoKey THEN raw ELSE Decrypt(key, raw)
<1>3. Fetched(s, o, c, key) = IF o + n <= Len(s) THEN Readable(SubSeq(read, 1, c)) ELSE Unreadable
    BY FetchedFrom
<1>4. Fetched(t, o, c, key) = IF o + n <= Len(t) THEN Readable(SubSeq(read, 1, c)) ELSE Unreadable
    BY <1>2, FetchedFrom
<1>5. o + n <= Len(t) /\ o + n <= Len(s)
    BY <1>1
<1> HIDE DEF n, read
<1> QED BY <1>3, <1>4, <1>5

\* A sequence cut to the length of another that it begins with.
LEMMA Cut ==
    ASSUME NEW p, IsSeq(p), Len(p) \in Nat \ {0}, NEW d, IsSeq(d), Len(p) <= Len(d),
           \A i \in 1..Len(p) : d[i] = p[i]
    PROVE  SubSeq(d, 1, Len(p)) = p
<1> DEFINE m == Len(p)
<1>1. 1 \in Nat \ {0} /\ m \in Nat /\ 1 <= m + 1 /\ m - 1 + 1 = m /\ \A i \in 1..m : 1 + i - 1 = i
    OBVIOUS
<1>2. m <= Len(d) /\ \A i \in 1..m : d[i] = p[i]
    OBVIOUS
<1> HIDE DEF m
<1>3. /\ IsSeq(SubSeq(d, 1, m)) /\ Len(SubSeq(d, 1, m)) = m - 1 + 1
      /\ \A i \in 1..(m - 1 + 1) : SubSeq(d, 1, m)[i] = d[1 + i - 1]
    BY <1>1, <1>2, Part
<1>4. Len(SubSeq(d, 1, m)) = Len(p) /\ \A i \in 1..Len(p) : SubSeq(d, 1, m)[i] = p[i]
    BY <1>1, <1>2, <1>3 DEF m
<1>5. SubSeq(d, 1, m) = p
    BY <1>3, <1>4, SameSeq
<1> QED BY <1>5 DEF m

\* What was sealed and is in the file is what is fetched.
LEMMA FetchesBack ==
    ASSUME NEW p, IsSeq(p), Len(p) \in Nat \ {0}, NEW key,
           NEW s, IsSeq(s), NEW o \in Nat, Holds(s, o, Sealed(p, key))
    PROVE  Fetched(s, o, Len(p), key) = Readable(p)
<1> DEFINE c == Len(p)
           n == Stride(c, key)
           w == Sealed(p, key)
           read == IF key = NoKey THEN w ELSE Decrypt(key, w)
<1>1. IsSeq(w) /\ Len(w) = n
    BY SealedIs
<1>2. Holds(s, o, w)
    OBVIOUS
<1>3. c \in Nat \ {0}
    OBVIOUS
<1>4. SubSeq(read, 1, c) = p
    <2>1. CASE key = NoKey
        <3>1. read = p
            BY <2>1 DEF Sealed
        <3>2. SubSeq(p, 1, c) = p
            BY Cut
        <3> QED BY <3>1, <3>2
    <2>2. CASE key # NoKey
        <3> DEFINE d == Pad(p, AesBlock)
        <3>1. IsSeq(d) /\ Len(p) <= Len(d) /\ Len(d) % AesBlock = 0
              /\ \A i \in 1..Len(p) : d[i] = p[i]
            BY PadIs
        <3>2. w = Encrypt(key, d)
            BY <2>2 DEF Sealed
        <3> HIDE DEF d, w
        <3>3. read = d
            BY <2>2, <3>1, <3>2, Deciphers
        <3> HIDE DEF read
        <3>4. SubSeq(d, 1, c) = p
            BY <3>1, Cut
        <3> QED BY <3>3, <3>4
    <2> QED BY <2>1, <2>2
<1> HIDE DEF w, c
<1>5. o + Len(w) <= Len(s) /\ SubSeq(s, o + 1, o + Len(w)) = w
    BY <1>1, <1>2, ReadsPiece
<1>6. o + n <= Len(s) /\ SubSeq(s, o + 1, o + n) = w
    <2> HIDE DEF n
    <2> QED BY <1>1, <1>5
<1>7. Fetched(s, o, c, key) = IF o + n <= Len(s) THEN Readable(SubSeq(read, 1, c)) ELSE Unreadable
    BY <1>3, <1>6, FetchedFrom
<1> HIDE DEF n, read
<1>8. Fetched(s, o, c, key) = Readable(p)
    BY <1>4, <1>6, <1>7
<1> QED BY <1>8 DEF c

\* What decoding the fetched bytes gives.
Opened(f, packed, method, usize) ==
    IF ~f.ok THEN Unreadable
    ELSE IF ~packed THEN f
    ELSE IF Decompresses(method, f.data, usize) THEN Readable(Decompress(f.data)) ELSE Unreadable

\* Toc::read fetches a block and opens it, when the two sizes of an uncompressed
\* one are the same.
LEMMA LoadedIs ==
    ASSUME NEW s, NEW e, NEW methods, NEW key, e.method = 0 => e.csize = e.usize
    PROVE  LoadedBlock(s, e, methods, key) =
                Opened(Fetched(s, e.offset, e.csize, key), e.method # 0, methods[e.method], e.usize)
<1> DEFINE n == e.csize
           r == ReadExact(s, e.offset, Stride(n, key), key)
           bytes == SubSeq(r.data, 1, n)
           load(b, read) ==
                CASE ~read.ok -> Unreadable
                  [] read.ok /\ e.method = 0 -> Readable(b)
                  [] read.ok /\ e.method # 0 ->
                        IF Decompresses(methods[e.method], b, e.usize)
                        THEN Readable(Decompress(b)) ELSE Unreadable
           size == IF e.method = 0 THEN e.usize ELSE e.csize
<1>1. LoadedBlock(s, e, methods, key) =
        LET read == ReadExact(s, e.offset, IF key = NoKey THEN size ELSE Align(size, AesBlock), key)
        IN  load(SubSeq(read.data, 1, size), read)
    BY DEF LoadedBlock
<1>2. size = n
    OBVIOUS
<1> HIDE DEF load, size
<1>3. ReadExact(s, e.offset, IF key = NoKey THEN size ELSE Align(size, AesBlock), key) = r
    BY <1>2 DEF Stride
<1>4. LoadedBlock(s, e, methods, key) = load(bytes, r)
    <2> HIDE DEF r, n
    <2> QED BY <1>1, <1>2, <1>3
<1> DEFINE f == Fetched(s, e.offset, n, key)
<1>5. f = IF r.ok THEN Readable(bytes) ELSE Unreadable
    BY DEF Fetched
<1> HIDE DEF r, f, bytes
<1>6. CASE ~r.ok
    <2>1. load(bytes, r) = Unreadable /\ ~f.ok
        BY <1>5, <1>6 DEF load, Unreadable
    <2>2. Opened(f, e.method # 0, methods[e.method], e.usize) = Unreadable
        BY <2>1 DEF Opened
    <2> QED BY <1>4, <2>1, <2>2 DEF f
<1>7. CASE r.ok
    <2>1. f = Readable(bytes) /\ f.ok /\ f.data = bytes
        BY <1>5, <1>7 DEF Readable
    <2>2. Opened(f, e.method # 0, methods[e.method], e.usize) = load(bytes, r)
        BY <1>7, <2>1 DEF load, Opened
    <2> QED BY <1>4, <2>2 DEF f
<1> QED BY <1>6, <1>7

\* What compress() made, decompress() undoes.
LEMMA CompressedOpens ==
    ASSUME NEW block, IsSeq(block), PackedLen(block) \in Nat \ {0}, NEW method
    PROVE  Opened(Readable(Compress(method, block)), TRUE, method, Len(block)) = Readable(block)
<1> DEFINE c == Compress(method, block)
<1>1. /\ IsSeq(c) /\ c # <<>>
      /\ "packed" \in DOMAIN c[1] /\ c[1].packed = block
    BY CompressIs
<1>2. block = [i \in 1..Len(block) |-> block[i]]
    BY SeqHas DEF IsSeq
<1>3. c = Compress(method, c[1].packed)
    BY <1>1
<1> HIDE DEF c
<1>4. Decompresses(method, c, Len(block)) /\ Decompress(c) = block
    BY <1>1, <1>2, <1>3 DEF Decompresses, Decompress
<1>5. Readable(c).ok /\ Readable(c).data = c
    BY DEF Readable
<1>6. Opened(Readable(c), TRUE, method, Len(block)) = Readable(block)
    BY <1>4, <1>5 DEF Opened
<1> QED BY <1>6 DEF c

\* A block that is stored in a .ucas loads from there.
LEMMA LoadsBack ==
    ASSUME NEW block, NEW method, Storable(block, method), NEW key, NEW methods,
           method # NoMethod => methods[1] = method,
           NEW s, IsSeq(s), NEW o \in Nat, Holds(s, o, StoredBlock(block, method, key).bytes),
           NEW entry, entry.offset = o,
           entry.csize = StoredBlock(block, method, key).csize,
           entry.usize = StoredBlock(block, method, key).usize,
           entry.method = StoredBlock(block, method, key).method
    PROVE  LoadedBlock(s, entry, methods, key) = Readable(block)
<1> DEFINE stored == StoredBlock(block, method, key)
           p == Plain(block, method)
<1>1. /\ stored.bytes = Sealed(p, key)
      /\ stored.csize = Len(p) /\ stored.usize = Len(block)
      /\ stored.method = IF Kept(block, method) THEN 1 ELSE 0
    BY StoredIs DEF Sealed
<1>2. /\ IsSeq(p) /\ Len(p) \in Nat \ {0}
      /\ ~Kept(block, method) => p = block
      /\ Kept(block, method) => p = Compress(method, block)
    BY PlainIs
<1>3. /\ Holds(s, o, stored.bytes) /\ entry.csize = stored.csize
      /\ entry.usize = stored.usize /\ entry.method = stored.method
    OBVIOUS
<1> HIDE DEF stored, p
<1>4. Fetched(s, o, Len(p), key) = Readable(p)
    BY <1>1, <1>2, <1>3, FetchesBack
<1>5. LoadedBlock(s, entry, methods, key) =
            Opened(Readable(p), entry.method # 0, methods[entry.method], Len(block))
    <2>1. entry.method = 0 => entry.csize = entry.usize
        BY <1>1, <1>2, <1>3
    <2>2. LoadedBlock(s, entry, methods, key) =
            Opened(Fetched(s, entry.offset, entry.csize, key), entry.method # 0,
                   methods[entry.method], entry.usize)
        BY <2>1, LoadedIs
    <2> QED BY <1>1, <1>3, <1>4, <2>2
<1>6. CASE ~Kept(block, method)
    <2>1. entry.method = 0 /\ p = block
        BY <1>1, <1>2, <1>3, <1>6
    <2>2. Readable(block).ok
        BY DEF Readable
    <2> QED BY <1>5, <2>1, <2>2 DEF Opened
<1>7. CASE Kept(block, method)
    <2>1. entry.method = 1 /\ methods[1] = method /\ method # NoMethod
        BY <1>1, <1>3, <1>7 DEF Kept
    <2>2. Opened(Readable(p), TRUE, method, Len(block)) = Readable(block)
        BY <1>2, <1>7, <2>1, CompressedOpens DEF Storable
    <2>3. (entry.method # 0) = TRUE
        BY <2>1
    <2>4. LoadedBlock(s, entry, methods, key) = Opened(Readable(p), TRUE, method, Len(block))
        BY <1>5, <2>1, <2>3
    <2> QED BY <2>2, <2>4
<1> QED BY <1>6, <1>7

\* The blocks of a chunk, loaded one after the other, are its data.
LEMMA ChunkReads ==
    ASSUME NEW data, IsSeq(data), NEW start \in Nat, NEW toc, NEW i, NEW s,
           toc.chunk_offset_lengths[i] = [offset |-> start * BlockSize, length |-> Len(data)],
           Len(data) > 0 \/ start * BlockSize > 0,
           Len(toc.compression_blocks) \in Nat,
           start + Len(Blocks(data)) <= Len(toc.compression_blocks),
           \A k \in 1..Len(Blocks(data)) :
                LoadedBlock(s, toc.compression_blocks[start + k], toc.methods, toc.key)
                    = Readable(Blocks(data)[k])
    PROVE  ReadChunk(toc, s, i) = Readable(data)
<1> DEFINE at == toc.chunk_offset_lengths[i]
           c == BlockSize
           b == Blocks(data)
           n == Len(b)
           m == Len(data)
           first == at.offset \div BlockSize + 1
           end == Align(at.offset + at.length, BlockSize)
           last == (end - 1) \div BlockSize + 1
           loaded == [l \in first..last |->
                        LoadedBlock(s, toc.compression_blocks[l], toc.methods, toc.key)]
           joined == FlattenSeq([l \in 1..(last + 1 - first) |-> loaded[first + l - 1].data])
<1>1. c \in Nat \ {0} /\ m \in Nat /\ start \in Nat
    BY SeqHas, BlockSizesPositive
<1>2. Parts(b) /\ n = Align(m, c) \div c /\ FlattenSeq(b) = data
    BY BlocksAre
<1>3. n \in Nat /\ IsSeq(b) /\ DOMAIN b = 1..n
    BY <1>2, SeqHas DEF Parts
<1>4. at.offset = start * c /\ at.length = m
    OBVIOUS
<1>5. /\ Align(m, c) = n * c /\ m <= n * c /\ n * c < m + c /\ (n = 0 <=> m = 0)
      /\ n * c \in Nat
    <2> HIDE DEF n, m, c
    <2>1. /\ Align(m, c) \in Nat /\ m <= Align(m, c) /\ Align(m, c) < m + c
          /\ Align(m, c) = (Align(m, c) \div c) * c
          /\ (Align(m, c) \div c = 0 <=> m = 0)
        BY <1>1, Pieces
    <2>2. Align(m, c) = n * c
        BY <1>2, <2>1
    <2> QED BY <1>2, <2>1, <2>2
<1> HIDE DEF at, b, n, m, c
<1>6. first = start + 1
    <2> DEFINE x == start * c
    <2>1. Splits(x, start, c, 0) /\ 0 \in Nat /\ 0 < c
        BY <1>1 DEF Splits
    <2> HIDE DEF x
    <2>2. x \div c = start
        BY <1>1, <2>1, DivIs
    <2> QED BY <1>4, <2>2 DEF x, c
<1>7. end = (start + n) * c /\ start * c \in Nat /\ (start + n) * c = start * c + n * c
    <2> DEFINE x == start * c + m
               e == Align(x, c) \div c
    <2>1. start * c \in Nat /\ (start + n) * c = start * c + n * c
        BY <1>1, <1>3
    <2>2. x \in Nat
        <3> DEFINE y == start * c
        <3>1. y \in Nat
            BY <2>1
        <3> HIDE DEF y
        <3>2. y + m \in Nat
            BY <1>1, <3>1
        <3> QED BY <3>2 DEF y
    <2>3. /\ Align(x, c) \in Nat /\ x <= Align(x, c) /\ Align(x, c) < x + c /\ e \in Nat
          /\ Align(x, c) = e * c
        <3> HIDE DEF x
        <3> QED BY <1>1, <2>2, Pieces
    <2> HIDE DEF e
    <2>4. e * c \in Nat /\ start * c + m <= e * c /\ e * c < start * c + m + c
        BY <2>3
    <2>5. e = start + n
        <3> DEFINE f == start + n
        <3>1. f \in Nat /\ f * c \in Nat /\ f * c = start * c + n * c
            <4>1. f \in Nat
                BY <1>1, <1>3
            <4>2. f * c = start * c + n * c
                BY <2>1
            <4>3. start * c + n * c \in Nat
                <5>1. PICK u, v : u = start * c /\ v = n * c
                    OBVIOUS
                <5>2. u \in Nat /\ v \in Nat
                    BY <1>5, <2>1, <5>1
                <5>3. u + v \in Nat
                    BY <5>2
                <5> QED BY <5>1, <5>3
            <4> HIDE DEF f
            <4> QED BY <4>1, <4>2, <4>3
        <3> HIDE DEF f
        <3>2. start * c + m <= f * c /\ f * c < start * c + m + c
            BY <1>1, <1>5, <2>1, <3>1
        <3>3. CASE e < f
            <4>1. e * c + c <= f * c
                BY <1>1, <2>3, <3>1, <3>3, Monotone
            <4> QED BY <1>1, <2>1, <2>4, <3>1, <3>2, <4>1
        <3>4. CASE f < e
            <4>1. f * c + c <= e * c
                BY <1>1, <2>3, <3>1, <3>4, Monotone
            <4> QED BY <1>1, <2>1, <2>4, <3>1, <3>2, <4>1
        <3>5. CASE e = f
            BY <3>5 DEF f
        <3> QED BY <2>3, <3>1, <3>3, <3>4, <3>5
    <2>6. end = Align(x, c)
        BY <1>4 DEF c
    <2> HIDE DEF x
    <2>7. end = (start + n) * c
        <3> HIDE DEF end
        <3> QED BY <2>3, <2>5, <2>6
    <2> QED BY <2>1, <2>7
<1>8. end # 0 /\ start + n > 0
    <2>1. start * c + n * c > 0
        BY <1>1, <1>4, <1>5, <1>7 DEF at, m, c
    <2>2. start + n # 0
        <3>1. 0 * c = 0
            BY <1>1
        <3> QED BY <1>7, <2>1, <3>1
    <2> HIDE DEF end
    <2> QED BY <1>1, <1>3, <1>5, <1>7, <2>1, <2>2
<1>9. last = start + n
    <2> DEFINE x == end - 1
               q == start + n - 1
               r == c - 1
    <2>1. q \in Nat /\ r \in Nat /\ r < c
        BY <1>1, <1>3, <1>8
    <2>2. (start + n) * c = (start + n - 1) * c + c
        BY <1>1, <1>3
    <2>3. q * c \in Nat
        BY <1>1, <2>1
    <2>4. Splits(x, q, c, r)
        <3> DEFINE z == q * c
        <3>1. end = z + c /\ z \in Nat
            <4> HIDE DEF end
            <4> QED BY <1>7, <2>2, <2>3
        <3> HIDE DEF z, end
        <3>2. end - 1 = z + (c - 1)
            BY <1>1, <3>1
        <3> QED BY <3>2 DEF Splits, z
    <2> HIDE DEF x, q, r
    <2>5. x \div c = q
        BY <1>1, <2>1, <2>4, DivIs
    <2>6. last = q + 1
        <3> HIDE DEF end
        <3> QED BY <2>5 DEF x, c
    <2> HIDE DEF last
    <2>7. q + 1 = start + n
        BY <1>1, <1>3 DEF q
    <2> QED BY <2>6, <2>7
<1> HIDE DEF first, last, end
<1>10. \A k \in 1..n : /\ start + k \in first..last
                       /\ loaded[start + k] = Readable(b[k])
    <2> TAKE k \in 1..n
    <2>1. start + k \in first..last
        BY <1>1, <1>3, <1>6, <1>9
    <2>2. LoadedBlock(s, toc.compression_blocks[start + k], toc.methods, toc.key) = Readable(b[k])
        BY DEF b, n
    <2> DEFINE l == start + k
    <2>3. l \in first..last
        BY <2>1
    <2> HIDE DEF l
    <2>4. loaded[l] = LoadedBlock(s, toc.compression_blocks[l], toc.methods, toc.key)
        BY <2>3
    <2> HIDE DEF loaded
    <2> QED BY <2>1, <2>2, <2>4 DEF l
<1> HIDE DEF loaded
<1>11. \A l \in first..last : loaded[l].ok
    <2> TAKE l \in first..last
    <2>1. l - start \in 1..n /\ start + (l - start) = l
        BY <1>1, <1>3, <1>6, <1>9
    <2>2. loaded[l] = Readable(b[l - start])
        BY <1>10, <2>1
    <2> QED BY <2>2 DEF Readable
<1>12. joined = data
    <2> DEFINE d == [l \in 1..(last + 1 - first) |-> loaded[first + l - 1].data]
    <2>1. last + 1 - first = n
        BY <1>1, <1>3, <1>6, <1>9
    <2>2. \A l \in 1..n : loaded[first + l - 1].data = b[l]
        <3> TAKE l \in 1..n
        <3>1. first + l - 1 = start + l
            BY <1>1, <1>3, <1>6
        <3>2. loaded[start + l] = Readable(b[l])
            BY <1>10
        <3> QED BY <3>1, <3>2 DEF Readable
    <2>3. d = [l \in 1..n |-> b[l]]
        BY <2>1, <2>2
    <2> HIDE DEF d
    <2>4. \A l \in 1..n : d[l] = b[l]
        BY <2>3
    <2>5. d = [l \in 1..n |-> d[l]]
        BY <2>3
    <2>6. IsSeq(d) /\ Len(d) = n
        BY <1>3, <2>5, Made
    <2>7. d = b
        <3>1. Len(d) = Len(b)
            BY <2>6 DEF n
        <3> QED BY <1>3, <2>4, <2>6, <3>1, SameSeq
    <2> QED BY <1>2, <2>7 DEF d
<1>13. SubSeq(data, 1, m) = data
    BY SubSeqFull DEF IsSeq, m
<1>14. ReadChunk(toc, s, i) =
            IF \/ end = 0
               \/ last > Len(toc.compression_blocks)
               \/ \E l \in first..last : ~loaded[l].ok
            THEN Unreadable
            ELSE Readable(SubSeq(joined, 1, at.length))
    BY DEF ReadChunk, loaded, first, last, end, at
<1>15. ~(last > Len(toc.compression_blocks))
    <2>1. start + n <= Len(toc.compression_blocks)
        BY DEF b, n
    <2> QED BY <1>1, <1>3, <1>9, <2>1
<1> HIDE DEF joined
<1> QED BY <1>4, <1>8, <1>11, <1>12, <1>13, <1>14, <1>15

\* The first parts, joined, end where the next one starts.
LEMMA FlatPrefix ==
    ASSUME NEW parts, Parts(parts), NEW at, IsOffsets(at, 0, Sizes(parts)),
           NEW m \in Nat, m <= Len(parts)
    PROVE  LET f == FlattenSeq([j \in 1..m |-> parts[j]]) IN IsSeq(f) /\ Len(f) = at[m + 1]
<1> DEFINE pre == [j \in 1..m |-> parts[j]]
           sub == [k \in 1..(m + 1) |-> at[k]]
<1>1. /\ Len(parts) \in Nat /\ \A k \in 1..Len(parts) : IsSeq(parts[k])
      /\ \A k \in 1..Len(parts) : Sizes(parts)[k] = Len(parts[k])
      /\ Len(Sizes(parts)) = Len(parts)
    BY SizesAre DEF Parts
<1>2. \A k \in 1..m : k \in 1..Len(parts)
    BY <1>1
<1>3. pre = [j \in 1..m |-> pre[j]] /\ \A j \in 1..m : pre[j] = parts[j]
    OBVIOUS
<1> HIDE DEF pre
<1>4. IsSeq(pre) /\ Len(pre) = m /\ Parts(pre)
    BY <1>1, <1>2, <1>3, Made DEF Parts
<1>5. /\ Len(Sizes(pre)) = m /\ \A k \in 1..m : Sizes(pre)[k] = Len(parts[k])
    <2>1. Len(Sizes(pre)) = Len(pre) /\ \A k \in 1..Len(pre) : Sizes(pre)[k] = Len(pre[k])
        BY <1>4, SizesAre
    <2>2. \A k \in 1..m : Sizes(pre)[k] = Len(pre[k])
        BY <1>4, <2>1
    <2> QED BY <1>3, <1>4, <2>1, <2>2
<1>6. /\ at \in [1..(Len(parts) + 1) -> Nat] /\ at[1] = 0
      /\ \A k \in 1..Len(parts) : at[k + 1] = at[k] + Len(parts[k])
    BY <1>1 DEF IsOffsets
<1>7. sub \in [1..(m + 1) -> Nat] /\ \A k \in 1..(m + 1) : sub[k] = at[k]
    <2>1. \A k \in 1..(m + 1) : k \in 1..(Len(parts) + 1)
        BY <1>1
    <2> QED BY <1>6, <2>1
<1> HIDE DEF sub
<1>8. IsOffsets(sub, 0, Sizes(pre))
    <2>1. \A k \in 1..m : sub[k + 1] = sub[k] + Sizes(pre)[k]
        <3> SUFFICES ASSUME NEW k \in 1..m PROVE sub[k + 1] = sub[k] + Sizes(pre)[k]
            OBVIOUS
        <3>1. k \in 1..(m + 1) /\ k + 1 \in 1..(m + 1)
            OBVIOUS
        <3> QED BY <1>2, <1>5, <1>6, <1>7, <3>1
    <2>2. sub[1] = 0
        BY <1>6, <1>7
    <2> QED BY <1>5, <1>7, <2>1, <2>2 DEF IsOffsets
<1>9. FlatOK(FlattenSeq(pre), 0, sub, pre, m)
    BY <1>4, <1>8, FlatHolds
<1>10. IsSeq(FlattenSeq(pre)) /\ 0 + Len(FlattenSeq(pre)) = sub[m + 1]
    BY <1>9 DEF FlatOK
<1>11. Len(FlattenSeq(pre)) \in Nat
    BY <1>10, SeqHas
<1>12. sub[m + 1] = at[m + 1]
    BY <1>7
<1> QED BY <1>10, <1>11, <1>12 DEF pre

\* Two tables whose blocks open as the same give the same data.
LEMMA SameChunk ==
    ASSUME NEW toc, NEW s, NEW toc2, NEW s2, NEW i,
           toc2.chunk_offset_lengths = toc.chunk_offset_lengths,
           toc.chunk_offset_lengths[i].offset \in Nat,
           toc.chunk_offset_lengths[i].length \in Nat,
           Len(toc.compression_blocks) \in Nat,
           Len(toc2.compression_blocks) = Len(toc.compression_blocks),
           \A k \in 1..Len(toc.compression_blocks) :
                LoadedBlock(s2, toc2.compression_blocks[k], toc2.methods, toc2.key)
                    = LoadedBlock(s, toc.compression_blocks[k], toc.methods, toc.key)
    PROVE  ReadChunk(toc2, s2, i) = ReadChunk(toc, s, i)
<1> DEFINE at == toc.chunk_offset_lengths[i]
           first == at.offset \div BlockSize + 1
           end == Align(at.offset + at.length, BlockSize)
           last == (end - 1) \div BlockSize + 1
           n == Len(toc.compression_blocks)
           L(b) == LoadedBlock(s, toc.compression_blocks[b], toc.methods, toc.key)
           L2(b) == LoadedBlock(s2, toc2.compression_blocks[b], toc2.methods, toc2.key)
           loaded == [b \in first..last |-> L(b)]
           loaded2 == [b \in first..last |-> L2(b)]
           Gives(l) == IF \/ end = 0 \/ last > n \/ \E b \in first..last : ~l[b].ok
                       THEN Unreadable
                       ELSE Readable(SubSeq(FlattenSeq([b \in 1..(last + 1 - first) |->
                                                            l[first + b - 1].data]),
                                            1, at.length))
<1>1. ReadChunk(toc, s, i) = Gives(loaded) /\ ReadChunk(toc2, s2, i) = Gives(loaded2)
    BY DEF ReadChunk
<1>2. CASE end = 0 \/ last > n
    BY <1>1, <1>2
<1>3. CASE ~(end = 0 \/ last > n)
    <2>1. first \in Nat \ {0} /\ end \in Nat
        <3>1. at.offset \div BlockSize \in Nat
            BY BlockSizesPositive, DivMod
        <3>2. at.offset + at.length \in Nat
            OBVIOUS
        <3>3. Align(at.offset + at.length, BlockSize) \in Nat
            <4> HIDE DEF at
            <4> QED BY <3>2, BlockSizesPositive, Pieces
        <3> QED BY <3>1, <3>3
    <2>2. end - 1 \in Nat
        <3> HIDE DEF end
        <3> QED BY <1>3, <2>1
    <2>3. last \in Nat
        <3>1. (end - 1) \div BlockSize \in Nat
            <4> HIDE DEF end
            <4> QED BY <2>2, BlockSizesPositive, DivMod
        <3> HIDE DEF end
        <3> QED BY <3>1
    <2> HIDE DEF first, last, end
    <2>4. \A b \in first..last : b \in 1..n
        BY <1>3, <2>1, <2>3
    <2>5. \A b \in first..last : L2(b) = L(b)
        BY <2>4
    <2> HIDE DEF L, L2
    <2>6. loaded2 = loaded
        BY <2>5
    <2> HIDE DEF loaded, loaded2, Gives
    <2> QED BY <1>1, <2>6
<1> QED BY <1>2, <1>3
=============================================================================
