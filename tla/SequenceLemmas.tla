--------------------------- MODULE SequenceLemmas ---------------------------
(***************************************************************************)
(* Lemmas about sequences that the proofs about blocks, containers and     *)
(* shader libraries share: what joining, appending and cutting leave of    *)
(* them, where things of given sizes are when they follow one another, and *)
(* where the parts of a flattened sequence are.  Induction is by the least *)
(* number for which something does not hold.                               *)
(***************************************************************************)
EXTENDS Naturals, Sequences, SequencesExt, FiniteSetTheorems, SequenceTheorems,
        WellFoundedInduction, TLAPS

-----------------------------------------------------------------------------
(* Numbers                                                                 *)

\* A set of numbers that is not empty has a least one.
LEMMA Least ==
    ASSUME NEW S, S \subseteq Nat, S # {}
    PROVE  \E i \in S : \A j \in S : i <= j
<1> DEFINE below(i) == 0..(i - 1)
           T == {below(i) : i \in S}
<1>1. T \subseteq FiniteSubsetsOf(Nat) /\ T # {}
    <2>1. ASSUME NEW i \in S PROVE below(i) \in FiniteSubsetsOf(Nat)
        <3>1. i \in Nat /\ 0 \in Int /\ i - 1 \in Int
            OBVIOUS
        <3>2. IsFiniteSet(0..(i - 1))
            BY <3>1, FS_Interval
        <3>3. below(i) \subseteq Nat
            OBVIOUS
        <3> QED BY <3>2, <3>3 DEF FiniteSubsetsOf
    <2> QED BY <2>1
<1>2. IsWellFoundedOn(StrictSubsetOrdering(Nat), FiniteSubsetsOf(Nat))
    BY FS_StrictSubsetOrderingWellFounded
<1>3. PICK x \in T : \A y \in T : ~(<<y, x>> \in StrictSubsetOrdering(Nat))
    <2> HIDE DEF T
    <2> QED BY <1>1, <1>2, WFMin
<1>4. PICK i \in S : x = below(i)
    BY <1>3
<1>5. ASSUME NEW j \in S, j < i PROVE FALSE
    <2>1. below(j) \in SUBSET Nat /\ below(i) \in SUBSET Nat /\ below(j) \subseteq below(i)
        BY <1>5
    <2>2. j \in below(i) /\ j \notin below(j)
        BY <1>5
    <2>3. <<below(j), below(i)>> \in StrictSubsetOrdering(Nat)
        <3> HIDE DEF below
        <3> QED BY <2>1, <2>2 DEF StrictSubsetOrdering
    <2>4. below(j) \in T
        BY <1>5
    <2> HIDE DEF below, T
    <2> QED BY <1>3, <1>4, <2>3, <2>4
<1>6. \A j \in S : i <= j
    BY <1>4, <1>5
<1> QED BY <1>6

\* A set that has 1 and with a number the next one has all of them.
LEMMA Upwards ==
    ASSUME NEW n \in Nat, NEW S, n > 0 => 1 \in S,
           \A i \in 1..n : i + 1 <= n /\ i \in S => i + 1 \in S
    PROVE  1..n \subseteq S
<1> DEFINE Missing == {i \in 1..n : i \notin S}
<1> SUFFICES ASSUME Missing # {} PROVE FALSE
    OBVIOUS
<1>1. Missing \subseteq Nat
    OBVIOUS
<1>2. PICK i \in Missing : \A j \in Missing : i <= j
    <2> HIDE DEF Missing
    <2> QED BY <1>1, Least
<1>3. i \in 1..n /\ i \notin S /\ i # 1
    BY <1>2
<1>4. i - 1 \in 1..n /\ i - 1 \notin Missing
    BY <1>2, <1>3
<1> QED BY <1>3, <1>4

\* The greatest of a set of numbers.
LEMMA MaxIs ==
    ASSUME NEW S, S \subseteq Nat, NEW m \in S, \A i \in S : i <= m
    PROVE  Max(S) = m
<1>1. Max(S) = CHOOSE x \in S : \A y \in S : x >= y
    BY DEF Max
<1>2. \E x \in S : \A y \in S : x >= y
    OBVIOUS
<1> DEFINE x == CHOOSE x \in S : \A y \in S : x >= y
<1>3. x \in S /\ \A y \in S : x >= y
    BY <1>2
<1> HIDE DEF x
<1>4. x >= m /\ x <= m /\ x \in Nat /\ m \in Nat
    BY <1>3
<1>5. x = m
    BY <1>4
<1> QED BY <1>1, <1>5 DEF x

-----------------------------------------------------------------------------
(* Sequences                                                               *)

IsSeq(s) == s \in Seq(Range(s))

\* Whatever is a sequence of something is a sequence.
LEMMA SeqIs ==
    ASSUME NEW S, NEW s \in Seq(S)
    PROVE  IsSeq(s)
BY SeqOfRange DEF IsSeq

\* A sequence has a length, and its indices are those up to it.
LEMMA SeqHas ==
    ASSUME NEW s, IsSeq(s)
    PROVE  Len(s) \in Nat /\ DOMAIN s = 1..Len(s)
BY LenProperties DEF IsSeq

\* The empty sequence.
LEMMA EmptyIs == IsSeq(<<>>) /\ Len(<<>>) = 0 /\ DOMAIN <<>> = {}
<1>1. <<>> \in Seq({})
    BY EmptySeq
<1>2. IsSeq(<<>>)
    BY <1>1, SeqIs
<1> QED BY <1>2

\* A function on the first n numbers is a sequence.
LEMMA Made ==
    ASSUME NEW n \in Nat, NEW s, s = [i \in 1..n |-> s[i]]
    PROVE  IsSeq(s) /\ Len(s) = n /\ DOMAIN s = 1..n
<1>1. DOMAIN s = 1..n
    OBVIOUS
<1>2. \A i \in 1..n : s[i] \in Range(s)
    BY <1>1 DEF Range
<1>3. s \in [1..n -> Range(s)]
    BY <1>2
<1>4. s \in Seq(Range(s))
    BY <1>3
<1>5. Len(s) = n
    BY <1>1, <1>4, LenProperties
<1> QED BY <1>1, <1>4, <1>5 DEF IsSeq

\* Sequences with the same elements are the same.
LEMMA SameSeq ==
    ASSUME NEW s, IsSeq(s), NEW t, IsSeq(t), Len(s) = Len(t), \A i \in 1..Len(s) : s[i] = t[i]
    PROVE  s = t
<1> DEFINE S == Range(s) \cup Range(t)
<1>1. s \in Seq(S) /\ t \in Seq(S)
    <2>1. Range(s) \subseteq S /\ Range(t) \subseteq S
        OBVIOUS
    <2> HIDE DEF S
    <2> QED BY <2>1, SeqMonotonic DEF IsSeq
<1> HIDE DEF S
<1> QED BY <1>1, SeqEqual

\* What s \o t has.
LEMMA Joined ==
    ASSUME NEW s, IsSeq(s), NEW t, IsSeq(t)
    PROVE  /\ IsSeq(s \o t) /\ Len(s \o t) = Len(s) + Len(t)
           /\ \A i \in 1..Len(s) : (s \o t)[i] = s[i]
           /\ \A i \in 1..Len(t) : (s \o t)[Len(s) + i] = t[i]
<1> DEFINE S == Range(s) \cup Range(t)
<1>1. s \in Seq(S) /\ t \in Seq(S)
    <2>1. Range(s) \subseteq S /\ Range(t) \subseteq S
        OBVIOUS
    <2> HIDE DEF S
    <2> QED BY <2>1, SeqMonotonic DEF IsSeq
<1> HIDE DEF S
<1>2. /\ s \o t \in Seq(S) /\ Len(s \o t) = Len(s) + Len(t)
      /\ \A i \in 1..Len(s) + Len(t) :
                (s \o t)[i] = IF i <= Len(s) THEN s[i] ELSE t[i - Len(s)]
    BY <1>1, ConcatProperties
<1>3. Len(s) \in Nat /\ Len(t) \in Nat
    BY SeqHas
<1> DEFINE u == s \o t
           m == Len(s)
           n == Len(t)
<1>4. m \in Nat /\ n \in Nat /\ \A i \in 1..(m + n) : u[i] = IF i <= m THEN s[i] ELSE t[i - m]
    BY <1>2, <1>3
<1>5. /\ \A i \in 1..m : u[i] = s[i]
      /\ \A i \in 1..n : u[m + i] = t[i]
    <2> HIDE DEF u, m, n
    <2>1. \A i \in 1..m : u[i] = s[i]
        BY <1>4
    <2>2. ASSUME NEW i \in 1..n PROVE u[m + i] = t[i]
        <3>1. m + i \in 1..(m + n) /\ ~(m + i <= m) /\ m + i - m = i
            BY <1>4
        <3> QED BY <1>4, <3>1
    <2> QED BY <2>1, <2>2
<1> QED BY <1>2, <1>5, SeqIs

\* What Append(s, x) has.
LEMMA Pushed ==
    ASSUME NEW s, IsSeq(s), NEW x
    PROVE  /\ IsSeq(Append(s, x)) /\ Len(Append(s, x)) = Len(s) + 1
           /\ DOMAIN Append(s, x) = 1..(Len(s) + 1)
           /\ \A i \in 1..Len(s) : Append(s, x)[i] = s[i]
           /\ Append(s, x)[Len(s) + 1] = x
<1> DEFINE S == Range(s) \cup {x}
<1>1. s \in Seq(S) /\ x \in S
    <2>1. Range(s) \subseteq S /\ x \in S
        OBVIOUS
    <2> HIDE DEF S
    <2> QED BY <2>1, SeqMonotonic DEF IsSeq
<1> HIDE DEF S
<1>2. /\ Append(s, x) \in Seq(S)
      /\ Len(Append(s, x)) = Len(s) + 1
      /\ \A i \in 1..Len(s) : Append(s, x)[i] = s[i]
      /\ Append(s, x)[Len(s) + 1] = x
    BY <1>1, AppendProperties
<1>3. IsSeq(Append(s, x))
    BY <1>2, SeqIs
<1> QED BY <1>2, <1>3, SeqHas

\* What Head and Tail have.
LEMMA Beheaded ==
    ASSUME NEW s, IsSeq(s), s # <<>>
    PROVE  /\ Len(s) \in Nat /\ Len(s) >= 1 /\ Head(s) = s[1]
           /\ IsSeq(Tail(s)) /\ Len(Tail(s)) = Len(s) - 1
           /\ \A i \in 1..(Len(s) - 1) : Tail(s)[i] = s[i + 1]
<1>1. s \in Seq(Range(s))
    BY DEF IsSeq
<1>2. Len(s) \in Nat /\ Len(s) >= 1
    BY <1>1, EmptySeq
<1>3. Head(s) = s[1]
    BY <1>1
<1>4. /\ Tail(s) \in Seq(Range(s)) /\ Len(Tail(s)) = Len(s) - 1
      /\ \A i \in 1..Len(Tail(s)) : Tail(s)[i] = s[i + 1]
    BY <1>1, HeadTailProperties
<1>5. IsSeq(Tail(s))
    BY <1>4, SeqIs
<1> QED BY <1>2, <1>3, <1>4, <1>5

\* What SubSeq(s, m, n) has.
LEMMA Part ==
    ASSUME NEW s, IsSeq(s), NEW m \in Nat \ {0}, NEW n \in Nat, n <= Len(s), m <= n + 1
    PROVE  /\ IsSeq(SubSeq(s, m, n)) /\ Len(SubSeq(s, m, n)) = n - m + 1
           /\ \A i \in 1..(n - m + 1) : SubSeq(s, m, n)[i] = s[m + i - 1]
<1>1. DOMAIN s = 1..Len(s) /\ Len(s) \in Nat
    BY SeqHas
<1>2. \A i \in m..n : s[i] \in Range(s)
    BY <1>1 DEF Range
<1>3. m \in Int /\ n \in Int
    OBVIOUS
<1>4. /\ SubSeq(s, m, n) \in Seq(Range(s))
      /\ Len(SubSeq(s, m, n)) = IF m <= n THEN n - m + 1 ELSE 0
      /\ \A i \in 1..n - m + 1 : SubSeq(s, m, n)[i] = s[m + i - 1]
    BY <1>2, <1>3, SubSeqProperties
<1>5. IsSeq(SubSeq(s, m, n))
    BY <1>4, SeqIs
<1>6. Len(SubSeq(s, m, n)) = n - m + 1
    BY <1>4
<1> QED BY <1>4, <1>5, <1>6

-----------------------------------------------------------------------------
(* Offsets                                                                 *)

IsOffsets(at, from, sizes) ==
    /\ at \in [1..(Len(sizes) + 1) -> Nat]
    /\ at[1] = from
    /\ \A k \in 1..Len(sizes) : at[k + 1] = at[k] + sizes[k]

\* The recursive equation of Offsets, for the first m.
Recurs(at, from, sizes, m) ==
    at = [k \in 1..m |-> IF k = 1 THEN from ELSE at[k - 1] + sizes[k - 1]]

\* The recursion that defines Offsets has a solution.
LEMMA OffsetsExist ==
    ASSUME NEW sizes, IsSeq(sizes), NEW from
    PROVE  \E at : Recurs(at, from, sizes, Len(sizes) + 1)
<1> DEFINE n == Len(sizes) + 1
           S == {m \in 1..n : \E at : Recurs(at, from, sizes, m)}
<1>0. n \in Nat \ {0}
    BY SeqHas
<1>1. 1 \in S
    <2>1. Recurs([k \in 1..1 |-> from], from, sizes, 1)
        BY DEF Recurs
    <2> HIDE DEF n
    <2> QED BY <1>0, <2>1
<1>2. ASSUME NEW m \in 1..n, m + 1 <= n, m \in S PROVE m + 1 \in S
    <2> HIDE DEF n
    <2>1. PICK g : Recurs(g, from, sizes, m)
        BY <1>2
    <2> DEFINE h == [i \in 1..(m + 1) |-> IF i = m + 1 THEN g[m] + sizes[m] ELSE g[i]]
    <2>2. ASSUME NEW i \in 1..(m + 1)
          PROVE  h[i] = IF i = 1 THEN from ELSE h[i - 1] + sizes[i - 1]
        <3>1. CASE i = m + 1
            <4>1. i # 1 /\ i - 1 = m /\ m \in 1..(m + 1) /\ m # m + 1
                BY <3>1
            <4>2. h[i] = g[m] + sizes[m] /\ h[i - 1] = g[m]
                BY <3>1, <4>1
            <4> HIDE DEF h
            <4> QED BY <3>1, <4>1, <4>2
        <3>2. CASE i # m + 1
            <4>1. i \in 1..m /\ h[i] = g[i]
                BY <3>2
            <4>2. g[i] = IF i = 1 THEN from ELSE g[i - 1] + sizes[i - 1]
                BY <2>1, <4>1 DEF Recurs
            <4>3. i # 1 => h[i - 1] = g[i - 1]
                BY <4>1
            <4> HIDE DEF h
            <4> QED BY <4>1, <4>2, <4>3
        <3> QED BY <3>1, <3>2
    <2>3. Recurs(h, from, sizes, m + 1)
        <3>1. h = [i \in 1..(m + 1) |-> h[i]]
            OBVIOUS
        <3> HIDE DEF h
        <3> QED BY <2>2, <3>1 DEF Recurs
    <2>4. \E f : Recurs(f, from, sizes, m + 1)
        <3> HIDE DEF h
        <3> QED BY <2>3
    <2>5. m + 1 \in 1..n
        BY <1>0, <1>2
    <2> QED BY <2>4, <2>5
<1>3. 1..n \subseteq S
    <2> HIDE DEF S, n
    <2> QED BY <1>0, <1>1, <1>2, Upwards
<1>4. n \in 1..n
    <2> HIDE DEF n
    <2> QED BY <1>0
<1> HIDE DEF n
<1>5. n \in S
    BY <1>3, <1>4
<1> QED BY <1>5 DEF n

\* Its solution says where things of the given sizes are when they follow one another.
LEMMA RecursIs ==
    ASSUME NEW sizes \in Seq(Nat), NEW from \in Nat, NEW at,
           Recurs(at, from, sizes, Len(sizes) + 1)
    PROVE  IsOffsets(at, from, sizes)
<1> DEFINE n == Len(sizes) + 1
<1>0. Len(sizes) \in Nat /\ n \in Nat \ {0} /\ \A k \in 1..Len(sizes) : sizes[k] \in Nat
    BY LenProperties, ElementOfSeq
<1>3. at = [k \in 1..(Len(sizes) + 1) |-> IF k = 1 THEN from ELSE at[k - 1] + sizes[k - 1]]
    BY DEF Recurs
<1>4. DOMAIN at = 1..n /\ \A k \in 1..n : at[k] = IF k = 1 THEN from ELSE at[k - 1] + sizes[k - 1]
    BY <1>3
<1> DEFINE S == {k \in 1..n : at[k] \in Nat}
<1>5. at[1] = from /\ 1 \in S
    BY <1>0, <1>4
<1>6. ASSUME NEW k \in 1..Len(sizes) PROVE at[k + 1] = at[k] + sizes[k]
    <2>1. k + 1 \in 1..n /\ k + 1 # 1 /\ k + 1 - 1 = k
        BY <1>0
    <2> HIDE DEF n
    <2>2. at[k + 1] = IF k + 1 = 1 THEN from ELSE at[k + 1 - 1] + sizes[k + 1 - 1]
        BY <1>4, <2>1
    <2> QED BY <2>1, <2>2
<1>7. ASSUME NEW k \in 1..n, k + 1 <= n, k \in S PROVE k + 1 \in S
    <2>1. k \in 1..Len(sizes) /\ k + 1 \in 1..n
        BY <1>0, <1>7
    <2>2. at[k + 1] = at[k] + sizes[k] /\ sizes[k] \in Nat /\ at[k] \in Nat
        BY <1>0, <1>6, <1>7, <2>1
    <2> QED BY <2>1, <2>2
<1>8. 1..n \subseteq S
    <2> HIDE DEF S, n
    <2> QED BY <1>0, <1>5, <1>7, Upwards
<1>9. at \in [1..n -> Nat]
    <2>1. \A k \in 1..n : at[k] \in Nat
        <3> HIDE DEF n
        <3> QED BY <1>8
    <2>2. at = [k \in DOMAIN at |-> at[k]]
        BY <1>3
    <2> HIDE DEF n
    <2> QED BY <1>4, <2>1, <2>2
<1> QED BY <1>5, <1>6, <1>9 DEF IsOffsets

\* There is such a place for each.
LEMMA OffsetsThere ==
    ASSUME NEW sizes \in Seq(Nat), NEW from \in Nat
    PROVE  \E at : IsOffsets(at, from, sizes)
<1>1. IsSeq(sizes)
    BY SeqIs
<1>2. PICK at : Recurs(at, from, sizes, Len(sizes) + 1)
    BY <1>1, OffsetsExist
<1> QED BY <1>2, RecursIs

-----------------------------------------------------------------------------
(* Flattening                                                              *)

IsFlat(g, seqs, m) ==
    g = [i \in 1..m |-> IF i = 1 THEN seqs[i] ELSE g[i - 1] \o seqs[i]]

\* The recursion that defines FlattenSeq has a solution.
LEMMA FlatExists ==
    ASSUME NEW seqs, Len(seqs) \in Nat \ {0}
    PROVE  \E g : IsFlat(g, seqs, Len(seqs))
<1> DEFINE n == Len(seqs)
           S == {m \in 1..n : \E g : IsFlat(g, seqs, m)}
<1>1. 1 \in S
    <2>1. IsFlat([i \in 1..1 |-> seqs[i]], seqs, 1)
        BY DEF IsFlat
    <2> QED BY <2>1
<1>2. ASSUME NEW m \in 1..n, m + 1 <= n, m \in S PROVE m + 1 \in S
    <2>1. PICK g : IsFlat(g, seqs, m)
        BY <1>2
    <2> DEFINE h == [i \in 1..(m + 1) |-> IF i = m + 1 THEN g[m] \o seqs[m + 1] ELSE g[i]]
    <2>2. ASSUME NEW i \in 1..(m + 1)
          PROVE  h[i] = IF i = 1 THEN seqs[i] ELSE h[i - 1] \o seqs[i]
        <3>1. CASE i = m + 1
            <4>1. i # 1 /\ i - 1 = m /\ m \in 1..(m + 1) /\ m # m + 1
                BY <3>1
            <4>2. h[i] = g[m] \o seqs[m + 1] /\ h[i - 1] = g[m]
                BY <3>1, <4>1
            <4> HIDE DEF h
            <4> QED BY <3>1, <4>1, <4>2
        <3>2. CASE i # m + 1
            <4>1. i \in 1..m /\ h[i] = g[i]
                BY <3>2
            <4>2. g[i] = IF i = 1 THEN seqs[i] ELSE g[i - 1] \o seqs[i]
                BY <2>1, <4>1 DEF IsFlat
            <4>3. i # 1 => h[i - 1] = g[i - 1]
                BY <4>1
            <4> HIDE DEF h
            <4> QED BY <4>1, <4>2, <4>3
        <3> QED BY <3>1, <3>2
    <2>3. IsFlat(h, seqs, m + 1)
        <3>1. h = [i \in 1..(m + 1) |-> h[i]]
            OBVIOUS
        <3> HIDE DEF h
        <3> QED BY <2>2, <3>1 DEF IsFlat
    <2>4. \E f : IsFlat(f, seqs, m + 1)
        <3> HIDE DEF h
        <3> QED BY <2>3
    <2>5. m + 1 \in 1..n
        BY <1>2
    <2> QED BY <2>4, <2>5
<1>3. 1..n \subseteq S
    <2> HIDE DEF S
    <2> QED BY <1>1, <1>2, Upwards
<1>4. n \in 1..n
    OBVIOUS
<1> QED BY <1>3, <1>4

\* FlattenSeq is the last value of the fold.
LEMMA FlatIs ==
    ASSUME NEW seqs, Len(seqs) \in Nat \ {0}
    PROVE  \E g : IsFlat(g, seqs, Len(seqs)) /\ FlattenSeq(seqs) = g[Len(seqs)]
<1> DEFINE g == CHOOSE flatten : flatten =
                    [i \in 1..Len(seqs) |-> IF i = 1 THEN seqs[i] ELSE flatten[i - 1] \o seqs[i]]
<1>1. \E f : f = [i \in 1..Len(seqs) |-> IF i = 1 THEN seqs[i] ELSE f[i - 1] \o seqs[i]]
    BY FlatExists DEF IsFlat
<1>2. g = [i \in 1..Len(seqs) |-> IF i = 1 THEN seqs[i] ELSE g[i - 1] \o seqs[i]]
    BY <1>1
<1>3. FlattenSeq(seqs) = g[Len(seqs)]
    BY DEF FlattenSeq
<1> HIDE DEF g
<1> QED BY <1>2, <1>3 DEF IsFlat

\* t is in s behind the first o elements.
Holds(s, o, t) ==
    /\ o + Len(t) <= Len(s)
    /\ \A i \in 1..Len(t) : s[o + i] = t[i]

Sizes(parts) == [k \in DOMAIN parts |-> Len(parts[k])]

Parts(parts) == IsSeq(parts) /\ \A k \in 1..Len(parts) : IsSeq(parts[k])

\* What Sizes has.
LEMMA SizesAre ==
    ASSUME NEW parts, Parts(parts)
    PROVE  /\ Sizes(parts) \in Seq(Nat) /\ Len(Sizes(parts)) = Len(parts)
           /\ Len(parts) \in Nat /\ DOMAIN parts = 1..Len(parts)
           /\ \A k \in 1..Len(parts) : Sizes(parts)[k] = Len(parts[k]) /\ Len(parts[k]) \in Nat
<1> DEFINE n == Len(parts)
           z == Sizes(parts)
<1>1. n \in Nat /\ DOMAIN parts = 1..n
    BY SeqHas DEF Parts
<1>2. \A k \in 1..n : Len(parts[k]) \in Nat
    BY SeqHas DEF Parts
<1>3. z = [k \in 1..n |-> Len(parts[k])]
    BY <1>1 DEF Sizes
<1>4. z \in [1..n -> Nat] /\ \A k \in 1..n : z[k] = Len(parts[k])
    BY <1>2, <1>3
<1> HIDE DEF z
<1>5. z \in Seq(Nat)
    BY <1>1, <1>4
<1>6. DOMAIN z = 1..n /\ DOMAIN z = 1..Len(z) /\ Len(z) \in Nat
    BY <1>4, <1>5, LenProperties
<1>7. Len(z) = n
    <2> HIDE DEF n
    <2> QED BY <1>1, <1>6
<1> QED BY <1>1, <1>2, <1>4, <1>5, <1>7 DEF z

\* What the first m parts become when they are joined.
FlatOK(f, a, at, parts, m) ==
    /\ IsSeq(f)
    /\ a + Len(f) = at[m + 1]
    /\ \A k \in 1..m : at[k] >= a /\ Holds(f, at[k] - a, parts[k])

\* One more part joins those before it.
LEMMA FlatGrows ==
    ASSUME NEW parts, Parts(parts), NEW a \in Nat, NEW at, IsOffsets(at, a, Sizes(parts)),
           NEW m \in Nat, m + 1 <= Len(parts), NEW f, FlatOK(f, a, at, parts, m)
    PROVE  FlatOK(f \o parts[m + 1], a, at, parts, m + 1)
<1> DEFINE n == Len(parts)
           t == parts[m + 1]
           g == f \o t
<1>1. n \in Nat /\ m + 1 \in 1..n /\ Sizes(parts)[m + 1] = Len(t) /\ Len(t) \in Nat
      /\ Len(Sizes(parts)) = n
    BY SizesAre
<1>2. IsSeq(f) /\ IsSeq(t)
    BY <1>1 DEF FlatOK, Parts
<1> HIDE DEF t
<1>3. /\ IsSeq(g) /\ Len(g) = Len(f) + Len(t)
      /\ \A i \in 1..Len(f) : g[i] = f[i]
      /\ \A i \in 1..Len(t) : g[Len(f) + i] = t[i]
    BY <1>2, Joined
<1> HIDE DEF g
<1>4. Len(f) \in Nat /\ Len(t) \in Nat
    BY <1>2, SeqHas
<1>5. at[m + 1 + 1] = at[m + 1] + Len(t) /\ at[m + 1] = a + Len(f)
    BY <1>1 DEF IsOffsets, FlatOK
<1>6. a + Len(g) = at[m + 1 + 1]
    BY <1>3, <1>4, <1>5
<1>7. ASSUME NEW k \in 1..(m + 1) PROVE at[k] >= a /\ Holds(g, at[k] - a, parts[k])
    <2>0. at[k] \in Nat /\ Len(parts[k]) \in Nat
        <3>1. k \in 1..n /\ k \in 1..(n + 1)
            BY <1>1
        <3>2. Len(parts[k]) \in Nat
            BY <3>1, SizesAre
        <3>3. at[k] \in Nat
            BY <1>1, <3>1 DEF IsOffsets
        <3> QED BY <3>2, <3>3
    <2>1. CASE k = m + 1
        <3>1. at[k] >= a /\ at[k] - a = Len(f) /\ parts[k] = t
            BY <1>4, <1>5, <2>1 DEF t
        <3>2. Holds(g, Len(f), t)
            BY <1>3, <1>4 DEF Holds
        <3> QED BY <3>1, <3>2
    <2>2. CASE k # m + 1
        <3>1. k \in 1..m
            BY <2>2
        <3>2. at[k] >= a /\ Holds(f, at[k] - a, parts[k])
            BY <3>1 DEF FlatOK
        <3> DEFINE o == at[k] - a
                   p == parts[k]
        <3>3. o \in Nat /\ Len(p) \in Nat
            BY <2>0, <3>2
        <3>4. Holds(f, o, p)
            BY <3>2
        <3> HIDE DEF o, p
        <3>5. Holds(g, o, p)
            <4>1. o + Len(p) <= Len(f) /\ o + Len(p) <= Len(g)
                BY <1>3, <1>4, <3>3, <3>4 DEF Holds
            <4>2. ASSUME NEW i \in 1..Len(p) PROVE g[o + i] = p[i]
                <5>1. o + i \in 1..Len(f)
                    BY <1>4, <3>3, <4>1
                <5>2. f[o + i] = p[i]
                    BY <3>4 DEF Holds
                <5> QED BY <1>3, <5>1, <5>2
            <4> QED BY <4>1, <4>2 DEF Holds
        <3> QED BY <3>2, <3>5 DEF o, p
    <2> QED BY <2>1, <2>2
<1> QED BY <1>3, <1>6, <1>7 DEF FlatOK, g, t

\* Joined, the parts follow one another at their offsets.
LEMMA FlatHolds ==
    ASSUME NEW parts, Parts(parts), NEW a \in Nat, NEW at, IsOffsets(at, a, Sizes(parts))
    PROVE  FlatOK(FlattenSeq(parts), a, at, parts, Len(parts))
<1> DEFINE n == Len(parts)
<1>1. n \in Nat /\ IsSeq(parts) /\ \A k \in 1..n : IsSeq(parts[k])
    BY SeqHas DEF Parts
<1>2. FlatOK(<<>>, a, at, parts, 0)
    <2>1. at[1] = a
        BY DEF IsOffsets
    <2> QED BY <2>1, EmptyIs DEF FlatOK
<1>3. CASE n = 0
    <2>1. FlattenSeq(parts) = parts
        BY <1>3 DEF FlattenSeq
    <2>2. parts = <<>>
        BY <1>1, <1>3, EmptyIs, SameSeq
    <2> QED BY <1>2, <1>3, <2>1, <2>2
<1>4. CASE n # 0
    <2>1. PICK g : IsFlat(g, parts, n) /\ FlattenSeq(parts) = g[n]
        BY <1>1, <1>4, FlatIs
    <2> DEFINE S == {i \in 1..n : FlatOK(g[i], a, at, parts, i)}
    <2>2. 1 \in S
        <3>1. g[1] = parts[1]
            BY <1>1, <1>4, <2>1 DEF IsFlat
        <3>2. IsSeq(parts[1]) /\ 0 + 1 <= Len(parts)
            BY <1>1, <1>4
        <3>3. <<>> \o parts[0 + 1] = parts[1]
            BY <3>2, ConcatEmptySeq DEF IsSeq
        <3>4. FlatOK(<<>> \o parts[0 + 1], a, at, parts, 0 + 1)
            BY <1>2, <3>2, FlatGrows
        <3>5. 0 + 1 = 1
            OBVIOUS
        <3>6. FlatOK(parts[1], a, at, parts, 1)
            BY <3>3, <3>4, <3>5
        <3>7. 1 \in 1..n
            BY <1>1, <1>4
        <3> QED BY <3>1, <3>6, <3>7
    <2>3. ASSUME NEW i \in 1..n, i + 1 <= n, i \in S PROVE i + 1 \in S
        <3>2. i \in Nat /\ i + 1 # 1 /\ i + 1 - 1 = i /\ i + 1 \in 1..n
            BY <1>1, <2>3
        <3>3. g[i + 1] = g[i] \o parts[i + 1]
            <4> HIDE DEF n
            <4>2. g = [k \in 1..n |-> IF k = 1 THEN parts[k] ELSE g[k - 1] \o parts[k]]
                BY <2>1 DEF IsFlat
            <4> DEFINE h == [k \in 1..n |-> IF k = 1 THEN parts[k] ELSE g[k - 1] \o parts[k]]
            <4>3. h[i + 1] = IF i + 1 = 1 THEN parts[i + 1] ELSE g[i + 1 - 1] \o parts[i + 1]
                <5>1. i + 1 \in 1..n
                    BY <3>2
                <5> QED BY <5>1
            <4>4. g[i + 1] = h[i + 1]
                BY <4>2
            <4> HIDE DEF h
            <4> QED BY <3>2, <4>3, <4>4
        <3>4. FlatOK(g[i] \o parts[i + 1], a, at, parts, i + 1)
            BY <2>3, <3>2, FlatGrows
        <3> QED BY <3>2, <3>3, <3>4
    <2>4. n \in S
        <3>1. 1..n \subseteq S
            <4> HIDE DEF S, n
            <4> QED BY <1>1, <2>2, <2>3, Upwards
        <3>2. n \in 1..n
            BY <1>1, <1>4
        <3> HIDE DEF S, n
        <3> QED BY <3>1, <3>2
    <2> QED BY <2>1, <2>4
<1> QED BY <1>3, <1>4

\* What holds the parts one behind the other, and nothing else, is their join.
LEMMA FlatOnly ==
    ASSUME NEW parts, Parts(parts), NEW at, IsOffsets(at, 0, Sizes(parts)),
           NEW d, IsSeq(d), Len(d) = at[Len(parts) + 1],
           \A k \in 1..Len(parts) : Holds(d, at[k], parts[k])
    PROVE  FlattenSeq(parts) = d
<1> DEFINE n == Len(parts)
           f == FlattenSeq(parts)
<1>1. FlatOK(f, 0, at, parts, n)
    BY FlatHolds
<1>2. /\ n \in Nat /\ Len(Sizes(parts)) = n
      /\ \A k \in 1..n : Sizes(parts)[k] = Len(parts[k])
      /\ \A k \in 1..n : Len(parts[k]) \in Nat
    BY SizesAre
<1> HIDE DEF f
<1>3. /\ \A k \in 1..n + 1 : at[k] \in Nat
      /\ at[1] = 0
      /\ \A k \in 1..n : at[k + 1] = at[k] + Len(parts[k])
    BY <1>2 DEF IsOffsets
<1>4. IsSeq(f) /\ 0 + Len(f) = at[n + 1] /\ \A k \in 1..n : Holds(f, at[k] - 0, parts[k])
    BY <1>1 DEF FlatOK
<1>5. Len(f) = Len(d)
    <2>1. Len(f) \in Nat
        BY <1>4, SeqHas
    <2> QED BY <1>4, <2>1
<1> DEFINE S == {m \in 1..n : \A i \in 1..at[m + 1] : f[i] = d[i]}
<1>6. ASSUME NEW k \in 1..n, NEW i \in 1..at[k + 1], ~(i <= at[k])
      PROVE  f[i] = d[i]
    <2>1. at[k] \in Nat /\ Len(parts[k]) \in Nat /\ at[k + 1] = at[k] + Len(parts[k])
        BY <1>2, <1>3
    <2> DEFINE j == i - at[k]
    <2>2. j \in 1..Len(parts[k]) /\ at[k] - 0 = at[k] /\ at[k] + j = i
        BY <1>6, <2>1
    <2>3. Holds(f, at[k], parts[k]) /\ Holds(d, at[k], parts[k])
        BY <1>4, <2>2
    <2> HIDE DEF j
    <2>4. f[at[k] + j] = parts[k][j] /\ d[at[k] + j] = parts[k][j]
        BY <2>2, <2>3 DEF Holds
    <2> QED BY <2>2, <2>4
<1>7. n > 0 => 1 \in S
    <2>1. at[1] = 0 /\ \A i \in 1..at[2] : ~(i <= 0)
        BY <1>3
    <2>2. n > 0 => 1 \in 1..n /\ 1 + 1 = 2
        BY <1>2
    <2> HIDE DEF n
    <2> QED BY <1>6, <2>1, <2>2
<1>8. ASSUME NEW m \in 1..n, m + 1 <= n, m \in S PROVE m + 1 \in S
    <2>1. m + 1 \in 1..n
        BY <1>2, <1>8
    <2>2. ASSUME NEW i \in 1..at[m + 1 + 1] PROVE f[i] = d[i]
        <3>1. CASE i <= at[m + 1]
            <4>1. m + 1 \in 1..n + 1
                BY <1>2, <2>1
            <4>2. at[m + 1] \in Nat
                BY <1>3, <4>1
            <4>3. m + 1 + 1 \in 1..n + 1
                BY <1>2, <2>1
            <4>4. at[m + 1 + 1] \in Nat
                BY <1>3, <4>3
            <4>5. i \in 1..at[m + 1]
                BY <3>1, <4>2, <4>4
            <4> QED BY <1>8, <4>5
        <3>2. CASE ~(i <= at[m + 1])
            BY <1>6, <2>1, <3>2
        <3> QED BY <3>1, <3>2
    <2> QED BY <2>1, <2>2
<1>9. 1..n \subseteq S
    <2> HIDE DEF S, n
    <2> QED BY <1>2, <1>7, <1>8, Upwards
<1>10. \A i \in 1..Len(f) : f[i] = d[i]
    <2>1. CASE n = 0
        <3>1. Len(f) = 0
            BY <1>3, <1>5, <2>1
        <3> QED BY <3>1
    <2>2. CASE n # 0
        <3>1. n \in 1..n
            BY <1>2, <2>2
        <3>2. n \in S
            <4> HIDE DEF S, n
            <4> QED BY <1>9, <3>1
        <3> QED BY <1>5, <3>2
    <2> QED BY <2>1, <2>2
<1>11. f = d
    BY <1>4, <1>5, <1>10, SameSeq
<1> QED BY <1>11 DEF f

\* Appended to something, they are there behind it.
FollowOn(all, s, parts, at) ==
    /\ IsSeq(all) /\ Len(all) = at[Len(parts) + 1] /\ Len(s) <= Len(all)
    /\ \A i \in 1..Len(s) : all[i] = s[i]
    /\ \A k \in 1..Len(parts) : at[k] \in Nat /\ Holds(all, at[k], parts[k])

LEMMA Laid ==
    ASSUME NEW s, IsSeq(s), NEW parts, Parts(parts), NEW at, IsOffsets(at, Len(s), Sizes(parts))
    PROVE  FollowOn(s \o FlattenSeq(parts), s, parts, at)
<1>0. PICK all : all = s \o FlattenSeq(parts)
    OBVIOUS
<1> DEFINE a == Len(s)
           f == FlattenSeq(parts)
           n == Len(parts)
<1>1. a \in Nat
    BY SeqHas
<1>2. FlatOK(f, a, at, parts, n)
    BY <1>1, FlatHolds
<1> HIDE DEF f
<1>3. /\ IsSeq(all) /\ Len(all) = a + Len(f)
      /\ \A i \in 1..a : all[i] = s[i]
      /\ \A i \in 1..Len(f) : all[a + i] = f[i]
    <2>1. IsSeq(f)
        BY <1>2 DEF FlatOK
    <2> QED BY <2>1, <1>0, Joined DEF f
<1>4. Len(f) \in Nat /\ a + Len(f) = at[n + 1]
    <2>1. IsSeq(f) /\ a + Len(f) = at[n + 1]
        BY <1>2 DEF FlatOK
    <2> QED BY <2>1, SeqHas
<1>5. ASSUME NEW k \in 1..n PROVE at[k] \in Nat /\ Holds(all, at[k], parts[k])
    <2>1. n \in Nat /\ Len(Sizes(parts)) = n /\ Len(parts[k]) \in Nat
        BY SizesAre
    <2>2. at[k] \in Nat
        <3>1. k \in 1..(n + 1)
            BY <2>1
        <3> QED BY <2>1, <3>1 DEF IsOffsets
    <2>3. at[k] >= a /\ Holds(f, at[k] - a, parts[k])
        BY <1>2 DEF FlatOK
    <2> DEFINE o == at[k]
               p == parts[k]
    <2>4. o \in Nat /\ o >= a /\ Len(p) \in Nat /\ Holds(f, o - a, p)
        BY <2>1, <2>2, <2>3
    <2> HIDE DEF o, p, a
    <2>5. o - a + Len(p) <= Len(f)
        BY <2>4 DEF Holds
    <2>6. o + Len(p) <= Len(all)
        BY <1>1, <1>3, <1>4, <2>4, <2>5
    <2>7. ASSUME NEW i \in 1..Len(p) PROVE all[o + i] = p[i]
        <3> DEFINE j == o - a + i
        <3>1. j \in 1..Len(f) /\ a + j = o + i
            BY <1>1, <1>4, <2>4, <2>5
        <3>2. f[j] = p[i]
            BY <2>4 DEF Holds
        <3> HIDE DEF j
        <3>3. all[a + j] = f[j]
            BY <1>3, <3>1
        <3> QED BY <3>1, <3>2, <3>3
    <2>8. Holds(all, o, p)
        BY <2>6, <2>7 DEF Holds
    <2> QED BY <2>2, <2>8 DEF o, p
<1>6. FollowOn(all, s, parts, at)
    BY <1>1, <1>3, <1>4, <1>5 DEF FollowOn
<1> QED BY <1>0, <1>6

-----------------------------------------------------------------------------
(* Elements                                                                *)

Elements(s) == {s[i] : i \in 1..Len(s)}

Distinct(s) == \A i, j \in 1..Len(s) : s[i] = s[j] => i = j

\* What is in s \o t is in one of them; no element is in it twice if none is in
\* either and none in both.
LEMMA ElementsJoin ==
    ASSUME NEW s, IsSeq(s), NEW t, IsSeq(t)
    PROVE  /\ Elements(s \o t) = Elements(s) \cup Elements(t)
           /\ Distinct(s) /\ Distinct(t) /\ Elements(s) \cap Elements(t) = {} => Distinct(s \o t)
<1>0. PICK u : u = s \o t
    OBVIOUS
<1>1. /\ Len(u) = Len(s) + Len(t) /\ Len(s) \in Nat /\ Len(t) \in Nat
      /\ \A i \in 1..Len(s) : u[i] = s[i]
      /\ \A i \in 1..Len(t) : u[Len(s) + i] = t[i]
    BY <1>0, Joined, SeqHas
<1> DEFINE m == Len(s)
           n == Len(t)
<1>2. m \in Nat /\ n \in Nat /\ Len(u) = m + n
    BY <1>1
<1>3. \A i \in 1..(m + n) : i \in 1..m \/ (i - m \in 1..n /\ m + (i - m) = i)
    BY <1>2
<1>4. ASSUME NEW i \in 1..(m + n), i \notin 1..m
      PROVE  i - m \in 1..n /\ u[i] = t[i - m]
    <2>1. i - m \in 1..n /\ m + (i - m) = i
        BY <1>3, <1>4
    <2>2. u[m + (i - m)] = t[i - m]
        BY <1>1, <2>1
    <2> QED BY <2>1, <2>2
<1>5. Elements(u) = Elements(s) \cup Elements(t)
    <2>1. ASSUME NEW x \in Elements(u) PROVE x \in Elements(s) \cup Elements(t)
        <3>1. PICK i \in 1..(m + n) : x = u[i]
            BY <1>2 DEF Elements
        <3>2. CASE i \in 1..m
            BY <1>1, <3>1, <3>2 DEF Elements
        <3>3. CASE i \notin 1..m
            BY <1>4, <3>1, <3>3 DEF Elements
        <3> QED BY <3>2, <3>3
    <2>2. ASSUME NEW x \in Elements(s) PROVE x \in Elements(u)
        <3>1. PICK i \in 1..m : x = s[i]
            BY DEF Elements
        <3>2. i \in 1..Len(u) /\ u[i] = x
            BY <1>1, <3>1
        <3> QED BY <3>2 DEF Elements
    <2>3. ASSUME NEW x \in Elements(t) PROVE x \in Elements(u)
        <3>1. PICK i \in 1..n : x = t[i]
            BY DEF Elements
        <3>2. m + i \in 1..Len(u) /\ u[m + i] = x
            BY <1>1, <3>1
        <3> QED BY <3>2 DEF Elements
    <2> QED BY <2>1, <2>2, <2>3
<1>6. ASSUME Distinct(s), Distinct(t), Elements(s) \cap Elements(t) = {}
      PROVE  Distinct(u)
    <2> SUFFICES ASSUME NEW i \in 1..(m + n), NEW j \in 1..(m + n), u[i] = u[j] PROVE i = j
        BY <1>2 DEF Distinct
    <2>1. CASE i \in 1..m /\ j \in 1..m
        BY <1>1, <1>6, <2>1 DEF Distinct
    <2>2. CASE i \notin 1..m /\ j \notin 1..m
        <3>1. /\ i - m \in 1..n /\ j - m \in 1..n
              /\ t[i - m] = t[j - m]
            BY <1>4, <2>2
        <3>2. i - m = j - m
            BY <1>6, <3>1 DEF Distinct
        <3> QED BY <1>2, <3>2
    <2>3. CASE i \in 1..m /\ j \notin 1..m
        <3>1. u[i] \in Elements(s)
            BY <1>1, <2>3 DEF Elements
        <3>2. u[j] \in Elements(t)
            BY <1>4, <2>3 DEF Elements
        <3> QED BY <1>6, <3>1, <3>2
    <2>4. CASE i \notin 1..m /\ j \in 1..m
        <3>1. u[j] \in Elements(s)
            BY <1>1, <2>4 DEF Elements
        <3>2. u[i] \in Elements(t)
            BY <1>4, <2>4 DEF Elements
        <3> QED BY <1>6, <3>1, <3>2
    <2> QED BY <2>1, <2>2, <2>3, <2>4
<1> QED BY <1>0, <1>5, <1>6

\* No element is in two of the parts, and in none twice.
Apart(parts) ==
    /\ \A k \in 1..Len(parts) : Distinct(parts[k])
    /\ \A k, l \in 1..Len(parts) : k # l => Elements(parts[k]) \cap Elements(parts[l]) = {}

InFirst(parts, m) == UNION {Elements(parts[k]) : k \in 1..m}

Gathers(f, parts, m) ==
    /\ IsSeq(f) /\ Elements(f) = InFirst(parts, m)
    /\ Apart(parts) => Distinct(f)

\* One more part brings its elements.
LEMMA GathersMore ==
    ASSUME NEW parts, Parts(parts), NEW m \in Nat, m + 1 <= Len(parts),
           NEW f, Gathers(f, parts, m)
    PROVE  Gathers(f \o parts[m + 1], parts, m + 1)
<1>1. Len(parts) \in Nat /\ m + 1 \in 1..Len(parts)
    BY SeqHas DEF Parts
<1>2. IsSeq(f) /\ IsSeq(parts[m + 1])
    BY <1>1 DEF Parts, Gathers
<1>3. IsSeq(f \o parts[m + 1])
    BY <1>2, Joined
<1>4. InFirst(parts, m + 1) = InFirst(parts, m) \cup Elements(parts[m + 1])
    <2>1. 1..(m + 1) = 1..m \cup {m + 1}
        OBVIOUS
    <2> QED BY <2>1 DEF InFirst
<1>5. Elements(f \o parts[m + 1]) = InFirst(parts, m + 1)
    BY <1>2, <1>4, ElementsJoin DEF Gathers
<1>6. ASSUME Apart(parts) PROVE Distinct(f \o parts[m + 1])
    <2>1. Distinct(f) /\ Distinct(parts[m + 1])
        BY <1>1, <1>6 DEF Gathers, Apart
    <2>2. ASSUME NEW x \in Elements(f), x \in Elements(parts[m + 1]) PROVE FALSE
        <3>1. PICK k \in 1..m : x \in Elements(parts[k])
            BY DEF Gathers, InFirst
        <3>2. k \in 1..Len(parts) /\ k # m + 1
            BY <1>1
        <3>3. Elements(parts[k]) \cap Elements(parts[m + 1]) = {}
            BY <1>1, <1>6, <3>2 DEF Apart
        <3> QED BY <2>2, <3>1, <3>3
    <2>3. Elements(f) \cap Elements(parts[m + 1]) = {}
        BY <2>2
    <2> QED BY <1>2, <2>1, <2>3, ElementsJoin
<1> QED BY <1>3, <1>5, <1>6 DEF Gathers

\* Joined, the parts have the elements they had.
LEMMA FlatGathers ==
    ASSUME NEW parts, Parts(parts)
    PROVE  Gathers(FlattenSeq(parts), parts, Len(parts))
<1> DEFINE n == Len(parts)
<1>1. n \in Nat /\ IsSeq(parts) /\ \A k \in 1..n : IsSeq(parts[k])
    BY SeqHas DEF Parts
<1>2. Gathers(<<>>, parts, 0)
    <2>1. 1..0 = {}
        OBVIOUS
    <2>2. IsSeq(<<>>) /\ 1..Len(<<>>) = {}
        BY <2>1, EmptyIs
    <2>3. Elements(<<>>) = {} /\ Distinct(<<>>) /\ InFirst(parts, 0) = {}
        BY <2>1, <2>2 DEF Elements, Distinct, InFirst
    <2> QED BY <2>2, <2>3 DEF Gathers
<1>3. CASE n = 0
    <2>1. FlattenSeq(parts) = parts
        BY <1>3 DEF FlattenSeq
    <2>2. parts = <<>>
        BY <1>1, <1>3, EmptyIs, SameSeq
    <2> QED BY <1>2, <1>3, <2>1, <2>2
<1>4. CASE n # 0
    <2>1. PICK g : IsFlat(g, parts, n) /\ FlattenSeq(parts) = g[n]
        BY <1>1, <1>4, FlatIs
    <2> DEFINE S == {i \in 1..n : Gathers(g[i], parts, i)}
    <2>2. 1 \in S
        <3>1. g[1] = parts[1]
            BY <1>1, <1>4, <2>1 DEF IsFlat
        <3>2. IsSeq(parts[1]) /\ 0 + 1 <= Len(parts)
            BY <1>1, <1>4
        <3>3. <<>> \o parts[0 + 1] = parts[1]
            BY <3>2, ConcatEmptySeq DEF IsSeq
        <3>4. Gathers(<<>> \o parts[0 + 1], parts, 0 + 1)
            BY <1>2, <3>2, GathersMore
        <3>5. 0 + 1 = 1
            OBVIOUS
        <3>6. Gathers(parts[1], parts, 1)
            BY <3>3, <3>4, <3>5
        <3>7. 1 \in 1..n
            BY <1>1, <1>4
        <3> QED BY <3>1, <3>6, <3>7
    <2>3. ASSUME NEW i \in 1..n, i + 1 <= n, i \in S PROVE i + 1 \in S
        <3>2. i \in Nat /\ i + 1 # 1 /\ i + 1 - 1 = i /\ i + 1 \in 1..n
            BY <1>1, <2>3
        <3>3. g[i + 1] = g[i] \o parts[i + 1]
            <4> HIDE DEF n
            <4>2. g = [k \in 1..n |-> IF k = 1 THEN parts[k] ELSE g[k - 1] \o parts[k]]
                BY <2>1 DEF IsFlat
            <4> DEFINE h == [k \in 1..n |-> IF k = 1 THEN parts[k] ELSE g[k - 1] \o parts[k]]
            <4>3. h[i + 1] = IF i + 1 = 1 THEN parts[i + 1] ELSE g[i + 1 - 1] \o parts[i + 1]
                <5>1. i + 1 \in 1..n
                    BY <3>2
                <5> QED BY <5>1
            <4>4. g[i + 1] = h[i + 1]
                BY <4>2
            <4> HIDE DEF h
            <4> QED BY <3>2, <4>3, <4>4
        <3>4. Gathers(g[i] \o parts[i + 1], parts, i + 1)
            BY <2>3, <3>2, GathersMore
        <3> QED BY <3>2, <3>3, <3>4
    <2>4. n \in S
        <3>1. 1..n \subseteq S
            <4> HIDE DEF S, n
            <4> QED BY <1>1, <2>2, <2>3, Upwards
        <3>2. n \in 1..n
            BY <1>1, <1>4
        <3> HIDE DEF S, n
        <3> QED BY <3>1, <3>2
    <2> QED BY <2>1, <2>4
<1> QED BY <1>3, <1>4
=============================================================================
