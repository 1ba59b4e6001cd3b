--------------------------- MODULE FilePoolProofs ---------------------------
(***************************************************************************)
(* FilePool for any set of threads and any limit: the handle limit, the    *)
(* conservation of handles, the absence of lost wakeups, and the           *)
(* refinement of HandleLending.                                            *)
(***************************************************************************)
EXTENDS FilePool, FiniteSetTheorems, SequenceTheorems, TLAPS

USE ThreadsFinite, MaxHandlesPositive, NoHandleIsNone, MaxReadsIsNat

\* The strengthening that makes NoLostWakeup and HandlesConserved inductive is
\* their conjunction with TypeOK: a parked thread bounds active_count from
\* below, and the deque holds only handles that were opened.
IInv == TypeOK /\ HandlesConserved /\ NoLostWakeup

\* The set of notified threads is finite, so its cardinality is a number.
LEMMA WokenFinite ==
    ASSUME TypeOK
    PROVE  /\ IsFiniteSet(Woken)
           /\ Cardinality(Woken) \in Nat
<1>1. Woken \in SUBSET Threads
    BY DEF Woken
<1>2. IsFiniteSet(Woken)
    BY <1>1, FS_Subset
<1> QED BY <1>2, FS_CardinalityType

\* The invariant holds of the empty pool.
LEMMA InitIInv == Init => IInv
<1> SUFFICES ASSUME Init PROVE IInv
    OBVIOUS
<1>1. TypeOK
    BY DEF Init, TypeOK
<1>2. HandlesConserved
    BY DEF Init, HandlesConserved, Idle, Held
<1>3. NoLostWakeup
    BY DEF Init, NoLostWakeup, Parked
<1> QED BY <1>1, <1>2, <1>3 DEF IInv

\* Taking the oldest idle handle keeps the invariant.
LEMMA PopAvailableIInv ==
    ASSUME IInv, NEW t \in Threads, PopAvailable(t)
    PROVE  IInv'
<1> USE DEF IInv
<1>1. /\ Head(available_files) \in 1..MaxHandles
      /\ Tail(available_files) \in Seq(1..MaxHandles)
      /\ Len(Tail(available_files)) = Len(available_files) - 1
      /\ \A i \in 1..Len(Tail(available_files)) :
            Tail(available_files)[i] = available_files[i + 1]
      /\ Head(available_files) = available_files[1]
      /\ Len(available_files) \in Nat \ {0}
    BY HeadTailProperties DEF TypeOK, PopAvailable
<1>2. held[t] = NoHandle
    BY DEF PopAvailable, Ready, HandlesConserved
<1>3. TypeOK'
    BY <1>1 DEF TypeOK, PopAvailable, Ready
<1>4. HandlesConserved'
    <2> DEFINE h == Head(available_files)
    <2>1. Idle' = Idle \ {h}
        <3>1. ASSUME NEW x \in Idle' PROVE x \in Idle \ {h}
            <4>1. PICK i \in 1..Len(Tail(available_files)) :
                        x = Tail(available_files)[i]
                BY DEF Idle, PopAvailable
            <4>2. i + 1 \in 1..Len(available_files) /\ x = available_files[i + 1]
                BY <1>1, <4>1
            <4>3. x # available_files[1]
                BY <1>1, <4>2 DEF HandlesConserved
            <4> QED BY <1>1, <4>2, <4>3 DEF Idle
        <3>2. ASSUME NEW x \in Idle \ {h} PROVE x \in Idle'
            <4>1. PICK i \in 1..Len(available_files) : x = available_files[i]
                BY DEF Idle
            <4> HIDE DEF h
            <4>2. i - 1 \in 1..Len(Tail(available_files)) /\ (i - 1) + 1 = i
                <5>1. i # 1
                    BY <1>1, <4>1 DEF h
                <5> QED BY <1>1, <5>1
            <4>3. Tail(available_files)[i - 1] = available_files[(i - 1) + 1]
                BY <1>1, <4>2
            <4>4. x = Tail(available_files)[i - 1]
                BY <4>1, <4>2, <4>3
            <4> QED BY <4>2, <4>4 DEF Idle, PopAvailable
        <3> QED BY <3>1, <3>2
    <2>2. Held' = Held \cup {h}
        BY <1>1, <1>2 DEF Held, PopAvailable, TypeOK
    <2>3. h \in Idle
        BY <1>1 DEF Idle
    <2>4. (Idle \cup Held = 1..active_count)' /\ (Idle \cap Held = {})'
        BY <2>1, <2>2, <2>3 DEF HandlesConserved, PopAvailable
    <2>5. \A i, j \in 1..Len(available_files') :
            available_files'[i] = available_files'[j] => i = j
        BY <1>1 DEF HandlesConserved, PopAvailable
    <2>6. \A s, u \in Threads :
            held'[s] = held'[u] /\ held'[s] # NoHandle => s = u
        BY <2>3, <1>1 DEF HandlesConserved, PopAvailable, TypeOK, Held
    <2>7. \A s \in Threads : pc'[s] = "holding" <=> held'[s] # NoHandle
        BY <1>1 DEF HandlesConserved, PopAvailable, TypeOK
    <2> QED BY <2>4, <2>5, <2>6, <2>7 DEF HandlesConserved
<1>5. NoLostWakeup'
    <2>1. Parked' = Parked \ {t} /\ Woken' = Woken \ {t}
        BY DEF Parked, Woken, PopAvailable, TypeOK
    <2>2. Cardinality(Woken') \in Nat /\ Cardinality(Woken') >= Cardinality(Woken) - 1
        <3>1. IsFiniteSet(Woken) /\ Cardinality(Woken) \in Nat
            BY WokenFinite
        <3>2. Cardinality(Woken \ {t}) = IF t \in Woken THEN Cardinality(Woken) - 1
                                         ELSE Cardinality(Woken)
            BY <3>1, FS_RemoveElement
        <3>3. IsFiniteSet(Woken \ {t}) /\ Cardinality(Woken \ {t}) \in Nat
            BY <3>1, FS_RemoveElement, FS_CardinalityType
        <3> QED BY <2>1, <3>1, <3>2, <3>3
    <2>3. Len(available_files') = Len(available_files) - 1
        BY <1>1 DEF PopAvailable
    <2>4. active_count' = active_count
        BY DEF PopAvailable
    <2>5. Cardinality(Woken) \in Nat
        BY WokenFinite
    <2> QED BY <1>1, <2>1, <2>2, <2>3, <2>4, <2>5 DEF NoLostWakeup
<1> QED BY <1>3, <1>4, <1>5

\* Opening one more handle keeps the invariant: nobody can be parked yet.
LEMMA OpenNewIInv ==
    ASSUME IInv, NEW t \in Threads, OpenNew(t)
    PROVE  IInv'
<1> USE DEF IInv
<1>1. held[t] = NoHandle
    BY DEF OpenNew, Ready, HandlesConserved
<1>2. TypeOK'
    BY DEF TypeOK, OpenNew, Ready
<1>3. HandlesConserved'
    <2>1. Idle' = Idle
        BY DEF Idle, OpenNew
    <2>2. Held' = Held \cup {active_count + 1}
        BY <1>1 DEF Held, OpenNew, TypeOK
    <2>3. (Idle \cup Held = 1..active_count)' /\ (Idle \cap Held = {})'
        BY <2>1, <2>2 DEF HandlesConserved, OpenNew, TypeOK
    <2>4. \A s, u \in Threads :
            held'[s] = held'[u] /\ held'[s] # NoHandle => s = u
        <3>1. \A s \in Threads : held[s] # active_count + 1
            BY NoHandleIsNone DEF HandlesConserved, TypeOK, Held
        <3>2. \A s \in Threads :
                held'[s] = IF s = t THEN active_count + 1 ELSE held[s]
            BY DEF OpenNew, TypeOK
        <3> QED BY <3>1, <3>2 DEF HandlesConserved
    <2>5. \A s \in Threads : pc'[s] = "holding" <=> held'[s] # NoHandle
        BY DEF HandlesConserved, OpenNew, TypeOK
    <2> QED BY <2>3, <2>4, <2>5 DEF HandlesConserved, OpenNew
<1>4. NoLostWakeup'
    <2>1. Parked = {}
        BY DEF NoLostWakeup, OpenNew, TypeOK
    <2>2. Parked' = {}
        BY <2>1 DEF Parked, OpenNew, TypeOK
    <2> QED BY <2>2 DEF NoLostWakeup
<1> QED BY <1>2, <1>3, <1>4

\* A failed open changes nothing in the pool.
LEMMA OpenFailsIInv ==
    ASSUME IInv, NEW t \in Threads, OpenFails(t)
    PROVE  IInv'
<1> USE DEF IInv
<1>1. TypeOK'
    BY DEF TypeOK, OpenFails, Ready
<1>2. HandlesConserved'
    BY DEF HandlesConserved, OpenFails, Ready, TypeOK, Idle, Held
<1>3. NoLostWakeup'
    <2>1. Parked = {}
        BY DEF NoLostWakeup, OpenFails, TypeOK
    <2>2. Parked' = {}
        BY <2>1 DEF Parked, OpenFails, TypeOK
    <2> QED BY <2>2 DEF NoLostWakeup
<1> QED BY <1>1, <1>2, <1>3

\* Parking happens only with an empty deque and no room for another handle.
LEMMA ParkIInv ==
    ASSUME IInv, NEW t \in Threads, Park(t)
    PROVE  IInv'
<1> USE DEF IInv
<1>1. TypeOK'
    BY DEF TypeOK, Park, Ready
<1>2. HandlesConserved'
    BY DEF HandlesConserved, Park, Ready, TypeOK, Idle, Held
<1>3. NoLostWakeup'
    <2>1. active_count' = MaxHandles /\ Len(available_files') = 0
        BY DEF Park, TypeOK
    <2>2. Cardinality(Woken') \in Nat
        <3>1. Woken' \in SUBSET Threads
            BY DEF Woken
        <3> QED BY <3>1, FS_Subset, FS_CardinalityType
    <2> QED BY <2>1, <2>2 DEF NoLostWakeup
<1> QED BY <1>1, <1>2, <1>3

\* Dropping a handle makes it idle and, if a thread is parked, wakes one.
LEMMA DropHandleIInv ==
    ASSUME IInv, NEW t \in Threads, DropHandle(t)
    PROVE  IInv'
<1> USE DEF IInv
<1> DEFINE h == held[t]
<1>1. h \in 1..MaxHandles /\ h # NoHandle /\ pc[t] = "holding"
    BY DEF DropHandle, HandlesConserved, TypeOK
<1>2. /\ available_files' \in Seq(1..MaxHandles)
      /\ Len(available_files') = Len(available_files) + 1
      /\ \A i \in 1..Len(available_files) : available_files'[i] = available_files[i]
      /\ available_files'[Len(available_files) + 1] = h
      /\ Len(available_files) \in Nat
    BY <1>1, AppendProperties DEF DropHandle, TypeOK
<1>3. \/ /\ Parked = {}
         /\ pc' = [pc EXCEPT ![t] = "idle"]
      \/ \E p \in Parked : pc' = [pc EXCEPT ![t] = "idle", ![p] = "woken"]
    BY <1>1 DEF DropHandle, NotifyOne, Parked, TypeOK
<1>4. TypeOK'
    <2>1. pc' \in [Threads -> {"idle", "parked", "woken", "holding"}]
        BY <1>3 DEF TypeOK, Parked
    <2>2. \A s \in Threads : pc'[s] # "idle" => reads'[s] > 0
        BY <1>1, <1>3 DEF TypeOK, Parked, DropHandle
    <2>3. reads' \in [Threads -> 0..MaxReads]
        <3>1. reads \in [Threads -> 0..MaxReads] /\ reads[t] > 0
            BY <1>1 DEF TypeOK
        <3>2. reads[t] - 1 \in 0..MaxReads
            BY <3>1
        <3> QED BY <3>1, <3>2 DEF DropHandle
    <2>4. held' \in [Threads -> (1..MaxHandles) \cup {NoHandle}]
        BY DEF TypeOK, DropHandle
    <2> QED BY <1>2, <2>1, <2>2, <2>3, <2>4 DEF TypeOK, DropHandle
<1>5. HandlesConserved'
    <2> DEFINE n == Len(available_files)
    <2>1. Idle' = Idle \cup {h}
        <3>1. Idle' = {available_files'[i] : i \in 1..(n + 1)}
            BY <1>2 DEF Idle
        <3>2. 1..(n + 1) = (1..n) \cup {n + 1}
            BY <1>2
        <3>3. Idle' = {available_files'[i] : i \in 1..n} \cup {available_files'[n + 1]}
            BY <3>1, <3>2
        <3> QED BY <1>2, <3>3 DEF Idle
    <2>2. Held' = Held \ {h}
        BY <1>1 DEF Held, DropHandle, TypeOK, HandlesConserved
    <2>3. h \in Held
        BY <1>1 DEF Held
    <2>4. (Idle \cup Held = 1..active_count)' /\ (Idle \cap Held = {})'
        BY <2>1, <2>2, <2>3 DEF HandlesConserved, DropHandle
    <2>5. \A i, j \in 1..Len(available_files') :
            available_files'[i] = available_files'[j] => i = j
        <3>1. \A i \in 1..n : available_files[i] # h
            BY <2>3 DEF HandlesConserved, Idle
        <3>2. SUFFICES ASSUME NEW i \in 1..(n + 1), NEW j \in 1..(n + 1),
                              available_files'[i] = available_files'[j]
                       PROVE  i = j
            BY <1>2
        <3>3. CASE i \in 1..n /\ j \in 1..n
            BY <1>2, <3>2, <3>3 DEF HandlesConserved
        <3>4. CASE i = n + 1 \/ j = n + 1
            BY <1>2, <3>1, <3>2, <3>4
        <3> QED BY <1>2, <3>3, <3>4
    <2>6. \A s, u \in Threads :
            held'[s] = held'[u] /\ held'[s] # NoHandle => s = u
        BY DEF HandlesConserved, DropHandle, TypeOK
    <2>7. \A s \in Threads : pc'[s] = "holding" <=> held'[s] # NoHandle
        BY <1>1, <1>3 DEF HandlesConserved, DropHandle, TypeOK, Parked
    <2> QED BY <2>4, <2>5, <2>6, <2>7 DEF HandlesConserved
<1>6. NoLostWakeup'
    <2>1. CASE Parked = {} /\ pc' = [pc EXCEPT ![t] = "idle"]
        BY <2>1 DEF NoLostWakeup, Parked, TypeOK
    <2>2. ASSUME NEW p \in Parked, pc' = [pc EXCEPT ![t] = "idle", ![p] = "woken"]
          PROVE  NoLostWakeup'
        <3>1. Woken' = Woken \cup {p} /\ p \notin Woken
            BY <1>1, <2>2 DEF Woken, Parked, TypeOK
        <3>2. Cardinality(Woken') = Cardinality(Woken) + 1 /\ Cardinality(Woken) \in Nat
            BY <3>1, WokenFinite, FS_AddElement
        <3> QED BY <1>2, <2>2, <3>2 DEF NoLostWakeup, DropHandle
    <2> QED BY <1>3, <2>1, <2>2
<1> QED BY <1>4, <1>5, <1>6

\* A spurious wakeup only adds a thread that will look at the pool again.
LEMMA SpuriousWakeupIInv ==
    ASSUME IInv, NEW t \in Threads, SpuriousWakeup(t)
    PROVE  IInv'
<1> USE DEF IInv
<1>1. TypeOK'
    BY DEF TypeOK, SpuriousWakeup
<1>2. HandlesConserved'
    <2>1. UNCHANGED <<available_files, active_count, held>>
        BY DEF SpuriousWakeup
    <2>2. Idle' = Idle /\ Held' = Held
        BY <2>1 DEF Idle, Held
    <2>3. \A s \in Threads : pc'[s] = "holding" <=> held'[s] # NoHandle
        BY DEF HandlesConserved, SpuriousWakeup, TypeOK
    <2> QED BY <2>1, <2>2, <2>3 DEF HandlesConserved
<1>3. NoLostWakeup'
    <2>1. Woken' = Woken \cup {t} /\ t \notin Woken /\ t \in Parked
        BY DEF Woken, Parked, SpuriousWakeup, TypeOK
    <2>2. Cardinality(Woken') = Cardinality(Woken) + 1 /\ Cardinality(Woken) \in Nat
        BY <2>1, WokenFinite, FS_AddElement
    <2>3. Len(available_files) \in Nat
        BY DEF TypeOK
    <2> QED BY <2>1, <2>2, <2>3 DEF NoLostWakeup, SpuriousWakeup
<1> QED BY <1>1, <1>2, <1>3

\* Every step of the pool keeps the invariant.
LEMMA NextIInv == IInv /\ [Next]_vars => IInv'
<1> SUFFICES ASSUME IInv, [Next]_vars PROVE IInv'
    OBVIOUS
<1>1. ASSUME NEW t \in Threads, Acquire(t) PROVE IInv'
    BY <1>1, PopAvailableIInv, OpenNewIInv, OpenFailsIInv, ParkIInv DEF Acquire
<1>2. ASSUME NEW t \in Threads, DropHandle(t) PROVE IInv'
    BY <1>2, DropHandleIInv
<1>3. ASSUME NEW t \in Threads, SpuriousWakeup(t) PROVE IInv'
    BY <1>3, SpuriousWakeupIInv
<1>4. ASSUME UNCHANGED vars PROVE IInv'
    <2>1. TypeOK'
        BY <1>4 DEF IInv, TypeOK, vars
    <2>2. HandlesConserved'
        BY <1>4 DEF IInv, HandlesConserved, Idle, Held, vars
    <2>3. NoLostWakeup'
        BY <1>4 DEF IInv, NoLostWakeup, Parked, Woken, vars
    <2> QED BY <2>1, <2>2, <2>3 DEF IInv
<1>5. CASE Terminated
    BY <1>4, <1>5 DEF Terminated
<1> QED BY <1>1, <1>2, <1>3, <1>4, <1>5 DEF Next

\* The pool is always in a state of the inductive invariant.
THEOREM PoolInvariant == Spec => []IInv
BY InitIInv, NextIInv, PTL DEF Spec

\* Type correctness, with the handle limit: never more than MaxHandles open.
THEOREM TypeCorrect == Spec => []TypeOK
<1>1. IInv => TypeOK
    BY DEF IInv
<1> QED BY <1>1, PoolInvariant, PTL

\* No handle of file_pool.rs is leaked or shared, for any number of threads.
THEOREM HandlesAreConserved == Spec => []HandlesConserved
<1>1. IInv => HandlesConserved
    BY DEF IInv
<1> QED BY <1>1, PoolInvariant, PTL

\* notify_one() in drop is enough for any number of waiters.
THEOREM WakeupsAreNotLost == Spec => []NoLostWakeup
<1>1. IInv => NoLostWakeup
    BY DEF IInv
<1> QED BY <1>1, PoolInvariant, PTL

\* A step of the pool is a step of HandleLending, or changes none of its
\* variables: parking, waking and failing to open are internal.
LEMMA StepLends == IInv /\ [Next]_vars => [Lending!LendingNext]_(Lending!lendingVars)
<1> SUFFICES ASSUME IInv, [Next]_vars
             PROVE  [Lending!LendingNext]_(Lending!lendingVars)
    OBVIOUS
<1> USE DEF IInv
<1>1. ASSUME NEW t \in Threads, PopAvailable(t) PROVE Lending!Relend(t)
    <2>1. /\ held[t] = NoHandle
          /\ Head(available_files) \in 1..active_count
          /\ Head(available_files) \in Idle
        BY <1>1 DEF PopAvailable, Ready, HandlesConserved, Idle, TypeOK
    <2>2. Head(available_files) \in Lending!Free
        BY <2>1 DEF Lending!Free, HandlesConserved, Held
    <2> QED BY <1>1, <2>1, <2>2 DEF Lending!Relend, PopAvailable
<1>2. ASSUME NEW t \in Threads, OpenNew(t) PROVE Lending!LendNew(t)
    <2>1. held[t] = NoHandle
        BY <1>2 DEF OpenNew, Ready, HandlesConserved
    <2>2. Lending!Free = {}
        <3>1. Idle = {}
            BY <1>2 DEF OpenNew, Idle
        <3>2. 1..active_count \subseteq Held
            BY <3>1 DEF HandlesConserved
        <3> QED BY <3>2 DEF Lending!Free, Held
    <2>3. active_count + 1 \in 1..MaxHandles \ 1..active_count
        BY <1>2 DEF OpenNew, TypeOK
    <2>4. (1..active_count)' = 1..active_count \cup {active_count + 1}
        BY <1>2 DEF OpenNew, TypeOK
    <2> QED BY <1>2, <2>1, <2>2, <2>3, <2>4 DEF Lending!LendNew, OpenNew
<1>3. ASSUME NEW t \in Threads, DropHandle(t) PROVE Lending!GiveBack(t)
    BY <1>3 DEF DropHandle, Lending!GiveBack, HandlesConserved
<1>4. ASSUME NEW t \in Threads, OpenFails(t) \/ Park(t) \/ SpuriousWakeup(t)
      PROVE  UNCHANGED Lending!lendingVars
    BY <1>4 DEF OpenFails, Park, SpuriousWakeup, Lending!lendingVars
<1>5. CASE Terminated \/ UNCHANGED vars
    BY <1>5 DEF Terminated, vars, Lending!lendingVars
<1> QED BY <1>1, <1>2, <1>3, <1>4, <1>5 DEF Next, Acquire, Lending!LendingNext

\* The condition-variable protocol of file_pool.rs implements plain lending.
THEOREM PoolLendsHandles == Spec => LendsHandles
<1>1. Init => Lending!LendingInit
    BY DEF Init, Lending!LendingInit
<1> QED BY <1>1, StepLends, PoolInvariant, PTL DEF Spec, LendsHandles, Lending!LendingSpec
=============================================================================
