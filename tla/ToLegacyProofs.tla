--------------------------- MODULE ToLegacyProofs ---------------------------
(***************************************************************************)
(* The conversion to legacy: the packages that others import from, the     *)
(* store with the batch of conversions over it, and the code of the shader *)
(* libraries.                                                              *)
(*                                                                         *)
(* For any number of threads, packages, hashes and export lists: a package *)
(* is loaded by one thread at a time, what was decided about it stays, and *)
(* every import is answered from that decision.  The invariant says where  *)
(* a thread inside the mutex stands: until it publishes, its package is    *)
(* undecided; from then on it has what was decided.                        *)
(*                                                                         *)
(* For any number of containers, packages, workers and items: the store    *)
(* reads what overrides, its answers are consistent, the count an item     *)
(* reports is true and a file comes from a container that was asked for.   *)
(* First what sorting, selecting and flattening do to a sequence, then the *)
(* store, then the batch over it.                                          *)
(*                                                                         *)
(* For any library, whatever the channel and the workers hold: the regions *)
(* of the shaders tile the file and the preload entries of a map cover its *)
(* code.  First what the producer sends: each shader once, and between the *)
(* marks of a map what only it has.  The invariant says that the consumer  *)
(* has written what was sent up to some message, and that the workers and  *)
(* the channel hold the rest, in order.                                    *)
(***************************************************************************)
EXTENDS PackageContext, LegacyExtraction, ShaderLayout, SequenceLemmas

-----------------------------------------------------------------------------
(* The package context: the invariant                                      *)

HoldsItsLock(t) == Inside(t) => package_lookup_locks[Package(t)] = t

LoadOK(t) ==
    /\ pc[t] \in {"searching", "waiting", "locked", "reading"} => header[t] = NoHeader
    /\ pc[t] \in {"reading", "parsed"} => Missing(t)
    /\ pc[t] = "parsed" => header[t] \in ExportLists

DecidedOK(t) ==
    pc[t] \in {"unlocking", "resolving"} =>
        IF header[t] = NoHeader
        THEN Package(t) \in packages_failed_load
        ELSE header[t] = package_headers_cache[Package(t)]

TablesDescribeHeaders ==
    \A p \in ImportedPackages : package_headers_cache[p] # NoHeader =>
        public_export_indices[p] = FirstMatches(package_headers_cache[p])

AnswersFollowOutcome ==
    \A a \in answers :
        /\ Outcome(a.package) # NoHeader
        /\ a.answer = AnswerFrom(a.package, a.hash, Outcome(a.package))

LoadInv ==
    /\ ContextTypeOK
    /\ \A t \in Threads : HoldsItsLock(t) /\ LoadOK(t) /\ DecidedOK(t)
    /\ TablesDescribeHeaders
    /\ LoadedOrFailed

IInv == LoadInv /\ AnswersFollowOutcome

-----------------------------------------------------------------------------
(* The package context: lemmas                                             *)

\* Looking a hash up in the table is the linear search for it.
LEMMA TableIsSearch ==
    ASSUME NEW o \in ExportLists, NEW p \in ImportedPackages, NEW h \in Hashes,
           <<p, h>> \notin Misnamed
    PROVE  /\ h \in DOMAIN FirstMatches(o) =>
                <<"export", FirstMatches(o)[h]>> = AnswerFrom(p, h, o)
           /\ h \notin DOMAIN FirstMatches(o) => Infer(p, h) = AnswerFrom(p, h, o)
<1>1. o # Failed /\ h # Private
    BY NoneOfThem, ExportListsAreSequences
<1>2. h \in DOMAIN FirstMatches(o) <=> \E i \in DOMAIN o : o[i] = h
    BY <1>1 DEF FirstMatches
<1>3. h \in DOMAIN FirstMatches(o) =>
        FirstMatches(o)[h] =
            CHOOSE i \in DOMAIN o : o[i] = h /\ \A j \in DOMAIN o : o[j] = h => i <= j
    BY DEF FirstMatches
<1>4. QED
    BY <1>1, <1>2, <1>3 DEF AnswerFrom

\* A failed package answers what the import's own metadata says.
LEMMA FailedInfers ==
    ASSUME NEW p, NEW h
    PROVE  AnswerFrom(p, h, Failed) = Infer(p, h)
BY DEF AnswerFrom

\* A table of public exports lists public hashes only.
LEMMA TableOfHashes ==
    ASSUME NEW o \in ExportLists
    PROVE  DOMAIN FirstMatches(o) \subseteq Hashes
<1>1. o \in Seq(Hashes \cup {Private})
    BY ExportListsAreSequences
<1>2. \A i \in DOMAIN o : o[i] \in Hashes \cup {Private}
    BY <1>1
<1>3. QED
    BY <1>2 DEF FirstMatches

-----------------------------------------------------------------------------
(* The package context: the invariant of the load                          *)

LEMMA InitLoad == ContextInit => LoadInv
<1>1. ASSUME ContextInit PROVE ContextTypeOK
    <2>1. (CHOOSE i \in Imports : TRUE) \in Imports
        <3>1. PICK p \in ImportedPackages, h \in Hashes : TRUE
            BY SomethingToImport
        <3>2. [package |-> p, hash |-> h] \in Imports
            BY DEF Imports
        <3>3. QED
            BY <3>2
    <2>2. QED
        BY <1>1, <2>1, MaxLookupsIsNat DEF ContextInit, ContextTypeOK
<1>2. QED
    BY <1>1 DEF ContextInit, LoadInv, HoldsItsLock, LoadOK, DecidedOK, TablesDescribeHeaders,
                LoadedOrFailed, Inside

LEMMA StepLoad == LoadInv /\ [ContextNext]_contextVars => LoadInv'
<1> SUFFICES ASSUME LoadInv, [ContextNext]_contextVars PROVE LoadInv'
    OBVIOUS
<1> USE DEF LoadInv
<1> USE NoneOfThem
<1>1. ASSUME NEW t \in Threads, NEW i \in Imports, Start(t, i) PROVE LoadInv'
    BY <1>1, MaxLookupsIsNat DEF Start, Goto, ContextTypeOK, HoldsItsLock, LoadOK, DecidedOK,
        TablesDescribeHeaders, LoadedOrFailed, Inside, Package, Missing, inner_state
<1>2. ASSUME NEW t \in Threads, Found(t) PROVE LoadInv'
    BY <1>2 DEF Found, Goto, ContextTypeOK, HoldsItsLock, LoadOK, DecidedOK,
        TablesDescribeHeaders, LoadedOrFailed, Inside, Package, Missing, inner_state, Imports
<1>3. ASSUME NEW t \in Threads, KnownToFail(t) PROVE LoadInv'
    BY <1>3 DEF KnownToFail, Goto, ContextTypeOK, HoldsItsLock, LoadOK, DecidedOK,
        TablesDescribeHeaders, LoadedOrFailed, Inside, Package, Missing, inner_state, Imports
<1>4. ASSUME NEW t \in Threads, Miss(t) PROVE LoadInv'
    BY <1>4 DEF Miss, Goto, ContextTypeOK, HoldsItsLock, LoadOK, DecidedOK,
        TablesDescribeHeaders, LoadedOrFailed, Inside, Package, Missing, inner_state, Imports
<1>5. ASSUME NEW t \in Threads, Lock(t) PROVE LoadInv'
    BY <1>5 DEF Lock, Goto, ContextTypeOK, HoldsItsLock, LoadOK, DecidedOK,
        TablesDescribeHeaders, LoadedOrFailed, Inside, Package, Missing, inner_state, Imports
<1>6. ASSUME NEW t \in Threads, Load(t) PROVE LoadInv'
    BY <1>6 DEF Load, Goto, ContextTypeOK, HoldsItsLock, LoadOK, DecidedOK,
        TablesDescribeHeaders, LoadedOrFailed, Inside, Package, Missing, inner_state, Imports
<1>7. ASSUME NEW t \in Threads, LoadFails(t) PROVE LoadInv'
    BY <1>7 DEF LoadFails, Goto, ContextTypeOK, HoldsItsLock, LoadOK, DecidedOK,
        TablesDescribeHeaders, LoadedOrFailed, Inside, Package, Missing, Imports
<1>8. ASSUME NEW t \in Threads, Parse(t) PROVE LoadInv'
    BY <1>8 DEF Parse, Goto, ContextTypeOK, HoldsItsLock, LoadOK, DecidedOK,
        TablesDescribeHeaders, LoadedOrFailed, Inside, Package, Missing, inner_state, Imports
<1>9. ASSUME NEW t \in Threads, Publish(t) PROVE LoadInv'
    BY <1>9, TableOfHashes DEF Publish, Goto, ContextTypeOK, HoldsItsLock, LoadOK, DecidedOK,
        TablesDescribeHeaders, LoadedOrFailed, Inside, Package, Missing, Imports
<1>10. ASSUME NEW t \in Threads, Unlock(t) PROVE LoadInv'
    BY <1>10 DEF Unlock, Goto, ContextTypeOK, HoldsItsLock, LoadOK, DecidedOK,
        TablesDescribeHeaders, LoadedOrFailed, Inside, Package, Missing, inner_state, Imports
<1>11. ASSUME NEW t \in Threads, pc[t] = "resolving", NEW a, Answered(t, a) PROVE LoadInv'
    BY <1>11 DEF Answered, Goto, ContextTypeOK, HoldsItsLock, LoadOK, DecidedOK,
        TablesDescribeHeaders, LoadedOrFailed, Inside, Package, Missing, inner_state, Imports
<1>12. CASE UNCHANGED contextVars
    BY <1>12 DEF contextVars, ContextTypeOK, HoldsItsLock, LoadOK, DecidedOK,
        TablesDescribeHeaders, LoadedOrFailed, Inside, Package, Missing, inner_state
<1>13. QED
    BY <1>1, <1>2, <1>3, <1>4, <1>5, <1>6, <1>7, <1>8, <1>9, <1>10, <1>11, <1>12
       DEF ContextNext, ThreadStep, ResolveWithout, NameMismatch, ResolveExport, ExportNotThere, Finished

\* What the context decides about a package stays.
LEMMA OutcomeStays ==
    ASSUME LoadInv, [ContextNext]_contextVars, NEW p \in ImportedPackages, Outcome(p) # NoHeader
    PROVE  Outcome(p)' = Outcome(p)
<1> USE NoneOfThem DEF LoadInv
<1>1. ASSUME NEW t \in Threads, LoadFails(t) PROVE Outcome(p)' = Outcome(p)
    BY <1>1 DEF LoadFails, Outcome, LoadOK, Missing, Package
<1>2. ASSUME NEW t \in Threads, Publish(t) PROVE Outcome(p)' = Outcome(p)
    BY <1>2 DEF Publish, Outcome, LoadOK, Missing, Package, ContextTypeOK
<1>3. CASE UNCHANGED <<package_headers_cache, packages_failed_load>>
    BY <1>3 DEF Outcome
<1>4. QED
    BY <1>1, <1>2, <1>3 DEF ContextNext, ThreadStep, Start, Found, KnownToFail, Miss, Lock, Load,
        Parse, Unlock, ResolveWithout, NameMismatch, ResolveExport, ExportNotThere, Answered, Finished,
        contextVars, inner_state

\* A reply is the answer that the decision about the package gives.
LEMMA ReplyFollows ==
    ASSUME LoadInv, NEW t \in Threads,
           ResolveWithout(t) \/ NameMismatch(t) \/ ResolveExport(t) \/ ExportNotThere(t)
    PROVE  /\ Outcome(Package(t)) # NoHeader
           /\ answers' = answers \cup
                {[package |-> Package(t), hash |-> import[t].hash,
                  answer |-> AnswerFrom(Package(t), import[t].hash, Outcome(Package(t)))]}
           /\ UNCHANGED inner_state
<1> DEFINE p == Package(t)
           h == import[t].hash
<1> USE NoneOfThem DEF LoadInv
<1>1. pc[t] = "resolving" /\ p \in ImportedPackages /\ h \in Hashes
    BY DEF ResolveWithout, NameMismatch, ResolveExport, ExportNotThere, ContextTypeOK, Imports, Package
<1>2. CASE ResolveWithout(t)
    <2>1. Outcome(p) = Failed
        BY <1>1, <1>2 DEF ResolveWithout, DecidedOK, Outcome
    <2>2. AnswerFrom(p, h, Failed) = Infer(p, h)
        BY FailedInfers
    <2>3. QED
        BY <1>2, <2>1, <2>2 DEF ResolveWithout, Answered
<1>3. CASE NameMismatch(t) \/ ResolveExport(t) \/ ExportNotThere(t)
    <2>1. /\ header[t] # NoHeader
          /\ header[t] = package_headers_cache[p]
          /\ header[t] \in ExportLists
        BY <1>1, <1>3 DEF NameMismatch, ResolveExport, ExportNotThere, DecidedOK, ContextTypeOK
    <2>2. Outcome(p) = header[t]
        BY <1>1, <2>1 DEF Outcome, LoadedOrFailed
    <2>3. public_export_indices[p] = FirstMatches(header[t])
        BY <1>1, <2>1 DEF TablesDescribeHeaders
    <2>4. CASE ResolveExport(t)
        BY <1>1, <2>1, <2>2, <2>3, <2>4, TableIsSearch DEF ResolveExport, Answered
    <2>5. CASE ExportNotThere(t)
        BY <1>1, <2>1, <2>2, <2>3, <2>5, TableIsSearch DEF ExportNotThere, Answered
    <2>6. CASE NameMismatch(t)
        <3>1. AnswerFrom(p, h, header[t]) = <<"error">>
            BY <2>1, <2>6 DEF NameMismatch, AnswerFrom
        <3>2. QED
            BY <1>1, <2>1, <2>2, <2>6, <3>1 DEF NameMismatch, Answered
    <2>7. QED
        BY <1>3, <2>4, <2>5, <2>6
<1>4. QED
    BY <1>2, <1>3

LEMMA AnswersKept ==
    ASSUME [ContextNext]_contextVars
    PROVE  \/ answers' = answers
           \/ \E t \in Threads : ResolveWithout(t) \/ NameMismatch(t) \/ ResolveExport(t) \/ ExportNotThere(t)
BY DEF ContextNext, ThreadStep, Start, Found, KnownToFail, Miss, Lock, Load, LoadFails, Parse, Publish,
       Unlock, Finished, contextVars

LEMMA StepAnswers == IInv /\ [ContextNext]_contextVars => AnswersFollowOutcome'
<1> SUFFICES ASSUME IInv, [ContextNext]_contextVars, NEW a \in answers'
             PROVE  /\ Outcome(a.package)' # NoHeader
                    /\ a.answer = AnswerFrom(a.package, a.hash, Outcome(a.package)')
    BY DEF AnswersFollowOutcome, Outcome, AnswerFrom, Infer
<1>1. CASE a \in answers
    <2>1. /\ a.package \in ImportedPackages
          /\ Outcome(a.package) # NoHeader
          /\ a.answer = AnswerFrom(a.package, a.hash, Outcome(a.package))
        BY <1>1 DEF IInv, LoadInv, AnswersFollowOutcome, ContextTypeOK
    <2>2. QED
        BY <2>1, OutcomeStays DEF IInv
<1>2. CASE a \notin answers
    <2>1. PICK t \in Threads : ResolveWithout(t) \/ NameMismatch(t) \/ ResolveExport(t) \/ ExportNotThere(t)
        BY <1>2, AnswersKept
    <2>2. a = [package |-> Package(t), hash |-> import[t].hash,
               answer |-> AnswerFrom(Package(t), import[t].hash, Outcome(Package(t)))]
        BY <1>2, <2>1, ReplyFollows DEF IInv
    <2>3. Outcome(Package(t)) # NoHeader /\ Package(t) \in ImportedPackages
        BY <2>1, ReplyFollows DEF IInv, LoadInv, ContextTypeOK, Imports, Package
    <2>4. QED
        BY <2>2, <2>3, OutcomeStays DEF IInv
<1>3. QED
    BY <1>1, <1>2

LEMMA ContextInvariant == ContextSpec => []IInv
<1>1. ContextInit => AnswersFollowOutcome
    BY DEF ContextInit, AnswersFollowOutcome
<1>2. ContextInit => IInv
    BY <1>1, InitLoad DEF IInv
<1>3. IInv /\ [ContextNext]_contextVars => IInv'
    BY StepLoad, StepAnswers DEF IInv
<1>4. QED
    BY <1>2, <1>3, PTL DEF ContextSpec

-----------------------------------------------------------------------------
(* The package context: theorems                                           *)

\* Every state of the package context has the shape its Rust types give it.
THEOREM TypesHold == ContextSpec => []ContextTypeOK
BY ContextInvariant, PTL DEF IInv, LoadInv

\* The mutex of a package lets one thread at a time load it.
THEOREM LoadsExclude == ContextSpec => []OneLoaderPerPackage
<1>1. IInv => OneLoaderPerPackage
    BY DEF IInv, LoadInv, HoldsItsLock, OneLoaderPerPackage
<1>2. QED
    BY <1>1, ContextInvariant, PTL

\* A thread resolves with the header and the table that everybody shares.
THEOREM HeadersAreShared == ContextSpec => []HeaderInHandIsShared
<1>1. IInv => HeaderInHandIsShared
    <2> SUFFICES ASSUME IInv, NEW t \in Threads, pc[t] = "resolving", header[t] # NoHeader
                 PROVE  /\ header[t] = package_headers_cache[Package(t)]
                        /\ public_export_indices[Package(t)] = FirstMatches(header[t])
        BY DEF HeaderInHandIsShared
    <2>1. Package(t) \in ImportedPackages /\ header[t] = package_headers_cache[Package(t)]
        BY DEF IInv, LoadInv, DecidedOK, ContextTypeOK, Imports, Package
    <2>2. QED
        BY <2>1 DEF IInv, LoadInv, TablesDescribeHeaders
<1>2. QED
    BY <1>1, ContextInvariant, PTL

\* A package is never both cached and remembered as failed.
THEOREM DecisionsExclude == ContextSpec => []LoadedOrFailed
BY ContextInvariant, PTL DEF IInv, LoadInv

\* All conversions are told the same about the same import.
THEOREM ConversionsAgree == ContextSpec => []AnswersAgree
<1>1. IInv => AnswersAgree
    BY DEF IInv, AnswersFollowOutcome, AnswersAgree
<1>2. QED
    BY <1>1, ContextInvariant, PTL

\* A step of the context decides a package, replies from a decision, or
\* changes neither.
LEMMA StepResolves == IInv /\ [ContextNext]_contextVars => [Abstract!ResolveNext]_(Abstract!resolveVars)
<1> SUFFICES ASSUME IInv, [ContextNext]_contextVars
             PROVE  [Abstract!ResolveNext]_(Abstract!resolveVars)
    OBVIOUS
<1> USE NoneOfThem
<1>1. ASSUME NEW t \in Threads, LoadFails(t) PROVE Abstract!Decide(Package(t))
    <2>1. Package(t) \in ImportedPackages /\ Outcome(Package(t)) = NoHeader
        BY <1>1 DEF IInv, LoadInv, LoadFails, LoadOK, Missing, ContextTypeOK, Imports, Package, Outcome
    <2>2. [p \in ImportedPackages |-> Outcome(p)]' =
            [[p \in ImportedPackages |-> Outcome(p)] EXCEPT ![Package(t)] = Failed]
        BY <1>1 DEF LoadFails, Outcome
    <2>3. QED
        BY <1>1, <2>1, <2>2 DEF Abstract!Decide, LoadFails
<1>2. ASSUME NEW t \in Threads, Publish(t) PROVE Abstract!Decide(Package(t))
    <2>1. /\ Package(t) \in ImportedPackages /\ Outcome(Package(t)) = NoHeader
          /\ Package(t) \notin packages_failed_load
          /\ header[t] \in ExportLists
        BY <1>2 DEF IInv, LoadInv, Publish, LoadOK, Missing, ContextTypeOK, Imports, Package, Outcome
    <2>2. [p \in ImportedPackages |-> Outcome(p)]' =
            [[p \in ImportedPackages |-> Outcome(p)] EXCEPT ![Package(t)] = header[t]]
        BY <1>2, <2>1 DEF Publish, Outcome, IInv, LoadInv, ContextTypeOK
    <2>3. QED
        BY <1>2, <2>1, <2>2 DEF Abstract!Decide, Publish
<1>3. ASSUME NEW t \in Threads,
             ResolveWithout(t) \/ NameMismatch(t) \/ ResolveExport(t) \/ ExportNotThere(t)
      PROVE  Abstract!Reply(Package(t), import[t].hash)
    <2>1. Package(t) \in ImportedPackages
        BY DEF IInv, LoadInv, ContextTypeOK, Imports, Package
    <2>2. QED
        BY <1>3, <2>1, ReplyFollows DEF Abstract!Reply, IInv, inner_state, Outcome
<1>4. CASE UNCHANGED <<package_headers_cache, packages_failed_load, answers>>
    BY <1>4 DEF Abstract!resolveVars, Outcome
<1>5. \A t \in Threads : Package(t) \in ImportedPackages /\ import[t].hash \in Hashes
    BY DEF IInv, LoadInv, ContextTypeOK, Imports, Package
<1>6. QED
    BY <1>1, <1>2, <1>3, <1>4, <1>5 DEF ContextNext, ThreadStep, Start, Found, KnownToFail, Miss, Lock,
        Load, Parse, Unlock, Finished, contextVars, inner_state, Abstract!ResolveNext

\* The package context decides each package once and answers from that: it
\* implements ResolveOnce.
THEOREM ContextDecidesOnce == ContextSpec => DecidesOnce
<1>1. ContextInit => Abstract!ResolveInit
    BY DEF ContextInit, Abstract!ResolveInit, Outcome
<1>2. QED
    BY <1>1, StepResolves, ContextInvariant, PTL DEF ContextSpec, DecidesOnce, Abstract!ResolveSpec

-----------------------------------------------------------------------------
(* The store: induction and ranks, without operators for parameters        *)

Rank(D, R, i) == 1 + Cardinality({j \in D : <<j, i>> \in R})

\* In a strict total order the ranks are 1 up to the number of elements.
LEMMA Ranks ==
    ASSUME NEW D, IsFiniteSet(D), NEW R,
           \A i \in D : <<i, i>> \notin R,
           \A i, j, k \in D : <<i, j>> \in R /\ <<j, k>> \in R => <<i, k>> \in R,
           \A i, j \in D : i = j \/ <<i, j>> \in R \/ <<j, i>> \in R
    PROVE  /\ Cardinality(D) \in Nat
           /\ \A i \in D : Rank(D, R, i) \in 1..Cardinality(D)
           /\ \A i, j \in D : <<i, j>> \in R <=> Rank(D, R, i) < Rank(D, R, j)
           /\ \A i, j \in D : Rank(D, R, i) = Rank(D, R, j) => i = j
           /\ \A k \in 1..Cardinality(D) : \E i \in D : Rank(D, R, i) = k
<1> DEFINE before(i) == {j \in D : <<j, i>> \in R}
           n == Cardinality(D)
<1>1. n \in Nat
    BY FS_CardinalityType
<1>2. ASSUME NEW i \in D PROVE IsFiniteSet(before(i)) /\ Cardinality(before(i)) \in 0..(n - 1)
    <2>1. before(i) \in SUBSET (D \ {i})
        OBVIOUS
    <2>2. IsFiniteSet(D \ {i}) /\ Cardinality(D \ {i}) = n - 1
        BY FS_RemoveElement
    <2> HIDE DEF before
    <2>3. IsFiniteSet(before(i)) /\ Cardinality(before(i)) <= n - 1
        BY <2>1, <2>2, FS_Subset
    <2> QED BY <1>1, <2>3, FS_CardinalityType
<1>3. \A i \in D : Rank(D, R, i) = 1 + Cardinality(before(i)) /\ Rank(D, R, i) \in 1..n
                   /\ Rank(D, R, i) \in Nat
    <2> TAKE i \in D
    <2>1. Rank(D, R, i) = 1 + Cardinality(before(i))
        BY DEF Rank
    <2>2. Cardinality(before(i)) \in 0..(n - 1)
        BY <1>2
    <2> HIDE DEF before, n
    <2> QED BY <1>1, <2>1, <2>2
<1>4. ASSUME NEW i \in D, NEW j \in D, <<i, j>> \in R PROVE Rank(D, R, i) < Rank(D, R, j)
    <2>1. before(i) \in SUBSET before(j) /\ i \in before(j) /\ i \notin before(i)
        BY <1>4
    <2>2. IsFiniteSet(before(j))
        BY <1>2
    <2>3. Cardinality(before(i)) <= Cardinality(before(j)) /\ Cardinality(before(i)) # Cardinality(before(j))
        <3> HIDE DEF before
        <3> QED BY <2>1, <2>2, FS_Subset
    <2> HIDE DEF before, n
    <2>4. Cardinality(before(i)) \in Nat /\ Cardinality(before(j)) \in Nat
        BY <1>1, <1>2
    <2> QED BY <1>3, <2>3, <2>4
<1>5. \A i, j \in D : <<i, j>> \in R <=> Rank(D, R, i) < Rank(D, R, j)
    <2> TAKE i, j \in D
    <2>1. Rank(D, R, i) \in Nat /\ Rank(D, R, j) \in Nat
        BY <1>3
    <2>2. ASSUME Rank(D, R, i) < Rank(D, R, j) PROVE <<i, j>> \in R
        <3>1. CASE i = j
            BY <2>1, <2>2, <3>1
        <3>2. CASE <<j, i>> \in R
            BY <1>4, <2>1, <2>2, <3>2
        <3> QED BY <3>1, <3>2
    <2> QED BY <1>4, <2>2
<1>6. \A i, j \in D : Rank(D, R, i) = Rank(D, R, j) => i = j
    <2> TAKE i, j \in D
    <2>1. Rank(D, R, i) \in Nat /\ Rank(D, R, j) \in Nat
        BY <1>3
    <2>2. i = j \/ <<i, j>> \in R \/ <<j, i>> \in R
        OBVIOUS
    <2>3. Rank(D, R, i) = Rank(D, R, j) =>
                ~(Rank(D, R, i) < Rank(D, R, j)) /\ ~(Rank(D, R, j) < Rank(D, R, i))
        BY <2>1
    <2> QED BY <1>4, <2>2, <2>3
<1>7. \A k \in 1..n : \E i \in D : Rank(D, R, i) = k
    <2> DEFINE f == [i \in D |-> Rank(D, R, i)]
    <2>1. f \in Injection(D, 1..n)
        BY <1>3, <1>6 DEF Injection, IsInjective
    <2>2. IsFiniteSet(1..n) /\ Cardinality(1..n) = n
        <3>1. 1 \in Int /\ n \in Int
            BY <1>1
        <3>2. IsFiniteSet(1..n) /\ Cardinality(1..n) = IF 1 > n THEN 0 ELSE n - 1 + 1
            <4> HIDE DEF n
            <4> QED BY <3>1, FS_Interval
        <3> QED BY <1>1, <3>2
    <2>3. f \in Surjection(D, 1..n)
        <3> HIDE DEF f
        <3> QED BY <2>1, <2>2, FS_Injection
    <2> QED BY <2>3 DEF Surjection
<1> QED BY <1>1, <1>3, <1>5, <1>6, <1>7

\* at goes through the places I, once each, and finds there what t holds.
Keeps(at, s, I, t) ==
    /\ at \in [1..Cardinality(I) -> I]
    /\ \A k \in 1..Cardinality(I) : t[k] = s[at[k]]
    /\ \A k, l \in 1..Cardinality(I) : at[k] = at[l] => k = l
    /\ \A i \in I : \E k \in 1..Cardinality(I) : at[k] = i

LEMMA Kept ==
    ASSUME NEW s, NEW n \in Nat, NEW I, I \subseteq 1..n
    PROVE  /\ Cardinality(I) \in Nat /\ Len(KeepAt(s, I)) = Cardinality(I)
           /\ DOMAIN KeepAt(s, I) = 1..Cardinality(I)
           /\ \E at : Keeps(at, s, I, KeepAt(s, I))
<1> DEFINE R == {p \in I \X I : p[1] < p[2]}
           m == Cardinality(I)
           at == [k \in 1..m |-> CHOOSE i \in I : Rank(I, R, i) = k]
<1>1. IsFiniteSet(I)
    <2>1. I \in SUBSET Nat /\ \A i \in I : i <= n
        OBVIOUS
    <2> QED BY <2>1, FS_BoundedSetOfNaturals
<1>2. /\ \A i \in I : <<i, i>> \notin R
      /\ \A i, j, k \in I : <<i, j>> \in R /\ <<j, k>> \in R => <<i, k>> \in R
      /\ \A i, j \in I : i = j \/ <<i, j>> \in R \/ <<j, i>> \in R
    <2>1. I \subseteq Nat
        OBVIOUS
    <2> QED BY <2>1
<1>3. /\ m \in Nat
      /\ \A i \in I : Rank(I, R, i) \in 1..m
      /\ \A i, j \in I : Rank(I, R, i) = Rank(I, R, j) => i = j
      /\ \A k \in 1..m : \E i \in I : Rank(I, R, i) = k
    <2> HIDE DEF R
    <2> QED BY <1>1, <1>2, Ranks
<1>4. \A k \in 1..m : at[k] \in I /\ Rank(I, R, at[k]) = k
    <2> HIDE DEF R
    <2> QED BY <1>3
<1>5. \A i \in I : 1 + Cardinality({j \in I : j < i}) = Rank(I, R, i)
    <2> TAKE i \in I
    <2>1. {j \in I : j < i} = {j \in I : <<j, i>> \in R}
        OBVIOUS
    <2> QED BY <2>1 DEF Rank
<1>6. KeepAt(s, I) = [k \in 1..m |-> s[at[k]]]
    <2> DEFINE place(i) == 1 + Cardinality({j \in I : j < i})
    <2>1. \A k \in 1..m : (CHOOSE i \in I : place(i) = k) = at[k]
        <3> HIDE DEF R, m, place
        <3>1. \A i \in I : place(i) = Rank(I, R, i)
            BY <1>5 DEF place
        <3> TAKE k \in 1..m
        <3> DEFINE c == CHOOSE i \in I : place(i) = k
        <3>2. at[k] \in I /\ place(at[k]) = k
            BY <1>4, <3>1
        <3>3. c \in I /\ place(c) = k
            <4> HIDE DEF at
            <4> QED BY <3>2
        <3> HIDE DEF c, at
        <3> QED BY <1>3, <3>1, <3>2, <3>3
    <2>2. KeepAt(s, I) = [k \in 1..m |-> s[CHOOSE i \in I : place(i) = k]]
        BY DEF KeepAt
    <2> HIDE DEF at, place, m
    <2> QED BY <2>1, <2>2
<1>7. at \in [1..m -> I]
    BY <1>4
<1>8. \A k, l \in 1..m : at[k] = at[l] => k = l
    <2> HIDE DEF at
    <2> QED BY <1>4
<1>9. \A i \in I : \E k \in 1..m : at[k] = i
    <2> HIDE DEF at, R
    <2> QED BY <1>3, <1>4
<1> HIDE DEF at
<1>10. Len(KeepAt(s, I)) = m /\ DOMAIN KeepAt(s, I) = 1..m
    <2> HIDE DEF m
    <2> QED BY <1>3, <1>6
<1>11. Keeps(at, s, I, KeepAt(s, I))
    BY <1>6, <1>7, <1>8, <1>9 DEF Keeps
<1> QED BY <1>3, <1>10, <1>11

-----------------------------------------------------------------------------
(* The store: flattening                                                   *)

\* Where the elements of a flattened sequence come from: every element of every
\* part, in the order of the parts.
Origin(flat, seqs, m, from) ==
    /\ flat \in Seq(UNION {Range(seqs[i]) : i \in DOMAIN seqs})
    /\ from \in [DOMAIN flat -> 1..m]
    /\ \A j \in DOMAIN flat : flat[j] \in Range(seqs[from[j]])
    /\ \A j, k \in DOMAIN flat : j <= k => from[j] <= from[k]
    /\ \A i \in 1..m : \A x \in Range(seqs[i]) : \E j \in DOMAIN flat : from[j] = i /\ flat[j] = x

LEMMA OriginExtends ==
    ASSUME NEW X, NEW seqs \in Seq(Seq(X)), NEW m \in Nat, m + 1 \in DOMAIN seqs,
           NEW flat, NEW from, Origin(flat, seqs, m, from)
    PROVE  \E more : Origin(flat \o seqs[m + 1], seqs, m + 1, more)
<1> DEFINE Y == UNION {Range(seqs[i]) : i \in DOMAIN seqs}
           t == seqs[m + 1]
           a == Len(flat)
           b == Len(t)
           new == flat \o t
           more == [j \in 1..(a + b) |-> IF j <= a THEN from[j] ELSE m + 1]
<1>1. t \in Seq(Y)
    <2>1. t \in Seq(X)
        <3>1. m + 1 \in 1..Len(seqs)
            BY LenProperties
        <3> QED BY <3>1, ElementOfSeq
    <2>2. Range(t) \subseteq Y
        OBVIOUS
    <2>3. t \in Seq(Range(t))
        BY <2>1, SeqOfRange
    <2> HIDE DEF t, Y
    <2> QED BY <2>2, <2>3, SeqMonotonic
<1>2. flat \in Seq(Y) /\ from \in [DOMAIN flat -> 1..m]
    BY DEF Origin
<1> HIDE DEF Y, t
<1>3. /\ a \in Nat /\ b \in Nat /\ DOMAIN flat = 1..a /\ DOMAIN t = 1..b
    BY <1>1, <1>2, LenProperties
<1>4. /\ new \in Seq(Y) /\ Len(new) = a + b
      /\ \A i \in 1..(a + b) : new[i] = IF i <= a THEN flat[i] ELSE t[i - a]
    BY <1>1, <1>2, ConcatProperties
<1>5. DOMAIN new = 1..(a + b)
    BY <1>4, LenProperties
<1> HIDE DEF new, a, b
<1>6. more \in [1..(a + b) -> 1..(m + 1)]
    BY <1>2, <1>3
<1>7. ASSUME NEW j \in 1..(a + b) PROVE new[j] \in Range(seqs[more[j]])
    <2>1. CASE j <= a
        <3>1. j \in DOMAIN flat /\ more[j] = from[j]
            BY <1>3, <2>1
        <3>2. new[j] = flat[j]
            BY <1>4, <2>1
        <3> QED BY <3>1, <3>2 DEF Origin
    <2>2. CASE ~(j <= a)
        <3>1. j - a \in DOMAIN t
            BY <1>3, <2>2
        <3>2. more[j] = m + 1
            BY <2>2
        <3>3. new[j] = t[j - a]
            BY <1>4, <2>2
        <3>4. t[j - a] \in Range(t)
            BY <3>1 DEF Range
        <3> QED BY <3>2, <3>3, <3>4 DEF t
    <2> QED BY <2>1, <2>2
<1>8. ASSUME NEW j \in 1..(a + b), NEW k \in 1..(a + b), j <= k PROVE more[j] <= more[k]
    <2>1. \A i \in 1..a : from[i] \in 1..m
        BY <1>2, <1>3
    <2>2. CASE k <= a
        <3>1. j \in DOMAIN flat /\ k \in DOMAIN flat /\ more[j] = from[j] /\ more[k] = from[k]
            BY <1>3, <1>8, <2>2
        <3> HIDE DEF more
        <3> QED BY <1>8, <3>1 DEF Origin
    <2>3. CASE ~(k <= a)
        BY <1>3, <2>1, <2>3
    <2> QED BY <2>2, <2>3
<1>9. ASSUME NEW i \in 1..(m + 1), NEW x \in Range(seqs[i])
      PROVE  \E j \in 1..(a + b) : more[j] = i /\ new[j] = x
    <2>1. CASE i \in 1..m
        <3>1. PICK j \in DOMAIN flat : from[j] = i /\ flat[j] = x
            BY <2>1 DEF Origin
        <3>2. j \in 1..(a + b) /\ more[j] = i /\ new[j] = x
            BY <1>3, <1>4, <3>1
        <3> HIDE DEF more
        <3> QED BY <3>2
    <2>2. CASE i = m + 1
        <3>1. PICK l \in DOMAIN t : t[l] = x
            BY <2>2 DEF Range, t
        <3>2. l \in 1..b
            BY <1>3, <3>1
        <3>3. a + l \in 1..(a + b) /\ ~(a + l <= a) /\ a + l - a = l
            BY <1>3, <3>2
        <3> DEFINE k == a + l
        <3>4. k \in 1..(a + b) /\ ~(k <= a) /\ k - a = l
            BY <1>3, <3>2, <3>3
        <3> HIDE DEF k
        <3>5. more[k] = i
            BY <2>2, <3>4
        <3> HIDE DEF more
        <3>6. new[k] = x
            BY <1>4, <3>1, <3>4
        <3> QED BY <3>4, <3>5, <3>6
    <2> QED BY <2>1, <2>2
<1>10. Origin(new, seqs, m + 1, more)
    <2> HIDE DEF more
    <2>1. new \in Seq(UNION {Range(seqs[i]) : i \in DOMAIN seqs})
        BY <1>4 DEF Y
    <2>2. more \in [DOMAIN new -> 1..(m + 1)]
        BY <1>5, <1>6
    <2>3. \A j \in DOMAIN new : new[j] \in Range(seqs[more[j]])
        BY <1>5, <1>7
    <2>4. \A j, k \in DOMAIN new : j <= k => more[j] <= more[k]
        BY <1>5, <1>8
    <2>5. \A i \in 1..(m + 1) : \A x \in Range(seqs[i]) :
                \E j \in DOMAIN new : more[j] = i /\ new[j] = x
        <3> TAKE i \in 1..(m + 1)
        <3> TAKE x \in Range(seqs[i])
        <3>1. \E j \in 1..(a + b) : more[j] = i /\ new[j] = x
            BY <1>9
        <3> QED BY <1>5, <3>1
    <2> QED BY <2>1, <2>2, <2>3, <2>4, <2>5 DEF Origin
<1> HIDE DEF more
<1> QED BY <1>10 DEF new, t

LEMMA Flattened ==
    ASSUME NEW X, NEW seqs \in Seq(Seq(X))
    PROVE  \E from : Origin(FlattenSeq(seqs), seqs, Len(seqs), from)
<1> DEFINE n == Len(seqs)
<1>1. n \in Nat /\ DOMAIN seqs = 1..n /\ seqs \in [1..n -> Seq(X)]
    BY LenProperties
<1>2. Origin(<<>>, seqs, 0, <<>>)
    BY DEF Origin
<1>3. CASE n = 0
    <2>1. FlattenSeq(seqs) = seqs /\ seqs = <<>>
        BY <1>1, <1>3, EmptySeq DEF FlattenSeq
    <2> QED BY <1>2, <1>3, <2>1
<1>4. CASE n # 0
    <2>1. PICK g : IsFlat(g, seqs, n) /\ FlattenSeq(seqs) = g[n]
        BY <1>1, <1>4, FlatIs
    <2> DEFINE S == {i \in 1..n : \E from : Origin(g[i], seqs, i, from)}
    <2>2. 1 \in S
        <3>1. g[1] = seqs[1]
            BY <1>1, <1>4, <2>1 DEF IsFlat
        <3>2. seqs[1] \in Seq(X) /\ 0 + 1 \in DOMAIN seqs
            BY <1>1, <1>4
        <3>3. <<>> \o seqs[0 + 1] = seqs[1]
            BY <3>2, ConcatEmptySeq
        <3>4. \E from : Origin(<<>> \o seqs[0 + 1], seqs, 0 + 1, from)
            BY <1>2, <3>2, OriginExtends
        <3> QED BY <1>1, <1>4, <3>1, <3>3, <3>4
    <2>3. ASSUME NEW i \in 1..n, i + 1 <= n, i \in S PROVE i + 1 \in S
        <3>1. PICK from : Origin(g[i], seqs, i, from)
            BY <2>3
        <3>2. i + 1 \in DOMAIN seqs /\ i \in Nat /\ i + 1 # 1 /\ i + 1 - 1 = i
            BY <1>1, <2>3
        <3>3. g[i + 1] = g[i] \o seqs[i + 1]
            <4>1. i + 1 \in 1..n
                BY <1>1, <3>2
            <4> HIDE DEF n
            <4>2. g = [k \in 1..n |-> IF k = 1 THEN seqs[k] ELSE g[k - 1] \o seqs[k]]
                BY <2>1 DEF IsFlat
            <4> DEFINE h == [k \in 1..n |-> IF k = 1 THEN seqs[k] ELSE g[k - 1] \o seqs[k]]
            <4>3. h[i + 1] = IF i + 1 = 1 THEN seqs[i + 1] ELSE g[i + 1 - 1] \o seqs[i + 1]
                BY <4>1
            <4>4. g[i + 1] = h[i + 1]
                BY <4>2
            <4> HIDE DEF h
            <4> QED BY <3>2, <4>3, <4>4
        <3>4. \E more : Origin(g[i] \o seqs[i + 1], seqs, i + 1, more)
            BY <3>1, <3>2, OriginExtends
        <3> QED BY <1>1, <3>2, <3>3, <3>4
    <2>4. n \in S
        <3>1. 1..n \subseteq S
            <4> HIDE DEF S, n
            <4> QED BY <1>1, <2>2, <2>3, Upwards
        <3>2. n \in 1..n
            BY <1>1, <1>4
        <3> HIDE DEF S, n
        <3> QED BY <3>1, <3>2
    <2> QED BY <2>1, <2>4
<1> QED BY <1>3, <1>4

-----------------------------------------------------------------------------
(* The store: sorting and searching                                        *)

\* Containers neither of which precedes the other are of one priority.
LEMMA BeforeOrder ==
    /\ \A a \in Names : ~Before(a, a)
    /\ \A a, b, c \in Names : Before(a, b) /\ Before(b, c) => Before(a, c)
    /\ \A a, b, c \in Names : ~Before(a, b) /\ ~Before(b, c) => ~Before(a, c)
<1>1. \A a \in Names : a.rank \in Nat /\ ChunkVersion(a) \in Nat
    BY WidthPositive DEF Names, ChunkVersion
<1> QED BY <1>1 DEF Before

\* A stable sort moves the elements about, and leaves none behind one that it
\* precedes.
LEMMA SortedIs ==
    ASSUME NEW s \in Seq(Names)
    PROVE  \E at \in [1..Len(s) -> 1..Len(s)] :
                /\ Sorted(s) = [k \in 1..Len(s) |-> s[at[k]]]
                /\ \A k, l \in 1..Len(s) : at[k] = at[l] => k = l
                /\ \A i \in 1..Len(s) : \E k \in 1..Len(s) : at[k] = i
                /\ \A k, l \in 1..Len(s) : k < l => ~Before(s[at[l]], s[at[k]])
<1> DEFINE n == Len(s)
           D == 1..n
           R == {p \in D \X D : Before(s[p[1]], s[p[2]])
                                \/ (~Before(s[p[2]], s[p[1]]) /\ p[1] < p[2])}
           at == [k \in D |-> CHOOSE i \in D : Rank(D, R, i) = k]
<1>1. n \in Nat /\ DOMAIN s = D /\ \A i \in D : s[i] \in Names
    BY LenProperties, ElementOfSeq
<1>2. IsFiniteSet(D) /\ Cardinality(D) = n
    <2>1. 1 \in Int /\ n \in Int
        BY <1>1
    <2>2. IsFiniteSet(1..n) /\ Cardinality(1..n) = IF 1 > n THEN 0 ELSE n - 1 + 1
        <3> HIDE DEF n
        <3> QED BY <2>1, FS_Interval
    <2> QED BY <1>1, <2>2
<1>3. \A i, j \in D : <<i, j>> \in R <=> Before(s[i], s[j]) \/ (~Before(s[j], s[i]) /\ i < j)
    OBVIOUS
<1> HIDE DEF R
<1>4. /\ \A i \in D : <<i, i>> \notin R
      /\ \A i, j \in D : i = j \/ <<i, j>> \in R \/ <<j, i>> \in R
      /\ \A i, j, k \in D : <<i, j>> \in R /\ <<j, k>> \in R => <<i, k>> \in R
    <2>1. D \subseteq Nat
        BY <1>1
    <2> HIDE DEF D
    <2>2. \A i \in D : <<i, i>> \notin R
        BY <1>1, <1>3, <2>1, BeforeOrder
    <2>3. \A i, j \in D : i = j \/ <<i, j>> \in R \/ <<j, i>> \in R
        <3> TAKE i, j \in D
        <3>1. i = j \/ i < j \/ j < i
            BY <2>1
        <3>2. <<i, j>> \in R <=> Before(s[i], s[j]) \/ (~Before(s[j], s[i]) /\ i < j)
            BY <1>3
        <3>3. <<j, i>> \in R <=> Before(s[j], s[i]) \/ (~Before(s[i], s[j]) /\ j < i)
            BY <1>3
        <3> QED BY <3>1, <3>2, <3>3
    <2>4. ASSUME NEW i \in D, NEW j \in D, NEW k \in D, <<i, j>> \in R, <<j, k>> \in R
          PROVE  <<i, k>> \in R
        <3>1. s[i] \in Names /\ s[j] \in Names /\ s[k] \in Names
            BY <1>1
        <3>2. Before(s[i], s[j]) \/ (~Before(s[j], s[i]) /\ i < j)
            BY <1>3, <2>4
        <3>3. Before(s[j], s[k]) \/ (~Before(s[k], s[j]) /\ j < k)
            BY <1>3, <2>4
        <3>4. ~Before(s[j], s[i]) /\ ~Before(s[k], s[j])
            BY <3>1, <3>2, <3>3, BeforeOrder
        <3>5. ~Before(s[k], s[i])
            BY <3>1, <3>4, BeforeOrder
        <3>6. CASE Before(s[i], s[j]) \/ Before(s[j], s[k])
            BY <1>3, <3>1, <3>4, <3>6, BeforeOrder
        <3>7. CASE i < j /\ j < k
            <4>1. i < k
                BY <2>1, <3>7
            <4> QED BY <1>3, <3>5, <4>1
        <3> QED BY <3>2, <3>3, <3>6, <3>7
    <2> QED BY <2>2, <2>3, <2>4
<1>5. /\ \A i \in D : Rank(D, R, i) \in 1..n
      /\ \A i, j \in D : <<i, j>> \in R <=> Rank(D, R, i) < Rank(D, R, j)
      /\ \A i, j \in D : Rank(D, R, i) = Rank(D, R, j) => i = j
      /\ \A k \in 1..n : \E i \in D : Rank(D, R, i) = k
    <2> HIDE DEF D, n
    <2> QED BY <1>2, <1>4, Ranks
<1>6. \A k \in D : at[k] \in D /\ Rank(D, R, at[k]) = k
    <2> HIDE DEF n
    <2> QED BY <1>5
<1>7. Sorted(s) = [k \in D |-> s[at[k]]]
    <2> DEFINE place(i) == 1 + Cardinality({j \in DOMAIN s :
                            Before(s[j], s[i]) \/ (~Before(s[i], s[j]) /\ j < i)})
    <2>1. Sorted(s) = [k \in DOMAIN s |-> s[CHOOSE i \in DOMAIN s : place(i) = k]]
        BY DEF Sorted
    <2>2. ASSUME NEW i \in D PROVE place(i) = Rank(D, R, i)
        <3>1. {j \in DOMAIN s : Before(s[j], s[i]) \/ (~Before(s[i], s[j]) /\ j < i)}
                    = {j \in D : <<j, i>> \in R}
            <4> HIDE DEF D
            <4> QED BY <1>1, <1>3
        <3> QED BY <3>1 DEF Rank
    <2>3. \A k \in D : (CHOOSE i \in D : place(i) = k) = at[k]
        <3> HIDE DEF D, place
        <3> TAKE k \in D
        <3> DEFINE c == CHOOSE i \in D : place(i) = k
        <3>1. at[k] \in D /\ place(at[k]) = k
            BY <1>6, <2>2
        <3>2. c \in D /\ place(c) = k
            <4> HIDE DEF at
            <4> QED BY <3>1
        <3> HIDE DEF c, at
        <3> QED BY <1>5, <2>2, <3>1, <3>2
    <2> HIDE DEF place, at, D
    <2>4. Sorted(s) = [k \in D |-> s[CHOOSE i \in D : place(i) = k]]
        BY <1>1, <2>1
    <2> QED BY <2>3, <2>4
<1>8. at \in [D -> D]
    BY <1>6
<1> HIDE DEF at
<1>9. \A k, l \in D : at[k] = at[l] => k = l
    <2> HIDE DEF D
    <2> QED BY <1>6
<1>10. \A i \in D : \E k \in D : at[k] = i
    BY <1>5, <1>6
<1>11. ASSUME NEW k \in D, NEW l \in D, k < l PROVE ~Before(s[at[l]], s[at[k]])
    <2>1. at[k] \in D /\ at[l] \in D /\ Rank(D, R, at[k]) = k /\ Rank(D, R, at[l]) = l
        BY <1>6
    <2>2. <<at[k], at[l]>> \in R
        <3> HIDE DEF D
        <3> QED BY <1>5, <1>11, <2>1
    <2>3. s[at[k]] \in Names /\ s[at[l]] \in Names
        BY <1>1, <2>1
    <2> HIDE DEF D
    <2> QED BY <1>3, <2>1, <2>2, <2>3, BeforeOrder
<1> QED BY <1>7, <1>8, <1>9, <1>10, <1>11

\* The first container in S.
LEMMA FirstIs ==
    ASSUME NEW S, DOMAIN containers \subseteq Nat, Listed(S) # {}
    PROVE  \E i \in Listed(S) : FirstOf(S) = containers[i] /\ \A j \in Listed(S) : i <= j
<1>1. Listed(S) \subseteq Nat
    BY DEF Listed
<1>2. \E i \in Listed(S) : \A j \in Listed(S) : i <= j
    <2> HIDE DEF Listed
    <2> QED BY <1>1, Least
<1> DEFINE i == CHOOSE i \in Listed(S) : \A j \in Listed(S) : i <= j
<1>3. i \in Listed(S) /\ \A j \in Listed(S) : i <= j
    BY <1>2
<1>4. FirstOf(S) = containers[i]
    BY DEF FirstOf
<1> HIDE DEF i
<1> QED BY <1>3, <1>4

\* A sequence of the elements of a finite set, once each.
LEMMA SetToSeqIs ==
    ASSUME NEW S, IsFiniteSet(S)
    PROVE  SetToSeq(S) \in Seq(S) /\ Range(SetToSeq(S)) = S
<1> DEFINE n == Cardinality(S)
           f == CHOOSE f \in [1..n -> S] : IsInjective(f)
<1>1. n \in Nat
    BY FS_CardinalityType
<1>2. IsFiniteSet(1..n) /\ Cardinality(1..n) = n
    <2>1. 1 \in Int /\ n \in Int
        BY <1>1
    <2>2. IsFiniteSet(1..n) /\ Cardinality(1..n) = IF 1 > n THEN 0 ELSE n - 1 + 1
        <3> HIDE DEF n
        <3> QED BY <2>1, FS_Interval
    <2> QED BY <1>1, <2>2
<1>3. ExistsBijection(1..n, S)
    BY <1>2, FS_SameCardinalityBij
<1>4. \E g \in [1..n -> S] : IsInjective(g)
    BY <1>3 DEF ExistsBijection, Bijection, Injection
<1>5. f \in [1..n -> S] /\ IsInjective(f)
    <2> HIDE DEF n
    <2> QED BY <1>4
<1>6. SetToSeq(S) = f
    BY DEF SetToSeq
<1> HIDE DEF f
<1>7. f \in Surjection(1..n, S)
    <2>1. f \in Injection(1..n, S)
        BY <1>5 DEF Injection
    <2> QED BY <1>2, <2>1, FS_Injection
<1>8. f \in Seq(S)
    <2> HIDE DEF n
    <2> QED BY <1>1, <1>5
<1>9. Range(f) = S
    <2> HIDE DEF n
    <2> QED BY <1>5, <1>7 DEF Range, Surjection
<1> QED BY <1>6, <1>8, <1>9

-----------------------------------------------------------------------------
(* The store: every container once, one version, in order once it is ready *)

ContentsOK ==
    /\ data \in [Containers -> SUBSET Packages]
    /\ toc_version \in [Containers -> Versions]
    /\ header_version \in [Containers -> Versions \cup {NoVersion}]
    /\ entries = [c \in Containers |-> IF header_version[c] = NoVersion THEN {} ELSE data[c]]

EachOnce ==
    /\ containers \in Seq(Containers)
    /\ Len(containers) = Cardinality(Containers)
    /\ \A i, j \in DOMAIN containers : containers[i] = containers[j] => i = j
    /\ \A c \in Containers : \E i \in DOMAIN containers : containers[i] = c

OneVersion ==
    \A a, b \in Containers :
        /\ toc_version[a] = toc_version[b]
        /\ a \in Headed /\ b \in Headed => header_version[a] = header_version[b]

InOrder ==
    \A k, l \in DOMAIN containers : k < l => ~Before(containers[l], containers[k])

StoreInv ==
    /\ ContentsOK
    /\ EachOnce
    /\ store \in {"listed", "opened", "validated", "ready", "refused"}
    /\ store \in {"validated", "ready"} => OneVersion
    /\ Ready => InOrder

LEMMA Places ==
    ASSUME EachOnce
    PROVE  /\ Len(containers) \in Nat
           /\ DOMAIN containers = 1..Len(containers)
           /\ DOMAIN containers \subseteq Nat
           /\ \A i \in DOMAIN containers : containers[i] \in Containers /\ containers[i] \in Names
           /\ containers \in Seq(Names)
<1>1. containers \in Seq(Containers)
    BY DEF EachOnce
<1>2. /\ Len(containers) \in Nat
      /\ DOMAIN containers = 1..Len(containers)
      /\ \A i \in 1..Len(containers) : containers[i] \in Containers
    BY <1>1, LenProperties, ElementOfSeq
<1>3. containers \in Seq(Names)
    BY <1>1, ContainersHaveNames, SeqMonotonic
<1> QED BY <1>2, <1>3, ContainersHaveNames

LEMMA StoreStarts ==
    ASSUME InitStore
    PROVE  StoreInv
<1> DEFINE n == Cardinality(Containers)
<1>1. /\ n \in Nat
      /\ containers \in [1..n -> Containers]
      /\ \A i, j \in 1..n : i # j => containers[i] # containers[j]
    BY ContainersFinite, FS_CardinalityType DEF InitStore, SetToSeqs
<1>2. IsFiniteSet(1..n) /\ Cardinality(1..n) = n
    <2>1. 1 \in Int /\ n \in Int
        BY <1>1
    <2>2. IsFiniteSet(1..n) /\ Cardinality(1..n) = IF 1 > n THEN 0 ELSE n - 1 + 1
        <3> HIDE DEF n
        <3> QED BY <2>1, FS_Interval
    <2> QED BY <1>1, <2>2
<1>3. containers \in Surjection(1..n, Containers)
    <2>1. containers \in Injection(1..n, Containers)
        <3> HIDE DEF n
        <3> QED BY <1>1 DEF Injection, IsInjective
    <2> QED BY <1>2, <2>1, ContainersFinite, FS_Injection
<1>4. EachOnce
    <2> HIDE DEF n
    <2>1. containers \in Seq(Containers) /\ Len(containers) = n /\ DOMAIN containers = 1..n
        BY <1>1
    <2>2. \A c \in Containers : \E i \in 1..n : containers[i] = c
        BY <1>3 DEF Surjection
    <2>3. \A i, j \in 1..n : containers[i] = containers[j] => i = j
        BY <1>1
    <2> QED BY <2>1, <2>2, <2>3 DEF EachOnce, n
<1>5. ContentsOK /\ store = "listed"
    BY DEF InitStore, ContentsOK
<1> QED BY <1>4, <1>5 DEF StoreInv, Ready

\* What is compared with the first is the same as every other.
LEMMA ValidatedIsOne ==
    ASSUME EachOnce, Versioned
    PROVE  OneVersion
<1>1. ASSUME NEW a \in Containers, NEW b \in Containers
      PROVE  toc_version[a] = toc_version[b]
    BY DEF EachOnce, Versioned
<1>2. ASSUME NEW a \in Headed, NEW b \in Headed
      PROVE  header_version[a] = header_version[b]
    <2>1. PICK i, j \in DOMAIN containers : containers[i] = a /\ containers[j] = b
        BY DEF EachOnce, Headed
    <2>2. i \in Listed(Headed) /\ j \in Listed(Headed)
        BY <2>1 DEF Listed
    <2> QED BY <2>1, <2>2 DEF Versioned
<1> QED BY <1>1, <1>2 DEF OneVersion

\* Sorting keeps every container.
LEMMA SortedOnce ==
    ASSUME EachOnce, containers' = Sorted(containers)
    PROVE  EachOnce' /\ InOrder'
<1> DEFINE n == Len(containers)
           new == containers'
<1>1. /\ n \in Nat /\ DOMAIN containers = 1..n
      /\ \A i \in 1..n : containers[i] \in Containers
      /\ containers \in Seq(Names)
    BY Places
<1>2. PICK at \in [1..n -> 1..n] :
                /\ Sorted(containers) = [k \in 1..n |-> containers[at[k]]]
                /\ \A k, l \in 1..n : at[k] = at[l] => k = l
                /\ \A i \in 1..n : \E k \in 1..n : at[k] = i
                /\ \A k, l \in 1..n : k < l => ~Before(containers[at[l]], containers[at[k]])
    BY <1>1, SortedIs
<1>3. new = [k \in 1..n |-> containers[at[k]]]
    BY <1>2
<1>4. n = Cardinality(Containers)
    BY DEF EachOnce
<1>5. /\ \A i, j \in 1..n : containers[i] = containers[j] => i = j
      /\ \A c \in Containers : \E i \in 1..n : containers[i] = c
    BY <1>1 DEF EachOnce
<1> HIDE DEF n, new
<1>6. /\ new \in Seq(Containers) /\ Len(new) = n /\ DOMAIN new = 1..n
      /\ \A k \in 1..n : new[k] = containers[at[k]]
    BY <1>1, <1>2, <1>3
<1>7. \A i, j \in 1..n : new[i] = new[j] => i = j
    <2> TAKE i, j \in 1..n
    <2>1. at[i] \in 1..n /\ at[j] \in 1..n
        BY <1>2
    <2>2. new[i] = containers[at[i]] /\ new[j] = containers[at[j]]
        BY <1>6
    <2> QED BY <1>2, <1>5, <2>1, <2>2
<1>8. ASSUME NEW c \in Containers PROVE \E k \in 1..n : new[k] = c
    <2>1. PICK i \in 1..n : containers[i] = c
        BY <1>5
    <2>2. PICK k \in 1..n : at[k] = i
        BY <1>2
    <2> QED BY <1>6, <2>1, <2>2
<1>9. \A k, l \in 1..n : k < l => ~Before(new[l], new[k])
    <2> TAKE k, l \in 1..n
    <2>1. new[k] = containers[at[k]] /\ new[l] = containers[at[l]]
        BY <1>6
    <2>2. k < l => ~Before(containers[at[l]], containers[at[k]])
        BY <1>2
    <2> QED BY <2>1, <2>2
<1>10. EachOnce'
    BY <1>4, <1>6, <1>7, <1>8 DEF EachOnce, new
<1>11. InOrder'
    BY <1>6, <1>9 DEF InOrder, new, Before, ChunkVersion
<1> QED BY <1>10, <1>11

LEMMA StoreSteps ==
    ASSUME StoreInv, OpenStore
    PROVE  StoreInv'
<1> USE DEF StoreInv, Ready
<1>1. ContentsOK'
    BY DEF OpenStore, OpenAll, Validate, SortByPriority, contents, ContentsOK
<1>2. OneVersion => OneVersion'
    BY DEF OpenStore, OpenAll, Validate, SortByPriority, contents, OneVersion, Headed
<1>3. containers' = containers => EachOnce'
    BY DEF EachOnce
<1>4. CASE OpenAll
    BY <1>1, <1>3, <1>4 DEF OpenAll
<1>5. CASE Validate
    BY <1>1, <1>2, <1>3, <1>5, ValidatedIsOne DEF Validate
<1>6. CASE SortByPriority
    BY <1>1, <1>2, <1>6, SortedOnce DEF SortByPriority
<1> QED BY <1>4, <1>5, <1>6 DEF OpenStore

LEMMA StoreStays ==
    ASSUME StoreInv, UNCHANGED storeVars
    PROVE  StoreInv'
<1>1. ContentsOK' /\ (OneVersion => OneVersion')
    BY DEF StoreInv, ContentsOK, OneVersion, Headed, storeVars, contents
<1>2. EachOnce'
    BY DEF StoreInv, EachOnce, storeVars
<1>3. InOrder => InOrder'
    BY DEF InOrder, storeVars, Before, ChunkVersion
<1> QED BY <1>1, <1>2, <1>3 DEF StoreInv, Ready, storeVars

-----------------------------------------------------------------------------
(* What an opened store answers                                            *)

\* A container is found where one is to be found.
LEMMA FoundThere ==
    ASSUME EachOnce, NEW S, S \subseteq Containers, S # {}
    PROVE  \E i \in Listed(S) : /\ FirstOf(S) = containers[i] /\ containers[i] \in S
                                /\ \A j \in Listed(S) : i <= j
<1>1. Listed(S) # {}
    BY DEF EachOnce, Listed
<1>2. PICK i \in Listed(S) : FirstOf(S) = containers[i] /\ \A j \in Listed(S) : i <= j
    BY <1>1, Places, FirstIs
<1> QED BY <1>2 DEF Listed

\* Of two containers in their order, the first overrides the other.
LEMMA FirstOverrides ==
    ASSUME NEW a \in Names, NEW b \in Names, a # b, ~Before(b, a),
           a.suffix < Width, b.suffix < Width
    PROVE  Overrides(a, b)
<1> DEFINE top == [rank |-> GlobalRank, suffix |-> 0]
<1>1. ChunkVersion(a) = a.suffix /\ ChunkVersion(b) = b.suffix
    BY WidthPositive DEF ChunkVersion, Names
<1>2. /\ a.rank \in Nat /\ a.suffix \in Nat /\ a = [rank |-> a.rank, suffix |-> a.suffix]
      /\ b.rank \in Nat /\ b.suffix \in Nat /\ b = [rank |-> b.rank, suffix |-> b.suffix]
    BY DEF Names
<1>3. a.rank # b.rank \/ a.suffix # b.suffix
    BY <1>2
<1>4. \/ a = top
      \/ /\ b # top
         /\ a.suffix > b.suffix \/ (a.suffix = b.suffix /\ a.rank > b.rank)
    <2>1. ~(b = top /\ a # top)
        BY DEF Before
    <2>2. CASE a # top /\ b # top
        <3>1. ~(b.suffix > a.suffix) /\ ~(b.suffix = a.suffix /\ b.rank > a.rank)
            BY <1>1, <2>2 DEF Before
        <3> QED BY <1>2, <1>3, <2>2, <3>1
    <2> QED BY <2>1, <2>2
<1> QED BY <1>2, <1>4 DEF Overrides

LEMMA ReadsTheOverriding ==
    ASSUME StoreInv
    PROVE  OverrideWins
<1> SUFFICES ASSUME Ready, \A c \in Containers : c.suffix < Width,
                    NEW p \in Packages, HasChunk(p) # {}
             PROVE  /\ ReadFrom(p) \in HasChunk(p)
                    /\ \A c \in HasChunk(p) \ {ReadFrom(p)} : Overrides(ReadFrom(p), c)
    BY DEF OverrideWins
<1> DEFINE S == HasChunk(p)
<1>1. EachOnce /\ InOrder
    BY DEF StoreInv
<1>2. S \subseteq Containers /\ S # {}
    BY DEF HasChunk
<1> HIDE DEF S
<1>3. PICK i \in Listed(S) : /\ FirstOf(S) = containers[i] /\ containers[i] \in S
                             /\ \A j \in Listed(S) : i <= j
    BY <1>1, <1>2, FoundThere
<1>4. ASSUME NEW c \in S \ {containers[i]} PROVE Overrides(containers[i], c)
    <2>1. PICK j \in DOMAIN containers : containers[j] = c
        BY <1>1, <1>2, <1>4 DEF EachOnce
    <2>2. j \in Listed(S) /\ j # i
        BY <1>4, <2>1 DEF Listed
    <2>3. i \in DOMAIN containers /\ i < j
        BY <1>1, <1>3, <2>1, <2>2, Places DEF Listed
    <2>4. ~Before(c, containers[i])
        BY <1>1, <2>1, <2>3 DEF InOrder
    <2>5. c \in Containers /\ containers[i] \in Containers
        BY <1>2, <1>3, <1>4
    <2> QED BY <1>4, <2>4, <2>5, ContainersHaveNames, FirstOverrides
<1> QED BY <1>3, <1>4 DEF ReadFrom, S

\* Which listing of packages_all comes from which container.
LEMMA Listings ==
    ASSUME ContentsOK, EachOnce
    PROVE  \E from \in [DOMAIN PackagesAll -> DOMAIN containers] :
            /\ PackagesAll \in Seq(Tasks)
            /\ \A j \in DOMAIN PackagesAll :
                    /\ PackagesAll[j].container = containers[from[j]]
                    /\ PackagesAll[j].id \in entries[containers[from[j]]]
            /\ \A j, k \in DOMAIN PackagesAll : j <= k => from[j] <= from[k]
            /\ \A i \in DOMAIN containers : \A p \in entries[containers[i]] :
                    \E j \in DOMAIN PackagesAll : from[j] = i /\ PackagesAll[j].id = p
<1> DEFINE n == Len(containers)
           listed(i) == {[id |-> p, container |-> containers[i]] : p \in entries[containers[i]]}
           seqs == [i \in 1..n |-> SetToSeq(listed(i))]
           all == PackagesAll
<1>1. n \in Nat /\ DOMAIN containers = 1..n /\ \A i \in 1..n : containers[i] \in Containers
    BY Places
<1>2. \A c \in Containers : entries[c] \subseteq Packages
    BY DEF ContentsOK
<1>3. ASSUME NEW i \in 1..n
      PROVE  listed(i) \subseteq Tasks /\ IsFiniteSet(listed(i))
    <2> DEFINE E == entries[containers[i]]
               f == [p \in E |-> [id |-> p, container |-> containers[i]]]
    <2>1. E \subseteq Packages /\ containers[i] \in Containers
        BY <1>1, <1>2
    <2>2. IsFiniteSet(E)
        <3> HIDE DEF E
        <3> QED BY <2>1, PackagesFinite, FS_Subset
    <2>3. f \in Surjection(E, listed(i))
        BY DEF Surjection
    <2>4. listed(i) \subseteq Tasks
        BY <2>1 DEF Tasks
    <2> HIDE DEF f, E, listed
    <2> QED BY <2>2, <2>3, <2>4, FS_Surjection
<1>4. ASSUME NEW i \in 1..n
      PROVE  SetToSeq(listed(i)) \in Seq(Tasks) /\ Range(SetToSeq(listed(i))) = listed(i)
    <2>1. listed(i) \subseteq Tasks /\ IsFiniteSet(listed(i))
        BY <1>3
    <2> HIDE DEF listed
    <2>2. SetToSeq(listed(i)) \in Seq(listed(i)) /\ Range(SetToSeq(listed(i))) = listed(i)
        BY <2>1, SetToSeqIs
    <2> QED BY <2>1, <2>2, SeqMonotonic
<1>5. all = FlattenSeq(seqs)
    BY <1>1 DEF PackagesAll
<1>6. /\ seqs \in Seq(Seq(Tasks)) /\ Len(seqs) = n /\ DOMAIN seqs = 1..n
      /\ \A i \in 1..n : Range(seqs[i]) = listed(i)
    <2> HIDE DEF n, listed
    <2> QED BY <1>1, <1>4
<1> HIDE DEF seqs
<1>7. PICK from : Origin(FlattenSeq(seqs), seqs, n, from)
    BY <1>6, Flattened
<1> HIDE DEF all, n
<1>8. /\ all \in Seq(UNION {Range(seqs[i]) : i \in DOMAIN seqs})
      /\ from \in [DOMAIN all -> 1..n]
      /\ \A j \in DOMAIN all : all[j] \in Range(seqs[from[j]])
      /\ \A j, k \in DOMAIN all : j <= k => from[j] <= from[k]
      /\ \A i \in 1..n : \A x \in Range(seqs[i]) : \E j \in DOMAIN all : from[j] = i /\ all[j] = x
    BY <1>5, <1>7 DEF Origin
<1>9. all \in Seq(Tasks)
    <2>1. UNION {Range(seqs[i]) : i \in DOMAIN seqs} \subseteq Tasks
        <3>1. \A i \in 1..n : Range(seqs[i]) \subseteq Tasks
            <4> HIDE DEF listed
            <4> QED BY <1>3, <1>6
        <3> QED BY <1>6, <3>1
    <2> QED BY <1>8, <2>1, SeqMonotonic
<1>10. ASSUME NEW j \in DOMAIN all
       PROVE  all[j].container = containers[from[j]] /\ all[j].id \in entries[containers[from[j]]]
    <2>1. from[j] \in 1..n
        BY <1>8
    <2>2. all[j] \in listed(from[j])
        <3> HIDE DEF listed
        <3> QED BY <1>6, <1>8, <2>1
    <2> QED BY <2>2
<1>11. ASSUME NEW i \in 1..n, NEW p \in entries[containers[i]]
       PROVE  \E j \in DOMAIN all : from[j] = i /\ all[j].id = p
    <2> DEFINE x == [id |-> p, container |-> containers[i]]
    <2>1. x \in listed(i)
        OBVIOUS
    <2>2. Range(seqs[i]) = listed(i)
        <3> HIDE DEF x, listed
        <3> QED BY <1>6
    <2>3. PICK j \in DOMAIN all : from[j] = i /\ all[j] = x
        <3> HIDE DEF x, listed
        <3>1. x \in Range(seqs[i])
            BY <2>1, <2>2
        <3>2. \A y \in Range(seqs[i]) : \E j \in DOMAIN all : from[j] = i /\ all[j] = y
            BY <1>8
        <3> QED BY <3>1, <3>2
    <2> QED BY <2>3
<1>12. from \in [DOMAIN all -> DOMAIN containers]
    BY <1>1, <1>8
<1> QED BY <1>1, <1>8, <1>9, <1>10, <1>11, <1>12 DEF all

\* packages names each package once, under the container whose store entry is
\* the one in use.
LEMMA UniqueIs ==
    ASSUME ContentsOK, EachOnce
    PROVE  /\ \A k \in DOMAIN UniquePackages :
                /\ UniquePackages[k] \in Tasks
                /\ UniquePackages[k].id \in entries[UniquePackages[k].container]
                /\ UniquePackages[k].container = StoreEntryFrom(UniquePackages[k].id)
           /\ \A k, l \in DOMAIN UniquePackages :
                UniquePackages[k].id = UniquePackages[l].id => k = l
           /\ \A c \in Containers : \A p \in entries[c] :
                \E k \in DOMAIN UniquePackages : UniquePackages[k].id = p
<1> DEFINE all == PackagesAll
           U == UniquePackages
           D == DOMAIN all
           I == {i \in D : \A j \in D : j < i => all[j].id # all[i].id}
           m == Cardinality(I)
<1>1. PICK from \in [D -> DOMAIN containers] :
            /\ all \in Seq(Tasks)
            /\ \A j \in D : /\ all[j].container = containers[from[j]]
                            /\ all[j].id \in entries[containers[from[j]]]
            /\ \A j, k \in D : j <= k => from[j] <= from[k]
            /\ \A i \in DOMAIN containers : \A p \in entries[containers[i]] :
                    \E j \in D : from[j] = i /\ all[j].id = p
    BY Listings
<1>2. U = KeepAt(all, I)
    BY DEF UniquePackages
<1> HIDE DEF all, U
<1>3. Len(all) \in Nat /\ D = 1..Len(all) /\ \A j \in D : all[j] \in Tasks
    BY <1>1, LenProperties, ElementOfSeq
<1>4. \A i \in I : i \in D /\ \A j \in D : j < i => all[j].id # all[i].id
    OBVIOUS
<1>5. I \subseteq 1..Len(all)
    BY <1>3
<1>6. m \in Nat /\ DOMAIN U = 1..m /\ \E at : Keeps(at, all, I, U)
    <2> HIDE DEF I
    <2> QED BY <1>2, <1>3, <1>5, Kept
<1>7. PICK at \in [1..m -> I] :
            /\ \A k \in 1..m : U[k] = all[at[k]]
            /\ \A k, l \in 1..m : at[k] = at[l] => k = l
            /\ \A i \in I : \E k \in 1..m : at[k] = i
    <2> HIDE DEF I
    <2> QED BY <1>6 DEF Keeps
<1>8. D \subseteq Nat /\ DOMAIN containers \subseteq Nat
      /\ \A i \in DOMAIN containers : containers[i] \in Containers
    BY <1>3, Places
<1>9. ASSUME NEW c \in Containers, NEW p \in entries[c]
      PROVE  \E k \in 1..m : U[k].id = p
    <2> DEFINE J == {j \in D : all[j].id = p}
    <2>1. PICK i \in DOMAIN containers : containers[i] = c
        BY DEF EachOnce
    <2>2. J # {}
        BY <1>1, <1>9, <2>1
    <2>3. J \subseteq Nat
        BY <1>8
    <2>4. PICK j \in J : \A l \in J : j <= l
        <3> HIDE DEF J
        <3> QED BY <2>2, <2>3, Least
    <2>5. j \in I
        <3>1. j \in D /\ all[j].id = p
            BY <2>4
        <3>2. ASSUME NEW l \in D, l < j PROVE all[l].id # p
            <4>1. l \in Nat /\ j \in Nat
                BY <1>8, <3>1
            <4> QED BY <2>4, <3>2, <4>1
        <3> QED BY <3>1, <3>2
    <2>6. PICK k \in 1..m : at[k] = j
        <3> HIDE DEF I, J
        <3> QED BY <1>7, <2>5
    <2> HIDE DEF I
    <2> QED BY <1>7, <2>4, <2>6
<1> HIDE DEF I, m, D
<1>10. ASSUME NEW k \in 1..m, NEW l \in 1..m, U[k].id = U[l].id PROVE k = l
    <2>1. at[k] \in I /\ at[l] \in I /\ U[k] = all[at[k]] /\ U[l] = all[at[l]]
        BY <1>7
    <2>2. at[k] \in D /\ at[l] \in D
        BY <1>4, <2>1
    <2>3. ~(at[k] < at[l]) /\ ~(at[l] < at[k])
        BY <1>4, <1>10, <2>1, <2>2
    <2>4. at[k] = at[l]
        <3>1. at[k] \in Nat /\ at[l] \in Nat
            BY <1>8, <2>2
        <3> QED BY <2>3, <3>1
    <2> QED BY <1>7, <2>4
<1>11. ASSUME NEW k \in 1..m
       PROVE  /\ U[k] \in Tasks
              /\ U[k].id \in entries[U[k].container]
              /\ U[k].container = StoreEntryFrom(U[k].id)
    <2> DEFINE j == at[k]
               p == all[j].id
               S == HasEntry(p)
    <2>1. j \in I /\ U[k] = all[j]
        BY <1>7
    <2>2. j \in D
        BY <1>4, <2>1
    <2> HIDE DEF j
    <2>3. from[j] \in DOMAIN containers /\ all[j].container = containers[from[j]]
          /\ p \in entries[containers[from[j]]]
        BY <1>1, <2>2
    <2> HIDE DEF p
    <2>4. from[j] \in Listed(S)
        BY <1>8, <2>3 DEF Listed, HasEntry
    <2>5. S \subseteq Containers /\ S # {}
        BY <1>8, <2>3 DEF HasEntry
    <2> HIDE DEF S
    <2>6. PICK i \in Listed(S) : /\ FirstOf(S) = containers[i] /\ containers[i] \in S
                                 /\ \A l \in Listed(S) : i <= l
        BY <2>5, FoundThere
    <2>7. i \in DOMAIN containers /\ p \in entries[containers[i]]
        BY <2>6 DEF Listed, S, HasEntry
    <2>8. PICK l \in D : from[l] = i /\ all[l].id = p
        BY <1>1, <2>7
    <2>9. j <= l
        <3>1. ~(l < j)
            BY <1>4, <2>1, <2>8 DEF p
        <3> QED BY <1>8, <2>2, <3>1
    <2>10. from[j] = i
        <3>1. from[j] <= i /\ i <= from[j]
            BY <1>1, <2>2, <2>4, <2>6, <2>8, <2>9
        <3> QED BY <1>8, <2>3, <2>7, <3>1
    <2>11. U[k].container = StoreEntryFrom(p)
        BY <2>1, <2>3, <2>6, <2>10 DEF StoreEntryFrom, S
    <2> QED BY <1>3, <2>1, <2>2, <2>3, <2>11 DEF p
<1> QED BY <1>6, <1>9, <1>10, <1>11 DEF U

LEMMA StoreAnswersAgree ==
    ASSUME StoreInv
    PROVE  StoreIsConsistent
<1>1. ContentsOK /\ EachOnce /\ (Ready => OneVersion)
    BY DEF StoreInv, Ready
<1>2. NoMixedVersions
    BY <1>1 DEF NoMixedVersions, OneVersion, Headed
<1>3. DataAndEntryAgree
    <2> SUFFICES ASSUME NEW p \in Packages, HasChunk(p) # {},
                        header_version[ReadFrom(p)] # NoVersion
                 PROVE  StoreEntryFrom(p) = ReadFrom(p)
        BY DEF DataAndEntryAgree
    <2> DEFINE C == HasChunk(p)
               E == HasEntry(p)
    <2>1. C \subseteq Containers /\ E \subseteq C
        BY <1>1 DEF HasChunk, HasEntry, ContentsOK
    <2>2. \A c \in C : header_version[c] # NoVersion => c \in E
        BY <1>1 DEF HasChunk, HasEntry, ContentsOK
    <2> HIDE DEF C, E
    <2>3. PICK i \in Listed(C) : /\ FirstOf(C) = containers[i] /\ containers[i] \in C
                                 /\ \A j \in Listed(C) : i <= j
        BY <1>1, <2>1, FoundThere DEF C
    <2>4. containers[i] \in E
        BY <2>2, <2>3 DEF ReadFrom, C
    <2>5. PICK k \in Listed(E) : /\ FirstOf(E) = containers[k] /\ containers[k] \in E
                                 /\ \A j \in Listed(E) : k <= j
        BY <1>1, <2>1, <2>4, FoundThere
    <2>6. i \in Listed(E) /\ k \in Listed(C)
        BY <2>1, <2>3, <2>4, <2>5 DEF Listed
    <2>7. i = k
        <3>1. i <= k /\ k <= i
            BY <2>3, <2>5, <2>6
        <3>2. i \in Nat /\ k \in Nat
            BY <1>1, <2>6, Places DEF Listed
        <3> QED BY <3>1, <3>2
    <2> QED BY <2>3, <2>5, <2>7 DEF ReadFrom, StoreEntryFrom, C, E
<1>4. PackagesOnce
    <2>1. {UniquePackages[k].id : k \in DOMAIN UniquePackages} = UNION {entries[c] : c \in Containers}
        <3>1. \A k \in DOMAIN UniquePackages :
                    \E c \in Containers : UniquePackages[k].id \in entries[c]
            <4>1. \A t \in Tasks : t.container \in Containers
                BY DEF Tasks
            <4> QED BY <1>1, <4>1, UniqueIs
        <3>2. \A c \in Containers : \A p \in entries[c] :
                    \E k \in DOMAIN UniquePackages : UniquePackages[k].id = p
            BY <1>1, UniqueIs
        <3> QED BY <3>1, <3>2
    <2> QED BY <1>1, <2>1, UniqueIs DEF PackagesOnce
<1> QED BY <1>2, <1>3, <1>4 DEF StoreIsConsistent

-----------------------------------------------------------------------------
(* The batch: which files are there while an item is worked on             *)

Busy == {w \in Workers : task[w] # NoTask}
InWork == {task[w].source : w \in Busy}

BatchTypeOK ==
    /\ item \in DOMAIN Items
    /\ phase \in {"scanning", "converting", "shaders", "done", "failed"}
    /\ tasks \subseteq Tasks
    /\ todo \subseteq tasks
    /\ task \in [Workers -> [source : tasks \ todo, file : 1..4] \cup {NoTask}]
    /\ files \in [DOMAIN Items -> [Packages -> [ToSet(Exts) -> Seq(Containers \cup {Cut})]]]

\* Two workers never convert the same package, and none does between items.
OneEach ==
    /\ \A v, w \in Busy : task[v].source = task[w].source => v = w
    /\ phase \in {"scanning", "shaders", "done"} => todo = {} /\ Busy = {}

Blank(i) == \A p \in Packages, e \in ToSet(Exts) : files[i][p][e] = NoFile

\* Nothing is written for an item before it is scanned, nor to a store that is
\* not ready.
Untouched ==
    /\ \A i \in DOMAIN Items : i > item \/ (i = item /\ phase = "scanning") => Blank(i)
    /\ ~Ready => tasks = {} /\ \A i \in DOMAIN Items : Blank(i)

Wanted(i, t) ==
    IF Items[i] = {} THEN t.container = StoreEntryFrom(t.id) ELSE t.container \in Items[i]

OnlyWanted == \A t \in todo \cup InWork : Wanted(item, t)

\* The failed packages, and what is there of the others.
Counted(F) ==
    /\ F \subseteq tasks \ todo
    /\ failed = Cardinality(F)
    /\ F \cap InWork = {}

FilesOf(t) == files[item][t.id]

Progress(F) ==
    /\ \A t \in todo : \A e \in ToSet(Exts) : FilesOf(t)[e] = NoFile
    /\ \A t \in tasks, w \in Busy : t = task[w].source =>
            \A k \in 1..4 : FilesOf(t)[Exts[k]] =
                                IF k < task[w].file THEN Contents(t, Exts[k]) ELSE NoFile
    /\ \A t \in F : ~Complete(t)
    /\ \A t \in tasks \ (todo \cup InWork \cup F) : Complete(t)

FailuresCounted ==
    \E F \in SUBSET tasks :
        Counted(F) /\ (phase \in {"converting", "shaders"} /\ NoOverlap => Progress(F))

BatchInv ==
    /\ StoreInv
    /\ BatchTypeOK
    /\ OneEach
    /\ Untouched
    /\ OnlyWanted
    /\ FailuresCounted
    /\ ExtractsWhatWasAsked

LEMMA ExtsAre ==
    /\ Len(Exts) = 4
    /\ ToSet(Exts) = {"uasset", "uexp", "ubulk", "uptnl"}
    /\ \A k \in 1..4 : Exts[k] \in ToSet(Exts)
    /\ \A e \in ToSet(Exts) : \E k \in 1..4 : Exts[k] = e
    /\ \A k, l \in 1..4 : Exts[k] = Exts[l] => k = l
    /\ Exts[1] = "uasset"
<1>1. /\ Len(Exts) = 4 /\ DOMAIN Exts = 1..4
      /\ Exts[1] = "uasset" /\ Exts[2] = "uexp" /\ Exts[3] = "ubulk" /\ Exts[4] = "uptnl"
    BY DEF Exts
<1>2. 1..4 = {1, 2, 3, 4}
    OBVIOUS
<1>3. ToSet(Exts) = {Exts[k] : k \in 1..4}
    BY <1>1 DEF ToSet
<1> HIDE DEF Exts
<1>4. ToSet(Exts) = {"uasset", "uexp", "ubulk", "uptnl"}
    BY <1>1, <1>2, <1>3
<1>5. \A k, l \in 1..4 : Exts[k] = Exts[l] => k = l
    BY <1>1, <1>2
<1> QED BY <1>1, <1>3, <1>4, <1>5

\* A file that was cut holds what no conversion would write.
LEMMA ContentsAre ==
    ASSUME EachOnce, NEW t \in Tasks, NEW e
    PROVE  /\ Contents(t, e) \in Seq(Containers)
           /\ Contents(t, e) # CutFile
           /\ e = "uasset" => Contents(t, e) = <<t.container>>
           /\ e = "uasset" => Contents(t, e) # NoFile
<1> DEFINE I == {i \in DOMAIN containers : t.id \in optional[containers[i]]}
           n == Len(containers)
<1>1. n \in Nat /\ I \subseteq 1..n /\ \A i \in 1..n : containers[i] \in Containers
    BY Places
<1>2. KeepAt(containers, I) \in Seq(Containers)
    <2> HIDE DEF I, n
    <2>1. PICK at : /\ Cardinality(I) \in Nat
                    /\ DOMAIN KeepAt(containers, I) = 1..Cardinality(I)
                    /\ Keeps(at, containers, I, KeepAt(containers, I))
        BY <1>1, Kept
    <2>2. \A k \in 1..Cardinality(I) : KeepAt(containers, I)[k] \in Containers
        BY <1>1, <2>1 DEF Keeps
    <2>3. KeepAt(containers, I) = [k \in 1..Cardinality(I) |-> KeepAt(containers, I)[k]]
        BY <2>1 DEF KeepAt
    <2> QED BY <2>1, <2>2, <2>3
<1>3. <<t.container>> \in Seq(Containers)
    BY DEF Tasks
<1>4. Contents(t, e) \in Seq(Containers)
    BY <1>2, <1>3 DEF Contents
<1>5. CutFile \notin Seq(Containers)
    <2> SUFFICES ASSUME CutFile \in Seq(Containers) PROVE FALSE
        OBVIOUS
    <2>1. CutFile[1] = Cut /\ Len(CutFile) = 1
        BY DEF CutFile
    <2>2. CutFile[1] \in Containers
        BY <2>1, ElementOfSeq
    <2> QED BY <2>1, <2>2, CutIsNoContainer
<1> HIDE DEF I
<1> QED BY <1>4, <1>5 DEF Contents, NoFile

LEMMA TasksFinite ==
    IsFiniteSet(Tasks)
<1> DEFINE pairs == Packages \X Containers
           f == [q \in pairs |-> [id |-> q[1], container |-> q[2]]]
<1>1. IsFiniteSet(pairs)
    BY PackagesFinite, ContainersFinite, FS_Product
<1>2. f \in Surjection(pairs, Tasks)
    <2>1. f \in [pairs -> Tasks]
        BY DEF Tasks
    <2>2. ASSUME NEW t \in Tasks PROVE \E q \in pairs : f[q] = t
        <3>1. <<t.id, t.container>> \in pairs /\ t = [id |-> t.id, container |-> t.container]
            BY DEF Tasks
        <3>2. f[<<t.id, t.container>>] = t
            BY <3>1
        <3> QED BY <3>1, <3>2
    <2> QED BY <2>1, <2>2 DEF Surjection
<1> HIDE DEF f
<1> QED BY <1>1, <1>2, FS_Surjection

\* What is scanned was asked for.
LEMMA ListingIs ==
    ASSUME StoreInv, NEW i \in DOMAIN Items
    PROVE  /\ Listing(Items[i]) \subseteq Tasks
           /\ \A t \in Listing(Items[i]) : Wanted(i, t)
<1>1. ContentsOK /\ EachOnce
    BY DEF StoreInv
<1>2. \A l \in ToSet(PackagesAll) : l \in Tasks
    <2>1. PackagesAll \in Seq(Tasks)
        BY <1>1, Listings
    <2>2. DOMAIN PackagesAll = 1..Len(PackagesAll)
        BY <2>1, LenProperties
    <2>3. \A j \in DOMAIN PackagesAll : PackagesAll[j] \in Tasks
        BY <2>1, <2>2, ElementOfSeq
    <2> QED BY <2>3 DEF ToSet
<1>3. \A l \in ToSet(UniquePackages) : l \in Tasks /\ l.container = StoreEntryFrom(l.id)
    BY <1>1, UniqueIs DEF ToSet
<1> QED BY <1>2, <1>3 DEF Listing, Wanted

\* The answers of a store are the same as long as nothing is done to it.
LEMMA SameAnswers ==
    ASSUME UNCHANGED <<storeVars, given>>
    PROVE  /\ Ready' <=> Ready
           /\ StoreInv => StoreInv'
           /\ \A t, e : Contents(t, e)' = Contents(t, e)
           /\ \A p : StoreEntryFrom(p)' = StoreEntryFrom(p)
           /\ \A i, t : Wanted(i, t)' <=> Wanted(i, t)
<1>1. \A p : StoreEntryFrom(p)' = StoreEntryFrom(p)
    BY DEF StoreEntryFrom, FirstOf, Listed, HasEntry, storeVars, contents
<1>2. \A t, e : Contents(t, e)' = Contents(t, e)
    BY DEF Contents, KeepAt, storeVars, given
<1>3. \A i, t : Wanted(i, t)' <=> Wanted(i, t)
    BY <1>1 DEF Wanted
<1> QED BY <1>1, <1>2, <1>3, StoreStays DEF Ready, storeVars

\* Something is in work only where there are tasks, and in a ready store.
LEMMA InWorkIs ==
    ASSUME BatchTypeOK, OneEach, Untouched, NEW w \in Busy
    PROVE  /\ Ready
           /\ task[w] = [source |-> task[w].source, file |-> task[w].file]
           /\ task[w].source \in tasks \ todo /\ task[w].source \in Tasks
           /\ task[w].source.id \in Packages /\ task[w].source \in InWork
           /\ task[w].file \in 1..4
           /\ phase \in {"converting", "failed"}
<1>1. task[w] \in [source : tasks \ todo, file : 1..4]
    BY DEF BatchTypeOK, Busy
<1>2. /\ task[w].source \in tasks \ todo /\ task[w].file \in 1..4
      /\ task[w] = [source |-> task[w].source, file |-> task[w].file]
    BY <1>1
<1>3. task[w].source \in Tasks
    BY <1>2 DEF BatchTypeOK
<1>4. task[w].source.id \in Packages
    BY <1>3 DEF Tasks
<1>5. phase \in {"converting", "failed"}
    BY DEF BatchTypeOK, OneEach
<1> QED BY <1>2, <1>3, <1>4, <1>5 DEF InWork, Untouched

Written(p, x, v) == files' = [files EXCEPT ![item][p][x] = v]

\* Writing a file changes no other.
LEMMA FileWritten ==
    ASSUME BatchTypeOK, NEW p \in Packages, NEW x \in ToSet(Exts),
           NEW v \in Seq(Containers \cup {Cut}),
           Written(p, x, v)
    PROVE  /\ files' \in [DOMAIN Items -> [Packages -> [ToSet(Exts) -> Seq(Containers \cup {Cut})]]]
           /\ \A i \in DOMAIN Items, q \in Packages, e \in ToSet(Exts) :
                files'[i][q][e] = IF i = item /\ q = p /\ e = x THEN v ELSE files[i][q][e]
<1> DEFINE S == Seq(Containers \cup {Cut})
           E == ToSet(Exts)
<1>1. files \in [DOMAIN Items -> [Packages -> [E -> S]]] /\ item \in DOMAIN Items
    BY DEF BatchTypeOK
<1>2. v \in S /\ x \in E /\ files' = [files EXCEPT ![item][p][x] = v]
    BY DEF Written
<1> HIDE DEF S, E
<1>3. files' \in [DOMAIN Items -> [Packages -> [E -> S]]]
    BY <1>1, <1>2
<1>4. \A i \in DOMAIN Items, q \in Packages, e \in E :
                files'[i][q][e] = IF i = item /\ q = p /\ e = x THEN v ELSE files[i][q][e]
    BY <1>1, <1>2
<1> QED BY <1>3, <1>4 DEF S, E

LEMMA SameFiles ==
    ASSUME UNCHANGED <<storeVars, given, item, files>>
    PROVE  /\ ExtractsWhatWasAsked => ExtractsWhatWasAsked'
           /\ \A t : FilesOf(t)' = FilesOf(t)
           /\ \A t : Complete(t)' <=> Complete(t)
           /\ \A i : Blank(i)' <=> Blank(i)
<1>1. \A t, e : Contents(t, e)' = Contents(t, e)
    BY SameAnswers
<1>2. \A p : StoreEntryFrom(p)' = StoreEntryFrom(p)
    BY SameAnswers
<1>3. ExtractsWhatWasAsked => ExtractsWhatWasAsked'
    BY <1>2 DEF ExtractsWhatWasAsked
<1>4. \A t : FilesOf(t)' = FilesOf(t)
    BY DEF FilesOf
<1>5. \A t : Complete(t)' <=> Complete(t)
    BY <1>1 DEF Complete
<1>6. \A i : Blank(i)' <=> Blank(i)
    BY DEF Blank
<1> QED BY <1>3, <1>4, <1>5, <1>6

\* Writing for one package leaves the files of the others alone, if the item
\* lists no package twice.
LEMMA OtherFiles ==
    ASSUME BatchTypeOK, NoOverlap, NEW s \in tasks, NEW x \in ToSet(Exts),
           NEW v \in Seq(Containers \cup {Cut}),
           Written(s.id, x, v),
           UNCHANGED <<storeVars, given, item>>
    PROVE  /\ \A t \in tasks \ {s} : Complete(t)' <=> Complete(t)
           /\ \A t \in tasks \ {s} : \A e \in ToSet(Exts) : FilesOf(t)'[e] = FilesOf(t)[e]
           /\ \A e \in ToSet(Exts) : FilesOf(s)'[e] = IF e = x THEN v ELSE FilesOf(s)[e]
<1>1. \A t \in tasks : t.id \in Packages
    BY DEF BatchTypeOK, Tasks
<1>2. item \in DOMAIN Items
    BY DEF BatchTypeOK
<1>3. \A t \in tasks \ {s} : t.id # s.id
    BY DEF NoOverlap
<1>4. \A i \in DOMAIN Items, q \in Packages, e \in ToSet(Exts) :
            files'[i][q][e] = IF i = item /\ q = s.id /\ e = x THEN v ELSE files[i][q][e]
    <2>1. s.id \in Packages
        BY <1>1
    <2> QED BY <2>1, FileWritten
<1>5. ASSUME NEW t \in tasks \ {s}
      PROVE  \A e \in ToSet(Exts) : FilesOf(t)'[e] = FilesOf(t)[e]
    BY <1>1, <1>2, <1>3, <1>4 DEF FilesOf
<1>6. \A e \in ToSet(Exts) : FilesOf(s)'[e] = IF e = x THEN v ELSE FilesOf(s)[e]
    BY <1>1, <1>2, <1>4 DEF FilesOf
<1>7. ASSUME NEW t \in tasks \ {s} PROVE Complete(t)' <=> Complete(t)
    <2>1. \A e : Contents(t, e)' = Contents(t, e)
        BY SameAnswers
    <2>2. Complete(t) <=> \A e \in ToSet(Exts) : FilesOf(t)[e] = Contents(t, e)
        BY DEF Complete, FilesOf
    <2>3. Complete(t)' <=> \A e \in ToSet(Exts) : FilesOf(t)'[e] = Contents(t, e)'
        BY DEF Complete, FilesOf
    <2>4. \A e \in ToSet(Exts) : FilesOf(t)'[e] = Contents(t, e)' <=> FilesOf(t)[e] = Contents(t, e)
        BY <1>5, <2>1
    <2> QED BY <2>2, <2>3, <2>4
<1> QED BY <1>5, <1>6, <1>7

\* A worker is done with its package.
LEMMA Stops ==
    ASSUME BatchTypeOK, OneEach, NEW w \in Busy,
           task' = [task EXCEPT ![w] = NoTask], UNCHANGED <<tasks, todo>>
    PROVE  /\ task' \in [Workers -> [source : tasks \ todo, file : 1..4] \cup {NoTask}]
           /\ Busy' = Busy \ {w}
           /\ \A v \in Busy' : task'[v] = task[v]
           /\ InWork' = InWork \ {task[w].source}
           /\ \A u, v \in Busy' : task'[u].source = task'[v].source => u = v
<1>1. task \in [Workers -> [source : tasks \ todo, file : 1..4] \cup {NoTask}] /\ w \in Workers
    BY DEF BatchTypeOK, Busy
<1>2. \A v \in Workers : task'[v] = IF v = w THEN NoTask ELSE task[v]
    BY <1>1
<1>3. Busy' = Busy \ {w}
    BY <1>2 DEF Busy
<1>4. \A v \in Busy' : task'[v] = task[v]
    BY <1>2, <1>3 DEF Busy
<1>5. \A u, v \in Busy : task[u].source = task[v].source => u = v
    BY DEF OneEach
<1>6. InWork' = {task[v].source : v \in Busy \ {w}}
    BY <1>3, <1>4 DEF InWork
<1>7. {task[v].source : v \in Busy \ {w}} = InWork \ {task[w].source}
    BY <1>5 DEF InWork
<1> QED BY <1>1, <1>3, <1>4, <1>5, <1>6, <1>7

\* A worker goes on to its next file.
LEMMA GoesOn ==
    ASSUME BatchTypeOK, OneEach, NEW w \in Busy, task[w].file # 4,
           Advance(w), UNCHANGED <<tasks, todo>>
    PROVE  /\ task' \in [Workers -> [source : tasks \ todo, file : 1..4] \cup {NoTask}]
           /\ Busy' = Busy
           /\ \A v \in Busy \ {w} : task'[v] = task[v]
           /\ task'[w].source = task[w].source /\ task'[w].file = task[w].file + 1
           /\ InWork' = InWork
           /\ \A u, v \in Busy' : task'[u].source = task'[v].source => u = v
<1> DEFINE next == [task[w] EXCEPT !.file = @ + 1]
<1>1. task \in [Workers -> [source : tasks \ todo, file : 1..4] \cup {NoTask}] /\ w \in Workers
    BY DEF BatchTypeOK, Busy
<1>2. task[w] \in [source : tasks \ todo, file : 1..4]
    BY <1>1 DEF Busy
<1>3. /\ next \in [source : tasks \ todo, file : 1..4]
      /\ next.source = task[w].source /\ next.file = task[w].file + 1
    BY <1>2
<1>4. next # NoTask
    BY <1>3, NoTaskIsNone DEF BatchTypeOK
<1>5. task' = [task EXCEPT ![w] = next]
    <2>1. Len(Exts) = 4
        BY ExtsAre
    <2> QED BY <1>1, <2>1 DEF Advance
<1> HIDE DEF next
<1>6. \A v \in Workers : task'[v] = IF v = w THEN next ELSE task[v]
    BY <1>1, <1>5
<1>7. Busy' = Busy
    BY <1>4, <1>6 DEF Busy
<1>8. Busy \subseteq Workers
    BY DEF Busy
<1>9. \A v \in Busy : task'[v].source = task[v].source
    BY <1>3, <1>6, <1>8
<1>10. InWork' = InWork
    BY <1>7, <1>9 DEF InWork
<1>11. \A u, v \in Busy : task[u].source = task[v].source => u = v
    BY DEF OneEach
<1> QED BY <1>1, <1>3, <1>5, <1>6, <1>7, <1>8, <1>9, <1>10, <1>11

LEMMA StartsRight ==
    ASSUME Init
    PROVE  BatchInv
<1>1. StoreInv /\ store = "listed"
    BY StoreStarts DEF Init, InitStore
<1>2. Busy = {} /\ InWork = {}
    BY DEF Init, Busy, InWork
<1>3. \A i \in DOMAIN Items : Blank(i)
    BY DEF Init, Blank
<1>4. BatchTypeOK
    <2>1. item \in DOMAIN Items
        <3>1. Len(Items) \in Nat \ {0} /\ DOMAIN Items = 1..Len(Items)
            BY SomeItems, EmptySeq, LenProperties
        <3> QED BY <3>1 DEF Init
    <2>2. NoFile \in Seq(Containers \cup {Cut})
        BY EmptySeq DEF NoFile
    <2>3. files \in [DOMAIN Items -> [Packages -> [ToSet(Exts) -> Seq(Containers \cup {Cut})]]]
        BY <2>2 DEF Init
    <2>4. task \in [Workers -> [source : tasks \ todo, file : 1..4] \cup {NoTask}]
        BY DEF Init
    <2> QED BY <2>1, <2>3, <2>4 DEF Init, BatchTypeOK
<1>5. FailuresCounted
    <2>1. Counted({})
        BY FS_EmptySet DEF Counted, Init
    <2>2. phase = "scanning"
        BY DEF Init
    <2> QED BY <2>1, <2>2 DEF FailuresCounted
<1>6. ExtractsWhatWasAsked
    <2>1. "uasset" \in ToSet(Exts)
        BY ExtsAre
    <2> QED BY <1>3, <2>1 DEF ExtractsWhatWasAsked, Blank
<1>7. OneEach /\ Untouched /\ OnlyWanted
    BY <1>1, <1>2, <1>3 DEF OneEach, Untouched, OnlyWanted, Init, Ready
<1> QED BY <1>1, <1>4, <1>5, <1>6, <1>7 DEF BatchInv

\* Nothing is there while the store is being opened.
LEMMA OpeningKeeps ==
    ASSUME BatchInv, OpenBatch
    PROVE  BatchInv'
<1>1. /\ OpenStore
      /\ UNCHANGED <<given, item, phase, todo, tasks, task, failed, files>>
    BY DEF OpenBatch
<1>2. StoreInv'
    BY <1>1, StoreSteps DEF BatchInv
<1>3. ~Ready
    BY <1>1 DEF OpenStore, OpenAll, Validate, SortByPriority, Ready
<1>4. tasks = {} /\ \A i \in DOMAIN Items : Blank(i)
    BY <1>3 DEF BatchInv, Untouched
<1>5. \A i \in DOMAIN Items : Blank(i)'
    BY <1>1, <1>4 DEF Blank
<1>6. Busy' = Busy /\ InWork' = InWork
    BY <1>1 DEF Busy, InWork
<1>7. todo = {} /\ InWork = {} /\ Busy = {}
    <2>1. task \in [Workers -> [source : tasks \ todo, file : 1..4] \cup {NoTask}] /\ todo \subseteq tasks
        BY DEF BatchInv, BatchTypeOK
    <2>2. \A w \in Workers : task[w] = NoTask
        BY <1>4, <2>1
    <2> QED BY <1>4, <2>1, <2>2 DEF Busy, InWork
<1>8. BatchTypeOK'
    BY <1>1 DEF BatchInv, BatchTypeOK
<1>9. OneEach' /\ Untouched' /\ OnlyWanted'
    BY <1>1, <1>4, <1>5, <1>6, <1>7 DEF OneEach, Untouched, OnlyWanted
<1>10. FailuresCounted'
    <2>1. PICK F \in SUBSET tasks : Counted(F)
        BY DEF BatchInv, FailuresCounted
    <2>2. F = {} /\ F \in SUBSET tasks'
        BY <1>1, <1>4, <2>1
    <2>3. Counted(F)'
        BY <1>1, <1>6, <2>1 DEF Counted
    <2>4. Progress(F)'
        BY <1>1, <1>4, <1>6, <1>7, <2>2 DEF Progress
    <2> QED BY <2>2, <2>3, <2>4 DEF FailuresCounted
<1>11. ExtractsWhatWasAsked'
    <2>1. "uasset" \in ToSet(Exts)
        BY ExtsAre
    <2> QED BY <1>5, <2>1 DEF ExtractsWhatWasAsked, Blank
<1> QED BY <1>2, <1>8, <1>9, <1>10, <1>11 DEF BatchInv

\* An item starts with no file of its own and no failure.
LEMMA ScanKeeps ==
    ASSUME BatchInv, Scan
    PROVE  BatchInv'
<1> USE DEF BatchInv
<1>1. /\ Ready /\ phase = "scanning" /\ phase' = "converting"
      /\ tasks' = Listing(Items[item]) /\ todo' = tasks' /\ failed' = 0
      /\ UNCHANGED <<storeVars, given, item, task, files>>
    BY DEF Scan
<1>2. /\ Ready' /\ StoreInv'
      /\ \A i, t : Wanted(i, t)' <=> Wanted(i, t)
    BY <1>1, SameAnswers
<1>3. todo = {} /\ Busy = {} /\ InWork = {}
    BY <1>1 DEF OneEach, InWork
<1>4. Busy' = Busy /\ InWork' = InWork
    BY <1>1 DEF Busy, InWork
<1>5. /\ item \in DOMAIN Items
      /\ tasks' \subseteq Tasks
      /\ \A t \in todo' : Wanted(item, t)
    <2>1. item \in DOMAIN Items
        BY DEF BatchTypeOK
    <2> QED BY <1>1, <2>1, ListingIs
<1>6. BatchTypeOK'
    <2>1. task' \in [Workers -> [source : tasks' \ todo', file : 1..4] \cup {NoTask}]
        <3>1. task \in [Workers -> [source : tasks \ todo, file : 1..4] \cup {NoTask}]
            BY DEF BatchTypeOK
        <3>2. \A w \in Workers : task[w] = NoTask
            BY <1>3 DEF Busy
        <3> QED BY <1>1, <3>1, <3>2
    <2> QED BY <1>1, <1>5, <2>1 DEF BatchTypeOK
<1>7. OneEach'
    BY <1>1, <1>3, <1>4 DEF OneEach
<1>8. Blank(item) /\ \A i : Blank(i)' <=> Blank(i)
    BY <1>1, <1>5, SameFiles DEF Untouched
<1>9. Untouched'
    BY <1>1, <1>2, <1>8 DEF Untouched
<1>10. OnlyWanted'
    BY <1>1, <1>2, <1>3, <1>4, <1>5 DEF OnlyWanted
<1>11. FailuresCounted'
    <2>1. Counted({})'
        BY <1>1, FS_EmptySet DEF Counted
    <2>2. \A t \in todo' : \A e \in ToSet(Exts) : FilesOf(t)'[e] = NoFile
        <3>1. \A t \in todo' : t.id \in Packages
            BY <1>1, <1>5 DEF Tasks
        <3>2. \A p \in Packages, e \in ToSet(Exts) : files'[item'][p][e] = NoFile
            BY <1>1, <1>8 DEF Blank
        <3> QED BY <3>1, <3>2 DEF FilesOf
    <2>3. Progress({})'
        BY <1>1, <1>3, <1>4, <2>2 DEF Progress
    <2> QED BY <2>1, <2>3 DEF FailuresCounted
<1>12. ExtractsWhatWasAsked'
    BY <1>1, SameFiles
<1> QED BY <1>2, <1>6, <1>7, <1>9, <1>10, <1>11, <1>12

\* A package that is taken is nobody else's, and none of its files is there.
LEMMA TakeKeeps ==
    ASSUME BatchInv, NEW w \in Workers, Take(w)
    PROVE  BatchInv'
<1> USE DEF BatchInv
<1>1. /\ phase = "converting" /\ task[w] = NoTask
      /\ UNCHANGED <<storeVars, given, item, tasks, failed, files>>
    BY DEF Take
<1>2. PICK t \in todo :
            /\ todo' = todo \ {t}
            /\ IF t.container \in unmounted
               THEN phase' = "failed" /\ UNCHANGED task
               ELSE /\ task' = [task EXCEPT ![w] = [source |-> t, file |-> 1]]
                    /\ UNCHANGED phase
    BY DEF Take
<1>3. /\ Ready' <=> Ready
      /\ StoreInv'
      /\ \A s, e : Contents(s, e)' = Contents(s, e)
      /\ \A i, s : Wanted(i, s)' <=> Wanted(i, s)
    BY <1>1, SameAnswers
<1>4. /\ ExtractsWhatWasAsked'
      /\ \A s : FilesOf(s)' = FilesOf(s)
      /\ \A s : Complete(s)' <=> Complete(s)
      /\ \A i : Blank(i)' <=> Blank(i)
    BY <1>1, SameFiles
<1>5. /\ tasks \subseteq Tasks /\ todo \subseteq tasks /\ item \in DOMAIN Items
      /\ task \in [Workers -> [source : tasks \ todo, file : 1..4] \cup {NoTask}]
    BY DEF BatchTypeOK
<1>6. PICK F \in SUBSET tasks :
            Counted(F) /\ (phase \in {"converting", "shaders"} /\ NoOverlap => Progress(F))
    BY DEF FailuresCounted
<1>7. Untouched'
    BY <1>1, <1>2, <1>3, <1>4 DEF Untouched
<1>8. CASE t.container \in unmounted
    <2>1. phase' = "failed" /\ task' = task
        BY <1>2, <1>8
    <2>2. Busy' = Busy /\ InWork' = InWork
        BY <2>1 DEF Busy, InWork
    <2>3. BatchTypeOK'
        <3>1. task' \in [Workers -> [source : tasks' \ todo', file : 1..4] \cup {NoTask}]
            BY <1>1, <1>2, <1>5, <2>1
        <3> QED BY <1>1, <1>2, <1>5, <2>1, <3>1 DEF BatchTypeOK
    <2>4. OneEach'
        BY <2>1, <2>2 DEF OneEach
    <2>5. OnlyWanted'
        BY <1>1, <1>2, <1>3, <2>2 DEF OnlyWanted
    <2>6. Counted(F)'
        BY <1>1, <1>2, <1>6, <2>2 DEF Counted
    <2>7. FailuresCounted'
        BY <1>1, <1>6, <2>1, <2>6 DEF FailuresCounted
    <2> QED BY <1>3, <1>4, <1>7, <2>3, <2>4, <2>5, <2>7
<1>9. CASE t.container \notin unmounted
    <2> DEFINE started == [source |-> t, file |-> 1]
    <2>1. phase' = phase /\ task' = [task EXCEPT ![w] = started]
        BY <1>2, <1>9
    <2>2. started \in [source : tasks \ todo', file : 1..4] /\ started # NoTask
        <3>1. started \in [source : Tasks, file : 1..4] /\ t \in tasks \ todo'
            BY <1>2, <1>5
        <3> QED BY <3>1, NoTaskIsNone
    <2>3. started.source = t /\ started.file = 1
        OBVIOUS
    <2> HIDE DEF started
    <2>4. \A v \in Workers : task'[v] = IF v = w THEN started ELSE task[v]
        BY <1>5, <2>1
    <2>5. Busy' = Busy \cup {w} /\ w \notin Busy /\ Busy \subseteq Workers
        BY <1>1, <2>2, <2>4 DEF Busy
    <2>6. task'[w] = started /\ \A v \in Busy : task'[v] = task[v]
        BY <2>4, <2>5
    <2>7. InWork' = InWork \cup {t}
        BY <2>3, <2>5, <2>6 DEF InWork
    <2>8. InWork \subseteq tasks \ todo
        <3>1. \A v \in Busy : task[v] \in [source : tasks \ todo, file : 1..4]
            BY <1>5 DEF Busy
        <3> QED BY <3>1 DEF InWork
    <2>9. BatchTypeOK'
        <3>1. task' \in [Workers -> [source : tasks' \ todo', file : 1..4] \cup {NoTask}]
            <4>1. \A v \in Workers : task[v] \in [source : tasks \ todo', file : 1..4] \cup {NoTask}
                BY <1>2, <1>5
            <4> QED BY <1>1, <1>5, <2>1, <2>2, <4>1
        <3> QED BY <1>1, <1>2, <1>5, <2>1, <3>1 DEF BatchTypeOK
    <2>10. OneEach'
        <3>1. \A v \in Busy : task[v].source # t
            BY <2>8 DEF InWork
        <3>2. \A u, v \in Busy : task[u].source = task[v].source => u = v
            BY DEF OneEach
        <3>3. \A u, v \in Busy' : task'[u].source = task'[v].source => u = v
            BY <2>3, <2>5, <2>6, <3>1, <3>2
        <3> QED BY <1>1, <2>1, <3>3 DEF OneEach
    <2>11. OnlyWanted'
        BY <1>1, <1>2, <1>3, <2>7 DEF OnlyWanted
    <2>12. Counted(F)'
        BY <1>1, <1>2, <1>6, <2>7 DEF Counted
    <2>13. ASSUME Progress(F) PROVE Progress(F)'
        <3>1. \A s \in todo' : \A e \in ToSet(Exts) : FilesOf(s)'[e] = NoFile
            BY <1>2, <1>4, <2>13 DEF Progress
        <3>2. ASSUME NEW s \in tasks, NEW v \in Busy, s = task'[v].source, NEW k \in 1..4
              PROVE  FilesOf(s)'[Exts[k]] =
                        IF k < task'[v].file THEN Contents(s, Exts[k])' ELSE NoFile
            <4>1. task'[v] = task[v] /\ s = task[v].source
                BY <2>6, <3>2
            <4>2. FilesOf(s)[Exts[k]] = IF k < task[v].file THEN Contents(s, Exts[k]) ELSE NoFile
                BY <2>13, <4>1 DEF Progress
            <4> QED BY <1>3, <1>4, <4>1, <4>2
        <3>3. ASSUME NEW k \in 1..4
              PROVE  FilesOf(t)'[Exts[k]] = NoFile
            BY <1>2, <1>4, <2>13, ExtsAre DEF Progress
        <3>4. ASSUME NEW s \in tasks, NEW v \in Busy', s = task'[v].source, NEW k \in 1..4
              PROVE  FilesOf(s)'[Exts[k]] =
                        IF k < task'[v].file THEN Contents(s, Exts[k])' ELSE NoFile
            <4>1. CASE v = w
                <5>1. s = t /\ ~(k < task'[v].file)
                    BY <2>3, <2>6, <3>4, <4>1
                <5> QED BY <3>3, <5>1
            <4>2. CASE v # w
                <5>1. v \in Busy
                    BY <2>5, <4>2
                <5> QED BY <3>2, <3>4, <5>1
            <4> QED BY <4>1, <4>2
        <3>5. \A s \in F : ~Complete(s)'
            BY <1>4, <2>13 DEF Progress
        <3>6. \A s \in tasks' \ (todo' \cup InWork' \cup F) : Complete(s)'
            BY <1>1, <1>2, <1>4, <2>7, <2>13 DEF Progress
        <3> QED BY <1>1, <3>1, <3>4, <3>5, <3>6 DEF Progress
    <2>14. FailuresCounted'
        <3>1. NoOverlap' <=> NoOverlap
            BY <1>1 DEF NoOverlap
        <3> QED BY <1>1, <1>6, <2>1, <2>12, <2>13, <3>1 DEF FailuresCounted
    <2> QED BY <1>3, <1>4, <1>7, <2>9, <2>10, <2>11, <2>14
<1> QED BY <1>8, <1>9

\* A failure is counted once, for a package that is not complete.
LEMMA FailureKeeps ==
    ASSUME BatchInv, NEW w \in Busy,
           task' = [task EXCEPT ![w] = NoTask], failed' = failed + 1,
           UNCHANGED <<storeVars, given, item, phase, todo, tasks>>,
           NoOverlap =>
                /\ \A t \in tasks \ {task[w].source} : Complete(t)' <=> Complete(t)
                /\ \A t \in tasks \ {task[w].source} : \A e \in ToSet(Exts) :
                        FilesOf(t)'[e] = FilesOf(t)[e],
           \A F : NoOverlap /\ Progress(F) =>
                    \A t \in tasks : t = task[w].source => ~Complete(t)'
    PROVE  StoreInv' /\ OneEach' /\ OnlyWanted' /\ FailuresCounted'
<1> USE DEF BatchInv
<1>0. PICK s : s = task[w].source
    OBVIOUS
<1>1. /\ StoreInv'
      /\ \A t, e : Contents(t, e)' = Contents(t, e)
      /\ \A i, t : Wanted(i, t)' <=> Wanted(i, t)
    BY SameAnswers
<1>2. s \in tasks \ todo /\ s \in InWork
    BY <1>0, InWorkIs
<1>3. /\ Busy' = Busy \ {w}
      /\ \A v \in Busy' : task'[v] = task[v]
      /\ InWork' = InWork \ {s}
      /\ \A u, v \in Busy' : task'[u].source = task'[v].source => u = v
    BY <1>0, Stops
<1>4. OneEach'
    BY <1>3 DEF OneEach
<1>5. OnlyWanted'
    BY <1>1, <1>3 DEF OnlyWanted
<1>6. \A v \in Busy' : task[v].source # s
    BY <1>0, <1>3 DEF OneEach
<1>7. \A t \in tasks : t = s => \A F : NoOverlap /\ Progress(F) => ~Complete(t)'
    BY <1>0
<1>8. PICK F \in SUBSET tasks :
            Counted(F) /\ (phase \in {"converting", "shaders"} /\ NoOverlap => Progress(F))
    BY DEF FailuresCounted
<1> DEFINE G == F \cup {s}
<1>9. Counted(G)'
    <2>1. s \notin F /\ F \subseteq tasks \ todo /\ failed = Cardinality(F) /\ F \cap InWork = {}
        BY <1>2, <1>8 DEF Counted
    <2>2. IsFiniteSet(F)
        <3>1. F \in SUBSET Tasks
            BY DEF BatchTypeOK
        <3> QED BY <3>1, TasksFinite, FS_Subset
    <2>3. Cardinality(G) = failed + 1
        BY <2>1, <2>2, FS_AddElement
    <2> HIDE DEF G
    <2>4. G \subseteq tasks \ todo /\ G \cap InWork' = {}
        BY <1>2, <1>3, <2>1 DEF G
    <2> QED BY <2>3, <2>4 DEF Counted
<1>10. ASSUME NoOverlap, Progress(F) PROVE Progress(G)'
    <2>1. /\ \A t \in tasks \ {s} : Complete(t)' <=> Complete(t)
          /\ \A t \in tasks \ {s} : \A e \in ToSet(Exts) : FilesOf(t)'[e] = FilesOf(t)[e]
        BY <1>0, <1>10
    <2>2. todo \subseteq tasks \ {s}
        BY <1>2 DEF BatchTypeOK
    <2>3. \A t \in todo' : \A e \in ToSet(Exts) : FilesOf(t)'[e] = NoFile
        BY <1>10, <2>1, <2>2 DEF Progress
    <2>4. ASSUME NEW t \in tasks, NEW v \in Busy', t = task'[v].source, NEW k \in 1..4
          PROVE  FilesOf(t)'[Exts[k]] =
                        IF k < task'[v].file THEN Contents(t, Exts[k])' ELSE NoFile
        <3>1. task'[v] = task[v] /\ t = task[v].source /\ v \in Busy
            BY <1>3, <2>4
        <3>2. FilesOf(t)[Exts[k]] = IF k < task[v].file THEN Contents(t, Exts[k]) ELSE NoFile
            BY <1>10, <3>1 DEF Progress
        <3>3. t \in tasks \ {s}
            BY <1>6, <3>1
        <3>4. Exts[k] \in ToSet(Exts)
            BY ExtsAre
        <3> QED BY <1>1, <2>1, <3>1, <3>2, <3>3, <3>4
    <2>5. \A t \in G : ~Complete(t)'
        <3>1. ~Complete(s)'
            BY <1>2, <1>7, <1>10
        <3>2. \A t \in F \ {s} : ~Complete(t)'
            BY <1>10, <2>1 DEF Progress
        <3>3. ASSUME NEW t \in G, Complete(t)' PROVE FALSE
            <4>1. t = s
                BY <3>2, <3>3
            <4> QED BY <1>2, <1>7, <1>10, <3>3, <4>1
        <3> QED BY <3>3
    <2>6. \A t \in tasks' \ (todo' \cup InWork' \cup G) : Complete(t)'
        BY <1>3, <1>10, <2>1 DEF Progress
    <2> HIDE DEF G
    <2> QED BY <2>3, <2>4, <2>5, <2>6 DEF Progress
<1>11. FailuresCounted'
    <2>1. NoOverlap' <=> NoOverlap
        BY DEF NoOverlap
    <2>2. G \in SUBSET tasks'
        BY <1>2
    <2> HIDE DEF G
    <2> QED BY <1>8, <1>9, <1>10, <2>1, <2>2 DEF FailuresCounted
<1> QED BY <1>1, <1>4, <1>5, <1>11

\* What a worker writes was asked for.
LEMMA WritingKeeps ==
    ASSUME BatchInv, NEW w \in Busy, NEW x \in ToSet(Exts), NEW v,
           v = CutFile \/ v = Contents(task[w].source, x),
           Written(task[w].source.id, x, v),
           UNCHANGED <<storeVars, given, item, phase, tasks>>
    PROVE  /\ v \in Seq(Containers \cup {Cut})
           /\ files' \in [DOMAIN Items -> [Packages -> [ToSet(Exts) -> Seq(Containers \cup {Cut})]]]
           /\ Untouched'
           /\ ExtractsWhatWasAsked'
<1> USE DEF BatchInv
<1> DEFINE s == task[w].source
           p == s.id
<1>1. /\ Ready /\ s \in tasks \ todo /\ s \in Tasks /\ p \in Packages /\ s \in InWork
      /\ phase \in {"converting", "failed"}
    BY InWorkIs
<1>2. /\ Ready' <=> Ready
      /\ \A q : StoreEntryFrom(q)' = StoreEntryFrom(q)
    BY SameAnswers
<1>3. item \in DOMAIN Items /\ DOMAIN Items \subseteq Nat
    BY SomeItems, LenProperties DEF BatchTypeOK
<1>4. Wanted(item, s)
    BY <1>1 DEF OnlyWanted
<1>5. EachOnce
    BY DEF StoreInv
<1>6. Written(p, x, v) /\ (v = CutFile \/ v = Contents(s, x))
    OBVIOUS
<1> HIDE DEF s
<1>7. v \in Seq(Containers \cup {Cut})
    <2>1. CutFile \in Seq(Containers \cup {Cut})
        BY DEF CutFile
    <2>2. Contents(s, x) \in Seq(Containers \cup {Cut})
        <3>1. Contents(s, x) \in Seq(Containers)
            BY <1>1, <1>5, ContentsAre
        <3> QED BY <3>1, SeqMonotonic
    <2> QED BY <1>6, <2>1, <2>2
<1> HIDE DEF p
<1>8. /\ files' \in [DOMAIN Items -> [Packages -> [ToSet(Exts) -> Seq(Containers \cup {Cut})]]]
      /\ \A i \in DOMAIN Items, q \in Packages, e \in ToSet(Exts) :
            files'[i][q][e] = IF i = item /\ q = p /\ e = x THEN v ELSE files[i][q][e]
    BY <1>1, <1>6, <1>7, FileWritten
<1>9. Untouched'
    <2>1. ASSUME NEW i \in DOMAIN Items, i > item, Blank(i) PROVE Blank(i)'
        <3>1. i # item
            BY <1>3, <2>1
        <3> QED BY <1>8, <2>1, <3>1 DEF Blank
    <2> QED BY <1>1, <1>2, <2>1 DEF Untouched
<1>10. ASSUME NEW q \in Packages, NEW i \in DOMAIN Items,
              files'[i][q]["uasset"] \notin {NoFile, CutFile}
       PROVE  IF Items[i] = {} THEN files'[i][q]["uasset"] = <<StoreEntryFrom(q)>>
                               ELSE files'[i][q]["uasset"][1] \in Items[i]
    <2>1. "uasset" \in ToSet(Exts)
        BY ExtsAre
    <2>2. CASE i = item /\ q = p /\ x = "uasset"
        <3>1. files'[i][q]["uasset"] = v
            BY <1>8, <2>1, <2>2
        <3>2. v = Contents(s, "uasset")
            BY <1>6, <1>10, <2>2, <3>1
        <3>3. v = <<s.container>>
            BY <1>1, <1>5, <3>2, ContentsAre
        <3>4. v[1] = s.container
            BY <3>3
        <3> QED BY <1>4, <2>2, <3>1, <3>3, <3>4 DEF Wanted, p
    <2>3. CASE ~(i = item /\ q = p /\ x = "uasset")
        <3>1. files'[i][q]["uasset"] = files[i][q]["uasset"]
            BY <1>8, <2>1, <2>3
        <3> QED BY <1>10, <3>1 DEF ExtractsWhatWasAsked
    <2> QED BY <2>2, <2>3
<1>11. ExtractsWhatWasAsked'
    BY <1>2, <1>10 DEF ExtractsWhatWasAsked
<1> QED BY <1>7, <1>8, <1>9, <1>11

LEMMA ConvertFailsKeeps ==
    ASSUME BatchInv, NEW w \in Workers, ConvertFails(w)
    PROVE  BatchInv'
<1> USE DEF BatchInv
<1>1. /\ w \in Busy /\ task[w].file = 1
      /\ failed' = failed + 1 /\ task' = [task EXCEPT ![w] = NoTask]
      /\ UNCHANGED <<storeVars, given, item, phase, todo, tasks, files>>
    BY DEF ConvertFails, Busy
<1>2. /\ ExtractsWhatWasAsked'
      /\ \A t : FilesOf(t)' = FilesOf(t)
      /\ \A t : Complete(t)' <=> Complete(t)
      /\ \A i : Blank(i)' <=> Blank(i)
    BY <1>1, SameFiles
<1>3. ASSUME NEW F, NoOverlap, Progress(F), NEW t \in tasks, t = task[w].source
      PROVE  ~Complete(t)'
    <2>1. t \in Tasks /\ EachOnce
        BY DEF BatchTypeOK, StoreInv
    <2>2. 1 \in 1..4 /\ Exts[1] = "uasset" /\ "uasset" \in ToSet(Exts)
        BY ExtsAre
    <2>3. FilesOf(t)["uasset"] = NoFile
        BY <1>1, <1>3, <2>2 DEF Progress
    <2>4. Contents(t, "uasset") # NoFile
        BY <2>1, ContentsAre
    <2> QED BY <1>2, <2>2, <2>3, <2>4 DEF Complete, FilesOf
<1>4. StoreInv' /\ OneEach' /\ OnlyWanted' /\ FailuresCounted'
    BY <1>1, <1>2, <1>3, FailureKeeps
<1>5. BatchTypeOK'
    <2>1. task' \in [Workers -> [source : tasks \ todo, file : 1..4] \cup {NoTask}]
        BY <1>1, Stops
    <2> QED BY <1>1, <2>1 DEF BatchTypeOK
<1>6. Untouched'
    <2>1. Ready' <=> Ready
        BY <1>1, SameAnswers
    <2> QED BY <1>1, <1>2, <2>1 DEF Untouched
<1> QED BY <1>2, <1>4, <1>5, <1>6

LEMMA WriteFailsKeeps ==
    ASSUME BatchInv, NEW w \in Workers, WriteFails(w)
    PROVE  BatchInv'
<1> USE DEF BatchInv
<1>1. /\ w \in Busy
      /\ failed' = failed + 1 /\ task' = [task EXCEPT ![w] = NoTask]
      /\ UNCHANGED <<storeVars, given, item, phase, todo, tasks>>
    BY DEF WriteFails, Busy
<1>2. PICK s \in tasks, x \in ToSet(Exts) :
            s = task[w].source /\ x = Exts[task[w].file]
    BY <1>1, InWorkIs, ExtsAre
<1>3. Written(s.id, x, CutFile)
    BY <1>2 DEF WriteFails, Written
<1>4. /\ CutFile \in Seq(Containers \cup {Cut})
      /\ files' \in [DOMAIN Items -> [Packages -> [ToSet(Exts) -> Seq(Containers \cup {Cut})]]]
      /\ Untouched' /\ ExtractsWhatWasAsked'
    BY <1>1, <1>2, <1>3, WritingKeeps
<1>5. ASSUME NoOverlap
      PROVE  /\ \A t \in tasks \ {s} : Complete(t)' <=> Complete(t)
             /\ \A t \in tasks \ {s} : \A e \in ToSet(Exts) : FilesOf(t)'[e] = FilesOf(t)[e]
             /\ FilesOf(s)'[x] = CutFile
    BY <1>1, <1>3, <1>4, <1>5, OtherFiles
<1>6. ASSUME NoOverlap PROVE ~Complete(s)'
    <2>1. s \in Tasks /\ EachOnce
        BY DEF BatchTypeOK, StoreInv
    <2>2. Contents(s, x) # CutFile
        BY <2>1, ContentsAre
    <2>3. Contents(s, x)' = Contents(s, x)
        BY <1>1, SameAnswers
    <2>4. FilesOf(s)'[x] # Contents(s, x)'
        BY <1>5, <1>6, <2>2, <2>3
    <2> QED BY <2>4 DEF Complete, FilesOf
<1>7. ASSUME NEW F, NoOverlap, Progress(F), NEW t \in tasks, t = task[w].source
      PROVE  ~Complete(t)'
    <2>1. t = s
        BY <1>2, <1>7
    <2> QED BY <1>6, <1>7, <2>1
<1>8. StoreInv' /\ OneEach' /\ OnlyWanted' /\ FailuresCounted'
    BY <1>1, <1>2, <1>5, <1>7, FailureKeeps
<1>9. BatchTypeOK'
    <2>1. task' \in [Workers -> [source : tasks \ todo, file : 1..4] \cup {NoTask}]
        BY <1>1, Stops
    <2> QED BY <1>1, <1>4, <2>1 DEF BatchTypeOK
<1> QED BY <1>4, <1>8, <1>9

LEMMA WriteKeeps ==
    ASSUME BatchInv, NEW w \in Workers, Write(w)
    PROVE  BatchInv'
<1> USE DEF BatchInv
<1>1. /\ w \in Busy /\ Advance(w)
      /\ UNCHANGED <<storeVars, given, item, phase, todo, tasks, failed>>
    BY DEF Write, Busy
<1>2. PICK s \in tasks, n \in 1..4, x \in ToSet(Exts) :
            s = task[w].source /\ n = task[w].file /\ x = Exts[n]
    <2>1. task[w].source \in tasks /\ task[w].file \in 1..4
        BY <1>1, InWorkIs
    <2>2. Exts[task[w].file] \in ToSet(Exts)
        BY <2>1, ExtsAre
    <2> QED BY <2>1, <2>2
<1>3. PICK c : c = Contents(s, x)
    OBVIOUS
<1>4. Written(s.id, x, c)
    BY <1>2, <1>3 DEF Write, Written
<1>5. /\ c \in Seq(Containers \cup {Cut})
      /\ files' \in [DOMAIN Items -> [Packages -> [ToSet(Exts) -> Seq(Containers \cup {Cut})]]]
      /\ Untouched' /\ ExtractsWhatWasAsked'
    BY <1>1, <1>2, <1>3, <1>4, WritingKeeps
<1>6. ASSUME NoOverlap
      PROVE  /\ \A t \in tasks \ {s} : Complete(t)' <=> Complete(t)
             /\ \A t \in tasks \ {s} : \A e \in ToSet(Exts) : FilesOf(t)'[e] = FilesOf(t)[e]
             /\ \A e \in ToSet(Exts) : FilesOf(s)'[e] = IF e = x THEN c ELSE FilesOf(s)[e]
    BY <1>1, <1>4, <1>5, <1>6, OtherFiles
<1>7. /\ StoreInv'
      /\ \A t, e : Contents(t, e)' = Contents(t, e)
      /\ \A i, t : Wanted(i, t)' <=> Wanted(i, t)
    BY <1>1, SameAnswers
<1>8. s \in tasks \ todo /\ s \in InWork /\ phase \in {"converting", "failed"}
    BY <1>1, <1>2, InWorkIs
<1>9. PICK F \in SUBSET tasks :
            Counted(F) /\ (phase \in {"converting", "shaders"} /\ NoOverlap => Progress(F))
    BY DEF FailuresCounted
<1>10. s \notin F /\ todo \subseteq tasks \ {s}
    BY <1>8, <1>9 DEF Counted, BatchTypeOK
<1>11. NoOverlap' <=> NoOverlap
    BY <1>1 DEF NoOverlap
\* The files of the others, and those of this package up to the one written.
<1>12. ASSUME NoOverlap, Progress(F)
       PROVE  /\ \A t \in todo : \A e \in ToSet(Exts) : FilesOf(t)'[e] = NoFile
              /\ \A t \in tasks \ {s}, v \in Busy : t = task[v].source =>
                    \A k \in 1..4 : FilesOf(t)'[Exts[k]] =
                                        IF k < task[v].file THEN Contents(t, Exts[k])' ELSE NoFile
              /\ \A k \in 1..4 : FilesOf(s)'[Exts[k]] =
                                        IF k <= n THEN Contents(s, Exts[k])' ELSE NoFile
              /\ \A t \in F : ~Complete(t)'
              /\ \A t \in tasks \ (todo \cup InWork \cup F) : Complete(t)'
    <2>1. /\ \A t \in tasks \ {s} : Complete(t)' <=> Complete(t)
          /\ \A t \in tasks \ {s} : \A e \in ToSet(Exts) : FilesOf(t)'[e] = FilesOf(t)[e]
          /\ \A e \in ToSet(Exts) : FilesOf(s)'[e] = IF e = x THEN c ELSE FilesOf(s)[e]
        BY <1>6, <1>12
    <2>2. \A t \in todo : \A e \in ToSet(Exts) : FilesOf(t)'[e] = NoFile
        BY <1>10, <1>12, <2>1 DEF Progress
    <2>3. ASSUME NEW t \in tasks \ {s}, NEW v \in Busy, t = task[v].source, NEW k \in 1..4
          PROVE  FilesOf(t)'[Exts[k]] =
                        IF k < task[v].file THEN Contents(t, Exts[k])' ELSE NoFile
        <3>1. FilesOf(t)[Exts[k]] = IF k < task[v].file THEN Contents(t, Exts[k]) ELSE NoFile
            BY <1>12, <2>3 DEF Progress
        <3>2. Exts[k] \in ToSet(Exts)
            BY ExtsAre
        <3> QED BY <1>7, <2>1, <3>1, <3>2
    <2>4. ASSUME NEW k \in 1..4
          PROVE  FilesOf(s)'[Exts[k]] = IF k <= n THEN Contents(s, Exts[k])' ELSE NoFile
        <3>1. FilesOf(s)[Exts[k]] = IF k < n THEN Contents(s, Exts[k]) ELSE NoFile
            BY <1>1, <1>2, <1>12 DEF Progress
        <3>2. Exts[k] \in ToSet(Exts) /\ (Exts[k] = x <=> k = n)
            BY <1>2, ExtsAre
        <3>3. Contents(s, Exts[k])' = Contents(s, Exts[k])
            BY <1>7
        <3>4. CASE k = n
            BY <1>2, <1>3, <2>1, <3>2, <3>3, <3>4
        <3>5. CASE k # n
            <4>1. k < n <=> k <= n
                BY <3>5
            <4> QED BY <2>1, <3>1, <3>2, <3>3, <3>5, <4>1
        <3> QED BY <3>4, <3>5
    <2>5. \A t \in F : ~Complete(t)'
        BY <1>10, <1>12, <2>1 DEF Progress
    <2>6. \A t \in tasks \ (todo \cup InWork \cup F) : Complete(t)'
        BY <1>8, <1>12, <2>1 DEF Progress
    <2> QED BY <2>2, <2>3, <2>4, <2>5, <2>6
<1>13. CASE n = 4
    <2>1. task' = [task EXCEPT ![w] = NoTask]
        <3>1. Len(Exts) = 4
            BY ExtsAre
        <3> QED BY <1>1, <1>2, <1>13, <3>1 DEF Advance
    <2>2. /\ task' \in [Workers -> [source : tasks \ todo, file : 1..4] \cup {NoTask}]
          /\ Busy' = Busy \ {w}
          /\ \A v \in Busy' : task'[v] = task[v]
          /\ InWork' = InWork \ {s}
          /\ \A u, v \in Busy' : task'[u].source = task'[v].source => u = v
        BY <1>1, <1>2, <2>1, Stops
    <2>3. BatchTypeOK' /\ OneEach' /\ OnlyWanted' /\ Counted(F)'
        <3>1. BatchTypeOK'
            BY <1>1, <1>5, <2>2 DEF BatchTypeOK
        <3>2. OneEach'
            BY <1>1, <2>2 DEF OneEach
        <3>3. OnlyWanted'
            BY <1>1, <1>7, <2>2 DEF OnlyWanted
        <3>4. Counted(F)'
            BY <1>1, <1>9, <2>2 DEF Counted
        <3> QED BY <3>1, <3>2, <3>3, <3>4
    <2>4. ASSUME NoOverlap, Progress(F) PROVE Progress(F)'
        <3>1. ASSUME NEW t \in tasks, NEW v \in Busy', t = task'[v].source, NEW k \in 1..4
              PROVE  FilesOf(t)'[Exts[k]] =
                        IF k < task'[v].file THEN Contents(t, Exts[k])' ELSE NoFile
            <4>1. task'[v] = task[v] /\ v \in Busy /\ v # w
                BY <2>2, <3>1
            <4>2. t \in tasks \ {s}
                BY <1>1, <1>2, <3>1, <4>1 DEF OneEach
            <4> QED BY <1>12, <2>4, <3>1, <4>1, <4>2
        <3>2. Complete(s)'
            <4>1. \A k \in 1..4 : FilesOf(s)'[Exts[k]] = Contents(s, Exts[k])'
                BY <1>12, <1>13, <2>4
            <4>2. \A e \in ToSet(Exts) : FilesOf(s)'[e] = Contents(s, e)'
                <5> TAKE e \in ToSet(Exts)
                <5>1. PICK k \in 1..4 : Exts[k] = e
                    BY ExtsAre
                <5>2. Contents(s, e)' = Contents(s, e) /\ Contents(s, Exts[k])' = Contents(s, Exts[k])
                    BY <1>7
                <5> QED BY <4>1, <5>1, <5>2
            <4> QED BY <4>2 DEF Complete, FilesOf
        <3>3. \A t \in tasks \ (todo \cup InWork' \cup F) : Complete(t)'
            <4> TAKE t \in tasks \ (todo \cup InWork' \cup F)
            <4>1. t = s \/ t \in tasks \ (todo \cup InWork \cup F)
                BY <2>2
            <4> QED BY <1>12, <2>4, <3>2, <4>1
        <3> QED BY <1>1, <1>12, <2>4, <3>1, <3>3 DEF Progress
    <2>5. FailuresCounted'
        BY <1>1, <1>9, <1>11, <2>3, <2>4 DEF FailuresCounted
    <2> QED BY <1>5, <1>7, <2>3, <2>5
<1>14. CASE n # 4
    <2>1. /\ task' \in [Workers -> [source : tasks \ todo, file : 1..4] \cup {NoTask}]
          /\ Busy' = Busy
          /\ \A v \in Busy \ {w} : task'[v] = task[v]
          /\ task'[w].source = s /\ task'[w].file = n + 1
          /\ InWork' = InWork
          /\ \A u, v \in Busy' : task'[u].source = task'[v].source => u = v
        BY <1>1, <1>2, <1>14, GoesOn
    <2>2. BatchTypeOK' /\ OneEach' /\ OnlyWanted' /\ Counted(F)'
        <3>1. BatchTypeOK'
            BY <1>1, <1>5, <2>1 DEF BatchTypeOK
        <3>2. OneEach'
            BY <1>1, <2>1 DEF OneEach
        <3>3. OnlyWanted'
            BY <1>1, <1>7, <2>1 DEF OnlyWanted
        <3>4. Counted(F)'
            BY <1>1, <1>9, <2>1 DEF Counted
        <3> QED BY <3>1, <3>2, <3>3, <3>4
    <2>3. ASSUME NoOverlap, Progress(F) PROVE Progress(F)'
        <3>1. ASSUME NEW t \in tasks, NEW v \in Busy', t = task'[v].source, NEW k \in 1..4
              PROVE  FilesOf(t)'[Exts[k]] =
                        IF k < task'[v].file THEN Contents(t, Exts[k])' ELSE NoFile
            <4>1. CASE v = w
                <5>1. t = s /\ (k < task'[v].file <=> k <= n)
                    BY <2>1, <3>1, <4>1
                <5> QED BY <1>12, <2>3, <5>1
            <4>2. CASE v # w
                <5>1. task'[v] = task[v] /\ v \in Busy
                    BY <2>1, <4>2
                <5>2. t \in tasks \ {s}
                    BY <1>1, <1>2, <3>1, <4>2, <5>1 DEF OneEach
                <5> QED BY <1>12, <2>3, <3>1, <5>1, <5>2
            <4> QED BY <4>1, <4>2
        <3> QED BY <1>1, <1>12, <2>1, <2>3, <3>1 DEF Progress
    <2>4. FailuresCounted'
        BY <1>1, <1>9, <1>11, <2>2, <2>3 DEF FailuresCounted
    <2> QED BY <1>5, <1>7, <2>2, <2>4
<1> QED BY <1>13, <1>14

LEMMA ScanFailsKeeps ==
    ASSUME BatchInv, ScanFails
    PROVE  BatchInv'
<1> USE DEF BatchInv
<1>1. /\ phase = "scanning" /\ phase' = "failed"
      /\ UNCHANGED <<storeVars, given, item, todo, tasks, task, failed, files>>
    BY DEF ScanFails
<1>2. /\ Ready' <=> Ready
      /\ StoreInv'
      /\ \A i, t : Wanted(i, t)' <=> Wanted(i, t)
    BY <1>1, SameAnswers
<1>3. ExtractsWhatWasAsked' /\ \A i : Blank(i)' <=> Blank(i)
    BY <1>1, SameFiles
<1>4. Busy' = Busy /\ InWork' = InWork
    BY <1>1 DEF Busy, InWork
<1>5. BatchTypeOK' /\ OneEach' /\ OnlyWanted'
    BY <1>1, <1>2, <1>4 DEF BatchTypeOK, OneEach, OnlyWanted
<1>6. Untouched'
    BY <1>1, <1>2, <1>3 DEF Untouched
<1>7. FailuresCounted'
    <2>1. PICK F \in SUBSET tasks : Counted(F)
        BY DEF FailuresCounted
    <2>2. Counted(F)'
        BY <1>1, <1>4, <2>1 DEF Counted
    <2> QED BY <1>1, <2>1, <2>2 DEF FailuresCounted
<1> QED BY <1>2, <1>3, <1>5, <1>6, <1>7

LEMMA ConvertedKeeps ==
    ASSUME BatchInv, Converted
    PROVE  BatchInv'
<1> USE DEF BatchInv
<1>1. /\ phase = "converting" /\ phase' = "shaders" /\ todo = {}
      /\ \A w \in Workers : task[w] = NoTask
      /\ UNCHANGED <<storeVars, given, item, todo, tasks, task, failed, files>>
    BY DEF Converted
<1>2. /\ Ready' <=> Ready
      /\ StoreInv'
      /\ \A t, e : Contents(t, e)' = Contents(t, e)
      /\ \A i, t : Wanted(i, t)' <=> Wanted(i, t)
    BY <1>1, SameAnswers
<1>3. /\ ExtractsWhatWasAsked'
      /\ \A t : FilesOf(t)' = FilesOf(t)
      /\ \A t : Complete(t)' <=> Complete(t)
      /\ \A i : Blank(i)' <=> Blank(i)
    BY <1>1, SameFiles
<1>4. Busy = {} /\ Busy' = Busy /\ InWork = {} /\ InWork' = InWork
    BY <1>1 DEF Busy, InWork
<1>5. BatchTypeOK' /\ OneEach' /\ OnlyWanted'
    BY <1>1, <1>2, <1>4 DEF BatchTypeOK, OneEach, OnlyWanted
<1>6. Untouched'
    BY <1>1, <1>2, <1>3 DEF Untouched
<1>7. FailuresCounted'
    <2>1. PICK F \in SUBSET tasks :
            Counted(F) /\ (phase \in {"converting", "shaders"} /\ NoOverlap => Progress(F))
        BY DEF FailuresCounted
    <2>2. Counted(F)'
        BY <1>1, <1>4, <2>1 DEF Counted
    <2>3. ASSUME Progress(F) PROVE Progress(F)'
        <3>1. \A t \in F : ~Complete(t)'
            BY <1>3, <2>3 DEF Progress
        <3>2. \A t \in tasks' \ (todo' \cup InWork' \cup F) : Complete(t)'
            BY <1>1, <1>3, <1>4, <2>3 DEF Progress
        <3> QED BY <1>1, <1>4, <3>1, <3>2 DEF Progress
    <2>4. NoOverlap' <=> NoOverlap
        BY <1>1 DEF NoOverlap
    <2> QED BY <1>1, <2>1, <2>2, <2>3, <2>4 DEF FailuresCounted
<1> QED BY <1>2, <1>3, <1>5, <1>6, <1>7

LEMMA ShadersKeep ==
    ASSUME BatchInv, Shaders
    PROVE  BatchInv'
<1> USE DEF BatchInv
<1>1. /\ phase = "shaders" /\ phase' \in {"failed", "done", "scanning"}
      /\ item' = item \/ (item' = item + 1 /\ item # Len(Items) /\ phase' = "scanning")
      /\ phase' = "scanning" => item' = item + 1
      /\ UNCHANGED <<storeVars, given, todo, tasks, task, failed, files>>
    BY DEF Shaders
<1>2. /\ Ready' <=> Ready
      /\ StoreInv'
      /\ \A p : StoreEntryFrom(p)' = StoreEntryFrom(p)
    BY <1>1, SameAnswers
<1>3. ExtractsWhatWasAsked'
    BY <1>1, <1>2 DEF ExtractsWhatWasAsked
<1>4. /\ todo = {} /\ Busy = {} /\ InWork = {}
      /\ Busy' = Busy /\ InWork' = InWork
    BY <1>1 DEF OneEach, Busy, InWork
<1>5. item \in DOMAIN Items /\ Len(Items) \in Nat /\ DOMAIN Items = 1..Len(Items)
    BY SomeItems, LenProperties DEF BatchTypeOK
<1>6. item' \in DOMAIN Items
    BY <1>1, <1>5
<1>7. BatchTypeOK'
    BY <1>1, <1>6 DEF BatchTypeOK
<1>8. OneEach' /\ OnlyWanted'
    BY <1>1, <1>4 DEF OneEach, OnlyWanted
<1>9. Untouched'
    <2>1. \A i : Blank(i)' <=> Blank(i)
        BY <1>1 DEF Blank
    <2>2. ASSUME NEW i \in DOMAIN Items, i > item' \/ (i = item' /\ phase' = "scanning")
          PROVE  Blank(i)'
        <3>1. i > item
            BY <1>1, <1>5, <2>2
        <3> QED BY <2>1, <3>1 DEF Untouched
    <2> QED BY <1>1, <1>2, <2>1, <2>2 DEF Untouched
<1>10. FailuresCounted'
    <2>1. PICK F \in SUBSET tasks : Counted(F)
        BY DEF FailuresCounted
    <2>2. Counted(F)'
        BY <1>1, <1>4, <2>1 DEF Counted
    <2> QED BY <1>1, <2>1, <2>2 DEF FailuresCounted
<1> QED BY <1>2, <1>3, <1>7, <1>8, <1>9, <1>10

LEMMA StutterKeeps ==
    ASSUME BatchInv, UNCHANGED vars
    PROVE  BatchInv'
<1> USE DEF BatchInv
<1>1. UNCHANGED <<storeVars, given, item, phase, todo, tasks, task, failed, files>>
    BY DEF vars
<1>2. /\ Ready' <=> Ready
      /\ StoreInv'
      /\ \A t, e : Contents(t, e)' = Contents(t, e)
      /\ \A i, t : Wanted(i, t)' <=> Wanted(i, t)
    BY <1>1, SameAnswers
<1>3. /\ ExtractsWhatWasAsked'
      /\ \A t : FilesOf(t)' = FilesOf(t)
      /\ \A t : Complete(t)' <=> Complete(t)
      /\ \A i : Blank(i)' <=> Blank(i)
    BY <1>1, SameFiles
<1>4. Busy' = Busy /\ InWork' = InWork
    BY <1>1 DEF Busy, InWork
<1>5. BatchTypeOK' /\ OneEach' /\ OnlyWanted'
    BY <1>1, <1>2, <1>4 DEF BatchTypeOK, OneEach, OnlyWanted
<1>6. Untouched'
    BY <1>1, <1>2, <1>3 DEF Untouched
<1>7. FailuresCounted'
    <2>1. PICK F \in SUBSET tasks :
            Counted(F) /\ (phase \in {"converting", "shaders"} /\ NoOverlap => Progress(F))
        BY DEF FailuresCounted
    <2>2. Counted(F)'
        BY <1>1, <1>4, <2>1 DEF Counted
    <2>3. ASSUME Progress(F) PROVE Progress(F)'
        <3>1. \A t \in F : ~Complete(t)'
            BY <1>3, <2>3 DEF Progress
        <3>2. \A t \in tasks' \ (todo' \cup InWork' \cup F) : Complete(t)'
            BY <1>1, <1>3, <1>4, <2>3 DEF Progress
        <3>3. \A t \in todo' : \A e \in ToSet(Exts) : FilesOf(t)'[e] = NoFile
            BY <1>1, <1>3, <2>3 DEF Progress
        <3>4. ASSUME NEW t \in tasks, NEW v \in Busy', t = task'[v].source, NEW k \in 1..4
              PROVE  FilesOf(t)'[Exts[k]] =
                        IF k < task'[v].file THEN Contents(t, Exts[k])' ELSE NoFile
            <4>1. v \in Busy /\ task'[v] = task[v] /\ t = task[v].source
                BY <1>1, <1>4, <3>4
            <4>2. FilesOf(t)[Exts[k]] = IF k < task[v].file THEN Contents(t, Exts[k]) ELSE NoFile
                BY <2>3, <4>1 DEF Progress
            <4> QED BY <1>2, <1>3, <4>1, <4>2
        <3> QED BY <1>1, <3>1, <3>2, <3>3, <3>4 DEF Progress
    <2>4. NoOverlap' <=> NoOverlap
        BY <1>1 DEF NoOverlap
    <2> QED BY <1>1, <2>1, <2>2, <2>3, <2>4 DEF FailuresCounted
<1> QED BY <1>2, <1>3, <1>5, <1>6, <1>7

-----------------------------------------------------------------------------
(* The store and the batch: theorems                                       *)

\* What a batch keeps from its first step to its last.
THEOREM Invariant == Spec => []BatchInv
<1>1. Init => BatchInv
    BY StartsRight
<1>2. BatchInv /\ [Next]_vars => BatchInv'
    <2> SUFFICES ASSUME BatchInv, [Next]_vars PROVE BatchInv'
        OBVIOUS
    <2>1. CASE Main
        BY <2>1, OpeningKeeps, ScanKeeps, ScanFailsKeeps, ConvertedKeeps, ShadersKeep DEF Main
    <2>2. ASSUME NEW w \in Workers, Work(w) PROVE BatchInv'
        BY <2>2, TakeKeeps, ConvertFailsKeeps, WriteKeeps, WriteFailsKeeps DEF Work
    <2>3. CASE Ended \/ UNCHANGED vars
        BY <2>3, StutterKeeps DEF Ended
    <2> QED BY <2>1, <2>2, <2>3 DEF Next
<1> QED BY <1>1, <1>2, PTL DEF Spec

\* IoStoreBackend::read: in whatever order a directory lists its containers, a
\* chunk comes from the one whose name overrides all others that have it.
THEOREM TheOverridingIsRead == Spec => []OverrideWins
<1>1. BatchInv => OverrideWins
    BY ReadsTheOverriding DEF BatchInv
<1> QED BY <1>1, Invariant, PTL

\* What the composite store says of a package, its chunk, its store entry and
\* its place in the list, agrees, for any contents of any containers.
THEOREM AnswersAreConsistent == Spec => []StoreIsConsistent
<1>1. BatchInv => StoreIsConsistent
    BY StoreAnswersAgree DEF BatchInv
<1> QED BY <1>1, Invariant, PTL

\* extract_legacy: no file comes from a container that was not asked for,
\* whichever conversions fail and wherever they stop.
THEOREM WhatWasAskedIsExtracted == Spec => []ExtractsWhatWasAsked
<1>1. BatchInv => ExtractsWhatWasAsked
    BY DEF BatchInv
<1> QED BY <1>1, Invariant, PTL

\* failed_count: however the threads interleave and whatever fails, the number
\* an item reports is that of the packages that are all there.
THEOREM TheReportIsTrue == Spec => []ReportIsTrue
<1>1. ASSUME BatchInv PROVE TypeOK
    <2>1. IsFiniteSet(tasks)
        <3>1. tasks \in SUBSET Tasks
            BY <1>1 DEF BatchInv, BatchTypeOK
        <3> QED BY <3>1, TasksFinite, FS_Subset
    <2>2. PICK F \in SUBSET tasks : failed = Cardinality(F)
        BY <1>1 DEF BatchInv, FailuresCounted, Counted
    <2>3. failed \in 0..Cardinality(tasks)
        <3>1. IsFiniteSet(F) /\ Cardinality(F) <= Cardinality(tasks)
            BY <2>1, FS_Subset
        <3>2. Cardinality(F) \in Nat /\ Cardinality(tasks) \in Nat
            BY <2>1, <3>1, FS_CardinalityType
        <3> QED BY <2>2, <3>1, <3>2
    <2>4. StoreTypeOK
        <3>1. ContentsOK /\ EachOnce /\ store \in {"listed", "opened", "validated", "ready", "refused"}
            BY <1>1 DEF BatchInv, StoreInv
        <3>2. ToSet(containers) = Containers
            BY <3>1, Places DEF ToSet, EachOnce
        <3> QED BY <3>1, <3>2 DEF StoreTypeOK, ContentsOK, EachOnce
    <2>5. \A w \in Workers : task[w] # NoTask => task[w].source \in tasks \ todo
        BY <1>1 DEF BatchInv, BatchTypeOK
    <2> QED BY <1>1, <2>3, <2>4, <2>5 DEF TypeOK, BatchInv, BatchTypeOK
<1>2. ASSUME BatchInv, phase = "shaders", NoOverlap
      PROVE  Cardinality(tasks) - failed = Cardinality({t \in tasks : Complete(t)})
    <2>1. todo = {} /\ InWork = {}
        BY <1>2 DEF BatchInv, OneEach, InWork
    <2>2. PICK F \in SUBSET tasks : Counted(F) /\ Progress(F)
        BY <1>2 DEF BatchInv, FailuresCounted
    <2>3. {t \in tasks : Complete(t)} = tasks \ F
        BY <2>1, <2>2 DEF Progress
    <2>4. IsFiniteSet(tasks)
        <3>1. tasks \in SUBSET Tasks
            BY <1>2 DEF BatchInv, BatchTypeOK
        <3> QED BY <3>1, TasksFinite, FS_Subset
    <2>5. Cardinality(tasks \ F) = Cardinality(tasks) - Cardinality(tasks \cap F)
        BY <2>4, FS_Difference
    <2>6. tasks \cap F = F
        OBVIOUS
    <2> QED BY <2>2, <2>3, <2>5, <2>6 DEF Counted
<1>3. BatchInv => ReportIsTrue
    BY <1>1, <1>2 DEF ReportIsTrue
<1> QED BY <1>3, Invariant, PTL

-----------------------------------------------------------------------------
(* The shader layout: what the producer sends                              *)

\* The elements of a list that are in a set are those Among has, none twice if
\* the list has none twice.
AmongOK(s, list, S) ==
    /\ IsSeq(s)
    /\ Elements(s) = Elements(list) \cap S
    /\ (\A i, j \in 1..Len(list) : list[i] = list[j] /\ list[i] \in S => i = j) => Distinct(s)

LEMMA AmongIs ==
    ASSUME NEW list, IsSeq(list), NEW S
    PROVE  AmongOK(Among(list, S), list, S)
<1> DEFINE n == Len(list)
           part(i) == IF list[i] \in S THEN <<list[i]>> ELSE <<>>
<1>1. n \in Nat /\ DOMAIN list = 1..n
    BY SeqHas
<1>2. PICK parts : parts = [i \in 1..n |-> part(i)]
    OBVIOUS
<1>3. Among(list, S) = FlattenSeq(parts)
    BY <1>1, <1>2 DEF Among
<1>4. IsSeq(parts) /\ Len(parts) = n
    <2>1. parts = [i \in 1..n |-> parts[i]]
        BY <1>2
    <2> HIDE DEF n
    <2> QED BY <1>1, <2>1, Made
<1>5. ASSUME NEW i \in 1..n
      PROVE  /\ IsSeq(parts[i]) /\ Distinct(parts[i])
             /\ Elements(parts[i]) = {list[i]} \cap S
    <2>1. CASE list[i] \in S
        <3>1. parts[i] = <<list[i]>>
            BY <1>2, <2>1
        <3>2. <<list[i]>> \in Seq({list[i]}) /\ Len(<<list[i]>>) = 1 /\ <<list[i]>>[1] = list[i]
            OBVIOUS
        <3>3. IsSeq(parts[i]) /\ Len(parts[i]) = 1 /\ parts[i][1] = list[i]
            BY <3>1, <3>2, SeqIs
        <3>4. 1..1 = {1}
            OBVIOUS
        <3> QED BY <2>1, <3>3, <3>4 DEF Distinct, Elements
    <2>2. CASE list[i] \notin S
        <3>1. parts[i] = <<>>
            BY <1>2, <2>2
        <3>2. IsSeq(parts[i]) /\ 1..Len(parts[i]) = {}
            BY <3>1, EmptyIs
        <3> QED BY <2>2, <3>2 DEF Distinct, Elements
    <2> QED BY <2>1, <2>2
<1> HIDE DEF n
<1>6. Parts(parts)
    BY <1>4, <1>5 DEF Parts
<1>7. Gathers(FlattenSeq(parts), parts, n)
    BY <1>4, <1>6, FlatGathers
<1>8. InFirst(parts, n) = Elements(list) \cap S
    <2>1. \A k \in 1..n : Elements(parts[k]) = {list[k]} \cap S
        BY <1>5
    <2>2. InFirst(parts, n) = UNION {{list[k]} \cap S : k \in 1..n}
        BY <2>1 DEF InFirst
    <2>3. Elements(list) = {list[k] : k \in 1..n}
        BY DEF Elements, n
    <2> QED BY <2>2, <2>3
<1>9. ASSUME \A i, j \in 1..n : list[i] = list[j] /\ list[i] \in S => i = j
      PROVE  Distinct(FlattenSeq(parts))
    <2>1. ASSUME NEW k \in 1..n, NEW l \in 1..n, k # l
          PROVE  Elements(parts[k]) \cap Elements(parts[l]) = {}
        <3>1. Elements(parts[k]) = {list[k]} \cap S /\ Elements(parts[l]) = {list[l]} \cap S
            BY <1>5
        <3>2. ~(list[k] = list[l] /\ list[k] \in S)
            BY <1>9, <2>1
        <3> QED BY <3>1, <3>2
    <2>2. \A k \in 1..n : Distinct(parts[k])
        BY <1>5
    <2>3. Apart(parts)
        BY <1>4, <2>1, <2>2 DEF Apart
    <2> QED BY <1>7, <2>3 DEF Gathers
<1> QED BY <1>3, <1>7, <1>8, <1>9 DEF AmongOK, Gathers, n

\* The message of a shader; those of shaders are unlike, and unlike marks.
Sending(k) == IF k \in Unique THEN Compress(k, TRUE) ELSE Compress(k, FALSE)

LEMMA MessagesDiffer ==
    /\ \A k, l : Sending(k) = Sending(l) => k = l
    /\ \A k, l, a, b : Compress(k, a) = Compress(l, b) => k = l
    /\ \A kind, other, m, n : Mark(kind, m) = Mark(other, n) => kind = other /\ m = n
    /\ \A k, a, kind, m : kind # "compress" => Mark(kind, m) # Compress(k, a)
    /\ \A k : Sending(k).kind = "compress" /\ Sending(k).of = k
    /\ \A k, a : Compress(k, a).kind = "compress" /\ Compress(k, a).of = k
    /\ \A kind, m : Mark(kind, m).kind = kind /\ Mark(kind, m).of = m
<1>1. \A k, a : Compress(k, a).kind = "compress" /\ Compress(k, a).of = k
    BY DEF Compress
<1>2. \A kind, m : Mark(kind, m).kind = kind /\ Mark(kind, m).of = m
    BY DEF Mark
<1>3. \A k : Sending(k).kind = "compress" /\ Sending(k).of = k
    BY <1>1 DEF Sending
<1> HIDE DEF Sending
<1>4. \A k, l : Sending(k) = Sending(l) => k = l
    BY <1>3
<1>5. \A k, l, a, b : Compress(k, a) = Compress(l, b) => k = l
    BY <1>1
<1>6. \A kind, other, m, n : Mark(kind, m) = Mark(other, n) => kind = other /\ m = n
    BY <1>2
<1>7. \A k, a, kind, m : kind # "compress" => Mark(kind, m) # Compress(k, a)
    BY <1>1, <1>2
<1> QED BY <1>1, <1>2, <1>3, <1>4, <1>5, <1>6, <1>7

\* A list made into messages.
CodesOK(s, list, unique) ==
    /\ IsSeq(s) /\ Len(s) = Len(list)
    /\ Elements(s) = {Compress(k, unique) : k \in Elements(list)}
    /\ Distinct(list) => Distinct(s)

LEMMA CodesAre ==
    ASSUME NEW list, IsSeq(list), NEW unique
    PROVE  CodesOK(Codes(list, unique), list, unique)
<1> DEFINE n == Len(list)
<1>1. n \in Nat /\ DOMAIN list = 1..n
    BY SeqHas
<1>2. PICK s : s = [i \in 1..n |-> Compress(list[i], unique)]
    OBVIOUS
<1>3. Codes(list, unique) = s
    BY <1>1, <1>2 DEF Codes
<1>4. \A i \in 1..n : s[i] = Compress(list[i], unique)
    BY <1>2
<1>5. IsSeq(s) /\ Len(s) = n
    <2>1. s = [i \in 1..n |-> s[i]]
        BY <1>2
    <2> HIDE DEF n
    <2> QED BY <1>1, <2>1, Made
<1>6. Elements(s) = {Compress(k, unique) : k \in Elements(list)}
    BY <1>4, <1>5 DEF Elements
<1>7. Distinct(list) => Distinct(s)
    BY <1>4, <1>5, MessagesDiffer DEF Distinct
<1> QED BY <1>3, <1>5, <1>6, <1>7 DEF CodesOK

\* The shaders that only this map has, and only once.
Own(m) == Elements(extracted.maps[m]) \cap Unique

\* A place in a map where a shader is listed.
ListedAt(m, i, k) == m \in MapIds /\ i \in 1..Len(extracted.maps[m]) /\ extracted.maps[m][i] = k

LEMMA LibraryHas ==
    ASSUME LibraryOK
    PROVE  /\ Len(extracted.sizes) \in Nat /\ ShaderIds = 1..Len(extracted.sizes)
           /\ Len(extracted.maps) \in Nat /\ MapIds = 1..Len(extracted.maps)
           /\ \A k \in ShaderIds : extracted.sizes[k] \in Nat
           /\ \A m \in MapIds : /\ IsSeq(extracted.maps[m])
                               /\ DOMAIN extracted.maps[m] = 1..Len(extracted.maps[m])
                               /\ Elements(extracted.maps[m]) \subseteq ShaderIds
                               /\ Elements(extracted.maps[m]) = ToSet(extracted.maps[m])
<1>1. /\ Len(extracted.sizes) \in Nat /\ ShaderIds = 1..Len(extracted.sizes)
      /\ Len(extracted.maps) \in Nat /\ MapIds = 1..Len(extracted.maps)
    BY LenProperties DEF LibraryOK, ShaderIds, MapIds
<1>2. \A k \in ShaderIds : extracted.sizes[k] \in Nat
    BY <1>1, ElementOfSeq DEF LibraryOK
<1>3. ASSUME NEW m \in MapIds
      PROVE  /\ IsSeq(extracted.maps[m])
             /\ DOMAIN extracted.maps[m] = 1..Len(extracted.maps[m])
             /\ Elements(extracted.maps[m]) \subseteq ShaderIds
             /\ Elements(extracted.maps[m]) = ToSet(extracted.maps[m])
    <2>1. extracted.maps[m] \in Seq(ShaderIds)
        BY <1>1, ElementOfSeq DEF LibraryOK
    <2>2. IsSeq(extracted.maps[m])
        BY <2>1, SeqIs
    <2>3. DOMAIN extracted.maps[m] = 1..Len(extracted.maps[m])
        BY <2>2, SeqHas
    <2>4. \A i \in 1..Len(extracted.maps[m]) : extracted.maps[m][i] \in ShaderIds
        BY <2>1, ElementOfSeq
    <2>5. Elements(extracted.maps[m]) = ToSet(extracted.maps[m])
        BY <2>3 DEF Elements, ToSet
    <2> QED BY <2>2, <2>3, <2>4, <2>5 DEF Elements
<1> QED BY <1>1, <1>2, <1>3

\* The references of a shader are finitely many, one for each place.
LEMMA ReferencesAre ==
    ASSUME LibraryOK, NEW k
    PROVE  /\ IsFiniteSet(References(k))
           /\ \A m, i : <<m, i>> \in References(k) <=> ListedAt(m, i, k)
           /\ \A x \in References(k) : \E m, i : x = <<m, i>>
<1> DEFINE R(m) == {<<m, i>> : i \in {i \in DOMAIN extracted.maps[m] : extracted.maps[m][i] = k}}
           All == {R(m) : m \in MapIds}
<1>1. References(k) = UNION All
    BY DEF References
<1>2. ASSUME NEW m \in MapIds PROVE IsFiniteSet(R(m))
    <2> DEFINE D == 1..Len(extracted.maps[m])
    <2>1. Len(extracted.maps[m]) \in Nat /\ DOMAIN extracted.maps[m] = D
        BY LibraryHas, SeqHas
    <2>2. IsFiniteSet(D) /\ IsFiniteSet({m})
        <3>1. PICK n \in Nat : D = 1..n
            BY <2>1
        <3>2. 1 \in Int /\ n \in Int
            OBVIOUS
        <3>3. IsFiniteSet(1..n)
            BY <3>2, FS_Interval
        <3> HIDE DEF D
        <3> QED BY <3>1, <3>3, FS_Singleton
    <2>3. R(m) \in SUBSET ({m} \X D)
        BY <2>1
    <2>4. IsFiniteSet({m} \X D)
        <3> HIDE DEF D
        <3> QED BY <2>2, FS_Product
    <2> HIDE DEF R, D
    <2> QED BY <2>3, <2>4, FS_Subset
<1>3. IsFiniteSet(All)
    <2>1. IsFiniteSet(MapIds)
        BY LibraryHas, FS_Interval
    <2> DEFINE f == [m \in MapIds |-> R(m)]
    <2> HIDE DEF R
    <2>2. f \in Surjection(MapIds, All)
        BY DEF Surjection
    <2> HIDE DEF f, All
    <2> QED BY <2>1, <2>2, FS_Surjection
<1>4. \A T \in All : IsFiniteSet(T)
    <2> HIDE DEF R
    <2> QED BY <1>2
<1>5. IsFiniteSet(References(k))
    <2> HIDE DEF All
    <2> QED BY <1>1, <1>3, <1>4, FS_UNION
<1>6. \A m \in MapIds : DOMAIN extracted.maps[m] = 1..Len(extracted.maps[m])
    BY LibraryHas
<1>7. \A m, i : <<m, i>> \in References(k) <=> ListedAt(m, i, k)
    BY <1>6 DEF References, ListedAt
<1>8. \A x \in References(k) : \E m, i : x = <<m, i>>
    BY DEF References
<1> QED BY <1>5, <1>7, <1>8

\* A shader is shared, of one map or detached, and only one of these; what one map
\* has once is in no other place.
LEMMA KindsOfShaders ==
    ASSUME LibraryOK
    PROVE  /\ ShaderIds = Shared \cup Unique \cup Detached
           /\ Shared \cap Unique = {} /\ Detached \cap Unique = {} /\ Shared \cap Detached = {}
           /\ \A k \in Unique : \A m, i, n, j : ListedAt(m, i, k) /\ ListedAt(n, j, k) => m = n /\ i = j
           /\ Unique = UNION {Own(m) : m \in MapIds}
<1>1. ASSUME NEW k \in ShaderIds
      PROVE  /\ Cardinality(References(k)) \in Nat
             /\ Cardinality(References(k)) = 0 <=> References(k) = {}
             /\ Cardinality(References(k)) = 1 <=> \E x : References(k) = {x}
    <2>1. IsFiniteSet(References(k))
        BY ReferencesAre
    <2> QED BY <2>1, FS_CardinalityType, FS_EmptySet, FS_Singleton
<1>2. /\ ShaderIds = Shared \cup Unique \cup Detached
      /\ Shared \cap Unique = {} /\ Detached \cap Unique = {} /\ Shared \cap Detached = {}
    <2>1. \A k \in ShaderIds : LET c == Cardinality(References(k))
                             IN  c \in Nat /\ (c = 0 <=> References(k) = {})
        BY <1>1
    <2> QED BY <2>1 DEF Shared, Unique, Detached
<1>3. ASSUME NEW k \in Unique, NEW m, NEW i, NEW n, NEW j, ListedAt(m, i, k), ListedAt(n, j, k)
      PROVE  m = n /\ i = j
    <2>1. k \in ShaderIds /\ Cardinality(References(k)) = 1
        BY DEF Unique
    <2>2. PICK x : References(k) = {x}
        BY <1>1, <2>1
    <2>3. <<m, i>> \in References(k) /\ <<n, j>> \in References(k)
        BY <1>3, ReferencesAre
    <2>4. <<m, i>> = x /\ <<n, j>> = x
        BY <2>2, <2>3
    <2>5. <<m, i>> = <<n, j>>
        BY <2>4
    <2> QED BY <2>5
<1>4. ASSUME NEW k \in Unique PROVE \E m \in MapIds : k \in Own(m)
    <2>1. k \in ShaderIds /\ Cardinality(References(k)) = 1
        BY DEF Unique
    <2>2. PICK x : x \in References(k)
        BY <1>1, <2>1
    <2>3. PICK m, i : x = <<m, i>>
        BY <2>2, ReferencesAre
    <2>4. ListedAt(m, i, k)
        BY <2>2, <2>3, ReferencesAre
    <2>5. m \in MapIds /\ k \in Elements(extracted.maps[m])
        BY <2>4 DEF ListedAt, Elements
    <2> QED BY <2>5 DEF Own
<1>5. Unique = UNION {Own(m) : m \in MapIds}
    BY <1>4 DEF Own
<1> QED BY <1>2, <1>3, <1>5

\* Different maps have different shaders of their own.
LEMMA OwnersDiffer ==
    ASSUME LibraryOK, NEW m \in MapIds, NEW n \in MapIds, NEW k \in Own(m), k \in Own(n)
    PROVE  m = n
<1>1. k \in Unique /\ k \in Elements(extracted.maps[m]) /\ k \in Elements(extracted.maps[n])
    BY DEF Own
<1>2. PICK i : ListedAt(m, i, k)
    BY <1>1 DEF Elements, ListedAt
<1>3. PICK j : ListedAt(n, j, k)
    BY <1>1 DEF Elements, ListedAt
<1> QED BY <1>1, <1>2, <1>3, KindsOfShaders

\* The messages of a map: two marks, and between them the shaders it owns.
SectionOK(t, m) ==
    /\ IsSeq(t) /\ Len(t) >= 2
    /\ t[1] = Mark("start", m) /\ t[Len(t)] = Mark("end", m)
    /\ \A i \in 2..(Len(t) - 1) : \E k \in Own(m) : t[i] = Compress(k, TRUE)
    /\ Elements(t) = {Mark("start", m), Mark("end", m)} \cup {Compress(k, TRUE) : k \in Own(m)}
    /\ Distinct(t)

\* A sequence of one.
LEMMA OneIs ==
    ASSUME NEW x
    PROVE  /\ IsSeq(<<x>>) /\ Len(<<x>>) = 1 /\ <<x>>[1] = x
           /\ Elements(<<x>>) = {x} /\ Distinct(<<x>>)
<1>1. <<x>> \in Seq({x}) /\ Len(<<x>>) = 1 /\ <<x>>[1] = x
    OBVIOUS
<1>2. PICK s : s = <<x>>
    OBVIOUS
<1>3. IsSeq(s) /\ Len(s) = 1 /\ s[1] = x
    BY <1>1, <1>2, SeqIs
<1>4. 1..1 = {1}
    OBVIOUS
<1>5. Elements(s) = {x} /\ Distinct(s)
    BY <1>3, <1>4 DEF Elements, Distinct
<1> QED BY <1>2, <1>3, <1>5

LEMMA SectionIs ==
    ASSUME LibraryOK, NEW m \in MapIds
    PROVE  SectionOK(Section(m), m)
<1> DEFINE list == extracted.maps[m]
<1>1. PICK s, e : s = <<Mark("start", m)>> /\ e = <<Mark("end", m)>>
    OBVIOUS
<1>2. PICK own : own = Among(list, Unique)
    OBVIOUS
<1>3. PICK c : c = Codes(own, TRUE)
    OBVIOUS
<1>4. Section(m) = (s \o c) \o e
    BY <1>1, <1>2, <1>3 DEF Section
<1>5. IsSeq(own) /\ Elements(own) = Own(m) /\ Distinct(own)
    <2>1. IsSeq(list)
        BY LibraryHas
    <2>2. ASSUME NEW i \in 1..Len(list), NEW j \in 1..Len(list), list[i] = list[j], list[i] \in Unique
          PROVE  i = j
        BY <2>2, KindsOfShaders DEF ListedAt
    <2>3. AmongOK(own, list, Unique)
        BY <1>2, <2>1, AmongIs
    <2> QED BY <2>2, <2>3 DEF AmongOK, Own
<1>6. CodesOK(c, own, TRUE)
    BY <1>3, <1>5, CodesAre
<1>7. /\ IsSeq(c) /\ Distinct(c) /\ Elements(c) = {Compress(k, TRUE) : k \in Own(m)}
    BY <1>5, <1>6 DEF CodesOK
<1>8. /\ IsSeq(s) /\ Len(s) = 1 /\ s[1] = Mark("start", m)
      /\ Elements(s) = {Mark("start", m)} /\ Distinct(s)
      /\ IsSeq(e) /\ Len(e) = 1 /\ e[1] = Mark("end", m)
      /\ Elements(e) = {Mark("end", m)} /\ Distinct(e)
    BY <1>1, OneIs
<1>9. "start" # "compress" /\ "end" # "compress" /\ "start" # "end"
    OBVIOUS
<1>10. Elements(s) \cap Elements(c) = {} /\ (Elements(s) \cup Elements(c)) \cap Elements(e) = {}
    <2>1. Mark("start", m) # Mark("end", m)
        BY <1>9, MessagesDiffer
    <2>2. \A k : Mark("start", m) # Compress(k, TRUE) /\ Mark("end", m) # Compress(k, TRUE)
        BY <1>9, MessagesDiffer
    <2>3. PICK x, y : x = Mark("start", m) /\ y = Mark("end", m)
        OBVIOUS
    <2>4. x \notin Elements(c) /\ y \notin Elements(c)
        BY <1>7, <2>2, <2>3
    <2>5. Elements(s) = {x} /\ Elements(e) = {y} /\ x # y
        BY <1>8, <2>1, <2>3
    <2> QED BY <2>4, <2>5
<1>11. PICK u : u = s \o c
    OBVIOUS
<1>12. IsSeq(u) /\ Elements(u) = Elements(s) \cup Elements(c) /\ Distinct(u)
    BY <1>7, <1>8, <1>10, <1>11, ElementsJoin, Joined
<1>13. PICK t : t = u \o e
    OBVIOUS
<1>14. IsSeq(t) /\ Elements(t) = Elements(u) \cup Elements(e) /\ Distinct(t)
    BY <1>8, <1>10, <1>12, <1>13, ElementsJoin, Joined
<1> DEFINE n == Len(c)
<1>15. /\ n \in Nat /\ Len(u) = 1 + n /\ Len(t) = 1 + n + 1
       /\ u[1] = s[1] /\ \A i \in 1..n : u[1 + i] = c[i]
       /\ \A i \in 1..(1 + n) : t[i] = u[i]
       /\ t[1 + n + 1] = e[1]
    <2>1. n \in Nat
        BY <1>7, SeqHas
    <2>0. IsSeq(s) /\ IsSeq(c) /\ IsSeq(e) /\ IsSeq(u)
        BY <1>7, <1>8, <1>12
    <2>2. /\ Len(u) = Len(s) + Len(c)
          /\ \A i \in 1..Len(s) : u[i] = s[i]
          /\ \A i \in 1..Len(c) : u[Len(s) + i] = c[i]
        BY <2>0, <1>11, Joined
    <2>3. /\ Len(t) = Len(u) + Len(e)
          /\ \A i \in 1..Len(u) : t[i] = u[i]
          /\ \A i \in 1..Len(e) : t[Len(u) + i] = e[i]
        BY <2>0, <1>13, Joined
    <2>4. Len(s) = 1 /\ Len(e) = 1 /\ 1 \in 1..1
        BY <1>8
    <2>5. Len(u) = 1 + n /\ u[1] = s[1] /\ \A i \in 1..n : u[1 + i] = c[i]
        BY <2>2, <2>4
    <2> HIDE DEF n
    <2>6. Len(t) = 1 + n + 1 /\ t[1 + n + 1] = e[1] /\ \A i \in 1..(1 + n) : t[i] = u[i]
        BY <2>3, <2>4, <2>5
    <2> QED BY <2>1, <2>5, <2>6
<1>16. ASSUME NEW i \in 2..(Len(t) - 1) PROVE \E k \in Own(m) : t[i] = Compress(k, TRUE)
    <2>1. i - 1 \in 1..n /\ 1 + (i - 1) = i /\ i \in 1..(1 + n)
        BY <1>15
    <2>2. t[i] = u[i] /\ u[1 + (i - 1)] = c[i - 1]
        BY <1>15, <2>1
    <2>3. c[i - 1] \in Elements(c)
        BY <2>1 DEF Elements
    <2> QED BY <1>7, <2>1, <2>2, <2>3
<1>17. t[1] = Mark("start", m) /\ t[Len(t)] = Mark("end", m) /\ Len(t) >= 2
    <2>1. 1 \in 1..(1 + n)
        BY <1>15
    <2> QED BY <1>8, <1>15, <2>1
<1>18. Elements(t) = {Mark("start", m), Mark("end", m)} \cup {Compress(k, TRUE) : k \in Own(m)}
    BY <1>7, <1>8, <1>12, <1>14
<1>19. SectionOK(t, m)
    BY <1>14, <1>16, <1>17, <1>18 DEF SectionOK
<1> QED BY <1>4, <1>11, <1>13, <1>19

\* What is sent for a map lies between its two marks, and nothing else does.
Between(p, m, lo, hi) ==
    /\ lo \in 1..Len(p) /\ hi \in 1..Len(p) /\ lo < hi
    /\ p[lo] = Mark("start", m) /\ p[hi] = Mark("end", m)
    /\ \A i \in 1..Len(p) : lo < i /\ i < hi => \E k \in Own(m) : p[i] = Sending(k)
    /\ \A i \in 1..Len(p) : \A k \in Own(m) : p[i] = Sending(k) => lo < i /\ i < hi

Marks(m) == {Mark("start", m), Mark("end", m)}

PlanOK(p) ==
    /\ IsSeq(p) /\ Distinct(p)
    /\ Elements(p) = {Sending(k) : k \in ShaderIds} \cup UNION {Marks(m) : m \in MapIds}
    /\ \A m \in MapIds : \E lo, hi : Between(p, m, lo, hi)

\* A section that lies somewhere in a plan is between the marks there.
LEMMA SectionBetween ==
    ASSUME NEW m, NEW t, SectionOK(t, m), NEW p, IsSeq(p), Distinct(p), NEW o \in Nat,
           Holds(p, o, t)
    PROVE  Between(p, m, o + 1, o + Len(t))
<1> DEFINE n == Len(t)
           lo == o + 1
           hi == o + n
<1>1. n \in Nat /\ Len(p) \in Nat /\ n >= 2 /\ o + n <= Len(p)
    BY SeqHas DEF SectionOK, Holds
<1>2. \A i \in 1..n : p[o + i] = t[i]
    BY DEF Holds
<1>3. lo \in 1..Len(p) /\ hi \in 1..Len(p) /\ lo < hi
    BY <1>1
<1>4. p[lo] = Mark("start", m) /\ p[hi] = Mark("end", m)
    <2>1. 1 \in 1..n /\ n \in 1..n
        BY <1>1
    <2> QED BY <1>2, <2>1 DEF SectionOK
<1>5. \A k \in Own(m) : Sending(k) = Compress(k, TRUE)
    BY DEF Own, Sending
<1>6. ASSUME NEW i \in 1..Len(p), lo < i, i < hi PROVE \E k \in Own(m) : p[i] = Sending(k)
    <2>1. i - o \in 2..(n - 1) /\ i - o \in 1..n /\ o + (i - o) = i
        BY <1>1, <1>6
    <2>2. PICK k \in Own(m) : t[i - o] = Compress(k, TRUE)
        BY <2>1 DEF SectionOK
    <2>3. p[o + (i - o)] = t[i - o]
        BY <1>2, <2>1
    <2> QED BY <1>5, <2>1, <2>2, <2>3
<1>7. ASSUME NEW i \in 1..Len(p), NEW k \in Own(m), p[i] = Sending(k) PROVE lo < i /\ i < hi
    <2>1. Compress(k, TRUE) \in Elements(t)
        BY DEF SectionOK
    <2>2. PICK j \in 1..n : t[j] = Compress(k, TRUE)
        BY <2>1 DEF Elements
    <2>3. p[o + j] = p[i] /\ o + j \in 1..Len(p)
        <3>1. p[o + j] = t[j]
            BY <1>2
        <3>2. p[i] = Compress(k, TRUE)
            BY <1>5, <1>7
        <3>3. o + j \in 1..Len(p)
            BY <1>1
        <3> QED BY <2>2, <3>1, <3>2, <3>3
    <2>4. o + j = i
        BY <2>3 DEF Distinct
    <2>5. t[j] # Mark("start", m) /\ t[j] # Mark("end", m)
        <3>1. "start" # "compress" /\ "end" # "compress"
            OBVIOUS
        <3>2. Mark("start", m) # Compress(k, TRUE) /\ Mark("end", m) # Compress(k, TRUE)
            BY <3>1, MessagesDiffer
        <3> QED BY <2>2, <3>2
    <2>6. j # 1 /\ j # n
        <3>1. t[1] = Mark("start", m) /\ t[n] = Mark("end", m)
            BY DEF SectionOK
        <3> QED BY <2>5, <3>1
    <2> QED BY <1>1, <2>4, <2>6
<1> QED BY <1>3, <1>4, <1>6, <1>7 DEF Between

\* The plan has each shader once, and between the marks of each map what only it has.
LEMMA PlanIs ==
    ASSUME LibraryOK
    PROVE  PlanOK(Plan)
<1> DEFINE n == Len(extracted.maps)
<1>0. n \in Nat /\ MapIds = 1..n
    BY LibraryHas
<1>1. PICK all : all = [k \in ShaderIds |-> k]
    OBVIOUS
<1>2. IsSeq(all) /\ Elements(all) = ShaderIds /\ Distinct(all)
    <2>1. PICK z \in Nat : ShaderIds = 1..z
        BY LibraryHas
    <2>2. \A k \in 1..z : all[k] = k
        BY <1>1, <2>1
    <2>3. IsSeq(all) /\ Len(all) = z
        <3>1. all = [k \in 1..z |-> all[k]]
            BY <1>1, <2>1
        <3> QED BY <2>1, <3>1, Made
    <2> QED BY <2>1, <2>2, <2>3 DEF Elements, Distinct
<1>3. ASSUME NEW S, S \subseteq ShaderIds
      PROVE  LET c == Codes(Among(all, S), FALSE)
             IN  IsSeq(c) /\ Distinct(c) /\ Elements(c) = {Compress(k, FALSE) : k \in S}
    <2>1. PICK s : s = Among(all, S)
        OBVIOUS
    <2>2. AmongOK(s, all, S)
        BY <1>2, <2>1, AmongIs
    <2>3. IsSeq(s) /\ Elements(s) = S /\ Distinct(s)
        BY <1>2, <1>3, <2>2 DEF AmongOK, Distinct
    <2>4. CodesOK(Codes(s, FALSE), s, FALSE)
        BY <2>3, CodesAre
    <2> QED BY <2>1, <2>3, <2>4 DEF CodesOK
<1>4. PICK a : a = Codes(Among(all, Shared), FALSE)
    OBVIOUS
<1>5. PICK d : d = Codes(Among(all, Detached), FALSE)
    OBVIOUS
<1>6. IsSeq(a) /\ Distinct(a) /\ Elements(a) = {Compress(k, FALSE) : k \in Shared}
    <2>1. Shared \subseteq ShaderIds
        BY DEF Shared
    <2> QED BY <1>3, <1>4, <2>1
<1>7. IsSeq(d) /\ Distinct(d) /\ Elements(d) = {Compress(k, FALSE) : k \in Detached}
    <2>1. Detached \subseteq ShaderIds
        BY DEF Detached
    <2> QED BY <1>3, <1>5, <2>1
<1>8. PICK parts : parts = [m \in MapIds |-> Section(m)]
    OBVIOUS
<1>9. IsSeq(parts) /\ Len(parts) = n
    <2>1. parts = [m \in 1..n |-> parts[m]]
        BY <1>0, <1>8
    <2> HIDE DEF n
    <2> QED BY <1>0, <2>1, Made
<1>10. \A m \in 1..n : SectionOK(parts[m], m)
    BY <1>0, <1>8, SectionIs
<1> HIDE DEF n
<1>11. Parts(parts)
    BY <1>9, <1>10 DEF Parts, SectionOK
<1>12. PICK f : f = FlattenSeq(parts)
    OBVIOUS
<1>13. \A m \in MapIds : Elements(parts[m]) = Marks(m) \cup {Sending(k) : k \in Own(m)}
    <2>1. ASSUME NEW m \in MapIds
          PROVE  Elements(parts[m]) = Marks(m) \cup {Sending(k) : k \in Own(m)}
        <3>1. Elements(parts[m]) = Marks(m) \cup {Compress(k, TRUE) : k \in Own(m)}
            BY <1>0, <1>10 DEF SectionOK, Marks
        <3>2. \A k \in Own(m) : Sending(k) = Compress(k, TRUE)
            BY DEF Own, Sending
        <3> QED BY <3>1, <3>2
    <2> QED BY <2>1
<1>14. \A k, m : Sending(k) \notin Marks(m)
    <2>1. "start" # "compress" /\ "end" # "compress"
        OBVIOUS
    <2>2. \A k : Sending(k) = Compress(k, TRUE) \/ Sending(k) = Compress(k, FALSE)
        BY DEF Sending
    <2>3. \A k, u, m : Mark("start", m) # Compress(k, u) /\ Mark("end", m) # Compress(k, u)
        BY <2>1, MessagesDiffer
    <2> QED BY <2>2, <2>3 DEF Marks
<1>15. Apart(parts)
    <2>1. ASSUME NEW m \in 1..n, NEW l \in 1..n, m # l, NEW x \in Elements(parts[m]),
                 x \in Elements(parts[l])
          PROVE  FALSE
        <3>1. /\ x \in Marks(m) \/ \E k \in Own(m) : x = Sending(k)
              /\ x \in Marks(l) \/ \E k \in Own(l) : x = Sending(k)
            BY <1>0, <1>13, <2>1
        <3>2. CASE x \in Marks(m) /\ x \in Marks(l)
            BY <2>1, <3>2, MessagesDiffer DEF Marks
        <3>3. CASE x \notin Marks(m) /\ x \notin Marks(l)
            <4>1. PICK k \in Own(m) : x = Sending(k)
                BY <3>1, <3>3
            <4>2. PICK j \in Own(l) : x = Sending(j)
                BY <3>1, <3>3
            <4>3. k = j
                BY <4>1, <4>2, MessagesDiffer
            <4> QED BY <1>0, <2>1, <4>3, OwnersDiffer
        <3> QED BY <1>14, <3>1, <3>2, <3>3
    <2>2. \A m \in 1..n : Distinct(parts[m])
        BY <1>10 DEF SectionOK
    <2> QED BY <1>9, <2>1, <2>2 DEF Apart
<1>16. IsSeq(f) /\ Distinct(f) /\ Elements(f) = {Sending(k) : k \in Unique} \cup UNION {Marks(m) : m \in MapIds}
    <2>1. Gathers(f, parts, n)
        BY <1>9, <1>11, <1>12, FlatGathers
    <2>2. Elements(f) = UNION {Elements(parts[m]) : m \in MapIds}
        BY <1>0, <2>1 DEF Gathers, InFirst
    <2>3. Elements(f) = UNION {Marks(m) \cup {Sending(k) : k \in Own(m)} : m \in MapIds}
        BY <1>13, <2>2
    <2>4. Unique = UNION {Own(m) : m \in MapIds}
        BY KindsOfShaders
    <2>5. Elements(f) = {Sending(k) : k \in Unique} \cup UNION {Marks(m) : m \in MapIds}
        BY <2>3, <2>4
    <2> QED BY <1>15, <2>1, <2>5 DEF Gathers
<1>17. /\ Elements(a) = {Sending(k) : k \in Shared}
       /\ Elements(d) = {Sending(k) : k \in Detached}
    <2>1. Shared \cap Unique = {} /\ Detached \cap Unique = {}
        BY KindsOfShaders
    <2>2. \A k \in Shared \cup Detached : Sending(k) = Compress(k, FALSE)
        BY <2>1 DEF Sending
    <2> QED BY <1>6, <1>7, <2>2
<1>18. Elements(a) \cap Elements(f) = {} /\ (Elements(a) \cup Elements(f)) \cap Elements(d) = {}
    <2>1. /\ Shared \cap Unique = {} /\ Detached \cap Unique = {} /\ Shared \cap Detached = {}
        BY KindsOfShaders
    <2>2. \A k, l : Sending(k) = Sending(l) => k = l
        BY MessagesDiffer
    <2> QED BY <1>14, <1>16, <1>17, <2>1, <2>2
<1>19. PICK q : q = a \o f
    OBVIOUS
<1>20. IsSeq(q) /\ Distinct(q) /\ Elements(q) = Elements(a) \cup Elements(f)
    BY <1>6, <1>16, <1>18, <1>19, ElementsJoin, Joined
<1>21. PICK p : p = q \o d
    OBVIOUS
<1>22. IsSeq(p) /\ Distinct(p) /\ Elements(p) = Elements(q) \cup Elements(d)
    BY <1>7, <1>18, <1>20, <1>21, ElementsJoin, Joined
<1>23. Plan = p
    BY <1>1, <1>4, <1>5, <1>8, <1>12, <1>19, <1>21 DEF Plan
<1>24. Elements(p) = {Sending(k) : k \in ShaderIds} \cup UNION {Marks(m) : m \in MapIds}
    <2>1. ShaderIds = Shared \cup Unique \cup Detached
        BY KindsOfShaders
    <2> QED BY <1>16, <1>17, <1>20, <1>22, <2>1
<1>25. Len(a) \in Nat
    BY <1>6, SeqHas
<1>26. PICK at : IsOffsets(at, Len(a), Sizes(parts))
    <2>1. Sizes(parts) \in Seq(Nat)
        BY <1>11, SizesAre
    <2> QED BY <1>25, <2>1, OffsetsThere
<1>27. FollowOn(q, a, parts, at)
    BY <1>6, <1>11, <1>12, <1>19, <1>26, Laid
<1>28. ASSUME NEW m \in MapIds PROVE \E lo, hi : Between(p, m, lo, hi)
    <2> DEFINE o == at[m]
               t == parts[m]
    <2>1. o \in Nat /\ Holds(q, o, t) /\ SectionOK(t, m)
        BY <1>0, <1>9, <1>10, <1>27 DEF FollowOn
    <2> HIDE DEF o, t
    <2>2. Holds(p, o, t)
        <3>1. /\ Len(p) = Len(q) + Len(d) /\ Len(q) \in Nat /\ Len(d) \in Nat /\ Len(t) \in Nat
              /\ \A i \in 1..Len(q) : p[i] = q[i]
            <4>1. Len(t) \in Nat
                BY <2>1, SeqHas DEF SectionOK
            <4> QED BY <1>7, <1>20, <1>21, <4>1, Joined, SeqHas
        <3>2. o + Len(t) <= Len(q)
            BY <2>1 DEF Holds
        <3>3. ASSUME NEW i \in 1..Len(t) PROVE p[o + i] = t[i]
            <4>1. o + i \in 1..Len(q)
                BY <2>1, <3>1, <3>2
            <4>2. q[o + i] = t[i]
                BY <2>1 DEF Holds
            <4> QED BY <3>1, <4>1, <4>2
        <3>4. o + Len(t) <= Len(p)
            BY <2>1, <3>1, <3>2
        <3> QED BY <3>3, <3>4 DEF Holds
    <2>3. Between(p, m, o + 1, o + Len(t))
        BY <1>22, <2>1, <2>2, SectionBetween
    <2> QED BY <2>3
<1>29. PlanOK(p)
    BY <1>22, <1>24, <1>28 DEF PlanOK
<1> QED BY <1>23, <1>29

-----------------------------------------------------------------------------
(* The shader layout: what holds while a library is laid out               *)

\* What a worker holds of a message; the size is -2 until it is known.
InHand(w, message) ==
    w = [message |-> message, size |-> w.size] /\ w.size \in Int /\ w.size >= -2

\* While the consumer runs, the workers and the channel hold what was sent and not
\* consumed, in order.
Queued(p, c) ==
    /\ c \in Nat /\ sent \in Nat /\ c <= sent /\ sent <= Len(p)
    /\ IsSeq(channel) /\ Len(channel) <= Capacity
    /\ IsSeq(inflight) /\ Len(inflight) <= InFlight
    /\ consumer = "running" =>
          /\ c + Len(inflight) + Len(channel) = sent
          /\ \A i \in 1..Len(inflight) : InHand(inflight[i], p[c + i])
          /\ \A i \in 1..Len(channel) : channel[i] = p[c + Len(inflight) + i]
    /\ consumer # "running" => channel = <<>> /\ inflight = <<>>

\* Where the two threads are, with what they did.
Parties(p, c) ==
    /\ producer \in {"running", "done", "stopped", "panicked"}
    /\ consumer \in {"running", "ended", "failed"}
    /\ result \in {"none", "ok", "error", "missing", "panic"}
    /\ (receiving = TRUE) <=> consumer = "running"
    /\ producer = "done" => sent = Len(p)
    /\ producer \in {"stopped", "panicked"} => consumer = "failed"
    /\ consumer = "ended" => producer = "done" /\ c = Len(p)
    /\ result # "none" => producer # "running" /\ consumer # "running"
    /\ result = "ok" => consumer = "ended"
    /\ result \in {"error", "panic"} => consumer = "failed"
    /\ result # "missing"

Noted(k) == regions[k][1] >= 0

\* The regions noted are those of the shaders consumed.
CodeWritten(p, c) ==
    /\ IsSeq(file) /\ start \in 0..Len(file)
    /\ DOMAIN regions = ShaderIds /\ DOMAIN mapRegions = MapIds
    /\ \A k \in ShaderIds : Noted(k) <=> \E i \in 1..c : p[i] = Sending(k)
    /\ \A k \in ShaderIds : regions[k][1] \in Int /\ regions[k][2] \in Nat
    /\ \A k \in ShaderIds : Noted(k) => ((regions[k][3] = TRUE) <=> k \in Unique)
    /\ RegionsTile

\* The bytes of the shaders that only this map has.
Mine(m) == {b \in DOMAIN file : file[b] \in Own(m)}

\* They are written between the marks of the map, with nothing else between them.
MapAt(m, lo, hi, c) ==
    /\ c < lo => Mine(m) = {}
    /\ lo <= c /\ c < hi => Mine(m) = (start + 1)..Len(file)
    /\ hi <= c => /\ mapRegions[m][1] \in Nat /\ mapRegions[m][2] \in Nat
                 /\ Mine(m) = Bytes(mapRegions[m])

Mapped(p, c) ==
    \A m \in MapIds : \A lo, hi : Between(p, m, lo, hi) => MapAt(m, lo, hi, c)

Consumed(p, c) ==
    Queued(p, c) /\ Parties(p, c) /\ CodeWritten(p, c) /\ Mapped(p, c) /\ PreloadCoversMap

LayoutInv == result # "idle" => LibraryOK /\ \E c \in 0..sent : Consumed(Plan, c)

-----------------------------------------------------------------------------
(* The shader layout: what the consumer does with a message                *)

\* What a plan has at a place.
LEMMA PlanHas ==
    ASSUME NEW p, PlanOK(p)
    PROVE  /\ IsSeq(p) /\ Len(p) \in Nat
           /\ \A i, j \in 1..Len(p) : p[i] = p[j] => i = j
           /\ \A i \in 1..Len(p) : \/ \E k \in ShaderIds : p[i] = Sending(k)
                                   \/ \E m \in MapIds : p[i] = Mark("start", m)
                                   \/ \E m \in MapIds : p[i] = Mark("end", m)
           /\ \A k \in ShaderIds : \E i \in 1..Len(p) : p[i] = Sending(k)
<1>1. IsSeq(p) /\ Len(p) \in Nat /\ \A i, j \in 1..Len(p) : p[i] = p[j] => i = j
    BY SeqHas DEF PlanOK, Distinct
<1>2. {p[i] : i \in 1..Len(p)} = {Sending(k) : k \in ShaderIds} \cup UNION {Marks(m) : m \in MapIds}
    BY DEF PlanOK, Elements
<1>3. ASSUME NEW i \in 1..Len(p)
      PROVE  \/ \E k \in ShaderIds : p[i] = Sending(k)
             \/ \E m \in MapIds : p[i] = Mark("start", m)
             \/ \E m \in MapIds : p[i] = Mark("end", m)
    <2>1. p[i] \in {Sending(k) : k \in ShaderIds} \/ p[i] \in UNION {Marks(m) : m \in MapIds}
        BY <1>2
    <2> QED BY <2>1 DEF Marks
<1>4. \A k \in ShaderIds : \E i \in 1..Len(p) : p[i] = Sending(k)
    BY <1>2
<1> QED BY <1>1, <1>3, <1>4

\* Where a message is, seen from the marks of a map.
Beyond(lo, hi, i) == i < lo \/ i > hi

LEMMA Elsewhere ==
    ASSUME NEW p, PlanOK(p), NEW m, NEW lo, NEW hi, Between(p, m, lo, hi), NEW i \in 1..Len(p)
    PROVE  /\ \A n : p[i] = Mark("start", n) => IF n = m THEN i = lo ELSE Beyond(lo, hi, i)
           /\ \A n : p[i] = Mark("end", n) => IF n = m THEN i = hi ELSE Beyond(lo, hi, i)
           /\ \A k : p[i] = Sending(k) => IF k \in Own(m) THEN lo < i /\ i < hi ELSE Beyond(lo, hi, i)
<1>0. /\ Len(p) \in Nat /\ lo \in 1..Len(p) /\ hi \in 1..Len(p) /\ lo < hi
      /\ p[lo] = Mark("start", m) /\ p[hi] = Mark("end", m)
      /\ \A j \in 1..Len(p) : p[i] = p[j] => i = j
    BY PlanHas DEF Between
<1>1. /\ \A n, k : Mark("start", n) # Mark("end", k)
      /\ \A n, k : Mark("start", n) = Mark("start", k) => n = k
      /\ \A n, k : Mark("end", n) = Mark("end", k) => n = k
      /\ \A n, k : Sending(n) = Sending(k) => n = k
    <2>1. "start" # "end"
        OBVIOUS
    <2> QED BY <2>1, MessagesDiffer
<1>2. /\ \A n, k : Mark("start", n) # Sending(k)
      /\ \A n, k : Mark("end", n) # Sending(k)
    <2>1. "start" # "compress" /\ "end" # "compress"
        OBVIOUS
    <2>2. \A n : Mark("start", n).kind = "start"
        BY MessagesDiffer
    <2>3. \A n : Mark("end", n).kind = "end"
        BY MessagesDiffer
    <2>4. \A k : Sending(k).kind = "compress"
        BY MessagesDiffer
    <2> QED BY <2>1, <2>2, <2>3, <2>4
<1>3. lo < i /\ i < hi => \E k \in Own(m) : p[i] = Sending(k)
    BY DEF Between
<1>4. ASSUME NEW n, p[i] = Mark("start", n) PROVE IF n = m THEN i = lo ELSE Beyond(lo, hi, i)
    <2>1. p[i] # p[hi]
        BY <1>0, <1>1, <1>4
    <2>2. ~(lo < i /\ i < hi)
        BY <1>2, <1>3, <1>4
    <2>3. n = m => i = lo
        BY <1>0, <1>4
    <2>4. n # m => p[i] # p[lo]
        BY <1>0, <1>1, <1>4
    <2> QED BY <1>0, <2>1, <2>2, <2>3, <2>4 DEF Beyond
<1>5. ASSUME NEW n, p[i] = Mark("end", n) PROVE IF n = m THEN i = hi ELSE Beyond(lo, hi, i)
    <2>1. p[i] # p[lo]
        BY <1>0, <1>1, <1>5
    <2>2. ~(lo < i /\ i < hi)
        BY <1>2, <1>3, <1>5
    <2>3. n = m => i = hi
        BY <1>0, <1>5
    <2>4. n # m => p[i] # p[hi]
        BY <1>0, <1>1, <1>5
    <2> QED BY <1>0, <2>1, <2>2, <2>3, <2>4 DEF Beyond
<1>6. ASSUME NEW k, p[i] = Sending(k)
      PROVE  IF k \in Own(m) THEN lo < i /\ i < hi ELSE Beyond(lo, hi, i)
    <2>1. p[i] # p[lo] /\ p[i] # p[hi]
        BY <1>0, <1>2, <1>6
    <2>2. k \in Own(m) => lo < i /\ i < hi
        BY <1>6 DEF Between
    <2>3. k \notin Own(m) => ~(lo < i /\ i < hi)
        BY <1>1, <1>3, <1>6
    <2> QED BY <1>0, <2>1, <2>2, <2>3 DEF Beyond
<1> QED BY <1>4, <1>5, <1>6

\* The code of a shader is written: the file grows by its bytes.
Grown(k, s) ==
    /\ extracted' = extracted
    /\ regions' = [regions EXCEPT ![k] = <<Len(file), s, k \in Unique>>]
    /\ file' = file \o [b \in 1..s |-> k]
    /\ UNCHANGED <<start, mapRegions>>

\* A mark is met: the file stays as it is.
Marked == UNCHANGED <<extracted, file, regions>>

LEMMA WhatIsConsumed ==
    ASSUME NEW message, NEW s, Consume(message, s), extracted' = extracted
    PROVE  /\ \A k : message = Sending(k) => Grown(k, s)
           /\ \A m : message = Mark("start", m) => Marked /\ start' = Len(file) /\ mapRegions' = mapRegions
           /\ \A m : message = Mark("end", m) =>
                 /\ Marked /\ start' = start
                 /\ mapRegions' = [mapRegions EXCEPT ![m] = <<start, Len(file) - start>>]
<1>1. ASSUME NEW k, message = Sending(k) PROVE Grown(k, s)
    <2>1. message.kind = "compress" /\ message.of = k
        BY <1>1, MessagesDiffer
    <2>2. /\ regions' = [regions EXCEPT ![message.of] = <<Len(file), s, message.unique>>]
          /\ file' = file \o [b \in 1..s |-> message.of]
          /\ UNCHANGED <<start, mapRegions>>
        BY <2>1 DEF Consume
    <2>3. message.unique = (k \in Unique)
        <3>1. CASE k \in Unique
            <4>1. message.unique = TRUE
                BY <1>1, <3>1 DEF Sending, Compress
            <4> QED BY <3>1, <4>1
        <3>2. CASE k \notin Unique
            <4>1. message.unique = FALSE
                BY <1>1, <3>2 DEF Sending, Compress
            <4>2. (k \in Unique) = FALSE
                BY <3>2
            <4> QED BY <4>1, <4>2
        <3> QED BY <3>1, <3>2
    <2> QED BY <2>1, <2>2, <2>3 DEF Grown
<1>2. ASSUME NEW m, message = Mark("start", m)
      PROVE  Marked /\ start' = Len(file) /\ mapRegions' = mapRegions
    <2>1. message.kind = "start"
        BY <1>2, MessagesDiffer
    <2> QED BY <2>1 DEF Consume, Marked
<1>3. ASSUME NEW m, message = Mark("end", m)
      PROVE  /\ Marked /\ start' = start
             /\ mapRegions' = [mapRegions EXCEPT ![m] = <<start, Len(file) - start>>]
    <2>1. message.kind = "end" /\ message.of = m
        BY <1>3, MessagesDiffer
    <2> QED BY <2>1 DEF Consume, Marked
<1> QED BY <1>1, <1>2, <1>3

\* Of the same library, everything is the same.
LEMMA SameLibrary ==
    ASSUME extracted' = extracted
    PROVE  /\ ShaderIds' = ShaderIds /\ MapIds' = MapIds /\ Unique' = Unique /\ Plan' = Plan
           /\ LibraryOK' <=> LibraryOK
           /\ \A m : Own(m)' = Own(m)
           /\ \A k : Sending(k)' = Sending(k)
           /\ \A p, m, lo, hi : Between(p, m, lo, hi)' <=> Between(p, m, lo, hi)
<1>1. ShaderIds' = ShaderIds /\ MapIds' = MapIds
    BY DEF ShaderIds, MapIds
<1>2. Unique' = Unique
    BY DEF Unique, References, ShaderIds, MapIds
<1>3. Plan' = Plan
    BY DEF Plan, Section, Shared, Detached, Unique, References, ShaderIds, MapIds
<1>4. LibraryOK' <=> LibraryOK
    BY <1>1 DEF LibraryOK
<1>5. \A m : Own(m)' = Own(m)
    BY <1>2 DEF Own
<1>6. \A k : Sending(k)' = Sending(k)
    BY <1>2 DEF Sending
<1>7. ASSUME NEW p, NEW m, NEW lo, NEW hi
      PROVE  Between(p, m, lo, hi)' <=> Between(p, m, lo, hi)
    BY <1>5, <1>6 DEF Between
<1> QED BY <1>1, <1>2, <1>3, <1>4, <1>5, <1>6, <1>7

\* What a file that grows has.
LEMMA GrownHas ==
    ASSUME NEW k, NEW s \in Nat, Grown(k, s), IsSeq(file)
    PROVE  LET n == Len(file)
           IN  /\ IsSeq(file') /\ Len(file') = n + s /\ n \in Nat
               /\ DOMAIN file = 1..n /\ DOMAIN file' = 1..(n + s)
               /\ \A b \in 1..n : file'[b] = file[b]
               /\ \A b \in (n + 1)..(n + s) : file'[b] = k
<1>1. PICK w : w = [b \in 1..s |-> k]
    OBVIOUS
<1>2. IsSeq(w) /\ Len(w) = s /\ \A b \in 1..s : w[b] = k
    <2>1. w = [b \in 1..s |-> w[b]]
        BY <1>1
    <2> QED BY <1>1, <2>1, Made
<1>3. file' = file \o w
    BY <1>1 DEF Grown
<1>4. PICK n : n = Len(file)
    OBVIOUS
<1>5. /\ n \in Nat /\ DOMAIN file = 1..n
    BY <1>4, SeqHas
<1>6. /\ IsSeq(file') /\ Len(file') = n + s
      /\ \A b \in 1..n : file'[b] = file[b]
      /\ \A b \in 1..s : file'[n + b] = w[b]
    <2>1. PICK f : f = file'
        OBVIOUS
    <2>2. /\ IsSeq(f) /\ Len(f) = Len(file) + Len(w)
          /\ \A b \in 1..Len(file) : f[b] = file[b]
          /\ \A b \in 1..Len(w) : f[Len(file) + b] = w[b]
        <3>1. IsSeq(file) /\ IsSeq(w) /\ f = file \o w
            BY <1>2, <1>3, <2>1
        <3> QED BY <3>1, Joined
    <2>3. /\ IsSeq(f) /\ Len(f) = n + s
          /\ \A b \in 1..n : f[b] = file[b]
          /\ \A b \in 1..s : f[n + b] = w[b]
        BY <1>2, <1>4, <2>2
    <2> QED BY <2>1, <2>3
<1>7. DOMAIN file' = 1..(n + s)
    BY <1>6, SeqHas
<1>8. ASSUME NEW b \in (n + 1)..(n + s) PROVE file'[b] = k
    <2>1. b - n \in 1..s /\ n + (b - n) = b
        BY <1>5
    <2>2. file'[n + (b - n)] = w[b - n]
        BY <1>6, <2>1
    <2> QED BY <1>2, <2>1, <2>2
<1> QED BY <1>4, <1>5, <1>6, <1>7, <1>8

\* The tiles that were there, and the new one behind them.
LEMMA GrownTiles ==
    ASSUME NEW k \in ShaderIds, ~Noted(k), NEW s \in Nat, Grown(k, s), IsSeq(file),
           DOMAIN regions = ShaderIds, RegionsTile
    PROVE  RegionsTile'
<1> DEFINE W == {j \in ShaderIds : regions[j][1] >= 0}
<1>1. PICK n : n = Len(file)
    OBVIOUS
<1>2. /\ n \in Nat /\ DOMAIN file = 1..n /\ DOMAIN file' = 1..(n + s)
      /\ \A b \in 1..n : file'[b] = file[b]
      /\ \A b \in (n + 1)..(n + s) : file'[b] = k
    BY <1>1, GrownHas
<1>3. ShaderIds' = ShaderIds
    BY SameLibrary DEF Grown
<1>4. k \notin W
    BY DEF Noted
<1>5. regions'[k] = <<n, s, k \in Unique>> /\ \A j \in ShaderIds \ {k} : regions'[j] = regions[j]
    BY <1>1 DEF Grown
<1>6. regions'[k][1] = n /\ regions'[k][2] = s
    BY <1>5
<1>7. {j \in ShaderIds : regions'[j][1] >= 0} = W \cup {k}
    BY <1>2, <1>5, <1>6
<1>8. Bytes(regions'[k]) = (n + 1)..(n + s) /\ \A j \in W : Bytes(regions'[j]) = Bytes(regions[j])
    BY <1>4, <1>5, <1>6 DEF Bytes
<1>9. UNION {Bytes(regions[j]) : j \in W} = 1..n
    BY <1>2 DEF RegionsTile
<1>10. \A j \in W : \A b \in Bytes(regions[j]) : b \in 1..n /\ file[b] = j
    BY <1>2 DEF RegionsTile
<1> HIDE DEF W
<1>11. UNION {Bytes(regions'[j]) : j \in W \cup {k}} = 1..(n + s)
    <2>1. ASSUME NEW j \in W \cup {k}, NEW b \in Bytes(regions'[j]) PROVE b \in 1..(n + s)
        <3>1. CASE j = k
            BY <1>2, <1>8, <2>1, <3>1
        <3>2. CASE j # k
            BY <1>2, <1>8, <1>10, <2>1, <3>2
        <3> QED BY <3>1, <3>2
    <2>2. ASSUME NEW b \in 1..(n + s) PROVE \E j \in W \cup {k} : b \in Bytes(regions'[j])
        <3>1. CASE b \in 1..n
            <4>1. PICK j \in W : b \in Bytes(regions[j])
                BY <1>9, <3>1
            <4> QED BY <1>8, <4>1
        <3>2. CASE b \notin 1..n
            <4>1. b \in (n + 1)..(n + s)
                BY <1>2, <3>2
            <4> QED BY <1>8, <4>1
        <3> QED BY <3>1, <3>2
    <2> QED BY <2>1, <2>2
<1>12. ASSUME NEW j \in W \cup {k}, NEW b \in Bytes(regions'[j])
       PROVE  b \in DOMAIN file' /\ file'[b] = j
    <2>1. CASE j = k
        <3>1. b \in (n + 1)..(n + s)
            BY <1>8, <2>1
        <3> QED BY <1>2, <2>1, <3>1
    <2>2. CASE j # k
        <3>1. j \in W /\ b \in Bytes(regions[j])
            BY <1>8, <2>2
        <3>2. b \in 1..n /\ file[b] = j
            BY <1>10, <3>1
        <3> QED BY <1>2, <3>2
    <2> QED BY <2>1, <2>2
<1>13. LET written == {j \in ShaderIds' : regions'[j][1] >= 0}
       IN  /\ UNION {Bytes(regions'[j]) : j \in written} = DOMAIN file'
           /\ \A j \in written : \A b \in Bytes(regions'[j]) : b \in DOMAIN file' /\ file'[b] = j
    BY <1>2, <1>3, <1>7, <1>11, <1>12
<1>14. \A r : Bytes(r)' = Bytes(r)
    BY DEF Bytes
<1> QED BY <1>13, <1>14 DEF RegionsTile

\* The code of the next shader is written.
LEMMA GrownWritten ==
    ASSUME LibraryOK, NEW p, PlanOK(p), NEW c \in Nat, c + 1 <= Len(p), CodeWritten(p, c),
           NEW k \in ShaderIds, p[c + 1] = Sending(k), NEW s \in Nat, Grown(k, s)
    PROVE  ~Noted(k) /\ CodeWritten(p, c + 1)'
<1>0. Len(p) \in Nat /\ \A i, j \in 1..Len(p) : p[i] = p[j] => i = j
    BY PlanHas
<1>1. ~Noted(k)
    <2> SUFFICES ASSUME Noted(k) PROVE FALSE
        OBVIOUS
    <2>1. PICK i \in 1..c : p[i] = Sending(k)
        BY DEF CodeWritten
    <2>2. i \in 1..Len(p) /\ c + 1 \in 1..Len(p) /\ i # c + 1
        BY <1>0
    <2> QED BY <1>0, <2>1, <2>2
<1>2. RegionsTile'
    BY <1>1, GrownTiles DEF CodeWritten
<1>3. PICK n : n = Len(file)
    OBVIOUS
<1>4. IsSeq(file') /\ Len(file') = n + s /\ n \in Nat
    BY <1>3, GrownHas DEF CodeWritten
<1>5. start' \in 0..Len(file')
    <2>1. start \in 0..n /\ start' = start
        BY <1>3 DEF CodeWritten, Grown
    <2> QED BY <1>4, <2>1
<1>6. /\ ShaderIds' = ShaderIds /\ MapIds' = MapIds /\ Unique' = Unique
      /\ \A j : Sending(j)' = Sending(j)
    BY SameLibrary DEF Grown
<1>7. /\ DOMAIN regions' = ShaderIds
      /\ regions'[k] = <<n, s, k \in Unique>> /\ \A j \in ShaderIds \ {k} : regions'[j] = regions[j]
    BY <1>3 DEF Grown, CodeWritten
<1>8. DOMAIN mapRegions' = MapIds
    BY DEF Grown, CodeWritten
<1>9. regions'[k][1] = n /\ regions'[k][2] = s /\ regions'[k][3] = (k \in Unique)
    BY <1>7
<1>10. ASSUME NEW j \in ShaderIds
       PROVE  /\ regions'[j][1] >= 0 <=> \E i \in 1..(c + 1) : p[i] = Sending(j)
              /\ regions'[j][1] \in Int /\ regions'[j][2] \in Nat
              /\ regions'[j][1] >= 0 => ((regions'[j][3] = TRUE) <=> j \in Unique)
    <2>1. CASE j = k
        <3>1. c + 1 \in 1..(c + 1)
            OBVIOUS
        <3>2. regions'[j][1] >= 0 /\ regions'[j][1] \in Int /\ regions'[j][2] \in Nat
            BY <1>4, <1>9, <2>1
        <3>3. (regions'[j][3] = TRUE) <=> j \in Unique
            BY <1>9, <2>1
        <3> QED BY <2>1, <3>1, <3>2, <3>3
    <2>2. CASE j # k
        <3>1. regions'[j] = regions[j]
            BY <1>7, <2>2
        <3>2. p[c + 1] # Sending(j)
            BY <2>2, MessagesDiffer
        <3>3. 1..(c + 1) = 1..c \cup {c + 1}
            OBVIOUS
        <3>4. regions[j][1] >= 0 <=> \E i \in 1..c : p[i] = Sending(j)
            BY DEF CodeWritten, Noted
        <3>5. regions'[j][1] >= 0 <=> \E i \in 1..(c + 1) : p[i] = Sending(j)
            BY <3>1, <3>2, <3>3, <3>4
        <3>6. /\ regions[j][1] \in Int /\ regions[j][2] \in Nat
              /\ regions[j][1] >= 0 => ((regions[j][3] = TRUE) <=> j \in Unique)
            BY DEF CodeWritten, Noted
        <3> QED BY <3>1, <3>5, <3>6
    <2> QED BY <2>1, <2>2
<1>11. CodeWritten(p, c + 1)'
    BY <1>2, <1>4, <1>5, <1>6, <1>7, <1>8, <1>10 DEF CodeWritten, Noted
<1> QED BY <1>1, <1>11

\* A mark leaves what is written.
LEMMA MarkedWritten ==
    ASSUME NEW p, PlanOK(p), NEW c \in Nat, c + 1 <= Len(p), CodeWritten(p, c), Marked,
           \A k : p[c + 1] # Sending(k),
           start' \in 0..Len(file), DOMAIN mapRegions' = MapIds
    PROVE  CodeWritten(p, c + 1)'
<1>1. /\ ShaderIds' = ShaderIds /\ MapIds' = MapIds /\ Unique' = Unique
      /\ \A j : Sending(j)' = Sending(j)
    BY SameLibrary DEF Marked
<1>2. file' = file /\ regions' = regions
    BY DEF Marked
<1>3. RegionsTile'
    <2>1. RegionsTile
        BY DEF CodeWritten
    <2> QED BY <1>1, <1>2, <2>1 DEF RegionsTile, Bytes
<1>4. 1..(c + 1) = 1..c \cup {c + 1}
    OBVIOUS
<1>5. \A k \in ShaderIds : regions'[k][1] >= 0 <=> \E i \in 1..(c + 1) : p[i] = Sending(k)
    BY <1>2, <1>4 DEF CodeWritten, Noted
<1>6. \A k \in ShaderIds : regions'[k][1] \in Int /\ regions'[k][2] \in Nat
    BY <1>2 DEF CodeWritten
<1>7. \A k \in ShaderIds : regions'[k][1] >= 0 => ((regions'[k][3] = TRUE) <=> k \in Unique)
    BY <1>2 DEF CodeWritten, Noted
<1>8. IsSeq(file') /\ start' \in 0..Len(file') /\ DOMAIN regions' = ShaderIds
    BY <1>2 DEF CodeWritten
<1> QED BY <1>1, <1>3, <1>5, <1>6, <1>7, <1>8 DEF CodeWritten, Noted

\* The code of the next shader belongs to the map between whose marks it is.
LEMMA GrownMapped ==
    ASSUME LibraryOK, NEW p, PlanOK(p), NEW c \in Nat, c + 1 <= Len(p),
           CodeWritten(p, c), Mapped(p, c),
           NEW k \in ShaderIds, p[c + 1] = Sending(k), NEW s \in Nat, Grown(k, s)
    PROVE  Mapped(p, c + 1)'
<1>1. PICK n : n = Len(file)
    OBVIOUS
<1>2. /\ n \in Nat /\ DOMAIN file = 1..n /\ DOMAIN file' = 1..(n + s) /\ Len(file') = n + s
      /\ \A b \in 1..n : file'[b] = file[b]
      /\ \A b \in (n + 1)..(n + s) : file'[b] = k
    BY <1>1, GrownHas DEF CodeWritten
<1>3. start \in 0..n /\ start' = start /\ mapRegions' = mapRegions
    BY <1>1 DEF Grown, CodeWritten
<1>4. MapIds' = MapIds /\ (\A m : Own(m)' = Own(m))
    BY SameLibrary DEF Grown
<1>5. Len(p) \in Nat /\ c + 1 \in 1..Len(p)
    BY PlanHas
<1>6. ASSUME NEW m PROVE Mine(m)' = IF k \in Own(m) THEN Mine(m) \cup (n + 1)..(n + s) ELSE Mine(m)
    <2>1. Mine(m) = {b \in 1..n : file[b] \in Own(m)}
        BY <1>2 DEF Mine
    <2>2. Mine(m)' = {b \in 1..(n + s) : file'[b] \in Own(m)}
        BY <1>2, <1>4 DEF Mine
    <2>3. 1..(n + s) = 1..n \cup (n + 1)..(n + s)
        BY <1>2
    <2>4. Mine(m)' = Mine(m) \cup {b \in (n + 1)..(n + s) : k \in Own(m)}
        BY <1>2, <2>1, <2>2, <2>3
    <2> QED BY <2>4
<1>7. ASSUME NEW m \in MapIds, NEW lo, NEW hi, Between(p, m, lo, hi)
      PROVE  MapAt(m, lo, hi, c + 1)'
    <2>1. lo \in Nat /\ hi \in Nat /\ lo < hi
        BY <1>5, <1>7 DEF Between
    <2>2. IF k \in Own(m) THEN lo < c + 1 /\ c + 1 < hi ELSE Beyond(lo, hi, c + 1)
        BY <1>5, <1>7, Elsewhere
    <2>3. MapAt(m, lo, hi, c)
        BY <1>7 DEF Mapped
    <2>4. CASE k \in Own(m)
        <3>1. lo < c + 1 /\ c + 1 < hi /\ lo <= c /\ c < hi
            BY <2>1, <2>2, <2>4
        <3>2. Mine(m) = (start + 1)..n
            BY <1>1, <2>3, <3>1 DEF MapAt
        <3>3. Mine(m)' = (start' + 1)..Len(file')
            <4>1. Mine(m)' = (start + 1)..n \cup (n + 1)..(n + s)
                BY <1>6, <2>4, <3>2
            <4>2. (start + 1)..n \cup (n + 1)..(n + s) = (start + 1)..(n + s)
                BY <1>2, <1>3
            <4> QED BY <1>2, <1>3, <4>1, <4>2
        <3>4. ~(c + 1 < lo) /\ ~(hi <= c + 1)
            BY <2>1, <3>1
        <3> QED BY <3>3, <3>4 DEF MapAt
    <2>5. CASE k \notin Own(m)
        <3>1. c + 1 < lo \/ c + 1 > hi
            BY <2>2, <2>5 DEF Beyond
        <3>2. Mine(m)' = Mine(m)
            BY <1>6, <2>5
        <3>3. c + 1 < lo => Mine(m) = {}
            BY <2>1, <2>3 DEF MapAt
        <3>4. ~(lo <= c + 1 /\ c + 1 < hi)
            BY <2>1, <3>1
        <3>5. hi <= c + 1 => /\ mapRegions[m][1] \in Nat /\ mapRegions[m][2] \in Nat
                            /\ Mine(m) = Bytes(mapRegions[m])
            <4>1. hi <= c + 1 => hi <= c
                BY <2>1, <3>1
            <4> QED BY <2>3, <4>1 DEF MapAt
        <3>6. Bytes(mapRegions[m])' = Bytes(mapRegions[m])
            BY <1>3 DEF Bytes
        <3> QED BY <1>3, <3>2, <3>3, <3>4, <3>5, <3>6 DEF MapAt
    <2> QED BY <2>4, <2>5
<1>8. \A m, lo, hi : Between(p, m, lo, hi)' <=> Between(p, m, lo, hi)
    BY SameLibrary DEF Grown
<1> QED BY <1>4, <1>7, <1>8 DEF Mapped

\* Marks leave the file as it is.
LEMMA MarkedMine ==
    ASSUME Marked
    PROVE  MapIds' = MapIds /\ (\A m : Mine(m)' = Mine(m))
           /\ \A p, m, lo, hi : Between(p, m, lo, hi)' <=> Between(p, m, lo, hi)
<1>1. MapIds' = MapIds /\ \A m : Own(m)' = Own(m)
    BY SameLibrary DEF Marked
<1>2. \A p, m, lo, hi : Between(p, m, lo, hi)' <=> Between(p, m, lo, hi)
    BY SameLibrary DEF Marked
<1>3. \A m : Mine(m)' = Mine(m)
    BY <1>1 DEF Mine, Marked
<1> QED BY <1>1, <1>2, <1>3

\* The code of a map starts.
LEMMA StartMapped ==
    ASSUME NEW p, PlanOK(p), NEW c \in Nat, c + 1 <= Len(p), CodeWritten(p, c), Mapped(p, c),
           NEW n \in MapIds, p[c + 1] = Mark("start", n), Marked,
           start' = Len(file), mapRegions' = mapRegions
    PROVE  Mapped(p, c + 1)'
<1>1. Len(p) \in Nat /\ c + 1 \in 1..Len(p) /\ Len(file) \in Nat /\ Len(file)' = Len(file)
    BY PlanHas, SeqHas DEF CodeWritten, Marked
<1>2. ASSUME NEW m \in MapIds, NEW lo, NEW hi, Between(p, m, lo, hi)
      PROVE  MapAt(m, lo, hi, c + 1)'
    <2>1. lo \in Nat /\ hi \in Nat /\ lo < hi
        BY <1>1, <1>2 DEF Between
    <2>2. IF n = m THEN c + 1 = lo ELSE Beyond(lo, hi, c + 1)
        BY <1>1, <1>2, Elsewhere
    <2>3. MapAt(m, lo, hi, c)
        BY <1>2 DEF Mapped
    <2>4. Mine(m)' = Mine(m)
        BY MarkedMine
    <2>5. CASE n = m
        <3>1. c + 1 = lo /\ c < lo
            BY <2>1, <2>2, <2>5
        <3>2. Mine(m) = {}
            BY <2>3, <3>1 DEF MapAt
        <3>3. (start' + 1)..Len(file)' = {}
            BY <1>1
        <3>4. ~(hi <= c + 1)
            BY <2>1, <3>1
        <3> QED BY <2>4, <3>2, <3>3, <3>4 DEF MapAt
    <2>6. CASE n # m
        <3>1. c + 1 < lo \/ c + 1 > hi
            BY <2>2, <2>6 DEF Beyond
        <3>2. c + 1 < lo => Mine(m) = {}
            BY <2>1, <2>3 DEF MapAt
        <3>3. ~(lo <= c + 1 /\ c + 1 < hi)
            BY <2>1, <3>1
        <3>4. hi <= c + 1 => hi <= c
            BY <2>1, <3>1
        <3>5. hi <= c + 1 => /\ mapRegions[m][1] \in Nat /\ mapRegions[m][2] \in Nat
                            /\ Mine(m) = Bytes(mapRegions[m])
            BY <2>3, <3>4 DEF MapAt
        <3>6. Bytes(mapRegions[m])' = Bytes(mapRegions[m])
            BY DEF Bytes
        <3> QED BY <2>4, <3>2, <3>3, <3>5, <3>6 DEF MapAt
    <2> QED BY <2>5, <2>6
<1> QED BY <1>2, MarkedMine DEF Mapped

\* The code of a map ends.
LEMMA EndMapped ==
    ASSUME NEW p, PlanOK(p), NEW c \in Nat, c + 1 <= Len(p), CodeWritten(p, c), Mapped(p, c),
           NEW n \in MapIds, p[c + 1] = Mark("end", n), Marked,
           start' = start, mapRegions' = [mapRegions EXCEPT ![n] = <<start, Len(file) - start>>]
    PROVE  Mapped(p, c + 1)'
<1>1. /\ Len(p) \in Nat /\ c + 1 \in 1..Len(p) /\ Len(file) \in Nat /\ start \in 0..Len(file)
      /\ DOMAIN mapRegions = MapIds
    BY PlanHas, SeqHas DEF CodeWritten
<1>2. ASSUME NEW m \in MapIds, NEW lo, NEW hi, Between(p, m, lo, hi)
      PROVE  MapAt(m, lo, hi, c + 1)'
    <2>1. lo \in Nat /\ hi \in Nat /\ lo < hi
        BY <1>1, <1>2 DEF Between
    <2>2. IF n = m THEN c + 1 = hi ELSE Beyond(lo, hi, c + 1)
        BY <1>1, <1>2, Elsewhere
    <2>3. MapAt(m, lo, hi, c)
        BY <1>2 DEF Mapped
    <2>4. Mine(m)' = Mine(m)
        BY MarkedMine
    <2>5. CASE n = m
        <3>1. c + 1 = hi /\ lo <= c /\ c < hi
            BY <2>1, <2>2, <2>5
        <3>2. Mine(m) = (start + 1)..Len(file)
            BY <2>3, <3>1 DEF MapAt
        <3>3. mapRegions'[m] = <<start, Len(file) - start>>
            BY <1>1, <2>5
        <3>4. mapRegions'[m][1] = start /\ mapRegions'[m][2] = Len(file) - start
            BY <3>3
        <3>5. Bytes(mapRegions[m])' = (start + 1)..Len(file)
            <4>1. Bytes(mapRegions[m])' = (start + 1)..(start + (Len(file) - start))
                BY <3>4 DEF Bytes
            <4>2. start + (Len(file) - start) = Len(file)
                BY <1>1
            <4> QED BY <4>1, <4>2
        <3>6. ~(c + 1 < lo) /\ ~(c + 1 < hi)
            BY <2>1, <3>1
        <3>7. mapRegions'[m][1] \in Nat /\ mapRegions'[m][2] \in Nat
            BY <1>1, <3>4
        <3> QED BY <2>4, <3>2, <3>5, <3>6, <3>7 DEF MapAt
    <2>6. CASE n # m
        <3>1. c + 1 < lo \/ c + 1 > hi
            BY <2>2, <2>6 DEF Beyond
        <3>2. c + 1 < lo => Mine(m) = {}
            BY <2>1, <2>3 DEF MapAt
        <3>3. ~(lo <= c + 1 /\ c + 1 < hi)
            BY <2>1, <3>1
        <3>4. hi <= c + 1 => hi <= c
            BY <2>1, <3>1
        <3>5. hi <= c + 1 => /\ mapRegions[m][1] \in Nat /\ mapRegions[m][2] \in Nat
                            /\ Mine(m) = Bytes(mapRegions[m])
            BY <2>3, <3>4 DEF MapAt
        <3>6. mapRegions'[m] = mapRegions[m]
            BY <1>1, <2>6
        <3>7. Bytes(mapRegions[m])' = Bytes(mapRegions[m])
            BY <3>6 DEF Bytes
        <3> QED BY <2>4, <3>2, <3>3, <3>5, <3>6, <3>7 DEF MapAt
    <2> QED BY <2>5, <2>6
<1> QED BY <1>2, MarkedMine DEF Mapped

-----------------------------------------------------------------------------
(* The shader layout: the steps                                            *)

Sound(p, c) == LibraryOK /\ PlanOK(p) /\ Consumed(p, c)

\* Steps that do not write.
Unwritten == UNCHANGED <<extracted, start, file, regions, mapRegions>>

LEMMA StillWritten ==
    ASSUME NEW p, NEW c, Unwritten, CodeWritten(p, c), Mapped(p, c)
    PROVE  CodeWritten(p, c)' /\ Mapped(p, c)'
<1>1. /\ ShaderIds' = ShaderIds /\ MapIds' = MapIds /\ Unique' = Unique
      /\ (\A m : Own(m)' = Own(m)) /\ (\A k : Sending(k)' = Sending(k))
      /\ \A m, lo, hi : Between(p, m, lo, hi)' <=> Between(p, m, lo, hi)
    BY SameLibrary DEF Unwritten
<1>2. file' = file /\ regions' = regions /\ start' = start /\ mapRegions' = mapRegions
    BY DEF Unwritten
<1>3. RegionsTile'
    <2>1. RegionsTile
        BY DEF CodeWritten
    <2> QED BY <1>1, <1>2, <2>1 DEF RegionsTile, Bytes
<1>4. CodeWritten(p, c)'
    BY <1>1, <1>2, <1>3 DEF CodeWritten, Noted
<1>5. \A m : Mine(m)' = Mine(m)
    BY <1>1, <1>2 DEF Mine
<1>6. \A m, lo, hi : MapAt(m, lo, hi, c)' <=> MapAt(m, lo, hi, c)
    BY <1>2, <1>5 DEF MapAt, Bytes
<1>7. Mapped(p, c)'
    BY <1>1, <1>6 DEF Mapped
<1> QED BY <1>4, <1>7

\* What follows from the parties for one that still runs.
LEMMA Unfinished ==
    ASSUME NEW p, NEW c, Sound(p, c)
    PROVE  /\ producer = "running" \/ consumer = "running" => result = "none"
           /\ inflight # <<>> => consumer = "running"
           /\ receiving = TRUE => consumer = "running"
BY DEF Sound, Consumed, Parties, Queued

LEMMA SendSound ==
    ASSUME NEW p, p = Plan, NEW c, Sound(p, c), Send
    PROVE  Consumed(p, c)'
<1>1. result = "none" /\ consumer = "running"
    BY Unfinished DEF Send
<1>2. /\ producer = "running" /\ sent < Len(p) /\ Len(channel) < Capacity
      /\ channel' = Append(channel, p[sent + 1]) /\ sent' = sent + 1
      /\ UNCHANGED <<extracted, producer, receiving, inflight, consumer, start, file, regions,
                     mapRegions, preload, result>>
    BY DEF Send
<1>3. Queued(p, c)
    BY DEF Sound, Consumed
<1>4. /\ c \in Nat /\ sent \in Nat /\ c <= sent /\ Len(p) \in Nat
      /\ IsSeq(channel) /\ Len(channel) \in Nat /\ Len(inflight) \in Nat
      /\ c + Len(inflight) + Len(channel) = sent
    BY <1>1, <1>3, PlanHas, SeqHas DEF Queued, Sound
<1>5. Capacity \in Nat
    BY RoomForOne
<1>6. PICK ch : ch = channel'
    OBVIOUS
<1>7. /\ IsSeq(ch) /\ Len(ch) = Len(channel) + 1
      /\ \A i \in 1..Len(channel) : ch[i] = channel[i]
      /\ ch[Len(channel) + 1] = p[sent + 1]
    BY <1>2, <1>4, <1>6, Pushed
<1>8. ASSUME NEW i \in 1..Len(ch) PROVE ch[i] = p[c + Len(inflight) + i]
    <2>1. CASE i = Len(channel) + 1
        <3>1. c + Len(inflight) + i = sent + 1
            BY <1>4, <2>1
        <3> QED BY <1>7, <2>1, <3>1
    <2>2. CASE i # Len(channel) + 1
        <3>1. i \in 1..Len(channel)
            BY <1>4, <1>7, <2>2
        <3> QED BY <1>1, <1>3, <1>7, <3>1 DEF Queued
    <2> QED BY <2>1, <2>2
<1>9. Queued(p, c)'
    <2>1. Len(ch) <= Capacity /\ c + Len(inflight) + Len(ch) = sent + 1
        BY <1>2, <1>4, <1>5, <1>7
    <2>2. sent + 1 <= Len(p) /\ c <= sent + 1 /\ sent + 1 \in Nat
        BY <1>2, <1>4
    <2>3. \A i \in 1..Len(inflight) : InHand(inflight[i], p[c + i])
        BY <1>1, <1>3 DEF Queued
    <2>4. IsSeq(inflight) /\ Len(inflight) <= InFlight
        BY <1>3 DEF Queued
    <2>5. /\ IsSeq(channel') /\ Len(channel') <= Capacity /\ c + Len(inflight) + Len(channel') = sent'
          /\ \A i \in 1..Len(channel') : channel'[i] = p[c + Len(inflight) + i]
        BY <1>2, <1>6, <1>7, <1>8, <2>1
    <2> QED BY <1>1, <1>2, <1>4, <2>2, <2>3, <2>4, <2>5 DEF Queued, InHand
<1>10. Parties(p, c)'
    BY <1>1, <1>2 DEF Sound, Consumed, Parties
<1>11. CodeWritten(p, c)' /\ Mapped(p, c)'
    BY <1>2, StillWritten DEF Unwritten, Sound, Consumed
<1>12. PreloadCoversMap'
    BY <1>1, <1>2 DEF PreloadCoversMap
<1> QED BY <1>9, <1>10, <1>11, <1>12 DEF Consumed

\* Steps that leave the queue as it is.
LEMMA StillQueued ==
    ASSUME NEW p, NEW c, Queued(p, c), UNCHANGED <<sent, channel, inflight>>,
           consumer' = consumer \/ (channel = <<>> /\ inflight = <<>>),
           consumer' = "running" => consumer = "running"
    PROVE  Queued(p, c)'
BY DEF Queued, InHand

LEMMA SendFailsSound ==
    ASSUME NEW p, p = Plan, NEW c, Sound(p, c), SendFails \/ Close
    PROVE  Consumed(p, c)'
<1>1. /\ producer = "running" /\ result = "none"
      /\ UNCHANGED <<extracted, sent, channel, receiving, inflight, consumer, start, file, regions,
                     mapRegions, preload, result>>
    BY Unfinished DEF SendFails, Close
<1>2. Queued(p, c)'
    BY <1>1, StillQueued DEF Sound, Consumed
<1>3. Parties(p, c)'
    <2>1. CASE SendFails
        <3>1. producer' \in {"stopped", "panicked"} /\ receiving # TRUE
            BY <2>1 DEF SendFails
        <3> QED BY <1>1, <3>1 DEF Sound, Consumed, Parties
    <2>2. CASE Close
        <3>1. producer' = "done" /\ sent = Len(p)
            BY <2>2 DEF Close
        <3> QED BY <1>1, <3>1 DEF Sound, Consumed, Parties
    <2> QED BY <2>1, <2>2
<1>4. CodeWritten(p, c)' /\ Mapped(p, c)'
    BY <1>1, StillWritten DEF Unwritten, Sound, Consumed
<1>5. PreloadCoversMap'
    BY <1>1 DEF PreloadCoversMap
<1> QED BY <1>2, <1>3, <1>4, <1>5 DEF Consumed

LEMMA TakeUpSound ==
    ASSUME NEW p, NEW c, Sound(p, c), TakeUp
    PROVE  Consumed(p, c)'
<1>1. result = "none" /\ consumer = "running"
    BY Unfinished DEF TakeUp
<1> DEFINE w == [message |-> Head(channel), size |-> -2]
<1>2. /\ channel # <<>> /\ Len(inflight) < InFlight
      /\ inflight' = Append(inflight, w) /\ channel' = Tail(channel)
      /\ UNCHANGED <<extracted, sent, producer, receiving, consumer, start, file, regions,
                     mapRegions, preload, result>>
    BY DEF TakeUp
<1>3. Queued(p, c)
    BY DEF Sound, Consumed
<1> DEFINE n == Len(inflight)
           l == Len(channel)
<1>4. /\ c \in Nat /\ sent \in Nat /\ IsSeq(channel) /\ IsSeq(inflight)
      /\ l \in Nat /\ n \in Nat /\ c + n + l = sent /\ l <= Capacity /\ n < InFlight
      /\ Capacity \in Nat /\ InFlight \in Nat
    BY <1>1, <1>2, <1>3, SeqHas, RoomForOne DEF Queued
<1>5. PICK ch, hd : ch = channel' /\ hd = inflight'
    OBVIOUS
<1>6. /\ IsSeq(ch) /\ Len(ch) = l - 1 /\ Head(channel) = channel[1] /\ l >= 1
      /\ \A i \in 1..(l - 1) : ch[i] = channel[i + 1]
    BY <1>2, <1>4, <1>5, Beheaded
<1>7. /\ IsSeq(hd) /\ Len(hd) = n + 1
      /\ \A i \in 1..n : hd[i] = inflight[i]
      /\ hd[n + 1] = w
    <2> HIDE DEF w
    <2> QED BY <1>2, <1>4, <1>5, Pushed
<1>8. channel[1] = p[c + n + 1]
    <2>1. 1 \in 1..l
        BY <1>4, <1>6
    <2> QED BY <1>1, <1>3, <2>1 DEF Queued
<1>9. InHand(w, p[c + (n + 1)])
    <2>1. c + (n + 1) = c + n + 1
        BY <1>4
    <2>2. w.message = p[c + (n + 1)] /\ w.size = -2
        BY <1>6, <1>8, <2>1
    <2>3. -2 \in Int /\ -2 >= -2
        OBVIOUS
    <2> QED BY <2>2, <2>3 DEF InHand
<1> HIDE DEF w
<1>10. ASSUME NEW i \in 1..(n + 1) PROVE InHand(hd[i], p[c + i])
    <2>1. CASE i = n + 1
        BY <1>7, <1>9, <2>1
    <2>2. CASE i # n + 1
        <3>1. i \in 1..n
            BY <1>4, <2>2
        <3>2. InHand(inflight[i], p[c + i])
            BY <1>1, <1>3, <3>1 DEF Queued
        <3> QED BY <1>7, <3>1, <3>2
    <2> QED BY <2>1, <2>2
<1>11. ASSUME NEW i \in 1..(l - 1) PROVE ch[i] = p[c + (n + 1) + i]
    <2>1. i + 1 \in 1..l /\ c + n + (i + 1) = c + (n + 1) + i
        BY <1>4
    <2>2. channel[i + 1] = p[c + n + (i + 1)]
        BY <1>1, <1>3, <2>1 DEF Queued
    <2> QED BY <1>6, <2>1, <2>2
<1>12. Queued(p, c)'
    <2>1. /\ Len(ch) <= Capacity /\ Len(hd) <= InFlight
          /\ c + Len(hd) + Len(ch) = sent
        <3>1. l - 1 <= Capacity /\ n + 1 <= InFlight /\ c + (n + 1) + (l - 1) = sent
            <4> HIDE DEF n, l
            <4> QED BY <1>4
        <3> QED BY <1>6, <1>7, <3>1
    <2>2. \A i \in 1..Len(hd) : InHand(hd[i], p[c + i])
        BY <1>7, <1>10
    <2>3. \A i \in 1..Len(ch) : ch[i] = p[c + Len(hd) + i]
        BY <1>6, <1>7, <1>11
    <2>4. c <= sent /\ sent <= Len(p)
        BY <1>3 DEF Queued
    <2> HIDE DEF n, l
    <2>5. /\ IsSeq(channel') /\ Len(channel') <= Capacity
          /\ IsSeq(inflight') /\ Len(inflight') <= InFlight
          /\ c + Len(inflight') + Len(channel') = sent
          /\ \A i \in 1..Len(inflight') : InHand(inflight'[i], p[c + i])
          /\ \A i \in 1..Len(channel') : channel'[i] = p[c + Len(inflight') + i]
        BY <1>5, <1>6, <1>7, <2>1, <2>2, <2>3
    <2> QED BY <1>1, <1>2, <1>4, <2>4, <2>5 DEF Queued, InHand
<1>13. Parties(p, c)'
    BY <1>1, <1>2 DEF Sound, Consumed, Parties
<1>14. CodeWritten(p, c)' /\ Mapped(p, c)'
    BY <1>2, StillWritten DEF Unwritten, Sound, Consumed
<1>15. PreloadCoversMap'
    BY <1>1, <1>2 DEF PreloadCoversMap
<1> QED BY <1>12, <1>13, <1>14, <1>15 DEF Consumed

\* Only what the plan has is compressed, to a size or to an error.
LEMMA CompressOneSound ==
    ASSUME NEW p, NEW c, Sound(p, c), NEW i \in DOMAIN inflight, CompressOne(i)
    PROVE  Consumed(p, c)'
<1>1. PICK s : inflight' = [inflight EXCEPT ![i].size = s] /\ s \in Int /\ s >= -2
    <2> DEFINE message == inflight[i].message
               size == extracted.sizes[message.of]
               sizes == IF message.kind # "compress" THEN {0}
                        ELSE IF extracted.compress THEN {-1, size} \cup (1 .. size - 1) ELSE {size}
    <2>1. PICK s \in sizes : inflight' = [inflight EXCEPT ![i].size = s]
        BY DEF CompressOne
    <2>2. message.kind = "compress" => size \in Nat
        <3>1. Queued(p, c) /\ LibraryOK /\ PlanOK(p)
            BY DEF Sound, Consumed
        <3>2. IsSeq(inflight) /\ IsSeq(channel) /\ c \in Nat /\ sent \in Nat /\ sent <= Len(p)
            BY <3>1 DEF Queued
        <3>3. DOMAIN inflight = 1..Len(inflight) /\ Len(inflight) \in Nat /\ Len(channel) \in Nat
            BY <3>2, SeqHas
        <3>4. inflight # <<>>
            BY <3>3, EmptyIs
        <3>5. consumer = "running"
            BY <3>4, Unfinished
        <3>6. InHand(inflight[i], p[c + i]) /\ c + Len(inflight) + Len(channel) = sent
            BY <3>1, <3>3, <3>5 DEF Queued
        <3>7. message = p[c + i]
            BY <3>6 DEF InHand
        <3>8. c + i \in 1..Len(p)
            BY <3>1, <3>2, <3>3, <3>6, PlanHas
        <3>9. message.kind = "compress" => message.of \in ShaderIds
            <4>1. CASE \E k \in ShaderIds : p[c + i] = Sending(k)
                BY <3>7, <4>1, MessagesDiffer
            <4>2. CASE \E m \in MapIds : p[c + i] = Mark("start", m) \/ p[c + i] = Mark("end", m)
                <5>1. message.kind = "start" \/ message.kind = "end"
                    BY <3>7, <4>2, MessagesDiffer
                <5> QED BY <5>1
            <4> QED BY <3>1, <3>8, <4>1, <4>2, PlanHas
        <3> QED BY <3>1, <3>9, LibraryHas
    <2>3. s \in Int /\ s >= -2
        <3>1. CASE message.kind # "compress"
            BY <3>1
        <3>2. CASE message.kind = "compress"
            <4>1. s \in {-1, size} \cup (1 .. size - 1)
                BY <3>2
            <4> HIDE DEF size
            <4> QED BY <2>2, <3>2, <4>1
        <3> QED BY <3>1, <3>2
    <2> QED BY <2>1, <2>3
<1>2. UNCHANGED <<extracted, sent, producer, channel, receiving, consumer, start, file, regions,
                  mapRegions, preload, result>>
    BY DEF CompressOne
<1>3. Queued(p, c)
    BY DEF Sound, Consumed
<1>4. IsSeq(inflight) /\ Len(inflight) \in Nat /\ DOMAIN inflight = 1..Len(inflight)
    BY <1>3, SeqHas DEF Queued
<1>5. inflight # <<>> /\ consumer = "running" /\ result = "none"
    BY <1>4, EmptyIs, Unfinished
<1>6. PICK f : f = inflight'
    OBVIOUS
<1>7. IsSeq(f) /\ Len(f) = Len(inflight)
    <2>1. f = [j \in 1..Len(inflight) |-> f[j]]
        BY <1>1, <1>4, <1>6
    <2> QED BY <1>4, <2>1, Made
<1>8. ASSUME NEW j \in 1..Len(inflight) PROVE InHand(f[j], p[c + j])
    <2>1. InHand(inflight[j], p[c + j])
        BY <1>3, <1>5 DEF Queued
    <2>2. CASE j # i
        BY <1>1, <1>4, <1>6, <2>1, <2>2
    <2>3. CASE j = i
        <3>1. PICK w : w = inflight[i]
            OBVIOUS
        <3>2. f[i] = [w EXCEPT !.size = s]
            BY <1>1, <1>6, <3>1
        <3>3. w = [message |-> p[c + i], size |-> w.size]
            BY <2>1, <2>3, <3>1 DEF InHand
        <3>4. PICK z : z = w.size
            OBVIOUS
        <3>5. w = [message |-> p[c + i], size |-> z]
            BY <3>3, <3>4
        <3>6. f[i] = [message |-> p[c + i], size |-> s]
            BY <3>2, <3>5
        <3> QED BY <1>1, <2>3, <3>6 DEF InHand
    <2> QED BY <2>2, <2>3
<1>9. Queued(p, c)'
    <2>1. /\ IsSeq(inflight') /\ Len(inflight') = Len(inflight)
          /\ \A j \in 1..Len(inflight') : InHand(inflight'[j], p[c + j])
        BY <1>6, <1>7, <1>8
    <2> QED BY <1>2, <1>3, <1>5, <2>1 DEF Queued, InHand
<1>10. Parties(p, c)'
    BY <1>2 DEF Sound, Consumed, Parties
<1>11. CodeWritten(p, c)' /\ Mapped(p, c)'
    BY <1>2, StillWritten DEF Unwritten, Sound, Consumed
<1>12. PreloadCoversMap'
    BY <1>2, <1>5 DEF PreloadCoversMap
<1> QED BY <1>9, <1>10, <1>11, <1>12 DEF Consumed

LEMMA FinishSound ==
    ASSUME NEW p, NEW c, Sound(p, c), Finish
    PROVE  Consumed(p, c)'
<1>1. /\ consumer = "running" /\ producer = "done" /\ channel = <<>> /\ inflight = <<>>
      /\ consumer' = "ended" /\ receiving' = FALSE
      /\ UNCHANGED <<extracted, sent, producer, channel, inflight, start, file, regions,
                     mapRegions, preload, result>>
    BY DEF Finish
<1>2. result = "none"
    BY <1>1, Unfinished
<1>3. Queued(p, c)'
    BY <1>1, StillQueued DEF Sound, Consumed
<1>4. c = Len(p)
    <2>1. Queued(p, c) /\ sent = Len(p)
        BY <1>1 DEF Sound, Consumed, Parties
    <2>2. c \in Nat /\ c + Len(inflight) + Len(channel) = sent
        BY <1>1, <2>1 DEF Queued
    <2>3. Len(inflight) = 0 /\ Len(channel) = 0
        BY <1>1, EmptyIs
    <2> QED BY <2>1, <2>2, <2>3
<1>5. Parties(p, c)'
    BY <1>1, <1>2, <1>4 DEF Sound, Consumed, Parties
<1>6. CodeWritten(p, c)' /\ Mapped(p, c)'
    BY <1>1, StillWritten DEF Unwritten, Sound, Consumed
<1>7. PreloadCoversMap'
    BY <1>1, <1>2 DEF PreloadCoversMap
<1> QED BY <1>3, <1>5, <1>6, <1>7 DEF Consumed

\* What is written next: the first message the workers hold.
LEMMA EmitWrites ==
    ASSUME NEW p, NEW c, Sound(p, c), c \in Nat, c + 1 <= Len(p),
           NEW s \in Nat, Consume(p[c + 1], s), extracted' = extracted
    PROVE  CodeWritten(p, c + 1)' /\ Mapped(p, c + 1)'
<1>1. LibraryOK /\ PlanOK(p) /\ CodeWritten(p, c) /\ Mapped(p, c)
    BY DEF Sound, Consumed
<1>2. c + 1 \in 1..Len(p)
    BY <1>1, PlanHas
<1>3. IsSeq(file) /\ Len(file) \in Nat /\ start \in 0..Len(file) /\ DOMAIN mapRegions = MapIds
    BY <1>1, SeqHas DEF CodeWritten
<1>4. CASE \E k \in ShaderIds : p[c + 1] = Sending(k)
    <2>1. PICK k \in ShaderIds : p[c + 1] = Sending(k)
        BY <1>4
    <2>2. Grown(k, s)
        BY <2>1, WhatIsConsumed
    <2>3. CodeWritten(p, c + 1)'
        BY <1>1, <2>1, <2>2, GrownWritten
    <2>4. Mapped(p, c + 1)'
        BY <1>1, <2>1, <2>2, GrownMapped
    <2> QED BY <2>3, <2>4
<1>5. CASE \E m \in MapIds : p[c + 1] = Mark("start", m)
    <2>1. PICK m \in MapIds : p[c + 1] = Mark("start", m)
        BY <1>5
    <2>2. Marked /\ start' = Len(file) /\ mapRegions' = mapRegions
        BY <2>1, WhatIsConsumed
    <2>3. \A k : p[c + 1] # Sending(k)
        <3>1. p[c + 1].kind = "start"
            BY <2>1, MessagesDiffer
        <3>2. \A k : Sending(k).kind = "compress"
            BY MessagesDiffer
        <3> QED BY <3>1, <3>2
    <2>4. start' \in 0..Len(file) /\ DOMAIN mapRegions' = MapIds
        BY <1>3, <2>2
    <2>5. CodeWritten(p, c + 1)'
        BY <1>1, <2>2, <2>3, <2>4, MarkedWritten
    <2>6. Mapped(p, c + 1)'
        BY <1>1, <2>1, <2>2, StartMapped
    <2> QED BY <2>5, <2>6
<1>6. CASE \E m \in MapIds : p[c + 1] = Mark("end", m)
    <2>1. PICK m \in MapIds : p[c + 1] = Mark("end", m)
        BY <1>6
    <2>2. /\ Marked /\ start' = start
          /\ mapRegions' = [mapRegions EXCEPT ![m] = <<start, Len(file) - start>>]
        BY <2>1, WhatIsConsumed
    <2>3. \A k : p[c + 1] # Sending(k)
        <3>1. p[c + 1].kind = "end"
            BY <2>1, MessagesDiffer
        <3>2. \A k : Sending(k).kind = "compress"
            BY MessagesDiffer
        <3> QED BY <3>1, <3>2
    <2>4. start' \in 0..Len(file) /\ DOMAIN mapRegions' = MapIds
        BY <1>3, <2>2
    <2>5. CodeWritten(p, c + 1)'
        BY <1>1, <2>2, <2>3, <2>4, MarkedWritten
    <2>6. Mapped(p, c + 1)'
        BY <1>1, <2>1, <2>2, EndMapped
    <2> QED BY <2>5, <2>6
<1> QED BY <1>1, <1>2, <1>4, <1>5, <1>6, PlanHas

LEMMA EmitSound ==
    ASSUME NEW p, NEW c, Sound(p, c), Emit
    PROVE  \E d \in 0..sent' : Consumed(p, d)'
<1>1. /\ consumer = "running" /\ inflight # <<>> /\ Head(inflight).size # -2
      /\ UNCHANGED <<extracted, sent, producer, preload, result>>
    BY DEF Emit
<1>2. result = "none" /\ PreloadCoversMap'
    <2>1. result = "none"
        BY <1>1, Unfinished
    <2> QED BY <1>1, <2>1 DEF PreloadCoversMap
<1>3. Queued(p, c) /\ PlanOK(p) /\ Parties(p, c)
    BY DEF Sound, Consumed
<1> DEFINE n == Len(inflight)
           l == Len(channel)
<1>4. /\ c \in Nat /\ sent \in Nat /\ sent <= Len(p) /\ Len(p) \in Nat
      /\ IsSeq(inflight) /\ n \in Nat /\ l \in Nat /\ c + n + l = sent /\ n <= InFlight
      /\ InFlight \in Nat /\ Capacity \in Nat
    BY <1>1, <1>3, SeqHas, PlanHas, RoomForOne DEF Queued
<1>5. PICK w, f : w = Head(inflight) /\ f = Tail(inflight)
    OBVIOUS
<1>6. /\ n >= 1 /\ w = inflight[1] /\ IsSeq(f) /\ Len(f) = n - 1
      /\ \A i \in 1..(n - 1) : f[i] = inflight[i + 1]
    BY <1>1, <1>4, <1>5, Beheaded
<1>7. InHand(w, p[c + 1])
    <2>1. 1 \in 1..n
        BY <1>4, <1>6
    <2>2. InHand(inflight[1], p[c + 1])
        BY <1>1, <1>3, <2>1 DEF Queued
    <2> QED BY <1>6, <2>2
<1>8. CASE w.size = -1
    <2>1. /\ consumer' = "failed" /\ receiving' = FALSE /\ channel' = <<>> /\ inflight' = <<>>
          /\ UNCHANGED <<start, file, regions, mapRegions>>
        BY <1>5, <1>8 DEF Emit
    <2>2. Queued(p, c)'
        <3>1. IsSeq(<<>>) /\ Len(<<>>) = 0 /\ 0 <= Capacity /\ 0 <= InFlight
            BY <1>4, EmptyIs
        <3> QED BY <1>1, <1>3, <2>1, <3>1 DEF Queued
    <2>3. Parties(p, c)'
        BY <1>1, <1>2, <1>3, <2>1 DEF Parties
    <2>4. CodeWritten(p, c)' /\ Mapped(p, c)'
        BY <1>1, <2>1, StillWritten DEF Unwritten, Sound, Consumed
    <2>5. c \in 0..sent'
        BY <1>1, <1>3, <1>4 DEF Queued
    <2> QED BY <1>2, <2>2, <2>3, <2>4, <2>5 DEF Consumed
<1>9. CASE w.size # -1
    <2>1. /\ Consume(w.message, w.size) /\ inflight' = f
          /\ UNCHANGED <<channel, receiving, consumer>>
        BY <1>5, <1>9 DEF Emit
    <2>2. w.message = p[c + 1] /\ w.size \in Int /\ w.size >= -2
        BY <1>7 DEF InHand
    <2>3. w.size \in Nat
        <3>1. w.size # -2
            BY <1>1, <1>5
        <3>2. PICK z : z = w.size
            OBVIOUS
        <3>3. z \in Int /\ z >= -2 /\ z # -2 /\ z # -1
            BY <1>9, <2>2, <3>1, <3>2
        <3>4. z \in Nat
            BY <3>3
        <3> QED BY <3>2, <3>4
    <2>4. c + 1 <= Len(p) /\ c + 1 <= sent
        <3> HIDE DEF n, l
        <3> QED BY <1>4, <1>6
    <2>5. CodeWritten(p, c + 1)' /\ Mapped(p, c + 1)'
        BY <1>1, <1>4, <2>1, <2>2, <2>3, <2>4, EmitWrites
    <2>6. ASSUME NEW i \in 1..(n - 1) PROVE InHand(f[i], p[c + 1 + i])
        <3>1. i + 1 \in 1..n /\ c + (i + 1) = c + 1 + i
            BY <1>4
        <3>2. InHand(inflight[i + 1], p[c + (i + 1)])
            BY <1>1, <1>3, <3>1 DEF Queued
        <3>3. f[i] = inflight[i + 1]
            BY <1>6
        <3> QED BY <3>1, <3>2, <3>3
    <2>7. ASSUME NEW i \in 1..l PROVE channel[i] = p[c + 1 + (n - 1) + i]
        <3>1. c + n + i = c + 1 + (n - 1) + i
            BY <1>4
        <3>2. channel[i] = p[c + n + i]
            BY <1>1, <1>3 DEF Queued
        <3> QED BY <3>1, <3>2
    <2>8. Queued(p, c + 1)'
        <3>1. c + 1 \in Nat /\ c + 1 + (n - 1) + l = sent /\ n - 1 <= InFlight
            <4> HIDE DEF n, l
            <4> QED BY <1>4
        <3>2. IsSeq(channel) /\ l <= Capacity
            BY <1>3 DEF Queued
        <3> HIDE DEF n
        <3>3. /\ IsSeq(inflight') /\ Len(inflight') = n - 1
              /\ \A i \in 1..(n - 1) : InHand(inflight'[i], p[c + 1 + i])
            BY <1>6, <2>1, <2>6
        <3>4. /\ Len(inflight') <= InFlight
              /\ c + 1 + Len(inflight') + l = sent
              /\ \A i \in 1..Len(inflight') : InHand(inflight'[i], p[c + 1 + i])
              /\ \A i \in 1..l : channel[i] = p[c + 1 + Len(inflight') + i]
            BY <2>7, <3>1, <3>3
        <3>5. consumer' = "running" /\ sent' = sent /\ channel' = channel
            BY <1>1, <2>1
        <3> QED BY <1>4, <2>4, <3>1, <3>2, <3>3, <3>4, <3>5 DEF Queued, InHand
    <2>9. Parties(p, c + 1)'
        BY <1>1, <1>2, <1>3, <2>1 DEF Parties
    <2>10. c + 1 \in 0..sent'
        BY <1>1, <1>4, <2>4
    <2> QED BY <1>2, <2>5, <2>8, <2>9, <2>10 DEF Consumed
<1> QED BY <1>8, <1>9

\* The preload entries of a map, when everything is written: its own bytes lie where
\* the map is noted, those of the other shaders where each of them is.
LEMMA PreloadIs ==
    ASSUME NEW p, NEW c, Sound(p, c), c = Len(p), NEW m \in MapIds
    PROVE  UNION {Bytes(PreloadOf(m)[i]) : i \in DOMAIN PreloadOf(m)}
               = {b \in DOMAIN file : file[b] \in ToSet(extracted.maps[m])}
<1> DEFINE list == extracted.maps[m]
           S == {k \in ShaderIds : ~regions[k][3]}
<1>1. LibraryOK /\ PlanOK(p) /\ CodeWritten(p, c) /\ Mapped(p, c)
    BY DEF Sound, Consumed
<1>2. \A k \in ShaderIds : Noted(k)
    <2>1. \A k \in ShaderIds : \E i \in 1..c : p[i] = Sending(k)
        BY <1>1, PlanHas
    <2> QED BY <1>1, <2>1 DEF CodeWritten
<1>3. S = ShaderIds \ Unique
    <2>1. \A k \in ShaderIds : (regions[k][3] = TRUE) <=> k \in Unique
        BY <1>1, <1>2 DEF CodeWritten
    <2> QED BY <2>1
<1>4. /\ IsSeq(list) /\ Elements(list) \subseteq ShaderIds /\ Elements(list) = ToSet(list)
    BY <1>1, LibraryHas
<1>5. PICK others : others = Among(list, S)
    OBVIOUS
<1> HIDE DEF S
<1>6. IsSeq(others) /\ Elements(others) = Elements(list) \cap S
    <2>1. AmongOK(others, list, S)
        BY <1>4, <1>5, AmongIs
    <2> QED BY <2>1 DEF AmongOK
<1>7. Len(others) \in Nat /\ DOMAIN others = 1..Len(others)
    BY <1>6, SeqHas
<1>8. PICK q : q = [i \in 1..Len(others) |-> <<regions[others[i]][1], regions[others[i]][2]>>]
    OBVIOUS
<1>9. PICK h : h = IF mapRegions[m][2] > 0 THEN <<mapRegions[m]>> ELSE <<>>
    OBVIOUS
<1>10. PreloadOf(m) = h \o q
    BY <1>5, <1>7, <1>8, <1>9 DEF PreloadOf, S
<1>11. IsSeq(q) /\ Len(q) = Len(others)
    <2>1. q = [i \in 1..Len(others) |-> q[i]]
        BY <1>8
    <2> QED BY <1>7, <2>1, Made
<1>12. \A i \in 1..Len(others) : Bytes(q[i]) = Bytes(regions[others[i]])
    <2>1. \A i \in 1..Len(others) : q[i] = <<regions[others[i]][1], regions[others[i]][2]>>
        BY <1>8
    <2>2. \A i \in 1..Len(others) : /\ q[i][1] = regions[others[i]][1]
                                    /\ q[i][2] = regions[others[i]][2]
        BY <2>1
    <2> QED BY <2>2 DEF Bytes
<1>13. /\ mapRegions[m][1] \in Nat /\ mapRegions[m][2] \in Nat /\ Mine(m) = Bytes(mapRegions[m])
    <2>1. PICK lo, hi : Between(p, m, lo, hi)
        BY <1>1 DEF PlanOK
    <2>2. hi <= c
        <3>1. hi \in 1..Len(p) /\ Len(p) \in Nat
            BY <1>1, <2>1, PlanHas DEF Between
        <3> QED BY <3>1
    <2>3. MapAt(m, lo, hi, c)
        BY <1>1, <2>1 DEF Mapped
    <2> QED BY <2>2, <2>3 DEF MapAt
<1>14. /\ IsSeq(h) /\ \A x \in Elements(h) : Bytes(x) = Mine(m)
       /\ Mine(m) # {} => Elements(h) # {}
    <2>1. CASE mapRegions[m][2] > 0
        <3>1. h = <<mapRegions[m]>>
            BY <1>9, <2>1
        <3>2. IsSeq(h) /\ Elements(h) = {mapRegions[m]}
            BY <3>1, OneIs
        <3> QED BY <1>13, <3>2
    <2>2. CASE ~(mapRegions[m][2] > 0)
        <3>1. h = <<>>
            BY <1>9, <2>2
        <3>2. IsSeq(h) /\ Elements(h) = {}
            BY <3>1, EmptyIs DEF Elements
        <3>3. mapRegions[m][2] = 0
            BY <1>13, <2>2
        <3>4. Bytes(mapRegions[m]) = {}
            BY <1>13, <3>3 DEF Bytes
        <3> QED BY <1>13, <3>2, <3>4
    <2> QED BY <2>1, <2>2
<1>15. PICK all : all = h \o q
    OBVIOUS
<1>16. /\ DOMAIN all = 1..Len(all) /\ Elements(all) = Elements(h) \cup Elements(q)
    <2>1. IsSeq(all)
        BY <1>11, <1>14, <1>15, Joined
    <2>2. Elements(all) = Elements(h) \cup Elements(q)
        BY <1>11, <1>14, <1>15, ElementsJoin
    <2> QED BY <2>1, <2>2, SeqHas
<1>17. UNION {Bytes(all[i]) : i \in DOMAIN all} = UNION {Bytes(x) : x \in Elements(all)}
    BY <1>16 DEF Elements
<1>18. /\ \A j \in ShaderIds : \A b \in Bytes(regions[j]) : b \in DOMAIN file /\ file[b] = j
       /\ \A b \in DOMAIN file : \E j \in ShaderIds : b \in Bytes(regions[j])
    <2>1. {j \in ShaderIds : regions[j][1] >= 0} = ShaderIds
        BY <1>2 DEF Noted
    <2>2. RegionsTile
        BY <1>1 DEF CodeWritten
    <2>3. UNION {Bytes(regions[j]) : j \in ShaderIds} = DOMAIN file
        BY <2>1, <2>2 DEF RegionsTile
    <2>4. \A j \in ShaderIds : \A b \in Bytes(regions[j]) : b \in DOMAIN file /\ file[b] = j
        BY <2>1, <2>2 DEF RegionsTile
    <2> QED BY <2>3, <2>4
<1>19. ASSUME NEW x \in Elements(all), NEW b \in Bytes(x)
       PROVE  b \in DOMAIN file /\ file[b] \in Elements(list)
    <2>1. CASE x \in Elements(h)
        <3>1. b \in Mine(m)
            BY <1>14, <1>19, <2>1
        <3> QED BY <3>1 DEF Mine, Own
    <2>2. CASE x \in Elements(q)
        <3>1. PICK i \in 1..Len(others) : x = q[i]
            BY <1>11, <2>2 DEF Elements
        <3>2. PICK k : k = others[i]
            OBVIOUS
        <3>3. k \in Elements(others) /\ b \in Bytes(regions[k])
            BY <1>12, <1>19, <3>1, <3>2 DEF Elements
        <3>4. k \in Elements(list) /\ k \in ShaderIds
            BY <1>4, <1>6, <3>3
        <3> QED BY <1>18, <3>3, <3>4
    <2> QED BY <1>16, <2>1, <2>2
<1>20. ASSUME NEW b \in DOMAIN file, file[b] \in Elements(list)
       PROVE  \E x \in Elements(all) : b \in Bytes(x)
    <2>1. PICK k : k = file[b]
        OBVIOUS
    <2>2. k \in Elements(list) /\ k \in ShaderIds
        BY <1>4, <1>20, <2>1
    <2>3. CASE k \in Unique
        <3>1. b \in Mine(m)
            BY <2>1, <2>2, <2>3 DEF Mine, Own
        <3> QED BY <1>14, <1>16, <3>1
    <2>4. CASE k \notin Unique
        <3>1. k \in Elements(others)
            BY <1>3, <1>6, <2>2, <2>4
        <3>2. PICK i \in 1..Len(others) : k = others[i]
            BY <3>1 DEF Elements
        <3>3. b \in Bytes(regions[k])
            BY <1>18, <2>1
        <3>4. b \in Bytes(q[i]) /\ q[i] \in Elements(q)
            BY <1>11, <1>12, <3>2, <3>3 DEF Elements
        <3> QED BY <1>16, <3>4
    <2> QED BY <2>3, <2>4
<1>21. UNION {Bytes(x) : x \in Elements(all)} = {b \in DOMAIN file : file[b] \in Elements(list)}
    BY <1>19, <1>20
<1> QED BY <1>4, <1>10, <1>15, <1>17, <1>21

\* What the caller gets is what became of the threads.
LEMMA JoinSound ==
    ASSUME NEW p, NEW c, Sound(p, c), Join
    PROVE  Consumed(p, c)'
<1>1. /\ producer # "running" /\ consumer # "running" /\ result = "none"
      /\ UNCHANGED <<extracted, sent, producer, channel, receiving, inflight, consumer, start, file,
                     regions, mapRegions>>
    BY DEF Join
<1>2. LibraryOK /\ PlanOK(p) /\ Queued(p, c) /\ Parties(p, c) /\ CodeWritten(p, c)
    BY DEF Sound, Consumed
<1>3. consumer = "ended" => producer = "done" /\ c = Len(p) /\ \A k \in ShaderIds : ~(regions[k][1] < 0)
    <2> SUFFICES ASSUME consumer = "ended" PROVE \A k \in ShaderIds : ~(regions[k][1] < 0)
        BY <1>2 DEF Parties
    <2>1. c = Len(p)
        BY <1>2 DEF Parties
    <2>2. \A k \in ShaderIds : \E i \in 1..c : p[i] = Sending(k)
        BY <1>2, <2>1, PlanHas
    <2>3. \A k \in ShaderIds : Noted(k) /\ regions[k][1] \in Int
        BY <1>2, <2>2 DEF CodeWritten
    <2> QED BY <2>3 DEF Noted
<1>4. \/ consumer = "ended" /\ result' = "ok"
      \/ consumer = "failed" /\ result' \in {"error", "panic"}
    <2>1. consumer \in {"ended", "failed"}
        BY <1>1, <1>2 DEF Parties
    <2>2. CASE consumer = "ended"
        <3>1. /\ producer # "panicked" /\ consumer # "failed"
              /\ ~\E k \in ShaderIds : regions[k][1] < 0
            BY <1>3, <2>2
        <3>2. result' = "ok"
            BY <3>1 DEF Join
        <3> QED BY <2>2, <3>2
    <2>3. CASE consumer = "failed" /\ producer = "panicked"
        <3>1. result' = "panic"
            BY <2>3 DEF Join
        <3> QED BY <2>3, <3>1
    <2>4. CASE consumer = "failed" /\ producer # "panicked"
        <3>1. result' = "error"
            BY <2>4 DEF Join
        <3> QED BY <2>4, <3>1
    <2> QED BY <2>1, <2>2, <2>3, <2>4
<1>5. Queued(p, c)'
    BY <1>1, <1>2, StillQueued
<1>6. Parties(p, c)'
    BY <1>1, <1>2, <1>4 DEF Parties
<1>7. CodeWritten(p, c)' /\ Mapped(p, c)'
    BY <1>1, StillWritten DEF Unwritten, Sound, Consumed
<1>8. PreloadCoversMap'
    <2>1. CASE result' # "ok"
        BY <2>1 DEF PreloadCoversMap
    <2>2. CASE result' = "ok"
        <3>1. c = Len(p)
            BY <1>3, <1>4, <2>2
        <3>2. preload' = [m \in MapIds |-> PreloadOf(m)]
            BY <2>2 DEF Join
        <3>3. MapIds' = MapIds
            BY <1>1 DEF MapIds
        <3>4. ASSUME NEW m \in MapIds
              PROVE  UNION {Bytes(preload'[m][i]) : i \in DOMAIN preload'[m]}
                         = {b \in DOMAIN file : file[b] \in ToSet(extracted.maps[m])}
            <4>1. preload'[m] = PreloadOf(m)
                BY <3>2
            <4> QED BY <3>1, <4>1, PreloadIs
        <3> QED BY <1>1, <3>3, <3>4 DEF PreloadCoversMap, Bytes
    <2> QED BY <2>1, <2>2
<1> QED BY <1>5, <1>6, <1>7, <1>8 DEF Consumed

LEMMA StepSound ==
    ASSUME NEW c, LibraryOK, Consumed(Plan, c), c \in 0..sent, LayoutNext \/ UNCHANGED layoutVars
    PROVE  \E d \in 0..sent' : Consumed(Plan, d)'
<1>1. PICK p : p = Plan
    OBVIOUS
<1>2. Sound(p, c) /\ Consumed(p, c) /\ Queued(p, c)
    BY <1>1, PlanIs DEF Sound, Consumed
<1>3. extracted' = extracted
    BY DEF LayoutNext, Produce, Send, SendFails, Close, TakeUp, SomeWork, CompressOne, Emit, Finish,
           Join, Returned, layoutVars
<1>4. Plan' = p
    BY <1>1, <1>3, SameLibrary
<1>5. \E d \in 0..sent' : Consumed(p, d)'
    <2>0. c \in Nat /\ sent \in Nat /\ c <= sent
        BY <1>2 DEF Queued
    <2>1. CASE Send
        <3>1. sent' = sent + 1
            BY <2>1 DEF Send
        <3>2. c \in 0..sent'
            BY <2>0, <3>1
        <3> QED BY <1>1, <1>2, <2>1, <3>2, SendSound
    <2>2. CASE SendFails \/ Close
        <3>1. sent' = sent
            BY <2>2 DEF SendFails, Close
        <3> QED BY <1>1, <1>2, <2>2, <3>1, SendFailsSound
    <2>3. CASE TakeUp
        <3>1. sent' = sent
            BY <2>3 DEF TakeUp
        <3> QED BY <1>2, <2>3, <3>1, TakeUpSound
    <2>4. CASE SomeWork
        <3>1. PICK i \in DOMAIN inflight : CompressOne(i)
            BY <2>4 DEF SomeWork
        <3>2. sent' = sent
            BY <3>1 DEF CompressOne
        <3> QED BY <1>2, <3>1, <3>2, CompressOneSound
    <2>5. CASE Emit
        BY <1>2, <2>5, EmitSound
    <2>6. CASE Finish
        <3>1. sent' = sent
            BY <2>6 DEF Finish
        <3> QED BY <1>2, <2>6, <3>1, FinishSound
    <2>7. CASE Join
        <3>1. sent' = sent
            BY <2>7 DEF Join
        <3> QED BY <1>2, <2>7, <3>1, JoinSound
    <2>8. CASE UNCHANGED layoutVars
        <3>1. /\ UNCHANGED <<extracted, sent, producer, receiving, consumer, start, file,
                             regions, mapRegions, preload, result>>
              /\ UNCHANGED <<sent, channel, inflight>>
            BY <2>8 DEF layoutVars
        <3>2. Queued(p, c)'
            BY <1>2, <3>1, StillQueued
        <3>3. Parties(p, c)'
            BY <1>2, <3>1 DEF Consumed, Parties
        <3>4. CodeWritten(p, c)' /\ Mapped(p, c)'
            BY <1>2, <3>1, StillWritten DEF Unwritten, Consumed
        <3>5. PreloadCoversMap'
            BY <1>2, <3>1 DEF Consumed, PreloadCoversMap, MapIds, Bytes
        <3>6. Consumed(p, c)'
            BY <3>2, <3>3, <3>4, <3>5 DEF Consumed
        <3> QED BY <3>1, <3>6
    <2> QED BY <2>1, <2>2, <2>3, <2>4, <2>5, <2>6, <2>7, <2>8 DEF LayoutNext, Produce, Returned
<1> QED BY <1>4, <1>5

\* Nothing is sent or written yet.
LEMMA BeginSound ==
    ASSUME Begin, LibraryOK', PlanOK(Plan)'
    PROVE  Consumed(Plan, 0)' /\ 0 \in 0..sent'
<1>1. Queued(Plan, 0)'
    <2>1. IsSeq(Plan)' /\ IsSeq(<<>>) /\ Len(<<>>) = 0
        BY EmptyIs DEF PlanOK
    <2>2. Len(Plan') \in Nat
        BY <2>1, SeqHas
    <2>3. 1..0 = {}
        OBVIOUS
    <2>4. Capacity \in Nat /\ InFlight \in Nat
        BY RoomForOne
    <2>5. /\ sent' = 0 /\ channel' = <<>> /\ inflight' = <<>> /\ consumer' = "running"
        BY DEF Begin
    <2>6. Len(channel') = 0 /\ Len(inflight') = 0 /\ IsSeq(channel') /\ IsSeq(inflight')
        BY <2>1, <2>5
    <2> QED BY <2>2, <2>3, <2>4, <2>5, <2>6 DEF Queued
<1>2. Parties(Plan, 0)'
    BY DEF Begin, Parties
<1>3. /\ file' = <<>> /\ IsSeq(file') /\ DOMAIN file' = {} /\ Len(file') = 0 /\ start' = 0
    BY EmptyIs DEF Begin
<1>4. /\ DOMAIN regions' = ShaderIds' /\ \A k \in ShaderIds' : regions'[k] = <<-1, 0, FALSE>>
      /\ DOMAIN mapRegions' = MapIds'
    BY DEF Begin, ShaderIds, MapIds
<1>5. \A k \in ShaderIds' : regions'[k][1] = -1 /\ regions'[k][2] = 0
    <2>1. PICK a : a = -1
        OBVIOUS
    <2>2. <<a, 0, FALSE>>[1] = a /\ <<a, 0, FALSE>>[2] = 0
        OBVIOUS
    <2> QED BY <1>4, <2>1, <2>2
<1>6. \A k \in ShaderIds' : ~(regions'[k][1] >= 0) /\ regions'[k][1] \in Int /\ regions'[k][2] \in Nat
    BY <1>5
<1>7. CodeWritten(Plan, 0)'
    <2>1. {k \in ShaderIds' : regions'[k][1] >= 0} = {}
        BY <1>6
    <2>2. RegionsTile'
        BY <1>3, <2>1 DEF RegionsTile
    <2>3. 1..0 = {}
        OBVIOUS
    <2> QED BY <1>3, <1>4, <1>6, <2>2, <2>3 DEF CodeWritten, Noted
<1>8. Mapped(Plan, 0)'
    <2>1. \A m : Mine(m)' = {}
        BY <1>3 DEF Mine
    <2>2. ASSUME NEW m, NEW lo, NEW hi, Between(Plan, m, lo, hi)' PROVE MapAt(m, lo, hi, 0)'
        <3>1. lo \in 1..Len(Plan)' /\ lo < hi /\ hi \in 1..Len(Plan)'
            BY <2>2 DEF Between
        <3>2. ~(lo <= 0) /\ ~(hi <= 0)
            BY <3>1
        <3> QED BY <2>1, <3>2 DEF MapAt
    <2> QED BY <2>2 DEF Mapped
<1>9. PreloadCoversMap'
    BY DEF Begin, PreloadCoversMap
<1>10. 0 \in 0..sent'
    BY DEF Begin
<1> QED BY <1>1, <1>2, <1>7, <1>8, <1>9, <1>10 DEF Consumed

LEMMA InvSound ==
    ASSUME LayoutInv
    PROVE  LayoutSound
<1> SUFFICES ASSUME result # "idle" PROVE LibraryOK /\ WithinLimits /\ RegionsTile /\ PreloadCoversMap /\ OkMeansComplete
    BY DEF LayoutSound
<1>1. PICK c \in 0..sent : Consumed(Plan, c)
    BY DEF LayoutInv
<1>2. PICK p : p = Plan
    OBVIOUS
<1>3. LibraryOK /\ PlanOK(p)
    BY <1>2, PlanIs DEF LayoutInv
<1>4. Queued(p, c) /\ Parties(p, c) /\ CodeWritten(p, c) /\ PreloadCoversMap
    BY <1>1, <1>2 DEF Consumed
<1>5. WithinLimits
    BY <1>4 DEF Queued, Parties, CodeWritten, WithinLimits
<1>6. RegionsTile
    BY <1>4 DEF CodeWritten
<1>7. OkMeansComplete
    <2>1. ASSUME result = "ok" PROVE \A k \in ShaderIds : regions[k][1] >= 0
        <3>1. c = Len(p)
            BY <1>4, <2>1 DEF Parties
        <3>2. \A k \in ShaderIds : \E i \in 1..c : p[i] = Sending(k)
            BY <1>3, <3>1, PlanHas
        <3> QED BY <1>4, <3>2 DEF CodeWritten, Noted
    <2> QED BY <1>4, <2>1 DEF Parties, OkMeansComplete
<1> QED BY <1>3, <1>4, <1>5, <1>6, <1>7

\* In whatever order the producer, the workers and the consumer of
\* rebuild_shader_library_from_io_store run, and whatever fails: the shaders' code
\* tiles the file, a map's preload entries cover its code and no other, a library is
\* returned only whole, and the error of a compression is never lost.
THEOREM LayoutIsSound == LayoutSpec => []LayoutSound
<1>1. NoLayout => LayoutInv
    BY DEF NoLayout, LayoutInv
<1>2. LibraryOK => PlanOK(Plan)
    BY PlanIs
<1>3. LibraryOK' => PlanOK(Plan)'
    BY <1>2, PTL
<1>4. LayoutInv /\ [BeginAny \/ (result # "idle" /\ LayoutNext)]_layoutVars => LayoutInv'
    <2> SUFFICES ASSUME LayoutInv, [BeginAny \/ (result # "idle" /\ LayoutNext)]_layoutVars,
                        (result # "idle")'
                 PROVE  LibraryOK' /\ \E d \in 0..sent' : Consumed(Plan, d)'
        BY DEF LayoutInv
    <2>1. CASE BeginAny
        <3>1. Begin /\ LibraryOK'
            BY <2>1 DEF BeginAny
        <3> QED BY <1>3, <3>1, BeginSound
    <2>2. CASE result # "idle" /\ (LayoutNext \/ UNCHANGED layoutVars)
        <3>1. PICK c \in 0..sent : LibraryOK /\ Consumed(Plan, c)
            BY <2>2 DEF LayoutInv
        <3>2. \E d \in 0..sent' : Consumed(Plan, d)'
            BY <2>2, <3>1, StepSound
        <3>3. extracted' = extracted
            BY <2>2 DEF LayoutNext, Produce, Send, SendFails, Close, TakeUp, SomeWork, CompressOne,
                   Emit, Finish, Join, Returned, layoutVars
        <3> QED BY <3>1, <3>2, <3>3, SameLibrary
    <2>3. CASE result = "idle" /\ UNCHANGED layoutVars
        BY <2>3 DEF layoutVars
    <2> QED BY <2>1, <2>2, <2>3
<1>5. LayoutInv => LayoutSound
    BY InvSound
<1> QED BY <1>1, <1>4, <1>5, PTL DEF LayoutSpec
=============================================================================
