------------------------------ MODULE FilePool ------------------------------
(***************************************************************************)
(* src/src/file_pool.rs: a pool of at most MaxHandles open handles of one  *)
(* container file, shared by the worker threads that read chunks from it.  *)
(* A mutex guards the deque of idle handles and the count of opened ones;  *)
(* a condition variable parks the threads that find neither an idle handle *)
(* nor room for another one.                                               *)
(*                                                                         *)
(* Every region of code under the mutex is one action.  A thread parked on *)
(* the condition variable is "parked"; once notified (or woken spuriously) *)
(* it is "woken" and competes for the mutex with every other caller of     *)
(* acquire(), which is how a handle can be taken from under it.            *)
(***************************************************************************)
EXTENDS Naturals, Sequences, FiniteSets

CONSTANTS Threads,      \* the threads that read through the pool
          MaxHandles,   \* FilePoolInner::max_handles
          NoHandle,     \* PooledFileHandle { file: None }
          MaxReads      \* bound: reads each thread makes

ASSUME ThreadsFinite == IsFiniteSet(Threads)
ASSUME MaxHandlesPositive == MaxHandles \in Nat \ {0}
ASSUME NoHandleIsNone == NoHandle \notin Nat
ASSUME MaxReadsIsNat == MaxReads \in Nat

VARIABLES available_files,  \* PoolState::available_files, oldest first
          active_count,     \* PoolState::active_count
          held,             \* the handle inside each thread's PooledFileHandle
          pc,               \* where each thread is
          reads             \* reads each thread still has to make

poolState == <<available_files, active_count>>
vars == <<available_files, active_count, held, pc, reads>>

Parked == {t \in Threads : pc[t] = "parked"}
Woken  == {t \in Threads : pc[t] = "woken"}
Ready(t) == pc[t] = "woken" \/ (pc[t] = "idle" /\ reads[t] > 0)

Init ==
    /\ available_files = <<>>
    /\ active_count = 0
    /\ held = [t \in Threads |-> NoHandle]
    /\ pc = [t \in Threads |-> "idle"]
    /\ reads = [t \in Threads |-> MaxReads]

\* A variant of PopAvailable that leaves the handle in the deque.
PopAvailableCopy(t) ==
    /\ Ready(t)
    /\ available_files # <<>>
    /\ held' = [held EXCEPT ![t] = Head(available_files)]
    /\ pc' = [pc EXCEPT ![t] = "holding"]
    /\ UNCHANGED <<available_files, active_count, reads>>

\* acquire(): an idle handle exists; the oldest one is taken.
PopAvailable(t) ==
    /\ Ready(t)
    /\ available_files # <<>>
    /\ held' = [held EXCEPT ![t] = Head(available_files)]
    /\ available_files' = Tail(available_files)
    /\ pc' = [pc EXCEPT ![t] = "holding"]
    /\ UNCHANGED <<active_count, reads>>

\* A variant of OpenFails that counts the handle it did not get.
OpenFailsCounted(t) ==
    /\ Ready(t)
    /\ available_files = <<>>
    /\ active_count < MaxHandles
    /\ active_count' = active_count + 1
    /\ pc' = [pc EXCEPT ![t] = "idle"]
    /\ reads' = [reads EXCEPT ![t] = @ - 1]
    /\ UNCHANGED <<available_files, held>>

\* acquire(): none is idle, but another may be opened.
OpenNew(t) ==
    /\ Ready(t)
    /\ available_files = <<>>
    /\ active_count < MaxHandles
    /\ active_count' = active_count + 1
    /\ held' = [held EXCEPT ![t] = active_count + 1]
    /\ pc' = [pc EXCEPT ![t] = "holding"]
    /\ UNCHANGED <<available_files, reads>>

\* acquire(): File::open fails; `?` leaves before active_count is touched and
\* the caller's read fails.
OpenFails(t) ==
    /\ Ready(t)
    /\ available_files = <<>>
    /\ active_count < MaxHandles
    /\ pc' = [pc EXCEPT ![t] = "idle"]
    /\ reads' = [reads EXCEPT ![t] = @ - 1]
    /\ UNCHANGED <<available_files, active_count, held>>

\* acquire(): the pool is exhausted; condvar.wait releases the mutex and parks
\* the thread in one step.
Park(t) ==
    /\ Ready(t)
    /\ available_files = <<>>
    /\ active_count >= MaxHandles
    /\ pc' = [pc EXCEPT ![t] = "parked"]
    /\ UNCHANGED <<available_files, active_count, held, reads>>

\* A variant of NotifyOne that forgets to notify.
NotifyNobody(pcs) == {pcs}

\* notify_one(): one parked thread is woken, whichever the system picks.
NotifyOne(pcs) ==
    LET parked == {t \in Threads : pcs[t] = "parked"}
    IN  IF parked = {} THEN {pcs}
        ELSE {[pcs EXCEPT ![t] = "woken"] : t \in parked}

\* Drop for PooledFileHandle: the handle is put back and one thread notified,
\* both under the mutex.
DropHandle(t) ==
    /\ pc[t] = "holding"
    /\ available_files' = Append(available_files, held[t])
    /\ held' = [held EXCEPT ![t] = NoHandle]
    /\ pc' \in NotifyOne([pc EXCEPT ![t] = "idle"])
    /\ reads' = [reads EXCEPT ![t] = @ - 1]
    /\ UNCHANGED active_count

\* A condition variable may wake a thread that nobody notified; the loop in
\* acquire() looks at the pool again.
SpuriousWakeup(t) ==
    /\ pc[t] = "parked"
    /\ pc' = [pc EXCEPT ![t] = "woken"]
    /\ UNCHANGED <<available_files, active_count, held, reads>>

Acquire(t) == PopAvailable(t) \/ OpenNew(t) \/ OpenFails(t) \/ Park(t)

AllReadsDone == \A t \in Threads : pc[t] = "idle" /\ reads[t] = 0

\* The pool stops when every thread has made its reads.
Terminated == AllReadsDone /\ UNCHANGED vars

Next ==
    \/ \E t \in Threads : Acquire(t) \/ DropHandle(t) \/ SpuriousWakeup(t)
    \/ Terminated

\* A thread that can run is eventually run and a borrower eventually drops its
\* handle; nothing is promised of who gets the mutex first, of which parked
\* thread notify_one() picks, or of spurious wakeups.
Fairness == \A t \in Threads : WF_vars(Acquire(t)) /\ WF_vars(DropHandle(t))

Spec == Init /\ [][Next]_vars
FairSpec == Spec /\ Fairness

-----------------------------------------------------------------------------
TypeOK ==
    /\ available_files \in Seq(1..MaxHandles)
    /\ active_count \in 0..MaxHandles
    /\ held \in [Threads -> (1..MaxHandles) \cup {NoHandle}]
    /\ pc \in [Threads -> {"idle", "parked", "woken", "holding"}]
    /\ reads \in [Threads -> 0..MaxReads]
    /\ \A t \in Threads : pc[t] # "idle" => reads[t] > 0

Idle == {available_files[i] : i \in 1..Len(available_files)}
Held == {held[t] : t \in Threads} \ {NoHandle}

\* Every handle that was opened is either idle in the deque or in the hands of
\* exactly one thread, once: none leaks (the pool would shrink until every
\* reader waits), and none is in two places (two readers would move the same
\* seek position).
HandlesConserved ==
    /\ Idle \cup Held = 1..active_count
    /\ Idle \cap Held = {}
    /\ \A i, j \in 1..Len(available_files) :
        available_files[i] = available_files[j] => i = j
    /\ \A s, t \in Threads : held[s] = held[t] /\ held[s] # NoHandle => s = t
    /\ \A t \in Threads : pc[t] = "holding" <=> held[t] # NoHandle

\* No wakeup is lost: while a thread is parked, the pool has opened all it may,
\* and for every idle handle some notified thread is on its way to take it, so
\* an idle handle never sits beside a thread that sleeps for good.  A caller
\* may still take the handle first; then the notified thread parks again.
NoLostWakeup ==
    Parked # {} =>
        /\ active_count = MaxHandles
        /\ Len(available_files) <= Cardinality(Woken)

\* The pool lends handles as HandleLending does.
Lending == INSTANCE HandleLending WITH opened <- 1..active_count, lent <- held
LendsHandles == Lending!LendingSpec

\* Every thread that asks for a handle gets one, or an open error, in the end:
\* all reads are made whatever the mutex and notify_one() choose.
EveryReadEnds == <>AllReadsDone
=============================================================================
