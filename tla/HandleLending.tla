--------------------------- MODULE HandleLending ---------------------------
(***************************************************************************)
(* What FilePool promises its callers, with no lock, queue or condition    *)
(* variable in sight: a bounded set of open file handles is lent to        *)
(* threads, each handle to at most one thread at a time, so that the seek  *)
(* position of a handle is private to its borrower.                        *)
(***************************************************************************)
EXTENDS Naturals

CONSTANTS Threads,      \* the threads that read through the pool
          MaxHandles,   \* FilePoolInner::max_handles
          NoHandle      \* "this thread has borrowed nothing"

VARIABLES opened,   \* the handles opened so far
          lent      \* which handle each thread has borrowed

lendingVars == <<opened, lent>>

Free == opened \ {lent[t] : t \in Threads}

LendingInit ==
    /\ opened = {}
    /\ lent = [t \in Threads |-> NoHandle]

\* A handle that was opened before, and that nobody has now, is lent.
Relend(t) ==
    /\ lent[t] = NoHandle
    /\ \E h \in Free : lent' = [lent EXCEPT ![t] = h]
    /\ UNCHANGED opened

\* A new handle is opened only while fewer than MaxHandles are, and only when
\* no open one is free: opening is the last resort.
LendNew(t) ==
    /\ lent[t] = NoHandle
    /\ Free = {}
    /\ \E h \in 1..MaxHandles \ opened :
        /\ opened' = opened \cup {h}
        /\ lent' = [lent EXCEPT ![t] = h]

GiveBack(t) ==
    /\ lent[t] # NoHandle
    /\ lent' = [lent EXCEPT ![t] = NoHandle]
    /\ UNCHANGED opened

LendingNext == \E t \in Threads : Relend(t) \/ LendNew(t) \/ GiveBack(t)

LendingSpec == LendingInit /\ [][LendingNext]_lendingVars
=============================================================================
