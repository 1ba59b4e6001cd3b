SPECIFICATION FairSpec
CONSTANTS
    t1 = t1
    t2 = t2
    t3 = t3
    t4 = t4
    NoHandle = NoHandle
    Threads <- MCThreads
    MaxHandles = 2
    MaxReads = 3
INVARIANT HandlesConserved
INVARIANT NoLostWakeup
PROPERTY LendsHandles
PROPERTY EveryReadEnds
