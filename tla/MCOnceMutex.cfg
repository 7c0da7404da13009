SPECIFICATION FairSpec
CONSTANTS
    t1 = t1
    t2 = t2
    t3 = t3
    m1 = m1
    m2 = m2
    NULL = NULL
    Mutexes <- MCMutexes
    Threads <- MCThreads
    Machines = {TRUE, FALSE}
INVARIANTS
    MutualExclusion
    FinishedInOrder
PROPERTIES
    InitOnlyOnce
    DrainsWhenQuiet
