SPECIFICATION Spec
CONSTANTS
    t1 = t1
    t2 = t2
    a1 = a1
    a2 = a2
    Threads <- MCThreads
    Addr <- MCAddr
    Arg <- MCArg
    Builtin = Builtin
    Free = Free
INVARIANTS
    NothingIsLost
