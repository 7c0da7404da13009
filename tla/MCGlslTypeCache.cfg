SPECIFICATION CacheSpec
CONSTANTS
    t1 = t1
    t2 = t2
    t3 = t3
    a1 = a1
    a2 = a2
    a3 = a3
    Threads <- MCThreads
    Addr <- MCAddr
    Arg <- MCArg
    Builtin = Builtin
    Free = Free
SYMMETRY MCSymmetry
INVARIANTS
    UsersAreCounted
    NoDanglingType
    TypesAreCanonical
PROPERTIES
    HeldTypesAreStable
