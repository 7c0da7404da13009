SPECIFICATION Spec
CONSTANTS
    Modules <- MCModules
    Limits <- MCLimits
    Triple <- MCTriple
    Datalayout <- MCDatalayout
    UINT32_MAX = 2147483647
    Predefined <- MCPredefined
    Overloads <- MCOverloads
    Ints <- MCInts
    Floats <- MCFloats
    ResTypes <- MCResTypes
    Bindings <- MCBindings
    NegZero = 2147483647
    NaNs <- MCNaNs
    MaxRequests = 3
    MaxCalls = 1
    MaxWritten = 1
INVARIANTS
    ListsAreSound
    AnswersAreStable
    AnswersAreTrue
    NoPartialModule
    ReaderAgrees
    ReferencesResolve
CHECK_DEADLOCK FALSE
