SPECIFICATION Spec
CONSTANTS
    Modules <- MCNoModules
    Limits <- MCLimits
    Triple <- MCTriple
    Datalayout <- MCDatalayout
    UINT32_MAX = 2147483647
    Predefined <- MCPredefined
    Overloads <- MCOverloads
    Ints <- MCInts
    Floats <- MCFloatsSigned
    ResTypes <- MCResTypes
    Bindings <- MCBindings
    NegZero = 2147483647
    NaNs <- MCNaNs
    MaxRequests = 2
    MaxCalls = 1
    MaxWritten = 1
INVARIANTS
    AnswersAreTrue
CHECK_DEADLOCK FALSE
