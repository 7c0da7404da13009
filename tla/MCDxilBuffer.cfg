SPECIFICATION Spec
CONSTANTS
    Inputs <- MCInputs
    Limits <- MCLimits
INVARIANTS
    ReadyForCall
    HoldsStream
PROPERTIES
    FailureKeepsBlob
CHECK_DEADLOCK FALSE
