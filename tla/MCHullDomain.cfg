SPECIFICATION Spec
CONSTANTS
    Pipelines <- MCScratch
    Validators = {8}
    Resources = {0}
    Bitcode = 8
    Entry <- MCEntry
    Limits <- MCLimits
INVARIANTS
    HullMatchesDomain
CHECK_DEADLOCK FALSE
