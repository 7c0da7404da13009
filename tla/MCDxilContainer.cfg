SPECIFICATION Spec
CONSTANTS
    Pipelines <- MCPipelines
    Validators = {5, 6, 7, 8}
    Resources = {0, 2}
    Bitcode = 8
    Entry <- MCEntry
    Limits <- MCLimits
INVARIANTS
    PartsTile
    NamesResolve
    NamesAreShared
    NoPartialSuccess
    RowsDoNotOverlap
    VariablesReachRecords
    LinkedStagesAgree
    PsvResolves
CHECK_DEADLOCK FALSE
