SPECIFICATION Spec
CONSTANTS
    Steps <- PairSteps
    Kind <- PairKind
    DependsOn <- PairDependsOn
    MaxRetries <- PairRetries
    Executable = {"w1", "w2"}
    MaxParallel = 2
    Checkpointing = TRUE
    Resumers = {}
    Cancellers = {}
    Expiry = FALSE
    MaxStoreErrors = 0
    MaxCrashes = 0
PROPERTY
    StoredProgressKept
CHECK_DEADLOCK FALSE
