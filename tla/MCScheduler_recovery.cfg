SPECIFICATION Spec
CONSTANTS
    Steps <- RecoverySteps
    Kind <- RecoveryKind
    DependsOn <- RecoveryDependsOn
    MaxRetries <- RecoveryRetries
    Executable = {"w1", "w2"}
    MaxParallel = 2
    Checkpointing = TRUE
    Resumers = {"r1"}
    Cancellers = {}
    Expiry = TRUE
    MaxStoreErrors = 1
    MaxCrashes = 1
INVARIANTS
    WorkListExact
    RunningHasOwner
    InputsAvailable
    StoredCausallyClosed
    StoredIsPast
    CompletedIsQuiet
PROPERTIES
    CompletionStands
    Settles
CHECK_DEADLOCK FALSE
