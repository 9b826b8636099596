SPECIFICATION Spec
CONSTANTS
    Steps <- ReviewSteps
    Kind <- ReviewKind
    DependsOn <- ReviewDependsOn
    MaxRetries <- ReviewRetries
    Executable = {"w1", "w2", "w3", "post", "last"}
    MaxParallel = 2
    Checkpointing = FALSE
    Resumers = {"r1", "r2"}
    Cancellers = {"c1"}
    Expiry = FALSE
    MaxStoreErrors = 0
    MaxCrashes = 0
INVARIANTS
    TypeOK
    DependenciesFirst
    SingleOwner
    WorkListExact
    ParallelismBounded
    RetriesBounded
    InputsAvailable
    PausedIsResumable
PROPERTIES
    MovesForward
    LifecycleRefinement
CHECK_DEADLOCK FALSE
