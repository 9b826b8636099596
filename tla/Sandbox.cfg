SPECIFICATION Spec
CONSTANTS
    Executions = {"x1", "x2"}
    PoolSize = 1
    MaxFaults = 1
INVARIANTS
    SlotsExact
    NoSilentLeak
    HonestSuccess
    CollectsAfterEnd
PROPERTY
    ExecutesReturn
CHECK_DEADLOCK FALSE
