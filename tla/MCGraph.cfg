SPECIFICATION Spec
CONSTANTS
    Steps <- MCSteps
    DependsOn <- MCDependsOn
    DependsOnList <- MCDependsOnList
INVARIANTS
    CountersExact
    NeverStalled
PROPERTY
    Refinement
CHECK_DEADLOCK FALSE
