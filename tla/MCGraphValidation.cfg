SPECIFICATION Spec
CONSTANTS
    Names = {"a", "b", "c"}
    MaxSteps = 3
    MaxDeps = 2
INVARIANT
    AcceptsExactlyDAGs
PROPERTY
    Terminates
CHECK_DEADLOCK FALSE
