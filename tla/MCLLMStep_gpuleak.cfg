SPECIFICATION Spec
CONSTANTS
    Executions = {"x1"}
    StepID <- SoloStepID
    MaxToolRounds = 2
    MaxReActRounds = 2
    MaxAttempts = 2
    MaxCalls = 2
INVARIANT
    ReleasedAnyway
CHECK_DEADLOCK FALSE
