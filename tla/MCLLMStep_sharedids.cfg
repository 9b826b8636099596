SPECIFICATION Spec
CONSTANTS
    Executions = {"x1", "x2"}
    StepID <- SameStepID
    MaxToolRounds = 2
    MaxReActRounds = 2
    MaxAttempts = 2
    MaxCalls = 2
INVARIANT
    JobsNotStolen
CHECK_DEADLOCK FALSE
