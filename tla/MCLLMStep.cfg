SPECIFICATION Spec
CONSTANTS
    Executions = {"x1", "x2"}
    StepID <- OwnStepID
    MaxToolRounds = 2
    MaxReActRounds = 2
    MaxAttempts = 2
    MaxCalls = 2
INVARIANTS
    ConversationComplete
    StopsAsking
    NoSilentLeak
PROPERTY
    ExecutesReturn
CHECK_DEADLOCK FALSE
