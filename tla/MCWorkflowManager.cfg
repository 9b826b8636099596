SPECIFICATION Spec
CONSTANTS
    Clients = {"c1", "c2"}
    WorkflowIDs = {"wf1", "wf2"}
    Definitions <- MCDefinitions
    MaxRuns = 1
    MaxAge = 5
INVARIANT
    AnswersFresh
PROPERTY
    RequestsReturn
