SPECIFICATION Spec
CONSTANTS
    Tools <- MCTools
    Limits = {1}
    Minute = 2
    MaxTime = 2
    Slots = {1, 2}
    Requests <- MCRequests
    Registrations <- MCRegistrations
    BuiltIn <- MCBuiltIn
    Rules <- MCRules
    MaxChanges = 2
INVARIANTS
    WindowBound
    HandlerInputValid
    RepliesComplete
PROPERTY
    MessageAnswered
