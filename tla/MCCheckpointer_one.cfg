SPECIFICATION Spec
CONSTANTS
    Clients = {"c1", "c2", "c3"}
    Instances = {"server1"}
    InstanceOf <- OneInstanceOf
    MaxVersion = 2
PROPERTIES
    Refinement
    SaveReturns
CHECK_DEADLOCK FALSE
