SPECIFICATION Spec
CONSTANTS
    c1 = c1
    c2 = c2
    NumServers = 3
    Client = {c1, c2}
    Script <- ReadMissing
    MaxLog = 2
    MaxFaults = 0
    maxraftstate = 3
INVARIANT AnsweredIsExecuted
CHECK_DEADLOCK FALSE
