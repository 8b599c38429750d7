SPECIFICATION Spec
CONSTANTS
    c1 = c1
    Gid = {1, 2}
    NumServers <- Sizes
    NShards = 2
    Client = {c1}
    Script <- OneAppend
    Assignment <- Either
    SlowPolls = FALSE
    MaxConfigs = 2
    MaxLog = 3
    MaxFaults = 2
    maxraftstate = 2
ACTION_CONSTRAINT UsefulPolls
PROPERTY ImplementsStore
CHECK_DEADLOCK FALSE
