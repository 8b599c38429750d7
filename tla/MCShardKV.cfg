SPECIFICATION MCSpec
CONSTANTS
    c1 = c1
    Gid = {1, 2}
    NumServers <- Sizes
    NShards = 2
    Client = {c1}
    Script <- OneClerk
    Assignment <- Assignments
    SlowPolls = FALSE
    MaxConfigs = 3
    MaxLog = 4
    MaxFaults = 1
    maxraftstate = 2
CONSTRAINT FewConfigs
ACTION_CONSTRAINT UsefulPolls
INVARIANTS OneOwner NoShardLost
PROPERTY ImplementsStore
CHECK_DEADLOCK FALSE
