SPECIFICATION Spec
CONSTANTS
    c1 = c1
    Gid = {1, 2}
    NumServers <- Sizes
    NShards = 2
    Client = {c1}
    Script <- Idle
    Assignment <- ToAndFro
    SlowPolls = TRUE
    MaxConfigs = 3
    MaxLog = 4
    MaxFaults = 0
    maxraftstate = 2
INVARIANT NoShardLost
CHECK_DEADLOCK FALSE
