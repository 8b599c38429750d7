SPECIFICATION Spec
CONSTANTS
    c1 = c1
    c2 = c2
    NumServers = 2
    Client = {c1, c2}
    Script <- WriteThenRead
    MaxLog = 4
    MaxFaults = 1
    maxraftstate = 2
INVARIANT TypeOK
INVARIANT ReplicasAgree
INVARIANT ChannelsAreReclaimed
PROPERTY ImplementsStore
CHECK_DEADLOCK FALSE
