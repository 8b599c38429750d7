SPECIFICATION Spec
CONSTANTS
    Replica = {r1, r2}
    Client = {c1}
    Gid = {1, 2, 3}
    NShards = 4
    MaxOps = 4
INVARIANT ExecutedOnce
INVARIANT ReplicasAgree
INVARIANT ShardsHaveOneOwner
PROPERTY JoinAndLeaveBalance
PROPERTY TransfersAreMinimal
CHECK_DEADLOCK FALSE
SYMMETRY Symmetry
