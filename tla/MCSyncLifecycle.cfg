CONSTANTS
    Requests = {r1, r2}
    Connections = {c1, c2}
    Frequencies = {hour, day}
    NumSyncs = 2
    MaxEvents = 3
SPECIFICATION Spec
INVARIANTS TypeOK StatusAgrees DeployReachesAll DeletionLeavesNothing CreationIsWhole
SYMMETRY Symmetry
CHECK_DEADLOCK FALSE
