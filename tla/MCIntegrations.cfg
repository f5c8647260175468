CONSTANTS
    Requests = {a, b}
    NumConfigs = 3
    NumConnections = 3
    NumSyncs = 3
    MaxEvents = 4
SPECIFICATION Spec
INVARIANTS TypeOK IntegrationIsWhole RequestsFit
SYMMETRY Symmetry
CHECK_DEADLOCK FALSE
