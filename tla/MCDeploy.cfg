CONSTANTS
    NumFlows = 2
    MaxRequests = 3
    MaxMishaps = 1
SPECIFICATION Spec
INVARIANTS TypeOK ActiveVersion DeletionsAreRight
CHECK_DEADLOCK FALSE
