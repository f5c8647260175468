CONSTANTS
    MaxRetries = 2
    MaxFaults = 1
    NumItems = 3
    MaxChanges = 1
    MaxPage = 2
SPECIFICATION LoopSpec
INVARIANT LoopIsExact
PROPERTY LoopEnds
CHECK_DEADLOCK FALSE
