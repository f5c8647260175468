CONSTANTS
    NumRuns = 3
    MaxTime = 2
    MaxMishaps = 1
    UserDates = {2}
SPECIFICATION FairSpec
INVARIANTS TypeOK CursorAccounted NoMissedChangeInOrder
PROPERTIES UserDateKept ContinuousSyncStarts
CHECK_DEADLOCK FALSE
