CONSTANTS
    NumRuns = 2
    MaxTime = 3
    MaxMishaps = 0
    UserDates = {}
SPECIFICATION FairSpec
INVARIANT NoMissedChange
CHECK_DEADLOCK FALSE
