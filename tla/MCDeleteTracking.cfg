CONSTANTS
    Keys = {1, 2}
    Contents = {a, b}
    MaxJobs = 3
    MaxSaved = 2
    MaxMishaps = 1
    PageSize = 1
SPECIFICATION RecordsSpec
INVARIANTS TypeOK ReturnedRecordsStayLive FlaggedRecordsStayFlagged DeletionsExact CustomerIsUpToDate AnswersTellWhatChanged
SYMMETRY ContentSymmetry
CHECK_DEADLOCK FALSE
