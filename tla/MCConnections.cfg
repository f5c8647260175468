CONSTANTS
    Requests = {r1, r2}
    NumRows = 2
    MaxEvents = 4
SPECIFICATION Spec
INVARIANTS TypeOK ChangesKept RefreshesAccepted OneConnection
SYMMETRY Symmetry
CHECK_DEADLOCK FALSE
