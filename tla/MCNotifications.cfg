CONSTANTS
    Connections = {c1, c2}
    MaxRuns = 5
    MaxEvents = 2
SPECIFICATION Spec
INVARIANTS TypeOK FailuresAreReported
SYMMETRY Symmetry
CHECK_DEADLOCK FALSE
