CONSTANTS
    Servers = {p1, p2}
    EncryptionKeys = {A, B}
    NoKey = NoKey
    MaxRequests = 3
    MaxStarts = 2
    MaxStops = 1
SPECIFICATION EnvironmentsSpec
INVARIANTS EnvironmentsTypeOK KeysAreReadable WritesTakeEffect
SYMMETRY Symmetry
CHECK_DEADLOCK FALSE
