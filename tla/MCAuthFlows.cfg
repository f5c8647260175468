CONSTANTS
    NumAuths = 2
    MaxFaults = 1
SPECIFICATION Spec
INVARIANTS TypeOK RejectedHasReason
PROPERTIES AuthSettles ImplementsAuthRequest
CHECK_DEADLOCK FALSE
