CONSTANTS
    Stream <- MCStream
    MaxFaults <- MCMaxFaults
    IgnoreFakeRotate = TRUE
    PartialWrites = FALSE

SPECIFICATION Spec

INVARIANT
    RelayIsStreamPrefix

CHECK_DEADLOCK FALSE
