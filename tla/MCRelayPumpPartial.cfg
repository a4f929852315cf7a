CONSTANTS
    Stream <- MCStream
    MaxFaults <- MCMaxFaults
    IgnoreFakeRotate = FALSE
    PartialWrites = TRUE

SPECIFICATION Spec

INVARIANT RelayParsable

CHECK_DEADLOCK FALSE
