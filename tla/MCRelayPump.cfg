CONSTANTS
    Stream <- MCStream
    MaxFaults <- MCMaxFaults
    IgnoreFakeRotate = FALSE
    PartialWrites = FALSE

SPECIFICATION Spec

INVARIANTS
    RelayIsStreamPrefix
    MetaDescribesRelay

PROPERTIES
    MetaMonotonic
    AllRelayed
    RefinesRelayLog

CHECK_DEADLOCK FALSE
