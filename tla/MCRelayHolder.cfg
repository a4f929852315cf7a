CONSTANTS
    MaxRuns <- MCMaxRuns

SPECIFICATION Spec

INVARIANTS
    SingleFlight

PROPERTIES
    StoppedAbsorbing
    CallsReturn
