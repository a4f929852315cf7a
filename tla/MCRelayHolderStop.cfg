CONSTANTS
    MaxRuns <- MCMaxRuns

SPECIFICATION Spec

INVARIANT
    StopCancelsPump
