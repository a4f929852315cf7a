\* The pump switches to a new sub-directory while purges run.
CONSTANTS
    c1 = c1
    c2 = c2
    Callers <- MCCallers
    NFiles <- MCNFiles
    InitDirs = 1
    MaxDirs = 2

SYMMETRY MCSymmetry

SPECIFICATION Spec

INVARIANT
    ActiveRetained
