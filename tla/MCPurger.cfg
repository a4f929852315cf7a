\* An old sub-directory to purge; the pump rotates within the latest one.
CONSTANTS
    c1 = c1
    c2 = c2
    Callers <- MCCallers
    NFiles <- MCNFiles
    InitDirs = 2
    MaxDirs = 2

SYMMETRY MCSymmetry

SPECIFICATION Spec

INVARIANT
    ActiveRetained
