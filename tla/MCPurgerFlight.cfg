\* Purges racing a pump that rotates and switches to a new sub-directory.
CONSTANTS
    c1 = c1
    c2 = c2
    Callers <- MCCallers
    NFiles <- MCNFiles
    InitDirs = 1
    MaxDirs = 2

SYMMETRY MCSymmetry

SPECIFICATION Spec

INVARIANTS
    PurgeSingleFlight
