CONSTANTS
    MaxSuffix <- MCMaxSuffix
    MaxSetups <- MCMaxSetups

SPECIFICATION Spec

INVARIANTS
    IndexMatchesDisk
