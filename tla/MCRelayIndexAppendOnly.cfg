CONSTANTS
    MaxSuffix <- MCMaxSuffix
    MaxSetups <- MCMaxSetups

SPECIFICATION Spec

INVARIANT
    IndexAppendOnly
