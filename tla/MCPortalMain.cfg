CONSTANTS
    k1 = k1
    k2 = k2
    k3 = k3
    NoReq = NoReq
    Conns <- MCConns
    Paths <- MCPaths
SPECIFICATION Spec
SYMMETRY MCSymmetry
INVARIANT ServesOnlyWhenReady
INVARIANT RoutedAsIntended
CHECK_DEADLOCK FALSE
