----------------------------- MODULE MCPortalMain -----------------------------
(* Three connections sending the API paths, the root, a subtree path under   *)
(* an API route, a trailing-slash variant and a static file.               *)
EXTENDS PortalMain, TLC

CONSTANTS k1, k2, k3

MCConns == {k1, k2, k3}

MCPaths ==
    { [segs |-> <<>>, slash |-> TRUE],
      [segs |-> <<"check">>, slash |-> FALSE],
      [segs |-> <<"check">>, slash |-> TRUE],
      [segs |-> <<"check", "x">>, slash |-> FALSE],
      [segs |-> <<"download">>, slash |-> FALSE],
      [segs |-> <<"index.html">>, slash |-> FALSE] }

MCSymmetry == Permutations(MCConns)

=============================================================================
