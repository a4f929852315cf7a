------------------------------- MODULE MCPurger -------------------------------
(* Two purge callers over sub-directories of three relay files each.      *)
EXTENDS Purger, TLC

CONSTANTS c1, c2

MCCallers == {c1, c2}
MCNFiles == 3
MCSymmetry == Permutations(MCCallers)
=============================================================================
