---------------------------- MODULE MCRelayHolder ----------------------------
(* Model-checking instance of RelayHolder.  Four spawns reach every        *)
(* sequence of Start, Resume and Update restores the tests exercise        *)
(* (Start, Update, Pause, Update, Resume, Close, Stop) and the chains      *)
(* Close -> Resume -> Stop and Update -> Resume -> Pause.                  *)
EXTENDS RelayHolder

MCMaxRuns == 4
=============================================================================
