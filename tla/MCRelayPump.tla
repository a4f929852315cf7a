----------------------------- MODULE MCRelayPump -----------------------------
(* Model-checking instance of RelayPump: an upstream binlog of three files *)
(* (two Rotate events), with Trx and non-Trx events in each, and up to     *)
(* three crashes or exits, enough for a crash in each file, a crash right  *)
(* after a recovery and a crash between a Rotate and its flush.            *)
EXTENDS RelayPump

MCStream == <<"Trx", "Rotate", "Other", "Trx", "Rotate", "Trx">>
MCMaxFaults == 3
=============================================================================
