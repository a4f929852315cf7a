----------------------------- MODULE MCRelayIndex -----------------------------
(* Suffixes up to 4 and five reconnections: room for an override below,   *)
(* at and above the latest suffix, and for reconnections after it.        *)
EXTENDS RelayIndex

MCMaxSuffix == 4
MCMaxSetups == 5
=============================================================================
