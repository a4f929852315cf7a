------------------------------- MODULE RelayLog -------------------------------
(***************************************************************************)
(* What the relay of one sub-directory promises (spec.md 1, 4.1-4.3), with *)
(* files, meta, crashes and recovery abstracted away: the relay log is the *)
(* upstream binlog's events 1..N relayed in order, one at a time, never   *)
(* lost or rewritten; the acknowledged mark (the position in the flushed  *)
(* meta, counted in events) only moves forward and never past the log;    *)
(* and every event is eventually relayed.                                 *)
(***************************************************************************)
EXTENDS Naturals, Sequences

CONSTANT N          \* events in the upstream binlog

VARIABLES
    log,            \* the events relayed, in order
    acked           \* events covered by the flushed meta

vars == <<log, acked>>

Init ==
    /\ log = <<>>
    /\ acked = 0

(* The next upstream event is appended to the relay log.                  *)
AppendEvent ==
    /\ Len(log) < N
    /\ log' = Append(log, Len(log) + 1)
    /\ UNCHANGED acked

(* The meta is flushed at some position of the relay log not before the   *)
(* last flushed one.                                                      *)
Acknowledge ==
    /\ acked' \in acked..Len(log)
    /\ UNCHANGED log

Next == AppendEvent \/ Acknowledge

Spec == Init /\ [][Next]_vars /\ WF_vars(AppendEvent)

=============================================================================
