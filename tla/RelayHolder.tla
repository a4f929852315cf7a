----------------------------- MODULE RelayHolder -----------------------------
(***************************************************************************)
(* The relay holder of a DM worker (spec.md 4.5): the operator-facing      *)
(* facade that starts, pauses, resumes, reconfigures, stops and closes the *)
(* relay Process (the event pump) running in a worker goroutine.           *)
(*                                                                         *)
(* The holder's own code is not under src/: its operations are taken from  *)
(* spec.md 4.5 and checked against the holder test in                      *)
(* src/dm/worker/relay_test.go, whose DummyRelay is the Process driven     *)
(* here: Process blocks until its context is cancelled and then returns    *)
(* the injected ProcessResult.                                             *)
(*                                                                         *)
(* Operator calls come from one control loop and are serialised; a call    *)
(* that waits for the worker to exit (Pause, Close, Update) is split into  *)
(* the step that starts it and the step that returns once the worker has  *)
(* gone, with `op' recording the call in flight.  Every worker is a        *)
(* generation number; the worker wrapper records the ProcessResult and the *)
(* stage when Process returns.                                             *)
(***************************************************************************)
EXTENDS Naturals

CONSTANT MaxRuns   \* bound on the number of Process workers ever spawned

ASSUME MaxRunsAssumption == MaxRuns \in Nat \ {0}

VARIABLES
    stage,      \* h.stage: "New", "Running", "Paused" or "Stopped"
    closed,     \* h.closed, set once by Close()
    result,     \* h.result: ProcessResult of the last worker exit, "nil" if none
    live,       \* generations of workers whose Process has not returned yet
    canceled,   \* generations whose context has been cancelled
    runs,       \* number of workers spawned so far: the latest generation
    op,         \* operator call in flight, "none" when the control loop is free
    origin      \* originStage captured by the Update in flight

vars == <<stage, closed, result, live, canceled, runs, op, origin>>

Stages == {"New", "Running", "Paused", "Stopped"}
Results == {"nil", "canceled", "failed"}
Ops == {"none", "pausing", "closing", "updating"}
Gens == 1..MaxRuns

TypeOK ==
    /\ stage \in Stages
    /\ closed \in BOOLEAN
    /\ result \in Results
    /\ live \subseteq Gens
    /\ canceled \subseteq Gens
    /\ runs \in 0..MaxRuns
    /\ op \in Ops
    /\ origin \in Stages

Init ==
    /\ stage = "New"
    /\ closed = FALSE
    /\ result = "nil"
    /\ live = {}
    /\ canceled = {}
    /\ runs = 0
    /\ op = "none"
    /\ origin = "New"

(* run(): a new worker with a fresh context; stage Running, Result nil.   *)
Spawn ==
    /\ runs < MaxRuns
    /\ runs' = runs + 1
    /\ live' = live \cup {runs + 1}
    /\ stage' = "Running"
    /\ result' = "nil"

(* h.cancel(): cancel the context of the latest worker, if there is one.  *)
Cancel == canceled' = canceled \cup ({runs} \cap Gens)

(* The stage a finished worker or Close leaves: Paused, unless Stopped.   *)
PausedUnlessStopped == IF stage = "Stopped" THEN "Stopped" ELSE "Paused"

(* Start(): from New only, spawn the worker.                              *)
Start ==
    /\ op = "none"
    /\ stage = "New"
    /\ Spawn
    /\ UNCHANGED <<closed, canceled, op, origin>>

(* Bug variant: Pause that forgets to cancel the worker before waiting.   *)
PauseNoCancel ==
    /\ op = "none"
    /\ stage = "Running"
    /\ op' = "pausing"
    /\ UNCHANGED <<stage, closed, result, live, canceled, runs, origin>>

(* Operate(PauseRelay): from Running, cancel the worker and wait for it.  *)
(* From any other stage it returns ErrInvalidStage and changes nothing.   *)
PauseRelay ==
    /\ op = "none"
    /\ stage = "Running"
    /\ Cancel
    /\ op' = "pausing"
    /\ UNCHANGED <<stage, closed, result, live, runs, origin>>

PauseDone ==
    /\ op = "pausing"
    /\ live = {}
    /\ op' = "none"
    /\ UNCHANGED <<stage, closed, result, live, canceled, runs, origin>>

(* Operate(ResumeRelay): from Paused, respawn the worker.                 *)
ResumeRelay ==
    /\ op = "none"
    /\ stage = "Paused"
    /\ Spawn
    /\ UNCHANGED <<closed, canceled, op, origin>>

(* Close(): idempotent through the closed flag; cancels the worker, waits *)
(* for it, and leaves the stage Paused (Stopped if it already was).       *)
Close ==
    /\ op = "none"
    /\ ~closed
    /\ closed' = TRUE
    /\ Cancel
    /\ op' = "closing"
    /\ UNCHANGED <<stage, result, live, runs, origin>>

(* Bug variant: Close returns without waiting for the worker (wg.Wait).   *)
CloseNoWait ==
    /\ op = "closing"
    /\ stage' = PausedUnlessStopped
    /\ op' = "none"
    /\ UNCHANGED <<closed, result, live, canceled, runs, origin>>

CloseDone ==
    /\ op = "closing"
    /\ live = {}
    /\ stage' = PausedUnlessStopped
    /\ op' = "none"
    /\ UNCHANGED <<closed, result, live, canceled, runs, origin>>

(* Operate(StopRelay): stage Stopped, then Close(); "already stopped"     *)
(* from Stopped.  When closed is already set, Close() returns at once.    *)
StopRelay ==
    /\ op = "none"
    /\ stage # "Stopped"
    /\ stage' = "Stopped"
    /\ closed' = TRUE
    /\ IF closed
          THEN UNCHANGED <<canceled, op>>
          ELSE Cancel /\ op' = "closing"
    /\ UNCHANGED <<result, live, runs, origin>>

(* Update(cfg): capture originStage, pause the worker if Running, Reload; *)
(* on a Reload error return it and stay paused, else restore originStage. *)
Update ==
    /\ op = "none"
    /\ origin' = stage
    /\ op' = "updating"
    /\ IF stage = "Running" THEN Cancel ELSE UNCHANGED canceled
    /\ UNCHANGED <<stage, closed, result, live, runs>>

UpdateReload ==
    /\ op = "updating"
    /\ origin = "Running" => live = {}
    /\ op' = "none"
    /\ \/ UNCHANGED <<stage, result, live, runs>>
       \/ /\ origin = "Running"
          /\ Spawn
    /\ UNCHANGED <<closed, canceled, origin>>

(* Process returns in worker g: after its context is cancelled with the   *)
(* injected result, or at any time with a reader or writer error.  The    *)
(* wrapper records the result and sets the stage Paused unless Stopped.   *)
ExitResults(g) == IF g \in canceled THEN {"canceled", "failed"} ELSE {"failed"}

(* Bug variant: the worker wrapper sets Paused whatever the stage.         *)
ProcessExitPaused(g, pr) ==
    /\ g \in live
    /\ live' = live \ {g}
    /\ result' = pr
    /\ stage' = "Paused"
    /\ UNCHANGED <<closed, canceled, runs, op, origin>>

ProcessExit(g, pr) ==
    /\ g \in live
    /\ live' = live \ {g}
    /\ result' = pr
    /\ stage' = PausedUnlessStopped
    /\ UNCHANGED <<closed, canceled, runs, op, origin>>

(* Status(): a closed holder reports Stopped whatever its stage.          *)
StatusStage == IF closed THEN "Stopped" ELSE stage

Next ==
    \/ Start
    \/ PauseRelay
    \/ PauseDone
    \/ ResumeRelay
    \/ Close
    \/ CloseDone
    \/ StopRelay
    \/ Update
    \/ UpdateReload
    \/ \E g \in live, pr \in Results : pr \in ExitResults(g) /\ ProcessExit(g, pr)

(* A cancelled worker eventually returns (every blocking call of the pump *)
(* takes the context), and the control loop resumes once wg.Wait returns. *)
(* Operator calls and worker errors are not assumed to ever happen.       *)
Fairness ==
    /\ WF_vars(\E g \in live \cap canceled : ProcessExit(g, "canceled"))
    /\ WF_vars(PauseDone)
    /\ WF_vars(CloseDone)
    /\ WF_vars(UpdateReload)

Spec == Init /\ [][Next]_vars /\ Fairness

-----------------------------------------------------------------------------
(* H1: at most one Process worker is running, whatever the interleaving   *)
(* of Start, Pause, Resume, Update, Stop, Close and worker exits.         *)
SingleFlight == \A g1, g2 \in live : g1 = g2

(* Strengthening of SingleFlight: a holder that is New or Paused has no   *)
(* worker left, and the only live worker is the latest one.               *)
Quiescent ==
    /\ live \subseteq {runs}
    /\ stage \in {"New", "Paused"} => live = {}

(* An Update that paused a Running worker finds it Running or Paused:      *)
(* calls are serialised, so nothing but the worker's exit moves the stage. *)
UpdatePaused == (op = "updating" /\ origin = "Running") => stage \in {"Running", "Paused"}

IInv == TypeOK /\ Quiescent /\ UpdatePaused

(* Stopped is terminal: no exit of a worker cancelled by Stop, and no     *)
(* Close, may move the stage out of Stopped.                              *)
StoppedAbsorbing == [][stage = "Stopped" => stage' = "Stopped"]_vars

(* Every operator call that waits for the worker (Pause, Close, Stop,     *)
(* Update) eventually returns.                                            *)
CallsReturn == (op # "none") ~> (op = "none")

(* Once Stop has returned, every worker still running has been told to   *)
(* stop: Stop cancels the pump (spec.md 4.5).                             *)
StopCancelsPump == (op = "none" /\ stage = "Stopped") => live \subseteq canceled

=============================================================================
