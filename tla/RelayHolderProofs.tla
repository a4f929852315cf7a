-------------------------- MODULE RelayHolderProofs --------------------------
(***************************************************************************)
(* Proofs about the relay holder for every value of MaxRuns: the type      *)
(* invariant, single flight of the Process worker (H1) and that Stopped is *)
(* terminal.  SingleFlight is not inductive by itself: Resume spawns a     *)
(* worker from Paused, so the proof needs that a Paused (or New) holder    *)
(* has no worker left, and that the only live worker is the latest one     *)
(* (Quiescent).                                                            *)
(***************************************************************************)
EXTENDS RelayHolder, TLAPS

(* Quiescent holds initially.                                             *)
LEMMA InitIInv == Init => IInv
<1> SUFFICES ASSUME Init PROVE IInv
    OBVIOUS
<1>1. TypeOK
    <2>1. runs \in 0..MaxRuns
        BY MaxRunsAssumption DEF Init
    <2>2. QED
        BY <2>1 DEF Init, TypeOK, Gens, Stages, Results, Ops
<1>2. Quiescent /\ UpdatePaused
    BY DEF Init, Quiescent, UpdatePaused
<1>3. QED
    BY <1>1, <1>2 DEF IInv

(* Spawn, from a state without worker, keeps IInv's worker conjuncts.     *)
LEMMA SpawnKeepsQuiescent ==
    ASSUME TypeOK, live = {}, Spawn
    PROVE  /\ live' \subseteq {runs'}
           /\ live' \subseteq Gens
           /\ runs' \in 0..MaxRuns
           /\ stage' = "Running"
           /\ result' \in Results
BY MaxRunsAssumption DEF Spawn, TypeOK, Gens, Results

(* Cancel keeps canceled a set of generations.                            *)
LEMMA CancelType ==
    ASSUME TypeOK, Cancel
    PROVE  canceled' \subseteq Gens
BY DEF Cancel, TypeOK

(* IInv is inductive: one step per action of Next.                        *)
LEMMA NextIInv == IInv /\ [Next]_vars => IInv'
<1> SUFFICES ASSUME IInv, [Next]_vars PROVE IInv'
    OBVIOUS
<1> USE DEF IInv
<1>1. CASE Start
    BY <1>1, SpawnKeepsQuiescent DEF Start, TypeOK, Quiescent, Stages, UpdatePaused
<1>2. CASE PauseRelay
    BY <1>2, CancelType DEF PauseRelay, TypeOK, Quiescent, Ops, UpdatePaused
<1>3. CASE PauseDone
    BY <1>3 DEF PauseDone, TypeOK, Quiescent, Ops, UpdatePaused
<1>4. CASE ResumeRelay
    BY <1>4, SpawnKeepsQuiescent DEF ResumeRelay, TypeOK, Quiescent, Stages, UpdatePaused
<1>5. CASE Close
    BY <1>5, CancelType DEF Close, TypeOK, Quiescent, Ops, UpdatePaused
<1>6. CASE CloseDone
    BY <1>6 DEF CloseDone, TypeOK, Quiescent, Ops, Stages, PausedUnlessStopped,
                UpdatePaused
<1>7. CASE StopRelay
    <2>1. TypeOK'
        <3>1. CASE closed
            BY <1>7, <3>1 DEF StopRelay, TypeOK, Stages
        <3>2. CASE ~closed
            BY <1>7, <3>2, CancelType DEF StopRelay, TypeOK, Stages, Ops
        <3>3. QED
            BY <3>1, <3>2
    <2>2. Quiescent' /\ UpdatePaused'
        BY <1>7 DEF StopRelay, Quiescent, UpdatePaused
    <2>3. QED
        BY <2>1, <2>2
<1>8. CASE Update
    <2>1. TypeOK'
        BY <1>8, CancelType DEF Update, TypeOK, Ops
    <2>2. Quiescent' /\ UpdatePaused'
        BY <1>8 DEF Update, Quiescent, UpdatePaused
    <2>3. QED
        BY <2>1, <2>2
<1>9. CASE UpdateReload
    <2>1. CASE UNCHANGED <<stage, result, live, runs>>
        BY <1>9, <2>1 DEF UpdateReload, TypeOK, Quiescent, Ops, UpdatePaused
    <2>2. CASE origin = "Running" /\ Spawn
        <3>1. live = {}
            BY <1>9, <2>2 DEF UpdateReload
        <3>2. QED
            BY <1>9, <2>2, <3>1, SpawnKeepsQuiescent
               DEF UpdateReload, TypeOK, Quiescent, Ops, Stages, UpdatePaused
    <2>3. QED
        BY <1>9, <2>1, <2>2 DEF UpdateReload
<1>10. ASSUME NEW g \in live, NEW pr \in Results,
              pr \in ExitResults(g), ProcessExit(g, pr)
       PROVE  IInv'
    <2>1. live = {g} /\ live' = {}
        BY <1>10 DEF ProcessExit, Quiescent
    <2>2. TypeOK' /\ Quiescent'
        BY <1>10, <2>1 DEF ProcessExit, TypeOK, Quiescent, Stages,
                          PausedUnlessStopped
    <2>3. UpdatePaused'
        BY <1>10 DEF ProcessExit, UpdatePaused, PausedUnlessStopped
    <2>4. QED
        BY <2>2, <2>3
<1>11. CASE UNCHANGED vars
    BY <1>11 DEF vars, TypeOK, Quiescent, UpdatePaused
<1>12. QED
    BY <1>1, <1>2, <1>3, <1>4, <1>5, <1>6, <1>7, <1>8, <1>9, <1>10, <1>11
       DEF Next

(* The type invariant and its strengthening hold in every reachable state. *)
THEOREM IInvHolds == Spec => []IInv
BY InitIInv, NextIInv, PTL DEF Spec

(* Type correctness of the holder: stage, workers, results and the call   *)
(* in flight keep their types under every interleaving of operator calls  *)
(* and worker exits, for every bound on the spawns.                       *)
THEOREM TypeOKHolds == Spec => []TypeOK
<1>1. IInv => TypeOK
    BY DEF IInv
<1>2. QED
    BY IInvHolds, <1>1, PTL

(* H1: at most one Process worker runs, for every bound on the spawns.    *)
THEOREM SingleFlightHolds == Spec => []SingleFlight
<1>1. IInv => SingleFlight
    BY DEF IInv, Quiescent, SingleFlight
<1>2. QED
    BY IInvHolds, <1>1, PTL

(* No step leaves Stopped: the worker wrapper and Close keep it.          *)
LEMMA NextKeepsStopped ==
    IInv /\ [Next]_vars => (stage = "Stopped" => stage' = "Stopped")
<1> SUFFICES ASSUME IInv, [Next]_vars, stage = "Stopped" PROVE stage' = "Stopped"
    OBVIOUS
<1>1. ASSUME NEW g \in live, NEW pr \in Results, ProcessExit(g, pr)
      PROVE  stage' = "Stopped"
    BY <1>1 DEF ProcessExit, PausedUnlessStopped
<1>2. CASE UpdateReload
    <2>1. origin # "Running"
        BY <1>2 DEF UpdateReload, IInv, UpdatePaused
    <2>2. QED
        BY <1>2, <2>1 DEF UpdateReload
<1>3. QED
    BY <1>1, <1>2 DEF Next, vars, Start, PauseRelay, PauseDone, ResumeRelay,
                      Close, CloseDone, StopRelay, Update, PausedUnlessStopped

(* Stopped is terminal in every behaviour of the holder.                  *)
THEOREM StoppedAbsorbingHolds == Spec => StoppedAbsorbing
BY IInvHolds, NextKeepsStopped, PTL DEF Spec, StoppedAbsorbing
=============================================================================
