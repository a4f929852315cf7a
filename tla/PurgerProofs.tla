---------------------------- MODULE PurgerProofs ----------------------------
(***************************************************************************)
(* Proofs about the purger for every number of callers, files and         *)
(* sub-directories: the single flight of Do, and that no file at or after *)
(* the active relay log is deleted while the pump stays in one            *)
(* sub-directory.  The second needs the arguments of every caller past    *)
(* Prepare to stay below the current hint (SafeArgs): the hint only moves *)
(* forward within the latest sub-directory, so a safe point clamped to an *)
(* older hint is still safe.  A switch of sub-directory breaks exactly    *)
(* that (MCPurgerSwitch.cfg).                                             *)
(***************************************************************************)
EXTENDS Purger, TLAPS

(* Type and single flight together are inductive.                         *)
FlightInv == TypeOK /\ PurgeSingleFlight

(* The hint and the pump are in the latest sub-directory, the hint at or  *)
(* before the pump's file.                                                *)
HintInLatest ==
    /\ active[1] = dirs
    /\ pumpFile[1] = dirs
    /\ active[2] <= pumpFile[2]

(* A prepared or purging caller deletes nothing at or after the hint.     *)
SafeArgs ==
    \A c \in Callers : cpc[c] # "idle" =>
        /\ args[c].uuids <= dirs
        /\ (args[c].uuids = dirs => args[c].safe[2] <= active[2])

RetainInv == FlightInv /\ HintInLatest /\ SafeArgs /\ ActiveRetained

-----------------------------------------------------------------------------
LEMMA InitFlight == Init => FlightInv
<1> SUFFICES ASSUME Init PROVE FlightInv
    OBVIOUS
<1>1. TypeOK
    <2>1. <<InitDirs, 1>> \in AllFiles
        BY DirsAssumption DEF AllFiles
    <2>2. QED
        BY <2>1, DirsAssumption DEF Init, TypeOK, AllFiles, Args, NoFile
<1>2. PurgeSingleFlight
    BY DEF Init, PurgeSingleFlight, Purging
<1>3. QED
    BY <1>1, <1>2 DEF FlightInv

(* The arguments SetActiveRelayLog builds from the current index and hint. *)
LEMMA SetActiveRelayLogType ==
    ASSUME TypeOK, NEW subDir, subDir \in 0..dirs, NEW filename \in 1..NFiles
    PROVE  SetActiveRelayLog(subDir, filename, dirs) \in Args
<1> DEFINE uuid == IF subDir = 0 /\ dirs > 0 THEN dirs ELSE subDir
<1>1. dirs \in 1..MaxDirs
    BY DirsAssumption DEF TypeOK
<1>2. uuid \in 1..MaxDirs
    <2>1. CASE subDir = 0
        <3>1. uuid = dirs
            BY <1>1, <2>1
        <3>2. QED
            BY <1>1, <3>1
    <2>2. CASE subDir # 0
        <3>1. uuid = subDir
            BY <2>2
        <3>2. subDir \in 1..MaxDirs
            BY <1>1, <2>2, DirsAssumption
        <3>3. QED
            BY <3>1, <3>2
    <2>3. QED
        BY <2>1, <2>2
<1>3. <<uuid, filename>> \in AllFiles
    BY <1>2 DEF AllFiles
<1>4. active \in AllFiles
    BY DEF TypeOK
<1>5. (IF dirs <= uuid THEN dirs ELSE uuid) \in 0..MaxDirs
    BY <1>1, <1>2
<1>6. QED
    BY <1>3, <1>4, <1>5 DEF SetActiveRelayLog, Args

LEMMA NextFlight == FlightInv /\ [Next]_vars => FlightInv'
<1> SUFFICES ASSUME FlightInv, [Next]_vars PROVE FlightInv'
    OBVIOUS
<1> USE DEF FlightInv
<1>1. CASE Rotate
    BY <1>1, DirsAssumption DEF Rotate, TypeOK, AllFiles, PurgeSingleFlight, Purging
<1>2. CASE Publish
    BY <1>2 DEF Publish, TypeOK, PurgeSingleFlight, Purging
<1>3. CASE SwitchDir
    BY <1>3, DirsAssumption DEF SwitchDir, TypeOK, AllFiles, PurgeSingleFlight, Purging
<1>4. ASSUME NEW c \in Callers, Prepare(c) PROVE FlightInv'
    <2>1. PICK subDir \in 0..dirs, filename \in 1..NFiles :
              args' = [args EXCEPT ![c] = SetActiveRelayLog(subDir, filename, dirs)]
        BY <1>4 DEF Prepare
    <2>2. SetActiveRelayLog(subDir, filename, dirs) \in Args
        BY SetActiveRelayLogType DEF TypeOK
    <2>3. TypeOK'
        BY <1>4, <2>1, <2>2 DEF Prepare, TypeOK
    <2>4. PurgeSingleFlight'
        BY <1>4 DEF Prepare, TypeOK, PurgeSingleFlight, Purging
    <2>5. QED
        BY <2>3, <2>4
<1>5. ASSUME NEW c \in Callers, Do(c) PROVE FlightInv'
    <2>1. CASE purging = 0
        <3>1. \A d \in Callers : cpc[d] # "doing"
            BY <2>1 DEF PurgeSingleFlight, Purging
        <3>2. QED
            BY <1>5, <2>1, <3>1 DEF Do, TypeOK, PurgeSingleFlight, Purging
    <2>2. CASE purging # 0
        BY <1>5, <2>2 DEF Do, TypeOK, PurgeSingleFlight, Purging
    <2>3. QED
        BY <2>1, <2>2
<1>6. ASSUME NEW c \in Callers, DeleteFile(c) PROVE FlightInv'
    BY <1>6 DEF DeleteFile, TypeOK, PurgeSingleFlight, Purging
<1>7. ASSUME NEW c \in Callers, DoReturn(c) PROVE FlightInv'
    <2>1. \A d \in Callers : d # c => cpc[d] # "doing"
        BY <1>7 DEF DoReturn, PurgeSingleFlight
    <2>2. QED
        BY <1>7, <2>1 DEF DoReturn, TypeOK, PurgeSingleFlight, Purging
<1>8. CASE UNCHANGED vars
    BY <1>8 DEF vars, TypeOK, PurgeSingleFlight, Purging
<1>9. QED
    BY <1>1, <1>2, <1>3, <1>4, <1>5, <1>6, <1>7, <1>8 DEF Next

(* At most one caller deletes files at a time and Purging() says whether  *)
(* one does, for every number of callers.                                 *)
THEOREM PurgeSingleFlightHolds == Spec => []PurgeSingleFlight
<1>1. Spec => []FlightInv
    BY InitFlight, NextFlight, PTL DEF Spec
<1>2. QED
    BY <1>1, PTL DEF FlightInv

(* Type correctness of the purger and the pump it races, for every       *)
(* number of callers, files and sub-directories.                          *)
THEOREM PurgerTypeOKHolds == Spec => []TypeOK
<1>1. Spec => []FlightInv
    BY InitFlight, NextFlight, PTL DEF Spec
<1>2. QED
    BY <1>1, PTL DEF FlightInv

-----------------------------------------------------------------------------
(* With the number of sub-directories fixed, the index never changes.      *)
LEMMA DirsFixed ==
    ASSUME MaxDirs = InitDirs, TypeOK
    PROVE  dirs = MaxDirs /\ ~SwitchDir
BY DirsAssumption DEF TypeOK, SwitchDir

LEMMA InitRetain == Init => RetainInv
<1> SUFFICES ASSUME Init PROVE RetainInv
    OBVIOUS
<1>1. FlightInv
    BY InitFlight
<1>2. HintInLatest
    BY DEF Init, HintInLatest
<1>3. SafeArgs
    BY DEF Init, SafeArgs
<1>4. ActiveRetained
    BY DEF Init, ActiveRetained
<1>5. QED
    BY <1>1, <1>2, <1>3, <1>4 DEF RetainInv

(* A file a caller may delete lies before the hint.                       *)
LEMMA DoomedEarlier ==
    ASSUME TypeOK, HintInLatest, SafeArgs, NEW c \in Callers, cpc[c] # "idle",
           NEW x \in Doomed(args[c])
    PROVE  Earlier(x, active)
<1>1. x \in AllFiles /\ active \in AllFiles /\ args[c] \in Args
    BY DEF Doomed, TypeOK
<1>2. args[c].uuids <= dirs /\ (args[c].uuids = dirs => args[c].safe[2] <= active[2])
    BY DEF SafeArgs
<1>3. dirs \in Nat /\ active[1] = dirs
    BY DirsAssumption DEF TypeOK, HintInLatest
<1>4. QED
    BY <1>1, <1>2, <1>3 DEF Doomed, Earlier, AllFiles, Args, NoFile

(* The arguments a caller prepares stay below the hint.                   *)
LEMMA PrepareSafe ==
    ASSUME TypeOK, HintInLatest, NEW subDir, subDir \in 0..dirs,
           NEW filename \in 1..NFiles
    PROVE  LET a == SetActiveRelayLog(subDir, filename, dirs)
           IN  /\ a.uuids <= dirs
               /\ a.uuids = dirs => a.safe[2] <= active[2]
<1> DEFINE uuid == IF subDir = 0 /\ dirs > 0 THEN dirs ELSE subDir
<1>1. dirs \in 1..MaxDirs /\ active \in AllFiles /\ active[1] = dirs
    BY DirsAssumption DEF TypeOK, HintInLatest
<1>2. uuid \in 1..dirs
    BY <1>1, DirsAssumption
<1>3. QED
    BY <1>1, <1>2, DirsAssumption DEF SetActiveRelayLog, Earlier, AllFiles

LEMMA NextRetain ==
    ASSUME MaxDirs = InitDirs
    PROVE  RetainInv /\ [Next]_vars => RetainInv'
<1> SUFFICES ASSUME RetainInv, [Next]_vars PROVE RetainInv'
    OBVIOUS
<1>0. FlightInv' /\ dirs = MaxDirs /\ ~SwitchDir
    BY NextFlight, DirsFixed DEF RetainInv, FlightInv
<1> USE DEF RetainInv
<1>1. CASE Rotate
    BY <1>0, <1>1, DirsAssumption
       DEF Rotate, TypeOK, FlightInv, HintInLatest, SafeArgs, ActiveRetained, AllFiles
<1>2. CASE Publish
    <2>1. ASSUME NEW x \in AllFiles, Earlier(x, active) PROVE Earlier(x, active')
        BY <1>2, <2>1, DirsAssumption DEF Publish, TypeOK, FlightInv, HintInLatest, Earlier, AllFiles
    <2>2. active[2] <= active'[2] /\ active' = pumpFile
        BY <1>2 DEF Publish, FlightInv, HintInLatest
    <2>3. HintInLatest'
        BY <1>2, <2>2, DirsAssumption DEF Publish, FlightInv, TypeOK, HintInLatest, AllFiles
    <2>4. SafeArgs'
        BY <1>2, <2>2, DirsAssumption DEF Publish, FlightInv, TypeOK, SafeArgs, Args, AllFiles, NoFile
    <2>5. ActiveRetained'
        <3>1. SUFFICES ASSUME NEW x \in created', ~Earlier(x, active') PROVE x \in exists'
            BY DEF ActiveRetained
        <3>2. x \in AllFiles /\ ~Earlier(x, active)
            BY <1>2, <2>1, <3>1 DEF Publish, FlightInv, TypeOK
        <3>3. QED
            BY <1>2, <3>1, <3>2 DEF Publish, ActiveRetained
    <2>6. QED
        BY <1>0, <2>3, <2>4, <2>5
<1>3. CASE SwitchDir
    BY <1>0, <1>3
<1>4. ASSUME NEW c \in Callers, Prepare(c) PROVE RetainInv'
    <2>1. PICK subDir \in 0..dirs, filename \in 1..NFiles :
              args' = [args EXCEPT ![c] = SetActiveRelayLog(subDir, filename, dirs)]
        BY <1>4 DEF Prepare
    <2>2. LET a == SetActiveRelayLog(subDir, filename, dirs)
          IN  /\ a.uuids <= dirs
              /\ a.uuids = dirs => a.safe[2] <= active[2]
        BY PrepareSafe DEF FlightInv
    <2>3. SafeArgs'
        BY <1>4, <2>1, <2>2 DEF Prepare, SafeArgs, FlightInv, TypeOK
    <2>4. QED
        BY <1>0, <1>4, <2>3 DEF Prepare, HintInLatest, ActiveRetained
<1>5. ASSUME NEW c \in Callers, Do(c) PROVE RetainInv'
    BY <1>0, <1>5 DEF Do, HintInLatest, SafeArgs, ActiveRetained, FlightInv, TypeOK
<1>6. ASSUME NEW c \in Callers, DeleteFile(c) PROVE RetainInv'
    <2>1. PICK x \in exists \cap Doomed(args[c]) : exists' = exists \ {x}
        BY <1>6 DEF DeleteFile
    <2>2. Earlier(x, active)
        BY <1>6, DoomedEarlier DEF DeleteFile, FlightInv
    <2>3. ActiveRetained'
        BY <1>6, <2>1, <2>2 DEF DeleteFile, ActiveRetained
    <2>4. QED
        BY <1>0, <1>6, <2>3 DEF DeleteFile, HintInLatest, SafeArgs
<1>7. ASSUME NEW c \in Callers, DoReturn(c) PROVE RetainInv'
    BY <1>0, <1>7 DEF DoReturn, HintInLatest, SafeArgs, ActiveRetained, FlightInv, TypeOK
<1>8. CASE UNCHANGED vars
    BY <1>0, <1>8 DEF vars, HintInLatest, SafeArgs, ActiveRetained
<1>9. QED
    BY <1>1, <1>2, <1>3, <1>4, <1>5, <1>6, <1>7, <1>8 DEF Next

(* Purger safety: while the pump stays in its sub-directory, no relay     *)
(* file at or after the active relay log is deleted, for every number of  *)
(* callers and files, whatever arguments the purges race the pump with.   *)
THEOREM ActiveRetainedHolds ==
    ASSUME MaxDirs = InitDirs
    PROVE  Spec => []ActiveRetained
<1>1. Spec => []RetainInv
    BY InitRetain, NextRetain, PTL DEF Spec
<1>2. QED
    BY <1>1, PTL DEF RetainInv

=============================================================================
