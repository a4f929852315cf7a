------------------------------- MODULE Purger -------------------------------
(***************************************************************************)
(* The relay purger's filename strategy (src/unnamed/part_001, spec.md     *)
(* 4.4) racing the event pump.  Purge callers build filenameArgs from the  *)
(* sub-directory index and a requested (subDir, filename), take the        *)
(* active-relay-log hint through SetActiveRelayLog, and run Do: the        *)
(* single-flight CAS on `purging', the file deletions of                   *)
(* purgeRelayFilesBeforeFile, one file per step, and the deferred reset.   *)
(* Meanwhile the pump rotates to new relay files, switches to a new        *)
(* sub-directory, and publishes the active relay log after it writes.      *)
(*                                                                         *)
(* Data abstraction.  A relay file is <<d, f>>: its sub-directory's UUID   *)
(* suffix d (the index lists suffixes 1..dirs in order) and its filename's *)
(* sequence number f, so that filename order is number order.  A          *)
(* requested subDir of 0 stands for the empty string (latest sub-dir).    *)
(***************************************************************************)
EXTENDS Naturals, FiniteSets

CONSTANTS
    Callers,    \* concurrent purge callers (model values)
    NFiles,     \* relay files per sub-directory
    InitDirs,   \* sub-directories in the index at start
    MaxDirs     \* bound on the sub-directories the pump may switch to

ASSUME DirsAssumption ==
    /\ NFiles \in Nat \ {0}
    /\ InitDirs \in Nat \ {0}
    /\ MaxDirs \in Nat /\ InitDirs <= MaxDirs

VARIABLES
    exists,     \* relay files on disk
    dirs,       \* sub-directories in the index: suffixes 1..dirs
    pumpFile,   \* the relay file the pump writes to
    active,     \* the active relay log hint the pump last published
    purging,    \* filenameStrategy.purging, 0 or 1
    cpc,        \* caller -> "idle", "prepared" (args set) or "doing" (in Do)
    args,       \* caller -> its filenameArgs: [uuids, safe]
    created     \* history: every relay file the writer has created

vars == <<exists, dirs, pumpFile, active, purging, cpc, args, created>>

AllFiles == (1..MaxDirs) \X (1..NFiles)
NoFile == <<0, 0>>
Args == [uuids : 0..MaxDirs, safe : AllFiles \cup {NoFile}]

(* RelayLogInfo.Earlier: first by UUID suffix, then by filename.          *)
Earlier(a, b) == a[1] < b[1] \/ (a[1] = b[1] /\ a[2] < b[2])

TypeOK ==
    /\ exists \subseteq AllFiles
    /\ dirs \in InitDirs..MaxDirs
    /\ pumpFile \in AllFiles
    /\ active \in AllFiles
    /\ purging \in {0, 1}
    /\ cpc \in [Callers -> {"idle", "prepared", "doing"}]
    /\ args \in [Callers -> Args]
    /\ created \subseteq AllFiles

(* Files of every sub-directory before the latest are complete; the pump  *)
(* writes the first file of the latest one and has published it.         *)
Init ==
    /\ exists = {x \in AllFiles : x[1] < InitDirs} \cup {<<InitDirs, 1>>}
    /\ dirs = InitDirs
    /\ pumpFile = <<InitDirs, 1>>
    /\ active = pumpFile
    /\ purging = 0
    /\ cpc = [c \in Callers |-> "idle"]
    /\ args = [c \in Callers |-> [uuids |-> 0, safe |-> NoFile]]
    /\ created = exists

-----------------------------------------------------------------------------
(* The pump.  A Rotate event creates the next relay file; after a write   *)
(* the pump publishes the file as the active relay log; on a new upstream *)
(* server it adds a sub-directory to the index and writes there.          *)
Rotate ==
    /\ pumpFile[2] < NFiles
    /\ pumpFile' = <<pumpFile[1], pumpFile[2] + 1>>
    /\ exists' = exists \cup {pumpFile'}
    /\ created' = created \cup {pumpFile'}
    /\ UNCHANGED <<dirs, active, purging, cpc, args>>

Publish ==
    /\ active # pumpFile
    /\ active' = pumpFile
    /\ UNCHANGED <<exists, dirs, pumpFile, purging, cpc, args, created>>

SwitchDir ==
    /\ dirs < MaxDirs
    /\ dirs' = dirs + 1
    /\ pumpFile' = <<dirs + 1, 1>>
    /\ exists' = exists \cup {pumpFile'}
    /\ created' = created \cup {pumpFile'}
    /\ UNCHANGED <<active, purging, cpc, args>>

-----------------------------------------------------------------------------
(* Bug variant: the safe point not clamped to the active relay log.       *)
SetActiveRelayLogNoActive(subDir, filename, uuids) ==
    LET uuid == IF subDir = 0 /\ uuids > 0 THEN uuids ELSE subDir
    IN  [uuids |-> IF uuids <= uuid THEN uuids ELSE uuid,
         safe |-> <<uuid, filename>>]

(* filenameArgs.SetActiveRelayLog: the sub-dir defaults to the latest of  *)
(* uuids; the safe point is the requested file, or the active relay log   *)
(* if that is earlier; sub-dirs with a suffix above the requested one's   *)
(* are discarded.                                                         *)
SetActiveRelayLog(subDir, filename, uuids) ==
    LET uuid == IF subDir = 0 /\ uuids > 0 THEN uuids ELSE subDir
        endSuffix == uuid
        requested == <<uuid, filename>>
        safe == IF Earlier(active, requested) THEN active ELSE requested
    IN  [uuids |-> IF uuids <= endSuffix THEN uuids ELSE endSuffix,
         safe |-> safe]

(* A caller reads the index and the hint and prepares its arguments.     *)
Prepare(c) ==
    /\ cpc[c] = "idle"
    /\ \E subDir \in 0..dirs, filename \in 1..NFiles :
          args' = [args EXCEPT ![c] = SetActiveRelayLog(subDir, filename, dirs)]
    /\ cpc' = [cpc EXCEPT ![c] = "prepared"]
    /\ UNCHANGED <<exists, dirs, pumpFile, active, purging, created>>

(* Bug variant: Do that sets the flag without comparing it first.        *)
DoNoCAS(c) ==
    /\ cpc[c] = "prepared"
    /\ purging' = 1
    /\ cpc' = [cpc EXCEPT ![c] = "doing"]
    /\ UNCHANGED <<exists, dirs, pumpFile, active, args, created>>

(* Do: the CAS on purging; a caller that loses it gets ErrSelfPurging.    *)
Do(c) ==
    /\ cpc[c] = "prepared"
    /\ IF purging = 0
          THEN /\ purging' = 1
               /\ cpc' = [cpc EXCEPT ![c] = "doing"]
          ELSE /\ cpc' = [cpc EXCEPT ![c] = "idle"]
               /\ UNCHANGED purging
    /\ UNCHANGED <<exists, dirs, pumpFile, active, args, created>>

(* purgeRelayFilesBeforeFile(uuids, safe): every file of uuids[0..n-2],   *)
(* and the files of uuids[n-1] named before safe's filename.              *)
Doomed(a) ==
    {x \in AllFiles : x[1] < a.uuids \/ (x[1] = a.uuids /\ x[2] < a.safe[2])}

DeleteFile(c) ==
    /\ cpc[c] = "doing"
    /\ \E x \in exists \cap Doomed(args[c]) : exists' = exists \ {x}
    /\ UNCHANGED <<dirs, pumpFile, active, purging, cpc, args, created>>

(* Do returns, all files deleted or on the first error; the deferred      *)
(* purging.Set(0) runs either way.                                        *)
DoReturn(c) ==
    /\ cpc[c] = "doing"
    /\ purging' = 0
    /\ cpc' = [cpc EXCEPT ![c] = "idle"]
    /\ UNCHANGED <<exists, dirs, pumpFile, active, args, created>>

(* filenameStrategy.Purging().                                            *)
Purging == purging > 0

Next ==
    \/ Rotate
    \/ Publish
    \/ SwitchDir
    \/ \E c \in Callers : Prepare(c) \/ Do(c) \/ DeleteFile(c) \/ DoReturn(c)

Spec == Init /\ [][Next]_vars

-----------------------------------------------------------------------------
(* Purger safety (spec.md 8.6): no relay file at or after the active     *)
(* relay log is ever deleted, whatever purges with what arguments race   *)
(* the pump's rotations and publications.                                 *)
ActiveRetained == \A x \in created : ~Earlier(x, active) => x \in exists

(* Single flight: at most one Do deletes files at a time, and Purging()   *)
(* reports exactly whether one does.                                      *)
PurgeSingleFlight ==
    /\ \A a, b \in Callers : cpc[a] = "doing" /\ cpc[b] = "doing" => a = b
    /\ Purging <=> \E c \in Callers : cpc[c] = "doing"

=============================================================================
