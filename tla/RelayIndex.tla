----------------------------- MODULE RelayIndex -----------------------------
(***************************************************************************)
(* The UUID-suffixed sub-directory index of the relay (spec.md 3, 4.1) as  *)
(* reSetupMeta drives it when the relay connects to its upstream: every    *)
(* connection adds a sub-directory (Meta.AddDir) and the meta of the first *)
(* one starts at the configured position; an operator override            *)
(* cfg.UUIDSuffix, set when the source is bound to the worker, purges the  *)
(* relay directory and restarts the index at that suffix, and is cleared  *)
(* once used.  The behaviour is the one TestReSetupMeta                    *)
(* (src/unnamed/part_002) checks.  A sub-directory is its suffix; the      *)
(* upstream UUID, the same on every connection of the test, is left out.  *)
(***************************************************************************)
EXTENDS Naturals, Sequences, SequencesExt

CONSTANTS
    MaxSuffix,   \* bound on the suffixes the index reaches
    MaxSetups    \* bound on the reSetupMeta calls (reconnections)

ASSUME BoundsAssumption == MaxSuffix \in Nat \ {0} /\ MaxSetups \in Nat

VARIABLES
    index,      \* server-uuid.index: the suffixes it lists, in order
    onDisk,     \* sub-directories present in the relay directory
    pos,        \* meta position of the current sub-directory:
                \* "start" (cfg.BinLogName, 4) or "min" (minCheckpoint)
    cfgSuffix,  \* cfg.UUIDSuffix, 0 when no override is pending
    history     \* every sub-directory ever added, in creation order

vars == <<index, onDisk, pos, cfgSuffix, history>>

DirSuffixes == 1..MaxSuffix

TypeOK ==
    /\ index \in Seq(DirSuffixes)
    /\ onDisk \subseteq DirSuffixes
    /\ pos \in {"start", "min"}
    /\ cfgSuffix \in 0..MaxSuffix
    /\ history \in Seq(DirSuffixes)
    /\ Len(history) <= MaxSetups

(* An empty relay directory: Meta.Load finds no index.                    *)
Init ==
    /\ index = <<>>
    /\ onDisk = {}
    /\ pos = "min"
    /\ cfgSuffix = 0
    /\ history = <<>>

(* The worker is bound to the source with a recorded sub-directory suffix. *)
Bind(s) ==
    /\ cfgSuffix' = s
    /\ UNCHANGED <<index, onDisk, pos, history>>

(* Meta.AddDir(uuid, pos, gset, suffix): suffix 0 means the last suffix   *)
(* plus one, or 1 for an empty index.                                     *)
NewSuffix(idx, suffix) ==
    IF suffix > 0 THEN suffix
    ELSE IF idx = <<>> THEN 1 ELSE Last(idx) + 1

(* Bug variant: the override restarts the index but leaves the old       *)
(* sub-directories in the relay directory (no PurgeRelayDir).            *)
ReSetupMetaNoPurge ==
    LET base == IF cfgSuffix > 0 THEN <<>> ELSE index
        s == NewSuffix(base, cfgSuffix)
    IN  /\ Len(history) < MaxSetups
        /\ s <= MaxSuffix
        /\ index' = Append(base, s)
        /\ onDisk' = onDisk \cup {s}
        /\ pos' = IF Len(index') = 1 THEN "start" ELSE "min"
        /\ cfgSuffix' = 0
        /\ history' = Append(history, s)

(* reSetupMeta: with an override, PurgeRelayDir and ResetMeta first; then *)
(* AddDir, and AdjustWithStartPos, which puts the configured start        *)
(* position in the meta only of a fresh index's single sub-directory;     *)
(* the override is cleared on the way out.                                *)
ReSetupMeta ==
    LET base == IF cfgSuffix > 0 THEN <<>> ELSE index
        kept == IF cfgSuffix > 0 THEN {} ELSE onDisk
        s == NewSuffix(base, cfgSuffix)
    IN  /\ Len(history) < MaxSetups
        /\ s <= MaxSuffix
        /\ index' = Append(base, s)
        /\ onDisk' = kept \cup {s}
        /\ pos' = IF Len(index') = 1 THEN "start" ELSE "min"
        /\ cfgSuffix' = 0
        /\ history' = Append(history, s)

Next ==
    \/ \E s \in DirSuffixes : Bind(s)
    \/ ReSetupMeta

Spec == Init /\ [][Next]_vars

-----------------------------------------------------------------------------
(* Index invariants I1-I3 with the directory: suffixes strictly increase  *)
(* along the index (so no sub-directory is listed twice), and the relay    *)
(* directory holds exactly the sub-directories the index lists, so that a *)
(* reader following the index neither misses one nor finds a stray one,  *)
(* across any interleaving of bindings and reconnections.                  *)
IndexMatchesDisk ==
    /\ \A i, j \in 1..Len(index) : i < j => index[i] < index[j]
    /\ onDisk = ToSet(index)

(* Index append-only (spec.md 8.4): every sub-directory that ever existed *)
(* still appears in the index, in creation order.                         *)
IndexAppendOnly == index = history

=============================================================================
