------------------------------ MODULE RelayPump ------------------------------
(***************************************************************************)
(* The relay event pump of one sub-directory (spec.md 4.1-4.3): the loop   *)
(* handleEvents that reads binlog events from the upstream, writes them to *)
(* the relay log file named by their position and saves the position and  *)
(* GTID set in the meta; the deferred meta flush; the exits of the pump on *)
(* a reader or writer error or a cancellation, and Resume; process crashes *)
(* at any point, a write torn by the crash, and tryRecoverLatestFile at    *)
(* restart.                                                                *)
(*                                                                         *)
(* The relay code is not under src/: the loop and the recovery are taken   *)
(* from spec.md and checked against TestHandleEvent, TestTryRecoverLatest- *)
(* File and TestTryRecoverMeta (src/unnamed/part_002), whose mockReader    *)
(* and mockWriter are the Reader and Writer of this model.                 *)
(*                                                                         *)
(* Data abstraction.  The upstream binlog is the constant sequence Stream  *)
(* of event kinds; event i sits in binlog file FileOf(i) (a Rotate event   *)
(* ends its file) at offset OffOf(i), counted in events; a Trx event (a    *)
(* Query or XID event carrying a GTID set) carries the GTIDs of every Trx  *)
(* event up to it, GTIDs being event numbers.  A relay file is the         *)
(* sequence of event numbers written to it, Torn standing for the bytes of *)
(* an event cut short by a crash.  Heartbeats, which the Transformer       *)
(* ignores without any state change, are left out.                         *)
(***************************************************************************)
EXTENDS Naturals, Sequences, FiniteSets, SequencesExt

CONSTANTS
    Stream,           \* the upstream binlog: a sequence of "Trx", "Other", "Rotate"
    MaxFaults,        \* bound on crashes plus exits of the pump
    IgnoreFakeRotate, \* whether the Transformer ignores the artificial Rotate
                      \* event the upstream sends first on every binlog dump
    PartialWrites     \* whether a failed WriteEvent may leave part of the
                      \* event in the file

Kinds == {"Trx", "Other", "Rotate"}

ASSUME StreamAssumption == Stream \in Seq(Kinds)
ASSUME MaxFaultsAssumption == MaxFaults \in Nat
ASSUME IgnoreFakeRotateAssumption == IgnoreFakeRotate \in BOOLEAN
ASSUME PartialWritesAssumption == PartialWrites \in BOOLEAN

VARIABLES
    files,      \* relay log file -> the events in it (disk content)
    pos,        \* meta position in memory: [file, off]
    gset,       \* meta GTID set in memory
    dirty,      \* meta.Dirty(): saved but not flushed
    dpos,       \* position in relay.meta on disk (binlog-name, binlog-pos)
    dgset,      \* GTID set in relay.meta on disk (binlog-gtid)
    next,       \* the reader's next upstream event
    pc,         \* "rotating" (dump started, its artificial Rotate pending),
                \* "running", "written" (event written, meta not yet saved),
                \* "stopped" (Process returned) or "crashed"
    faults      \* crashes and exits so far

vars == <<files, pos, gset, dirty, dpos, dgset, next, pc, faults>>

-----------------------------------------------------------------------------
(* Positions of the upstream events.                                      *)
Idx == 1..Len(Stream)
Torn == 0
FileOf(i) == 1 + Cardinality({j \in 1..(i - 1) : Stream[j] = "Rotate"})
Files == 1..(FileOf(Len(Stream) + 1))
Before(f) == Cardinality({j \in Idx : FileOf(j) < f})
OffOf(i) == i - Before(FileOf(i))
FileEvents(f) == [k \in 1..Cardinality({i \in Idx : FileOf(i) = f}) |-> Before(f) + k]
Positions == [file : Files, off : 0..Len(Stream)]

(* The upstream event that follows position p: where the reader resumes. *)
NextAfter(p) == Before(p.file) + p.off + 1

(* The GTID set a Trx event i carries, and previous_gtids of a file.      *)
GSetUpTo(n) == {j \in 1..n : Stream[j] = "Trx"}

(* The complete events at the head of a relay file: what the binlog       *)
(* parser reads before it meets an incomplete event.                      *)
CompletePrefix(s) ==
    LET torn == {k \in 1..Len(s) : s[k] = Torn}
    IN  IF torn = {} THEN s
        ELSE SubSeq(s, 1, (CHOOSE k \in torn : \A j \in torn : k <= j) - 1)

TypeOK ==
    /\ files \in [Files -> Seq(Idx \cup {Torn})]
    /\ pos \in Positions
    /\ gset \subseteq Idx
    /\ dirty \in BOOLEAN
    /\ dpos \in Positions
    /\ dgset \subseteq Idx
    /\ next \in 1..(Len(Stream) + 1)
    /\ pc \in {"rotating", "running", "written", "stopped", "crashed"}
    /\ faults \in 0..MaxFaults

(* A fresh sub-directory whose meta starts at the first binlog file.      *)
Init ==
    /\ files = [f \in Files |-> <<>>]
    /\ pos = [file |-> 1, off |-> 0]
    /\ gset = {}
    /\ dirty = FALSE
    /\ dpos = pos
    /\ dgset = gset
    /\ next = 1
    /\ pc = "rotating"
    /\ faults = 0

-----------------------------------------------------------------------------
(* The artificial Rotate event that opens a binlog dump names the position *)
(* the dump starts at.  The Writer does not write it; unless the           *)
(* Transformer ignores it, the pump handles it as a Rotate: the meta moves *)
(* to the named position and is saved and flushed at once.                *)
(* Bug variant: the artificial Rotate taken as a real one, moving the meta *)
(* to the start of the file it names.                                     *)
DumpPosFileStart == [file |-> FileOf(next), off |-> 0]

DumpPos == [file |-> FileOf(next), off |-> OffOf(next) - 1]

FakeRotate ==
    /\ pc = "rotating"
    /\ pc' = "running"
    /\ IF IgnoreFakeRotate
          THEN UNCHANGED <<pos, dirty, dpos, dgset>>
          ELSE /\ pos' = DumpPos
               /\ dpos' = DumpPos
               /\ dgset' = gset
               /\ dirty' = FALSE
    /\ UNCHANGED <<files, gset, next, faults>>

(* Writer.WriteEvent(ev): append the event to the relay file its position *)
(* names; an event already there is a duplicate and the Writer ignores it *)
(* (skip the meta update).                                                *)
Duplicate(i) ==
    /\ OffOf(i) <= Len(files[FileOf(i)])
    /\ files[FileOf(i)][OffOf(i)] = i

WriteEvent ==
    /\ pc = "running"
    /\ next \in Idx
    /\ IF Duplicate(next)
          THEN /\ next' = next + 1
               /\ UNCHANGED <<files, pc>>
          ELSE /\ files' = [files EXCEPT ![FileOf(next)] = Append(@, next)]
               /\ pc' = "written"
               /\ UNCHANGED next
    /\ UNCHANGED <<pos, gset, dirty, dpos, dgset, faults>>

(* Bug variant: the target counted past the first event of the new file.  *)
RotateTargetPastFirst(i) == [file |-> FileOf(i) + 1, off |-> 1]

(* The position a Rotate event i moves the meta to: the start of the      *)
(* next binlog file (offset 4, after the file header).                    *)
RotateTarget(i) == [file |-> FileOf(i) + 1, off |-> 0]

(* Bug variant: the saved position one event past the written one.       *)
EventPosPastEnd(i) == [file |-> FileOf(i), off |-> OffOf(i) + 1]

(* ev.Header.LogPos: the position right after event i in its file.       *)
EventPos(i) == [file |-> FileOf(i), off |-> OffOf(i)]

(* Meta update after a written event: a Rotate moves the position to the  *)
(* next file at offset 4 and is saved and flushed at once; a Trx event    *)
(* saves its position and GTID set; any other event saves its position.   *)
UpdateMeta ==
    /\ pc = "written"
    /\ LET i == next IN
       IF Stream[i] = "Rotate"
          THEN /\ pos' = RotateTarget(i)
               /\ dpos' = pos'
               /\ dgset' = gset
               /\ dirty' = FALSE
               /\ UNCHANGED gset
          ELSE /\ pos' = EventPos(i)
               /\ gset' = IF Stream[i] = "Trx" THEN GSetUpTo(i) ELSE gset
               /\ dirty' = TRUE
               /\ UNCHANGED <<dpos, dgset>>
    /\ next' = next + 1
    /\ pc' = "running"
    /\ UNCHANGED <<files, faults>>

(* meta.Flush(): the coalesced flush of the saved position and GTID set.  *)
FlushMeta ==
    /\ pc # "crashed"
    /\ dirty
    /\ dpos' = pos
    /\ dgset' = gset
    /\ dirty' = FALSE
    /\ UNCHANGED <<files, pos, gset, next, pc, faults>>

(* handleEvents returns: the context is cancelled, or GetEvent or         *)
(* WriteEvent failed; the pump flushes the meta on its way out.  A failed *)
(* write leaves nothing behind, or, with PartialWrites, the bytes of the  *)
(* event it cut short.                                                    *)
Exit ==
    /\ pc = "running"
    /\ faults < MaxFaults
    /\ faults' = faults + 1
    /\ pc' = "stopped"
    /\ dpos' = pos
    /\ dgset' = gset
    /\ dirty' = FALSE
    /\ \/ UNCHANGED files
       \/ /\ PartialWrites
          /\ next \in Idx
          /\ ~Duplicate(next)
          /\ files' = [files EXCEPT ![FileOf(next)] = Append(@, Torn)]
    /\ UNCHANGED <<pos, gset, next>>

(* Resume: Process runs again and the reader restarts at the meta         *)
(* position kept in memory.                                               *)
Resume ==
    /\ pc = "stopped"
    /\ next' = NextAfter(pos)
    /\ pc' = "rotating"
    /\ UNCHANGED <<files, pos, gset, dirty, dpos, dgset, faults>>

(* The process dies: everything in memory is lost.  A crash in the middle *)
(* of WriteEvent leaves the bytes of an incomplete event behind.          *)
Crash ==
    /\ pc # "crashed"
    /\ faults < MaxFaults
    /\ faults' = faults + 1
    /\ pc' = "crashed"
    /\ \/ UNCHANGED files
       \/ /\ pc = "running"
          /\ next \in Idx
          /\ ~Duplicate(next)
          /\ files' = [files EXCEPT ![FileOf(next)] = Append(@, Torn)]
    /\ UNCHANGED <<pos, gset, dirty, dpos, dgset, next>>

(* tryRecoverLatestFile over the meta loaded from disk: truncate the file *)
(* the meta names to its complete events, keep the persisted GTID set if  *)
(* it contains the one computed from the file, else take the computed     *)
(* one, and save and flush position and GTID set.                         *)
(* Bug variant: recovery that always trusts the persisted GTID set.        *)
RecoveredGSetKeep(f, good) == dgset

RecoveredGSet(f, good) ==
    LET computed == GSetUpTo(Before(f) + Len(good))
    IN  IF computed \subseteq dgset THEN dgset ELSE computed

(* Bug variant: recovery that keeps the incomplete bytes of the file.      *)
RestartNoTruncate ==
    /\ pc = "crashed"
    /\ LET f == dpos.file
           good == CompletePrefix(files[f])
       IN  /\ pos' = [file |-> f, off |-> Len(good)]
           /\ gset' = RecoveredGSet(f, good)
    /\ dpos' = pos'
    /\ dgset' = gset'
    /\ dirty' = FALSE
    /\ next' = NextAfter(pos')
    /\ pc' = "rotating"
    /\ UNCHANGED <<files, faults>>

Restart ==
    /\ pc = "crashed"
    /\ LET f == dpos.file
           good == CompletePrefix(files[f])
       IN  /\ files' = [files EXCEPT ![f] = good]
           /\ pos' = [file |-> f, off |-> Len(good)]
           /\ gset' = RecoveredGSet(f, good)
    /\ dpos' = pos'
    /\ dgset' = gset'
    /\ dirty' = FALSE
    /\ next' = NextAfter(pos')
    /\ pc' = "rotating"
    /\ UNCHANGED faults

Next ==
    \/ FakeRotate
    \/ WriteEvent
    \/ UpdateMeta
    \/ FlushMeta
    \/ Exit
    \/ Resume
    \/ Crash
    \/ Restart

(* The pump keeps handling events while it runs and a crashed process is  *)
(* restarted; the supervisor resumes a pump that returned.                *)
Fairness ==
    /\ WF_vars(FakeRotate)
    /\ WF_vars(WriteEvent)
    /\ WF_vars(UpdateMeta)
    /\ WF_vars(Resume)
    /\ WF_vars(Restart)

Spec == Init /\ [][Next]_vars /\ Fairness

-----------------------------------------------------------------------------
(* Across crashes, torn writes, exits and restarts, every relay file      *)
(* holds a prefix of its upstream binlog file, with no gap, no duplicate  *)
(* and no foreign event, and a file is complete before the next one gets  *)
(* an event; only a crashed process may leave incomplete bytes at the end *)
(* of a file, and the restart removes them.                               *)
RelayIsStreamPrefix ==
    /\ \A f \in Files :
          /\ IsPrefix(CompletePrefix(files[f]), FileEvents(f))
          /\ files[f] # CompletePrefix(files[f]) =>
                /\ pc = "crashed"
                /\ files[f] = CompletePrefix(files[f]) \o <<Torn>>
    /\ \A f, g \in Files :
          (f < g /\ files[g] # <<>>) => files[f] = FileEvents(f)

(* The meta on disk never runs ahead of the relay log, and its GTID set   *)
(* is exactly the GTIDs up to its position: a restart from it neither     *)
(* skips nor claims a transaction.                                        *)
MetaDescribesRelay ==
    /\ dpos.off <= Len(CompletePrefix(files[dpos.file]))
    /\ dgset = GSetUpTo(Before(dpos.file) + dpos.off)

(* Every relay file reads to its end: incomplete bytes, if any, are its   *)
(* last event, which recovery cuts; no complete event ever follows them,  *)
(* where the binlog parser of a reader would stop and lose it.            *)
RelayParsable ==
    \A f \in Files : files[f] \in {CompletePrefix(files[f]),
                                   CompletePrefix(files[f]) \o <<Torn>>}

(* Meta monotonicity (spec.md 8.3): the flushed position never moves back, *)
(* whether flushed by a rotate, the deferred flush, an exit or a recovery. *)
PosLeq(p, q) == p.file < q.file \/ (p.file = q.file /\ p.off <= q.off)

MetaMonotonic == [][PosLeq(dpos, dpos')]_vars

(* The relay log as a reader sees it: the complete events of the files in *)
(* file order; and the flushed meta position counted in upstream events.  *)
RelayedLog == FlattenSeq([f \in Files |-> CompletePrefix(files[f])])
FlushedCount == Before(dpos.file) + dpos.off

Abstract == INSTANCE RelayLog WITH N <- Len(Stream), log <- RelayedLog, acked <- FlushedCount

(* The pump implements the abstract relay log: under every crash, torn    *)
(* write, exit, resume and recovery, each step appends the next upstream  *)
(* event to what a reader sees, or moves the flushed meta forward within  *)
(* it, or changes neither; and the whole binlog is eventually relayed.    *)
RefinesRelayLog == Abstract!Spec

(* Whatever crashes and exits happen, the relay log eventually holds the  *)
(* whole upstream binlog.                                                 *)
AllRelayed == <>[](\A f \in Files : files[f] = FileEvents(f))

=============================================================================
