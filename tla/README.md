# TLA+ models of the DM relay

This directory holds TLA+ models of the relay subsystem of DM (`spec.md`): the
relay holder, the event pump with its meta store and crash recovery, the
filename purge strategy, and the sub-directory index, and of the `main` of the
dm-portal web tool. Alongside them are the TLC configurations that check the
models on small instances, and the TLAPS proofs about the holder, the pump and its refinement of the abstract relay log, the purger,
the index and the portal. `PROJECT.json` lists the same material in machine-readable form. It
has the components, the runs, the mutants, the map from each definition to the
source lines it models, the findings, the hazards and the theorems.

## The system and its parts

The repository's `src/` holds these files:

| file | what it is |
|---|---|
| `src/unnamed/part_001` | the purger's filename strategy: `filenameArgs.SetActiveRelayLog`, `filenameStrategy.Do`, `Check`, `Purging` |
| `src/dm/worker/relay_test.go` | the relay holder's test. Its `DummyRelay` is a Process that blocks until its context is cancelled and then returns an injected `ProcessResult`. The test drives Start, Pause, Resume, Update, Close and Stop. |
| `src/unnamed/part_002` | the relay's tests. They contain a mock Reader and a mock Writer, the recovery tests (`TestTryRecoverLatestFile`, `TestTryRecoverMeta`), `TestHandleEvent` for the pump and `TestReSetupMeta` for the index. |
| `src/unnamed/part_000` | dmctl `operateTask`: one RPC to the master |
| `src/cmd/dm-portal/main.go` | the portal's `main`: config parsing and validation, the embedded static files, the HTTP routes and the server |

The relay's production code other than the purger strategy is not under `src/`.
That covers the holder, `handleEvents`, `tryRecoverLatestFile`, `reSetupMeta`
and `purgeRelayFilesBeforeFile`. These are modelled from `spec.md` and from
what the tests above require of them. `PROJECT.json` marks every definition
taken from the spec alone as `spec_modelled`.

The parts interact as follows:

- The **holder** supervises the **pump**, a Process run in a worker goroutine.
  Pause, Close and Stop cancel the worker's context. The worker wrapper records
  its result and the stage.
- The **pump** reads upstream events and writes them to the relay file named by
  their position. It saves the position and GTID set in the **meta**. The
  flush is deferred, except after a Rotate event, which is flushed at once.
- At start, **recovery** truncates the latest relay file to its complete events
  and realigns the meta.
- The pump publishes the **active relay log**. The **purger** reads it to avoid
  deleting what is still being written or read.
- On each connection to the upstream, `reSetupMeta` adds a sub-directory to
  the **index**. An operator-set `UUIDSuffix` purges the relay directory and
  restarts the index.
- The **portal** is a separate program. Its `main` starts an HTTP server whose
  handlers (package `portal`, not in the repository) help a user write a task
  configuration. It shares no state with the relay.

## Modules

| module | models | state | actions |
|---|---|---|---|
| `RelayHolder` | holder (spec 4.5, `relay_test.go`) | `stage`, `closed`, `result`, live and cancelled worker generations, `runs`, the operator call in flight `op`, Update's `origin` | `Start`, `PauseRelay`/`PauseDone`, `ResumeRelay`, `Close`/`CloseDone`, `StopRelay`, `Update`/`UpdateReload`, `ProcessExit` |
| `RelayPump` | pump, meta and recovery (spec 4.1-4.3, `part_002`) | relay files, meta in memory (`pos`, `gset`, `dirty`), meta on disk (`dpos`, `dgset`), the reader's next event, `pc`, `faults` | `FakeRotate`, `WriteEvent`, `UpdateMeta`, `FlushMeta`, `Exit`, `Resume`, `Crash`, `Restart` |
| `Purger` | filename strategy (`part_001`, spec 4.4) racing the pump | files on disk, index length, the pump's file, the active hint, `purging`, per-caller phase and `filenameArgs`, history of created files | `Prepare` (which calls `SetActiveRelayLog`), `Do`, `DeleteFile`, `DoReturn`, and on the pump side `Rotate`, `Publish`, `SwitchDir` |
| `RelayIndex` | `reSetupMeta` and `AddDir` (`TestReSetupMeta`) | index, sub-directories on disk, the meta's start position, `cfg.UUIDSuffix`, history | `Bind`, `ReSetupMeta` |
| `RelayLog` | what the pump promises (abstract) | the relayed events `log`, the flushed mark `acked` | `AppendEvent`, `Acknowledge` |
| `PortalMain` | dm-portal `main` (`main.go`) | `pc` (the step of main), `cfg`, `mux` (DefaultServeMux), per-connection request and response | `Parse`, `Validate`, `OpenStatik`, `Register`, `Listen`, `Accept`, `Respond`, `Finish`, `ServeFail` |
| `RelayHolderProofs` | TLAPS proofs about `RelayHolder` | | |
| `PurgerProofs` | TLAPS proofs about `Purger` | | |
| `RelayIndexProofs` | TLAPS proofs about `RelayIndex` | | |
| `PortalMainProofs` | TLAPS proofs about `PortalMain` | | |
| `RelayPumpProofs` | TLAPS proofs about `RelayPump` | | |
| `RelayPumpRefinement` | TLAPS proof that `RelayPump` implements the safety part of `RelayLog` | | |

The `MC*.tla` modules fix constants for TLC.

### How the holder model corresponds to the code

The holder's operations come from one control loop and are serialised by the
holder mutex. A call that waits for the worker to exit (`wg.Wait`) is split in
two: the step that cancels the worker (`PauseRelay`, `Close`, `StopRelay`,
`Update`), and the step that returns once no worker is live (`PauseDone`,
`CloseDone`, `UpdateReload`). The `op` variable blocks other calls in between.

Each worker is a generation number. `ProcessExit` is the worker wrapper: it
records the result and sets the stage to Paused unless it is Stopped. A
cancelled worker may return "canceled" or "failed". Any worker may fail on its
own with a reader or writer error, which the `DummyRelay` of the test never
does but the real Process does.

`Close` is idempotent through `closed`. `StopRelay` sets Stopped and `closed`,
then runs Close's body, which returns at once if `closed` was already set.

### How the pump model corresponds to the code

The upstream binlog is a constant sequence of event kinds. Event `i` lies in
binlog file `FileOf(i)`, because a Rotate ends its file. A Trx event carries
the GTIDs of all Trx events up to it. A relay file is the sequence of event
numbers written to it, and `Torn` (0) stands for a crash-torn event.

`WriteEvent` and `UpdateMeta` are the two halves of one iteration of
`handleEvents`. The Writer ignores a duplicate. A Rotate moves the meta to the
next file and flushes it; a Trx event saves its position and GTID set; any
other event saves its position. `FlushMeta` is the coalesced flush, and `Exit`
is a return of `handleEvents` on cancellation or error, which flushes on the way
out. With the constant `PartialWrites`, a failed write may leave the bytes of
the event it cut short. The mock Writer of `TestHandleEvent` fails without
writing, and that is the `FALSE` case.

The reader resumes right after the last written event, as in position mode.
No event is re-sent, so the Writer's duplicate branch is never taken.
Re-sends come from the Reader's GTID-mode positioning, which is outside the
repository.

`Crash` loses memory and may tear the event being written. `Restart` is
`tryRecoverLatestFile` on the meta's file: truncate, keep the persisted GTID
set only if it contains the computed one, save and flush.

Every binlog dump, the first and every one after `Resume` or `Restart`, opens
with the upstream's artificial Rotate event naming the start position. The
constant `IgnoreFakeRotate` says whether the Transformer drops it, or the pump
handles it like any Rotate (move the meta to that position, flush).

The pump implements the abstract `RelayLog`. `RelayedLog`, the refinement
mapping of `log`, is the concatenation of the complete events of the relay
files in file order, which is what a reader parses. `FlushedCount`, the mapping
of `acked`, is the flushed meta position counted in upstream events.
`RefinesRelayLog` (`Abstract!Spec`) checks two things:
- every pump step appends the next upstream event, advances the flushed mark
  within the log, or is a stutter;
- the whole binlog is eventually relayed.

This holds through crashes, torn writes, recovery, exits and resumes.

### How the portal model corresponds to the code

`pc` walks through `main`. `Parse` picks a valid or an invalid configuration.
Each of the checks at lines 31, 38 and 53 leads to `"exited"`, the state that
stands for `os.Exit(1)`. `Register` stands for the `http.Handle` and
`http.HandleFunc` calls. `mux` is `http.DefaultServeMux`: a function from
patterns to handler names. `Match` is the mux's lookup:
1. a pattern equal to the path;
2. otherwise the longest pattern ending in a slash that is a prefix of the path;
3. otherwise a 404.

A path is its list of segments plus a trailing-slash flag, which is exact for
patterns. Once `Listen` succeeds, connections are served concurrently.
`Accept` reads a request, `Respond` routes it, and `Finish` completes it.
`ServeFail` is `ListenAndServe` returning an error: the process exits, and
the requests in flight die with it.

### How the purger model corresponds to the code

A relay file is `<<suffix, number>>`, and `Earlier` is `RelayLogInfo.Earlier`.

`Prepare` builds the arguments from the index and the hint through
`SetActiveRelayLog`, which is translated line by line. The default sub-directory
is the latest, and `safe` is clamped to the active relay log. `uuids` keeps the
suffixes up to the requested sub-directory's suffix, `endSuffix`.

`Do` is the CAS. A caller that loses it gets `ErrSelfPurging`. `DeleteFile`
performs the deletions of `purgeRelayFilesBeforeFile`, one file per step.
`DoReturn` is the deferred `purging.Set(0)`, taken after all files are deleted
or at the first error.

The pump side consists of `Rotate`, which creates the next file, `Publish`,
which updates the active hint after a write, and `SwitchDir`, which moves to a
new sub-directory.

## Runs

The runs check no type invariant. A model's `TypeOK` can only fail through a
change to the model's own bounds, not through a plausible bug in the code, so
it is not a run property. Each `TypeOK` is proved instead, as a corollary of
the inductive invariant of its module (see Proofs).

| run | cfg | expect | what it shows |
|---|---|---|---|
| holder | `MCRelayHolder.cfg` | pass | up to 4 workers: `SingleFlight` (H1), `StoppedAbsorbing`, `CallsReturn` (every waiting call returns) |
| holder_stop_after_close | `MCRelayHolderStop.cfg` | violation | `StopCancelsPump`: Close, Resume, Stop leaves a live, uncancelled worker under Stopped |
| pump | `MCRelayPump.cfg` | pass | 3 files, 6 events, 3 crashes or exits. `RelayIsStreamPrefix`, `MetaDescribesRelay`, `MetaMonotonic` (spec 8.3), `AllRelayed`, and `RefinesRelayLog` (the pump implements `RelayLog`) |
| pump_partial_write | `MCRelayPumpPartial.cfg` | violation | `RelayParsable`: a failed write that leaves part of an event, then Resume, puts a complete event after incomplete bytes |
| pump_ignored_fake_rotate | `MCRelayPumpFakeRotate.cfg` | violation | with the artificial Rotate ignored, two crashes leave torn bytes inside the relay log |
| purger | `MCPurger.cfg` | pass | `ActiveRetained` (spec 8.6), with an old sub-directory and the pump in the latest one |
| purger_single_flight | `MCPurgerFlight.cfg` | pass | `PurgeSingleFlight`, with the pump switching sub-directory |
| purger_after_switch | `MCPurgerSwitch.cfg` | violation | `ActiveRetained` fails when a purge is prepared between a sub-directory switch and the next publication |
| portal | `MCPortalMain.cfg` | pass | 3 connections, 6 paths. `ServesOnlyWhenReady`: no request is read before a valid configuration and all routes are in place. `RoutedAsIntended`: the API paths reach their handlers, and every other path, `/check/` included, reaches the file server. |
| index | `MCRelayIndex.cfg` | pass | `IndexMatchesDisk`: the index is strictly increasing and lists exactly the sub-directories on disk |
| index_append_only | `MCRelayIndexAppendOnly.cfg` | violation | `IndexAppendOnly` (spec 8.4) fails on a `UUIDSuffix` override, as `TestReSetupMeta` expects |

Every property of a passing run has a mutant in `PROJECT.json`. A mutant is a
`Bug variant` operator next to the definition it replaces, and it makes TLC
report the property violated. For example, Close without waiting for the worker
breaks `SingleFlight`. Saving a position one event past the written one
breaks `RefinesRelayLog`. Validation that logs without `os.Exit` breaks
`ServesOnlyWhenReady`. Registering the API routes as subtrees breaks
`RoutedAsIntended`. Recovery without truncation breaks `RelayIsStreamPrefix`.
Treating the artificial Rotate as a real one, which moves the meta to the file
start, breaks `MetaMonotonic`. Dropping the clamp to the active relay log breaks
`ActiveRetained`.

### Findings

1. **Stop after Close and Resume does not cancel the pump**
   (`relay_test.go:229`). Close sets `closed` and leaves the holder Paused.
   Resume checks only the stage, so it spawns a worker. Stop's Close then
   returns at once, and the worker keeps running. Spec 4.5 says Stop cancels
   the pump.
2. **A crash inside the rotate window** (`part_002:441`). A crash between a
   Rotate event and its eager flush makes recovery restore the meta to the end
   of the old file. The next file's events are then only saved, not flushed.
   Unless the dump's artificial Rotate is handled as a Rotate, a second crash
   tears an event in the new file, recovery never looks at that file, and the
   next write appends after the torn bytes. The spec does not say which
   behaviour holds.
3. **The purger cuts `uuids` at the requested sub-directory, not at the safe
   one** (`part_001:53`, spec 4.4 step 4). When the active hint still names an
   earlier sub-directory, Do deletes that whole sub-directory, active file
   included.
4. **The index is not append-only** (`part_002:566`, spec 8.4). A
   `UUIDSuffix` override purges the relay directory and rewrites the index, and
   a suffix can be reused.
5. **A failed write followed by Resume corrupts the relay file**
   (`part_002:437`, spec 4.2 and 4.3). The spec runs recovery only at Holder
   init, and says nothing about the bytes a failed `WriteEvent` leaves. If it
   leaves part of an event, Resume re-reads that event and the Writer appends
   it after the incomplete bytes, where a reader's parser stops. Either
   recovery must run whenever the pump starts, or a failed write must leave
   the file untouched.

## Bounds

- **Holder.** `MaxRuns = 4` allows Start, then Resume, then Update's respawn
  and one more. Every pair of operations meets a live worker.
- **Pump.** The pump run uses a 6-event stream over 3 files with both kinds of
  payload event, and 3 faults. That allows a crash in every file, a crash
  right after a recovery, and one inside the rotate window, which is the
  shortest counterexample of finding 2.
- **Purger.** The purger runs use 2 callers (symmetric), 3 files per
  sub-directory and 2 sub-directories. That gives one purge losing the CAS to
  the other, a purge in an old sub-directory, and a purge clamped to the
  active file.
- **Portal.** The portal run uses 3 connections (symmetric) and 6 paths:
  - the root;
  - two API paths;
  - `/check/` and `/check/x`, which lie under an API route's name;
  - a static file.

  That covers every rule of the mux's lookup. It also gives requests in flight
  on several connections when Serve fails.
- **Index.** The index run uses suffixes up to 4 and 5 reconnections. That
  covers an override below, at and above the latest suffix, and reconnections
  after it.

## Fairness

- **Holder.** A cancelled worker eventually returns, because every blocking
  call of the pump takes the context. The step that returns from a waiting
  call is weakly fair, because the control loop is not blocked on anything
  else. Operator calls and worker errors are never forced.
- **Pump.** Handling events, resuming a returned pump and restarting a
  crashed process are weakly fair. The supervisor restarts and resumes, and
  the upstream has events to send. Crashes and exits are bounded by
  `MaxFaults`.
- **Purger, index and portal.** These have safety properties only.
- **RelayLog.** The abstract log's `AppendEvent` is weakly fair. In the pump
  run this follows from the pump's own fairness and `MaxFaults`.

The pump, purger and portal runs do not check deadlock:
- When every event is relayed, the pump waits in `GetEvent` for events that
  never come.
- A portal that exited has stopped for good.

## Proofs

`RelayHolderProofs` proves these theorems for every `MaxRuns` in `Nat \ {0}`,
the assumption `MaxRunsAssumption`:

- `IInvHolds`: `Spec => []IInv`.
- `SingleFlightHolds`: `Spec => []SingleFlight`.
- `StoppedAbsorbingHolds`: `Spec => StoppedAbsorbing`.
- `TypeOKHolds`: `Spec => []TypeOK`, a corollary of `IInvHolds`.

`SingleFlight` is not inductive. Resume spawns a worker from Paused, so the
proof needs `Quiescent`: a New or Paused holder has no live worker, and the only
live worker is the latest generation.

`StoppedAbsorbing` needs `UpdatePaused`: an Update that paused a Running worker
sees the stage Running or Paused, so its respawn never starts from Stopped.

`IInv == TypeOK /\ Quiescent /\ UpdatePaused` was checked with TLC first. Its
proof has one step per action of Next, and each step splits where an action
has branches.

`PurgerProofs` proves two theorems for every set of callers and every `NFiles`,
`InitDirs` and `MaxDirs` that satisfy `DirsAssumption`:

- `PurgeSingleFlightHolds`: `Spec => []PurgeSingleFlight`. The property is
  inductive together with `TypeOK` (`FlightInv`). The only step that needs an
  argument is the winner of `Do`'s CAS. While `purging` is 0, no caller is
  doing, so the winner becomes the only one that is.
- `ActiveRetainedHolds`: under `MaxDirs = InitDirs`, `Spec => []ActiveRetained`.
  This is the case where the pump never switches sub-directory, which the
  `purger` run checks. `ActiveRetained` is not inductive,
  because it says nothing about the deletions a caller has been armed for.
  `RetainInv` adds the following:
  - `HintInLatest`: the hint and the pump are in the latest sub-directory, and
    the hint is at or before the pump's file.
  - `SafeArgs`: every prepared or purging caller has `uuids <= dirs`, and a
    safe point at or before the hint's file when `uuids = dirs`.

  Two lemmas carry the argument. `PrepareSafe` shows that `SetActiveRelayLog`
  establishes `SafeArgs`. `DoomedEarlier` shows that every file in `Doomed`
  lies before the hint. `Publish` only moves the hint forward within the latest
  sub-directory, so an argument clamped to an older hint stays safe. The
  theorem says nothing when sub-directories are switched, and the
  `purger_after_switch` violation run shows that the property then fails.
- `PurgerTypeOKHolds`: `Spec => []TypeOK`, which follows from `FlightInv`.

`PortalMainProofs` proves `ServesOnlyWhenReadyHolds`:
`Spec => []ServesOnlyWhenReady` for every set of connections and paths. The
strengthening `Ready` records what each step of `main` has established:
- from `"statik"` on, the configuration is valid;
- from `"listen"` on, the mux is `Routes`;
- before `"serving"`, no connection holds a request.

It also proves `RoutedAsIntendedHolds`: `Spec => []RoutedAsIntended`, for every
set of connections and every set of paths that satisfies `PathsAssumption`.
That assumption says a path with no segment ends in a slash. It is what
net/http guarantees: `ServeMux` hands `match` a cleaned path that begins with
"/". The argument has two parts:
- The invariant `Answered` says that a response exists only while serving and
  is `Match(mux, req[k])` for a request in flight. With `Ready`, the mux is
  then `Routes`.
- Lemma `MatchRoutes` says that `Match(Routes, p) = Intended(p)` for every path.
  An API path is one of the exact patterns. Any other path has no exact
  pattern. Its only subtree pattern is "/": the API patterns do not end in a
  slash, and "/" is a strict prefix of every path that is not "/" itself. So
  the `CHOOSE` of the longest pattern has a single candidate.

`RelayIndexProofs` proves `IndexMatchesDiskHolds`:
`Spec => []IndexMatchesDisk` for every `MaxSuffix` and `MaxSetups` that satisfy
`BoundsAssumption`. Together with `TypeOK`, the property is inductive.
- With an override, the index restarts as a single suffix, and the relay
  directory holds only that suffix.
- Without an override, the new suffix is the last one plus one. Lemma
  `LastIsMax` shows the last suffix of a strictly increasing index is its
  largest. Lemma `AppendAbove` shows that appending a larger suffix keeps the
  index strictly increasing and adds the suffix to its set.

`IndexTypeOKHolds` (`Spec => []TypeOK`) follows from the same invariant.

`RelayPumpProofs` proves six theorems for every upstream binlog `Stream` and
every `MaxFaults` that satisfy `StreamAssumption` and `MaxFaultsAssumption`.
Each theorem has the hypotheses `~PartialWrites` and `~IgnoreFakeRotate`. These
are the settings of the passing `pump` run: the Transformer handles the
artificial Rotate of a dump, and a failed `WriteEvent` leaves the file as it
was. With either setting the other way, the runs `pump_ignored_fake_rotate`
and `pump_partial_write` show a property fails, so the hypotheses are needed.

- `PumpInvHolds`: `Spec => []PumpInv`.
- `RelayIsStreamPrefixHolds`: `Spec => []RelayIsStreamPrefix`.
- `MetaDescribesRelayHolds`: `Spec => []MetaDescribesRelay`.
- `MetaMonotonicHolds`: `Spec => MetaMonotonic`, an action property.
- `RelayParsableHolds`: `Spec => []RelayParsable`, a corollary of
  `RelayIsStreamPrefixHolds`. TLC finds `RelayParsable` violated when either
  hypothesis is dropped.
- `PumpTypeOKHolds`: `Spec => []TypeOK`, a corollary of `PumpInvHolds`.
  `TypeOK` alone is not inductive, because `Resume` and `Restart` compute
  `next` from a position and need the position bounds of `PosInv`.

None of the three properties is inductive. A restart reads the file that the
flushed meta names, and the reader resumes after the recovered position. So the
proof must know that the files, both positions and `next` agree. `PumpInv`
says so in four parts:
- `PosInv`: the in-memory position counts `next - 1` events (`Cnt`) and lies
  inside its file. The flushed position is in the same file and not after it.
- `GSetInv`: each GTID set is `GSetUpTo` of its position.
- `PcInv`: while the pump runs, `next` is in the file of the position.
- `DiskInv`: the files hold exactly the first `d` events, split by binlog file
  (`Holds(d)`). Here `d` is `next - 1`, or `next` once written. After a crash,
  `d` is `next - 1` or `next`, and the file of the flushed position may end in
  one torn event (`HoldsTorn`).

`PumpInv` was checked with TLC first, on the `pump` run's stream and on other
streams. Its proof has one lemma per action. Each lemma has one step per part
of the invariant. Three steps carry the argument:
- `WriteEvent`: the file holds its events before `next`, so `Duplicate(next)`
  is false, and the write appends `next`.
- `Crash`: a torn write adds the torn event to the file of the position, after
  the first `next - 1` events.
- `Restart`: `CompletePrefix` cuts the file back to the first `d` events. The
  GTID set computed from the file is `GSetUpTo(d)`, which contains the flushed
  one. So both branches of `RecoveredGSet` give `GSetUpTo(d)`.

These steps rest on lemmas about where the events of `Stream` sit.
`Before(f)` counts the events in files before `f`. The events of file `f` are
`Before(f) + 1 .. Before(f + 1)`; these are `BeforeInterval`,
`FileEventsForm` and `EventIn`. A Rotate ends its file (`RotateEnds`).
Appending event `i` changes only its own file (`RelayedAppend`).
`BeforeInterval` needs a least-element principle for `Nat`. `NatMin` derives
it from `WFMin` of `WellFoundedInduction`.

`MetaMonotonic` follows from `PumpInv`:
- The artificial Rotate flushes the position of the next event, which is not
  before the in-memory one (`FileOfAfter`).
- A real Rotate flushes the start of the next file.
- Recovery flushes the end of the complete events of the flushed file, which
  `MetaDescribesRelay` says the flushed position does not pass.

`RelayPumpRefinement` proves `RefinesRelayLogSafety`, under the same two
hypotheses: `Spec => Abstract!Init /\ [][Abstract!Next]_Abstract!vars`.
This is `RefinesRelayLog` without its fairness conjunct. The argument:
- `FlattenRelayed`: files that hold their share of the first `d` events read,
  through `FlattenSeq`, as `1..d`. `FlattenSeq` is a recursive function over
  `1..Len(seqs)`, so tlapm sees it as a `CHOOSE` of a solution of its defining
  equation. The proof exhibits a solution, the first `UptoFile(d, i)` events
  for files `1..i` (`RelayedStep`, `ConcatFirst`). At a least index where
  another solution differs, both satisfy the same equation, a contradiction
  (`NatMin`). No induction theorem with an operator parameter is needed.
- `LogInv`, which follows from `PumpInv` with `DiskShape`: what a reader sees is
  `FirstEvents(d)` for some `d`, and `FlushedCount` is at most `d`.
- Per step: a write of a new event turns `FirstEvents(next - 1)` into
  `FirstEvents(next)` and leaves the flushed meta alone, so it is
  `AppendEvent` (`WriteAppends`). Every other step leaves the reader's view as
  it is (`KeepsLog`). A crash only adds bytes that `CompletePrefix` drops. A
  recovery truncates a file to its complete prefix, and the complete prefix of
  that is the same (`ViewIdempotent`). The flushed count does not decrease
  (`FlushedMono`, from `MetaMonotonic` and the position bounds), so such a step
  is `Acknowledge` or a stutter.

The following stays with TLC:

- The liveness properties (`CallsReturn`, `AllRelayed`), because TLAPS does
  not handle fairness and ENABLED.
- The fairness conjunct of `RefinesRelayLog` (`WF` of `AppendEvent`), which is
  liveness like `AllRelayed`.
- The pump with `PartialWrites` or `IgnoreFakeRotate`. There the properties
  fail, as the violation runs show.

## Not modelled

- dmctl `operateTask`: one RPC to the master, with no state of its own.
- The portal's handlers, the content of its configuration, and what
  `cfg.Valid` and `cfg.Parse` check. These are in package `portal`, which is
  outside the repository. The model takes their outcomes as choices.
- The Reader's GTID-mode positioning, which re-sends events already relayed.
- Recovery's `gtid_purged` range extension, which is a rewrite of GTID
  ranges.
- Heartbeat events.
- Faults other than a process crash. A crash keeps every byte written, so the
  flushed meta is never ahead of its relay file. Recovery's move of the meta
  back to the end of the file (spec S3, `part_002:227-239`) therefore never
  happens in the model. `RecoveredGSet` keeps the persisted GTID set only
  when it equals the computed one. `MetaMonotonic` holds "recovery included"
  only under this fault model.
- The reader's back-off.
- The GTID half of `AdjustWithStartPos`.

## Plan

The following is still to do:

1. Compose the holder and the pump, so that the holder's cancellation is the
   pump's `Exit`, and check that a Stop after Close and Resume leaves the pump
   running.
2. Model the purger over the index of `RelayIndex`, so that an override that
   purges the relay directory races a purge in flight.
