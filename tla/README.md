# Verification of open-nova

open-nova keeps a personal "foundation" of usage data, diaries and memories on one
machine: a pipeline ingests agent logs into SQLite and Markdown, a dashboard (one
FastAPI process) shows and repairs it, a RAG index makes it searchable, and
installers and user units keep it running.  Almost nothing in it is distributed,
but a great deal is concurrent and can be interrupted: the dashboard's event loop,
its background threads, its scheduler loop, a scheduled refresh process, the
pipeline process, command-line tools and installers all change the same files and
the same database, and any of them may be killed at any step.

This directory holds TLA+ models of those parts, model checked with TLC on small
instances and, for the properties that matter most, proved with TLAPS for every
value of the constants.  Paths below are relative to the repository.

## 1. Inventory

### Components modelled

**Settings transaction** (`src/data_foundation/settings_transaction.py`, with the
writers of `settings.py` and the keys of `secret_store.py`).
*State*: `config/settings.json`, `config/runtime.json`, provider keys in the secret
store, one directory per transaction with `journal.json` and preimages, one flock.
*Operations*: take the barrier, recover every open journal, save (journal,
preimages, keys, precommit callback, compare-and-replace of both files, verifier,
apply callback, commit, acknowledgement), compensate, `ensure_settings`.
*Interactions*: callbacks of the service manager and the unit transaction run inside
a save; off Linux `write_settings` and `ensure_settings` change `settings.json`
without the lock.
*Hard*: kills between any two steps, exceptions after a step took effect, key
deletions that fail, recovery of recovery, unlocked writers.
*Correct when*: a save is all or nothing, a file never names a key that is missing,
an interrupted save is undone before the next starts, and a commit is for good.

**RAG v2 index store, its indexer, sync and jobs** (`src/agentic_rag/rag_v2_*.py`,
`src/dashboard/app/services/rag_index_jobs.py`).
*State*: the root manifest and its one temporary name, candidate and active run
directories, manifest backups, an flock, the job log.
*Operations*: register and build a candidate, gate it, promote (snapshot, copy,
backup of the manifest, switch, prune, log), roll back, queue and close jobs.
*Interactions*: worker threads of the dashboard and command-line tools, readers
through the root manifest.
*Hard*: a lock that is tried once, a rollback that takes none, shared temporary
file, clean-up that does not know how far it got, deletions that stop half-way.
*Correct when*: the active index exists in full, builds do not change what is
active, a promotion that reports success took effect, every job is closed.

**History backfill ledger** (`src/data_foundation/refresh.py`, `jobs.py`, the
daily-pipeline lock of `pipeline.py`, the endpoints in
`src/dashboard/app/routers/ai_assets.py`).
*State*: one row of `ingestion_runs` per run, with the outcome of each stage; the
process id in a day's lock file; background tasks in the dashboard's memory.
*Operations*: queue, schedule, retry, cancel, look; initialize, claim, work, record,
finalize; reconcile an orphan.
*Interactions*: event loop, background threads, the dashboard's scheduler loop and
the scheduled refresh process meet in the row, through compare-and-set transforms.
*Hard*: two writers between any two transforms, workers declared dead while they
run, tasks lost with the dashboard, process ids read from stale files.
*Correct when*: one run is active at a time, an end is final, a cancel wins, the
retry list is what was not done, and no run blocks the queue for good.

**Linux user-unit transaction and the registration handoff**
(`src/data_foundation/systemd_user.py`, `service_manager.py`).
*State*: unit definitions, what of them is enabled and active, the unit journal with
its phase and the owner that made it, the Settings journal it hangs on.
*Operations*: install, remove, restart and control the units of a service; undo,
clean up after, and recover each of these.
*Interactions*: the handoff runs inside a Settings save (precommit, clean-up and
postcommit callbacks); recovery of the units waits for recovery of Settings, and asks
it which side to end on.
*Hard*: two journals with one outcome, `systemctl` calls that fail or are cut off
half-way, a journal whose owner is still alive, users and crashing services that
change units meanwhile.
*Correct when*: units and Settings are both before or both after; a conflict is
reported only if there is one; what runs is what is installed.

**Update transaction** (`install/update_transaction.py`), **driven by the installer**
(`install/install_linux.py`).
*State*: the pointers `app/source` and `.venv`, candidate directories with their owner
markers, unit states, the database's migration ledger, the repair marker, the update
lock, the journal.
*Operations*: begin, reserve, promote and record candidates, the migration gate, stop,
capture, promote, restore, verify, commit; commit, restore and complete a repair;
recover, rollback.
*Interactions*: every command is a process of its own, and the installer chooses the
next one by the exit status of the last, or by what it reads off the journal.
*Hard*: a helper can be killed between any two durable effects, after which the
installer, or the next one, has to find out how far it got; the machine restarts with
the pointers on two releases; a user changes a pointer, a unit or the settings.
*Correct when*: the pair of pointers changes in one step, nothing runs from a mixed
pair, a rollback puts units and pointers back, a commit is for good, and a lock does
not stay behind for ever.

**Daily pipeline, run records and repairs** (`pipeline.py`, `pipeline_runs.py`,
`pipeline_execution.py`, `repair_runs.py`, with the repairs of `foundation_ops.py`).
*State*: a lock file per day that carries a process id, the rows of `pipeline_runs`
with the proofs their stages left, the day's reports, the rows of repairs.
*Operations*: take and release the lock, run or reuse the stages, fail, complete;
queue, execute and answer a repair.
*Interactions*: backfills and repairs run pipelines in threads of the dashboard, the
command line and the catch-up in processes of their own; each pass is a child process.
*Hard*: opening and locking the file are two steps, and so are reading the process id
in it and unlinking it; a pass that was cut off leaves a report half-written, or goes
on after its pipeline died; users edit reports between a failure and its retry.
*Correct when*: one pipeline of a day runs at a time, a completed run is made of whole
reports that it or the failed runs it retries wrote, and every run and repair ends.

### Components not modelled yet, in the order of the plan

| component | state | what is hard about it | what makes it correct |
|---|---|---|---|
| macOS scheduler handoff (`scheduler.py`) | launchd jobs, settings, handoff journal | kill between the two commits | as for user units |
| Runtime mutation guard (`runtime_mutation.py`) | flocks per namespace, owner record | reentrancy per thread, owners that died | a mutation never overlaps an update |
| Nova-Task store and work graph (`nova_task*.py`, `tasks.py`) | tasks, versions, review batches | optimistic versions, batches half applied | no lost update, a review is applied once |
| Backups (`backup.py`, `backups.py`) | staging and published directories, status file | publication, retention and status in one try block | the newest valid backup is never removed |
| RAG server lifecycle (`rag_server_lifecycle.py`, `embedding_server.py`), active source | process, port, profile, cached matrix | adoption, unlocked cache, pruning under a reader | matrix and ids are of one index |
| LLM transport (`llm_transport.py`, `llm_execution.py`) | one request | retries and time limits | bounded attempts |

### Components left out

Source adapters, ranking, reports, snapshots, prompts, Markdown, HTTP routing, the
front end, release tools, the fresh installation and the dependency contract are
parsing, formatting or single-statement writes: there is no order of events in them to check.
`PROJECT.json` lists each one with its files and its reason.

## 2. Modules

| module | what it is |
|---|---|
| `SettingsTransaction` | the journalled save, recovery and unlocked writers |
| `AtomicSettings` | what a save promises: both files and the keys in one step |
| `MCSettingsTransaction` | symmetry for TLC |
| `SettingsTransactionProofs` | `TypeCorrect`, `BarrierHolds` |
| `SettingsBundleProofs` | `PreimagesAreThere`, `KeysMatch`, `CommittedStays`, `OutsideEditsKept`, `SavesAreAtomic` |
| `RagIndexStore` | builds, promotion, pruning, rollback and their jobs |
| `MCRagIndexStore` | symmetry for TLC |
| `RagIndexStoreProofs` | `TypeCorrect`, `CandidatesAreSafe`, `ActiveIndexIsSafe`, `PromotionIsEffective`, `BuildsKeepTheActiveIndex`, `RollbacksAreSafe` |
| `HistoryBackfill` | the ledger and the three kinds of actor that change it |
| `HistoryBackfillProofs` | `TypeCorrect`, `OneActiveRun`, `EndsAreFinal`, `CancelsWin`, `RetriesAreTheRest`, `StagesStartSafely`, `CompletedRunsAreReal` |
| `UnitTransaction` | the registration handoff, its undo, clean-up and recovery |
| `AtomicRegistration` | what a handoff promises: definitions and claims in one step |
| `UnitTransactionProofs` | `TypeCorrect`, `SettingsStayHeld`, `ConflictsAreExplained` |
| `UpdateState` | what an update works on, its journal, the installer's control |
| `UpdateArtifacts` | candidate directories: reserve, promote, record, remove |
| `UpdateTransaction` | the other commands, recovery, the installer, the faults |
| `UpdateProperties` | what an update promises |
| `AtomicRelease` | what an update promises of the pair of pointers |
| `MCUpdateTransaction` | sets of initial states for TLC |
| `UpdateProofs` | `TypeCorrect`, `RepairIsFenced`, `PointersSettle`, `CommitsStay`, `ReleasesAreAtomic`, `UnitsStayOnOnePair` |
| `DailyPipeline` | the pipelines of one date, their lock, reports and repairs |
| `DailyPipelineProofs` | `OnePipeline`, `TypeCorrect` |
| `DailyReportsProofs` | `ReportsAreSound` |

A definition preceded by "Mutated form of" is not part of the model.  It is a
plausible bug in the definition below it; replacing that definition by it makes the
property that guards against the bug fail.

### SettingsTransaction and the code

One session holds the lock at a time, so `pc`, `mode`, `cur` and the other session
variables are the local state of whoever is inside `settings_mutation_barrier`.  A
step of the model is a step between which the code can be killed: one journal write,
one key, one comparison, one `os.replace`.

| code | model |
|---|---|
| `_transaction_lock`, `settings_mutation_barrier` | `Acquire`, `Release`, `RecoveryDone`, `RecoveryBlocked` |
| `_recover_settings_transactions_locked` | `SweepDirectory`, `RecoverJournal`, `Return` |
| `execute_settings_transaction` | `Prepare` ... `PostcommitSideEffects`, `StepRaises`, `Unwind` |
| `_cas_replace` | `CompareSettings`/`ReplaceSettings`, and the same for the manifest |
| `_compensate_transaction_locked` | `ScanConflict`, `ScanClear`, `RestoreManifest`, `RestoreSettings`, `CleanSecret`, `CleanSecretRaises`, `CloseJournal` |
| `ensure_settings` | `EnsureSettings` under the lock, `OutsideRead` and `OutsideWrite` without |

A document is a tag (who wrote it) and the keys it names; hashes of documents are
compared as documents.  The journal's `phase` and the after-snapshots are never
read back and are left out.  `DirSyncMayFail` chooses whether the fsync of a
directory may raise after the rename it follows took effect.

### RagIndexStore and the code

Every process has its own `pc`.  The root manifest is abstracted to the run it names
as active, a run directory to how complete it is.  Reading the root manifest,
writing `manifest.json.tmp` and renaming it are three steps, as
`_write_json_atomic` performs them, and the temporary name is shared.

| code | model |
|---|---|
| `rag_v2_operation_lock` | `TakeLock`, `LockBusy`, `Finish` |
| `initialize_shadow_build`, `build_v2_candidate_index` | `Register`, `Build` |
| `_sync_v2_production_index_locked` | `ServerNotReady`, `Gate` |
| `_promote_v2_candidate_locked` | `MakeSnapshot`, `CopyFiles`, `BackupRoot`, `WriteTmp`, `ReplaceRoot`, `Prune`, `AppendLogs`, `PromotionRaises` |
| `rollback_v2_manifest` | `ValidateBackup`, `RollbackRefused`, `SaveCurrent`, then `WriteTmp`, `ReplaceRoot` |
| `rag_index_jobs.py` | `Start`, `CloseJob`, `Raise` |

### HistoryBackfill and the code

`_history_backfill_cas` reads a row, applies a transform and updates the row only if
it is unchanged, so each transform is one atomic step, given as an operator on a row
(`Initialized`, `Claimed`, `Recorded`, `Flagged`, `MarkedOrphan`, `CancelRequested`,
`Finalized`).  The request handlers are `async` functions that never wait, so the
event loop serves one request at a time (`server`), with the steps of workers and of
processes dying between its transforms.  A worker is a background thread of the
dashboard or a ticker that runs due scheduled runs.

| code | model |
|---|---|
| `queue_history_backfill`, `active_history_backfill_run` | `AskQueue`, `Scan`, `ScanEnds`, `Insert` |
| `queue_failed_history_backfill_retry` | `AskRetry`, then the same |
| `cancel_history_backfill` | `AskCancel`, `Cancel` |
| `projection_refresh_status`, `recent_projection_refresh_jobs` | `Look` |
| `_history_backfill_orphaned` | `OrphanedByDeath`, `OrphanedByTime` |
| `_reconcile_orphaned_history_backfill` | `Reconcile`, `Mark`, `Blame`, `Close` |
| `run_due_scheduled_history_backfills` | `Tick` |
| `run_history_backfill` and its stages | `ReadStatus`, `Initialize`, `Claim`, `ClaimRefused`, `WorkDay`, `StartPipeline`, `EndPipeline`, `WorkLater`, `Record`, `Finalize`, `HandleError` |

Time appears as what it decides.  A run nobody attends to can be found overdue at any
look; that a run is overdue although a worker has it (a machine that slept, a stage
of more than 24 hours) is counted against `MaxFaults` and switched by `Suspends`.
Whether a run is an orphan is decided in the step that reads its row.  A period is
one stage: its artifacts, and the narrowing of a retry to the artifacts that failed,
are left out, and so are rows older than the current outcome schema.

### UnitTransaction and the code

One session at a time holds the Runtime guard, so `pc`, `kind`, `why` and `todo` are
the local state of whoever does.  Sessions are not bounded, only faults are.  A step
ends at a durable effect: a write of the unit journal, a definition, a systemctl
call.  A systemctl call is a set of effects (`Enable`, `EnableNow`, `Restart`,
`DisableNow`).  A systemctl that fails, dies with its caller or runs into its time limit
may have asked for any subset of them (`Cuts`), and systemd goes on with what it was
asked: units it is to start or to stop may still be "activating" or "deactivating"
(`CutOff`, `Leave`) until `Settle`, whoever looks in between.
The Settings journal is one step per outcome, as `AtomicSettings` allows: the handoff
opens it before the units are touched and commits it before the unit journal closes.

| code | model |
|---|---|
| `_recover_linux_systemd_settings_barrier`, `recover_systemd_user_transactions` | `Start`, `RecoverSettings`, `RecoverUnits`, `Verdict`, `NothingToRecover` |
| `_transaction_runtime_state_has_conflict` and what it allows in each phase | `Allowed`, `RuntimeConflict` |
| `install_user_units` | `Capture`, `Define`, `Defined`, `Reload`, `EnableUnits`, `RestartUnits`, `Verify` |
| `uninstall_user_units` | `Capture`, `ArmRemoval`, `DisableUnits`, `Define`, `Defined`, `Reload`, `Verify` |
| callbacks of `service_manager.py` in a save | `BeginSettings`, `ReplaceSettings`, `CommitSettings`, `Finalize`, `SettingsUndo` |
| `_restore_systemd_transaction` | `Check`, `DefineBack`, `ReloadBack`, `DisableBack`, `Revive`, `Compare`, `Refuse` |
| `control_user_units` | `Control`, `ControlRefused` |

`upset` collects what interfered since the open journal began and `raced` the units
edited between a restoration's look and its write; neither is read by a step.

### UpdateTransaction and the code

A helper process reads the journal when it starts and saves it around every change, so
the model has one journal `J` and the place `h.pc` of the helper in its command.  A
release is a number: the transaction that built it; `Gone` and `Foreign` are pointers
that are missing or that somebody else set.  `unit[u].runs` is the pair of releases
the process was started from, and `unit[u].stuck` remembers that a rollback failed to
stop it; no step reads either.

| code | model |
|---|---|
| `begin` | `BeginLock`, `BeginCapture` |
| `reserve_candidate_artifact`, `promote_source_artifact`, `record_candidate` | `ReserveStep`, `PromoteSourceStep`, `RecordStep` |
| `verify_migration_compatibility` | `MigrationStep` |
| `stop_services`, `capture_state`, `promote` | `StopStep`, `CaptureStep`, `PromoteStep` |
| `restore_services`, `verify`, `commit` | `RestoreStart`, `RestoreStep`, `VerifyStep`, `CommitStep`, `Unlock` |
| `commit_repair`, `restore_repair_services`, `complete_repair` | `CommitRepairStep`, `RestoreRepairStep`, `CompleteStep` |
| `recover`, `rollback` | `RecoverStart`, `RollbackStart` |
| `rollback_state` | `RollStart`, `HaltStep`, `BackStep`, `RemovalStep`, `FilesStep`, `MarkerStep`, `ResumeStep`, `FinishStep` |
| `install_linux.py`: the order of commands and what a failure leads to | `Following`, `AfterFailure`, `Told`, `HelperExits`, `Configure`, `InstallerFails` |

The faults are kills of the helper or of the installer (which takes the helper with
it), a restart of the machine, a systemctl call that fails, an installer step that
fails, and, where `UsersMeddle`, a user who changes the settings, a unit or a pointer.
`RmtreeIsAtomic` says whether a removal of a directory can stop half-way.

### DailyPipeline and the code

A worker is a thread of the dashboard or a process of its own, with its own `pc` and
the local variables of its `run_daily_pipeline`.  Lock files are numbered, because a
file that was unlinked can still be open and locked; `path` is the one that has the
name.  A report is who wrote it and whether it was written to its end, which is what
comparing hashes can tell.

| code | model |
|---|---|
| `_acquire_daily_pipeline_lock` | `Open`, `Flock`, `Refused`, `Mark` |
| `_release_daily_pipeline_lock` | `Unlock`, `ReadOwner`, `Unlink` |
| `_retry_committed_stage_ids`, `reuse_stage`, `_proofs_are_current` | `Reusable`, `CanReuse`, `Reuse`, `Current` |
| the loop of `run_daily_pipeline`, `_run_step`, the passes | `Simple`, `RunPass`, `OpenReport`, `PassDone`, `PassFails` |
| `fail_run`, checkpoints, other exceptions | `Stop`, `Fails`, `Raise` |
| validation and terminal commit | `Validate`, `Finish` |
| `queue_foundation_daily_qa_repair`, `execute_foundation_daily_qa_repair` | `QueueRepair`, `TakeRepair`, `Answer`, `RepairLost` |
| `diary_report_paths` | `Shown` |

Stages that write no report have no proof of their own and are folded into their
neighbours.  A pass agrees with the inputs on whether the day is blank, the diary
reads the foundation, and one language is in use; deletion of a report by hand is left
out.  The release in `HistoryBackfill` is one step still: that module needs the lock
only for the process id left behind in it.  `window`, `doubled`, `foreign`, `raced` and
`lost` are history; no step of the code reads them, but that a repair which died with
the dashboard is not taken.

## 3. Runs

| run | module and configuration | result |
|---|---|---|
| `settings_safety` | `SettingsSafety.cfg` | passes |
| `settings_atomic` | `SettingsAtomic.cfg` | passes |
| `settings_commit_undone` | `SettingsCommitUndone.cfg` | `CommittedIsFinal` violated |
| `rag_concurrent` | `RagConcurrent.cfg` | passes |
| `rag_jobs` | `RagJobs.cfg` | passes |
| `rag_sequential` | `RagSequential.cfg` | passes |
| `rag_rollback_race` | `RagRollbackRace.cfg` | `ActiveIndexPresent` violated |
| `backfill_runs` | `BackfillRuns.cfg` | passes |
| `update` | `Update.cfg` | passes |
| `update_recovery` | `UpdateRecovery.cfg` | passes |
| `units` | `Units.cfg` | passes |
| `daily_pipeline` | `DailyPipeline.cfg` | passes |

### What each run asks

*settings_safety*: two saves, a provider slot, one `ensure_settings`, one writer that
takes no lock, three faults.
A save never starts on top of an open journal (`OneOpenJournal`); no file names a
missing key and no key of an undone save stays behind (`SecretsMatch`, which is
`NoDanglingReference` and `NoStraySecret`, as long as the writer without the lock, who
knows nothing of keys, has not begun); every preimage a compensation needs is on disk
(`PreimageOnDisk`); the document of that writer is overwritten only if it landed between
a comparison and the replacement after it (`OutsideEditKept`; `raced` collects the
exceptions).  Two saves are enough for one to be interrupted and the next to
meet it; the third fault interrupts the recovery of the recovery.

*settings_atomic*: two slots, two faults.  The save implements `AtomicSettings` under
the mapping *what recovery would leave behind*: with a journal open, readers under
the lock see its preimages.  `CommittedIsFinal` and the liveness property
`OpenJournalResolved` are checked here.

*rag_concurrent*: two processes, two runs, refreshes, syncs, migrations and promotions, two
exceptions, a kill, deletions that do nothing or stop half-way.  The active index
stays complete, no build loses its candidate, a promotion that reports success took
effect, and a build leaves the active run alone.

*rag_jobs*: two processes, rollbacks beside refreshes, syncs and promotions, one
exception.  Every job is closed (`JobsEnd`), also when a rollback, which takes no lock,
has renamed the temporary manifest of a build away (`ReplaceFindsNothing`).  Migrations
are left out: their last promotion has no closing record to wait for.

*rag_sequential*: one process, three runs and rollbacks: the operations one after
another keep the active index, and a promotion that failed leaves no half-made snapshot
(`IndexWhole`, which is `ActiveIndexPresent` and `NoHalfSnapshot`).  Three runs allow a backup that names neither the
active run nor the one before it.  Deletions succeed here: a snapshot whose removal
stopped half-way and whose second promotion was killed while copying can be restored
by a rollback, which looks only at whether the index file exists.

*backfill_runs*: two rows (a second run or the retry of the first), a day and a later
stage, a thread and the timer process, one exception anywhere or one run that is
overdue though attended, or else two deaths of a process (`MaxFaults` is 2, an exception
takes the whole of it, `Weight`): the second may cut off the reconciliation of what the
first left behind.  The first run
can be ended behind its worker's back and retried while the worker goes on.  With one
day and one later stage there is a stage to be in, a stage left to claim and an order
between them; more stages repeat the same transforms.

*update*: two units, both healthy or one failed and one not in use, every kind of
pointer, the three modes, users who meddle, removals that stop half-way, two faults.  However a
transaction ends, the pointers are both prior or both candidate (`SettledPointers`);
no managed unit that systemctl stops when it is asked to runs from a mixed pair, and in
the end the units are as before and run
what is installed (`UnitsRunOnePair`, which is `QuietWhileMixed` and `SettledUnits`);
a committed repair keeps its lock and marker
until it is configured (`RepairFenced`); a commit is not taken back
(`CommittedStays`); and the pair changes in one step (`ImplementsAtomicRelease`).
One transaction is enough: `begin` refuses while a lock or a marker is there, so a
second one begins only when nothing is left of the first, and every later installer
still runs `recover` on it.  Two faults are a kill and a kill of its recovery, or a
user and a kill.

*update_recovery*: with one unit, active, inactive or failed, enabled or not, and nobody
meddling, the lock of an interrupted update is released in the end (`Resolves`), whatever
was killed and whichever systemctl calls failed; what a restart of the machine may do to
that is excepted by `Displaced` and told in section 4.

*units*: a service with a server, enabled and started, and a timer that is not; two
faults of any kind; handoffs, other saves and control requests without bound.
Conflicts have causes (`ConflictsHaveCauses`); while a unit journal is open no other
save begins (`SettingsHeld`); what a closed journal leaves behind runs what is
installed (`SettledRuns`); definitions and claims change in one step
(`ImplementsAtomicRegistration`); an interrupted handoff is closed or reported
(`Resolves`).

*daily_pipeline*: a thread of the dashboard and the command line, two rows, one repair
and two faults, each a stage that fails, a cancellation, an exception, a kill or an
edit by hand; two of the three passes, as `run_daily_pipeline` takes its steps as a
parameter.  One pipeline at a time (`OneAtATime`, except after the window of section
4); a completed run is whole and of its own lineage (`CompletedIsSound`, except for a
reused narrative hidden by a no-activity one, section 4); everything
that is not cut off ends (`RunsEnd`).  Two rows are a run and its retry, two faults a
failure and an edit between them.  Three pipelines can meet at the lock all the same:
one whose row could not be created leaves none.  The safety properties also hold with
a second thread, and with three rows and one fault.

### Why these bounds

Every bound is a constant: the sets of transactions, runs, processes and stages,
`MaxFaults`, `MaxCrashes`, `MaxRuns`.  Each hazard in `PROJECT.json` is about one
operation meeting one other, which takes two of each, plus the faults that open the
window.  The theorems of section 5 do not depend on the bounds.  `CHECK_DEADLOCK
FALSE` is used in `BackfillRuns.cfg` and `DailyPipeline.cfg`, because a ledger whose
rows all ended legitimately stops once `MaxRuns` rows exist.

## 4. What the violations show

- `settings_commit_undone`: `_atomic_replace_bytes` renames and then fsyncs the
  directory, inside the try block.  If the fsync raises, a save whose journal already
  says "committed" is compensated, and a kill in that compensation leaves one file
  restored under a journal that recovery never opens again.
- `rag_rollback_race`: `rollback_v2_manifest` holds no lock.  It checks that the index
  of a backup exists; a promotion prunes that index; the rollback makes it active.
  The same missing lock lets a build that read the root manifest before a rollback
  write the old active run back, which is why `BuildLeavesActiveAlone` is checked
  without rollbacks.

Weaknesses found while modelling, each of which a change of a constant or of a
definition reproduces:

- *RAG, a log that cannot be written* (`LogMayFail = TRUE` in `RagConcurrent.cfg`
  refutes `ActiveIndexPresent`): the handler of a failed promotion removes the new
  snapshot even if the step that failed, a log append, came after the switch and the
  pruning.  No index is left.
- *Backfill, a stale process id* (`OrphansHaveNoWorker` of `HistoryBackfill` fails
  under `BackfillRuns.cfg`): the process id in a day's lock file is taken for that of
  the run's worker.  A worker killed in the pipeline leaves the file; the worker of
  the retry claims the day and, until its pipeline takes the lock, any status request
  ends its run with "History backfill worker exited unexpectedly".  The worker
  finishes its stage, its outcome is dropped, and the queue admits another run.
- *Backfill, a reconciliation cut off* (`RunsEnd` with `ActiveRuns = {}` in place of
  `HalfReconciled` is false): the dashboard dies before the background task of a queued
  run starts; a later look finds the orphan and sets its currentStage
  (`refresh.py:2093`), and dies before it ends the run.  A queued run with a
  currentStage is no orphan (`refresh.py:2161`), so no look ends it any more, and every
  later run is refused until somebody cancels it.
- *Update, a removal that stops half-way* (`Resolves` without `\/ Torn`, with
  `RmtreeIsAtomic = FALSE`): a recursive removal may delete the owner marker first; if
  it is killed then, `_verify_artifact_ownership` refuses the rest for ever and no
  recovery gets through.
  `tests/test_update_transaction.py:1873` promises that its kill windows are
  idempotent, but kills before and after the removal only.
- *Update, a restart that moves a unit* (`Resolves` without `\/ Displaced`): a restart
  stops a unit that was active and is not enabled, starts one that was enabled and not
  active, and leaves a failed one without its failure.  Until a stop is on record the
  rollback wants every unit exactly as it was (`_verify_prior_service_vector`,
  `update_transaction.py:5839`); after it, every unit that did not run
  (`update_transaction.py:5768`).  Every later recovery then ends "rollback-failed" and
  keeps the lock, until somebody puts the unit back by hand.
- *Update, a unit that does not stop* (`QuietWhileMixed` without `stuck`): if the stop of
  a unit fails in a rollback, `rollback_state` (`update_transaction.py:5781`) records the
  error and goes on: it exchanges the pointers under the running unit.  In a repair this
  cannot happen, as its units are disabled and stopped before anything is exchanged.
- *Update, the report of a rollback* (`RollbackIsReal` of `UpdateProperties` is
  false): if the commit helper is killed after the journal says "committed", the
  installer calls `rollback`, which returns success without doing anything, and the
  installer reports that it rolled back (`install_linux.py` about 3168 to 3215).
- *Daily pipeline, two at a time* (`OneAtATime` without `\/ doubled` is false from
  three rows on, without any fault; the run has two, so the exception is not used there):
  `_release_daily_pipeline_lock` unlocks, reads the file that has the name now, and
  unlinks it if it carries this process id.  A pipeline that opened the file before the
  unlink locks a file without a name; the next one locks a new file, and both run.  In
  the dashboard the same happens when a second thread has already locked and marked the
  file: its process id is the same.  Both then write the same reports.
  `tests/test_pipeline_contract.py:375` tries a lock that is held, not one that is
  being released.
- *Daily pipeline, rows that never end* (`RunsEnd` without `lost` is false): an
  exception other than a cancellation or time limit, or a kill, leaves the row running.
  No code ends it, and `reconcile_pipeline_schedule` defers the catch-up of missed days
  as long as it finds one.  A repair that dies with the dashboard stays queued or
  running in the same way and blocks its action for the day.
- *Daily pipeline, a hidden narrative*: once a no-activity report of the day exists,
  `diary_report_paths` shows it instead of a narrative that a later run of the day
  writes, and so do the proofs of that run and the input of its learning pass.  If the
  story is edited after the run failed, a retry compares the other file and reuses the
  stage (`TamperedIsRerun` of `DailyPipeline` is false), although
  `tests/test_pipeline_deadline.py:434` is named "reruns stage when committed artifact
  is missing or tampered"; it has no no-activity file.
- *Daily pipeline, a mixed retry*: a retry checks each stage's own reports.  If the
  narrative was edited after the failure, the narrative is written anew, over the edit,
  while the lessons drawn from the old one are reused.
- *Units, a compensation cut off* (`"cut"` in `upset`): in the phase
  "compensation-armed" `_transaction_runtime_state_has_conflict`
  (`systemd_user.py:1118`) accepts mixtures of before and after.  When a reinstall of
  running units is undone, `disable --now` leaves them neither enabled nor active,
  which is neither: recovery writes a conflict over the phase, and every later save is
  blocked.  `tests/test_service_manager.py:1220` tries a first installation only,
  where before is "neither".
- *Units, a job that goes on* (`"job"` in `upset`): `_run_systemctl`
  (`systemd_user.py:390`) keeps the Runtime lock open in systemctl so that "recovery cannot
  race the in-flight external mutation".  But systemctl dies with its caller (or after 30
  seconds) and only had asked systemd for a job, which goes on.  Recovery, or the undo of
  the same session after the time limit, can find the unit "deactivating" or
  "activating", for which `_snapshot_transaction_unit_states` raises and
  `_transaction_runtime_state_has_conflict` reports a conflict (`systemd_user.py:1103`):
  the journal is marked, its phase is lost, and later saves are blocked although nobody
  interfered.
- *Units, a service between two restarts*: an "activating" unit counts as a conflict,
  although the comment above the check speaks of safe compensation.
- *Units, a swallowed failure*: `disable --now` may fail without notice; in a removal
  the units then differ from what is wanted and a conflict follows, in an undo the
  candidate goes on running although the journal says "compensated" (`SettledRuns`
  leaves these cases out).
- *Units, a control request* recovers the units without the barrier of Settings and
  writes "conflict" while a Settings compensation is still incomplete.

## 5. Proofs

The proof modules assume what the `ASSUME`s of the models say: the constants that
stand for "none" are distinct from the values, bounds are naturals, switches Boolean.
Nothing is assumed about the number of saves, runs, processes or faults.

**Settings.**  `TypeCorrect` proves `TypeOK` from `Typed`, which splits it into the
disk, the session and the outsiders and adds that a session inside a transaction has
one (`cur`).  `BarrierHolds` proves `OneOpenJournal`.  That is not inductive: nothing
in it says that a save about to write its journal is alone.  `Barrier` adds four
facts: past recovery no journal is open; while a save runs or undoes itself only its
own journal can be; during a recovery pass every open journal is still to be looked
at or has blocked the pass; and the journal being recovered is open.  The last two
carry the argument through the pass, and `RecoveryDone` turns them into the first.

`SettingsBundleProofs` continues from `Barrier`.  `History` adds that the place of the
session tells the status of its journal, what a plan may say (`PlanShape`), and where
documents come from: a document that carries a transaction's tag was written after
that transaction staged its preimage (`AllTraced`, `StagedFirst`).  `PreimagesAreThere`
follows at once.  `KeysMatch` adds `KeysFit`, which holds while no unlocked writer has
begun (`Alone`): keys that a preimage of an open journal names are still stored, every
stored key is owned by a transaction that is open or committed, and a compensation
that deletes keys has already restored the document that named them.
`OutsideEditsKept` adds `Windows`: between a comparison and the replacement after it
settings.json is what was compared, or the writer is in `raced`.

`CommittedStays` assumes `~DirSyncMayFail`, and `SavesAreAtomic` assumes `Quiet`, which
is that and `Outside = {}`; `settings_commit_undone` refutes the first without its
hypothesis, and an unlocked writer changes a document no save has planned.  The
refinement maps the disk to what recovery would leave behind, so a save takes effect in
`Finalize`, which writes the terminal journal, an `ensure_settings` is a `Touch`, and
every other step, the replacements and the steps of a recovery included, is a stutter.
`BundleFits` says why: at each place of the session the two files are the preimages or
the after-documents of its journal.

**RAG index store.**  `TypeCorrect` proves `TypeOK`.  `CandidatesAreSafe` rests on
`Exclusive`: a process inside a locked operation is the one the lock names, and the
candidate it builds is there; a promotion can prune only with the lock.  It holds
with rollbacks, kills and failing deletions.  `ActiveIndexIsSafe`,
`PromotionIsEffective` and `BuildsKeepTheActiveIndex` assume `PromotionsOnly`, no
rollback and logs that can be written, because `rag_rollback_race` and
`LogMayFail` refute them without.  `Settled` says what the holder of the lock
knows: the temporary manifest is its own, a build writes the active run back, a
promotion switches to a complete snapshot that was not active.  `RollbacksAreSafe`
puts rollbacks back and proves `IndexWhole` under `OneAfterAnother`: one process,
deletions that succeed and logs that can be written; kills and failures stay.
Without each of the three it is false: a second process prunes what an unlocked
rollback restores (`rag_rollback_race`), a failing deletion leaves half a snapshot,
and a promotion whose log entry fails deletes the snapshot it has just made active.  The strengthening is about history:
`Past` says that a run that was ever active has its snapshot in full or nothing is left
of it, its candidate included, so nothing promotes it a second time over a snapshot that
a backup names; `Knows` says what the one operation carries: a build a run that was never
active, a promotion a run that is complete, a rollback a payload that is.

**History backfill.**  All safety properties of the passing run are proved.  The
argument follows the code: since rows change by transforms only, `LedgerChange` says
that every step changes at most one row by a transform, or appends one, and `Good`
says what each transform may do.  A transform leaves an ended row alone
(`EndsAreFinal`) and keeps a row `Sound`: a live row's cancel flag agrees with its
status, and an ended one's retry list is what was not done.  Neither `CancelsWin` nor
`RetriesAreTheRest` is inductive without that: a row whose flag and status disagreed
could be set going again.  `TypeCorrect` needs more than types: a busy worker has a
run, one in the middle of a stage has a stage (`HasJob`, `AtStage`), and a
reconciliation that blames somebody blames somebody known.  `OneActiveRun` adds
`ScanCovers`: from the listing to the insertion, every active run is in the list of
the request, whatever workers do to the rows, because the list loses only runs that
ended.  `StagesStartSafely` combines it with the claim, the only step that starts a
stage.  `CompletedRunsAreReal` adds that a result about to be recorded is of a stage
that was written (`ResultsReal`), and that no other transform claims more than its
row did (`ClaimsNoMore`).

**User units.**  `TypeCorrect` proves `TypeOK`.  `SettingsStayHeld` rests on
`JournalFits`: a session that works on a unit journal has one open, one that begins or
captures has none, and one about to replace or commit Settings has one exactly if it
is a handoff.  `ConflictsAreExplained` proves that every conflict has a cause, which
is far from inductive: it needs to know that, with nobody interfering, what recovery
or a restoration will find is what it allows, or a unit systemd is still at work on.
`Explained` says so while the journal
is open and calm: the status of the Settings journal fits the place of the session,
the units are as before or after as far as the phase says, and at rest from the first
step of the handoff to a cut (`UnitsFit`), and what each unit is, and what it becomes
when systemd is done with it (`Becoming`), is allowed by the phase (`Expected`).  The
central lemma is `CutIsExpected`: a command that is cut off anywhere leaves every unit
in a state the phase armed before it allows, at once and later, which is why `Settle`
keeps the invariant.  It rests on `CutEffects`, what part of a command makes of a unit.
`ConflictsExcluded` concludes that a look which is not satisfied found a unit in
transit, the cause `"job"`.

**Updates.**  Nothing is assumed beyond `UpdateAssumption`: the theorems hold with
users who meddle, removals that stop half-way, and any number of transactions, units
and faults.  `TypeCorrect` proves `TypeOK` from `Typed`, which adds where a helper can
be and what it goes through.  The others rest on `Fits`, checked with TLC before
it was proved.  It has a part for each question a step can raise:

- `StatusFits`: what the status of the journal tells of the command in its middle.
  A helper reads the journal at its start only, so a later command could not rely on
  it without this.
- `LockFits`: a journal that is not terminal holds the lock, a marker belongs to a
  repair of the journal and to its lock, and what a repair has set by the time it
  writes its binding.  `RepairIsFenced` is two of its conjuncts, which alone are not
  inductive: the steps between the marker, the binding and the commit are told apart by
  `h.pc`.
- `PtrFits`: a pointer that is not armed names the recorded release unless a user set
  it; one that is armed is to be replaced and is not yet back; no pointer names a
  release that is still to come (otherwise "is it the candidate?" would confuse two
  transactions); once verified all are the candidate, once rolled back none is armed.
- `DiskFits`: what a reserving record says of its directory, and that no directory is
  left in its place once a rollback is past its files.

`PointersSettle` follows from `PtrFits` and `DiskFits` at the three ends.  For
`CommitsStay` and `ReleasesAreAtomic` every step is shown to be of one of five kinds: it
leaves the lock, the recorded pair and the commit alone (`Frame`), begins, unlocks
(`Settles`), commits, or is a user who moves a pointer.  Only `Commits` switches the live
pair, and by `Candidate` it switches all its pointers to the release of the journal.

`UnitsStayOnOnePair` proves `UnitsRunOnePair` from `UnitsFit`, an invariant next to
`Fits` that TLC checked first on the instance of *update*.  The property only speaks of
mixed pointers and of ends; what makes it true was done by earlier commands, so that
`UnitsFit` follows the units (those of the journal that nobody else changed, `Own`)
through all of them:

- `RowsFit`: what the journal says of the units.  A pointer is armed, and a transaction
  gets past its stop, only if the intent to stop is on record.
- `WorkFits`: what a command still has to do.  A stop that prepares a repair has on
  record, or in its list, every unit that was enabled; a promotion leaves the candidate
  behind it; a rollback that restores units got that far without an error.
- `StatesFit`: until a commit a unit is enabled as before or not at all, and differs
  from before otherwise only if it ran (`Tame`); units are back as before where a command
  claims so (`AllAsBefore`); they are quiet from the stop to the restart (`Quiet`) and
  afterwards run what the pointers name (`OnPair`); while the pointers are mixed they are
  quiet.  A restart of the machine starts what is enabled, so this part is claimed only
  until then.
- `Isolated`: the units of a repair are disabled as long as its pointers may be mixed,
  which is why a restart does not start them.
- `RepairFits`: a committed repair has its retained units as before once its
  completion is on record, or about to be.

`StuckFits` follows the units that a rollback failed to stop: the rollback has an error
on record from then on, or is a repetition that still has to ask again, so none ends as
"rolled-back" while such a unit runs.

Most steps are of two kinds, those that leave units, pointers and the journal's unit
rows alone (`Unmoved`) and those that take units or pointers out of our hands
(`Fewer`); one lemma for each covers all five parts, so that only the steps that start,
stop, enable or arm something need an argument of their own.

**Daily pipelines.**  `OnePipeline` proves `OneAtATime` from `LockInv`: whoever is
between flock and release holds the lock of the file it has open, and, as long as
nothing was `doubled`, every open file is the one that has the name.  Two in the
pipeline then hold the same file.  `TypeCorrect` proves `TypeOK` from `Typed`, which
needs to know at each place which of row, parent and stage a worker has, and bounds the
rows (`Roomy`).

`ReportsAreSound` proves `CompletedIsSound`.  The property speaks of the step that
completes a run; the invariant `Sources` has to carry the facts there from the passes,
often of another run, that made them.  Rows of failed runs never change and the proofs
in a row are of whole reports of that row's own lineage (`Ledger`); a retry plans with
proofs of the failed run it retries (`PlanFits`); and what is behind a working run,
in the order of the stages, is whole and of its lineage unless it is in `foreign` or
hidden (`BehindIsGood`).  A lineage is a recursive function of the rows, so that a
longer list of rows leaves the lineages of the old ones as they are needs
an induction up to a number; the library's theorems for that take an operator, so
`Induction` derives it from the pigeonhole principle for finite sets.  The exception
for hidden narratives came from this proof: without it `ProofFits` is not inductive,
and the step that breaks it is a behaviour of the code (section 4).

**Model-checked only.**  Liveness (`OpenJournalResolved`, `JobsEnd`, `RunsEnd`, both
`Resolves`) is out of the prover's reach.  `SettledRuns` and
`ImplementsAtomicRegistration` of user units, which need an invariant about what each
unit runs at each place, hold on the instances above.

## 6. Fairness

- *Settings*: a session that holds the lock goes on until it raises or is killed, and
  somebody takes the lock again and again (every save, refresh and start of the
  dashboard does, and each recovers first); a key that cannot be deleted can be
  deleted sooner or later.  Without the last the journal stays open, which is what
  the code intends.
- *RAG*: a process that started an operation goes on.  `JobsEnd` exempts
  kills, since nothing closes the job of a process that died, and is checked for refresh
  and sync jobs, since the promotion that ends a migration may find the lock taken.
- *Backfill*: threads and the event loop go on, tasks and due scheduled runs are
  started, and the jobs panel keeps asking for the list of runs, also after a run
  became overdue.  The strong fairness of `Look` says no more than that: polling
  continues, and its steps are possible only between two requests.  Scheduled runs
  are started only if the schedule is enabled.
- *Updates*: a helper and its installer run on, and somebody starts another installer
  as long as one is needed; kills, restarts and failures are not fair.
- *Daily pipelines*: a worker goes on (a pass has a time limit, so it ends), and the
  dashboard takes the repairs it has queued, as its background tasks do.  Starts,
  requests and faults are not fair, and a pass that outlived its pipeline may stop.
- *Units*: a session that began goes on; a unit that systemd is restarting ends up
  active or failed.  Strong fairness of `Start("save")` says that Settings are saved
  again and again (`ensure_settings` does on many reads), of `OwnerExits` that a
  process which left an open journal ends some day.

## 7. Plan

1. `SettingsTransaction`, `AtomicSettings`, their runs and first proofs: done.
2. `RagIndexStore`, its runs and proofs: done.
3. `HistoryBackfill`, its runs and proofs: done.
4. `UnitTransaction`, `AtomicRegistration`, the run and proofs: done.
5. `UpdateState` to `UpdateProperties`, `AtomicRelease`, the runs and proofs: done.
6. `DailyPipeline`, its run and proofs: done.
7. `Backup`, the Nova-Task store, the mutation guard.

Theorems to come for existing modules: `SettledRuns` and
`ImplementsAtomicRegistration`.  Runs of one component
that ask related questions will be merged as new components need runs of their own.
