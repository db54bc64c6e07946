---------------------------- MODULE RagIndexStore ----------------------------
(***************************************************************************)
(* The nova-RAG v2 index store: candidate builds, promotion, pruning and   *)
(* manifest rollback (src/src/agentic_rag/rag_v2_sync.py, rag_v2_indexer,  *)
(* rag_v2_store, rag_v2_promote, rag_v2_retention, rag_v2_rollback), and   *)
(* the background jobs that drive them                                     *)
(* (src/src/dashboard/app/services/rag_index_jobs.py).                     *)
(*                                                                         *)
(* Readers find the index through one file, the root manifest.  Builds and *)
(* promotions hold a lock that is tried once and never waited for; a       *)
(* rollback takes no lock.  Every writer of the root manifest reads it,    *)
(* writes manifest.json.tmp and renames it, three steps of which each      *)
(* writer uses the same temporary name.                                    *)
(*                                                                         *)
(* A manifest is abstracted to the run it names as active, or NoRun when   *)
(* its status is not "active".  A snapshot directory is "complete" when its*)
(* index.jsonl is there in full, "copying" while that file may be there in *)
(* part, "partial" when the directory is there without it.  Writing the    *)
(* temporary manifest is one step that happens or does not.  A job and the *)
(* run it builds share an identity.  Left out: chunks, embeddings, profiles*)
(* (a candidate or backup that does not match the profile may be refused at*)
(* any time), audit logs, and promote_candidate of rag_v2_store, which     *)
(* nothing calls.                                                          *)
(***************************************************************************)
EXTENDS Naturals, FiniteSets

CONSTANTS
  Run,            \* run identities
  Proc,           \* processes and worker threads that operate on the store
  Kinds,          \* the operations they perform, a subset of AllKinds
  NoRun,          \* no run
  NoFile,         \* there is no temporary manifest
  Free,           \* nobody holds the lock
  DeletesMayFail, \* may removing a run directory fail half-way
  LogMayFail,     \* may appending to build-runs.jsonl or promotions.jsonl raise
  MaxFaults,      \* how many operations may raise
  MaxCrashes      \* how many processes may be killed

AllKinds == {"refresh", "sync", "migration", "promote", "rollback"}

ASSUME KindsKnown == Kinds \subseteq AllKinds
ASSUME ValuesDistinct == NoRun \notin Run /\ NoFile \notin Run \cup {NoRun} /\ Free \notin Proc
ASSUME SwitchesTyped ==
  /\ DeletesMayFail \in BOOLEAN /\ LogMayFail \in BOOLEAN
  /\ MaxFaults \in Nat /\ MaxCrashes \in Nat

Manifest == Run \cup {NoRun}
Content == {"none", "copying", "partial", "complete"}
Builds == {"refresh", "sync", "migration"}

VARIABLES
  root,       \* manifest.json
  tmp,        \* manifest.json.tmp
  candidates, \* indexes/candidates/<run>
  snapshots,  \* indexes/active/<run>
  backups,    \* manifest.backups
  lock,       \* who holds locks/sync-promote.lock
  jobs,       \* candidate-refresh-jobs.jsonl: the status of each job
  pc,         \* where each process is
  op,         \* what it does
  run,        \* on which run
  payload,    \* the manifest it is about to write
  then,       \* where it goes once that is written
  faults, crashes

store == <<root, tmp, candidates, snapshots, backups>>
vars == <<root, tmp, candidates, snapshots, backups, lock, jobs, pc, op, run,
          payload, then, faults, crashes>>

Init ==
  /\ root = NoRun /\ tmp = NoFile
  /\ candidates = [r \in Run |-> "none"] /\ snapshots = [r \in Run |-> "none"]
  /\ backups = {}
  /\ lock = Free
  /\ jobs = [r \in Run |-> "none"]
  /\ pc = [p \in Proc |-> "idle"] /\ op = [p \in Proc |-> "none"]
  /\ run = [p \in Proc |-> NoRun]
  /\ payload = [p \in Proc |-> NoRun] /\ then = [p \in Proc |-> "idle"]
  /\ faults = 0 /\ crashes = 0

-----------------------------------------------------------------------------
(* The steps of a process.                                                 *)

Goto(p, label) == pc' = [pc EXCEPT ![p] = label]

(* The operation is over; the lock is released if it was held.             *)
Finish(p) ==
  /\ Goto(p, "idle")
  /\ op' = [op EXCEPT ![p] = "none"] /\ run' = [run EXCEPT ![p] = NoRun]
  /\ payload' = [payload EXCEPT ![p] = NoRun] /\ then' = [then EXCEPT ![p] = "idle"]
  /\ lock' = IF lock = p THEN Free ELSE lock

(* The closing record of the job that p executes, if it executes one.      *)
CloseJob(p, status) ==
  jobs' = IF op[p] \in Builds \cup {"auto-promote"}
            THEN [jobs EXCEPT ![run[p]] = status] ELSE jobs

(* The operation raises.  The job functions catch what sync raises; the    *)
(* promotion that ends a profile migration is outside their try block.     *)
Raise(p) ==
  /\ Finish(p)
  /\ IF op[p] \in Builds THEN CloseJob(p, "failed") ELSE UNCHANGED jobs

(* A job is queued and started, or an operator promotes or rolls back.     *)
Start(p, kind) ==
  /\ pc[p] = "idle" /\ kind \in Kinds
  /\ op' = [op EXCEPT ![p] = kind]
  /\ Goto(p, IF kind = "rollback" THEN "validate" ELSE "lock")
  /\ \/ /\ kind \in Builds
        /\ \E r \in Run : /\ jobs[r] = "none"
                          /\ jobs' = [jobs EXCEPT ![r] = "open"]
                          /\ run' = [run EXCEPT ![p] = r]
     \/ /\ kind = "promote"
        /\ \E r \in Run : jobs[r] # "none" /\ run' = [run EXCEPT ![p] = r]
        /\ UNCHANGED jobs
     \/ /\ kind = "rollback" /\ backups # {}
        /\ UNCHANGED <<jobs, run>>
  /\ UNCHANGED <<store, lock, payload, then, faults, crashes>>

(* Mutated form of TakeLock: the lock is not exclusive.                     *)
TakeLockShared(p) ==
  /\ pc[p] = "lock"
  /\ lock' = p
  /\ Goto(p, IF op[p] \in Builds THEN "register" ELSE "check")
  /\ UNCHANGED <<store, jobs, op, run, payload, then, faults, crashes>>

TakeLock(p) ==
  /\ pc[p] = "lock" /\ lock = Free
  /\ lock' = p
  /\ Goto(p, IF op[p] \in Builds THEN "register" ELSE "check")
  /\ UNCHANGED <<store, jobs, op, run, payload, then, faults, crashes>>

(* Mutated form of LockBusy: a blocked job is not recorded.                 *)
LockBusyUnrecorded(p) ==
  /\ pc[p] = "lock" /\ lock # Free
  /\ Finish(p)
  /\ UNCHANGED <<store, jobs, faults, crashes>>

(* A build is reported as blocked, a promotion raises.                     *)
LockBusy(p) ==
  /\ pc[p] = "lock" /\ lock # Free
  /\ Finish(p)
  /\ IF op[p] \in Builds THEN CloseJob(p, "blocked") ELSE UNCHANGED jobs
  /\ UNCHANGED <<store, faults, crashes>>

(* Mutated form of RootForCandidate: the active run is forgotten.           *)
RootForCandidateEmpty(existing) == NoRun

(* _root_manifest_for_candidate_update: an active manifest stays active and*)
(* only notes the candidate, any other takes the candidate's status.       *)
RootForCandidate(existing) == existing

(* initialize_shadow_build, up to the reading of the root manifest.        *)
Register(p) ==
  /\ pc[p] = "register"
  /\ candidates' = [candidates EXCEPT ![run[p]] = "building"]
  /\ payload' = [payload EXCEPT ![p] = RootForCandidate(root)]
  /\ then' = [then EXCEPT ![p] = "build"] /\ Goto(p, "write")
  /\ UNCHANGED <<root, tmp, snapshots, backups, lock, jobs, op, run, faults, crashes>>

(* The rest of build_v2_candidate_index, up to the same point.             *)
Build(p) ==
  /\ pc[p] = "build"
  /\ \E outcome \in {"ready", "partial"} :
       candidates' = [candidates EXCEPT ![run[p]] = outcome]
  /\ payload' = [payload EXCEPT ![p] = RootForCandidate(root)]
  /\ then' = [then EXCEPT ![p] = "gate"] /\ Goto(p, "write")
  /\ UNCHANGED <<root, tmp, snapshots, backups, lock, jobs, op, run, faults, crashes>>

(* The embedding server is not ready or serves another profile.            *)
ServerNotReady(p) ==
  /\ pc[p] = "register"
  /\ Finish(p) /\ CloseJob(p, "blocked")
  /\ UNCHANGED <<store, faults, crashes>>

(* A build or a rollback raises: the server stops answering, a source      *)
(* cannot be read, the disk is full.                                       *)
OperationRaises(p) ==
  /\ \/ pc[p] \in {"register", "build", "save"}
     \/ pc[p] \in {"write", "replace"} /\ then[p] # "prune"
  /\ faults < MaxFaults
  /\ Raise(p)
  /\ faults' = faults + 1
  /\ UNCHANGED <<store, crashes>>

(* The gates of sync: a partial candidate ends the job; a ready one is     *)
(* promoted under the same lock by a production sync, and by a profile     *)
(* migration in a second operation, after the lock was released.           *)
Gate(p) ==
  /\ pc[p] = "gate"
  /\ \/ /\ candidates[run[p]] # "ready"
        /\ Finish(p) /\ CloseJob(p, "blocked")
     \/ /\ candidates[run[p]] = "ready" /\ op[p] = "refresh"
        /\ Finish(p) /\ CloseJob(p, "candidate-ready")
     \/ /\ candidates[run[p]] = "ready" /\ op[p] = "migration"
        /\ Goto(p, "lock") /\ op' = [op EXCEPT ![p] = "auto-promote"]
        /\ lock' = Free
        /\ UNCHANGED <<jobs, run, payload, then>>
     \/ /\ candidates[run[p]] = "ready" /\ op[p] = "sync"
        /\ Goto(p, "check")
        /\ UNCHANGED <<jobs, op, run, payload, then, lock>>
  /\ UNCHANGED <<store, faults, crashes>>

-----------------------------------------------------------------------------
(* _promote_v2_candidate_locked.                                           *)

Validated(r) == candidates[r] = "ready" /\ snapshots[r] = "none"

MakeSnapshot(p) ==
  /\ pc[p] = "check" /\ Validated(run[p])
  /\ snapshots' = [snapshots EXCEPT ![run[p]] = "copying"]
  /\ Goto(p, "copy")
  /\ UNCHANGED <<root, tmp, candidates, backups, lock, jobs, op, run, payload,
                 then, faults, crashes>>

(* The candidate is missing, not ready, promoted before, or built for      *)
(* another profile.                                                        *)
PromotionRefused(p) ==
  /\ pc[p] = "check"
  /\ Raise(p)
  /\ UNCHANGED <<store, faults, crashes>>

CopyFiles(p) ==
  /\ pc[p] = "copy"
  /\ snapshots' = [snapshots EXCEPT ![run[p]] = "complete"]
  /\ Goto(p, "backup")
  /\ UNCHANGED <<root, tmp, candidates, backups, lock, jobs, op, run, payload,
                 then, faults, crashes>>

(* Mutated form of BackupRoot: the temporary file is copied instead.        *)
BackupRootOfTmp(p) ==
  /\ pc[p] = "backup"
  /\ backups' = backups \cup {tmp}
  /\ payload' = [payload EXCEPT ![p] = run[p]]
  /\ then' = [then EXCEPT ![p] = "prune"] /\ Goto(p, "write")
  /\ UNCHANGED <<root, tmp, candidates, snapshots, lock, jobs, op, run, faults, crashes>>

(* The manifest that is about to be replaced is kept.                      *)
BackupRoot(p) ==
  /\ pc[p] = "backup"
  /\ backups' = backups \cup {root}
  /\ payload' = [payload EXCEPT ![p] = run[p]]
  /\ then' = [then EXCEPT ![p] = "prune"] /\ Goto(p, "write")
  /\ UNCHANGED <<root, tmp, candidates, snapshots, lock, jobs, op, run, faults, crashes>>

(* Removing a directory may be left out or end half-way.                   *)
Removed(content) ==
  {"none"} \cup (IF DeletesMayFail /\ content # "none" THEN {content, "partial"} ELSE {})

(* Mutated form of Prune: the current snapshot is not exempted.             *)
PruneAll(p) ==
  /\ pc[p] = "prune"
  /\ snapshots' \in [Run -> Content]
  /\ \A r \in Run : snapshots'[r] \in Removed(snapshots[r])
  /\ candidates' \in [Run -> {"none", "building", "partial", "ready"}]
  /\ \A r \in Run : candidates'[r] \in Removed(candidates[r])
  /\ Goto(p, "log")
  /\ UNCHANGED <<root, tmp, backups, lock, jobs, op, run, payload, then, faults, crashes>>

(* prune_v2_index_store: only the snapshot just promoted is kept, and no   *)
(* candidate at all; errors are collected and ignored.                     *)
Prune(p) ==
  /\ pc[p] = "prune"
  /\ snapshots' \in [Run -> Content]
  /\ \A r \in Run : snapshots'[r] \in IF r = run[p] THEN {snapshots[r]}
                                                    ELSE Removed(snapshots[r])
  /\ candidates' \in [Run -> {"none", "building", "partial", "ready"}]
  /\ \A r \in Run : candidates'[r] \in Removed(candidates[r])
  /\ Goto(p, "log")
  /\ UNCHANGED <<root, tmp, backups, lock, jobs, op, run, payload, then, faults, crashes>>

AppendLogs(p) ==
  /\ pc[p] = "log"
  /\ Finish(p) /\ CloseJob(p, "promoted")
  /\ UNCHANGED <<store, faults, crashes>>

InPromotion(p) ==
  \/ pc[p] \in {"copy", "backup"} \cup (IF LogMayFail THEN {"log"} ELSE {})
  \/ pc[p] \in {"write", "replace"} /\ then[p] = "prune"

(* Mutated form of PromotionRaises: the half-made snapshot stays.           *)
PromotionRaisesUncleaned(p) ==
  /\ InPromotion(p) /\ faults < MaxFaults
  /\ Raise(p)
  /\ faults' = faults + 1
  /\ UNCHANGED <<store, crashes>>

(* Whatever step raises, the new snapshot is removed.                      *)
PromotionRaises(p) ==
  /\ InPromotion(p) /\ faults < MaxFaults
  /\ \E left \in Removed(snapshots[run[p]]) :
       snapshots' = [snapshots EXCEPT ![run[p]] = left]
  /\ Raise(p)
  /\ faults' = faults + 1
  /\ UNCHANGED <<root, tmp, candidates, backups, crashes>>

-----------------------------------------------------------------------------
(* Writing the root manifest: _write_json_atomic.                          *)

WriteTmp(p) ==
  /\ pc[p] = "write"
  /\ tmp' = payload[p]
  /\ Goto(p, "replace")
  /\ UNCHANGED <<root, candidates, snapshots, backups, lock, jobs, op, run, payload,
                 then, faults, crashes>>

ReplaceRoot(p) ==
  /\ pc[p] = "replace" /\ tmp # NoFile
  /\ root' = tmp /\ tmp' = NoFile
  /\ IF then[p] = "idle"
       THEN Finish(p)
       ELSE Goto(p, then[p]) /\ UNCHANGED <<op, run, payload, then, lock>>
  /\ UNCHANGED <<candidates, snapshots, backups, jobs, faults, crashes>>

(* Another writer has renamed the temporary file away.                     *)
ReplaceFindsNothing(p) ==
  /\ pc[p] = "replace" /\ tmp = NoFile
  /\ snapshots' = IF then[p] = "prune" THEN [snapshots EXCEPT ![run[p]] = "none"]
                                       ELSE snapshots
  /\ Raise(p)
  /\ UNCHANGED <<root, tmp, candidates, backups, faults, crashes>>

-----------------------------------------------------------------------------
(* rollback_v2_manifest.                                                   *)

(* A backup may be restored if the index file it names as active exists.   *)
Restorable == {b \in backups : b = NoRun \/ snapshots[b] \in {"copying", "complete"}}

(* Mutated form of ValidateBackup: any backup is restored.                  *)
ValidateBackupBlind(p) ==
  /\ pc[p] = "validate"
  /\ \E b \in backups : payload' = [payload EXCEPT ![p] = b]
  /\ Goto(p, "save")
  /\ UNCHANGED <<store, lock, jobs, op, run, then, faults, crashes>>

ValidateBackup(p) ==
  /\ pc[p] = "validate"
  /\ \E b \in Restorable : payload' = [payload EXCEPT ![p] = b]
  /\ Goto(p, "save")
  /\ UNCHANGED <<store, lock, jobs, op, run, then, faults, crashes>>

RollbackRefused(p) ==
  /\ pc[p] = "validate" /\ backups # {NoRun}
  /\ Raise(p)
  /\ UNCHANGED <<store, faults, crashes>>

SaveCurrent(p) ==
  /\ pc[p] = "save"
  /\ backups' = backups \cup {root}
  /\ Goto(p, "write")
  /\ UNCHANGED <<root, tmp, candidates, snapshots, lock, jobs, op, run, payload,
                 then, faults, crashes>>

-----------------------------------------------------------------------------
(* The process is killed: the kernel drops the flock, nothing is recorded. *)
Crash(p) ==
  /\ pc[p] # "idle" /\ crashes < MaxCrashes
  /\ Finish(p)
  /\ crashes' = crashes + 1
  /\ UNCHANGED <<store, jobs, faults>>

Step(p) ==
  \/ TakeLock(p) \/ LockBusy(p) \/ ServerNotReady(p) \/ Register(p) \/ Build(p) \/ Gate(p)
  \/ MakeSnapshot(p) \/ PromotionRefused(p) \/ CopyFiles(p) \/ BackupRoot(p)
  \/ Prune(p) \/ AppendLogs(p)
  \/ WriteTmp(p) \/ ReplaceRoot(p) \/ ReplaceFindsNothing(p)
  \/ ValidateBackup(p) \/ RollbackRefused(p) \/ SaveCurrent(p)

Next ==
  \E p \in Proc :
    \/ \E kind \in Kinds : Start(p, kind)
    \/ Step(p) \/ OperationRaises(p) \/ PromotionRaises(p) \/ Crash(p)

Spec == Init /\ [][Next]_vars

(* A started operation runs on: the executors are threads of the dashboard *)
(* or processes of their own, and no step of them waits for another one.   *)
FairSpec == Spec /\ \A p \in Proc : WF_vars(Step(p))

-----------------------------------------------------------------------------
(* Properties.                                                             *)

TypeOK ==
  /\ root \in Manifest /\ tmp \in Manifest \cup {NoFile}
  /\ candidates \in [Run -> {"none", "building", "partial", "ready"}]
  /\ snapshots \in [Run -> Content]
  /\ backups \subseteq Manifest
  /\ lock \in Proc \cup {Free}
  /\ jobs \in [Run -> {"none", "open", "promoted", "candidate-ready", "blocked", "failed"}]
  /\ pc \in [Proc -> {"idle", "lock", "register", "build", "gate", "check", "copy",
                      "backup", "prune", "log", "write", "replace", "validate", "save"}]
  /\ op \in [Proc -> {"none", "auto-promote"} \cup AllKinds]
  /\ run \in [Proc -> Manifest] /\ payload \in [Proc -> Manifest]
  /\ then \in [Proc -> {"idle", "build", "gate", "prune"}]
  /\ faults \in 0..MaxFaults /\ crashes \in 0..MaxCrashes

(* The index that the root manifest names as active is on disk, complete:  *)
(* search never loses its index to a promotion, a failed promotion, the    *)
(* pruning after it or a rollback.                                         *)
ActiveIndexPresent == root # NoRun => snapshots[root] = "complete"

(* The candidate a build works on is not pruned under it by the promotion  *)
(* of another run.                                                         *)
CandidateSurvivesItsBuild ==
  \A p \in Proc :
    (pc[p] \in {"build", "gate"} \/ (pc[p] \in {"write", "replace"} /\ then[p] \in {"build", "gate"}))
      => candidates[run[p]] # "none"

(* When a promotion reports success, the run it promoted is the active one.*)
PromotedIsActive == \A p \in Proc : pc[p] = "log" => root = run[p]

(* A promotion that fails, but is not killed, leaves no half-made snapshot *)
(* behind: such a directory makes every later promotion of the run fail.   *)
NoHalfSnapshot ==
  crashes = 0 =>
    \A r \in Run : snapshots[r] \in {"copying", "partial"} =>
                    \E p \in Proc : run[p] = r /\ pc[p] = "copy"

(* The active index is complete, and nothing half-made lies beside it.     *)
IndexWhole == ActiveIndexPresent /\ NoHalfSnapshot

(* Building a candidate never changes which index is active.               *)
BuildLeavesActiveAlone ==
  [][\A p \in Proc :
       (pc[p] = "replace" /\ pc'[p] # "replace" /\ then[p] \in {"build", "gate"})
         => root' = root]_vars

(* Every job that was started gets a closing record, unless the dashboard  *)
(* is killed.                                                              *)
JobsEnd == \A r \in Run : jobs[r] = "open" ~> jobs[r] # "open" \/ crashes > 0

=============================================================================
