------------------------- MODULE SettingsTransaction -------------------------
(***************************************************************************)
(* The crash-recoverable Settings transaction of                           *)
(* src/src/data_foundation/settings_transaction.py.                        *)
(*                                                                         *)
(* A save replaces two files, config/settings.json and config/runtime.json,*)
(* and may create provider keys in the secret store.  The three stores     *)
(* have no common commit, so a save writes a journal first, keeps the      *)
(* preimages beside it, and marks the journal committed last.  Whoever     *)
(* takes the transaction lock next compensates every journal that is       *)
(* neither committed nor compensated before it does anything of its own.   *)
(*                                                                         *)
(* One session holds the lock at a time (an exclusive flock), so one       *)
(* program counter describes the process inside the boundary.  A session   *)
(* may raise or be killed between any two of its steps.  Writers that do   *)
(* not take the lock read settings.json in one step and replace it in a    *)
(* later one.                                                              *)
(*                                                                         *)
(* Left out: the journal's phase field, which recovery reports and never   *)
(* consults; the settings.after and manifest.after snapshots, which are    *)
(* never read; the wording of summaries.                                   *)
(***************************************************************************)
EXTENDS Naturals, FiniteSets

CONSTANTS
  Txn,            \* transaction identities (uuid4().hex)
  Slot,           \* provider slots a save may hold a key for
  Edit,           \* single-file writes of settings.json, each used once
  Outside,        \* the edits made by writers that do not take the lock
  Genesis,        \* the tag of the documents a fresh home starts with
  Absent,         \* a file that does not exist
  NoTxn,          \* no transaction is being executed or compensated
  DirSyncMayFail, \* may fsync of a directory raise after os.replace took effect
  MaxFaults       \* how many times a session may raise or be killed

ASSUME TagsDistinct ==
  /\ Txn \cap Edit = {}
  /\ Genesis \notin Txn \cup Edit
  /\ NoTxn \notin Txn
ASSUME OutsideAreEdits == Outside \subseteq Edit
ASSUME BoundsTyped == MaxFaults \in Nat /\ DirSyncMayFail \in BOOLEAN

Resource == {"settings", "manifest"}
Secret == Txn \X Slot
Doc == [tag : Txn \cup Edit \cup {Genesis}, refs : SUBSET Secret]

ASSUME AbsentIsNoDoc == Absent \notin Doc

File == Doc \cup {Absent}

(* "none": no directory.  "empty": a directory without journal.json, whose *)
(* plan is so far in the memory of the session alone.                      *)
Status == {"none", "empty", "active", "committed", "conflict",
           "compensated", "incomplete"}
(* Mutated form of Terminal: an incomplete compensation is not retried.     *)
TerminalWithIncomplete == {"committed", "compensated", "incomplete"}
Terminal == {"committed", "compensated"}

Plan == [before : [Resource -> File],
         after  : [Resource -> File],
         owned  : SUBSET Secret]

VARIABLES
  files,     \* settings.json and runtime.json
  secrets,   \* keys present in the secret store
  status,    \* status in state/settings-transactions/<id>/journal.json
  plan,      \* the hashes and owned keys in the same journal
  snapshots, \* the <<id, resource>> preimages on disk
  pc,        \* where the session that holds the lock is
  mode,      \* what that session is for
  cur,       \* the transaction it executes or compensates
  caller,    \* who asked for the compensation
  pending,   \* journals its recovery pass has still to look at
  blocked,   \* a journal could not be resolved by that pass
  cleaned,   \* owned keys the compensation has dealt with
  dirty,     \* a key could not be deleted
  draft,     \* what an outside writer will put in settings.json
  edits,     \* edits already used
  raced,     \* edits that landed inside a check-then-replace window
  faults

disk == <<files, secrets, status, plan, snapshots>>
session == <<pc, mode, cur, caller, pending, blocked, cleaned, dirty>>
outsider == <<draft, edits, raced>>
vars == <<files, secrets, status, plan, snapshots, pc, mode, cur, caller,
          pending, blocked, cleaned, dirty, draft, edits, raced, faults>>

Open(t) == status[t] \in {"active", "conflict", "incomplete"}
RefsOf(file) == IF file = Absent THEN {} ELSE file.refs
Referenced == UNION {RefsOf(files[r]) : r \in Resource}
Changed(t, r) == plan[t].before[r] # plan[t].after[r]

-----------------------------------------------------------------------------
(* Taking the lock and recovering older journals.                          *)

Init ==
  /\ files \in [Resource -> {Absent, [tag |-> Genesis, refs |-> {}]}]
  /\ secrets = {}
  /\ status = [t \in Txn |-> "none"]
  /\ plan = [t \in Txn |-> [before |-> [r \in Resource |-> Absent],
                            after |-> [r \in Resource |-> Absent],
                            owned |-> {}]]
  /\ snapshots = {}
  /\ pc = "idle" /\ mode = "none" /\ cur = NoTxn /\ caller = "none"
  /\ pending = {} /\ blocked = FALSE /\ cleaned = {} /\ dirty = FALSE
  /\ draft = Absent /\ edits = {} /\ raced = {}
  /\ faults = 0

(* The lock is released and the session's memory is gone.                  *)
Release ==
  /\ pc' = "idle" /\ mode' = "none" /\ cur' = NoTxn /\ caller' = "none"
  /\ pending' = {} /\ blocked' = FALSE /\ cleaned' = {} /\ dirty' = FALSE

Goto(label) ==
  /\ pc' = label
  /\ UNCHANGED <<mode, cur, caller, pending, blocked, cleaned, dirty>>

(* A session takes the flock and lists the transaction directories.        *)
Acquire(m) ==
  /\ pc = "idle"
  /\ m = "save" => \E t \in Txn : status[t] = "none"
  /\ m = "ensure" => ~ (Edit \ Outside \subseteq edits)
  /\ pc' = "recover" /\ mode' = m
  /\ pending' = {t \in Txn : status[t] \notin Terminal \cup {"none"}}
  /\ UNCHANGED <<cur, caller, blocked, cleaned, dirty>>
  /\ UNCHANGED <<disk, outsider, faults>>

(* A directory without a journal is removed, or left if rmdir fails.       *)
SweepDirectory(t) ==
  /\ pc = "recover" /\ t \in pending /\ status[t] = "empty"
  /\ \E s \in {"none", "empty"} : status' = [status EXCEPT ![t] = s]
  /\ pending' = pending \ {t}
  /\ UNCHANGED <<files, secrets, plan, snapshots, pc, mode, cur, caller, blocked,
                 cleaned, dirty, outsider, faults>>

RecoverJournal(t) ==
  /\ pc = "recover" /\ t \in pending /\ Open(t)
  /\ pc' = "scan" /\ cur' = t /\ caller' = "recovery"
  /\ UNCHANGED <<mode, pending, blocked, cleaned, dirty>>
  /\ UNCHANGED <<disk, outsider, faults>>

RecoveryBlocked ==
  /\ pc = "recover" /\ pending = {} /\ blocked
  /\ Release
  /\ UNCHANGED <<disk, outsider, faults>>

(* Mutated form of RecoveryDone: a blocked recovery does not stop the save. *)
RecoveryDoneUnblocked ==
  /\ pc = "recover" /\ pending = {}
  /\ IF mode = "recover" THEN Release ELSE Goto("pretransaction")
  /\ UNCHANGED <<disk, outsider, faults>>

RecoveryDone ==
  /\ pc = "recover" /\ pending = {} /\ ~ blocked
  /\ IF mode = "recover" THEN Release ELSE Goto("pretransaction")
  /\ UNCHANGED <<disk, outsider, faults>>

Pretransaction ==
  /\ pc = "pretransaction"
  /\ Goto(IF mode = "save" THEN "prepare" ELSE "ensure")
  /\ UNCHANGED <<disk, outsider, faults>>

(* A callback or validation raises before anything was journalled, or there*)
(* are no defaults to persist.                                             *)
Abandon ==
  /\ pc \in {"pretransaction", "prepare", "ensure"}
  /\ Release
  /\ UNCHANGED <<disk, outsider, faults>>

(* ensure_settings and migrate_persisted_secret_refs on Linux: one file,   *)
(* no journal, under the barrier.                                          *)
EnsureSettings(e) ==
  /\ pc = "ensure" /\ e \in Edit \ (Outside \cup edits)
  /\ files' = [files EXCEPT !["settings"] =
                 [tag |-> e, refs |-> RefsOf(files["settings"])]]
  /\ edits' = edits \cup {e}
  /\ Release
  /\ UNCHANGED <<secrets, status, plan, snapshots, draft, raced, faults>>

-----------------------------------------------------------------------------
(* execute_settings_transaction.                                           *)

(* What a save may put in the files: settings.json keeps the keys of other *)
(* slots; either document may come out byte-identical, a missing one is    *)
(* always created.                                                         *)
PlannedFiles(t, owned) ==
  LET old == RefsOf(files["settings"])
      kept == {ref \in old : \A s \in owned : s[2] # ref[2]}
      new == [settings |-> [tag |-> t, refs |-> kept \cup owned],
              manifest |-> [tag |-> t, refs |-> {}]]
  IN  {after \in [Resource -> {new["settings"], new["manifest"]}
                              \cup {files[r] : r \in Resource}] :
         /\ \A r \in Resource : after[r] \in {new[r], files[r]} \ {Absent}
         /\ owned # {} => after["settings"] = new["settings"]}

(* The preimages are read, the plan is made, the directory is created.     *)
Prepare(t, slots) ==
  /\ pc = "prepare" /\ status[t] = "none"
  /\ LET owned == {t} \X slots IN
     \E after \in PlannedFiles(t, owned) :
       plan' = [plan EXCEPT ![t] = [before |-> files, after |-> after,
                                    owned |-> owned]]
  /\ status' = [status EXCEPT ![t] = "empty"]
  /\ cur' = t /\ pc' = "journal"
  /\ UNCHANGED <<files, secrets, snapshots, mode, caller, pending, blocked,
                 cleaned, dirty, outsider, faults>>

CreateJournal ==
  /\ pc = "journal"
  /\ status' = [status EXCEPT ![cur] = "active"]
  /\ Goto("stage")
  /\ UNCHANGED <<files, secrets, plan, snapshots, outsider, faults>>

(* The first journal write raises: nothing is compensated.  With a failing *)
(* directory fsync the journal is there all the same.                      *)
CreateJournalRaises ==
  /\ pc = "journal" /\ faults < MaxFaults
  /\ \E s \in {"empty"} \cup (IF DirSyncMayFail THEN {"active"} ELSE {}) :
       status' = [status EXCEPT ![cur] = s]
  /\ Release
  /\ faults' = faults + 1
  /\ UNCHANGED <<files, secrets, plan, snapshots, outsider>>

Unstaged == {r \in Resource : /\ plan[cur].before[r] # Absent
                              /\ <<cur, r>> \notin snapshots}

StageSnapshot(r) ==
  /\ pc = "stage" /\ r \in Unstaged
  /\ r = "manifest" => "settings" \notin Unstaged
  /\ snapshots' = snapshots \cup {<<cur, r>>}
  /\ UNCHANGED <<files, secrets, status, plan, session, outsider, faults>>

(* Mutated form of FilesStaged: goes on before the preimages are written.   *)
FilesStagedEarly ==
  /\ pc = "stage"
  /\ Goto("store")
  /\ UNCHANGED <<disk, outsider, faults>>

FilesStaged ==
  /\ pc = "stage" /\ Unstaged = {}
  /\ Goto("store")
  /\ UNCHANGED <<disk, outsider, faults>>

StoreSecret(s) ==
  /\ pc = "store" /\ s \in plan[cur].owned \ secrets
  /\ secrets' = secrets \cup {s}
  /\ UNCHANGED <<files, status, plan, snapshots, session, outsider, faults>>

(* Mutated form of SecretsCreated: goes on before the keys are stored.      *)
SecretsCreatedEarly ==
  /\ pc = "store"
  /\ Goto("precommit")
  /\ UNCHANGED <<disk, outsider, faults>>

SecretsCreated ==
  /\ pc = "store" /\ plan[cur].owned \subseteq secrets
  /\ Goto("precommit")
  /\ UNCHANGED <<disk, outsider, faults>>

PrecommitSideEffects ==
  /\ pc = "precommit"
  /\ Goto("check settings")
  /\ UNCHANGED <<disk, outsider, faults>>

(* An exception inside the try block starts the compensation in process.   *)
Raise ==
  /\ pc' = "scan" /\ caller' = "execute"
  /\ UNCHANGED <<mode, cur, pending, blocked, cleaned, dirty>>

(* Mutated form of CompareSettings: the file is replaced unconditionally.   *)
CompareSettingsBlind ==
  /\ pc = "check settings"
  /\ Goto("put settings")
  /\ UNCHANGED <<disk, outsider, faults>>

(* _cas_replace compares the hash ...                                      *)
CompareSettings ==
  /\ pc = "check settings"
  /\ IF files["settings"] = plan[cur].before["settings"]
       THEN Goto("put settings") ELSE Raise
  /\ UNCHANGED <<disk, outsider, faults>>

(* ... and replaces the file afterwards.                                   *)
ReplaceSettings ==
  /\ pc = "put settings"
  /\ files' = [files EXCEPT !["settings"] = plan[cur].after["settings"]]
  /\ Goto("check manifest")
  /\ UNCHANGED <<secrets, status, plan, snapshots, outsider, faults>>

CompareManifest ==
  /\ pc = "check manifest"
  /\ IF ~ Changed(cur, "manifest") THEN Goto("verify")
     ELSE IF files["manifest"] = plan[cur].before["manifest"]
       THEN Goto("put manifest") ELSE Raise
  /\ UNCHANGED <<disk, outsider, faults>>

ReplaceManifest ==
  /\ pc = "put manifest"
  /\ files' = [files EXCEPT !["manifest"] = plan[cur].after["manifest"]]
  /\ Goto("verify")
  /\ UNCHANGED <<secrets, status, plan, snapshots, outsider, faults>>

(* Mutated form of Verify: the verifier re-enters recovery, which undoes   *)
(* the save it is verifying, and the save goes on.                         *)
VerifyReentersRecovery ==
  /\ pc = "verify"
  /\ files' = plan[cur].before
  /\ secrets' = secrets \ plan[cur].owned
  /\ status' = [status EXCEPT ![cur] = "compensated"]
  /\ Goto("apply")
  /\ UNCHANGED <<plan, snapshots, outsider, faults>>

(* The readiness verifier reads Settings and must not re-enter recovery.   *)
Verify ==
  /\ pc = "verify"
  /\ Goto("apply")
  /\ UNCHANGED <<disk, outsider, faults>>

ApplySideEffects ==
  /\ pc = "apply"
  /\ Goto("finalize")
  /\ UNCHANGED <<disk, outsider, faults>>

(* os.replace makes the committed journal visible ...                      *)
Finalize ==
  /\ pc = "finalize"
  /\ status' = [status EXCEPT ![cur] = "committed"]
  /\ Goto("sync")
  /\ UNCHANGED <<files, secrets, plan, snapshots, outsider, faults>>

(* ... and the directory fsync that follows returns.                       *)
Synced ==
  /\ pc = "sync"
  /\ Goto("postcommit")
  /\ UNCHANGED <<disk, outsider, faults>>

(* Acknowledged under the lock and never compensated; whether it raises or *)
(* not the lock is released.                                               *)
PostcommitSideEffects ==
  /\ pc = "postcommit"
  /\ Release
  /\ UNCHANGED <<disk, outsider, faults>>

(* Mutated form of TryBlock: the acknowledgement is inside the try block.   *)
TryBlockWithPostcommit ==
  {"stage", "store", "precommit", "check settings", "put settings",
   "check manifest", "put manifest", "verify", "apply", "finalize", "postcommit"}
TryBlock == {"stage", "store", "precommit", "check settings", "put settings",
             "check manifest", "put manifest", "verify", "apply", "finalize"}

(* A step of the try block raises.  A step that raises after it took effect*)
(* is this action at the next label.                                       *)
StepRaises ==
  /\ pc \in TryBlock \cup (IF DirSyncMayFail THEN {"sync"} ELSE {})
  /\ faults < MaxFaults
  /\ Raise
  /\ faults' = faults + 1
  /\ UNCHANGED <<disk, outsider>>

-----------------------------------------------------------------------------
(* _compensate_transaction_locked, called by a failed save or by recovery. *)

Conflicts(t) == {r \in Resource :
                   /\ Changed(t, r)
                   /\ files[r] \notin {plan[t].before[r], plan[t].after[r]}}

(* Back to the caller with the status just journalled.                     *)
Return(outcome) ==
  /\ IF caller = "recovery"
       THEN /\ pc' = "recover"
            /\ pending' = pending \ {cur}
            /\ blocked' = (blocked \/ outcome \in {"conflict", "incomplete"})
            /\ cur' = NoTxn
       ELSE /\ pc' = "unwind"
            /\ UNCHANGED <<pending, blocked, cur>>
  /\ caller' = "none" /\ cleaned' = {} /\ dirty' = FALSE
  /\ UNCHANGED mode

(* A file somebody else changed is left alone, and so is everything else.  *)
ScanConflict ==
  /\ pc = "scan" /\ Conflicts(cur) # {}
  /\ status' = [status EXCEPT ![cur] = "conflict"]
  /\ Return("conflict")
  /\ UNCHANGED <<files, secrets, plan, snapshots, outsider, faults>>

ScanClear ==
  /\ pc = "scan" /\ Conflicts(cur) = {}
  /\ Goto("restore manifest")
  /\ UNCHANGED <<disk, outsider, faults>>

NeedsRestore(r) == Changed(cur, r) /\ files[r] # plan[cur].before[r]
PreimageThere(r) == plan[cur].before[r] = Absent \/ <<cur, r>> \in snapshots

(* A changed file that does not hold its preimage is overwritten by it; the*)
(* conflict test is not repeated.                                          *)
Restore(r) ==
  IF NeedsRestore(r)
    THEN /\ PreimageThere(r)
         /\ files' = [files EXCEPT ![r] = plan[cur].before[r]]
    ELSE UNCHANGED files

RestoreLabel == [settings |-> "restore settings", manifest |-> "restore manifest"]

RestoreManifest ==
  /\ pc = RestoreLabel["manifest"]
  /\ Restore("manifest")
  /\ Goto("restore settings")
  /\ UNCHANGED <<secrets, status, plan, snapshots, outsider, faults>>

RestoreSettings ==
  /\ pc = RestoreLabel["settings"]
  /\ Restore("settings")
  /\ Goto("clean")
  /\ UNCHANGED <<secrets, status, plan, snapshots, outsider, faults>>

(* A key a file still names is kept; otherwise it is deleted ...           *)
CleanSecret(s) ==
  /\ pc = "clean" /\ s \in plan[cur].owned \ cleaned
  /\ secrets' = IF s \in Referenced THEN secrets ELSE secrets \ {s}
  /\ cleaned' = cleaned \cup {s}
  /\ UNCHANGED <<files, status, plan, snapshots, pc, mode, cur, caller, pending,
                 blocked, dirty, outsider, faults>>

(* Mutated form of CleanSecretRaises: the failed deletion is forgotten.     *)
CleanSecretRaisesForgotten(s) ==
  /\ pc = "clean" /\ s \in (plan[cur].owned \cap secrets) \ (cleaned \cup Referenced)
  /\ faults < MaxFaults
  /\ cleaned' = cleaned \cup {s}
  /\ faults' = faults + 1
  /\ UNCHANGED <<disk, pc, mode, cur, caller, pending, blocked, dirty, outsider>>

(* ... or the deletion raises and the compensation stays incomplete.       *)
CleanSecretRaises(s) ==
  /\ pc = "clean" /\ s \in (plan[cur].owned \cap secrets) \ (cleaned \cup Referenced)
  /\ faults < MaxFaults
  /\ cleaned' = cleaned \cup {s} /\ dirty' = TRUE
  /\ faults' = faults + 1
  /\ UNCHANGED <<disk, pc, mode, cur, caller, pending, blocked, outsider>>

(* Mutated form of CloseJournal: a status that recovery does not know.      *)
CloseJournalAsFailed ==
  /\ pc = "clean" /\ plan[cur].owned \subseteq cleaned
  /\ LET outcome == IF dirty THEN "failed" ELSE "compensated" IN
     /\ status' = [status EXCEPT ![cur] = outcome]
     /\ Return(outcome)
  /\ UNCHANGED <<files, secrets, plan, snapshots, outsider, faults>>

CloseJournal ==
  /\ pc = "clean" /\ plan[cur].owned \subseteq cleaned
  /\ LET outcome == IF dirty THEN "incomplete" ELSE "compensated" IN
     /\ status' = [status EXCEPT ![cur] = outcome]
     /\ Return(outcome)
  /\ UNCHANGED <<files, secrets, plan, snapshots, outsider, faults>>

(* Compensation itself raises: recovery gives up the lock, a failed save   *)
(* goes on to its cleanups; the journal stays as it was.                   *)
CompensationRaises ==
  /\ pc \in {"scan", "restore manifest", "restore settings", "clean"}
  /\ faults < MaxFaults
  /\ IF caller = "recovery" THEN Release ELSE Return("unknown")
  /\ faults' = faults + 1
  /\ UNCHANGED <<disk, outsider>>

(* A preimage that was never staged cannot be read, which raises as well.  *)
PreimageMissing ==
  /\ \E r \in Resource : pc = RestoreLabel[r] /\ NeedsRestore(r) /\ ~ PreimageThere(r)
  /\ IF caller = "recovery" THEN Release ELSE Return("unknown")
  /\ UNCHANGED <<disk, outsider, faults>>

(* The cleanups of the callbacks run in reverse, and the save raises.      *)
Unwind ==
  /\ pc = "unwind"
  /\ Release
  /\ UNCHANGED <<disk, outsider, faults>>

-----------------------------------------------------------------------------
(* The environment.                                                        *)

(* The process that holds the lock is killed: the kernel drops the flock.  *)
Crash ==
  /\ pc # "idle" /\ faults < MaxFaults
  /\ Release
  /\ faults' = faults + 1
  /\ UNCHANGED <<disk, outsider>>

(* A writer that takes no lock (ensure_settings and write_settings off     *)
(* Linux, an operator's editor) reads settings.json ...                    *)
OutsideRead(e) ==
  /\ draft = Absent /\ e \in Outside \ edits
  /\ draft' = [tag |-> e, refs |-> RefsOf(files["settings"])]
  /\ edits' = edits \cup {e}
  /\ UNCHANGED <<disk, session, raced, faults>>

RaceWindow == {"put settings", "restore manifest", "restore settings"}

(* ... and replaces it later.                                              *)
OutsideWrite ==
  /\ draft # Absent
  /\ files' = [files EXCEPT !["settings"] = draft]
  /\ raced' = IF pc \in RaceWindow THEN raced \cup {draft.tag} ELSE raced
  /\ draft' = Absent
  /\ UNCHANGED <<secrets, status, plan, snapshots, session, edits, faults>>

-----------------------------------------------------------------------------
Recovery ==
  \/ \E t \in Txn : SweepDirectory(t) \/ RecoverJournal(t)
  \/ RecoveryBlocked \/ RecoveryDone

Execution ==
  \/ Pretransaction
  \/ \E e \in Edit : EnsureSettings(e)
  \/ \E t \in Txn, slots \in SUBSET Slot : Prepare(t, slots)
  \/ CreateJournal
  \/ \E r \in Resource : StageSnapshot(r)
  \/ FilesStaged
  \/ \E s \in Secret : StoreSecret(s)
  \/ SecretsCreated \/ PrecommitSideEffects
  \/ CompareSettings \/ ReplaceSettings \/ CompareManifest \/ ReplaceManifest
  \/ Verify \/ ApplySideEffects \/ Finalize \/ Synced \/ PostcommitSideEffects

Compensation ==
  \/ ScanConflict \/ ScanClear \/ RestoreManifest \/ RestoreSettings
  \/ \E s \in Secret : CleanSecret(s)
  \/ CloseJournal \/ Unwind

Progress == Recovery \/ Execution \/ Compensation

Failure ==
  \/ Abandon \/ CreateJournalRaises \/ StepRaises
  \/ CompensationRaises \/ PreimageMissing \/ Crash
  \/ \E s \in Secret : CleanSecretRaises(s)

Outsider == OutsideWrite \/ \E e \in Edit : OutsideRead(e)

Next ==
  \/ \E m \in {"save", "ensure", "recover"} : Acquire(m)
  \/ Progress \/ Failure \/ Outsider

Spec == Init /\ [][Next]_vars

(* A session that is inside the boundary runs to its end unless it is      *)
(* killed, and recovery is called again and again: every save, every Linux *)
(* settings read, the scheduler and the installer begin with it.           *)
FairSpec == Spec /\ WF_vars(Progress) /\ WF_vars(Acquire("recover"))

-----------------------------------------------------------------------------
(* Properties.                                                             *)

TypeOK ==
  /\ files \in [Resource -> File]
  /\ secrets \subseteq Secret
  /\ status \in [Txn -> Status] /\ plan \in [Txn -> Plan]
  /\ snapshots \subseteq Txn \X Resource
  /\ pc \in {"idle", "recover", "pretransaction", "prepare", "ensure",
             "journal", "sync", "postcommit", "scan", "restore manifest",
             "restore settings", "clean", "unwind"} \cup TryBlock
  /\ mode \in {"none", "save", "ensure", "recover"}
  /\ cur \in Txn \cup {NoTxn}
  /\ caller \in {"none", "execute", "recovery"}
  /\ pending \subseteq Txn /\ blocked \in BOOLEAN
  /\ cleaned \subseteq Secret /\ dirty \in BOOLEAN
  /\ draft \in File /\ edits \subseteq Edit /\ raced \subseteq Edit
  /\ faults \in 0..MaxFaults

(* At most one journal is unresolved: no save builds on top of a bundle    *)
(* that an earlier, interrupted save still has to undo (the barrier of     *)
(* settings_mutation_barrier).  Recovery in directory-name order is safe   *)
(* for this reason only.                                                   *)
OneOpenJournal ==
  \A t, u \in Txn : Open(t) /\ Open(u) => t = u

(* Every key settings.json or runtime.json names is in the secret store:   *)
(* keys are stored before the files that name them and deleted after the   *)
(* files that named them are restored.                                     *)
NoDanglingReference == Referenced \subseteq secrets

(* When the lock is free and no journal is open, the store holds no key of *)
(* a save that was undone, unless a file names it.                         *)
NoStraySecret ==
  (pc = "idle" /\ \A t \in Txn : ~ Open(t)) =>
    \A s \in secrets : status[s[1]] = "committed" \/ s \in Referenced

(* The secret store and the documents agree, in both directions, as long as*)
(* nobody writes settings.json without the lock.                           *)
SecretsMatch == edits \cap Outside = {} => NoDanglingReference /\ NoStraySecret

(* Whenever an unresolved save has replaced a file, the preimage that undoes*)
(* it is on disk.                                                          *)
PreimageOnDisk ==
  \A t \in Txn, r \in Resource :
    (Open(t) /\ Changed(t, r) /\ files[r] = plan[t].after[r]
             /\ plan[t].before[r] # Absent) => <<t, r>> \in snapshots

(* A committed journal is never reopened or compensated.                   *)
CommittedIsFinal ==
  [][\A t \in Txn : status[t] = "committed"
                       => status'[t] = "committed"]_vars

(* A document somebody wrote outside the lock is replaced by a session only*)
(* if a save read it and builds on it, or ensure_settings completes it,    *)
(* unless it landed inside a check-then-replace window.                    *)
OverwritesUnseen(ids) ==
  /\ files["settings"] # Absent /\ files["settings"].tag \in ids
  /\ files'["settings"] # files["settings"] /\ draft' = draft
  /\ pc # "ensure" /\ files["settings"] # plan[cur].before["settings"]
OutsideEditKept == [][~ OverwritesUnseen(Outside \ raced)]_vars

(* An unresolved journal is eventually resolved.                           *)
OpenJournalResolved == \A t \in Txn : Open(t) ~> ~ Open(t)

(* Readers under the lock see whole saves only: the bundle recovery would  *)
(* leave behind changes by whole saves, and the keys a committed journal   *)
(* owns come with the documents that name them and stay.                   *)
RecoveredFiles ==
  [r \in Resource |->
     IF \E t \in Txn : Open(t)
       THEN plan[CHOOSE t \in Txn : Open(t)].before[r]
       ELSE files[r]]
PromisedSecrets ==
  UNION {plan[t].owned : t \in {u \in Txn : status[u] = "committed"}}

Bundle == INSTANCE AtomicSettings WITH
            bundle <- RecoveredFiles,
            promised <- PromisedSecrets, keys <- PromisedSecrets \cap secrets
ImplementsAtomicSettings == Bundle!Spec

=============================================================================
