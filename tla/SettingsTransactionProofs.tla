---------------------- MODULE SettingsTransactionProofs ----------------------
(***************************************************************************)
(* Theorems about SettingsTransaction: its type invariant, and that at most*)
(* one journal is ever unresolved.                                         *)
(***************************************************************************)
EXTENDS SettingsTransaction, TLAPS

(* The keys a file names are keys.                                         *)
LEMMA RefsAreSecrets ==
  ASSUME NEW file \in File
  PROVE  RefsOf(file) \subseteq Secret
  BY AbsentIsNoDoc DEF RefsOf, File, Doc

(* A document made of a known tag and known keys is a file.                *)
LEMMA DocIsFile ==
  ASSUME NEW tag \in Txn \cup Edit \cup {Genesis}, NEW refs \in SUBSET Secret
  PROVE  [tag |-> tag, refs |-> refs] \in File
  BY DEF File, Doc

(* Whatever a save plans is a pair of files.                               *)
LEMMA PlanTyped ==
  ASSUME TypeOK, NEW t \in Txn, NEW slots \in SUBSET Slot,
         NEW after \in PlannedFiles(t, {t} \X slots)
  PROVE  after \in [Resource -> File]
<1> DEFINE owned == {t} \X slots
           old == RefsOf(files["settings"])
           kept == {ref \in old : \A s \in owned : s[2] # ref[2]}
           new == [settings |-> [tag |-> t, refs |-> kept \cup owned],
                   manifest |-> [tag |-> t, refs |-> {}]]
<1>1. files \in [Resource -> File] /\ "settings" \in Resource
  BY DEF TypeOK, Resource
<1>2. owned \subseteq Secret
  BY DEF Secret
<1>3. kept \subseteq Secret
  BY <1>1, RefsAreSecrets
<1>4. new["settings"] \in File /\ new["manifest"] \in File
  BY <1>2, <1>3, DocIsFile
<1>5. after \in [Resource -> {new["settings"], new["manifest"]}
                              \cup {files[r] : r \in Resource}]
  BY DEF PlannedFiles
<1>6. {new["settings"], new["manifest"]} \cup {files[r] : r \in Resource} \subseteq File
  BY <1>1, <1>4
<1> HIDE DEF new
<1> QED
  BY <1>5, <1>6

-----------------------------------------------------------------------------
(* Outside the recovery loop the session works on a transaction.           *)
CurKnown ==
  pc \notin {"idle", "recover", "pretransaction", "prepare", "ensure"} => cur \in Txn

(* The type invariant in three parts: a step of the session leaves most of *)
(* them alone.                                                             *)
SessionTyped ==
  /\ pc \in {"idle", "recover", "pretransaction", "prepare", "ensure",
             "journal", "sync", "postcommit", "scan", "restore manifest",
             "restore settings", "clean", "unwind"} \cup TryBlock
  /\ mode \in {"none", "save", "ensure", "recover"}
  /\ cur \in Txn \cup {NoTxn}
  /\ caller \in {"none", "execute", "recovery"}
  /\ pending \subseteq Txn /\ blocked \in BOOLEAN
  /\ cleaned \subseteq Secret /\ dirty \in BOOLEAN
  /\ CurKnown

DiskTyped ==
  /\ files \in [Resource -> File]
  /\ secrets \subseteq Secret
  /\ status \in [Txn -> Status] /\ plan \in [Txn -> Plan]
  /\ snapshots \subseteq Txn \X Resource

OutsiderTyped ==
  /\ draft \in File /\ edits \subseteq Edit /\ raced \subseteq Edit
  /\ draft # Absent => draft.tag \in Edit

Typed == DiskTyped /\ SessionTyped /\ OutsiderTyped /\ faults \in 0..MaxFaults

LEMMA TypedImpliesTypeOK == Typed => TypeOK
  BY DEF Typed, TypeOK, DiskTyped, SessionTyped, OutsiderTyped

LEMMA InitTyped == Init => Typed
<1> SUFFICES ASSUME Init PROVE Typed
  OBVIOUS
<1>1. [tag |-> Genesis, refs |-> {}] \in File /\ Absent \in File
  BY DocIsFile DEF File
<1>2. files \in [Resource -> File]
  BY <1>1 DEF Init
<1>3. status \in [Txn -> Status] /\ plan \in [Txn -> Plan]
  BY <1>1 DEF Init, Plan, Status
<1>4. /\ secrets \subseteq Secret /\ snapshots \subseteq Txn \X Resource
      /\ pending \subseteq Txn /\ cleaned \subseteq Secret
      /\ edits \subseteq Edit /\ raced \subseteq Edit
  BY DEF Init
<1>5. draft \in File /\ faults \in 0..MaxFaults
  BY <1>1, BoundsTyped DEF Init
<1> QED
  BY <1>2, <1>3, <1>4, <1>5 DEF Init, Typed, DiskTyped, SessionTyped, OutsiderTyped, CurKnown

LEMMA DiskKept == ASSUME DiskTyped, UNCHANGED disk PROVE DiskTyped'
  BY DEF DiskTyped, disk

LEMMA OutsiderKept == ASSUME OutsiderTyped, UNCHANGED outsider PROVE OutsiderTyped'
  BY DEF OutsiderTyped, outsider

LEMMA FaultsKept ==
  ASSUME faults \in 0..MaxFaults,
         UNCHANGED faults \/ (faults < MaxFaults /\ faults' = faults + 1)
  PROVE  faults' \in 0..MaxFaults
  BY BoundsTyped

LEMMA ReleaseTyped == ASSUME Release PROVE SessionTyped'
  BY DEF Release, SessionTyped, CurKnown

LEMMA RaiseTyped == ASSUME SessionTyped, cur \in Txn, Raise PROVE SessionTyped'
  BY DEF Raise, SessionTyped, CurKnown

LEMMA ReturnTyped ==
  ASSUME SessionTyped, cur \in Txn, NEW outcome, Return(outcome)
  PROVE  SessionTyped'
<1>1. CASE caller = "recovery"
  BY <1>1 DEF Return, SessionTyped, CurKnown
<1>2. CASE caller # "recovery"
  BY <1>2 DEF Return, SessionTyped, CurKnown
<1> QED
  BY <1>1, <1>2

LEMMA GotoTyped ==
  ASSUME SessionTyped, cur \in Txn, NEW label, Goto(label),
         label \in {"sync", "postcommit", "scan", "restore manifest",
                    "restore settings", "clean", "unwind"} \cup TryBlock
  PROVE  SessionTyped'
  BY DEF Goto, SessionTyped, CurKnown

(* A planned document, or a preimage, is a file.                           *)
LEMMA PlannedIsFile ==
  ASSUME DiskTyped, NEW t \in Txn, NEW r \in Resource
  PROVE  plan[t].before[r] \in File /\ plan[t].after[r] \in File
  BY DEF DiskTyped, Plan

-----------------------------------------------------------------------------
LEMMA AcquireTyped ==
  ASSUME Typed, NEW m \in {"save", "ensure", "recover"}, Acquire(m)
  PROVE  Typed'
<1>1. SessionTyped'
  BY DEF Typed, SessionTyped, CurKnown, Acquire
<1> QED
  BY <1>1, DiskKept, OutsiderKept, FaultsKept DEF Acquire, Typed

LEMMA RecoveryTyped == ASSUME Typed, Recovery PROVE Typed'
<1> USE DEF Typed
<1>1. ASSUME NEW t \in Txn, SweepDirectory(t) PROVE Typed'
  <2>1. DiskTyped'
    BY <1>1 DEF SweepDirectory, DiskTyped, Status
  <2>2. SessionTyped'
    BY <1>1 DEF SweepDirectory, SessionTyped, CurKnown
  <2> QED
    BY <1>1, <2>1, <2>2, OutsiderKept, FaultsKept DEF SweepDirectory
<1>2. ASSUME NEW t \in Txn, RecoverJournal(t) PROVE Typed'
  <2>1. SessionTyped'
    BY <1>2 DEF RecoverJournal, SessionTyped, CurKnown
  <2> QED
    BY <1>2, <2>1, DiskKept, OutsiderKept, FaultsKept DEF RecoverJournal
<1>3. CASE RecoveryBlocked
  BY <1>3, ReleaseTyped, DiskKept, OutsiderKept, FaultsKept DEF RecoveryBlocked
<1>4. CASE RecoveryDone
  <2>1. SessionTyped'
    BY <1>4, ReleaseTyped DEF RecoveryDone, Goto, SessionTyped, CurKnown
  <2> QED
    BY <1>4, <2>1, DiskKept, OutsiderKept, FaultsKept DEF RecoveryDone
<1> QED
  BY <1>1, <1>2, <1>3, <1>4 DEF Recovery


(* Actions that only move the session on, or leave its memory to Release.  *)
LEMMA MoveTyped ==
  ASSUME Typed, NEW label, Goto(label), UNCHANGED <<disk, outsider, faults>>,
         cur \in Txn,
         label \in {"sync", "postcommit", "scan", "restore manifest",
                    "restore settings", "clean", "unwind"} \cup TryBlock
  PROVE  Typed'
  BY DiskKept, OutsiderKept, FaultsKept, GotoTyped DEF Typed

LEMMA ReleasedTyped ==
  ASSUME Typed, Release, UNCHANGED <<disk, outsider>>,
         UNCHANGED faults \/ (faults < MaxFaults /\ faults' = faults + 1)
  PROVE  Typed'
  BY DiskKept, OutsiderKept, FaultsKept, ReleaseTyped DEF Typed

LEMMA RaisedTyped ==
  ASSUME Typed, Raise, UNCHANGED <<disk, outsider>>, cur \in Txn,
         UNCHANGED faults \/ (faults < MaxFaults /\ faults' = faults + 1)
  PROVE  Typed'
  BY DiskKept, OutsiderKept, FaultsKept, RaiseTyped DEF Typed

LEMMA CurInside ==
  ASSUME Typed,
         pc \in {"journal", "sync", "postcommit", "scan", "restore manifest",
                "restore settings", "clean", "unwind"} \cup TryBlock
  PROVE  cur \in Txn
  BY DEF Typed, SessionTyped, CurKnown, TryBlock

-----------------------------------------------------------------------------
LEMMA ExecutionTyped == ASSUME Typed, Execution PROVE Typed'
<1>1. CASE Pretransaction
  <2>1. SessionTyped'
    BY <1>1 DEF Pretransaction, Goto, Typed, SessionTyped, CurKnown
  <2> QED
    BY <1>1, <2>1, DiskKept, OutsiderKept, FaultsKept DEF Pretransaction, Typed
<1>2. ASSUME NEW e \in Edit, EnsureSettings(e) PROVE Typed'
  <2>1. files["settings"] \in File
    BY DEF Typed, DiskTyped, Resource
  <2>2. [tag |-> e, refs |-> RefsOf(files["settings"])] \in File
    BY <2>1, RefsAreSecrets, DocIsFile
  <2>3. DiskTyped'
    BY <1>2, <2>2 DEF EnsureSettings, Typed, DiskTyped
  <2>4. SessionTyped'
    BY <1>2, ReleaseTyped DEF EnsureSettings
  <2> QED
    BY <1>2, <2>3, <2>4 DEF EnsureSettings, Typed, OutsiderTyped
<1>3. ASSUME NEW t \in Txn, NEW slots \in SUBSET Slot, Prepare(t, slots) PROVE Typed'
  <2>1. PICK after \in PlannedFiles(t, {t} \X slots) :
          plan' = [plan EXCEPT ![t] = [before |-> files, after |-> after,
                                       owned |-> {t} \X slots]]
    BY <1>3 DEF Prepare
  <2>2. after \in [Resource -> File] /\ files \in [Resource -> File]
    BY PlanTyped, TypedImpliesTypeOK DEF TypeOK
  <2>3. [before |-> files, after |-> after, owned |-> {t} \X slots] \in Plan
    BY <2>2 DEF Plan, Secret
  <2>4. plan' \in [Txn -> Plan] /\ status' \in [Txn -> Status]
    BY <1>3, <2>1, <2>3 DEF Prepare, Typed, DiskTyped, Status
  <2>5. DiskTyped'
    BY <1>3, <2>4 DEF Prepare, Typed, DiskTyped
  <2>6. SessionTyped'
    BY <1>3 DEF Prepare, Typed, SessionTyped, CurKnown
  <2> QED
    BY <1>3, <2>5, <2>6, OutsiderKept, FaultsKept DEF Prepare, Typed
<1>4. CASE CreateJournal
  <2>1. cur \in Txn
    BY <1>4, CurInside DEF CreateJournal
  <2>2. DiskTyped'
    BY <1>4, <2>1 DEF CreateJournal, Typed, DiskTyped, Status
  <2>3. SessionTyped'
    BY <1>4, <2>1, GotoTyped DEF CreateJournal, Typed, TryBlock
  <2> QED
    BY <1>4, <2>2, <2>3, OutsiderKept, FaultsKept DEF CreateJournal, Typed
<1>5. ASSUME NEW r \in Resource, StageSnapshot(r) PROVE Typed'
  <2>1. cur \in Txn
    BY <1>5, CurInside DEF StageSnapshot, TryBlock
  <2>2. DiskTyped'
    BY <1>5, <2>1 DEF StageSnapshot, Typed, DiskTyped
  <2>3. SessionTyped'
    BY <1>5 DEF StageSnapshot, session, Typed, SessionTyped, CurKnown
  <2> QED
    BY <1>5, <2>2, <2>3, OutsiderKept, FaultsKept DEF StageSnapshot, Typed
<1>6. ASSUME NEW k \in Secret, StoreSecret(k) PROVE Typed'
  <2>2. DiskTyped'
    BY <1>6 DEF StoreSecret, Typed, DiskTyped
  <2>3. SessionTyped'
    BY <1>6 DEF StoreSecret, session, Typed, SessionTyped, CurKnown
  <2> QED
    BY <1>6, <2>2, <2>3, OutsiderKept, FaultsKept DEF StoreSecret, Typed
<1>7. CASE FilesStaged
  BY <1>7, MoveTyped, CurInside DEF FilesStaged, TryBlock
<1>8. CASE SecretsCreated
  BY <1>8, MoveTyped, CurInside DEF SecretsCreated, TryBlock
<1>9. CASE PrecommitSideEffects
  BY <1>9, MoveTyped, CurInside DEF PrecommitSideEffects, TryBlock
<1>10. CASE CompareSettings
  <2>1. cur \in Txn
    BY <1>10, CurInside DEF CompareSettings, TryBlock
  <2> QED
    BY <1>10, <2>1, MoveTyped, RaisedTyped DEF CompareSettings, TryBlock
<1>11. CASE CompareManifest
  <2>1. cur \in Txn
    BY <1>11, CurInside DEF CompareManifest, TryBlock
  <2> QED
    BY <1>11, <2>1, MoveTyped, RaisedTyped DEF CompareManifest, TryBlock
<1>12. CASE ReplaceSettings
  <2>1. cur \in Txn
    BY <1>12, CurInside DEF ReplaceSettings, TryBlock
  <2>2. plan[cur].after["settings"] \in File
    BY <2>1, PlannedIsFile DEF Typed, Resource
  <2>3. DiskTyped'
    BY <1>12, <2>2 DEF ReplaceSettings, Typed, DiskTyped
  <2>4. SessionTyped'
    BY <1>12, <2>1, GotoTyped DEF ReplaceSettings, Typed, TryBlock
  <2> QED
    BY <1>12, <2>3, <2>4, OutsiderKept, FaultsKept DEF ReplaceSettings, Typed
<1>13. CASE ReplaceManifest
  <2>1. cur \in Txn
    BY <1>13, CurInside DEF ReplaceManifest, TryBlock
  <2>2. plan[cur].after["manifest"] \in File
    BY <2>1, PlannedIsFile DEF Typed, Resource
  <2>3. DiskTyped'
    BY <1>13, <2>2 DEF ReplaceManifest, Typed, DiskTyped
  <2>4. SessionTyped'
    BY <1>13, <2>1, GotoTyped DEF ReplaceManifest, Typed, TryBlock
  <2> QED
    BY <1>13, <2>3, <2>4, OutsiderKept, FaultsKept DEF ReplaceManifest, Typed
<1>14. CASE Verify
  BY <1>14, MoveTyped, CurInside DEF Verify, TryBlock
<1>15. CASE ApplySideEffects
  BY <1>15, MoveTyped, CurInside DEF ApplySideEffects, TryBlock
<1>16. CASE Finalize
  <2>1. cur \in Txn
    BY <1>16, CurInside DEF Finalize, TryBlock
  <2>2. DiskTyped'
    BY <1>16, <2>1 DEF Finalize, Typed, DiskTyped, Status
  <2>3. SessionTyped'
    BY <1>16, <2>1, GotoTyped DEF Finalize, Typed
  <2> QED
    BY <1>16, <2>2, <2>3, OutsiderKept, FaultsKept DEF Finalize, Typed
<1>17. CASE Synced
  BY <1>17, MoveTyped, CurInside DEF Synced
<1>18. CASE PostcommitSideEffects
  BY <1>18, ReleasedTyped DEF PostcommitSideEffects
<1> QED
  BY <1>1, <1>2, <1>3, <1>4, <1>5, <1>6, <1>7, <1>8, <1>9, <1>10, <1>11,
     <1>12, <1>13, <1>14, <1>15, <1>16, <1>17, <1>18 DEF Execution

LEMMA RestoreTyped ==
  ASSUME Typed, cur \in Txn, NEW r \in Resource, Restore(r)
  PROVE  files' \in [Resource -> File]
  BY PlannedIsFile DEF Restore, Typed, DiskTyped

LEMMA CompensationTyped == ASSUME Typed, Compensation PROVE Typed'
<1>1. CASE ScanConflict
  <2>1. cur \in Txn
    BY <1>1, CurInside DEF ScanConflict
  <2>2. DiskTyped'
    BY <1>1, <2>1 DEF ScanConflict, Typed, DiskTyped, Status
  <2>3. SessionTyped'
    BY <1>1, <2>1, ReturnTyped DEF ScanConflict, Typed
  <2> QED
    BY <1>1, <2>2, <2>3, OutsiderKept, FaultsKept DEF ScanConflict, Typed
<1>2. CASE ScanClear
  BY <1>2, MoveTyped, CurInside DEF ScanClear
<1>3. CASE RestoreManifest
  <2>1. cur \in Txn
    BY <1>3, CurInside DEF RestoreManifest, RestoreLabel
  <2>2. files' \in [Resource -> File]
    BY <1>3, <2>1, RestoreTyped DEF RestoreManifest, Resource
  <2>3. DiskTyped'
    BY <1>3, <2>2 DEF RestoreManifest, Typed, DiskTyped
  <2>4. SessionTyped'
    BY <1>3, <2>1, GotoTyped DEF RestoreManifest, Typed
  <2> QED
    BY <1>3, <2>3, <2>4, OutsiderKept, FaultsKept DEF RestoreManifest, Typed
<1>4. CASE RestoreSettings
  <2>1. cur \in Txn
    BY <1>4, CurInside DEF RestoreSettings, RestoreLabel
  <2>2. files' \in [Resource -> File]
    BY <1>4, <2>1, RestoreTyped DEF RestoreSettings, Resource
  <2>3. DiskTyped'
    BY <1>4, <2>2 DEF RestoreSettings, Typed, DiskTyped
  <2>4. SessionTyped'
    BY <1>4, <2>1, GotoTyped DEF RestoreSettings, Typed
  <2> QED
    BY <1>4, <2>3, <2>4, OutsiderKept, FaultsKept DEF RestoreSettings, Typed
<1>5. ASSUME NEW k \in Secret, CleanSecret(k) PROVE Typed'
  <2>1. DiskTyped'
    BY <1>5 DEF CleanSecret, Typed, DiskTyped
  <2>2. SessionTyped'
    BY <1>5 DEF CleanSecret, Typed, SessionTyped, CurKnown
  <2> QED
    BY <1>5, <2>1, <2>2, OutsiderKept, FaultsKept DEF CleanSecret, Typed
<1>6. CASE CloseJournal
  <2>1. cur \in Txn
    BY <1>6, CurInside DEF CloseJournal
  <2>2. PICK outcome \in {"incomplete", "compensated"} :
          status' = [status EXCEPT ![cur] = outcome] /\ Return(outcome)
    BY <1>6 DEF CloseJournal
  <2>3. DiskTyped'
    BY <1>6, <2>1, <2>2 DEF CloseJournal, Typed, DiskTyped, Status
  <2>4. SessionTyped'
    BY <2>1, <2>2, ReturnTyped DEF Typed
  <2> QED
    BY <1>6, <2>3, <2>4, OutsiderKept, FaultsKept DEF CloseJournal, Typed
<1>7. CASE Unwind
  BY <1>7, ReleasedTyped DEF Unwind
<1> QED
  BY <1>1, <1>2, <1>3, <1>4, <1>5, <1>6, <1>7 DEF Compensation

LEMMA FailureTyped == ASSUME Typed, Failure PROVE Typed'
<1>1. CASE Abandon
  BY <1>1, ReleasedTyped DEF Abandon
<1>2. CASE CreateJournalRaises
  <2>1. cur \in Txn
    BY <1>2, CurInside DEF CreateJournalRaises
  <2>2. PICK s \in {"empty", "active"} : status' = [status EXCEPT ![cur] = s]
    BY <1>2 DEF CreateJournalRaises
  <2>3. DiskTyped'
    BY <1>2, <2>1, <2>2 DEF CreateJournalRaises, Typed, DiskTyped, Status
  <2> QED
    BY <1>2, <2>3, ReleaseTyped, OutsiderKept, FaultsKept DEF CreateJournalRaises, Typed
<1>3. CASE StepRaises
  <2>1. cur \in Txn
    BY <1>3, CurInside DEF StepRaises
  <2> QED
    BY <1>3, <2>1, RaisedTyped DEF StepRaises
<1>4. CASE CompensationRaises
  <2>1. cur \in Txn
    BY <1>4, CurInside DEF CompensationRaises
  <2>2. SessionTyped'
    BY <1>4, <2>1, ReleaseTyped, ReturnTyped DEF CompensationRaises, Typed
  <2> QED
    BY <1>4, <2>2, DiskKept, OutsiderKept, FaultsKept DEF CompensationRaises, Typed
<1>5. CASE PreimageMissing
  <2>1. cur \in Txn
    <3>1. PICK r \in Resource : pc = RestoreLabel[r]
      BY <1>5 DEF PreimageMissing
    <3>2. r = "settings" \/ r = "manifest"
      BY DEF Resource
    <3>3. CASE r = "settings"
      BY <3>1, <3>3, CurInside DEF RestoreLabel
    <3>4. CASE r = "manifest"
      BY <3>1, <3>4, CurInside DEF RestoreLabel
    <3> QED
      BY <3>2, <3>3, <3>4
  <2>2. SessionTyped'
    BY <1>5, <2>1, ReleaseTyped, ReturnTyped DEF PreimageMissing, Typed
  <2> QED
    BY <1>5, <2>2, DiskKept, OutsiderKept, FaultsKept DEF PreimageMissing, Typed
<1>6. CASE Crash
  BY <1>6, ReleasedTyped DEF Crash
<1>7. ASSUME NEW k \in Secret, CleanSecretRaises(k) PROVE Typed'
  <2>1. SessionTyped'
    BY <1>7 DEF CleanSecretRaises, Typed, SessionTyped, CurKnown
  <2> QED
    BY <1>7, <2>1, DiskKept, OutsiderKept, FaultsKept DEF CleanSecretRaises, Typed
<1> QED
  BY <1>1, <1>2, <1>3, <1>4, <1>5, <1>6, <1>7 DEF Failure


LEMMA OutsiderStepTyped == ASSUME Typed, Outsider PROVE Typed'
<1>1. files["settings"] \in File
  BY DEF Typed, DiskTyped, Resource
<1>2. ASSUME NEW e \in Edit, OutsideRead(e) PROVE Typed'
  <2>1. [tag |-> e, refs |-> RefsOf(files["settings"])] \in File
    BY <1>1, RefsAreSecrets, DocIsFile
  <2>2. OutsiderTyped'
    BY <1>2, <2>1 DEF OutsideRead, Typed, OutsiderTyped
  <2>3. SessionTyped'
    BY <1>2 DEF OutsideRead, session, Typed, SessionTyped, CurKnown
  <2> QED
    BY <1>2, <2>2, <2>3, DiskKept, FaultsKept DEF OutsideRead, Typed
<1>3. CASE OutsideWrite
  <2>1. DiskTyped'
    BY <1>3 DEF OutsideWrite, Typed, DiskTyped, OutsiderTyped
  <2>2. OutsiderTyped'
    BY <1>3 DEF OutsideWrite, Typed, OutsiderTyped, File
  <2>3. SessionTyped'
    BY <1>3 DEF OutsideWrite, session, Typed, SessionTyped, CurKnown
  <2> QED
    BY <1>3, <2>1, <2>2, <2>3, FaultsKept DEF OutsideWrite, Typed
<1> QED
  BY <1>2, <1>3 DEF Outsider

LEMMA StutterTyped == ASSUME Typed, UNCHANGED vars PROVE Typed'
<1>1. DiskTyped'
  BY DEF vars, Typed, DiskTyped
<1>2. CurKnown'
  BY DEF vars, Typed, SessionTyped, CurKnown
<1>3. SessionTyped'
  BY <1>2 DEF vars, Typed, SessionTyped
<1>4. OutsiderTyped' /\ faults' = faults
  BY DEF vars, Typed, OutsiderTyped
<1> QED
  BY <1>1, <1>3, <1>4 DEF Typed

LEMMA NextTyped == ASSUME Typed, [Next]_vars PROVE Typed'
  BY AcquireTyped, RecoveryTyped, ExecutionTyped, CompensationTyped,
     FailureTyped, OutsiderStepTyped, StutterTyped DEF Next, Progress

(* Every reachable state has the declared types (settings_transaction.py). *)
THEOREM TypeCorrect == Spec => []TypeOK
<1>1. Init => Typed
  BY InitTyped
<1>2. Typed /\ [Next]_vars => Typed'
  BY NextTyped
<1>3. Typed => TypeOK
  BY TypedImpliesTypeOK
<1> QED
  BY <1>1, <1>2, <1>3, PTL DEF Spec

-----------------------------------------------------------------------------
(* The barrier: why at most one journal is open.  While a save runs, no    *)
(* other journal is open; a recovery pass either still has an open journal *)
(* ahead of it or knows that it is blocked; so a session gets past recovery*)
(* only when every journal is settled.                                     *)
Settled == \A t \in Txn : ~ Open(t)
OnlyCurOpen == \A t \in Txn : Open(t) => t = cur
Saving == pc \in {"journal", "sync", "postcommit"} \cup TryBlock
Compensating == pc \in {"scan", "restore manifest", "restore settings", "clean"}

PastRecovery == pc \in {"pretransaction", "prepare", "ensure"} => Settled
SaveAlone == (Saving \/ (Compensating /\ caller # "recovery")) => OnlyCurOpen
RecoverySeesAll ==
  (pc = "recover" \/ (Compensating /\ caller = "recovery")) =>
    \A t \in Txn : Open(t) => t \in pending \/ blocked
RecoversOpen == (Compensating /\ caller = "recovery") => Open(cur)

Barrier ==
  Typed /\ OneOpenJournal /\ PastRecovery /\ SaveAlone /\ RecoverySeesAll /\ RecoversOpen

LEMMA InitBarrier == Init => Barrier
<1> SUFFICES ASSUME Init PROVE Barrier
  OBVIOUS
<1>1. Settled /\ pc = "idle"
  BY DEF Init, Settled, Open
<1> QED
  BY <1>1, InitTyped DEF Barrier, OneOpenJournal, PastRecovery, SaveAlone,
     RecoverySeesAll, RecoversOpen, Settled, Saving, Compensating, TryBlock

(* Steps that leave every status alone leave the open journals alone.      *)
LEMMA OpenKept == ASSUME UNCHANGED status PROVE \A t : Open(t)' <=> Open(t)
  BY DEF Open

(* A session that lets go of the lock owes nothing.                        *)
LEMMA ReleaseBarrier ==
  ASSUME Barrier, Typed', Release, UNCHANGED status
  PROVE  Barrier'
  BY OpenKept DEF Barrier, Release, OneOpenJournal, PastRecovery, SaveAlone,
     RecoverySeesAll, RecoversOpen, Saving, Compensating, TryBlock

(* Inside a save the session moves on, or starts to compensate.            *)
LEMMA SaveMoveBarrier ==
  ASSUME Barrier, Typed', UNCHANGED status, Saving,
         \/ \E label \in {"sync", "postcommit"} \cup TryBlock : Goto(label)
         \/ Raise
         \/ UNCHANGED session
  PROVE  Barrier'
<1>1. OneOpenJournal' /\ OnlyCurOpen /\ cur' = cur
  BY OpenKept DEF Barrier, OneOpenJournal, SaveAlone, Goto, Raise, session
<1>2. OnlyCurOpen'
  BY <1>1, OpenKept DEF OnlyCurOpen
<1>3. PastRecovery'
  BY DEF PastRecovery, Goto, Raise, session, Saving, TryBlock
<1>4. RecoverySeesAll' /\ RecoversOpen'
  BY DEF RecoverySeesAll, RecoversOpen, Compensating, Goto, Raise, session,
     Saving, TryBlock
<1> QED
  BY <1>1, <1>2, <1>3, <1>4 DEF Barrier, SaveAlone

(* Inside a compensation it moves on.                                      *)
LEMMA CompensationMoveBarrier ==
  ASSUME Barrier, Typed', UNCHANGED status, Compensating,
         \E label \in {"restore manifest", "restore settings", "clean"} :
           pc' = label /\ UNCHANGED <<cur, caller, pending, blocked>>
  PROVE  Barrier'
<1>1. OneOpenJournal'
  BY OpenKept DEF Barrier, OneOpenJournal
<1>2. Compensating'
  BY DEF Compensating
<1>3. ~ Saving' /\ PastRecovery'
  BY <1>2 DEF Saving, PastRecovery, Compensating, TryBlock
<1>4. SaveAlone'
  BY <1>3, OpenKept DEF Barrier, SaveAlone, OnlyCurOpen, Saving, Compensating
<1>5. RecoverySeesAll'
  <2> SUFFICES ASSUME caller = "recovery", NEW t \in Txn, Open(t)'
               PROVE  (t \in pending \/ blocked)'
    BY <1>2 DEF RecoverySeesAll, Compensating
  <2>1. t \in pending \/ blocked
    BY OpenKept DEF Barrier, RecoverySeesAll
  <2>2. pending' = pending /\ blocked' = blocked
    OBVIOUS
  <2> QED
    BY <2>1, <2>2, Zenon
<1>6. RecoversOpen'
  <2> SUFFICES ASSUME caller = "recovery" PROVE Open(cur)'
    BY DEF RecoversOpen
  <2>1. Open(cur) /\ cur' = cur
    BY DEF Barrier, RecoversOpen
  <2> QED
    BY <2>1 DEF Open
<1> QED
  BY <1>1, <1>3, <1>4, <1>5, <1>6 DEF Barrier

LEMMA AcquireBarrier ==
  ASSUME Barrier, Typed', NEW m, Acquire(m)
  PROVE  Barrier'
<1>1. UNCHANGED status /\ pc' = "recover"
  BY DEF Acquire, disk
<1>2. \A t \in Txn : Open(t) => t \in pending'
  BY DEF Acquire, Open, Terminal
<1> QED
  BY <1>1, <1>2, OpenKept DEF Barrier, OneOpenJournal, PastRecovery, SaveAlone,
     RecoverySeesAll, RecoversOpen, Saving, Compensating, TryBlock

LEMMA RecoveryBarrier == ASSUME Barrier, Typed', Recovery PROVE Barrier'
<1>1. ASSUME NEW t \in Txn, SweepDirectory(t) PROVE Barrier'
  <2>1. \A u \in Txn : Open(u)' <=> Open(u)
    BY <1>1 DEF SweepDirectory, Open, Barrier, Typed, DiskTyped
  <2>2. ~ Open(t)
    BY <1>1 DEF SweepDirectory, Open
  <2> QED
    BY <1>1, <2>1, <2>2 DEF SweepDirectory, Barrier, OneOpenJournal, PastRecovery,
       SaveAlone, RecoverySeesAll, RecoversOpen, Saving, Compensating, TryBlock
<1>2. ASSUME NEW t \in Txn, RecoverJournal(t) PROVE Barrier'
  <2>1. UNCHANGED status
    BY <1>2 DEF RecoverJournal, disk
  <2> QED
    BY <1>2, <2>1, OpenKept DEF RecoverJournal, Barrier, OneOpenJournal,
       PastRecovery, SaveAlone, RecoverySeesAll, RecoversOpen, Saving,
       Compensating, TryBlock
<1>3. CASE RecoveryBlocked
  BY <1>3, ReleaseBarrier DEF RecoveryBlocked, disk
<1>4. CASE RecoveryDone
  <2>1. UNCHANGED status /\ Settled
    BY <1>4 DEF RecoveryDone, disk, Barrier, RecoverySeesAll, Settled
  <2>2. CASE mode = "recover"
    BY <1>4, <2>1, <2>2, ReleaseBarrier DEF RecoveryDone
  <2>3. CASE mode # "recover"
    BY <1>4, <2>1, <2>3, OpenKept DEF RecoveryDone, Goto, Barrier, OneOpenJournal,
       PastRecovery, SaveAlone, RecoverySeesAll, RecoversOpen, Saving,
       Compensating, TryBlock, Settled
  <2> QED
    BY <2>2, <2>3
<1> QED
  BY <1>1, <1>2, <1>3, <1>4 DEF Recovery

LEMMA ExecutionBarrier == ASSUME Barrier, Typed', Execution PROVE Barrier'
<1>1. CASE Pretransaction
  BY <1>1, OpenKept DEF Pretransaction, Goto, disk, Barrier, OneOpenJournal,
     PastRecovery, SaveAlone, RecoverySeesAll, RecoversOpen, Saving,
     Compensating, TryBlock, Settled
<1>2. ASSUME NEW e \in Edit, EnsureSettings(e) PROVE Barrier'
  BY <1>2, ReleaseBarrier DEF EnsureSettings
<1>3. ASSUME NEW t \in Txn, NEW slots \in SUBSET Slot, Prepare(t, slots) PROVE Barrier'
  <2>1. \A u \in Txn : ~ Open(u)'
    BY <1>3 DEF Prepare, Open, Barrier, PastRecovery, Settled, Typed, DiskTyped
  <2> QED
    BY <1>3, <2>1 DEF Prepare, Barrier, OneOpenJournal, PastRecovery, SaveAlone,
       RecoverySeesAll, RecoversOpen, Saving, Compensating, TryBlock, OnlyCurOpen
<1>4. CASE CreateJournal \/ Finalize
  <2>1. Saving /\ cur' = cur /\ pc' \in {"stage", "sync"}
    BY <1>4 DEF CreateJournal, Finalize, Goto, Saving, TryBlock
  <2>2. \A u \in Txn : Open(u)' => u = cur
    BY <1>4, <2>1 DEF CreateJournal, Finalize, Open, Barrier, SaveAlone,
       OnlyCurOpen, Typed, DiskTyped
  <2> QED
    BY <2>1, <2>2 DEF Barrier, OneOpenJournal, PastRecovery, SaveAlone,
       RecoverySeesAll, RecoversOpen, Saving, Compensating, TryBlock, OnlyCurOpen
<1>5. ASSUME NEW r \in Resource, StageSnapshot(r) PROVE Barrier'
  BY <1>5, SaveMoveBarrier DEF StageSnapshot, Saving, TryBlock
<1>6. ASSUME NEW k \in Secret, StoreSecret(k) PROVE Barrier'
  BY <1>6, SaveMoveBarrier DEF StoreSecret, Saving, TryBlock
<1>7. CASE FilesStaged \/ SecretsCreated \/ PrecommitSideEffects
  BY <1>7, SaveMoveBarrier DEF FilesStaged, SecretsCreated,
     PrecommitSideEffects, Saving, TryBlock, disk
<1>8. CASE CompareSettings \/ CompareManifest
  BY <1>8, SaveMoveBarrier DEF CompareSettings, CompareManifest, Saving, TryBlock, disk
<1>9. CASE ReplaceSettings \/ ReplaceManifest
  BY <1>9, SaveMoveBarrier DEF ReplaceSettings, ReplaceManifest, Saving, TryBlock
<1>10. CASE Verify \/ ApplySideEffects \/ Synced
  BY <1>10, SaveMoveBarrier DEF Verify, ApplySideEffects, Synced, Saving, TryBlock, disk
<1>11. CASE PostcommitSideEffects
  BY <1>11, ReleaseBarrier DEF PostcommitSideEffects, disk
<1> QED
  BY <1>1, <1>2, <1>3, <1>4, <1>5, <1>6, <1>7, <1>8, <1>9, <1>10, <1>11 DEF Execution

(* A compensation that ends with an outcome changes one journal, the one   *)
(* that may be open, and tells recovery whether it is still open.          *)
LEMMA ReturnBarrier ==
  ASSUME Barrier, Typed', Compensating,
         NEW outcome \in {"conflict", "incomplete", "compensated"},
         status' = [status EXCEPT ![cur] = outcome], Return(outcome)
  PROVE  Barrier'
<1>1. cur \in Txn
  BY CurInside DEF Barrier, Compensating
<1>2. \A u \in Txn : Open(u)' <=> IF u = cur THEN outcome # "compensated" ELSE Open(u)
  BY <1>1 DEF Open, Barrier, Typed, DiskTyped
<1>3. \A u \in Txn : Open(u) => u = cur
  BY <1>1 DEF Barrier, SaveAlone, RecoversOpen, OneOpenJournal, OnlyCurOpen
<1>4. OneOpenJournal'
  BY <1>2, <1>3 DEF OneOpenJournal
<1>5. CASE caller = "recovery"
  BY <1>2, <1>3, <1>4, <1>5 DEF Return, Barrier, PastRecovery, SaveAlone,
     RecoverySeesAll, RecoversOpen, Saving, Compensating, TryBlock
<1>6. CASE caller # "recovery"
  BY <1>2, <1>3, <1>4, <1>6 DEF Return, Barrier, PastRecovery, SaveAlone,
     RecoverySeesAll, RecoversOpen, Saving, Compensating, TryBlock
<1> QED
  BY <1>5, <1>6

LEMMA CompensationBarrier == ASSUME Barrier, Typed', Compensation PROVE Barrier'
<1>1. CASE ScanConflict
  BY <1>1, ReturnBarrier DEF ScanConflict, Compensating
<1>2. CASE ScanClear
  BY <1>2, CompensationMoveBarrier DEF ScanClear, Goto, Compensating, disk
<1>3. CASE RestoreManifest \/ RestoreSettings
  BY <1>3, CompensationMoveBarrier DEF RestoreManifest, RestoreSettings,
     RestoreLabel, Goto, Compensating
<1>4. ASSUME NEW k \in Secret, CleanSecret(k) PROVE Barrier'
  BY <1>4, CompensationMoveBarrier DEF CleanSecret, Compensating
<1>5. CASE CloseJournal
  <2>1. PICK outcome \in {"incomplete", "compensated"} :
          status' = [status EXCEPT ![cur] = outcome] /\ Return(outcome)
    BY <1>5 DEF CloseJournal
  <2> QED
    BY <1>5, <2>1, ReturnBarrier DEF CloseJournal, Compensating
<1>6. CASE Unwind
  BY <1>6, ReleaseBarrier DEF Unwind, disk
<1> QED
  BY <1>1, <1>2, <1>3, <1>4, <1>5, <1>6 DEF Compensation

(* A compensation that raises leaves its journal as it was.                *)
LEMMA GiveUpBarrier ==
  ASSUME Barrier, Typed', UNCHANGED status,
         IF caller = "recovery" THEN Release ELSE Return("unknown")
  PROVE  Barrier'
<1>1. CASE caller = "recovery"
  BY <1>1, ReleaseBarrier
<1>2. CASE caller # "recovery"
  BY <1>2, OpenKept DEF Return, Barrier, OneOpenJournal, PastRecovery, SaveAlone,
     RecoverySeesAll, RecoversOpen, Saving, Compensating, TryBlock
<1> QED
  BY <1>1, <1>2

LEMMA FailureBarrier == ASSUME Barrier, Typed', Failure PROVE Barrier'
<1>1. CASE Abandon \/ Crash
  BY <1>1, ReleaseBarrier DEF Abandon, Crash, disk
<1>2. CASE CreateJournalRaises
  <2>1. PICK s \in {"empty", "active"} : status' = [status EXCEPT ![cur] = s]
    BY <1>2 DEF CreateJournalRaises
  <2>2. \A u \in Txn : Open(u)' => u = cur
    BY <1>2, <2>1 DEF CreateJournalRaises, Open, Barrier, SaveAlone, OnlyCurOpen,
       Saving, Typed, DiskTyped
  <2> QED
    BY <1>2, <2>2 DEF CreateJournalRaises, Release, Barrier, OneOpenJournal,
       PastRecovery, SaveAlone, RecoverySeesAll, RecoversOpen, Saving,
       Compensating, TryBlock
<1>3. CASE StepRaises
  BY <1>3, SaveMoveBarrier DEF StepRaises, Saving, disk
<1>4. CASE CompensationRaises \/ PreimageMissing
  BY <1>4, GiveUpBarrier DEF CompensationRaises, PreimageMissing, disk
<1>5. ASSUME NEW k \in Secret, CleanSecretRaises(k) PROVE Barrier'
  BY <1>5, CompensationMoveBarrier DEF CleanSecretRaises, Compensating, disk
<1> QED
  BY <1>1, <1>2, <1>3, <1>4, <1>5 DEF Failure

LEMMA BystanderBarrier ==
  ASSUME Barrier, Typed', UNCHANGED <<status, session>>
  PROVE  Barrier'
  BY OpenKept DEF session, Barrier, OneOpenJournal, PastRecovery, SaveAlone,
     RecoverySeesAll, RecoversOpen, Saving, Compensating, TryBlock, OnlyCurOpen, Settled

LEMMA NextBarrier == ASSUME Barrier, [Next]_vars PROVE Barrier'
<1>1. Typed'
  BY NextTyped DEF Barrier
<1>2. CASE Outsider \/ UNCHANGED vars
  BY <1>1, <1>2, BystanderBarrier DEF Outsider, OutsideRead, OutsideWrite, vars,
     disk, session
<1>3. CASE Next /\ ~ Outsider
  BY <1>1, <1>3, AcquireBarrier, RecoveryBarrier, ExecutionBarrier,
     CompensationBarrier, FailureBarrier DEF Next, Progress
<1> QED
  BY <1>2, <1>3

(* A save never starts on top of an unresolved one, whatever the number of *)
(* saves, kills, exceptions and unlocked writers (settings_mutation_barrier*)
(* and _recover_settings_transactions_locked).                             *)
THEOREM BarrierHolds == Spec => []OneOpenJournal
<1>1. Init => Barrier
  BY InitBarrier
<1>2. Barrier /\ [Next]_vars => Barrier'
  BY NextBarrier
<1>3. Barrier => OneOpenJournal
  BY DEF Barrier
<1> QED
  BY <1>1, <1>2, <1>3, PTL DEF Spec

=============================================================================
