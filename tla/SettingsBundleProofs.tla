------------------------- MODULE SettingsBundleProofs -------------------------
(***************************************************************************)
(* Theorems about what a Settings save leaves behind: preimages, provider  *)
(* keys, committed journals, documents written without the lock, and the   *)
(* refinement of AtomicSettings.                                           *)
(***************************************************************************)
EXTENDS SettingsTransactionProofs

-----------------------------------------------------------------------------
(* Where a session is and what its journal says.                           *)
StatusFits ==
  /\ pc = "journal" => status[cur] = "empty"
  /\ pc \in TryBlock => status[cur] = "active"
  /\ pc \in {"sync", "postcommit"} => status[cur] = "committed"
  /\ Compensating => Open(cur) \/ (DirSyncMayFail /\ status[cur] = "committed")

(* What a save of t may make of two documents, and how they were before.   *)
SavedAs(t, owned, old, new) ==
  /\ \/ owned = {} /\ new["settings"] = old["settings"]
     \/ \E kept \in SUBSET RefsOf(old["settings"]) :
          new["settings"] = [tag |-> t, refs |-> kept \cup owned]
  /\ new["manifest"] \in {old["manifest"], [tag |-> t, refs |-> {}]}
Before(t, old) ==
  \A r \in Resource : old[r] # Absent =>
    old[r].tag # t /\ \A s \in old[r].refs : s[1] # t

(* What a plan may say: the keys are the transaction's own, the preimages  *)
(* do not come from it, and a document it changes carries its tag.         *)
PlanShape(t) ==
  /\ \E slots \in SUBSET Slot : plan[t].owned = {t} \X slots
  /\ Before(t, plan[t].before)
  /\ SavedAs(t, plan[t].owned, plan[t].before, plan[t].after)
  /\ status[t] # "none" => \A r \in Resource : plan[t].after[r] # Absent

(* The transactions that got as far as a journal, and those of their       *)
(* preimages that are on disk if there were any.                           *)
Known == {t \in Txn : status[t] \notin {"none", "empty"}}
Staged == {p \in Known \X Resource : plan[p[1]].before[p[2]] # Absent => p \in snapshots}

(* A document comes from a transaction that staged its preimage, and names *)
(* keys of known transactions only.                                        *)
TracedIn(file, r, staged, known) ==
  file # Absent => /\ file.tag \in Txn => <<file.tag, r>> \in staged
                   /\ \A s \in file.refs : s[1] \in known
Traced(file, r) == TracedIn(file, r, Staged, Known)
AllTraced ==
  /\ \A r \in Resource : Traced(files[r], r)
  /\ \A t \in Txn, r \in Resource : Traced(plan[t].before[r], r)
  /\ Traced(draft, "settings")

(* Nothing is replaced before the preimages are on disk.                   *)
StagedFirst ==
  pc \in TryBlock \ {"stage"} =>
    \A r \in Resource : plan[cur].before[r] # Absent => <<cur, r>> \in snapshots

History ==
  /\ Barrier /\ StatusFits /\ (\A t \in Txn : PlanShape(t))
  /\ AllTraced /\ StagedFirst

-----------------------------------------------------------------------------
(* The keys, as long as nobody writes without the lock.                    *)
Alone == edits \cap Outside = {}
Working(t) == Open(t) \/ (t = cur /\ (Saving \/ Compensating))
Stored == pc \in TryBlock \ {"stage", "store"}

NothingDangles ==
  /\ draft = Absent /\ Referenced \subseteq secrets
  /\ \A t \in Txn : Working(t) =>
       \A r \in Resource : RefsOf(plan[t].before[r]) \subseteq secrets
  /\ Stored => plan[cur].owned \subseteq secrets
KeysAreOwned ==
  \A s \in secrets : s \in plan[s[1]].owned /\ (Open(s[1]) \/ status[s[1]] = "committed")
CleaningFits ==
  /\ pc # "clean" => cleaned = {} /\ dirty = FALSE
  /\ pc = "clean" /\ dirty = FALSE => cleaned \cap secrets = {}
  /\ pc = "clean" /\ Changed(cur, "settings") => files["settings"] = plan[cur].before["settings"]
ManifestsNameNoKey ==
  /\ RefsOf(files["manifest"]) = {}
  /\ \A t \in Txn : RefsOf(plan[t].before["manifest"]) = {}

KeysFit == Alone => NothingDangles /\ KeysAreOwned /\ CleaningFits
Keys == History /\ ManifestsNameNoKey /\ KeysFit

-----------------------------------------------------------------------------
(* The documents of a save that is under way, when nobody else writes.     *)
Undecided == {"journal", "stage", "store", "precommit", "check settings", "put settings"}
BundleFits ==
  /\ \A t \in Txn : Open(t) =>
       \A r \in Resource : files[r] \in {plan[t].before[r], plan[t].after[r]}
  /\ pc \in Undecided => files = plan[cur].before
  /\ pc \in {"check manifest", "put manifest"} =>
       /\ files["settings"] = plan[cur].after["settings"]
       /\ files["manifest"] = plan[cur].before["manifest"]
  /\ pc \in {"verify", "apply", "finalize"} => files = plan[cur].after
  /\ pc = "restore settings" => files["manifest"] = plan[cur].before["manifest"]
  /\ pc = "clean" => files = plan[cur].before
Quiet == Outside = {} /\ ~ DirSyncMayFail

(* Inside a check-then-replace window settings.json is what the comparison *)
(* saw, or an outside writer has raced.                                    *)
Windows ==
  /\ pc = "put settings" =>
       \/ files["settings"] = plan[cur].before["settings"]
       \/ files["settings"].tag \in raced
  /\ pc \in {"restore manifest", "restore settings"} /\ Changed(cur, "settings") =>
       \/ files["settings"] \in {plan[cur].before["settings"], plan[cur].after["settings"]}
       \/ files["settings"].tag \in raced

-----------------------------------------------------------------------------
(* What a step may do to the disk and to the draft of an outsider.         *)
LEMMA StepKinds ==
  ASSUME [Next]_vars
  PROVE  \/ UNCHANGED <<disk, draft>>
         \/ \E t \in Txn : SweepDirectory(t)
         \/ CreateJournal \/ CreateJournalRaises \/ Finalize \/ ScanConflict \/ CloseJournal
         \/ \E t \in Txn, slots \in SUBSET Slot : Prepare(t, slots)
         \/ \E r \in Resource : StageSnapshot(r)
         \/ \E s \in Secret : StoreSecret(s) \/ CleanSecret(s)
         \/ \E e \in Edit : EnsureSettings(e) \/ OutsideRead(e)
         \/ ReplaceSettings \/ ReplaceManifest \/ RestoreManifest \/ RestoreSettings
         \/ OutsideWrite
<1>1. CASE UNCHANGED vars
  BY <1>1 DEF vars, disk
<1>2. ASSUME NEW m, Acquire(m) PROVE UNCHANGED <<disk, draft>>
  BY <1>2 DEF Acquire, outsider
<1>3. ASSUME NEW t, RecoverJournal(t) PROVE UNCHANGED <<disk, draft>>
  BY <1>3 DEF RecoverJournal, outsider
<1>4. ASSUME RecoveryBlocked \/ RecoveryDone \/ Pretransaction \/ Abandon
      PROVE  UNCHANGED <<disk, draft>>
  BY <1>4 DEF RecoveryBlocked, RecoveryDone, Pretransaction, Abandon, outsider
<1>5. ASSUME \/ FilesStaged \/ SecretsCreated \/ PrecommitSideEffects
             \/ CompareSettings \/ CompareManifest \/ Verify \/ ApplySideEffects
             \/ Synced \/ PostcommitSideEffects \/ StepRaises
      PROVE  UNCHANGED <<disk, draft>>
  BY <1>5 DEF FilesStaged, SecretsCreated, PrecommitSideEffects, CompareSettings,
     CompareManifest, Verify, ApplySideEffects, Synced, PostcommitSideEffects,
     StepRaises, outsider
<1>6. ASSUME ScanClear \/ CompensationRaises \/ PreimageMissing \/ Unwind \/ Crash
      PROVE  UNCHANGED <<disk, draft>>
  BY <1>6 DEF ScanClear, CompensationRaises, PreimageMissing, Unwind, Crash, outsider
<1>7. ASSUME NEW s, CleanSecretRaises(s) PROVE UNCHANGED <<disk, draft>>
  BY <1>7 DEF CleanSecretRaises, outsider
<1> HIDE DEF disk
<1> QED
  BY <1>1, <1>2, <1>3, <1>4, <1>5, <1>6, <1>7 DEF Next, Progress, Recovery, Execution,
     Compensation, Failure, Outsider

(* Only the status of the transaction at work changes, and only forward.   *)
LEMMA KnownStays ==
  ASSUME Barrier, StatusFits, [Next]_vars
  PROVE  /\ Known \subseteq Known' /\ snapshots \subseteq snapshots'
         /\ \A t \in Known : plan'[t] = plan[t]
<1> USE DEF Known
<1>0. status \in [Txn -> Status] /\ plan \in [Txn -> Plan]
  BY DEF Barrier, Typed, DiskTyped
<1>1. CASE UNCHANGED <<disk, draft>>
  BY <1>1 DEF disk
<1>2. ASSUME NEW t \in Txn, SweepDirectory(t)
      PROVE  Known \subseteq Known' /\ UNCHANGED <<plan, snapshots>>
  BY <1>0, <1>2 DEF SweepDirectory
<1>3. ASSUME CreateJournal \/ CreateJournalRaises \/ Finalize \/ ScanConflict \/ CloseJournal
      PROVE  Known \subseteq Known' /\ UNCHANGED <<plan, snapshots>>
  BY <1>0, <1>3 DEF CreateJournal, CreateJournalRaises, Finalize, ScanConflict,
     CloseJournal, StatusFits
<1>4. ASSUME NEW t \in Txn, NEW slots \in SUBSET Slot, Prepare(t, slots)
      PROVE  /\ Known \subseteq Known' /\ UNCHANGED snapshots
             /\ \A u \in Known : plan'[u] = plan[u]
  BY <1>0, <1>4 DEF Prepare
<1>5. ASSUME NEW r \in Resource, StageSnapshot(r)
      PROVE  Known = Known' /\ snapshots \subseteq snapshots' /\ UNCHANGED plan
  BY <1>5 DEF StageSnapshot
<1>6. ASSUME NEW s \in Secret, StoreSecret(s) \/ CleanSecret(s)
      PROVE  Known = Known' /\ UNCHANGED <<plan, snapshots>>
  BY <1>6 DEF StoreSecret, CleanSecret
<1>7. ASSUME NEW e \in Edit, EnsureSettings(e) \/ OutsideRead(e)
      PROVE  Known = Known' /\ UNCHANGED <<plan, snapshots>>
  BY <1>7 DEF EnsureSettings, OutsideRead, disk
<1>8. ASSUME \/ ReplaceSettings \/ ReplaceManifest \/ RestoreManifest
             \/ RestoreSettings \/ OutsideWrite
      PROVE  Known = Known' /\ UNCHANGED <<plan, snapshots>>
  BY <1>8 DEF ReplaceSettings, ReplaceManifest, RestoreManifest, RestoreSettings, OutsideWrite
<1> HIDE DEF Known
<1> QED
  BY <1>1, <1>2, <1>3, <1>4, <1>5, <1>6, <1>7, <1>8, StepKinds

LEMMA StagedStays ==
  ASSUME Barrier, StatusFits, [Next]_vars
  PROVE  Staged \subseteq Staged'
  BY KnownStays DEF Staged

-----------------------------------------------------------------------------
(* The history of documents and journals is an invariant.                  *)
LEMMA InitHistory == Init => History
<1> SUFFICES ASSUME Init PROVE History
  OBVIOUS
<1>1. Barrier
  BY InitBarrier
<1>2. StatusFits /\ StagedFirst
  BY DEF Init, StatusFits, StagedFirst, TryBlock, Compensating
<1>3. \A t \in Txn : PlanShape(t)
  <2> SUFFICES ASSUME NEW t \in Txn PROVE PlanShape(t)
    OBVIOUS
  <2>1. /\ plan[t] = [before |-> [r \in Resource |-> Absent],
                      after |-> [r \in Resource |-> Absent], owned |-> {}]
        /\ status[t] = "none"
    BY DEF Init
  <2>2. {} \in SUBSET Slot /\ {} = {t} \X {}
    OBVIOUS
  <2> QED
    BY <2>1, <2>2 DEF PlanShape, Before, SavedAs, Resource
<1>4. AllTraced
  BY TagsDistinct DEF Init, AllTraced, Traced, TracedIn
<1> QED
  BY <1>1, <1>2, <1>3, <1>4 DEF History

LEMMA NextStatusFits ==
  ASSUME Barrier, Barrier', StatusFits, [Next]_vars
  PROVE  StatusFits'
<1> USE DEF StatusFits, TryBlock, Compensating
<1>0. status \in [Txn -> Status] /\ (pc \notin {"idle", "recover", "pretransaction", "prepare", "ensure"} => cur \in Txn)
  BY DEF Barrier, Typed, DiskTyped, SessionTyped, CurKnown
<1>1. CASE UNCHANGED vars \/ Outsider
  <2>1. UNCHANGED <<status, pc, cur>>
    BY <1>1 DEF vars, Outsider, OutsideRead, OutsideWrite, disk, session
  <2> QED
    BY <2>1 DEF Open
<1>2. ASSUME NEW m, Acquire(m) PROVE StatusFits'
  BY <1>2 DEF Acquire
<1>3. ASSUME NEW t \in Txn, SweepDirectory(t) \/ RecoverJournal(t) PROVE StatusFits'
  BY <1>3 DEF SweepDirectory, RecoverJournal, Open, disk
<1>4. ASSUME Release PROVE StatusFits'
  BY <1>4 DEF Release
<1>5. CASE \/ RecoveryBlocked \/ CreateJournalRaises \/ PostcommitSideEffects \/ Unwind
           \/ Abandon \/ Crash \/ \E e \in Edit : EnsureSettings(e)
  BY <1>4, <1>5 DEF RecoveryBlocked, CreateJournalRaises, PostcommitSideEffects,
     Unwind, Abandon, Crash, EnsureSettings
<1>6. CASE RecoveryDone \/ Pretransaction
  BY <1>4, <1>6 DEF RecoveryDone, Pretransaction, Goto
<1>7. ASSUME NEW t \in Txn, NEW slots \in SUBSET Slot, Prepare(t, slots) PROVE StatusFits'
  BY <1>0, <1>7 DEF Prepare
<1>8. CASE CreateJournal \/ Finalize
  BY <1>0, <1>8 DEF CreateJournal, Finalize, Goto
<1>9. CASE \/ FilesStaged \/ SecretsCreated \/ PrecommitSideEffects \/ CompareSettings
           \/ CompareManifest \/ Verify \/ ApplySideEffects \/ Synced \/ StepRaises
  BY <1>9 DEF FilesStaged, SecretsCreated, PrecommitSideEffects, CompareSettings,
     CompareManifest, Verify, ApplySideEffects, Synced, StepRaises, Goto, Raise, disk, Open
<1>10. CASE ReplaceSettings \/ ReplaceManifest
  BY <1>10 DEF ReplaceSettings, ReplaceManifest, Goto, Open
<1>11. CASE \/ \E r \in Resource : StageSnapshot(r)
            \/ \E s \in Secret : StoreSecret(s) \/ CleanSecret(s) \/ CleanSecretRaises(s)
  BY <1>11 DEF StageSnapshot, StoreSecret, CleanSecret, CleanSecretRaises, session, disk, Open
<1>12. CASE ScanClear \/ RestoreManifest \/ RestoreSettings
  BY <1>12 DEF ScanClear, RestoreManifest, RestoreSettings, RestoreLabel, Goto, disk, Open
<1>13. CASE ScanConflict \/ CloseJournal
  BY <1>13 DEF ScanConflict, CloseJournal, Return
<1>14. CASE CompensationRaises \/ PreimageMissing
  BY <1>4, <1>14 DEF CompensationRaises, PreimageMissing, Return
<1> HIDE DEF StatusFits
<1> QED
  BY <1>1, <1>2, <1>3, <1>5, <1>6, <1>7, <1>8, <1>9, <1>10, <1>11, <1>12, <1>13, <1>14
     DEF Next, Progress, Recovery, Execution, Compensation, Failure

(* The document a save plans for a file is the one it read or its own.     *)
LEMMA PlanSays ==
  ASSUME NEW t \in Txn, NEW slots \in SUBSET Slot,
         NEW after \in PlannedFiles(t, {t} \X slots)
  PROVE  SavedAs(t, {t} \X slots, files, after) /\ \A r \in Resource : after[r] # Absent
<1> DEFINE owned == {t} \X slots
           kept == {ref \in RefsOf(files["settings"]) : \A s \in owned : s[2] # ref[2]}
           mine == [tag |-> t, refs |-> kept \cup owned]
           bare == [tag |-> t, refs |-> {}]
           new == [settings |-> mine, manifest |-> bare]
<1> HIDE DEF owned
<1>1. /\ DOMAIN after = Resource
      /\ \A r \in Resource : after[r] \in {new[r], files[r]} \ {Absent}
      /\ owned # {} => after["settings"] = new["settings"]
  BY DEF PlannedFiles, owned
<1>2. new["settings"] = mine /\ new["manifest"] = bare
  OBVIOUS
<1> HIDE DEF new
<1>4. after["settings"] \in {mine, files["settings"]} /\ after["manifest"] \in {bare, files["manifest"]}
  BY <1>1, <1>2 DEF Resource
<1>5. kept \in SUBSET RefsOf(files["settings"])
  OBVIOUS
<1>6. \A r \in Resource : after[r] # Absent
  BY <1>1
<1>7. owned # {} => after["settings"] = mine
  BY <1>1, <1>2
<1>8. \/ owned = {} /\ after["settings"] = files["settings"]
      \/ after["settings"] = [tag |-> t, refs |-> kept \cup owned]
  BY <1>4, <1>7
<1>9. \/ owned = {} /\ after["settings"] = files["settings"]
      \/ \E some \in SUBSET RefsOf(files["settings"]) :
           after["settings"] = [tag |-> t, refs |-> some \cup owned]
  BY <1>5, <1>8
<1> QED
  BY <1>4, <1>6, <1>9 DEF owned, SavedAs

(* A document of a known history names neither an unknown transaction nor  *)
(* a key of one.                                                           *)
LEMMA TracedIsOld ==
  ASSUME NEW file, NEW r \in Resource, Traced(file, r), NEW t \in Txn \ Known, file # Absent
  PROVE  file.tag # t /\ \A s \in file.refs : s[1] # t
  BY DEF Traced, TracedIn, Staged

LEMMA NextPlanShape ==
  ASSUME History, [Next]_vars, NEW t \in Txn
  PROVE  PlanShape(t)'
<1>0. status \in [Txn -> Status] /\ plan \in [Txn -> Plan] /\ files \in [Resource -> File]
  BY DEF History, Barrier, Typed, DiskTyped
<1>1. ASSUME plan'[t] = plan[t], status[t] # "none" \/ status'[t] = "none"
      PROVE  PlanShape(t)'
  BY <1>1 DEF History, PlanShape
<1>2. ASSUME NEW u \in Txn, NEW slots \in SUBSET Slot, Prepare(u, slots)
      PROVE  PlanShape(t)'
  <2>1. CASE t # u
    BY <1>0, <1>1, <1>2, <2>1 DEF Prepare
  <2>2. CASE t = u
    <3>1. PICK after \in PlannedFiles(t, {t} \X slots) :
            plan' = [plan EXCEPT ![t] = [before |-> files, after |-> after,
                                         owned |-> {t} \X slots]]
      BY <1>2, <2>2 DEF Prepare
    <3>2. /\ plan'[t].before = files /\ plan'[t].after = after
          /\ plan'[t].owned = {t} \X slots
      BY <1>0, <3>1
    <3>3. t \notin Known
      BY <1>2, <2>2 DEF Prepare, Known
    <3>4. \A r \in Resource : files[r] # Absent =>
            files[r].tag # t /\ \A s \in files[r].refs : s[1] # t
      BY <3>3, TracedIsOld DEF History, AllTraced
    <3>5. \E some \in SUBSET Slot : plan'[t].owned = {t} \X some
      BY <3>2
    <3>6. SavedAs(t, {t} \X slots, files, after) /\ \A r \in Resource : after[r] # Absent
      BY PlanSays
    <3> QED
      BY <3>2, <3>4, <3>5, <3>6 DEF PlanShape, Before
  <2> QED
    BY <2>1, <2>2
<1>3. CASE UNCHANGED <<disk, draft>>
  BY <1>1, <1>3 DEF disk
<1>4. ASSUME NEW u \in Txn, SweepDirectory(u) PROVE PlanShape(t)'
  BY <1>0, <1>1, <1>4 DEF SweepDirectory
<1>5. CASE CreateJournal \/ CreateJournalRaises
  <2>1. cur \in Txn /\ status[cur] = "empty"
    BY <1>5, CurInside DEF CreateJournal, CreateJournalRaises, History, Barrier, StatusFits
  <2> QED
    BY <1>0, <1>1, <1>5, <2>1 DEF CreateJournal, CreateJournalRaises
<1>6. CASE Finalize \/ ScanConflict \/ CloseJournal
  <2>1. cur \in Txn /\ status[cur] # "none"
    BY <1>6, CurInside DEF Finalize, ScanConflict, CloseJournal, History, Barrier,
       StatusFits, TryBlock, Compensating, Open
  <2> QED
    BY <1>0, <1>1, <1>6, <2>1 DEF Finalize, ScanConflict, CloseJournal
<1>7. CASE \/ \E r \in Resource : StageSnapshot(r)
           \/ \E s \in Secret : StoreSecret(s) \/ CleanSecret(s)
  BY <1>1, <1>7 DEF StageSnapshot, StoreSecret, CleanSecret
<1>8. CASE \/ \E e \in Edit : EnsureSettings(e) \/ OutsideRead(e)
           \/ ReplaceSettings \/ ReplaceManifest \/ RestoreManifest \/ RestoreSettings
           \/ OutsideWrite
  BY <1>1, <1>8 DEF EnsureSettings, OutsideRead, disk, ReplaceSettings, ReplaceManifest,
     RestoreManifest, RestoreSettings, OutsideWrite
<1> QED
  BY <1>2, <1>3, <1>4, <1>5, <1>6, <1>7, <1>8, StepKinds

LEMMA NextStagedFirst ==
  ASSUME Barrier, StatusFits, StagedFirst, [Next]_vars
  PROVE  StagedFirst'
<1> USE DEF StagedFirst, TryBlock
<1>0. status \in [Txn -> Status] /\ plan \in [Txn -> Plan] /\ (pc \in TryBlock => cur \in Txn)
  BY CurInside DEF Barrier, Typed, DiskTyped
<1>1. ASSUME pc' \in TryBlock \ {"stage"}
      PROVE  \/ UNCHANGED <<plan, snapshots, cur>> /\ pc \in TryBlock \ {"stage"}
             \/ FilesStaged
  <2>1. CASE UNCHANGED vars \/ Outsider
    BY <1>1, <2>1 DEF vars, Outsider, OutsideRead, OutsideWrite, disk, session
  <2>2. CASE (\E m \in {"save", "ensure", "recover"} : Acquire(m)) \/ Recovery
    BY <1>1, <2>2 DEF Acquire, Recovery, SweepDirectory, RecoverJournal,
       RecoveryBlocked, RecoveryDone, Release, Goto
  <2>3. CASE Compensation
    BY <1>1, <2>3 DEF Compensation, ScanConflict, ScanClear, RestoreManifest,
       RestoreSettings, RestoreLabel, CleanSecret, CloseJournal, Unwind, Return, Release, Goto
  <2>4. CASE Failure
    BY <1>1, <2>4 DEF Failure, Abandon, CreateJournalRaises, StepRaises, CompensationRaises,
       PreimageMissing, Crash, CleanSecretRaises, Return, Release, Raise, RestoreLabel
  <2>5. CASE Execution
    BY <1>1, <2>5 DEF Execution, Pretransaction, EnsureSettings, Prepare, CreateJournal,
       StageSnapshot, FilesStaged, StoreSecret, SecretsCreated, PrecommitSideEffects,
       CompareSettings, ReplaceSettings, CompareManifest, ReplaceManifest, Verify,
       ApplySideEffects, Finalize, Synced, PostcommitSideEffects, Goto, Raise, Release,
       session, disk
  <2> QED
    BY <2>1, <2>2, <2>3, <2>4, <2>5 DEF Next, Progress
<1>2. CASE FilesStaged
  BY <1>2 DEF FilesStaged, Unstaged, Goto, disk
<1> QED
  BY <1>1, <1>2

LEMMA NextAllTraced ==
  ASSUME History, [Next]_vars
  PROVE  AllTraced'
<1> DEFINE Was(file, r) == TracedIn(file, r, Staged, Known)
           Is(file, r) == TracedIn(file, r, Staged', Known')
<1>0. /\ files \in [Resource -> File] /\ plan \in [Txn -> Plan]
      /\ Barrier /\ StatusFits /\ "settings" \in Resource /\ "manifest" \in Resource
  BY DEF History, Barrier, Typed, DiskTyped, Resource
<1>1. Staged \subseteq Staged' /\ Known \subseteq Known'
  BY <1>0, KnownStays, StagedStays
<1>2. \A file, r : Was(file, r) => Is(file, r)
  BY <1>1 DEF TracedIn
<1>3. /\ \A r \in Resource : Was(files[r], r)
      /\ \A t \in Txn, r \in Resource : Was(plan[t].before[r], r)
      /\ Was(draft, "settings")
  BY DEF History, AllTraced, Traced
<1>4. ASSUME \A r \in Resource : Is(files'[r], r),
             \A t \in Txn, r \in Resource : Is(plan'[t].before[r], r),
             Is(draft', "settings")
      PROVE  AllTraced'
  BY <1>4 DEF AllTraced, Traced
<1>5. ASSUME NEW e \in Edit, NEW refs, refs \subseteq RefsOf(files["settings"])
      PROVE  Is([tag |-> e, refs |-> refs], "settings")
  <2>1. e \notin Txn
    BY TagsDistinct
  <2>2. \A s \in refs : s[1] \in Known
    BY <1>0, <1>3, <1>5 DEF TracedIn, RefsOf
  <2> QED
    BY <1>1, <2>1, <2>2 DEF TracedIn
<1>6. ASSUME pc \in TryBlock \ {"stage"}, NEW r \in Resource
      PROVE  Is(plan[cur].after[r], r)
  <2>1. cur \in Txn /\ cur \in Known
    BY <1>0, <1>6, CurInside DEF Barrier, StatusFits, Known
  <2>2. <<cur, r>> \in Staged
    BY <1>6, <2>1 DEF History, StagedFirst, Staged
  <2>3. PICK slots \in SUBSET Slot : plan[cur].owned = {cur} \X slots
    BY <2>1 DEF History, PlanShape
  <2>4. \A s \in plan[cur].owned : s[1] = cur
    BY <2>3
  <2>5. Is(plan[cur].before[r], r)
    BY <1>2, <1>3, <2>1
  <2>6. SavedAs(cur, plan[cur].owned, plan[cur].before, plan[cur].after)
    BY <2>1 DEF History, PlanShape
  <2>7. ASSUME NEW refs, \A s \in refs : s[1] \in Known PROVE Is([tag |-> cur, refs |-> refs], r)
    BY <1>1, <2>1, <2>2, <2>7 DEF TracedIn
  <2>8. CASE r = "manifest"
    BY <2>5, <2>6, <2>7, <2>8 DEF SavedAs
  <2>9. CASE r = "settings"
    <3>1. CASE plan[cur].after["settings"] = plan[cur].before["settings"]
      BY <2>5, <2>9, <3>1
    <3>2. ASSUME NEW kept \in SUBSET RefsOf(plan[cur].before["settings"]),
                 plan[cur].after["settings"] = [tag |-> cur, refs |-> kept \cup plan[cur].owned]
          PROVE  Is(plan[cur].after[r], r)
      <4>1. \A s \in kept : s[1] \in Known
        BY <1>0, <1>3, <2>1, <3>2 DEF TracedIn, RefsOf
      <4>2. \A s \in kept \cup plan[cur].owned : s[1] \in Known
        BY <2>1, <2>4, <4>1
      <4> QED
        BY <2>7, <2>9, <3>2, <4>2
    <3> QED
      BY <2>6, <3>1, <3>2 DEF SavedAs
  <2> QED
    BY <2>8, <2>9 DEF Resource
<1> HIDE DEF Is, Was
<1>7. CASE UNCHANGED <<files, plan, draft>>
  BY <1>2, <1>3, <1>4, <1>7
<1>8. CASE \/ UNCHANGED <<disk, draft>> \/ \E t \in Txn : SweepDirectory(t)
           \/ CreateJournal \/ CreateJournalRaises \/ Finalize \/ ScanConflict \/ CloseJournal
           \/ \E r \in Resource : StageSnapshot(r)
           \/ \E s \in Secret : StoreSecret(s) \/ CleanSecret(s)
  BY <1>7, <1>8 DEF SweepDirectory, CreateJournal, CreateJournalRaises, Finalize,
     ScanConflict, CloseJournal, StageSnapshot, StoreSecret, CleanSecret, disk, outsider
<1>9. ASSUME NEW t \in Txn, NEW slots \in SUBSET Slot, Prepare(t, slots) PROVE AllTraced'
  <2>1. \A u \in Txn : plan'[u].before \in {plan[u].before, files}
    BY <1>0, <1>9 DEF Prepare
  <2> QED
    BY <1>2, <1>3, <1>4, <1>9, <2>1 DEF Prepare, outsider
<1>10. ASSUME NEW e \in Edit, EnsureSettings(e) PROVE AllTraced'
  <2>1. /\ files' = [files EXCEPT !["settings"] = [tag |-> e, refs |-> RefsOf(files["settings"])]]
        /\ UNCHANGED <<plan, draft>>
    BY <1>10 DEF EnsureSettings
  <2> QED
    BY <1>0, <1>2, <1>3, <1>4, <1>5, <2>1
<1>11. ASSUME NEW e \in Edit, OutsideRead(e) PROVE AllTraced'
  <2>1. draft' = [tag |-> e, refs |-> RefsOf(files["settings"])] /\ UNCHANGED <<plan, files>>
    BY <1>11 DEF OutsideRead, disk
  <2> QED
    BY <1>0, <1>2, <1>3, <1>4, <1>5, <2>1
<1>12. CASE OutsideWrite
  <2>1. files' = [files EXCEPT !["settings"] = draft] /\ draft' = Absent /\ UNCHANGED plan
    BY <1>12 DEF OutsideWrite
  <2>2. Is(Absent, "settings")
    BY DEF Is, TracedIn
  <2> QED
    BY <1>0, <1>2, <1>3, <1>4, <2>1, <2>2
<1>13. CASE ReplaceSettings \/ ReplaceManifest
  <2>1. PICK r \in Resource : files' = [files EXCEPT ![r] = plan[cur].after[r]]
    BY <1>0, <1>13 DEF ReplaceSettings, ReplaceManifest
  <2>2. UNCHANGED <<plan, draft>> /\ pc \in TryBlock \ {"stage"}
    BY <1>13 DEF ReplaceSettings, ReplaceManifest, outsider, TryBlock
  <2> QED
    BY <1>0, <1>2, <1>3, <1>4, <1>6, <2>1, <2>2
<1>14. CASE RestoreManifest \/ RestoreSettings
  <2>1. UNCHANGED <<plan, draft>> /\ cur \in Txn
    BY <1>0, <1>14, CurInside DEF RestoreManifest, RestoreSettings, RestoreLabel, outsider, Barrier
  <2>2. \A r \in Resource : files'[r] \in {files[r], plan[cur].before[r]}
    BY <1>0, <1>14 DEF RestoreManifest, RestoreSettings, Restore
  <2> QED
    BY <1>2, <1>3, <1>4, <2>1, <2>2
<1> QED
  BY <1>8, <1>9, <1>10, <1>11, <1>12, <1>13, <1>14, StepKinds

LEMMA NextHistory == ASSUME History, [Next]_vars PROVE History'
  BY NextBarrier, NextStatusFits, NextPlanShape, NextAllTraced, NextStagedFirst DEF History

(* An interrupted save can be undone, whatever the number of saves,        *)
(* failures and outside writes: as soon as one of its documents is in place*)
(* the preimage that _compensate_transaction_locked restores is on disk.   *)
THEOREM PreimagesAreThere == Spec => []PreimageOnDisk
<1>1. Init => History
  BY InitHistory
<1>2. History /\ [Next]_vars => History'
  BY NextHistory
<1>3. History => PreimageOnDisk
  <2> SUFFICES ASSUME History, NEW t \in Txn, NEW r \in Resource,
                      Changed(t, r), files[r] = plan[t].after[r],
                      plan[t].before[r] # Absent, Open(t)
               PROVE  <<t, r>> \in snapshots
    BY DEF PreimageOnDisk
  <2>1. SavedAs(t, plan[t].owned, plan[t].before, plan[t].after)
    BY DEF History, PlanShape
  <2>2. files[r] # Absent /\ files[r].tag = t
    <3>1. plan[t].after[r] # Absent
      BY DEF History, PlanShape, Open
    <3>2. ASSUME NEW refs PROVE [tag |-> t, refs |-> refs].tag = t
      OBVIOUS
    <3>3. \E refs : files[r] = [tag |-> t, refs |-> refs]
      BY <2>1 DEF SavedAs, Changed, Resource
    <3> QED
      BY <3>1, <3>2, <3>3
  <2>3. <<t, r>> \in Staged
    BY <2>2 DEF History, AllTraced, Traced, TracedIn
  <2> QED
    BY <2>3 DEF Staged
<1> QED
  BY <1>1, <1>2, <1>3, PTL DEF Spec

-----------------------------------------------------------------------------
LEMMA CommittedKept ==
  ASSUME Barrier, StatusFits, ~ DirSyncMayFail, [Next]_vars, NEW t \in Txn,
         status[t] = "committed"
  PROVE  status'[t] = "committed"
<1>0. status \in [Txn -> Status]
  BY DEF Barrier, Typed, DiskTyped
<1>1. CASE CreateJournal \/ CreateJournalRaises \/ Finalize \/ ScanConflict \/ CloseJournal
  BY <1>0, <1>1 DEF CreateJournal, CreateJournalRaises, Finalize, ScanConflict,
     CloseJournal, StatusFits, TryBlock, Compensating, Open
<1>2. CASE \/ \E u \in Txn : SweepDirectory(u)
           \/ \E u \in Txn, slots \in SUBSET Slot : Prepare(u, slots)
  BY <1>0, <1>2 DEF SweepDirectory, Prepare
<1>3. CASE \/ UNCHANGED <<disk, draft>> \/ \E r \in Resource : StageSnapshot(r)
           \/ \E s \in Secret : StoreSecret(s) \/ CleanSecret(s)
           \/ \E e \in Edit : EnsureSettings(e) \/ OutsideRead(e)
           \/ ReplaceSettings \/ ReplaceManifest \/ RestoreManifest \/ RestoreSettings
           \/ OutsideWrite
  BY <1>3 DEF disk, StageSnapshot, StoreSecret, CleanSecret, EnsureSettings, OutsideRead,
     ReplaceSettings, ReplaceManifest, RestoreManifest, RestoreSettings, OutsideWrite
<1> QED
  BY <1>1, <1>2, <1>3, StepKinds

(* If the directory fsync that follows the replacement of a journal does   *)
(* not raise, no failure, kill or recovery pass takes a committed save     *)
(* back: _compensate_transaction_locked is never entered for one.          *)
THEOREM CommittedStays ==
  ASSUME ~ DirSyncMayFail
  PROVE  Spec => CommittedIsFinal
<1>1. Init => History
  BY InitHistory
<1>2. History /\ [Next]_vars => History'
  BY NextHistory
<1>3. History /\ [Next]_vars =>
        [\A t \in Txn : status[t] = "committed" => status'[t] = "committed"]_vars
  BY CommittedKept DEF History
<1> QED
  BY <1>1, <1>2, <1>3, PTL DEF Spec, CommittedIsFinal

-----------------------------------------------------------------------------
(* What another writer has put in settings.json since the session compared *)
(* it, it put there inside the window between the comparison and the       *)
(* replacement.                                                            *)
LEMMA InitWindows == Init => Windows
  BY DEF Init, Windows

LEMMA NextWindows ==
  ASSUME Typed, Typed', Windows, [Next]_vars
  PROVE  Windows'
<1> USE DEF Windows
<1>0. files \in [Resource -> File] /\ "settings" \in Resource
  BY DEF Typed, DiskTyped, Resource
<1>1. CASE UNCHANGED vars \/ \E e \in Edit : OutsideRead(e)
  <2>1. UNCHANGED <<files, plan, pc, cur, raced>>
    BY <1>1 DEF vars, OutsideRead, disk, session
  <2> QED
    BY <2>1 DEF Changed
<1>2. CASE OutsideWrite
  <2>1. pc \in {"put settings", "restore manifest", "restore settings"} =>
          files'["settings"].tag \in raced'
    BY <1>0, <1>2 DEF OutsideWrite, RaceWindow
  <2> QED
    BY <1>2, <2>1 DEF OutsideWrite, session
<1>3. ASSUME pc' \notin {"put settings", "restore manifest", "restore settings"}
      PROVE  Windows'
  BY <1>3
<1>4. CASE (\E m \in {"save", "ensure", "recover"} : Acquire(m)) \/ Recovery
  <2>1. pc' \notin {"put settings", "restore manifest", "restore settings"}
    BY <1>4 DEF Acquire, Recovery, SweepDirectory, RecoverJournal,
       RecoveryBlocked, RecoveryDone, Release, Goto
  <2> QED
    BY <1>3, <2>1
<1>5. CASE Failure
  <2>1. pc' \notin {"put settings", "restore manifest", "restore settings"}
    BY <1>5 DEF Failure, Abandon, CreateJournalRaises, StepRaises, CompensationRaises,
       PreimageMissing, Crash, CleanSecretRaises, Return, Release, Raise, RestoreLabel
  <2> QED
    BY <1>3, <2>1
<1>6. CASE Execution /\ ~ CompareSettings
  <2>1. pc' \notin {"put settings", "restore manifest", "restore settings"}
    BY <1>6 DEF Execution, Pretransaction, EnsureSettings, Prepare, CreateJournal,
       StageSnapshot, FilesStaged, StoreSecret, SecretsCreated, PrecommitSideEffects,
       ReplaceSettings, CompareManifest, ReplaceManifest, Verify,
       ApplySideEffects, Finalize, Synced, PostcommitSideEffects, Goto, Raise, Release,
       session, disk
  <2> QED
    BY <1>3, <2>1
<1>7. CASE CompareSettings
  BY <1>7 DEF CompareSettings, Goto, Raise, disk, outsider
<1>8. CASE ScanClear
  <2>1. Conflicts(cur) = {} /\ UNCHANGED <<files, plan, cur, raced>> /\ pc' = "restore manifest"
    BY <1>8 DEF ScanClear, disk, outsider, Goto
  <2> QED
    BY <1>0, <2>1 DEF Conflicts, Changed
<1>9. CASE RestoreManifest
  <2>1. /\ files'["settings"] = files["settings"] /\ UNCHANGED <<plan, cur, raced>>
        /\ pc = "restore manifest" /\ pc' = "restore settings"
    BY <1>0, <1>9 DEF RestoreManifest, RestoreLabel, Restore, Goto, outsider
  <2> QED
    BY <2>1 DEF Changed
<1>10. CASE Compensation /\ ~ ScanClear /\ ~ RestoreManifest
  <2>1. pc' \notin {"put settings", "restore manifest", "restore settings"}
    BY <1>10 DEF Compensation, ScanConflict, RestoreSettings, CleanSecret, CloseJournal,
       Unwind, Return, Release, Goto, RestoreLabel
  <2> QED
    BY <1>3, <2>1
<1> HIDE DEF Windows
<1> QED
  BY <1>1, <1>2, <1>4, <1>5, <1>6, <1>7, <1>8, <1>9, <1>10 DEF Next, Progress, Outsider

(* A document written without the lock is never lost unseen, whatever the  *)
(* number of saves, failures and writers: a session that replaces it has   *)
(* read it, or it landed between a comparison and the replacement.         *)
THEOREM OutsideEditsKept == Spec => OutsideEditKept
<1>1. Init => History /\ Windows
  BY InitHistory, InitWindows
<1>2. History /\ Windows /\ [Next]_vars => History' /\ Windows'
  BY NextHistory, NextWindows DEF History, Barrier
<1>3. History /\ Windows /\ [Next]_vars => [~ OverwritesUnseen(Outside \ raced)]_vars
  <2> SUFFICES ASSUME History, Windows, [Next]_vars, OverwritesUnseen(Outside \ raced)
               PROVE  FALSE
    OBVIOUS
  <2>0. /\ files \in [Resource -> File] /\ "settings" \in Resource /\ "manifest" \in Resource
        /\ Typed
    BY DEF History, Barrier, Typed, DiskTyped, Resource
  <2>1. /\ files["settings"] # Absent /\ files["settings"].tag \in Outside
        /\ files["settings"].tag \notin raced
        /\ files'["settings"] # files["settings"] /\ draft' = draft
        /\ pc # "ensure" /\ files["settings"] # plan[cur].before["settings"]
    BY DEF OverwritesUnseen
  <2>2. ~ OutsideWrite
    BY <2>1 DEF OutsideWrite
  <2>3. ~ UNCHANGED files /\ ~ ReplaceManifest /\ ~ RestoreManifest
    BY <2>0, <2>1 DEF ReplaceManifest, RestoreManifest, Restore
  <2>4. ReplaceSettings \/ RestoreSettings
    BY <2>1, <2>2, <2>3, StepKinds DEF disk, SweepDirectory, CreateJournal,
       CreateJournalRaises, Finalize, ScanConflict, CloseJournal, Prepare, StageSnapshot,
       StoreSecret, CleanSecret, EnsureSettings, OutsideRead
  <2>5. CASE ReplaceSettings
    BY <2>1, <2>5 DEF ReplaceSettings, Windows
  <2>6. CASE RestoreSettings
    <3>1. pc = "restore settings" /\ Changed(cur, "settings") /\ cur \in Txn
      BY <2>0, <2>1, <2>6, CurInside DEF RestoreSettings, RestoreLabel, Restore, NeedsRestore
    <3>2. files["settings"] = plan[cur].after["settings"]
      BY <2>1, <3>1 DEF Windows
    <3>3. \E refs : files["settings"] = [tag |-> cur, refs |-> refs]
      BY <2>1, <3>1, <3>2 DEF History, PlanShape, SavedAs
    <3>4. ASSUME NEW refs PROVE [tag |-> cur, refs |-> refs].tag = cur
      OBVIOUS
    <3>5. files["settings"].tag = cur
      BY <3>3, <3>4
    <3> QED
      BY <2>1, <3>1, <3>5, TagsDistinct, OutsideAreEdits
  <2> QED
    BY <2>4, <2>5, <2>6
<1> QED
  BY <1>1, <1>2, <1>3, PTL DEF Spec, OutsideEditKept

-----------------------------------------------------------------------------
(* The transactions whose preimages may still be needed: a step adds only  *)
(* the one it prepares.                                                    *)
LEMMA WorkingStays ==
  ASSUME Barrier, StatusFits, [Next]_vars, NEW t \in Txn, Working(t)'
  PROVE  Working(t) \/ \E slots \in SUBSET Slot : Prepare(t, slots)
<1> USE DEF Working, Saving, Compensating, TryBlock
<1>0. /\ status \in [Txn -> Status] /\ NoTxn \notin Txn
      /\ Saving \/ Compensating => cur \in Txn
  BY CurInside, TagsDistinct DEF Barrier, Typed, DiskTyped
<1>1. ASSUME UNCHANGED status, Saving' \/ Compensating' => cur' = cur /\ (Saving \/ Compensating)
      PROVE  Working(t)
  BY <1>1 DEF Open
<1>2. CASE UNCHANGED vars \/ Outsider
  BY <1>1, <1>2 DEF vars, Outsider, OutsideRead, OutsideWrite, disk, session
<1>3. CASE (\E m \in {"save", "ensure", "recover"} : Acquire(m)) \/ RecoveryBlocked \/ RecoveryDone
  BY <1>1, <1>3 DEF Acquire, RecoveryBlocked, RecoveryDone, Release, Goto, disk
<1>4. ASSUME NEW u \in Txn, SweepDirectory(u) \/ RecoverJournal(u) PROVE Working(t)
  BY <1>0, <1>4 DEF SweepDirectory, RecoverJournal, Open, disk
<1>5. CASE Failure /\ ~ CreateJournalRaises
  BY <1>1, <1>5 DEF Failure, Abandon, StepRaises, CompensationRaises,
     PreimageMissing, Crash, CleanSecretRaises, Return, Release, Raise, RestoreLabel, disk
<1>6. CASE CreateJournalRaises \/ ScanConflict \/ CloseJournal
  <2>1. /\ \E s : status' = [status EXCEPT ![cur] = s]
        /\ ~ Saving' /\ ~ Compensating' /\ (Saving \/ Compensating)
    BY <1>6 DEF CreateJournalRaises, ScanConflict, CloseJournal, Release, Return
  <2> QED
    BY <1>0, <2>1 DEF Open
<1>7. CASE CreateJournal \/ Finalize
  <2>1. (\E s : status' = [status EXCEPT ![cur] = s]) /\ cur' = cur /\ Saving
    BY <1>7 DEF CreateJournal, Finalize, Goto
  <2> QED
    BY <1>0, <2>1 DEF Open
<1>8. ASSUME NEW u \in Txn, NEW slots \in SUBSET Slot, Prepare(u, slots), t # u PROVE Working(t)
  BY <1>0, <1>8 DEF Prepare, Open
<1>9. CASE /\ Execution /\ ~ CreateJournal /\ ~ Finalize
           /\ ~ \E u \in Txn, slots \in SUBSET Slot : Prepare(u, slots)
  BY <1>1, <1>9 DEF Execution, Pretransaction, EnsureSettings,
     StageSnapshot, FilesStaged, StoreSecret, SecretsCreated, PrecommitSideEffects,
     CompareSettings, ReplaceSettings, CompareManifest, ReplaceManifest, Verify,
     ApplySideEffects, Synced, PostcommitSideEffects, Goto, Raise, Release,
     session, disk
<1>10. CASE Compensation /\ ~ ScanConflict /\ ~ CloseJournal
  BY <1>1, <1>10 DEF Compensation, ScanClear, RestoreManifest, RestoreSettings, RestoreLabel,
     CleanSecret, Unwind, Goto, Release, disk
<1> HIDE DEF Working
<1> QED
  BY <1>2, <1>3, <1>4, <1>5, <1>6, <1>7, <1>8, <1>9, <1>10 DEF Next, Progress, Recovery

(* Only SecretsCreated makes the keys of a save count as stored.           *)
LEMMA StoredStays ==
  ASSUME [Next]_vars, Stored'
  PROVE  SecretsCreated \/ (Stored /\ cur' = cur)
<1> USE DEF Stored, TryBlock
<1>1. CASE UNCHANGED vars \/ Outsider
  BY <1>1 DEF vars, Outsider, OutsideRead, OutsideWrite, disk, session
<1>2. CASE (\E m \in {"save", "ensure", "recover"} : Acquire(m)) \/ Recovery
  BY <1>2 DEF Acquire, Recovery, SweepDirectory, RecoverJournal,
     RecoveryBlocked, RecoveryDone, Release, Goto
<1>3. CASE Compensation
  BY <1>3 DEF Compensation, ScanConflict, ScanClear, RestoreManifest,
     RestoreSettings, RestoreLabel, CleanSecret, CloseJournal, Unwind, Return, Release, Goto
<1>4. CASE Failure
  BY <1>4 DEF Failure, Abandon, CreateJournalRaises, StepRaises, CompensationRaises,
     PreimageMissing, Crash, CleanSecretRaises, Return, Release, Raise, RestoreLabel
<1>5. CASE Execution
  BY <1>5 DEF Execution, Pretransaction, EnsureSettings, Prepare, CreateJournal,
     StageSnapshot, FilesStaged, StoreSecret, SecretsCreated, PrecommitSideEffects,
     CompareSettings, ReplaceSettings, CompareManifest, ReplaceManifest, Verify,
     ApplySideEffects, Finalize, Synced, PostcommitSideEffects, Goto, Raise, Release,
     session, disk
<1> QED
  BY <1>1, <1>2, <1>3, <1>4, <1>5 DEF Next, Progress

(* Whoever looks at the keys of a transaction has restored its documents.  *)
LEMMA CleaningStays ==
  ASSUME [Next]_vars, pc # "clean" => cleaned = {} /\ dirty = FALSE
  PROVE  /\ pc' # "clean" => cleaned' = {} /\ dirty' = FALSE
         /\ pc' = "clean" => \/ RestoreSettings /\ cleaned' = {} /\ UNCHANGED <<plan, cur>>
                             \/ /\ pc = "clean" /\ UNCHANGED <<plan, cur>>
                                /\ \/ UNCHANGED <<files, secrets, cleaned, dirty>>
                                   \/ UNCHANGED files /\ dirty' = TRUE
                                   \/ \E s \in Secret : CleanSecret(s)
                                   \/ OutsideWrite
<1>1. CASE UNCHANGED vars \/ Outsider
  BY <1>1 DEF vars, Outsider, OutsideRead, OutsideWrite, disk, session
<1>2. CASE (\E m \in {"save", "ensure", "recover"} : Acquire(m)) \/ Recovery
  BY <1>2 DEF Acquire, Recovery, SweepDirectory, RecoverJournal,
     RecoveryBlocked, RecoveryDone, Release, Goto
<1>3. CASE Compensation /\ ~ RestoreSettings
  BY <1>3 DEF Compensation, ScanConflict, ScanClear, RestoreManifest,
     RestoreLabel, CleanSecret, CloseJournal, Unwind, Return, Release, Goto
<1>4. CASE RestoreSettings
  BY <1>4 DEF RestoreSettings, RestoreLabel, Goto
<1>5. CASE Failure
  BY <1>5 DEF Failure, Abandon, CreateJournalRaises, StepRaises, CompensationRaises,
     PreimageMissing, Crash, CleanSecretRaises, Return, Release, Raise, RestoreLabel,
     TryBlock, disk
<1>6. CASE Execution
  BY <1>6 DEF Execution, Pretransaction, EnsureSettings, Prepare, CreateJournal,
     StageSnapshot, FilesStaged, StoreSecret, SecretsCreated, PrecommitSideEffects,
     CompareSettings, ReplaceSettings, CompareManifest, ReplaceManifest, Verify,
     ApplySideEffects, Finalize, Synced, PostcommitSideEffects, Goto, Raise, Release,
     session, disk
<1> QED
  BY <1>1, <1>2, <1>3, <1>4, <1>5, <1>6 DEF Next, Progress

-----------------------------------------------------------------------------
(* The keys.                                                               *)
LEMMA InitKeys == Init => Keys
<1> SUFFICES ASSUME Init PROVE Keys
  OBVIOUS
<1>1. \A r \in Resource : RefsOf(files[r]) = {}
  BY DEF Init, RefsOf
<1>2. \A t \in Txn, r \in Resource : RefsOf(plan[t].before[r]) = {}
  BY DEF Init, RefsOf
<1>3. ManifestsNameNoKey
  BY <1>1, <1>2 DEF ManifestsNameNoKey, Resource
<1>4. NothingDangles
  BY <1>1, <1>2 DEF NothingDangles, Referenced, Init, Stored, TryBlock
<1>5. KeysAreOwned /\ CleaningFits
  BY DEF Init, KeysAreOwned, CleaningFits
<1> QED
  BY <1>3, <1>4, <1>5, InitHistory DEF Keys, KeysFit

(* runtime.json never names a key.                                         *)
LEMMA NextManifests ==
  ASSUME History, ManifestsNameNoKey, [Next]_vars
  PROVE  ManifestsNameNoKey'
<1>0. /\ files \in [Resource -> File] /\ plan \in [Txn -> Plan]
      /\ "settings" \in Resource /\ "manifest" \in Resource
  BY DEF History, Barrier, Typed, DiskTyped, Resource
<1>1. ASSUME RefsOf(files'["manifest"]) = {},
             \A t \in Txn : RefsOf(plan'[t].before["manifest"]) = {}
      PROVE  ManifestsNameNoKey'
  BY <1>1 DEF ManifestsNameNoKey, RefsOf
<1>2. /\ RefsOf(files["manifest"]) = {}
      /\ \A t \in Txn : RefsOf(plan[t].before["manifest"]) = {}
  BY DEF ManifestsNameNoKey
<1>3. ASSUME UNCHANGED plan, files'["manifest"] = files["manifest"] PROVE ManifestsNameNoKey'
  BY <1>1, <1>2, <1>3
<1>4. CASE ReplaceManifest
  <2>1. cur \in Txn
    BY <1>4, CurInside DEF ReplaceManifest, TryBlock, History, Barrier
  <2>2. SavedAs(cur, plan[cur].owned, plan[cur].before, plan[cur].after)
    BY <2>1 DEF History, PlanShape
  <2>3. ~ [tag |-> cur, refs |-> {}] = Absent
    <3>1. [tag |-> cur, refs |-> {}] \in Doc
      BY <2>1 DEF Doc
    <3> QED
      BY <3>1, AbsentIsNoDoc
  <2>4. RefsOf(plan[cur].after["manifest"]) = {}
    BY <1>2, <2>1, <2>2, <2>3 DEF SavedAs, RefsOf
  <2> QED
    BY <1>0, <1>1, <1>2, <1>4, <2>4 DEF ReplaceManifest
<1>5. CASE RestoreManifest
  <2>1. cur \in Txn
    BY <1>5, CurInside DEF RestoreManifest, RestoreLabel, History, Barrier
  <2>2. files'["manifest"] \in {files["manifest"], plan[cur].before["manifest"]} /\ UNCHANGED plan
    BY <1>0, <1>5 DEF RestoreManifest, Restore
  <2> QED
    BY <1>1, <1>2, <2>1, <2>2
<1>6. ASSUME NEW t \in Txn, NEW slots \in SUBSET Slot, Prepare(t, slots)
      PROVE  ManifestsNameNoKey'
  <2>1. \A u \in Txn : plan'[u].before \in {plan[u].before, files}
    BY <1>0, <1>6 DEF Prepare
  <2> QED
    BY <1>1, <1>2, <1>6, <2>1 DEF Prepare
<1>7. CASE \/ \E e \in Edit : EnsureSettings(e) \/ OutsideRead(e)
           \/ ReplaceSettings \/ RestoreSettings \/ OutsideWrite
  BY <1>0, <1>3, <1>7 DEF EnsureSettings, OutsideRead, ReplaceSettings, RestoreSettings,
     Restore, OutsideWrite, disk
<1>8. CASE \/ UNCHANGED <<disk, draft>> \/ \E t \in Txn : SweepDirectory(t)
           \/ CreateJournal \/ CreateJournalRaises \/ Finalize \/ ScanConflict \/ CloseJournal
           \/ \E r \in Resource : StageSnapshot(r)
           \/ \E s \in Secret : StoreSecret(s) \/ CleanSecret(s)
  BY <1>3, <1>8 DEF SweepDirectory, CreateJournal, CreateJournalRaises, Finalize,
     ScanConflict, CloseJournal, StageSnapshot, StoreSecret, CleanSecret, disk
<1> QED
  BY <1>4, <1>5, <1>6, <1>7, <1>8, StepKinds

(* As long as nobody writes without the lock, nobody has begun to.         *)
LEMMA AloneSteps ==
  ASSUME [Next]_vars, Alone', Typed
  PROVE  /\ Alone
         /\ ~ \E e \in Edit : OutsideRead(e)
         /\ (Alone => draft = Absent) => ~ OutsideWrite
<1>1. edits \subseteq edits'
  <2>1. CASE UNCHANGED edits
    BY <2>1
  <2>2. ASSUME NEW e \in Edit, EnsureSettings(e) \/ OutsideRead(e) PROVE edits \subseteq edits'
    BY <2>2 DEF EnsureSettings, OutsideRead
  <2>3. UNCHANGED edits \/ \E e \in Edit : EnsureSettings(e) \/ OutsideRead(e)
    BY DEF Next, Progress, Recovery, Execution, Compensation, Failure, Outsider, outsider,
       Acquire, SweepDirectory, RecoverJournal, RecoveryBlocked, RecoveryDone,
       Pretransaction, Prepare, CreateJournal, StageSnapshot, FilesStaged, StoreSecret,
       SecretsCreated, PrecommitSideEffects, CompareSettings, ReplaceSettings,
       CompareManifest, ReplaceManifest, Verify, ApplySideEffects, Finalize, Synced,
       PostcommitSideEffects, ScanConflict, ScanClear, RestoreManifest, RestoreSettings,
       CleanSecret, CloseJournal, Unwind, Abandon, CreateJournalRaises, StepRaises,
       CompensationRaises, PreimageMissing, Crash, CleanSecretRaises, OutsideWrite, vars
  <2> QED
    BY <2>1, <2>2, <2>3
<1>2. Alone
  BY <1>1 DEF Alone
<1>3. ASSUME NEW e \in Edit, OutsideRead(e) PROVE FALSE
  BY <1>3 DEF OutsideRead, Alone
<1> QED
  BY <1>2, <1>3 DEF OutsideWrite

(* The keys of the transaction being undone are named by no document.      *)
LEMMA CleanedIsUnnamed ==
  ASSUME History, ManifestsNameNoKey, CleaningFits, pc = "clean", StatusFits,
         NEW s \in plan[cur].owned
  PROVE  s \notin Referenced
<1>1. cur \in Txn
  BY CurInside DEF History, Barrier
<1>2. PICK slots \in SUBSET Slot : plan[cur].owned = {cur} \X slots
  BY <1>1 DEF History, PlanShape
<1>3. s[1] = cur
  BY <1>2
<1>4. SavedAs(cur, plan[cur].owned, plan[cur].before, plan[cur].after)
  BY <1>1 DEF History, PlanShape
<1>5. Before(cur, plan[cur].before) /\ plan[cur].after["settings"] # Absent
  BY <1>1 DEF History, PlanShape, StatusFits, Compensating, Open, Resource
<1>6. Changed(cur, "settings")
  <2>1. PICK kept \in SUBSET RefsOf(plan[cur].before["settings"]) :
          plan[cur].after["settings"] = [tag |-> cur, refs |-> kept \cup plan[cur].owned]
    BY <1>4 DEF SavedAs
  <2>2. plan[cur].after["settings"].tag = cur
    BY <2>1
  <2> QED
    BY <1>5, <2>2 DEF Before, Changed, Resource
<1>7. s \notin RefsOf(files["settings"])
  BY <1>3, <1>5, <1>6 DEF CleaningFits, Before, RefsOf, Resource
<1> QED
  BY <1>7 DEF Referenced, Resource, ManifestsNameNoKey

LEMMA NextNothingDangles ==
  ASSUME History, ManifestsNameNoKey, NothingDangles, CleaningFits, Alone', [Next]_vars
  PROVE  NothingDangles'
<1> DEFINE Named(file) == RefsOf(file) \subseteq secrets
<1>0. /\ files \in [Resource -> File] /\ plan \in [Txn -> Plan] /\ status \in [Txn -> Status]
      /\ Barrier /\ StatusFits /\ Typed
      /\ "settings" \in Resource /\ "manifest" \in Resource
  BY DEF History, Barrier, Typed, DiskTyped, Resource
<1>1. Alone /\ (~ \E e \in Edit : OutsideRead(e)) /\ ~ OutsideWrite /\ draft = Absent
  BY <1>0, AloneSteps DEF NothingDangles
<1>2. \A r \in Resource : RefsOf(files[r]) \subseteq secrets
  BY DEF NothingDangles, Referenced
<1>3. \A t \in Txn : Working(t) => \A r \in Resource : RefsOf(plan[t].before[r]) \subseteq secrets
  BY DEF NothingDangles
<1>4. ASSUME draft' = Absent,
             \A r \in Resource : RefsOf(files'[r]) \subseteq secrets',
             \A t \in Txn : Working(t)' =>
               \A r \in Resource : RefsOf(plan'[t].before[r]) \subseteq secrets',
             Stored' => plan'[cur'].owned \subseteq secrets'
      PROVE  NothingDangles'
  BY <1>4 DEF NothingDangles, Referenced, RefsOf
<1>5. Stored' => SecretsCreated \/ (Stored /\ cur' = cur)
  BY StoredStays
<1>6. ASSUME UNCHANGED plan,
             ~ \E t \in Txn, slots \in SUBSET Slot : Prepare(t, slots),
             secrets \subseteq secrets', draft' = Absent,
             \A r \in Resource : RefsOf(files'[r]) \subseteq secrets'
      PROVE  NothingDangles'
  <2>1. \A t \in Txn : Working(t)' => Working(t)
    BY <1>0, <1>6, WorkingStays
  <2>2. \A t \in Txn : Working(t)' =>
          \A r \in Resource : RefsOf(plan'[t].before[r]) \subseteq secrets'
    BY <1>3, <1>6, <2>1
  <2>3. Stored' => plan'[cur'].owned \subseteq secrets'
    BY <1>5, <1>6 DEF SecretsCreated, Goto, NothingDangles
  <2> QED
    BY <1>4, <1>6, <2>2, <2>3
<1>7. ASSUME NEW t \in Txn, NEW slots \in SUBSET Slot, Prepare(t, slots) PROVE NothingDangles'
  <2>1. /\ \A u \in Txn : plan'[u].before = IF u = t THEN files ELSE plan[u].before
        /\ UNCHANGED <<files, secrets, draft>> /\ pc' = "journal" /\ pc = "prepare" /\ cur' = t
    BY <1>0, <1>7 DEF Prepare, outsider
  <2>2. ASSUME NEW u \in Txn, Working(u)' PROVE u = t \/ Working(u)
    BY <1>0, <1>7, <2>1, <2>2 DEF Prepare, Working, Open, Saving, Compensating
  <2> QED
    BY <1>1, <1>2, <1>3, <1>4, <2>1, <2>2 DEF Stored, TryBlock
<1>8. ASSUME NEW t \in Txn, NEW slots \in SUBSET Slot, Prepare(t, slots)
      PROVE  /\ ~ (\E u \in Txn : SweepDirectory(u)) /\ ~ CreateJournal /\ ~ CreateJournalRaises
             /\ pc = "prepare"
  BY <1>8 DEF Prepare, SweepDirectory, CreateJournal, CreateJournalRaises
<1>9. CASE \/ UNCHANGED <<disk, draft>> \/ \E t \in Txn : SweepDirectory(t)
           \/ CreateJournal \/ CreateJournalRaises \/ Finalize \/ ScanConflict \/ CloseJournal
           \/ \E r \in Resource : StageSnapshot(r)
           \/ \E s \in Secret : StoreSecret(s)
  <2>1. UNCHANGED <<files, plan, draft>> /\ secrets \subseteq secrets'
    BY <1>9 DEF SweepDirectory, CreateJournal, CreateJournalRaises, Finalize,
       ScanConflict, CloseJournal, StageSnapshot, StoreSecret, disk, outsider
  <2> QED
    BY <1>1, <1>2, <1>6, <1>7, <2>1
<1>10. ASSUME NEW e \in Edit, EnsureSettings(e) PROVE NothingDangles'
  <2>1. /\ files' = [files EXCEPT !["settings"] = [tag |-> e, refs |-> RefsOf(files["settings"])]]
        /\ UNCHANGED <<plan, draft, secrets>>
    BY <1>10 DEF EnsureSettings
  <2>2. RefsOf([tag |-> e, refs |-> RefsOf(files["settings"])]) \subseteq secrets
    BY <1>0, <1>2 DEF RefsOf
  <2> QED
    BY <1>0, <1>1, <1>2, <1>6, <1>7, <2>1, <2>2
<1>11. CASE ReplaceSettings
  <2>1. /\ files' = [files EXCEPT !["settings"] = plan[cur].after["settings"]]
        /\ UNCHANGED <<plan, draft, secrets>> /\ pc = "put settings"
    BY <1>11 DEF ReplaceSettings, outsider
  <2>2. cur \in Txn /\ Working(cur) /\ Stored
    BY <1>0, <2>1, CurInside DEF TryBlock, Working, Saving, Stored
  <2>3. SavedAs(cur, plan[cur].owned, plan[cur].before, plan[cur].after)
    BY <2>2 DEF History, PlanShape
  <2>4. RefsOf(plan[cur].before["settings"]) \subseteq secrets /\ plan[cur].owned \subseteq secrets
    BY <1>0, <1>3, <2>2 DEF NothingDangles
  <2>5. RefsOf(plan[cur].after["settings"]) \subseteq secrets
    <3>1. ASSUME NEW kept \in SUBSET RefsOf(plan[cur].before["settings"])
          PROVE  RefsOf([tag |-> cur, refs |-> kept \cup plan[cur].owned]) \subseteq secrets
      BY <2>4 DEF RefsOf
    <3> QED
      BY <2>3, <2>4, <3>1 DEF SavedAs
  <2> QED
    BY <1>0, <1>1, <1>2, <1>6, <1>7, <2>1, <2>5
<1>12. CASE ReplaceManifest \/ RestoreManifest
  <2>1. UNCHANGED <<plan, draft, secrets>> /\ files'["settings"] = files["settings"]
    BY <1>0, <1>12 DEF ReplaceManifest, RestoreManifest, Restore, outsider
  <2>2. RefsOf(files'["manifest"]) = {}
    <3>1. ManifestsNameNoKey'
      BY NextManifests
    <3> QED
      BY <3>1 DEF ManifestsNameNoKey, RefsOf
  <2> QED
    BY <1>1, <1>2, <1>6, <1>7, <2>1, <2>2 DEF Resource
<1>13. CASE RestoreSettings
  <2>1. UNCHANGED <<plan, draft, secrets>> /\ Working(cur) /\ cur \in Txn
    BY <1>0, <1>13, CurInside DEF RestoreSettings, RestoreLabel, Working, Compensating, outsider
  <2>2. \A r \in Resource : files'[r] \in {files[r], plan[cur].before[r]}
    BY <1>0, <1>13 DEF RestoreSettings, Restore
  <2> QED
    BY <1>1, <1>2, <1>3, <1>6, <1>7, <2>1, <2>2
<1>14. ASSUME NEW s \in Secret, CleanSecret(s) PROVE NothingDangles'
  <2>1. /\ pc = "clean" /\ s \in plan[cur].owned /\ pc' = "clean"
        /\ UNCHANGED <<files, plan, draft, status, cur>>
        /\ secrets' = IF s \in Referenced THEN secrets ELSE secrets \ {s}
    BY <1>14 DEF CleanSecret, outsider
  <2>2. \A r \in Resource : RefsOf(files'[r]) \subseteq secrets'
    BY <1>2, <2>1 DEF Referenced
  <2>3. cur \in Txn /\ Compensating
    BY <1>0, <2>1, CurInside DEF Compensating
  <2>4. s[1] = cur
    BY <2>1, <2>3 DEF History, PlanShape
  <2>5. \A t \in Txn : Working(t) => t = cur
    BY <2>3 DEF Working, History, Barrier, SaveAlone, RecoversOpen, OneOpenJournal, OnlyCurOpen
  <2>6. \A r \in Resource : s \notin RefsOf(plan[cur].before[r])
    BY <2>3, <2>4 DEF History, PlanShape, Before, RefsOf
  <2>7. \A t \in Txn : Working(t)' => Working(t)
    BY <2>1, <2>3 DEF Working, Open, Compensating
  <2>8. \A t \in Txn : Working(t)' =>
          \A r \in Resource : RefsOf(plan'[t].before[r]) \subseteq secrets'
    BY <1>3, <2>1, <2>5, <2>6, <2>7
  <2> QED
    BY <1>1, <1>4, <2>1, <2>2, <2>8 DEF Stored, TryBlock
<1> QED
  BY <1>1, <1>7, <1>9, <1>10, <1>11, <1>12, <1>13, <1>14, StepKinds

LEMMA NextKeysAreOwned ==
  ASSUME History, KeysAreOwned, CleaningFits, [Next]_vars
  PROVE  KeysAreOwned'
<1> DEFINE Promised(t) == Open(t) \/ status[t] = "committed"
<1>0. /\ plan \in [Txn -> Plan] /\ status \in [Txn -> Status] /\ secrets \subseteq Secret
      /\ \A s \in Secret : s[1] \in Txn
  BY DEF History, Barrier, Typed, DiskTyped, Secret
<1>1. ASSUME UNCHANGED plan, secrets' \subseteq secrets,
             \A t \in Txn : Promised(t) => Promised(t)' \/ \A s \in secrets' : s[1] # t
      PROVE  KeysAreOwned'
  BY <1>0, <1>1 DEF KeysAreOwned
<1>2. CASE \/ UNCHANGED <<disk, draft>> \/ \E r \in Resource : StageSnapshot(r)
           \/ \E s \in Secret : CleanSecret(s)
           \/ \E e \in Edit : EnsureSettings(e) \/ OutsideRead(e)
           \/ ReplaceSettings \/ ReplaceManifest \/ RestoreManifest \/ RestoreSettings
           \/ OutsideWrite
  <2>1. UNCHANGED <<plan, status>> /\ secrets' \subseteq secrets
    BY <1>2 DEF disk, StageSnapshot, CleanSecret, EnsureSettings, OutsideRead,
       ReplaceSettings, ReplaceManifest, RestoreManifest, RestoreSettings, OutsideWrite
  <2> QED
    BY <1>1, <2>1 DEF Open
<1>3. CASE \E t \in Txn : SweepDirectory(t)
  <2>1. UNCHANGED <<plan, secrets>> /\ \A t \in Txn : Promised(t) => Promised(t)'
    BY <1>0, <1>3 DEF SweepDirectory, Open
  <2> QED
    BY <1>1, <2>1
<1>4. CASE CreateJournal \/ CreateJournalRaises \/ Finalize \/ ScanConflict
  <2>1. UNCHANGED <<plan, secrets>>
    BY <1>4 DEF CreateJournal, CreateJournalRaises, Finalize, ScanConflict
  <2>2. \A t \in Txn : Promised(t) => Promised(t)'
    BY <1>0, <1>4 DEF CreateJournal, CreateJournalRaises, Finalize, ScanConflict, Open,
       History, StatusFits
  <2> QED
    BY <1>1, <2>1, <2>2
<1>5. CASE CloseJournal
  <2>1. /\ pc = "clean" /\ plan[cur].owned \subseteq cleaned /\ UNCHANGED <<plan, secrets>>
        /\ status' = [status EXCEPT ![cur] = IF dirty THEN "incomplete" ELSE "compensated"]
    BY <1>5 DEF CloseJournal
  <2>2. cur \in Txn /\ dirty \in BOOLEAN
    BY <2>1, CurInside DEF History, Barrier, Typed, SessionTyped
  <2>3. \A t \in Txn \ {cur} : Promised(t) => Promised(t)'
    BY <1>0, <2>1 DEF Open
  <2>4. CASE dirty = TRUE
    BY <1>0, <1>1, <2>1, <2>2, <2>3, <2>4 DEF Open
  <2>5. CASE dirty = FALSE
    <3>1. \A s \in secrets : s[1] # cur
      BY <2>1, <2>5 DEF CleaningFits, KeysAreOwned
    <3> QED
      BY <1>1, <2>1, <2>3, <3>1
  <2> QED
    BY <2>2, <2>4, <2>5
<1>6. ASSUME NEW s \in Secret, StoreSecret(s) PROVE KeysAreOwned'
  <2>1. /\ pc = "store" /\ s \in plan[cur].owned /\ secrets' = secrets \cup {s}
        /\ UNCHANGED <<plan, status>>
    BY <1>6 DEF StoreSecret
  <2>2. cur \in Txn /\ Open(cur)
    BY <2>1, CurInside DEF History, Barrier, StatusFits, TryBlock, Open
  <2>3. s[1] = cur
    BY <2>1, <2>2 DEF History, PlanShape
  <2> QED
    BY <2>1, <2>2, <2>3 DEF KeysAreOwned, Open
<1>7. ASSUME NEW t \in Txn, NEW slots \in SUBSET Slot, Prepare(t, slots) PROVE KeysAreOwned'
  <2>1. /\ UNCHANGED secrets /\ status[t] = "none"
        /\ \A u \in Txn \ {t} : plan'[u] = plan[u] /\ status'[u] = status[u]
    BY <1>0, <1>7 DEF Prepare
  <2>2. \A s \in secrets : s[1] # t
    BY <2>1 DEF KeysAreOwned, Open
  <2> QED
    BY <1>0, <2>1, <2>2 DEF KeysAreOwned, Open
<1> QED
  BY <1>2, <1>3, <1>4, <1>5, <1>6, <1>7, StepKinds

LEMMA NextCleaningFits ==
  ASSUME History, ManifestsNameNoKey, NothingDangles, CleaningFits, Alone', [Next]_vars
  PROVE  CleaningFits'
<1>0. files \in [Resource -> File] /\ "settings" \in Resource /\ Typed /\ StatusFits
  BY DEF History, Barrier, Typed, DiskTyped, Resource
<1>1. ~ OutsideWrite
  BY <1>0, AloneSteps DEF NothingDangles
<1>2. pc' # "clean" => cleaned' = {} /\ dirty' = FALSE
  BY CleaningStays DEF CleaningFits
<1>3. ASSUME RestoreSettings, cleaned' = {}, UNCHANGED <<plan, cur>>, pc' = "clean"
      PROVE  CleaningFits'
  <2>1. Changed(cur, "settings") => files'["settings"] = plan[cur].before["settings"]
    BY <1>0, <1>3 DEF RestoreSettings, Restore, NeedsRestore
  <2> QED
    BY <1>3, <2>1 DEF CleaningFits, Changed
<1>4. ASSUME pc' = "clean", pc = "clean", UNCHANGED <<plan, cur>>,
             UNCHANGED <<files, secrets, cleaned, dirty>> \/ (UNCHANGED files /\ dirty' = TRUE)
      PROVE  CleaningFits'
  BY <1>4 DEF CleaningFits, Changed
<1>5. ASSUME NEW s \in Secret, CleanSecret(s) PROVE CleaningFits'
  <2>1. /\ pc = "clean" /\ pc' = "clean" /\ s \in plan[cur].owned
        /\ UNCHANGED <<files, plan, cur, dirty>> /\ cleaned' = cleaned \cup {s}
        /\ secrets' = IF s \in Referenced THEN secrets ELSE secrets \ {s}
    BY <1>5 DEF CleanSecret
  <2>2. s \notin Referenced
    BY <1>0, <2>1, CleanedIsUnnamed
  <2> QED
    BY <2>1, <2>2 DEF CleaningFits, Changed
<1> QED
  <2>1. CASE pc' # "clean"
    BY <1>2, <2>1 DEF CleaningFits
  <2>2. CASE pc' = "clean"
    BY <1>1, <1>3, <1>4, <1>5, <2>2, CleaningStays DEF CleaningFits
  <2> QED
    BY <2>1, <2>2

LEMMA NextKeys == ASSUME Keys, [Next]_vars PROVE Keys'
<1>1. History' /\ ManifestsNameNoKey'
  BY NextHistory, NextManifests DEF Keys
<1>2. Alone' => Alone
  BY AloneSteps DEF Keys, History, Barrier
<1>3. Alone' => NothingDangles' /\ KeysAreOwned' /\ CleaningFits'
  BY <1>2, NextNothingDangles, NextKeysAreOwned, NextCleaningFits DEF Keys, KeysFit
<1> QED
  BY <1>1, <1>3 DEF Keys, KeysFit

(* The documents and the secret store agree whatever the number of saves,  *)
(* slots, failures and kills: keys are stored before a document names them *)
(* and an undone save leaves none behind, as long as nobody writes         *)
(* settings.json without the lock.                                         *)
THEOREM KeysMatch == Spec => []SecretsMatch
<1>1. Init => Keys
  BY InitKeys
<1>2. Keys /\ [Next]_vars => Keys'
  BY NextKeys
<1>3. Keys => SecretsMatch
  BY DEF Keys, KeysFit, SecretsMatch, Alone, NoDanglingReference, NothingDangles,
     NoStraySecret, KeysAreOwned, History, Barrier, Typed, DiskTyped, Secret
<1> QED
  BY <1>1, <1>2, <1>3, PTL DEF Spec

-----------------------------------------------------------------------------
(* The documents, when nobody else writes and a journal that is there was  *)
(* reported to be there.                                                   *)
LEMMA InitBundleFits == Init => BundleFits
<1> SUFFICES ASSUME Init PROVE BundleFits
  OBVIOUS
<1> QED
  BY DEF Init, BundleFits, Open, Undecided

LEMMA NextBundleFits ==
  ASSUME Quiet, Keys, BundleFits, [Next]_vars
  PROVE  BundleFits'
<1> DEFINE Within(t) == \A r \in Resource : files[r] \in {plan[t].before[r], plan[t].after[r]}
<1>0. /\ files \in [Resource -> File] /\ plan \in [Txn -> Plan] /\ status \in [Txn -> Status]
      /\ "settings" \in Resource /\ "manifest" \in Resource /\ NoTxn \notin Txn
      /\ Barrier /\ StatusFits /\ Typed /\ Typed'
      /\ \A t \in Txn : /\ plan[t].before \in [Resource -> File]
                        /\ plan[t].after \in [Resource -> File]
  BY NextTyped, TagsDistinct DEF Keys, History, Barrier, Typed, DiskTyped, Resource, Plan
<1>1. ~ OutsideWrite /\ ~ \E e \in Edit : OutsideRead(e)
  <2>1. Alone' /\ Alone
    BY DEF Quiet, Alone
  <2> QED
    BY <1>0, <2>1, AloneSteps DEF Keys, KeysFit, NothingDangles
<1>2. \A t \in Txn : Open(t) => Within(t)
  BY DEF BundleFits
<1>3. ASSUME UNCHANGED <<files, plan>>, \A t \in Txn : Open(t)' => Open(t)
      PROVE  \A t \in Txn : Open(t)' => Within(t)'
  BY <1>2, <1>3
<1>4. ASSUME UNCHANGED <<files, plan, status>>
      PROVE  \A t \in Txn : Open(t)' => Within(t)'
  BY <1>3, <1>4 DEF Open
<1>5. ASSUME pc' \notin Undecided \cup {"check manifest", "put manifest", "verify", "apply",
                          "finalize", "restore settings", "clean"},
             \A t \in Txn : Open(t)' => Within(t)'
      PROVE  BundleFits'
  BY <1>5 DEF BundleFits
<1> HIDE DEF Within
<1>6. ASSUME UNCHANGED vars PROVE BundleFits'
  BY <1>6 DEF vars, BundleFits, Open, Undecided
<1>7. CASE \/ \E m \in {"save", "ensure", "recover"} : Acquire(m)
           \/ \E t \in Txn : RecoverJournal(t)
           \/ RecoveryBlocked \/ RecoveryDone \/ Pretransaction
           \/ Synced \/ PostcommitSideEffects \/ Unwind
           \/ Abandon \/ StepRaises \/ CompensationRaises \/ PreimageMissing \/ Crash
  <2>1. UNCHANGED <<files, plan, status>>
    BY <1>7 DEF Acquire, RecoverJournal, RecoveryBlocked, RecoveryDone, Pretransaction,
       Synced, PostcommitSideEffects, Unwind, Abandon, StepRaises, CompensationRaises,
       PreimageMissing, Crash, disk
  <2>2. pc' \in {"idle", "recover", "pretransaction", "prepare", "ensure", "scan", "postcommit",
                 "unwind"}
    BY <1>7 DEF Acquire, RecoverJournal, RecoveryBlocked, RecoveryDone, Pretransaction,
       Synced, PostcommitSideEffects, Unwind, Abandon, StepRaises, CompensationRaises,
       PreimageMissing, Crash, Goto, Release, Raise, Return
  <2> QED
    BY <1>4, <1>5, <2>1, <2>2 DEF Undecided
<1>8. ASSUME NEW t \in Txn, SweepDirectory(t) PROVE BundleFits'
  <2>1. UNCHANGED <<files, plan>> /\ (\A u \in Txn : Open(u)' => Open(u)) /\ pc' = "recover"
    BY <1>0, <1>8 DEF SweepDirectory, Open
  <2> QED
    BY <1>3, <1>5, <2>1 DEF Undecided
<1>9. CASE CreateJournalRaises
  <2>1. UNCHANGED <<files, plan>> /\ pc' = "idle"
    BY <1>9 DEF CreateJournalRaises, Release
  <2>2. status' = [status EXCEPT ![cur] = "empty"]
    BY <1>9 DEF CreateJournalRaises, Quiet
  <2>3. \A u \in Txn : Open(u)' => Open(u)
    BY <1>0, <2>2 DEF Open
  <2> QED
    BY <1>3, <1>5, <2>1, <2>3 DEF Undecided
<1>10. CASE Finalize
  <2>1. /\ UNCHANGED <<files, plan>> /\ pc' = "sync"
        /\ status' = [status EXCEPT ![cur] = "committed"]
    BY <1>10 DEF Finalize, Goto
  <2>2. \A u \in Txn : Open(u)' => Open(u)
    BY <1>0, <2>1 DEF Open
  <2> QED
    BY <1>3, <1>5, <2>1, <2>2 DEF Undecided
<1>11. CASE ScanConflict \/ CloseJournal
  <2>1. /\ UNCHANGED <<files, plan>> /\ pc' \in {"recover", "unwind"}
        /\ \E s : status' = [status EXCEPT ![cur] = s]
    BY <1>11 DEF ScanConflict, CloseJournal, Return
  <2>2. Open(cur)
    BY <1>0, <1>11 DEF ScanConflict, CloseJournal, StatusFits, Compensating, Quiet
  <2>3. \A u \in Txn : Open(u)' => Open(u)
    BY <1>0, <2>1, <2>2 DEF Open
  <2> QED
    BY <1>3, <1>5, <2>1, <2>3 DEF Undecided
<1>12. ASSUME NEW e \in Edit, EnsureSettings(e) PROVE BundleFits'
  <2>1. pc' = "idle" /\ (\A t \in Txn : ~ Open(t)')
    BY <1>0, <1>12 DEF EnsureSettings, Release, Barrier, PastRecovery, Settled, Open
  <2> QED
    BY <1>5, <2>1 DEF Undecided
<1>13. ASSUME NEW t \in Txn, NEW slots \in SUBSET Slot, Prepare(t, slots) PROVE BundleFits'
  <2>1. \A u \in Txn : ~ Open(u)'
    BY <1>0, <1>13 DEF Prepare, Open, Barrier, PastRecovery, Settled
  <2>2. plan'[t].before = files /\ cur' = t /\ pc' = "journal" /\ files' = files
    BY <1>0, <1>13 DEF Prepare
  <2> QED
    BY <2>1, <2>2 DEF BundleFits
<1>14. CASE CreateJournal
  <2>1. /\ UNCHANGED <<files, plan, cur>> /\ pc' = "stage" /\ files = plan[cur].before
        /\ \A u \in Txn : Open(u)' => u = cur
    BY <1>0, <1>14 DEF CreateJournal, Goto, Open, BundleFits, Undecided, Barrier,
       SaveAlone, Saving, OnlyCurOpen
  <2> QED
    BY <2>1 DEF BundleFits
<1>15. CASE \/ \E r \in Resource : StageSnapshot(r)
            \/ FilesStaged \/ \E s \in Secret : StoreSecret(s)
            \/ SecretsCreated \/ PrecommitSideEffects \/ CompareSettings
  <2>1. UNCHANGED <<files, plan, status, cur>>
    BY <1>15 DEF StageSnapshot, FilesStaged, StoreSecret, SecretsCreated,
       PrecommitSideEffects, CompareSettings, Goto, Raise, session, disk
  <2>2. pc \in Undecided /\ pc' \in {"stage", "store", "precommit", "check settings",
                                      "put settings", "scan"}
    BY <1>15 DEF StageSnapshot, FilesStaged, StoreSecret, SecretsCreated,
       PrecommitSideEffects, CompareSettings, Goto, Raise, session, Undecided
  <2>3. files = plan[cur].before
    BY <2>2 DEF BundleFits
  <2> QED
    BY <1>4, <2>1, <2>2, <2>3 DEF BundleFits, Within, Undecided
<1>16. CASE ReplaceSettings
  <2>1. /\ files' = [files EXCEPT !["settings"] = plan[cur].after["settings"]]
        /\ UNCHANGED <<plan, status, cur>> /\ pc = "put settings" /\ pc' = "check manifest"
    BY <1>16 DEF ReplaceSettings, Goto
  <2>2. files = plan[cur].before
    BY <2>1 DEF BundleFits, Undecided
  <2>3. \A u \in Txn : Open(u)' => u = cur
    BY <1>0, <2>1 DEF Open, Barrier, SaveAlone, Saving, OnlyCurOpen, TryBlock
  <2> QED
    BY <1>0, <2>1, <2>2, <2>3 DEF BundleFits, Undecided
<1>17. CASE CompareManifest
  <2>1. /\ UNCHANGED <<files, plan, status, cur>> /\ pc = "check manifest"
        /\ pc' \in {"verify", "put manifest", "scan"}
        /\ pc' = "verify" => ~ Changed(cur, "manifest")
    BY <1>17 DEF CompareManifest, Goto, Raise, disk
  <2>2. /\ files["settings"] = plan[cur].after["settings"]
        /\ files["manifest"] = plan[cur].before["manifest"] /\ cur \in Txn
    BY <1>0, <2>1, CurInside DEF BundleFits, TryBlock
  <2>3. ASSUME pc' = "verify" PROVE files = plan[cur].after
    <3>1. \A r \in Resource : files[r] = plan[cur].after[r]
      BY <2>1, <2>2, <2>3 DEF Changed, Resource
    <3>2. files \in [Resource -> File] /\ plan[cur].after \in [Resource -> File]
      BY <1>0, <2>2
    <3> QED
      BY <3>1, <3>2
  <2> QED
    BY <1>4, <2>1, <2>2, <2>3 DEF BundleFits, Undecided, Within
<1>18. CASE ReplaceManifest
  <2>1. /\ files' = [files EXCEPT !["manifest"] = plan[cur].after["manifest"]]
        /\ UNCHANGED <<plan, status, cur>> /\ pc = "put manifest" /\ pc' = "verify"
    BY <1>18 DEF ReplaceManifest, Goto
  <2>2. files["settings"] = plan[cur].after["settings"] /\ cur \in Txn
    BY <1>0, <2>1, CurInside DEF BundleFits, TryBlock
  <2>3. files' = plan[cur].after
    BY <1>0, <2>1, <2>2 DEF Resource
  <2>4. \A u \in Txn : Open(u)' => u = cur
    BY <1>0, <2>1 DEF Open, Barrier, SaveAlone, Saving, OnlyCurOpen, TryBlock
  <2> QED
    BY <1>0, <2>1, <2>3, <2>4 DEF BundleFits, Undecided
<1>19. CASE Verify \/ ApplySideEffects
  <2>1. /\ UNCHANGED <<files, plan, status, cur>> /\ pc \in {"verify", "apply"}
        /\ pc' \in {"apply", "finalize"}
    BY <1>19 DEF Verify, ApplySideEffects, Goto, disk
  <2> QED
    BY <1>4, <2>1 DEF BundleFits, Undecided, Within
<1>20. CASE ScanClear
  <2>1. UNCHANGED <<files, plan, status, cur>> /\ pc' = "restore manifest"
    BY <1>20 DEF ScanClear, Goto, disk
  <2> QED
    BY <1>4, <1>5, <2>1 DEF Undecided
<1>21. ASSUME pc \in {"restore manifest", "restore settings"}
       PROVE  /\ Open(cur) /\ cur \in Txn
              /\ \A u \in Txn : Open(u) => u = cur
  BY <1>0, <1>21, CurInside DEF StatusFits, Compensating, Quiet, Barrier, OneOpenJournal
<1>22. ASSUME NEW r \in Resource, Restore(r), cur \in Txn, Open(cur)
       PROVE  files' = [files EXCEPT ![r] = plan[cur].before[r]]
  <2>1. files[r] \in {plan[cur].before[r], plan[cur].after[r]}
    BY <1>2, <1>22 DEF Within
  <2>2. CASE NeedsRestore(r)
    BY <1>22, <2>2 DEF Restore
  <2>3. CASE ~ NeedsRestore(r)
    BY <1>0, <1>22, <2>1, <2>3 DEF Restore, NeedsRestore, Changed
  <2> QED
    BY <2>2, <2>3
<1>23. CASE RestoreManifest
  <2>1. /\ Restore("manifest") /\ UNCHANGED <<plan, status, cur>>
        /\ pc = "restore manifest" /\ pc' = "restore settings"
    BY <1>23 DEF RestoreManifest, RestoreLabel, Goto
  <2>2. files' = [files EXCEPT !["manifest"] = plan[cur].before["manifest"]]
    BY <1>0, <1>21, <1>22, <2>1
  <2>3. \A u \in Txn : Open(u)' => Within(u)'
    BY <1>0, <1>2, <1>21, <2>1, <2>2 DEF Open, Within
  <2> QED
    BY <1>0, <2>1, <2>2, <2>3 DEF BundleFits, Undecided, Within
<1>24. CASE RestoreSettings
  <2>1. /\ Restore("settings") /\ UNCHANGED <<plan, status, cur>>
        /\ pc = "restore settings" /\ pc' = "clean"
    BY <1>24 DEF RestoreSettings, RestoreLabel, Goto
  <2>2. files' = [files EXCEPT !["settings"] = plan[cur].before["settings"]]
    BY <1>0, <1>21, <1>22, <2>1
  <2>3. files["manifest"] = plan[cur].before["manifest"]
    BY <2>1 DEF BundleFits
  <2>4. files' = plan[cur].before
    BY <1>0, <1>21, <2>1, <2>2, <2>3 DEF Resource
  <2>5. \A u \in Txn : Open(u)' => u = cur
    BY <1>21, <2>1 DEF Open
  <2> QED
    BY <2>1, <2>4, <2>5 DEF BundleFits, Undecided
<1>25. CASE \E s \in Secret : CleanSecret(s) \/ CleanSecretRaises(s)
  <2>1. UNCHANGED <<files, plan, status, cur, pc>> /\ pc = "clean"
    BY <1>25 DEF CleanSecret, CleanSecretRaises, disk
  <2> QED
    BY <1>4, <2>1 DEF BundleFits, Undecided, Within
<1> QED
  BY <1>1, <1>6, <1>7, <1>8, <1>9, <1>10, <1>11, <1>12, <1>13, <1>14, <1>15, <1>16, <1>17,
     <1>18, <1>19, <1>20, <1>23, <1>24, <1>25 DEF Next, Progress, Recovery, Execution,
     Compensation, Failure, Outsider

-----------------------------------------------------------------------------
(* The refinement: a save takes place when its journal is marked committed.*)

(* What recovery would leave behind.                                       *)
LEMMA RecoveredOpen ==
  ASSUME OneOpenJournal, NEW t \in Txn, Open(t)
  PROVE  RecoveredFiles = [r \in Resource |-> plan[t].before[r]]
<1>1. t = CHOOSE u \in Txn : Open(u)
  BY DEF OneOpenJournal
<1> QED
  BY <1>1 DEF RecoveredFiles

LEMMA RecoveredSettled ==
  ASSUME Settled
  PROVE  RecoveredFiles = [r \in Resource |-> files[r]]
  BY DEF RecoveredFiles, Settled

(* The keys of completed saves, one by one.                                *)
LEMMA PromisedAre ==
  ASSUME History
  PROVE  \A s \in PromisedSecrets :
           /\ s[1] \in Txn /\ status[s[1]] = "committed" /\ s \in plan[s[1]].owned
<1> SUFFICES ASSUME NEW s \in PromisedSecrets
             PROVE  s[1] \in Txn /\ status[s[1]] = "committed" /\ s \in plan[s[1]].owned
  OBVIOUS
<1>1. PICK t \in Txn : status[t] = "committed" /\ s \in plan[t].owned
  BY DEF PromisedSecrets
<1>2. PICK slots \in SUBSET Slot : plan[t].owned = {t} \X slots
  BY DEF History, PlanShape
<1>3. s[1] = t
  BY <1>1, <1>2
<1> QED
  BY <1>1, <1>3

LEMMA PromisedKept ==
  ASSUME Quiet, History, [Next]_vars, ~ Finalize
  PROVE  PromisedSecrets' = PromisedSecrets
<1> DEFINE Done == {u \in Txn : status[u] = "committed"}
<1>0. /\ status \in [Txn -> Status] /\ Barrier /\ StatusFits
  BY DEF History, Barrier, Typed, DiskTyped
<1>1. Done \subseteq Done'
  BY <1>0, CommittedKept DEF Quiet
<1>2. Done' \subseteq Done
  <2>1. CASE CreateJournal \/ CreateJournalRaises \/ ScanConflict \/ CloseJournal
    BY <1>0, <2>1 DEF CreateJournal, CreateJournalRaises, ScanConflict, CloseJournal
  <2>2. CASE \/ \E u \in Txn : SweepDirectory(u)
             \/ \E u \in Txn, slots \in SUBSET Slot : Prepare(u, slots)
    BY <1>0, <2>2 DEF SweepDirectory, Prepare
  <2>3. CASE \/ UNCHANGED <<disk, draft>> \/ \E r \in Resource : StageSnapshot(r)
             \/ \E s \in Secret : StoreSecret(s) \/ CleanSecret(s)
             \/ \E e \in Edit : EnsureSettings(e) \/ OutsideRead(e)
             \/ ReplaceSettings \/ ReplaceManifest \/ RestoreManifest \/ RestoreSettings
             \/ OutsideWrite
    BY <2>3 DEF disk, StageSnapshot, StoreSecret, CleanSecret, EnsureSettings, OutsideRead,
       ReplaceSettings, ReplaceManifest, RestoreManifest, RestoreSettings, OutsideWrite
  <2> QED
    BY <2>1, <2>2, <2>3, StepKinds
<1>3. \A u \in Done : plan'[u].owned = plan[u].owned
  BY <1>0, KnownStays DEF Known
<1>4. Done' = Done
  BY <1>1, <1>2
<1> HIDE DEF Done
<1>5. PromisedSecrets = UNION {plan[t].owned : t \in Done}
  BY DEF PromisedSecrets, Done
<1>6. PromisedSecrets' = UNION {plan'[t].owned : t \in Done'}
  BY DEF PromisedSecrets, Done
<1> QED
  BY <1>3, <1>4, <1>5, <1>6

(* No step but the one that completes a save touches a promised key.       *)
LEMMA PromisedUntouched ==
  ASSUME Quiet, History, [Next]_vars, ~ Finalize
  PROVE  (PromisedSecrets \cap secrets)' = PromisedSecrets \cap secrets
<1>1. PromisedSecrets' = PromisedSecrets
  BY PromisedKept
<1>2. ASSUME NEW s \in Secret, StoreSecret(s) \/ CleanSecret(s)
      PROVE  s \notin PromisedSecrets
  <2>1. s \in plan[cur].owned /\ pc \in {"store", "clean"}
    BY <1>2 DEF StoreSecret, CleanSecret
  <2>2. cur \in Txn /\ status[cur] # "committed"
    BY <2>1, CurInside DEF History, Barrier, StatusFits, TryBlock, Compensating, Quiet, Open
  <2>3. s[1] = cur
    BY <2>1, <2>2 DEF History, PlanShape
  <2> QED
    BY <2>2, <2>3, PromisedAre
<1>3. ASSUME NEW s \in Secret, StoreSecret(s) \/ CleanSecret(s)
      PROVE  PromisedSecrets \cap secrets' = PromisedSecrets \cap secrets
  <2>1. secrets' = secrets \cup {s} \/ secrets' = secrets \/ secrets' = secrets \ {s}
    BY <1>3 DEF StoreSecret, CleanSecret
  <2> QED
    BY <1>2, <1>3, <2>1
<1>4. secrets' = secrets \/ \E s \in Secret : StoreSecret(s) \/ CleanSecret(s)
  BY StepKinds DEF disk, SweepDirectory, CreateJournal, CreateJournalRaises, Finalize,
     ScanConflict, CloseJournal, Prepare, StageSnapshot, EnsureSettings, OutsideRead,
     ReplaceSettings, ReplaceManifest, RestoreManifest, RestoreSettings, OutsideWrite
<1> QED
  BY <1>1, <1>3, <1>4

(* The documents recovery would leave behind stay the same ...             *)
LEMMA RecoveredKept ==
  ASSUME Quiet, Keys, BundleFits, Barrier', [Next]_vars, ~ Finalize,
         ~ \E e \in Edit : EnsureSettings(e)
  PROVE  RecoveredFiles' = RecoveredFiles
<1>0. /\ files \in [Resource -> File] /\ plan \in [Txn -> Plan] /\ status \in [Txn -> Status]
      /\ Barrier /\ StatusFits /\ Typed /\ NoTxn \notin Txn
      /\ OneOpenJournal /\ OneOpenJournal'
      /\ \A t \in Txn : plan[t].before \in [Resource -> File]
  BY TagsDistinct DEF Keys, History, Barrier, Typed, DiskTyped, Plan
<1>1. ~ OutsideWrite /\ ~ \E e \in Edit : OutsideRead(e)
  <2>1. Alone' /\ Alone
    BY DEF Quiet, Alone
  <2> QED
    BY <1>0, <2>1, AloneSteps DEF Keys, KeysFit, NothingDangles
<1>2. ASSUME NEW t \in Txn, Open(t), Open(t)', plan'[t].before = plan[t].before
      PROVE  RecoveredFiles' = RecoveredFiles
  <2>1. RecoveredFiles = [r \in Resource |-> plan[t].before[r]]
    BY <1>0, <1>2, RecoveredOpen
  <2>2. RecoveredFiles' = [r \in Resource |-> plan'[t].before[r]]
    <3>1. t = CHOOSE u \in Txn : Open(u)'
      BY <1>0, <1>2 DEF OneOpenJournal
    <3> QED
      BY <1>2, <3>1 DEF RecoveredFiles
  <2> QED
    BY <1>2, <2>1, <2>2
<1>3. ASSUME Settled, \A t \in Txn : ~ Open(t)', files' = files
      PROVE  RecoveredFiles' = RecoveredFiles
  BY <1>3 DEF RecoveredFiles, Settled
<1>4. ASSUME UNCHANGED <<files, plan>>, \A t \in Txn : Open(t)' <=> Open(t)
      PROVE  RecoveredFiles' = RecoveredFiles
  BY <1>2, <1>3, <1>4 DEF Settled
<1>5. CASE \/ UNCHANGED <<disk, draft>> \/ \E t \in Txn : SweepDirectory(t)
           \/ \E r \in Resource : StageSnapshot(r)
           \/ \E s \in Secret : StoreSecret(s) \/ CleanSecret(s)
  <2>1. UNCHANGED <<files, plan>> /\ \A t \in Txn : Open(t)' <=> Open(t)
    BY <1>0, <1>5 DEF disk, SweepDirectory, StageSnapshot, StoreSecret, CleanSecret, Open
  <2> QED
    BY <1>4, <2>1
<1>6. CASE CreateJournalRaises
  <2>1. /\ UNCHANGED <<files, plan>> /\ status[cur] = "empty"
        /\ status' = [status EXCEPT ![cur] = "empty"]
    BY <1>0, <1>6 DEF CreateJournalRaises, Quiet, StatusFits
  <2> QED
    BY <1>0, <1>4, <2>1 DEF Open
<1>7. CASE CreateJournal
  <2>1. /\ UNCHANGED <<files, plan>> /\ status[cur] = "empty" /\ pc = "journal" /\ cur \in Txn
        /\ status' = [status EXCEPT ![cur] = "active"]
    BY <1>0, <1>7, CurInside DEF CreateJournal, StatusFits
  <2>2. Settled /\ files = plan[cur].before
    BY <1>0, <2>1 DEF Settled, Barrier, SaveAlone, Saving, OnlyCurOpen, Open, BundleFits, Undecided
  <2>3. Open(cur)'
    <3>1. status'[cur] = "active"
      BY <1>0, <2>1
    <3>2. cur' = cur
      BY <1>7 DEF CreateJournal, Goto
    <3> QED
      BY <3>1, <3>2 DEF Open
  <2>4. RecoveredFiles' = [r \in Resource |-> plan'[cur'].before[r]]
    <3>1. cur' = cur
      BY <1>7 DEF CreateJournal, Goto
    <3>2. cur' = CHOOSE u \in Txn : Open(u)'
      BY <1>0, <2>1, <2>3, <3>1 DEF OneOpenJournal
    <3> QED
      BY <2>1, <2>3, <3>1, <3>2 DEF RecoveredFiles
  <2>5. plan'[cur'].before = files
    BY <1>7, <2>1, <2>2 DEF CreateJournal, Goto
  <2> QED
    BY <2>2, <2>4, <2>5, RecoveredSettled
<1>8. CASE ScanConflict \/ CloseJournal
  <2>1. /\ UNCHANGED <<files, plan>> /\ Compensating /\ cur \in Txn
        /\ Open(cur)
    BY <1>0, <1>8, CurInside DEF ScanConflict, CloseJournal, StatusFits, Compensating, Quiet
  <2>2. PICK s \in {"conflict", "incomplete", "compensated"} : status' = [status EXCEPT ![cur] = s]
    BY <1>8 DEF ScanConflict, CloseJournal
  <2>3. CASE s # "compensated"
    <3>1. \A t \in Txn : Open(t)' <=> Open(t)
      BY <1>0, <2>1, <2>2, <2>3 DEF Open
    <3> QED
      BY <1>4, <2>1, <3>1
  <2>4. CASE s = "compensated"
    <3>1. pc = "clean"
      BY <1>0, <1>8, <2>1, <2>2, <2>4 DEF ScanConflict, CloseJournal
    <3>2. files = plan[cur].before
      BY <3>1 DEF BundleFits
    <3>3. \A t \in Txn : ~ Open(t)'
      BY <1>0, <2>1, <2>2, <2>4 DEF Open, OneOpenJournal
    <3>4. RecoveredFiles' = [r \in Resource |-> files'[r]]
      BY <3>3 DEF RecoveredFiles
    <3> QED
      BY <1>0, <2>1, <3>2, <3>4, RecoveredOpen
  <2> QED
    BY <2>3, <2>4
<1>9. ASSUME NEW t \in Txn, NEW slots \in SUBSET Slot, Prepare(t, slots)
      PROVE  RecoveredFiles' = RecoveredFiles
  <2>1. Settled /\ (\A u \in Txn : ~ Open(u)') /\ files' = files
    BY <1>0, <1>9 DEF Prepare, Open, Barrier, PastRecovery, Settled
  <2> QED
    BY <1>3, <2>1
<1>10. CASE ReplaceSettings \/ ReplaceManifest \/ RestoreManifest \/ RestoreSettings
  <2>1. UNCHANGED <<plan, status>> /\ cur \in Txn /\ Open(cur)
    BY <1>0, <1>10, CurInside DEF ReplaceSettings, ReplaceManifest, RestoreManifest,
       RestoreSettings, RestoreLabel, StatusFits, TryBlock, Compensating, Quiet, Open
  <2>2. \A t \in Txn : Open(t)' <=> Open(t)
    BY <2>1 DEF Open
  <2> QED
    BY <1>2, <2>1, <2>2
<1> QED
  BY <1>1, <1>5, <1>6, <1>7, <1>8, <1>9, <1>10, StepKinds

(* ... until Finalize, which is the save.                                  *)
LEMMA FinalizeIsSave ==
  ASSUME Quiet, Keys, BundleFits, Barrier', Finalize
  PROVE  \E t \in Txn, slots \in SUBSET Slot : Bundle!Save(t, {t} \X slots)
<1>0. /\ files \in [Resource -> File] /\ plan \in [Txn -> Plan] /\ status \in [Txn -> Status]
      /\ Barrier /\ StatusFits /\ OneOpenJournal /\ History
  BY DEF Keys, History, Barrier, Typed, DiskTyped
<1>1. /\ pc = "finalize" /\ status' = [status EXCEPT ![cur] = "committed"]
      /\ UNCHANGED <<files, plan, secrets>>
  BY DEF Finalize
<1>2. cur \in Txn /\ Open(cur) /\ status[cur] = "active"
  BY <1>0, <1>1, CurInside DEF StatusFits, TryBlock, Open, Barrier
<1>3. PICK slots \in SUBSET Slot : plan[cur].owned = {cur} \X slots
  BY <1>0, <1>2 DEF History, PlanShape
<1>4. RecoveredFiles = [r \in Resource |-> plan[cur].before[r]]
  BY <1>0, <1>2, RecoveredOpen
<1>5. RecoveredFiles' = [r \in Resource |-> plan[cur].after[r]]
  <2>1. \A t \in Txn : ~ Open(t)'
    BY <1>0, <1>1, <1>2 DEF Open, OneOpenJournal
  <2>2. RecoveredFiles' = [r \in Resource |-> files'[r]]
    BY <2>1 DEF RecoveredFiles
  <2>3. files = plan[cur].after
    BY <1>1 DEF BundleFits
  <2> QED
    BY <1>1, <2>2, <2>3
<1>6. PromisedSecrets' = PromisedSecrets \cup plan[cur].owned
  <2> DEFINE Done == {u \in Txn : status[u] = "committed"}
  <2>1. Done' = Done \cup {cur}
    BY <1>0, <1>1, <1>2
  <2> HIDE DEF Done
  <2>2. PromisedSecrets = UNION {plan[t].owned : t \in Done}
    BY DEF PromisedSecrets, Done
  <2>3. PromisedSecrets' = UNION {plan'[t].owned : t \in Done'}
    BY DEF PromisedSecrets, Done
  <2> QED
    BY <1>1, <2>1, <2>2, <2>3
<1>7. plan[cur].owned \subseteq secrets
  BY <1>1 DEF Keys, KeysFit, Alone, Quiet, NothingDangles, Stored, TryBlock
<1>8. (PromisedSecrets \cap secrets)' = (PromisedSecrets \cap secrets) \cup plan[cur].owned
  BY <1>1, <1>6, <1>7
<1>9. \A s \in PromisedSecrets : s[1] # cur
  BY <1>0, <1>2, PromisedAre
<1>10. /\ SavedAs(cur, plan[cur].owned, plan[cur].before, plan[cur].after)
       /\ plan[cur].after["manifest"] # Absent
  BY <1>0, <1>2 DEF History, PlanShape, Resource
<1>11. /\ RecoveredFiles["settings"] = plan[cur].before["settings"]
       /\ RecoveredFiles["manifest"] = plan[cur].before["manifest"]
       /\ RecoveredFiles'["settings"] = plan[cur].after["settings"]
       /\ RecoveredFiles'["manifest"] = plan[cur].after["manifest"]
       /\ DOMAIN RecoveredFiles' = Resource
  BY <1>4, <1>5 DEF Resource
<1>12. RecoveredFiles'["manifest"] \in
          {RecoveredFiles["manifest"], [tag |-> cur, refs |-> {}]} \ {Absent}
  BY <1>10, <1>11 DEF SavedAs
<1>13. \/ plan[cur].owned = {} /\ RecoveredFiles'["settings"] = RecoveredFiles["settings"]
       \/ \E kept \in SUBSET Bundle!Refs(RecoveredFiles["settings"]) :
            RecoveredFiles'["settings"] = [tag |-> cur, refs |-> kept \cup plan[cur].owned]
  BY <1>10, <1>11 DEF SavedAs, RefsOf, Bundle!Refs
<1> HIDE DEF RecoveredFiles, PromisedSecrets
<1>14. Bundle!Save(cur, plan[cur].owned)
  BY <1>6, <1>8, <1>9, <1>11, <1>12, <1>13 DEF Bundle!Save, Bundle!Resource, Resource
<1> QED
  BY <1>2, <1>3, <1>14

(* ensure_settings completes settings.json in place.                       *)
LEMMA EnsureIsTouch ==
  ASSUME Quiet, Keys, BundleFits, [Next]_vars, NEW e \in Edit, EnsureSettings(e)
  PROVE  Bundle!Touch(e)
<1>0. files \in [Resource -> File] /\ Barrier /\ History /\ "settings" \in Resource
  BY DEF Keys, History, Barrier, Typed, DiskTyped, Resource
<1>1. /\ pc = "ensure" /\ UNCHANGED <<plan, status, secrets>>
      /\ files' = [files EXCEPT !["settings"] = [tag |-> e, refs |-> RefsOf(files["settings"])]]
  BY DEF EnsureSettings
<1>2. Settled /\ \A t \in Txn : ~ Open(t)'
  BY <1>0, <1>1 DEF Barrier, PastRecovery, Settled, Open
<1>3. RecoveredFiles = files
  BY <1>0, <1>2, RecoveredSettled
<1>4. RecoveredFiles' = files'
  BY <1>0, <1>1, <1>2 DEF RecoveredFiles
<1>5. ~ Finalize
  BY <1>1 DEF Finalize
<1>6. PromisedSecrets' = PromisedSecrets
      /\ (PromisedSecrets \cap secrets)' = PromisedSecrets \cap secrets
  BY <1>0, <1>5, PromisedKept, PromisedUntouched
<1> HIDE DEF RecoveredFiles, PromisedSecrets
<1> QED
  BY <1>1, <1>3, <1>4, <1>6 DEF Bundle!Touch, Bundle!Refs, RefsOf

LEMMA InitRefines == Init => Bundle!Init
<1> SUFFICES ASSUME Init PROVE Bundle!Init
  OBVIOUS
<1>1. Settled /\ files \in [Resource -> {Absent, [tag |-> Genesis, refs |-> {}]}]
  BY DEF Init, Settled, Open
<1>2. RecoveredFiles = files
  BY <1>1, RecoveredSettled
<1>3. PromisedSecrets = {}
  BY DEF PromisedSecrets, Init
<1> HIDE DEF RecoveredFiles, PromisedSecrets
<1> QED
  BY <1>1, <1>2, <1>3 DEF Bundle!Init, Bundle!Resource, Resource

LEMMA StepRefines ==
  ASSUME Quiet, Keys, BundleFits, Barrier', [Next]_vars
  PROVE  [Bundle!Next]_(Bundle!vars)
<1>1. CASE Finalize
  BY <1>1, FinalizeIsSave DEF Bundle!Next
<1>2. ASSUME NEW e \in Edit, EnsureSettings(e) PROVE [Bundle!Next]_(Bundle!vars)
  BY <1>2, EnsureIsTouch DEF Bundle!Next
<1>3. CASE ~ Finalize /\ ~ \E e \in Edit : EnsureSettings(e)
  <2>1. /\ RecoveredFiles' = RecoveredFiles /\ PromisedSecrets' = PromisedSecrets
        /\ (PromisedSecrets \cap secrets)' = PromisedSecrets \cap secrets
    BY <1>3, RecoveredKept, PromisedKept, PromisedUntouched DEF Keys
  <2> HIDE DEF RecoveredFiles, PromisedSecrets
  <2> QED
    BY <2>1 DEF Bundle!vars
<1> QED
  BY <1>1, <1>2, <1>3

(* Every save is atomic, whatever the number of saves, slots, exceptions   *)
(* and kills: what recovery leaves behind changes by whole saves, which    *)
(* bring their keys along, and by ensure_settings.  No writer without the  *)
(* lock, and a journal replacement that is reported when it took effect.   *)
THEOREM SavesAreAtomic ==
  ASSUME Quiet
  PROVE  Spec => ImplementsAtomicSettings
<1>1. Init => Keys /\ BundleFits
  BY InitKeys, InitBundleFits
<1>2. Keys /\ BundleFits /\ [Next]_vars => Keys' /\ BundleFits'
  BY NextKeys, NextBundleFits
<1>3. Init => Bundle!Init
  BY InitRefines
<1>4. Keys /\ BundleFits /\ [Next]_vars => [Bundle!Next]_(Bundle!vars)
  BY StepRefines, NextBarrier DEF Keys, History
<1> QED
  BY <1>1, <1>2, <1>3, <1>4, PTL DEF Spec, ImplementsAtomicSettings, Bundle!Spec

=============================================================================
