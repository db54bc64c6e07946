------------------------- MODULE RagIndexStoreProofs -------------------------
(***************************************************************************)
(* Theorems about RagIndexStore: its type invariant, that a candidate      *)
(* outlives the build that works on it, that, as long as nobody rolls back *)
(* and the logs can be written, the active index is present and only       *)
(* promotions change which one it is, and that rollbacks are safe one      *)
(* after another.                                                          *)
(***************************************************************************)
EXTENDS RagIndexStore, TLAPS

Label == {"idle", "lock", "register", "build", "gate", "check", "copy", "backup",
          "prune", "log", "write", "replace", "validate", "save"}
Status == {"none", "open", "promoted", "candidate-ready", "blocked", "failed"}

(* The type invariant in parts.                                            *)
StoreTyped ==
  /\ root \in Manifest /\ tmp \in Manifest \cup {NoFile}
  /\ candidates \in [Run -> {"none", "building", "partial", "ready"}]
  /\ snapshots \in [Run -> Content]
  /\ backups \subseteq Manifest

JobsTyped == jobs \in [Run -> Status]

ProcTyped ==
  /\ lock \in Proc \cup {Free}
  /\ pc \in [Proc -> Label]
  /\ op \in [Proc -> {"none", "auto-promote"} \cup AllKinds]
  /\ run \in [Proc -> Manifest] /\ payload \in [Proc -> Manifest]
  /\ then \in [Proc -> {"idle", "build", "gate", "prune"}]

CountersTyped == faults \in 0..MaxFaults /\ crashes \in 0..MaxCrashes

LEMMA TypeOKInParts == TypeOK <=> StoreTyped /\ JobsTyped /\ ProcTyped /\ CountersTyped
  BY DEF TypeOK, StoreTyped, JobsTyped, ProcTyped, CountersTyped, Label, Status

LEMMA PartsMakeTypeOK ==
  (StoreTyped /\ JobsTyped /\ ProcTyped /\ CountersTyped)' => TypeOK'
  BY DEF TypeOK, StoreTyped, JobsTyped, ProcTyped, CountersTyped, Label, Status

LEMMA InitTyped == Init => TypeOK
  BY SwitchesTyped DEF Init, TypeOK, Manifest, Content, AllKinds

LEMMA StoreKept == ASSUME StoreTyped, UNCHANGED store PROVE StoreTyped'
  BY DEF StoreTyped, store

LEMMA CountersKept ==
  ASSUME CountersTyped,
         UNCHANGED faults \/ (faults < MaxFaults /\ faults' = faults + 1),
         UNCHANGED crashes \/ (crashes < MaxCrashes /\ crashes' = crashes + 1)
  PROVE  CountersTyped'
  BY SwitchesTyped DEF CountersTyped

LEMMA FinishTyped ==
  ASSUME ProcTyped, NEW p \in Proc, Finish(p) PROVE ProcTyped'
  BY DEF ProcTyped, Finish, Goto, Label, Manifest

LEMMA CloseJobTyped ==
  ASSUME JobsTyped, NEW p \in Proc, NEW status \in Status, CloseJob(p, status)
  PROVE  JobsTyped'
  BY DEF JobsTyped, CloseJob

LEMMA RaiseTyped ==
  ASSUME ProcTyped, JobsTyped, NEW p \in Proc, Raise(p)
  PROVE  ProcTyped' /\ JobsTyped'
<1>1. ProcTyped'
  BY FinishTyped DEF Raise
<1>2. CASE op[p] \in Builds
  BY <1>1, <1>2, CloseJobTyped DEF Raise, Status
<1>3. CASE op[p] \notin Builds
  BY <1>1, <1>3 DEF Raise, JobsTyped
<1> QED
  BY <1>2, <1>3

LEMMA StartTyped ==
  ASSUME TypeOK, NEW p \in Proc, NEW kind \in Kinds, Start(p, kind)
  PROVE  TypeOK'
<1> USE TypeOKInParts, PartsMakeTypeOK
<1>1. StoreTyped' /\ CountersTyped'
  BY StoreKept, CountersKept DEF Start
<1>2. kind \in AllKinds
  BY KindsKnown
<1>3. JobsTyped' /\ run' \in [Proc -> Manifest]
  BY DEF Start, JobsTyped, ProcTyped, Status, Manifest
<1>4. ProcTyped'
  BY <1>2, <1>3 DEF Start, ProcTyped, Goto, Label
<1> QED
  BY <1>1, <1>3, <1>4

LEMMA StepTyped == ASSUME TypeOK, NEW p \in Proc, Step(p) PROVE TypeOK'
<1> USE TypeOKInParts, PartsMakeTypeOK
<1>1. CASE TakeLock(p)
  <2>1. ProcTyped'
    BY <1>1 DEF TakeLock, ProcTyped, Goto, Label
  <2> QED
    BY <1>1, <2>1, StoreKept, CountersKept DEF TakeLock, JobsTyped
<1>2. CASE LockBusy(p)
  <2>1. ProcTyped'
    BY <1>2, FinishTyped DEF LockBusy
  <2>2. JobsTyped'
    BY <1>2, CloseJobTyped DEF LockBusy, Status, JobsTyped
  <2> QED
    BY <1>2, <2>1, <2>2, StoreKept, CountersKept DEF LockBusy
<1>3. CASE ServerNotReady(p)
  <2>1. ProcTyped'
    BY <1>3, FinishTyped DEF ServerNotReady
  <2>2. JobsTyped'
    BY <1>3, CloseJobTyped DEF ServerNotReady, Status
  <2> QED
    BY <1>3, <2>1, <2>2, StoreKept, CountersKept DEF ServerNotReady
<1>4. CASE Register(p)
  <2>1. ProcTyped'
    BY <1>4 DEF Register, ProcTyped, StoreTyped, Goto, Label, RootForCandidate
  <2>2. StoreTyped'
    BY <1>4 DEF Register, StoreTyped
  <2> QED
    BY <1>4, <2>1, <2>2, CountersKept DEF Register, JobsTyped
<1>5. CASE Build(p)
  <2>1. ProcTyped'
    BY <1>5 DEF Build, ProcTyped, StoreTyped, Goto, Label, RootForCandidate
  <2>2. StoreTyped'
    BY <1>5 DEF Build, StoreTyped
  <2> QED
    BY <1>5, <2>1, <2>2, CountersKept DEF Build, JobsTyped
<1>6. CASE Gate(p)
  <2>1. StoreTyped' /\ CountersTyped'
    BY <1>6, StoreKept, CountersKept DEF Gate
  <2>2. CASE Finish(p) /\ CloseJob(p, "blocked")
    BY <2>1, <2>2, FinishTyped, CloseJobTyped DEF Status
  <2>3. CASE Finish(p) /\ CloseJob(p, "candidate-ready")
    BY <2>1, <2>3, FinishTyped, CloseJobTyped DEF Status
  <2>4. CASE /\ Goto(p, "lock") /\ op' = [op EXCEPT ![p] = "auto-promote"]
             /\ lock' = Free /\ UNCHANGED <<jobs, run, payload, then>>
    BY <2>1, <2>4 DEF ProcTyped, JobsTyped, Goto, Label
  <2>5. CASE Goto(p, "check") /\ UNCHANGED <<jobs, op, run, payload, then, lock>>
    BY <2>1, <2>5 DEF ProcTyped, JobsTyped, Goto, Label
  <2> QED
    BY <1>6, <2>2, <2>3, <2>4, <2>5 DEF Gate
<1>7. CASE MakeSnapshot(p)
  <2>1. ProcTyped'
    BY <1>7 DEF MakeSnapshot, ProcTyped, Goto, Label
  <2>2. StoreTyped'
    BY <1>7 DEF MakeSnapshot, StoreTyped, Content
  <2> QED
    BY <1>7, <2>1, <2>2, CountersKept DEF MakeSnapshot, JobsTyped
<1>8. CASE PromotionRefused(p)
  BY <1>8, RaiseTyped, StoreKept, CountersKept DEF PromotionRefused
<1>9. CASE CopyFiles(p)
  <2>1. ProcTyped'
    BY <1>9 DEF CopyFiles, ProcTyped, Goto, Label
  <2>2. StoreTyped'
    BY <1>9 DEF CopyFiles, StoreTyped, Content
  <2> QED
    BY <1>9, <2>1, <2>2, CountersKept DEF CopyFiles, JobsTyped
<1>10. CASE BackupRoot(p)
  <2>1. ProcTyped'
    BY <1>10 DEF BackupRoot, ProcTyped, Goto, Label
  <2>2. StoreTyped'
    BY <1>10 DEF BackupRoot, StoreTyped
  <2> QED
    BY <1>10, <2>1, <2>2, CountersKept DEF BackupRoot, JobsTyped
<1>11. CASE Prune(p)
  <2>1. ProcTyped'
    BY <1>11 DEF Prune, ProcTyped, Goto, Label
  <2>2. StoreTyped'
    BY <1>11 DEF Prune, StoreTyped
  <2> QED
    BY <1>11, <2>1, <2>2, CountersKept DEF Prune, JobsTyped
<1>12. CASE AppendLogs(p)
  <2>1. ProcTyped'
    BY <1>12, FinishTyped DEF AppendLogs
  <2>2. JobsTyped'
    BY <1>12, CloseJobTyped DEF AppendLogs, Status
  <2> QED
    BY <1>12, <2>1, <2>2, StoreKept, CountersKept DEF AppendLogs
<1>13. CASE WriteTmp(p)
  <2>1. ProcTyped'
    BY <1>13 DEF WriteTmp, ProcTyped, Goto, Label
  <2>2. StoreTyped'
    BY <1>13 DEF WriteTmp, StoreTyped, ProcTyped
  <2> QED
    BY <1>13, <2>1, <2>2, CountersKept DEF WriteTmp, JobsTyped
<1>14. CASE ReplaceRoot(p)
  <2>1. ProcTyped'
    <3>1. CASE then[p] = "idle"
      BY <1>14, <3>1, FinishTyped DEF ReplaceRoot
    <3>2. CASE then[p] # "idle"
      BY <1>14, <3>2 DEF ReplaceRoot, ProcTyped, Goto, Label
    <3> QED
      BY <3>1, <3>2
  <2>2. StoreTyped'
    BY <1>14 DEF ReplaceRoot, StoreTyped
  <2> QED
    BY <1>14, <2>1, <2>2, CountersKept DEF ReplaceRoot, JobsTyped
<1>15. CASE ReplaceFindsNothing(p)
  <2>1. ProcTyped' /\ JobsTyped'
    BY <1>15, RaiseTyped DEF ReplaceFindsNothing
  <2>2. StoreTyped'
    BY <1>15 DEF ReplaceFindsNothing, StoreTyped, Content
  <2> QED
    BY <1>15, <2>1, <2>2, CountersKept DEF ReplaceFindsNothing
<1>16. CASE ValidateBackup(p)
  <2>1. Restorable \subseteq Manifest
    BY DEF Restorable, StoreTyped
  <2>2. ProcTyped'
    BY <1>16, <2>1 DEF ValidateBackup, ProcTyped, Goto, Label
  <2> QED
    BY <1>16, <2>2, StoreKept, CountersKept DEF ValidateBackup, JobsTyped
<1>17. CASE RollbackRefused(p)
  BY <1>17, RaiseTyped, StoreKept, CountersKept DEF RollbackRefused
<1>18. CASE SaveCurrent(p)
  <2>1. ProcTyped'
    BY <1>18 DEF SaveCurrent, ProcTyped, Goto, Label
  <2>2. StoreTyped'
    BY <1>18 DEF SaveCurrent, StoreTyped
  <2> QED
    BY <1>18, <2>1, <2>2, CountersKept DEF SaveCurrent, JobsTyped
<1> QED
  BY <1>1, <1>2, <1>3, <1>4, <1>5, <1>6, <1>7, <1>8, <1>9, <1>10, <1>11, <1>12,
     <1>13, <1>14, <1>15, <1>16, <1>17, <1>18 DEF Step

(* What a failing operation leaves of the snapshot is a directory state.   *)
LEMMA RemovedTyped ==
  ASSUME NEW content \in Content PROVE Removed(content) \subseteq Content
  BY DEF Removed, Content

LEMMA FaultTyped ==
  ASSUME TypeOK, NEW p \in Proc,
         OperationRaises(p) \/ PromotionRaises(p) \/ Crash(p)
  PROVE  TypeOK'
<1> USE TypeOKInParts, PartsMakeTypeOK
<1>1. CASE OperationRaises(p)
  BY <1>1, RaiseTyped, StoreKept, CountersKept DEF OperationRaises
<1>2. CASE PromotionRaises(p)
  <2>1. ProcTyped' /\ JobsTyped' /\ CountersTyped'
    BY <1>2, RaiseTyped, CountersKept DEF PromotionRaises
  <2>2. PICK left \in Removed(snapshots[run[p]]) :
          snapshots' = [snapshots EXCEPT ![run[p]] = left]
    BY <1>2 DEF PromotionRaises
  <2>3. CASE run[p] \in Run
    <3>1. left \in Content
      BY <2>2, <2>3, RemovedTyped DEF StoreTyped
    <3> QED
      BY <1>2, <2>1, <2>2, <3>1 DEF PromotionRaises, StoreTyped
  <2>4. CASE run[p] \notin Run
    <3>1. snapshots' = snapshots
      BY <2>2, <2>4 DEF StoreTyped
    <3> QED
      BY <1>2, <2>1, <3>1 DEF PromotionRaises, StoreTyped
  <2> QED
    BY <2>3, <2>4
<1>3. CASE Crash(p)
  <2>1. ProcTyped'
    BY <1>3, FinishTyped DEF Crash
  <2> QED
    BY <1>3, <2>1, StoreKept, CountersKept DEF Crash, JobsTyped
<1> QED
  BY <1>1, <1>2, <1>3

(* The type invariant is inductive: every step of every process keeps the  *)
(* manifests, directories, job records and program counters in their types.*)
THEOREM TypeCorrect == Spec => []TypeOK
<1>1. TypeOK /\ [Next]_vars => TypeOK'
  <2> SUFFICES ASSUME TypeOK, [Next]_vars PROVE TypeOK'
    OBVIOUS
  <2>1. CASE UNCHANGED vars
    BY <2>1 DEF vars, TypeOK
  <2>2. CASE Next
    BY <2>2, StartTyped, StepTyped, FaultTyped DEF Next
  <2> QED
    BY <2>1, <2>2
<1> QED
  BY InitTyped, <1>1, PTL DEF Spec

-----------------------------------------------------------------------------
(* Where a process holds the lock: everywhere in a build or a promotion.   *)
Locked(p) ==
  \/ pc[p] \in {"register", "build", "gate", "check", "copy", "backup", "prune", "log"}
  \/ pc[p] \in {"write", "replace"} /\ then[p] # "idle"

Building(p) ==
  \/ pc[p] \in {"build", "gate"}
  \/ pc[p] \in {"write", "replace"} /\ then[p] \in {"build", "gate"}

(* What a process may rely on, given the lock and the candidates.          *)
LockHeld == \A p \in Proc : Locked(p) => lock = p
RunKnown == \A p \in Proc : pc[p] = "lock" \/ Locked(p) => run[p] \in Run
UnlockedThen ==
  \A p \in Proc : pc[p] \in {"idle", "validate", "save"} => then[p] = "idle"
CandidateKept == \A p \in Proc : Building(p) => candidates[run[p]] # "none"

Exclusive == LockHeld /\ RunKnown /\ UnlockedThen /\ CandidateKept

LEMMA InitExclusive == Init => Exclusive
  BY DEF Init, Exclusive, LockHeld, RunKnown, UnlockedThen, CandidateKept,
         Locked, Building

(* A process that ends its operation takes nothing from the others.        *)
LEMMA FinishExclusive ==
  ASSUME ProcTyped, Exclusive, NEW p \in Proc, Finish(p), UNCHANGED candidates
  PROVE  Exclusive'
<1>1. LockHeld'
  BY DEF Exclusive, LockHeld, Finish, Goto, ProcTyped, Locked
<1>2. RunKnown'
  BY DEF Exclusive, RunKnown, Finish, Goto, ProcTyped, Locked
<1>3. UnlockedThen'
  BY DEF Exclusive, UnlockedThen, Finish, Goto, ProcTyped
<1>4. CandidateKept'
  BY DEF Exclusive, CandidateKept, Finish, Goto, ProcTyped, Building
<1> QED
  BY <1>1, <1>2, <1>3, <1>4 DEF Exclusive

LEMMA RaiseExclusive ==
  ASSUME ProcTyped, Exclusive, NEW p \in Proc, Raise(p), UNCHANGED candidates
  PROVE  Exclusive'
  BY FinishExclusive DEF Raise

(* A step inside a locked operation that leaves the lock and the run alone *)
(* and, while it builds, its candidate.                                    *)
LEMMA InsideExclusive ==
  ASSUME ProcTyped, Exclusive, NEW p \in Proc, Locked(p),
         NEW label \in Label, Goto(p, label),
         label \notin {"idle", "validate", "save"},
         \A q \in Proc \ {p} : then'[q] = then[q],
         UNCHANGED <<lock, run>>,
         Building(p)' => candidates'[run[p]] # "none"
  PROVE  Exclusive'
<1>1. \A q \in Proc \ {p} : ~ Locked(q) /\ ~ Locked(q)'
  BY DEF Exclusive, LockHeld, Locked, Goto, ProcTyped
<1>2. \A q \in Proc \ {p} : pc'[q] = pc[q]
  BY DEF Goto, ProcTyped
<1>3. LockHeld'
  BY <1>1 DEF Exclusive, LockHeld
<1>4. RunKnown'
  BY <1>1, <1>2 DEF Exclusive, RunKnown
<1>5. UnlockedThen'
  BY <1>2 DEF Exclusive, UnlockedThen, Goto, ProcTyped
<1>6. CandidateKept'
  <2>1. \A q \in Proc \ {p} : ~ Building(q)'
    BY <1>1 DEF Building, Locked
  <2> QED
    BY <2>1 DEF CandidateKept
<1> QED
  BY <1>3, <1>4, <1>5, <1>6 DEF Exclusive

(* A step outside the lock that only moves the process among labels where  *)
(* no lock is held.                                                        *)
LEMMA OutsideExclusive ==
  ASSUME ProcTyped, Exclusive, NEW p \in Proc, ~ Locked(p),
         NEW label \in {"lock", "validate", "save", "write", "replace"}, Goto(p, label),
         then[p] = "idle", UNCHANGED <<lock, then, candidates>>,
         run' \in [Proc -> Manifest], \A q \in Proc \ {p} : run'[q] = run[q],
         label = "lock" => run'[p] \in Run
  PROVE  Exclusive'
<1>1. \A q \in Proc \ {p} : pc'[q] = pc[q]
  BY DEF Goto, ProcTyped
<1>2. pc'[p] = label /\ ~ Locked(p)' /\ ~ Building(p)'
  BY DEF Goto, ProcTyped, Locked, Building
<1>3. LockHeld'
  BY <1>1, <1>2 DEF Exclusive, LockHeld, Locked
<1>4. RunKnown'
  BY <1>1, <1>2 DEF Exclusive, RunKnown, Locked
<1>5. UnlockedThen'
  BY <1>1 DEF Exclusive, UnlockedThen
<1>6. CandidateKept'
  BY <1>1, <1>2 DEF Exclusive, CandidateKept, Building
<1> QED
  BY <1>3, <1>4, <1>5, <1>6 DEF Exclusive

LEMMA StartExclusive ==
  ASSUME TypeOK, Exclusive, NEW p \in Proc, NEW kind \in Kinds, Start(p, kind)
  PROVE  Exclusive'
<1> DEFINE label == IF kind = "rollback" THEN "validate" ELSE "lock"
<1>1. pc[p] = "idle" /\ ~ Locked(p) /\ then[p] = "idle"
  BY DEF Start, Locked, Exclusive, UnlockedThen
<1>2. /\ run' \in [Proc -> Manifest] /\ \A q \in Proc \ {p} : run'[q] = run[q]
      /\ label = "lock" => run'[p] \in Run
  BY TypeOKInParts DEF Start, ProcTyped, Manifest
<1>3. Goto(p, label) /\ UNCHANGED <<lock, then, candidates>>
  BY DEF Start, store
<1> QED
  BY <1>1, <1>2, <1>3, OutsideExclusive, TypeOKInParts

LEMMA StepExclusive ==
  ASSUME TypeOK, Exclusive, NEW p \in Proc, Step(p)
  PROVE  Exclusive'
<1>0. ProcTyped /\ StoreTyped
  BY TypeOKInParts
<1>1. CASE TakeLock(p)
  <2>1. \A q \in Proc : ~ Locked(q)
    BY <1>1, ValuesDistinct DEF TakeLock, Exclusive, LockHeld
  <2>2. \A q \in Proc \ {p} : pc'[q] = pc[q] /\ ~ Locked(q)' /\ ~ Building(q)'
    BY <1>0, <1>1, <2>1 DEF TakeLock, Goto, ProcTyped, Locked, Building
  <2>3. run[p] \in Run /\ pc'[p] \in {"register", "check"} /\ lock' = p
    BY <1>0, <1>1 DEF TakeLock, Goto, ProcTyped, Exclusive, RunKnown
  <2>4. LockHeld'
    BY <2>2, <2>3 DEF LockHeld
  <2>5. RunKnown'
    BY <1>1, <2>2, <2>3 DEF Exclusive, RunKnown, TakeLock
  <2>6. UnlockedThen'
    BY <1>1, <2>2, <2>3 DEF Exclusive, UnlockedThen, TakeLock
  <2>7. CandidateKept'
    BY <2>2, <2>3 DEF CandidateKept, Building
  <2> QED
    BY <2>4, <2>5, <2>6, <2>7 DEF Exclusive
<1>2. CASE LockBusy(p)
  BY <1>0, <1>2, FinishExclusive DEF LockBusy, store
<1>3. CASE ServerNotReady(p)
  BY <1>0, <1>3, FinishExclusive DEF ServerNotReady, store
<1>4. CASE Register(p)
  <2>1. Locked(p) /\ run[p] \in Run
    BY <1>4 DEF Register, Locked, Exclusive, RunKnown
  <2>2. candidates'[run[p]] # "none" /\ \A q \in Proc \ {p} : then'[q] = then[q]
    BY <1>0, <1>4, <2>1 DEF Register, StoreTyped, ProcTyped
  <2> QED
    BY <1>0, <1>4, <2>1, <2>2, InsideExclusive DEF Register, Label
<1>5. CASE Build(p)
  <2>1. Locked(p) /\ run[p] \in Run
    BY <1>5 DEF Build, Locked, Exclusive, RunKnown
  <2>2. candidates'[run[p]] # "none" /\ \A q \in Proc \ {p} : then'[q] = then[q]
    BY <1>0, <1>5, <2>1 DEF Build, StoreTyped, ProcTyped
  <2> QED
    BY <1>0, <1>5, <2>1, <2>2, InsideExclusive DEF Build, Label
<1>6. CASE Gate(p)
  <2>0. Locked(p) /\ candidates' = candidates
    BY <1>6 DEF Gate, Locked, store
  <2>1. CASE Finish(p)
    BY <1>0, <2>0, <2>1, FinishExclusive
  <2>2. CASE Goto(p, "lock") /\ lock' = Free /\ UNCHANGED <<run, then>>
    <3>1. \A q \in Proc \ {p} : pc'[q] = pc[q] /\ ~ Locked(q) /\ ~ Locked(q)'
      BY <1>0, <2>0, <2>2 DEF Goto, ProcTyped, Exclusive, LockHeld, Locked
    <3>2. pc'[p] = "lock" /\ ~ Locked(p)' /\ ~ Building(p)' /\ run[p] \in Run
      BY <1>0, <2>0, <2>2 DEF Goto, ProcTyped, Locked, Building, Exclusive, RunKnown
    <3>3. \A q \in Proc : ~ Building(q)'
      BY <3>1, <3>2 DEF Building, Locked
    <3>4. LockHeld' /\ RunKnown'
      BY <2>2, <3>1, <3>2 DEF LockHeld, RunKnown, Exclusive
    <3>5. UnlockedThen' /\ CandidateKept'
      BY <2>2, <3>1, <3>2, <3>3 DEF UnlockedThen, CandidateKept, Exclusive
    <3> QED
      BY <3>4, <3>5 DEF Exclusive
  <2>3. CASE Goto(p, "check") /\ UNCHANGED <<run, then, lock>>
    <3>1. ~ Building(p)'
      BY <1>0, <2>3 DEF Building, Goto, ProcTyped
    <3> QED
      BY <1>0, <2>0, <2>3, <3>1, InsideExclusive DEF Label
  <2> QED
    BY <1>6, <2>1, <2>2, <2>3 DEF Gate
<1>7. CASE MakeSnapshot(p)
  <2>1. Locked(p) /\ ~ Building(p)'
    BY <1>0, <1>7 DEF MakeSnapshot, Locked, Building, Goto, ProcTyped
  <2> QED
    BY <1>0, <1>7, <2>1, InsideExclusive DEF MakeSnapshot, Label
<1>8. CASE PromotionRefused(p)
  BY <1>0, <1>8, RaiseExclusive DEF PromotionRefused, store
<1>9. CASE CopyFiles(p)
  <2>1. Locked(p) /\ ~ Building(p)'
    BY <1>0, <1>9 DEF CopyFiles, Locked, Building, Goto, ProcTyped
  <2> QED
    BY <1>0, <1>9, <2>1, InsideExclusive DEF CopyFiles, Label
<1>10. CASE BackupRoot(p)
  <2>1. Locked(p) /\ ~ Building(p)' /\ \A q \in Proc \ {p} : then'[q] = then[q]
    BY <1>0, <1>10 DEF BackupRoot, Locked, Building, Goto, ProcTyped
  <2> QED
    BY <1>0, <1>10, <2>1, InsideExclusive DEF BackupRoot, Label
<1>11. CASE Prune(p)
  <2>1. Locked(p) /\ ~ Building(p)'
    BY <1>0, <1>11 DEF Prune, Locked, Building, Goto, ProcTyped
  <2> QED
    BY <1>0, <1>11, <2>1, InsideExclusive DEF Prune, Label
<1>12. CASE AppendLogs(p)
  BY <1>0, <1>12, FinishExclusive DEF AppendLogs, store
<1>13. CASE WriteTmp(p)
  <2>1. CASE then[p] = "idle"
    BY <1>0, <1>13, <2>1, OutsideExclusive DEF WriteTmp, Locked, ProcTyped
  <2>2. CASE then[p] # "idle"
    <3>1. Locked(p) /\ (Building(p)' => Building(p))
      BY <1>0, <1>13, <2>2 DEF WriteTmp, Locked, Building, Goto, ProcTyped
    <3>2. Building(p)' => candidates'[run[p]] # "none"
      BY <1>13, <3>1 DEF WriteTmp, Exclusive, CandidateKept
    <3> QED
      BY <1>0, <1>13, <3>1, <3>2, InsideExclusive DEF WriteTmp, Label
  <2> QED
    BY <2>1, <2>2
<1>14. CASE ReplaceRoot(p)
  <2>1. CASE then[p] = "idle"
    BY <1>0, <1>14, <2>1, FinishExclusive DEF ReplaceRoot
  <2>2. CASE then[p] # "idle"
    <3>1. Locked(p) /\ (Building(p)' => Building(p)) /\ then[p] \in Label
      BY <1>0, <1>14, <2>2 DEF ReplaceRoot, Locked, Building, Goto, ProcTyped, Label
    <3>2. Building(p)' => candidates'[run[p]] # "none"
      BY <1>14, <3>1 DEF ReplaceRoot, Exclusive, CandidateKept
    <3>3. then[p] \notin {"idle", "validate", "save"}
      BY <1>0, <2>2 DEF ProcTyped
    <3> QED
      BY <1>0, <1>14, <2>2, <3>1, <3>2, <3>3, InsideExclusive DEF ReplaceRoot
  <2> QED
    BY <2>1, <2>2
<1>15. CASE ReplaceFindsNothing(p)
  BY <1>0, <1>15, RaiseExclusive DEF ReplaceFindsNothing
<1>16. CASE ValidateBackup(p)
  <2>1. ~ Locked(p) /\ then[p] = "idle"
    BY <1>16 DEF ValidateBackup, Locked, Exclusive, UnlockedThen
  <2> QED
    BY <1>0, <1>16, <2>1, OutsideExclusive DEF ValidateBackup, store, ProcTyped
<1>17. CASE RollbackRefused(p)
  BY <1>0, <1>17, RaiseExclusive DEF RollbackRefused, store
<1>18. CASE SaveCurrent(p)
  <2>1. ~ Locked(p) /\ then[p] = "idle"
    BY <1>18 DEF SaveCurrent, Locked, Exclusive, UnlockedThen
  <2> QED
    BY <1>0, <1>18, <2>1, OutsideExclusive DEF SaveCurrent, ProcTyped
<1> QED
  BY <1>1, <1>2, <1>3, <1>4, <1>5, <1>6, <1>7, <1>8, <1>9, <1>10, <1>11, <1>12,
     <1>13, <1>14, <1>15, <1>16, <1>17, <1>18 DEF Step

LEMMA FaultExclusive ==
  ASSUME TypeOK, Exclusive, NEW p \in Proc,
         OperationRaises(p) \/ PromotionRaises(p) \/ Crash(p)
  PROVE  Exclusive'
<1>1. UNCHANGED candidates /\ (Raise(p) \/ Finish(p))
  BY DEF OperationRaises, PromotionRaises, Crash, store
<1> QED
  BY <1>1, TypeOKInParts, RaiseExclusive, FinishExclusive

LEMMA ExclusiveIsInvariant == Spec => []Exclusive
<1>1. TypeOK /\ Exclusive /\ [Next]_vars => Exclusive'
  <2> SUFFICES ASSUME TypeOK, Exclusive, [Next]_vars PROVE Exclusive'
    OBVIOUS
  <2>1. CASE UNCHANGED vars
    BY <2>1 DEF vars, Exclusive, LockHeld, RunKnown, UnlockedThen, CandidateKept,
                Locked, Building
  <2>2. CASE Next
    BY <2>2, StartExclusive, StepExclusive, FaultExclusive DEF Next
  <2> QED
    BY <2>1, <2>2
<1> QED
  BY InitExclusive, <1>1, TypeCorrect, PTL DEF Spec

(* However many processes build, promote and roll back, with faults and    *)
(* kills: no promotion prunes the candidate another one is building.       *)
THEOREM CandidatesAreSafe == Spec => []CandidateSurvivesItsBuild
<1>1. Exclusive => CandidateSurvivesItsBuild
  BY DEF Exclusive, CandidateKept, Building, CandidateSurvivesItsBuild
<1> QED
  BY <1>1, ExclusiveIsInvariant, PTL

-----------------------------------------------------------------------------
(* Nobody rolls back and the logs can be written.                          *)
PromotionsOnly == "rollback" \notin Kinds /\ LogMayFail = FALSE

Writing(p) == pc[p] \in {"write", "replace"}
Switching(p) == Writing(p) /\ then[p] = "prune"

(* What the process in a locked operation knows of the store: the temporary*)
(* manifest is its own, a build writes the active run back, a promotion    *)
(* switches to a snapshot that is complete and was not the active one.     *)
Safe(p) ==
  /\ pc[p] \notin {"validate", "save"}
  /\ Writing(p) => then[p] # "idle"
  /\ pc[p] = "replace" => tmp = payload[p]
  /\ Writing(p) /\ then[p] \in {"build", "gate"} => payload[p] = root
  /\ Switching(p) => payload[p] = run[p]
  /\ pc[p] = "backup" \/ Switching(p) => snapshots[run[p]] = "complete"
  /\ pc[p] \in {"copy", "backup"} \/ Switching(p) => root # run[p]
  /\ pc[p] \in {"prune", "log"} => root = run[p]

Settled == (\A p \in Proc : Safe(p)) /\ ActiveIndexPresent

LEMMA InitSettled == Init => Settled
  BY DEF Init, Settled, Safe, Writing, Switching, ActiveIndexPresent

(* While one process holds the lock the others are idle or about to try it.*)
LEMMA OthersOutside ==
  ASSUME ProcTyped, Exclusive, Settled, NEW p \in Proc, Locked(p), NEW q \in Proc \ {p}
  PROVE  pc[q] \in {"idle", "lock"}
<1>1. ~ Locked(q)
  BY DEF Exclusive, LockHeld
<1>2. pc[q] \in Label /\ Safe(q)
  BY DEF ProcTyped, Settled
<1> QED
  BY <1>1, <1>2 DEF Locked, Safe, Writing, Label

(* Hence only the holder's own part of the invariant is at stake.          *)
LEMMA HolderSettled ==
  ASSUME ProcTyped, Exclusive, Settled, NEW p \in Proc, Locked(p),
         \A q \in Proc \ {p} : pc'[q] = pc[q], Safe(p)', ActiveIndexPresent'
  PROVE  Settled'
<1>1. \A q \in Proc \ {p} : pc'[q] \in {"idle", "lock"}
  BY OthersOutside
<1>2. \A q \in Proc \ {p} : Safe(q)'
  BY <1>1 DEF Safe, Writing, Switching
<1> QED
  BY <1>2 DEF Settled

(* A step that writes nothing and ends where nothing is known disturbs     *)
(* nobody.                                                                 *)
LEMMA QuietSettled ==
  ASSUME Settled, NEW p \in Proc,
         pc'[p] \in {"idle", "lock", "register", "check", "gate"},
         \A q \in Proc \ {p} : /\ pc'[q] = pc[q] /\ then'[q] = then[q]
                               /\ payload'[q] = payload[q] /\ run'[q] = run[q],
         UNCHANGED <<root, tmp, snapshots>>
  PROVE  Settled'
<1>1. Safe(p)'
  BY DEF Safe, Writing, Switching
<1>2. \A q \in Proc \ {p} : Safe(q)'
  BY DEF Settled, Safe, Writing, Switching
<1> QED
  BY <1>1, <1>2 DEF Settled, ActiveIndexPresent

LEMMA FinishSettled ==
  ASSUME ProcTyped, Settled, NEW p \in Proc, Finish(p), UNCHANGED <<root, tmp, snapshots>>
  PROVE  Settled'
<1>1. /\ pc'[p] = "idle"
      /\ \A q \in Proc \ {p} : /\ pc'[q] = pc[q] /\ then'[q] = then[q]
                               /\ payload'[q] = payload[q] /\ run'[q] = run[q]
  BY DEF Finish, Goto, ProcTyped
<1> QED
  BY <1>1, QuietSettled

LEMMA StartSettled ==
  ASSUME PromotionsOnly, ProcTyped, Settled, NEW p \in Proc, NEW kind \in Kinds,
         Start(p, kind)
  PROVE  Settled'
<1>1. kind # "rollback"
  BY DEF PromotionsOnly
<1>2. /\ pc'[p] = "lock"
      /\ \A q \in Proc \ {p} : pc'[q] = pc[q] /\ run'[q] = run[q]
  BY <1>1 DEF Start, Goto, ProcTyped
<1> QED
  BY <1>2, QuietSettled DEF Start, store

(* The steps that write the store.                                         *)
LEMMA WriterSettled ==
  ASSUME TypeOK, Exclusive, Settled, NEW p \in Proc,
         \/ Register(p) \/ Build(p) \/ MakeSnapshot(p) \/ CopyFiles(p) \/ BackupRoot(p)
         \/ Prune(p) \/ WriteTmp(p) \/ ReplaceRoot(p)
  PROVE  Settled'
<1>0. ProcTyped /\ StoreTyped /\ Safe(p) /\ ActiveIndexPresent
  BY TypeOKInParts DEF Settled
<1>1. Locked(p)
  BY <1>0 DEF Register, Build, MakeSnapshot, CopyFiles, BackupRoot, Prune, WriteTmp,
              ReplaceRoot, Locked, Safe, Writing
<1>2. run[p] \in Run
  BY <1>1 DEF Exclusive, RunKnown
<1>3. SUFFICES Safe(p)' /\ ActiveIndexPresent' /\ \A q \in Proc \ {p} : pc'[q] = pc[q]
  BY <1>0, <1>1, HolderSettled
<1>4. CASE Register(p)
  BY <1>0, <1>4 DEF Register, Goto, ProcTyped, Safe, Writing, Switching,
                    ActiveIndexPresent, RootForCandidate
<1>5. CASE Build(p)
  BY <1>0, <1>5 DEF Build, Goto, ProcTyped, Safe, Writing, Switching,
                    ActiveIndexPresent, RootForCandidate
<1>6. CASE MakeSnapshot(p)
  <2>1. root # run[p]
    BY <1>0, <1>2, <1>6, ValuesDistinct DEF MakeSnapshot, Validated, ActiveIndexPresent
  <2>2. ActiveIndexPresent'
    BY <1>0, <1>6, <2>1 DEF MakeSnapshot, ActiveIndexPresent, StoreTyped, Manifest
  <2> QED
    BY <1>0, <1>6, <2>1, <2>2 DEF MakeSnapshot, Goto, ProcTyped, Safe, Writing, Switching
<1>7. CASE CopyFiles(p)
  <2>1. root # run[p]
    BY <1>0, <1>7 DEF CopyFiles, Safe
  <2>2. ActiveIndexPresent' /\ snapshots'[run[p]] = "complete"
    BY <1>0, <1>2, <1>7, <2>1 DEF CopyFiles, ActiveIndexPresent, StoreTyped, Manifest
  <2> QED
    BY <1>0, <1>7, <2>1, <2>2 DEF CopyFiles, Goto, ProcTyped, Safe, Writing, Switching
<1>8. CASE BackupRoot(p)
  BY <1>0, <1>8 DEF BackupRoot, Goto, ProcTyped, Safe, Writing, Switching,
                    ActiveIndexPresent
<1>9. CASE Prune(p)
  <2>1. root = run[p]
    BY <1>0, <1>9 DEF Prune, Safe
  <2>2. snapshots'[run[p]] = snapshots[run[p]]
    BY <1>2, <1>9 DEF Prune
  <2> QED
    BY <1>0, <1>9, <2>1, <2>2 DEF Prune, Goto, ProcTyped, Safe, Writing, Switching,
                                  ActiveIndexPresent
<1>10. CASE WriteTmp(p)
  BY <1>0, <1>10 DEF WriteTmp, Goto, ProcTyped, Safe, Writing, Switching,
                     ActiveIndexPresent
<1>11. CASE ReplaceRoot(p)
  <2>1. pc[p] = "replace" /\ root' = payload[p] /\ then[p] # "idle"
    BY <1>0, <1>11 DEF ReplaceRoot, Safe, Writing
  <2>2. pc' = [pc EXCEPT ![p] = then[p]] /\ UNCHANGED <<run, snapshots>>
    BY <1>11, <2>1 DEF ReplaceRoot, Goto
  <2>3. CASE then[p] \in {"build", "gate"}
    BY <1>0, <2>1, <2>2, <2>3 DEF ProcTyped, Safe, Writing, Switching, ActiveIndexPresent
  <2>4. CASE then[p] = "prune"
    BY <1>0, <2>1, <2>2, <2>4 DEF ProcTyped, Safe, Writing, Switching, ActiveIndexPresent
  <2> QED
    BY <1>0, <2>1, <2>3, <2>4 DEF ProcTyped
<1> QED
  BY <1>4, <1>5, <1>6, <1>7, <1>8, <1>9, <1>10, <1>11

(* The other steps: they write nothing, or cannot be taken.                *)
LEMMA StepSettled ==
  ASSUME TypeOK, Exclusive, Settled, NEW p \in Proc, Step(p)
  PROVE  Settled'
<1>0. ProcTyped /\ StoreTyped /\ Safe(p)
  BY TypeOKInParts DEF Settled
<1>1. CASE TakeLock(p)
  <2>1. pc'[p] \in {"register", "check"} /\ \A q \in Proc \ {p} : pc'[q] = pc[q]
    BY <1>0, <1>1 DEF TakeLock, Goto, ProcTyped
  <2> QED
    BY <1>1, <2>1, QuietSettled DEF TakeLock, store
<1>2. CASE LockBusy(p) \/ ServerNotReady(p) \/ PromotionRefused(p) \/ AppendLogs(p)
  BY <1>0, <1>2, FinishSettled DEF LockBusy, ServerNotReady, PromotionRefused,
                                   AppendLogs, Raise, store
<1>3. CASE Gate(p)
  <2>1. UNCHANGED <<root, tmp, snapshots>>
    BY <1>3 DEF Gate, store
  <2>2. CASE Finish(p)
    BY <1>0, <2>1, <2>2, FinishSettled
  <2>3. CASE (Goto(p, "lock") \/ Goto(p, "check")) /\ UNCHANGED <<run, payload, then>>
    <3>1. pc'[p] \in {"lock", "check"} /\ \A q \in Proc \ {p} : pc'[q] = pc[q]
      BY <1>0, <2>3 DEF Goto, ProcTyped
    <3> QED
      BY <2>1, <2>3, <3>1, QuietSettled
  <2> QED
    BY <1>3, <2>2, <2>3 DEF Gate
<1>4. CASE ReplaceFindsNothing(p)
  BY <1>0, <1>4, ValuesDistinct DEF ReplaceFindsNothing, Safe, ProcTyped, Manifest
<1>5. CASE ValidateBackup(p) \/ RollbackRefused(p) \/ SaveCurrent(p)
  BY <1>0, <1>5 DEF ValidateBackup, RollbackRefused, SaveCurrent, Safe
<1>6. CASE \/ Register(p) \/ Build(p) \/ MakeSnapshot(p) \/ CopyFiles(p) \/ BackupRoot(p)
           \/ Prune(p) \/ WriteTmp(p) \/ ReplaceRoot(p)
  BY <1>6, WriterSettled
<1> QED
  BY <1>1, <1>2, <1>3, <1>4, <1>5, <1>6 DEF Step

LEMMA FaultSettled ==
  ASSUME PromotionsOnly, TypeOK, Exclusive, Settled, NEW p \in Proc,
         OperationRaises(p) \/ PromotionRaises(p) \/ Crash(p)
  PROVE  Settled'
<1>0. ProcTyped /\ StoreTyped /\ Safe(p) /\ ActiveIndexPresent
  BY TypeOKInParts DEF Settled
<1>1. CASE OperationRaises(p) \/ Crash(p)
  BY <1>0, <1>1, FinishSettled DEF OperationRaises, Crash, Raise, store
<1>2. CASE PromotionRaises(p)
  <2>1. pc[p] \in {"copy", "backup"} \/ Switching(p)
    BY <1>2 DEF PromotionsOnly, PromotionRaises, InPromotion, Switching, Writing
  <2>2. root # run[p] /\ Locked(p)
    BY <1>0, <2>1 DEF Safe, Locked, Switching, Writing
  <2>3. ActiveIndexPresent'
    BY <1>0, <1>2, <2>2 DEF PromotionRaises, ActiveIndexPresent, StoreTyped, Manifest
  <2>4. pc'[p] = "idle" /\ \A q \in Proc \ {p} : pc'[q] = pc[q]
    BY <1>0, <1>2 DEF PromotionRaises, Raise, Finish, Goto, ProcTyped
  <2>5. Safe(p)'
    BY <2>4 DEF Safe, Writing, Switching
  <2> QED
    BY <1>0, <2>2, <2>3, <2>4, <2>5, HolderSettled
<1> QED
  BY <1>1, <1>2

LEMMA SettledIsInvariant == ASSUME PromotionsOnly PROVE Spec => []Settled
<1>1. TypeOK /\ Exclusive /\ Settled /\ [Next]_vars => Settled'
  <2> SUFFICES ASSUME TypeOK, Exclusive, Settled, [Next]_vars PROVE Settled'
    OBVIOUS
  <2>0. ProcTyped
    BY TypeOKInParts
  <2>1. CASE UNCHANGED vars
    BY <2>1 DEF vars, Settled, Safe, Writing, Switching, ActiveIndexPresent
  <2>2. CASE Next
    BY <2>0, <2>2, StartSettled, StepSettled, FaultSettled DEF Next
  <2> QED
    BY <2>1, <2>2
<1> QED
  BY InitSettled, <1>1, TypeCorrect, ExclusiveIsInvariant, PTL DEF Spec

(* Without rollbacks, and while the logs can be written, the index that the*)
(* root manifest names is always complete on disk: builds, promotions, the *)
(* pruning after them, failures, kills and half-failed deletions included. *)
THEOREM ActiveIndexIsSafe == ASSUME PromotionsOnly PROVE Spec => []ActiveIndexPresent
<1>1. Settled => ActiveIndexPresent
  BY DEF Settled
<1> QED
  BY <1>1, SettledIsInvariant, PTL

(* Under the same conditions a promotion that reaches its log entry has    *)
(* made its run the active one, and nothing took that back meanwhile.      *)
THEOREM PromotionIsEffective == ASSUME PromotionsOnly PROVE Spec => []PromotedIsActive
<1>1. Settled => PromotedIsActive
  BY DEF Settled, Safe, PromotedIsActive
<1> QED
  BY <1>1, SettledIsInvariant, PTL

(* Under the same conditions the root manifest a build writes names the    *)
(* index that is active when it is written, not an earlier one.            *)
THEOREM BuildsKeepTheActiveIndex ==
  ASSUME PromotionsOnly PROVE Spec => BuildLeavesActiveAlone
<1> DEFINE Kept == \A p \in Proc :
             (pc[p] = "replace" /\ pc'[p] # "replace" /\ then[p] \in {"build", "gate"})
               => root' = root
<1>1. TypeOK /\ Exclusive /\ Settled /\ [Next]_vars => [Kept]_vars
  <2> SUFFICES ASSUME TypeOK, Exclusive, Settled, Next, NEW p \in Proc, pc[p] = "replace",
                      pc'[p] # "replace", then[p] \in {"build", "gate"}
               PROVE  root' = root
    BY DEF Kept
  <2>0. ProcTyped /\ Safe(p) /\ Locked(p)
    BY TypeOKInParts DEF Settled, Locked
  <2>1. PICK q \in Proc : \/ \E kind \in Kinds : Start(q, kind)
                          \/ Step(q) \/ OperationRaises(q) \/ PromotionRaises(q) \/ Crash(q)
    BY DEF Next
  <2>2. CASE ReplaceRoot(q)
    <3>1. q = p
      BY <2>0, <2>2, OthersOutside DEF ReplaceRoot
    <3> QED
      BY <2>0, <2>2, <3>1 DEF ReplaceRoot, Safe, Writing
  <2>3. CASE ~ ReplaceRoot(q)
    BY <2>1, <2>3 DEF Start, Step, TakeLock, LockBusy, ServerNotReady, Register, Build,
       Gate, MakeSnapshot, PromotionRefused, CopyFiles, BackupRoot, Prune, AppendLogs,
       WriteTmp, ReplaceFindsNothing, ValidateBackup, RollbackRefused, SaveCurrent,
       OperationRaises, PromotionRaises, Crash, store
  <2> QED
    BY <2>2, <2>3
<1> QED
  BY <1>1, TypeCorrect, ExclusiveIsInvariant, SettledIsInvariant, PTL
     DEF Spec, BuildLeavesActiveAlone

-----------------------------------------------------------------------------
(* One operation after another, rollbacks included: nobody works beside p, *)
(* a deletion succeeds and the logs can be written.                        *)
OneAfterAnother ==
  (\A p, q \in Proc : p = q) /\ DeletesMayFail = FALSE /\ LogMayFail = FALSE

(* A run that was ever active has its snapshot in full, or nothing of it is*)
(* left: then it cannot be promoted again.  A run never built is blank.    *)
Fresh(r) == r # root /\ r \notin backups
Whole(r) == snapshots[r] = "complete"
Past ==
  /\ \A r \in Run : \/ Fresh(r) \/ Whole(r)
                    \/ snapshots[r] = "none" /\ candidates[r] = "none"
  /\ \A r \in Run : jobs[r] = "none" =>
                      Fresh(r) /\ snapshots[r] = "none" /\ candidates[r] = "none"

(* What the one operation knows: a build works on a run that was never     *)
(* active, a promotion switches to one that is complete, and a rollback to *)
(* one that still is.                                                      *)
Begun(p) ==
  \/ pc[p] = "lock" /\ op[p] \in Builds
  \/ pc[p] = "register" \/ Building(p)
Restoring(p) == pc[p] = "save" \/ (Writing(p) /\ then[p] = "idle")
Knows(p) ==
  /\ Begun(p) \/ pc[p] \in {"copy", "backup"} \/ Switching(p) =>
       Fresh(run[p]) /\ jobs[run[p]] # "none"
  /\ pc[p] = "backup" \/ Switching(p) => Whole(run[p])
  /\ Switching(p) => payload[p] = run[p]
  /\ Writing(p) /\ Building(p) => payload[p] = root
  /\ Restoring(p) => payload[p] = NoRun \/ Whole(payload[p])
  /\ pc[p] = "replace" => tmp = payload[p]
  /\ pc[p] \in {"prune", "log"} => root = run[p]
HalvesFit ==
  \A r \in Run : /\ snapshots[r] # "partial"
                 /\ snapshots[r] = "copying" /\ crashes = 0 =>
                      \E p \in Proc : run[p] = r /\ pc[p] = "copy"

Ordered == Past /\ (\A p \in Proc : Knows(p)) /\ HalvesFit /\ ActiveIndexPresent

LEMMA InitOrdered == Init => Ordered
  BY ValuesDistinct DEF Init, Ordered, Past, Fresh, Whole, Knows, Begun, Building,
         Switching, Writing, Restoring, HalvesFit, ActiveIndexPresent

(* Records of jobs are never taken away, and the store is as it was.       *)
LEMMA StoreOrdered ==
  ASSUME OneAfterAnother, TypeOK, Ordered, NEW p \in Proc, UNCHANGED store,
         \A r \in Run : jobs'[r] = "none" => jobs[r] = "none",
         Knows(p)', crashes' = 0 => crashes = 0 /\ pc[p] # "copy"
  PROVE  Ordered'
<1>1. Past'
  BY DEF Ordered, Past, Fresh, Whole, store
<1>2. HalvesFit'
  BY DEF OneAfterAnother, Ordered, HalvesFit, store
<1> QED
  BY <1>1, <1>2 DEF OneAfterAnother, Ordered, ActiveIndexPresent, store

LEMMA JobsStay ==
  ASSUME JobsTyped, Exclusive, NEW p \in Proc, NEW status \in Status \ {"none"},
         CloseJob(p, status) \/ UNCHANGED jobs
  PROVE  \A r \in Run : jobs'[r] = "none" => jobs[r] = "none"
  BY DEF JobsTyped, CloseJob

LEMMA FinishKnows ==
  ASSUME ProcTyped, NEW p \in Proc, Finish(p)
  PROVE  Knows(p)' /\ pc'[p] = "idle"
  BY DEF Finish, Goto, ProcTyped, Knows, Begun, Building, Switching, Writing, Restoring

(* An operation that begins, or tries the lock.                            *)
LEMMA StartOrdered ==
  ASSUME OneAfterAnother, TypeOK, Exclusive, Ordered, NEW p \in Proc, NEW kind \in Kinds,
         Start(p, kind)
  PROVE  Ordered'
<1>0. ProcTyped /\ JobsTyped /\ UNCHANGED <<store, crashes>> /\ pc[p] = "idle"
  BY TypeOKInParts DEF Start
<1>1. \A r \in Run : jobs'[r] = "none" => jobs[r] = "none"
  BY <1>0 DEF Start, JobsTyped
<1>2. pc'[p] = (IF kind = "rollback" THEN "validate" ELSE "lock") /\ op'[p] = kind
  BY <1>0 DEF Start, Goto, ProcTyped
<1>3. kind \in Builds => Fresh(run[p])' /\ jobs'[run'[p]] # "none"
  <2> SUFFICES ASSUME kind \in Builds PROVE Fresh(run[p])' /\ jobs'[run'[p]] # "none"
    OBVIOUS
  <2>1. PICK r \in Run : /\ jobs[r] = "none" /\ run' = [run EXCEPT ![p] = r]
                        /\ jobs' = [jobs EXCEPT ![r] = "open"]
    BY DEF Start, Builds
  <2>2. Fresh(r) /\ run'[p] = r /\ jobs'[r] # "none"
    BY <1>0, <2>1 DEF Ordered, Past, ProcTyped, JobsTyped
  <2> QED
    BY <1>0, <2>2 DEF Fresh, store
<1>4. Knows(p)'
  BY <1>2, <1>3 DEF Knows, Begun, Building, Switching, Writing, Restoring
<1> QED
  BY <1>0, <1>1, <1>4, StoreOrdered

(* The steps that leave the store alone.                                   *)
LEMMA StoreKeptOrdered ==
  ASSUME OneAfterAnother, TypeOK, Exclusive, Ordered, NEW p \in Proc,
         \/ TakeLock(p) \/ LockBusy(p) \/ ServerNotReady(p) \/ Gate(p)
         \/ PromotionRefused(p) \/ AppendLogs(p) \/ ValidateBackup(p)
         \/ RollbackRefused(p) \/ OperationRaises(p) \/ Crash(p)
  PROVE  Ordered'
<1>0. ProcTyped /\ JobsTyped /\ StoreTyped /\ CountersTyped /\ Knows(p)
  BY TypeOKInParts DEF Ordered
<1>1. UNCHANGED store /\ (crashes' = 0 => crashes = 0 /\ pc[p] # "copy")
  BY <1>0, SwitchesTyped DEF TakeLock, LockBusy, ServerNotReady, Gate, PromotionRefused,
     AppendLogs, ValidateBackup, RollbackRefused, OperationRaises, Crash, CountersTyped
<1>2. \A r \in Run : jobs'[r] = "none" => jobs[r] = "none"
  <2>1. UNCHANGED jobs \/ \E status \in Status \ {"none"} : CloseJob(p, status)
    BY DEF TakeLock, LockBusy, ServerNotReady, Gate, PromotionRefused, AppendLogs,
       ValidateBackup, RollbackRefused, OperationRaises, Crash, Raise, Status
  <2> QED
    BY <1>0, <2>1, JobsStay
<1>3. Knows(p)'
  <2>1. CASE Finish(p)
    BY <1>0, <2>1, FinishKnows
  <2>2. CASE TakeLock(p)
    <3>1. /\ pc'[p] = (IF op[p] \in Builds THEN "register" ELSE "check")
          /\ pc[p] = "lock" /\ UNCHANGED <<store, run, op, payload, then, jobs>>
      BY <1>0, <2>2 DEF TakeLock, Goto, ProcTyped
    <3> QED
      BY <1>0, <3>1 DEF Knows, Begun, Building, Switching, Writing, Restoring, Fresh, store
  <2>3. CASE \/ Goto(p, "lock") /\ op' = [op EXCEPT ![p] = "auto-promote"]
             \/ Goto(p, "check")
    <3>1. pc'[p] = "check" \/ (pc'[p] = "lock" /\ op'[p] = "auto-promote")
      BY <1>0, <2>3 DEF Goto, ProcTyped
    <3> QED
      BY <3>1 DEF Knows, Begun, Building, Switching, Writing, Restoring, Builds
  <2>4. CASE ValidateBackup(p)
    <3>1. PICK b \in Restorable : payload' = [payload EXCEPT ![p] = b]
      BY <2>4 DEF ValidateBackup
    <3>2. b = NoRun \/ Whole(b)
      BY <1>0, <3>1 DEF Restorable, StoreTyped, Manifest, Ordered, Past, Whole, Fresh
    <3>3. payload'[p] = b /\ pc'[p] = "save"
      BY <1>0, <2>4, <3>1 DEF ValidateBackup, Goto, ProcTyped
    <3> QED
      BY <1>1, <3>2, <3>3 DEF Knows, Begun, Building, Switching, Writing, Restoring,
         Whole, store
  <2> QED
    BY <2>1, <2>2, <2>3, <2>4 DEF LockBusy, ServerNotReady, Gate, PromotionRefused,
       AppendLogs, RollbackRefused, OperationRaises, Crash, Raise
<1> QED
  BY <1>1, <1>2, <1>3, StoreOrdered

(* The steps that write the store, for the one process.                    *)
LEMMA BuildOrdered ==
  ASSUME OneAfterAnother, TypeOK, Exclusive, Ordered, NEW p \in Proc, Register(p) \/ Build(p)
  PROVE  Ordered'
<1>0. ProcTyped /\ StoreTyped /\ Knows(p) /\ run[p] \in Run /\ Fresh(run[p])
  BY TypeOKInParts DEF Ordered, Knows, Begun, Building, Register, Build, Exclusive, RunKnown,
     Locked
<1>1. /\ UNCHANGED <<root, tmp, snapshots, backups, jobs, run, crashes>>
      /\ pc'[p] = "write" /\ pc[p] \in {"register", "build"} /\ payload'[p] = root
      /\ then'[p] \in {"build", "gate"}
      /\ \A r \in Run \ {run[p]} : candidates'[r] = candidates[r]
  BY <1>0 DEF Register, Build, Goto, ProcTyped, StoreTyped, RootForCandidate
<1>2. jobs[run[p]] # "none"
  BY <1>0 DEF Knows, Begun, Building, Register, Build
<1>3. Past'
  BY <1>0, <1>1, <1>2 DEF Ordered, Past, Fresh, Whole
<1>4. Knows(p)'
  BY <1>0, <1>1 DEF Knows, Begun, Building, Switching, Writing, Restoring, Fresh
<1>5. HalvesFit'
  BY <1>1 DEF OneAfterAnother, Ordered, HalvesFit
<1> QED
  BY <1>1, <1>3, <1>4, <1>5 DEF OneAfterAnother, Ordered, ActiveIndexPresent

LEMMA PromoteOrdered ==
  ASSUME OneAfterAnother, TypeOK, Exclusive, Ordered, NEW p \in Proc,
         MakeSnapshot(p) \/ CopyFiles(p) \/ BackupRoot(p) \/ Prune(p)
  PROVE  Ordered'
<1>0. /\ ProcTyped /\ StoreTyped /\ Knows(p) /\ run[p] \in Run
      /\ Past /\ HalvesFit /\ ActiveIndexPresent /\ \A q \in Proc : q = p
  BY TypeOKInParts DEF Ordered, MakeSnapshot, CopyFiles, BackupRoot, Prune, Exclusive,
     RunKnown, Locked, OneAfterAnother
<1>1. UNCHANGED <<root, tmp, jobs, run, crashes>>
  BY DEF MakeSnapshot, CopyFiles, BackupRoot, Prune
<1>2. SUFFICES Past' /\ Knows(p)' /\ HalvesFit' /\ ActiveIndexPresent'
  BY <1>0 DEF Ordered
<1>3. CASE MakeSnapshot(p)
  <2>1. /\ UNCHANGED <<candidates, backups>> /\ pc'[p] = "copy"
        /\ snapshots'[run[p]] = "copying"
        /\ \A r \in Run \ {run[p]} : snapshots'[r] = snapshots[r]
    BY <1>0, <1>3 DEF MakeSnapshot, Goto, ProcTyped, StoreTyped
  <2>2. Fresh(run[p]) /\ jobs[run[p]] # "none"
    BY <1>0, <1>3 DEF MakeSnapshot, Validated, Past, Whole
  <2>3. Past' /\ ActiveIndexPresent'
    BY <1>0, <1>1, <2>1, <2>2 DEF Past, Fresh, Whole, ActiveIndexPresent, StoreTyped, Manifest
  <2>4. Knows(p)'
    BY <1>1, <2>1, <2>2 DEF Knows, Begun, Building, Switching, Writing, Restoring, Fresh
  <2>5. HalvesFit'
    BY <1>0, <1>1, <1>3, <2>1 DEF HalvesFit, MakeSnapshot
  <2> QED
    BY <2>3, <2>4, <2>5
<1>4. CASE CopyFiles(p)
  <2>1. /\ UNCHANGED <<candidates, backups>> /\ pc'[p] = "backup"
        /\ snapshots'[run[p]] = "complete"
        /\ \A r \in Run \ {run[p]} : snapshots'[r] = snapshots[r]
    BY <1>0, <1>4 DEF CopyFiles, Goto, ProcTyped, StoreTyped
  <2>2. Fresh(run[p])
    BY <1>0, <1>4 DEF CopyFiles, Knows
  <2>3. jobs[run[p]] # "none"
    BY <1>0, <1>4 DEF CopyFiles, Knows
  <2>4. Past' /\ ActiveIndexPresent'
    BY <1>0, <1>1, <2>1, <2>2, <2>3 DEF Past, Fresh, Whole, ActiveIndexPresent, StoreTyped,
       Manifest
  <2>5. Knows(p)'
    BY <1>1, <2>1, <2>2, <2>3
       DEF Knows, Begun, Building, Switching, Writing, Restoring, Fresh, Whole
  <2>6. HalvesFit'
    BY <1>0, <1>1, <2>1 DEF HalvesFit
  <2> QED
    BY <2>4, <2>5, <2>6
<1>5. CASE BackupRoot(p)
  <2>1. /\ UNCHANGED <<candidates, snapshots>> /\ pc'[p] = "write" /\ then'[p] = "prune"
        /\ payload'[p] = run[p] /\ backups' = backups \cup {root} /\ pc[p] = "backup"
    BY <1>0, <1>5 DEF BackupRoot, Goto, ProcTyped
  <2>2. Past' /\ ActiveIndexPresent'
    BY <1>0, <1>1, <2>1 DEF Past, Fresh, Whole, ActiveIndexPresent
  <2>3. Knows(p)'
    BY <1>0, <1>1, <2>1 DEF Knows, Begun, Building, Switching, Writing, Restoring, Fresh, Whole
  <2>4. HalvesFit'
    BY <1>0, <1>1, <2>1 DEF HalvesFit
  <2> QED
    BY <2>2, <2>3, <2>4
<1>6. CASE Prune(p)
  <2>1. /\ UNCHANGED backups /\ pc'[p] = "log" /\ pc[p] = "prune"
        /\ snapshots'[run[p]] = snapshots[run[p]]
        /\ \A r \in Run \ {run[p]} : snapshots'[r] = "none"
        /\ \A r \in Run : candidates'[r] = "none"
    BY <1>0, <1>6 DEF OneAfterAnother, Prune, Removed, Goto, ProcTyped
  <2>2. root = run[p]
    BY <1>0, <2>1 DEF Knows
  <2>3. Past' /\ ActiveIndexPresent'
    BY <1>0, <1>1, <2>1, <2>2 DEF Past, Fresh, Whole, ActiveIndexPresent, StoreTyped, Manifest
  <2>4. Knows(p)'
    BY <1>1, <2>1, <2>2 DEF Knows, Begun, Building, Switching, Writing, Restoring
  <2>5. HalvesFit'
    BY <1>0, <1>1, <2>1 DEF HalvesFit
  <2> QED
    BY <2>3, <2>4, <2>5
<1> QED
  BY <1>3, <1>4, <1>5, <1>6

LEMMA WriteOrdered ==
  ASSUME OneAfterAnother, TypeOK, Exclusive, Ordered, NEW p \in Proc,
         SaveCurrent(p) \/ WriteTmp(p) \/ ReplaceRoot(p)
  PROVE  Ordered'
<1>0. /\ ProcTyped /\ StoreTyped /\ Knows(p) /\ then[p] \in {"idle", "build", "gate", "prune"}
      /\ Past /\ HalvesFit /\ ActiveIndexPresent /\ \A q \in Proc : q = p
  BY TypeOKInParts DEF Ordered, OneAfterAnother, ProcTyped
<1>1. UNCHANGED <<candidates, snapshots, jobs, crashes>>
  BY DEF SaveCurrent, WriteTmp, ReplaceRoot
<1>2. HalvesFit'
  BY <1>0, <1>1 DEF HalvesFit, SaveCurrent, WriteTmp, ReplaceRoot
<1>3. SUFFICES Past' /\ Knows(p)' /\ ActiveIndexPresent'
  BY <1>0, <1>2 DEF Ordered
<1>4. CASE SaveCurrent(p)
  <2>1. /\ pc[p] = "save" /\ pc'[p] = "write" /\ backups' = backups \cup {root}
        /\ UNCHANGED <<root, tmp, op, run, payload, then>> /\ then[p] = "idle"
    BY <1>0, <1>4 DEF SaveCurrent, Goto, ProcTyped, Exclusive, UnlockedThen
  <2>2. Past' /\ ActiveIndexPresent'
    BY <1>0, <1>1, <2>1 DEF Past, Fresh, Whole, ActiveIndexPresent
  <2>3. Knows(p)'
    BY <1>0, <1>1, <2>1 DEF Knows, Begun, Building, Switching, Writing, Restoring, Whole
  <2> QED
    BY <2>2, <2>3
<1>5. CASE WriteTmp(p)
  <2>1. /\ pc[p] = "write" /\ pc'[p] = "replace" /\ tmp' = payload[p]
        /\ UNCHANGED <<root, backups, op, run, payload, then>>
    BY <1>0, <1>5 DEF WriteTmp, Goto, ProcTyped
  <2>2. Past' /\ ActiveIndexPresent'
    BY <1>0, <1>1, <2>1 DEF Past, Fresh, Whole, ActiveIndexPresent
  <2>3. Knows(p)'
    BY <1>0, <1>1, <2>1 DEF Knows, Begun, Building, Switching, Writing, Restoring, Whole, Fresh
  <2> QED
    BY <2>2, <2>3
<1>6. CASE ReplaceRoot(p)
  <2>1. pc[p] = "replace" /\ root' = payload[p] /\ UNCHANGED backups
    BY <1>0, <1>6 DEF ReplaceRoot, Knows
  <2>2. CASE then[p] = "idle"
    <3>1. payload[p] = NoRun \/ Whole(payload[p])
      BY <1>0, <2>1, <2>2 DEF Knows, Restoring, Writing
    <3>2. Past' /\ ActiveIndexPresent'
      BY <1>0, <1>1, <2>1, <3>1, ValuesDistinct
         DEF Past, Fresh, Whole, ActiveIndexPresent
    <3> QED
      BY <1>0, <1>6, <2>2, <3>2, FinishKnows DEF ReplaceRoot
  <2>3. CASE then[p] \in {"build", "gate"}
    <3>1. root' = root /\ Fresh(run[p]) /\ jobs[run[p]] # "none"
      BY <1>0, <2>1, <2>3 DEF Knows, Begun, Building, Writing
    <3>2. pc'[p] = then[p] /\ UNCHANGED <<op, run, payload, then>>
      BY <1>0, <1>6, <2>3 DEF ReplaceRoot, Goto, ProcTyped
    <3>3. Past' /\ ActiveIndexPresent'
      BY <1>0, <1>1, <2>1, <3>1 DEF Past, Fresh, Whole, ActiveIndexPresent
    <3> QED
      BY <1>1, <2>1, <2>3, <3>1, <3>2, <3>3
         DEF Knows, Begun, Building, Switching, Writing, Restoring, Fresh
  <2>4. CASE then[p] = "prune"
    <3>1. root' = run[p] /\ Whole(run[p])
      BY <1>0, <2>1, <2>4 DEF Knows, Switching, Writing
    <3>2. pc'[p] = "prune" /\ UNCHANGED <<op, run, payload, then>>
      BY <1>0, <1>6, <2>4 DEF ReplaceRoot, Goto, ProcTyped
    <3>3. jobs[run[p]] # "none"
      BY <1>0, <3>1, <2>1, <2>4 DEF Past, Whole, Exclusive, RunKnown, Locked
    <3>4. Past' /\ ActiveIndexPresent'
      BY <1>0, <1>1, <2>1, <3>1, <3>3 DEF Past, Fresh, Whole, ActiveIndexPresent
    <3> QED
      BY <1>1, <2>1, <2>4, <3>1, <3>2, <3>4
         DEF Knows, Begun, Building, Switching, Writing, Restoring
  <2> QED
    BY <1>0, <2>2, <2>3, <2>4
<1> QED
  BY <1>4, <1>5, <1>6

(* A promotion that raises, and a temporary manifest that is gone, which   *)
(* the only writer never finds.                                            *)
LEMMA FailureOrdered ==
  ASSUME OneAfterAnother, TypeOK, Exclusive, Ordered, NEW p \in Proc,
         PromotionRaises(p) \/ ReplaceFindsNothing(p)
  PROVE  Ordered'
<1>0. /\ ProcTyped /\ StoreTyped /\ JobsTyped /\ Knows(p)
      /\ Past /\ HalvesFit /\ ActiveIndexPresent /\ \A q \in Proc : q = p
  BY TypeOKInParts DEF Ordered, OneAfterAnother
<1>1. ~ ReplaceFindsNothing(p)
  BY <1>0, ValuesDistinct DEF ReplaceFindsNothing, Knows, ProcTyped, Manifest
<1>2. (pc[p] \in {"copy", "backup"} \/ Switching(p)) /\ Raise(p)
  BY <1>1 DEF OneAfterAnother, PromotionRaises, InPromotion, Switching, Writing
<1>3. Fresh(run[p]) /\ run[p] \in Run
  BY <1>0, <1>2 DEF Knows, Exclusive, RunKnown, Locked, Switching, Writing
<1>4. /\ UNCHANGED <<root, tmp, candidates, backups, crashes>>
      /\ snapshots'[run[p]] = "none"
      /\ \A r \in Run \ {run[p]} : snapshots'[r] = snapshots[r]
  BY <1>0, <1>1, <1>3 DEF OneAfterAnother, PromotionRaises, Removed, StoreTyped
<1>5. \A r \in Run : jobs'[r] = "none" => jobs[r] = "none"
  BY <1>0, <1>2, JobsStay DEF Raise, Status
<1>6. Past' /\ ActiveIndexPresent'
  BY <1>0, <1>3, <1>4, <1>5 DEF Past, Fresh, Whole, ActiveIndexPresent, StoreTyped, Manifest
<1>7. HalvesFit'
  BY <1>0, <1>4 DEF HalvesFit
<1>8. Knows(p)'
  BY <1>0, <1>2, FinishKnows DEF Raise
<1> QED
  BY <1>0, <1>6, <1>7, <1>8 DEF Ordered

(* One operation after another, whatever fails and whoever is killed: the  *)
(* active index is complete, also after a rollback, and a promotion that   *)
(* failed leaves no half-made snapshot.                                    *)
THEOREM RollbacksAreSafe == ASSUME OneAfterAnother PROVE Spec => []IndexWhole
<1>1. TypeOK /\ Exclusive /\ Ordered /\ [Next]_vars => Ordered'
  <2> SUFFICES ASSUME TypeOK, Exclusive, Ordered, [Next]_vars PROVE Ordered'
    OBVIOUS
  <2>1. CASE UNCHANGED vars
    BY <2>1 DEF vars, Ordered, Past, Fresh, Whole, Knows, Begun, Building, Switching, Writing,
       Restoring, HalvesFit, ActiveIndexPresent
  <2>2. CASE Next
    <3>1. PICK p \in Proc : \/ \E kind \in Kinds : Start(p, kind)
                            \/ Step(p) \/ OperationRaises(p) \/ PromotionRaises(p) \/ Crash(p)
      BY <2>2 DEF Next
    <3> QED
      BY <3>1, StartOrdered, StoreKeptOrdered, BuildOrdered, PromoteOrdered, WriteOrdered,
         FailureOrdered DEF Step
  <2> QED
    BY <2>1, <2>2
<1>2. Ordered => IndexWhole
  BY DEF Ordered, HalvesFit, IndexWhole, NoHalfSnapshot
<1> QED
  BY InitOrdered, <1>1, <1>2, TypeCorrect, ExclusiveIsInvariant, PTL DEF Spec

=============================================================================
