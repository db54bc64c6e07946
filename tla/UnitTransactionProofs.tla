------------------------ MODULE UnitTransactionProofs ------------------------
(***************************************************************************)
(* Proofs about UnitTransaction, for any units and any number of faults.   *)
(***************************************************************************)
EXTENDS UnitTransaction, TLAPS

Forward == {"define", "remove", "reload", "enable", "restart", "arm-removal",
            "disable", "verify"}
Restore == {"check", "define-back", "disable-back", "revive"}

(* Who works on a unit journal has one open, and who is about to open one   *)
(* or to save something else has none.                                      *)
JournalFits ==
  /\ pc \in {"begin", "capture"} => ~Open
  /\ pc \in Forward \cup Restore \cup {"finalize"} => Open
  /\ pc \in {"replace", "commit"} =>
       kind \in {"handoff", "save"} /\ (Open <=> kind = "handoff")
  /\ pc = "settings-undo" /\ why = "cleanup" => Open
  /\ pc \in Forward \cup {"capture", "finalize"} => kind = "handoff"
  /\ pc = "capture" => S.status = "active"

(* What follows is known while nobody has interfered.                       *)
Calm == Open /\ upset = {}

(* Where systemd may still be at work on what was cut off.                  *)
Looking == {"idle", "settings", "units", "settings-undo", "check"}
Still == \A u \in Units : act[u] \in {"active", "inactive"}

Applied == \A u \in Units : def[u] = J.after
Before == \A u \in Units : Seen(u) = Prior(u)
After == \A u \in Units : Seen(u) = Target(u)

(* The Settings journal of the transaction, and how far it got.             *)
SettingsFit ==
  /\ J.status = "active" /\ J.after = S.after.claims
  /\ S.status \in {"active", "compensated", "committed"}
  /\ S.status = "compensated" => settings = S.before
  /\ S.status = "committed" =>
       /\ settings = S.after /\ Applied /\ After /\ Still
       /\ pc \in {"idle", "units", "finalize"}
  /\ pc \in Forward \cup {"settings", "replace", "commit", "settings-undo"} =>
       S.status = "active"
  /\ pc = "commit" => settings = S.after
  /\ pc = "finalize" => S.status = "committed"
  /\ pc \in Restore =>
       S.status = (IF why = "undo" THEN "active" ELSE "compensated")

(* Where the handoff, or a restoration, is with the units.                  *)
UnitsFit ==
  /\ \A u \in Units : def[u] \in {J.before[u], J.after}
  /\ pc \notin Looking \cup {"define-back", "disable-back"} => Still
  /\ pc \in {"define", "remove"} => \A u \in Units \ todo : def[u] = J.after
  /\ pc \in {"reload", "enable", "restart", "verify", "replace", "commit"} => Applied
  /\ pc \in {"define", "enable", "restart"} => J.after # "none"
  /\ pc \in {"arm-removal", "disable", "remove"} => J.after = "none"
  /\ pc \in {"define", "arm-removal"} => J.phase = "prior-captured" /\ Before
  /\ pc \in {"enable", "disable"} => J.phase = "external-apply-armed" /\ Before
  /\ pc = "remove" => J.phase = "external-apply-armed" /\ After
  /\ pc = "reload" =>
       IF J.after = "none" THEN J.phase = "definitions-removed" /\ After
       ELSE J.phase = "definitions-applied" /\ Before
  /\ pc = "restart" => J.phase = "restart-armed" /\ J.restart \subseteq Now /\ After
  /\ pc = "verify" => J.phase = "external-applied" /\ After
  /\ pc \in {"replace", "commit", "finalize"} => J.phase = "external-verified" /\ After
  /\ pc = "revive" => \A u \in Units : Seen(u) = (IF u \in todo THEN {} ELSE Prior(u))

(* What is seen of a unit, and what will be when systemd is done with it.   *)
Becoming(u) ==
  {Seen(u)} \cup IF act[u] = "activating" THEN {Seen(u) \cup {"active"}} ELSE {}

(* Whatever was cut off, recovery expects it.                               *)
Expected == pc \in Looking => \A u \in Units : Becoming(u) \subseteq Allowed(u)

Known == SettingsFit /\ UnitsFit /\ Expected
Explained == Calm => Known

-----------------------------------------------------------------------------
(* Types.                                                                   *)

LEMMA EffectTyped ==
  ASSUME TypeOK, NEW E, NEW T, Leave(E, T)
  PROVE  /\ def' \in [Units -> Contents] /\ runs' \in [Units -> Contents]
         /\ enabled' \subseteq Units /\ act' \in [Units -> Active]
<1>1. enabled' \subseteq Units
  BY DEF TypeOK, Leave
<1>2. act' \in [Units -> Active]
  <2>1. /\ {"active", "inactive", "activating", "deactivating"} \subseteq Active
        /\ \A u \in Units : act[u] \in Active
    BY DEF TypeOK, Active, Transit
  <2> QED
    BY <2>1 DEF Leave
<1>3. def' \in [Units -> Contents] /\ runs' \in [Units -> Contents]
  BY <1>2 DEF TypeOK, Leave, Contents
<1> QED
  BY <1>1, <1>2, <1>3

LEMMA ApplyTyped ==
  ASSUME TypeOK, NEW E, Apply(E)
  PROVE  /\ def' \in [Units -> Contents] /\ runs' \in [Units -> Contents]
         /\ enabled' \subseteq Units /\ act' \in [Units -> Active]
BY EffectTyped DEF Apply

LEMMA CutOffTyped ==
  ASSUME TypeOK, NEW Es, CutOff(Es)
  PROVE  /\ def' \in [Units -> Contents] /\ runs' \in [Units -> Contents]
         /\ enabled' \subseteq Units /\ act' \in [Units -> Active]
BY EffectTyped DEF CutOff

Causes == {"key", "systemctl", "service", "user", "cut", "job"}

LEMMA BlameTyped ==
  ASSUME TypeOK, NEW c \in {"key", "systemctl", "service", "user", "cut"}, Blame(c)
  PROVE  upset' \subseteq Causes
BY DEF TypeOK, Blame, Causes

LEMMA ConflictTyped ==
  ASSUME TypeOK, MarkConflict
  PROVE  upset' \subseteq Causes
BY DEF TypeOK, MarkConflict, Causes

LEMMA FaultTyped == ASSUME TypeOK, Fault PROVE faults' \in 0..MaxFaults
BY BoundsTyped DEF TypeOK, Fault

LEMMA JournalTyped ==
  ASSUME TypeOK
  PROVE  /\ J.status \in {"none", "active", "committed", "compensated", "conflict"}
         /\ J.phase \in Phases /\ J.before \in [Units -> Contents]
         /\ J.after \in Contents /\ J.wasEnabled \subseteq Units
         /\ J.wasActive \subseteq Units /\ J.restart \subseteq Units
         /\ J.owned \in BOOLEAN
BY DEF TypeOK

Journals ==
  [status : {"none", "active", "committed", "compensated", "conflict"},
   phase : Phases, before : [Units -> Contents], after : Contents,
   wasEnabled : SUBSET Units, wasActive : SUBSET Units,
   restart : SUBSET Units, owned : BOOLEAN]

LEMMA NoJournalTyped == NoJournal \in Journals
<1>1. [u \in Units |-> "none"] \in [Units -> Contents]
  BY DEF Contents
<1>2. "none" \in Contents
  BY DEF Contents
<1> QED
  BY <1>1, <1>2 DEF NoJournal, Journals, Phases

LEMMA CloseTyped ==
  ASSUME NEW s \in {"committed", "compensated"}, NEW p \in Phases, Close(s, p)
  PROVE  J' \in Journals
BY NoJournalTyped DEF Close, Journals

LEMMA SaveTyped ==
  ASSUME TypeOK, NEW p \in Phases, Save(p)
  PROVE  J' \in Journals
BY DEF TypeOK, Save, Journals

LEMMA MarkTyped ==
  ASSUME TypeOK, NEW s \in {"active", "conflict"}, NEW p \in Phases, Mark(s, p)
  PROVE  J' \in Journals
BY DEF TypeOK, Mark, Journals

LEMMA InitTyped == ASSUME Init PROVE TypeOK
<1>1. NoSettings \in Document
  BY DEF NoSettings, Document
<1>2. S \in [status : {"none", "active", "committed", "compensated", "incomplete"},
             before : Document, after : Document]
  BY <1>1 DEF Init, NoSave
<1>3. J \in Journals
  BY NoJournalTyped DEF Init
<1>4. /\ def \in [Units -> Contents] /\ enabled \subseteq Units
      /\ act \in [Units -> Active] /\ settings \in Document
  BY UnitsTyped DEF Init, Contents, Active, Document
<1>5. runs \in [Units -> Contents]
  BY <1>4 DEF Init, Contents
<1> QED
  BY <1>2, <1>3, <1>4, <1>5, BoundsTyped DEF Init, TypeOK, Journals, Pcs

LEMMA RecoveryOutcomes ==
  ASSUME RecoverUnits
  PROVE  /\ pc = "units" /\ Open
         /\ UNCHANGED <<world, settings, S, raced, faults>>
         /\ \/ /\ Verdict = "restore" /\ pc' = "check" /\ why' = "recovery"
               /\ UNCHANGED <<J, todo, kind, upset>>
            \/ /\ Verdict = "committed" /\ Step("begin")
               /\ Close("committed", "recovered-committed") /\ upset' = {}
            \/ Verdict = "conflict" /\ Rest /\ MarkConflict
            \/ Rest /\ UNCHANGED <<J, upset>>
<1>1. /\ At("units") /\ Open
      /\ UNCHANGED <<world, settings, S, raced, faults>>
  BY DEF RecoverUnits
<1>2. CASE Verdict = "restore"
  BY <1>1, <1>2 DEF RecoverUnits, At, Goto
<1>3. CASE Verdict = "committed"
  BY <1>1, <1>3 DEF RecoverUnits, At
<1>4. CASE Verdict = "conflict"
  BY <1>1, <1>4 DEF RecoverUnits, At
<1>5. CASE Verdict \notin {"restore", "committed", "conflict"}
  BY <1>1, <1>5 DEF RecoverUnits, At
<1> QED
  BY <1>2, <1>3, <1>4, <1>5

LEMMA BarrierTyped ==
  ASSUME TypeOK
  PROVE  /\ \A k \in Kinds : Start(k) => TypeOK'
         /\ RecoverSettings \/ RecoverUnits \/ NothingToRecover => TypeOK'
<1>1. ASSUME NEW k \in Kinds, Start(k) PROVE TypeOK'
  BY <1>1
  DEF TypeOK, Pcs, world, Start, NoSave, NoSettings, Document, Kinds
<1>2. ASSUME RecoverSettings PROVE TypeOK'
  BY <1>2, BlameTyped, FaultTyped
  DEF TypeOK, Causes, Pcs, world, RecoverSettings, Compensate, Step, Goto, Rest
<1>3. ASSUME RecoverUnits PROVE TypeOK'
  <2>1. J' \in Journals /\ upset' \subseteq Causes
    <3>1. CASE UNCHANGED <<J, upset>>
      BY <3>1 DEF TypeOK, Journals, Causes
    <3>2. CASE Close("committed", "recovered-committed") /\ upset' = {}
      BY <3>2, CloseTyped DEF Phases
    <3>3. CASE MarkConflict
      BY <3>3, ConflictTyped, MarkTyped DEF MarkConflict, Phases
    <3> QED
      BY <1>3, <3>1, <3>2, <3>3, RecoveryOutcomes
  <2>2. /\ pc' \in Pcs /\ kind' \in Kinds \cup {"none"} /\ todo' \subseteq Units
        /\ why' \in {"none", "recovery", "undo", "cleanup"}
    BY <1>3, RecoveryOutcomes DEF TypeOK, Pcs, Step, Goto, Rest
  <2> QED
    BY <1>3, <2>1, <2>2, RecoveryOutcomes DEF TypeOK, Journals, Causes, world
<1>4. ASSUME NothingToRecover PROVE TypeOK'
  BY <1>4
  DEF TypeOK, Pcs, world, NothingToRecover, Step, Goto
<1> QED
  BY <1>1, <1>2, <1>3, <1>4

LEMMA CaptureTyped ==
  ASSUME TypeOK, Capture
  PROVE  TypeOK'
<1>1. CASE J' = J
  BY <1>1 DEF TypeOK, Capture, Pcs, world, Goto
<1>2. CASE J' # J
  <2>1. /\ J' = [status |-> "active", phase |-> "prior-captured", before |-> def,
                   after |-> S.after.claims, wasEnabled |-> enabled,
                   wasActive |-> {u \in Units : act[u] = "active"},
                   restart |-> {}, owned |-> TRUE]
        /\ upset' = {} /\ why' = why /\ pc' \in Pcs /\ todo' \subseteq Units
        /\ UNCHANGED <<world, settings, S, raced, faults, kind>>
    BY <1>2 DEF TypeOK, Capture, Goto, Pcs
  <2>2. J' \in Journals
    <3>1. S.after.claims \in Contents
      BY DEF TypeOK, Document, Contents
    <3> QED
      BY <2>1, <3>1 DEF TypeOK, Journals, Phases
  <2> QED
    BY <2>1, <2>2 DEF TypeOK, Journals, world
<1> QED
  BY <1>1, <1>2

LEMMA HandoffTyped == ASSUME TypeOK, Handoff PROVE TypeOK'
<1>1. ASSUME NEW k \in {"handoff", "save"}, NEW c \in {"none", "old", "new"},
             NEW o \in {0, 1}, BeginSettings(k, c, o)
      PROVE TypeOK'
  BY <1>1
  DEF TypeOK, Pcs, Kinds, world, BeginSettings, Document
<1>2. ASSUME Capture PROVE TypeOK'
  BY <1>2, CaptureTyped
<1>3. ASSUME Defined PROVE TypeOK'
  BY <1>3
  DEF TypeOK, Pcs, world, Defined, Save, Step, Goto, Phases
<1>4. ASSUME Reload PROVE TypeOK'
  BY <1>4
  DEF TypeOK, Pcs, world, Reload, Save, Step, Goto, Phases
<1>5. ASSUME EnableUnits PROVE TypeOK'
  <2>1. J' \in Journals
    <3>1. CASE Running # {}
      <4>1. Running \in SUBSET Units
        BY UnitsTyped DEF Running
      <4>2. J' = [J EXCEPT !.phase = "restart-armed", !.restart = Running]
        BY <1>5, <3>1 DEF EnableUnits
      <4> QED
        BY <4>1, <4>2 DEF TypeOK, Journals, Phases
    <3>2. CASE Running = {}
      BY <1>5, <3>2, SaveTyped DEF EnableUnits, Phases
    <3> QED
      BY <3>1, <3>2
  <2> QED
    BY <1>5, <2>1, ApplyTyped DEF TypeOK, Journals, EnableUnits, Step, Goto, Pcs
<1>6. ASSUME RestartUnits PROVE TypeOK'
  BY <1>6, ApplyTyped
  DEF TypeOK, Pcs, world, RestartUnits, Save, Step, Goto, Phases
<1>7. ASSUME ArmRemoval PROVE TypeOK'
  BY <1>7
  DEF TypeOK, Pcs, world, ArmRemoval, Save, Step, Goto, Phases
<1>8. ASSUME DisableUnits PROVE TypeOK'
  <2>1. PICK E : Apply(E)
    BY <1>8 DEF DisableUnits
  <2>2. /\ upset' \subseteq Causes
        /\ faults' \in 0..MaxFaults
    BY <1>8, BlameTyped, FaultTyped DEF TypeOK, Causes, DisableUnits
  <2>3. /\ todo' \subseteq Units /\ pc' \in Pcs
        /\ UNCHANGED <<settings, S, J, why, raced, kind>>
    BY <1>8 DEF DisableUnits, Goto, Pcs
  <2> QED
    BY <2>1, <2>2, <2>3, ApplyTyped DEF TypeOK, Causes
<1>9. ASSUME Verify PROVE TypeOK'
  BY <1>9
  DEF TypeOK, Pcs, world, Verify, Undo, Save, Goto, Phases
<1>10. ASSUME ReplaceSettings PROVE TypeOK'
  BY <1>10
  DEF TypeOK, Pcs, world, ReplaceSettings, Step, Goto
<1>11. ASSUME CommitSettings PROVE TypeOK'
  BY <1>11
  DEF TypeOK, Pcs, world, CommitSettings, Rest, Step, Goto
<1>12. ASSUME Finalize PROVE TypeOK'
  BY <1>12, CloseTyped
  DEF TypeOK, Pcs, world, Finalize, Rest, Journals, Phases
<1>13. ASSUME SettingsUndo PROVE TypeOK'
  BY <1>13, BlameTyped, FaultTyped
  DEF TypeOK, Causes, Pcs, world, SettingsUndo, Compensate, Step, Goto, Rest
<1>14. ASSUME NEW u \in Units, Define(u) PROVE TypeOK'
  BY <1>14
  DEF TypeOK, Pcs, world, Define, Undo, Goto
<1> QED
  BY <1>1, <1>2, <1>3, <1>4, <1>5, <1>6, <1>7, <1>8, <1>9, <1>10, <1>11, <1>12, <1>13, <1>14 DEF Handoff

LEMMA RestoringTyped == ASSUME TypeOK, Restoring PROVE TypeOK'
<1>1. ASSUME Check PROVE TypeOK'
  <2>1. J' \in Journals /\ upset' \subseteq Causes
    <3>1. \/ UNCHANGED <<J, upset>>
          \/ MarkConflict
          \/ Mark("active", "compensation-armed") /\ UNCHANGED upset
      BY <1>1 DEF Check, Refuse
    <3> QED
      BY <3>1, MarkTyped, ConflictTyped DEF MarkConflict, TypeOK, Journals, Phases, Causes
  <2>2. /\ pc' \in Pcs /\ kind' \in Kinds \cup {"none"} /\ todo' \subseteq Units
        /\ why' \in {"none", "recovery", "undo", "cleanup"}
        /\ UNCHANGED <<world, settings, S, raced, faults>>
    BY <1>1 DEF TypeOK, Pcs, Check, Refuse, GiveUp, Goto, Rest
  <2> QED
    BY <2>1, <2>2 DEF TypeOK, Journals, Causes, world
<1>2. ASSUME ReloadBack PROVE TypeOK'
  BY <1>2
  DEF TypeOK, Pcs, world, ReloadBack, Step, Goto
<1>3. ASSUME DisableBack PROVE TypeOK'
  <2>1. /\ def' \in [Units -> Contents] /\ runs' \in [Units -> Contents]
        /\ enabled' \subseteq Units /\ act' \in [Units -> Active]
    BY <1>3, ApplyTyped, CutOffTyped DEF DisableBack
  <2>2. /\ upset' \subseteq Causes
        /\ faults' \in 0..MaxFaults
    BY <1>3, BlameTyped, FaultTyped DEF TypeOK, Causes, DisableBack
  <2> QED
    BY <1>3, <2>1, <2>2 DEF TypeOK, Causes, DisableBack, Goto, Pcs
<1>4. ASSUME Compare PROVE TypeOK'
  BY <1>4, CloseTyped
  DEF TypeOK, Pcs, world, Compare, GiveUp, Rest, Goto, Journals, Phases
<1>5. ASSUME NEW u \in Units, DefineBack(u) PROVE TypeOK'
  BY <1>5
  DEF TypeOK, Pcs, world, DefineBack
<1>6. ASSUME NEW u \in Units, Revive(u) PROVE TypeOK'
  <2>1. /\ def' \in [Units -> Contents] /\ runs' \in [Units -> Contents]
        /\ enabled' \subseteq Units /\ act' \in [Units -> Active]
    BY <1>6, ApplyTyped, CutOffTyped DEF Revive
  <2>2. /\ upset' \subseteq Causes
        /\ faults' \in 0..MaxFaults
    BY <1>6, BlameTyped, FaultTyped DEF TypeOK, Causes, Revive
  <2> QED
    BY <1>6, <2>1, <2>2 DEF TypeOK, Causes, Revive
<1> QED
  BY <1>1, <1>2, <1>3, <1>4, <1>5, <1>6 DEF Restoring

LEMMA FaultsTyped ==
  ASSUME TypeOK, Control \/ ControlRefused \/ Raise \/ Kill \/ Bystander
  PROVE  TypeOK'
<1>1. ASSUME Control PROVE TypeOK'
  <2>1. /\ def' \in [Units -> Contents] /\ runs' \in [Units -> Contents]
        /\ enabled' \subseteq Units /\ act' \in [Units -> Active]
    BY <1>1, ApplyTyped, CutOffTyped DEF Control
  <2> QED
    BY <1>1, <2>1, FaultTyped DEF TypeOK, Pcs, Control, Rest
<1>2. ASSUME ControlRefused PROVE TypeOK'
  BY <1>2
  DEF TypeOK, Pcs, world, ControlRefused, Rest
<1>3. ASSUME Raise PROVE TypeOK'
  <2>1. /\ def' \in [Units -> Contents] /\ runs' \in [Units -> Contents]
        /\ enabled' \subseteq Units /\ act' \in [Units -> Active]
    BY <1>3, CutOffTyped DEF Raise
  <2>2. /\ upset' \subseteq Causes
        /\ faults' \in 0..MaxFaults
    BY <1>3, BlameTyped, FaultTyped DEF TypeOK, Causes, Raise, BlameCut
  <2>3. /\ pc' \in Pcs /\ kind' \in Kinds \cup {"none"} /\ todo' \subseteq Units
        /\ why' \in {"none", "recovery", "undo", "cleanup"}
        /\ UNCHANGED <<settings, S, J, raced>>
    BY <1>3 DEF TypeOK, Raise, Undo, GiveUp, Goto, Rest, Pcs
  <2> QED
    BY <2>1, <2>2, <2>3 DEF TypeOK, Causes
<1>4. ASSUME Kill PROVE TypeOK'
  <2>1. /\ def' \in [Units -> Contents] /\ runs' \in [Units -> Contents]
        /\ enabled' \subseteq Units /\ act' \in [Units -> Active]
    BY <1>4, CutOffTyped DEF Kill
  <2>2. upset' \subseteq Causes /\ faults' \in 0..MaxFaults
    BY <1>4, BlameTyped, FaultTyped DEF TypeOK, Causes, Kill, BlameCut
  <2>3. J' \in Journals
    BY <1>4 DEF TypeOK, Journals, Kill
  <2> QED
    BY <1>4, <2>1, <2>2, <2>3 DEF TypeOK, Causes, Journals, Pcs, Kill, Rest
<1>5. ASSUME OwnerExits PROVE TypeOK'
  BY <1>5
  DEF TypeOK, Pcs, world, OwnerExits
<1>6. ASSUME NEW u \in Units, Crash(u) PROVE TypeOK'
  BY <1>6, BlameTyped, FaultTyped
  DEF TypeOK, Causes, Pcs, world, Crash, Active, Transit
<1>7. ASSUME NEW u \in Units, Settle(u) PROVE TypeOK'
  <2>1. act' \in [Units -> Active] /\ runs' \in [Units -> Contents]
    BY <1>7 DEF TypeOK, Settle, Active, Contents
  <2> QED
    BY <1>7, <2>1 DEF TypeOK, Settle
<1>8. ASSUME NEW u \in Units, Edit(u) PROVE TypeOK'
  BY <1>8, BlameTyped, FaultTyped
  DEF TypeOK, Causes, Pcs, world, Edit, Contents
<1>9. ASSUME NEW u \in Units, Meddle(u) PROVE TypeOK'
  BY <1>9, ApplyTyped, BlameTyped, FaultTyped
  DEF TypeOK, Causes, Pcs, world, Meddle
<1> QED
  BY <1>1, <1>2, <1>3, <1>4, <1>5, <1>6, <1>7, <1>8, <1>9 DEF Bystander

(* Every reachable state has the types of the model, whatever the units and *)
(* the number of faults.                                                    *)
THEOREM TypeCorrect == Spec => []TypeOK
<1>1. Init => TypeOK
  BY InitTyped
<1>2. TypeOK /\ [Next]_vars => TypeOK'
  <2>1. ASSUME TypeOK, Next PROVE TypeOK'
    BY <2>1, BarrierTyped, HandoffTyped, RestoringTyped, FaultsTyped DEF Next, Session, Kinds
  <2>2. ASSUME TypeOK, UNCHANGED vars PROVE TypeOK'
    BY <2>2 DEF TypeOK, vars, world
  <2> QED
    BY <2>1, <2>2
<1> QED
  BY <1>1, <1>2, PTL DEF Spec

-----------------------------------------------------------------------------
(* Who has a journal open, and what it protects.                            *)

LEMMA BarrierFits ==
  ASSUME TypeOK, JournalFits, (\E k \in Kinds : Start(k)) \/ RecoverSettings \/ RecoverUnits \/ NothingToRecover
  PROVE  JournalFits'
<1>1. ASSUME NEW k \in Kinds, Start(k) PROVE JournalFits'
  BY <1>1
  DEF JournalFits, Open, At, Forward, Restore, Start, NoSave
<1>2. ASSUME RecoverSettings PROVE JournalFits'
  BY <1>2
  DEF JournalFits, Open, At, Forward, Restore, RecoverSettings, Compensate, Step, Goto, Rest
<1>3. ASSUME RecoverUnits PROVE JournalFits'
  BY <1>3, RecoveryOutcomes
  DEF JournalFits, Open, At, Forward, Restore, TypeOK, NoJournal, Step, Goto, Rest, Mark, MarkConflict,
      Close
<1>4. ASSUME NothingToRecover PROVE JournalFits'
  BY <1>4
  DEF JournalFits, Open, At, Forward, Restore, NothingToRecover, Step, Goto
<1> QED
  BY <1>1, <1>2, <1>3, <1>4 DEF Start

LEMMA HandoffFits ==
  ASSUME TypeOK, JournalFits, Handoff
  PROVE  JournalFits'
<1>1. ASSUME NEW k \in {"handoff", "save"}, NEW c \in {"none", "old", "new"},
             NEW o \in {0, 1}, BeginSettings(k, c, o)
      PROVE JournalFits'
  BY <1>1
  DEF JournalFits, Open, At, Forward, Restore, BeginSettings
<1>2. ASSUME Capture PROVE JournalFits'
  BY <1>2
  DEF JournalFits, Open, At, Forward, Restore, Capture, Goto
<1>3. ASSUME Defined PROVE JournalFits'
  BY <1>3
  DEF JournalFits, Open, At, Forward, Restore, TypeOK, Defined, Save, Step, Goto
<1>4. ASSUME Reload PROVE JournalFits'
  BY <1>4
  DEF JournalFits, Open, At, Forward, Restore, TypeOK, Reload, Save, Step, Goto
<1>5. ASSUME EnableUnits PROVE JournalFits'
  BY <1>5
  DEF JournalFits, Open, At, Forward, Restore, TypeOK, EnableUnits, Save, Step, Goto
<1>6. ASSUME RestartUnits PROVE JournalFits'
  BY <1>6
  DEF JournalFits, Open, At, Forward, Restore, TypeOK, RestartUnits, Save, Step, Goto
<1>7. ASSUME ArmRemoval PROVE JournalFits'
  BY <1>7
  DEF JournalFits, Open, At, Forward, Restore, TypeOK, ArmRemoval, Save, Step, Goto
<1>8. ASSUME DisableUnits PROVE JournalFits'
  BY <1>8
  DEF JournalFits, Open, At, Forward, Restore, DisableUnits, Goto
<1>9. ASSUME Verify PROVE JournalFits'
  BY <1>9
  DEF JournalFits, Open, At, Forward, Restore, TypeOK, Verify, Undo, Save, Goto
<1>10. ASSUME ReplaceSettings PROVE JournalFits'
  BY <1>10
  DEF JournalFits, Open, At, Forward, Restore, ReplaceSettings, Step, Goto
<1>11. ASSUME CommitSettings PROVE JournalFits'
  BY <1>11
  DEF JournalFits, Open, At, Forward, Restore, CommitSettings, Rest, Step, Goto
<1>12. ASSUME Finalize PROVE JournalFits'
  BY <1>12
  DEF JournalFits, Open, At, Forward, Restore, Finalize, Rest, Close
<1>13. ASSUME SettingsUndo PROVE JournalFits'
  BY <1>13
  DEF JournalFits, Open, At, Forward, Restore, SettingsUndo, Step, Goto, Rest
<1>14. ASSUME NEW u \in Units, Define(u) PROVE JournalFits'
  BY <1>14
  DEF JournalFits, Open, At, Forward, Restore, Define, Undo, Goto
<1> QED
  BY <1>1, <1>2, <1>3, <1>4, <1>5, <1>6, <1>7, <1>8, <1>9, <1>10, <1>11, <1>12, <1>13, <1>14 DEF Handoff

LEMMA RestoringFits ==
  ASSUME TypeOK, JournalFits, Restoring
  PROVE  JournalFits'
<1>1. ASSUME Check PROVE JournalFits'
  BY <1>1
  DEF JournalFits, Open, At, Forward, Restore, TypeOK, Check, Refuse, GiveUp, Mark, MarkConflict, Goto, Rest
<1>2. ASSUME ReloadBack PROVE JournalFits'
  BY <1>2
  DEF JournalFits, Open, At, Forward, Restore, ReloadBack, Step, Goto
<1>3. ASSUME DisableBack PROVE JournalFits'
  BY <1>3
  DEF JournalFits, Open, At, Forward, Restore, DisableBack, Goto
<1>4. ASSUME Compare PROVE JournalFits'
  BY <1>4
  DEF JournalFits, Open, At, Forward, Restore, Compare, GiveUp, Rest, Goto, Close, NoJournal
<1>5. ASSUME NEW u \in Units, DefineBack(u) PROVE JournalFits'
  BY <1>5
  DEF JournalFits, Open, At, Forward, Restore, DefineBack
<1>6. ASSUME NEW u \in Units, Revive(u) PROVE JournalFits'
  BY <1>6
  DEF JournalFits, Open, At, Forward, Restore, Revive
<1> QED
  BY <1>1, <1>2, <1>3, <1>4, <1>5, <1>6 DEF Restoring

LEMMA FaultsFit ==
  ASSUME TypeOK, JournalFits, Control \/ ControlRefused \/ Raise \/ Kill \/ Bystander
  PROVE  JournalFits'
<1>1. ASSUME Control PROVE JournalFits'
  BY <1>1
  DEF JournalFits, Open, At, Forward, Restore, Control, Rest
<1>2. ASSUME ControlRefused PROVE JournalFits'
  BY <1>2
  DEF JournalFits, Open, At, Forward, Restore, ControlRefused, Rest
<1>3. ASSUME Raise PROVE JournalFits'
  BY <1>3
  DEF JournalFits, Open, At, Forward, Restore, Raise, Undo, Goto, GiveUp, Rest
<1>4. ASSUME Kill PROVE JournalFits'
  BY <1>4
  DEF JournalFits, Open, At, Forward, Restore, TypeOK, Kill, Rest
<1>5. ASSUME OwnerExits PROVE JournalFits'
  BY <1>5
  DEF JournalFits, Open, At, Forward, Restore, TypeOK, OwnerExits
<1>6. ASSUME NEW u \in Units, Crash(u) PROVE JournalFits'
  BY <1>6
  DEF JournalFits, Open, At, Forward, Restore, Crash
<1>7. ASSUME NEW u \in Units, Settle(u) PROVE JournalFits'
  BY <1>7
  DEF JournalFits, Open, At, Forward, Restore, Settle
<1>8. ASSUME NEW u \in Units, Edit(u) PROVE JournalFits'
  BY <1>8
  DEF JournalFits, Open, At, Forward, Restore, Edit
<1>9. ASSUME NEW u \in Units, Meddle(u) PROVE JournalFits'
  BY <1>9
  DEF JournalFits, Open, At, Forward, Restore, Meddle
<1> QED
  BY <1>1, <1>2, <1>3, <1>4, <1>5, <1>6, <1>7, <1>8, <1>9 DEF Bystander

LEMMA FitsKept == ASSUME TypeOK, JournalFits, [Next]_vars PROVE JournalFits'
<1>1. CASE Next
  BY <1>1, BarrierFits, HandoffFits, RestoringFits, FaultsFit DEF Next, Session, Kinds
<1>2. CASE UNCHANGED vars
  BY <1>2 DEF JournalFits, Open, vars
<1> QED
  BY <1>1, <1>2

LEMMA AlwaysFits == Spec => [](TypeOK /\ JournalFits)
<1>1. Init => JournalFits
  BY DEF Init, JournalFits, Open, NoJournal, Forward, Restore
<1> QED
  BY <1>1, FitsKept, TypeCorrect, PTL DEF Spec

(* While a unit journal is open, Settings stay within the transaction that  *)
(* opened it.                                                               *)
THEOREM SettingsStayHeld == Spec => SettingsHeld
<1> DEFINE Held ==
      Open => /\ S'.before = S.before /\ S'.after = S.after
              /\ settings' \in {settings, S.before, S.after}
<1>1. ASSUME TypeOK, JournalFits, [Next]_vars, Open PROVE Held
  <2>1. S \in [status : {"none", "active", "committed", "compensated", "incomplete"},
               before : Document, after : Document]
    BY <1>1 DEF TypeOK
  <2>2. ASSUME NEW k \in Kinds, Start(k) PROVE UNCHANGED <<settings, S>>
    BY <1>1, <2>2 DEF Start
  <2>3. ASSUME RecoverSettings \/ SettingsUndo PROVE Held
    BY <2>1, <2>3 DEF RecoverSettings, SettingsUndo, Compensate
  <2>4. ASSUME NEW k, NEW c, NEW o, BeginSettings(k, c, o) PROVE FALSE
    BY <1>1, <2>4 DEF BeginSettings, JournalFits, At
  <2>5. ASSUME ReplaceSettings PROVE Held
    BY <2>5 DEF ReplaceSettings
  <2>6. ASSUME CommitSettings PROVE Held
    BY <2>1, <2>6 DEF CommitSettings
  <2>7. ASSUME RecoverUnits \/ NothingToRecover \/ Capture \/ Defined \/ Reload
               \/ EnableUnits \/ RestartUnits \/ ArmRemoval \/ DisableUnits \/ Verify
               \/ Finalize \/ (\E u \in Units : Define(u))
        PROVE  UNCHANGED <<settings, S>>
    BY <2>7, RecoveryOutcomes
    DEF NothingToRecover, Capture, Defined, Reload, EnableUnits, RestartUnits,
        ArmRemoval, DisableUnits, Verify, Finalize, Define
  <2>8. ASSUME Restoring \/ Control \/ ControlRefused \/ Raise \/ Kill \/ Bystander
        PROVE  UNCHANGED <<settings, S>>
    BY <2>8
    DEF Restoring, Check, ReloadBack, DisableBack, Compare, DefineBack, Revive, Control,
        ControlRefused, Raise, Kill, Bystander, OwnerExits, Crash, Settle, Edit, Meddle
  <2>9. CASE UNCHANGED vars
    BY <2>9 DEF vars
  <2> QED
    BY <1>1, <2>2, <2>3, <2>4, <2>5, <2>6, <2>7, <2>8, <2>9 DEF Next, Session, Handoff, Kinds
<1>2. TypeOK /\ JournalFits /\ [Next]_vars => [Held]_vars
  BY <1>1
<1> QED
  BY <1>2, AlwaysFits, PTL DEF Spec, SettingsHeld

-----------------------------------------------------------------------------
(* What a unit is, and what a command makes of it.                          *)

LEMMA StateParts ==
  ASSUME NEW u, NEW on, NEW up
  PROVE  /\ State(u, on, up) \subseteq {"enabled", "active"}
         /\ "enabled" \in State(u, on, up) <=> u \in on
         /\ "active" \in State(u, on, up) <=> u \in up
BY DEF State

LEMMA SameParts ==
  ASSUME NEW s \in SUBSET {"enabled", "active"}, NEW t \in SUBSET {"enabled", "active"},
         "enabled" \in s <=> "enabled" \in t, "active" \in s <=> "active" \in t
  PROVE  s = t
<1>1. ASSUME NEW x \in s PROVE x \in t
  OBVIOUS
<1>2. ASSUME NEW x \in t PROVE x \in s
  OBVIOUS
<1> QED
  BY <1>1, <1>2

LEMMA SeenParts ==
  ASSUME NEW u \in Units
  PROVE  /\ Seen(u) \subseteq {"enabled", "active"}
         /\ "enabled" \in Seen(u) <=> u \in enabled
         /\ "active" \in Seen(u) <=> act[u] = "active"
BY StateParts DEF Seen

LEMMA TargetParts ==
  ASSUME NEW u \in Units
  PROVE  /\ Prior(u) \subseteq {"enabled", "active"}
         /\ Target(u) \subseteq {"enabled", "active"}
BY StateParts DEF Prior, Target

LEMMA LeaveEffects ==
  ASSUME TypeOK, NEW E, NEW T, Leave(E, T), NEW u \in Units
  PROVE  /\ Seen(u)' \subseteq {"enabled", "active"}
         /\ "enabled" \in Seen(u)' <=>
              /\ "enabled" \in Seen(u) \/ <<u, "enable">> \in E
              /\ <<u, "disable">> \notin E
         /\ "active" \in Seen(u)' <=> act'[u] = "active"
         /\ act'[u] = IF <<u, "start">> \in E
                      THEN IF u \in T THEN "activating" ELSE "active"
                      ELSE IF <<u, "stop">> \in E
                           THEN IF u \in T THEN "deactivating" ELSE "inactive"
                           ELSE act[u]
<1>1. /\ Seen(u)' \subseteq {"enabled", "active"}
      /\ "enabled" \in Seen(u)' <=> u \in enabled'
      /\ "active" \in Seen(u)' <=> act'[u] = "active"
  BY StateParts DEF Seen
<1>2. u \in enabled' <=>
        (u \in enabled \/ <<u, "enable">> \in E) /\ <<u, "disable">> \notin E
  BY DEF Leave
<1>3. act'[u] = IF <<u, "start">> \in E
                THEN IF u \in T THEN "activating" ELSE "active"
                ELSE IF <<u, "stop">> \in E
                     THEN IF u \in T THEN "deactivating" ELSE "inactive"
                     ELSE act[u]
  BY DEF Leave
<1> QED
  BY <1>1, <1>2, <1>3, SeenParts

LEMMA Effects ==
  ASSUME TypeOK, NEW E, Apply(E), NEW u \in Units
  PROVE  /\ Seen(u)' \subseteq {"enabled", "active"}
         /\ "enabled" \in Seen(u)' <=>
              /\ "enabled" \in Seen(u) \/ <<u, "enable">> \in E
              /\ <<u, "disable">> \notin E
         /\ "active" \in Seen(u)' <=>
              <<u, "start">> \in E \/ ("active" \in Seen(u) /\ <<u, "stop">> \notin E)
         /\ act[u] \in {"active", "inactive"} \/ <<u, "stop">> \in E =>
              act'[u] \in {"active", "inactive"}
<1>1. Leave(E, {})
  BY DEF Apply
<1> QED
  BY <1>1, LeaveEffects, SeenParts

(* A command that is cut off leads a unit nowhere but to some of what it    *)
(* asked for, at once or when systemd is done.                              *)
LEMMA CutEffects ==
  ASSUME TypeOK, NEW E, NEW T \in SUBSET (Starting(E) \cup Stopping(E)), Leave(E, T),
         NEW u \in Units, act[u] \in {"active", "inactive"}, NEW s \in Becoming(u)'
  PROVE  /\ s \subseteq {"enabled", "active"}
         /\ "enabled" \in s <=>
              /\ "enabled" \in Seen(u) \/ <<u, "enable">> \in E
              /\ <<u, "disable">> \notin E
         /\ "active" \in s =>
              <<u, "start">> \in E \/ ("active" \in Seen(u) /\ <<u, "stop">> \notin E)
         /\ "active" \in Seen(u) /\ <<u, "stop">> \notin E => "active" \in s
<1>1. s = Seen(u)' \/ (act'[u] = "activating" /\ s = Seen(u)' \cup {"active"})
  BY DEF Becoming
<1>2. act'[u] = "activating" => <<u, "start">> \in E
  BY LeaveEffects
<1>3. act[u] = "active" /\ <<u, "stop">> \notin E => u \notin T
  BY DEF Starting, Stopping
<1> QED
  BY <1>1, <1>2, <1>3, LeaveEffects, SeenParts

LEMMA CutTouched ==
  ASSUME TypeOK, NEW E, NEW T \in SUBSET (Starting(E) \cup Stopping(E)), Leave(E, T),
         NEW u \in Units, \A x : <<u, x>> \notin E
  PROVE  act'[u] = act[u] /\ Becoming(u)' = Becoming(u)
<1>1. act'[u] = act[u]
  BY LeaveEffects
<1>2. /\ Seen(u)' \subseteq {"enabled", "active"}
      /\ "enabled" \in Seen(u)' <=> "enabled" \in Seen(u)
      /\ "active" \in Seen(u)' <=> "active" \in Seen(u)
  BY <1>1, LeaveEffects, SeenParts
<1>3. Seen(u)' = Seen(u)
  BY <1>2, SeenParts, SameParts
<1> QED
  BY <1>1, <1>3 DEF Becoming

LEMMA NothingLeft ==
  ASSUME TypeOK, NEW T, Leave({}, T)
  PROVE  UNCHANGED <<def, enabled, act>>
<1>1. enabled' = enabled /\ def' = def
  BY DEF Leave
<1>2. act' = [u \in Units |-> act[u]]
  BY DEF Leave
<1>3. act' = act
  BY <1>2 DEF TypeOK
<1> QED
  BY <1>1, <1>3

LEMMA StillSeen ==
  ASSUME NEW u, act[u] \in {"active", "inactive"}
  PROVE  Becoming(u) = {Seen(u)}
BY DEF Becoming

LEMMA Untouched ==
  ASSUME TypeOK, NEW E, Apply(E), NEW u \in Units, \A x : <<u, x>> \notin E
  PROVE  Seen(u)' = Seen(u)
<1>1. /\ Seen(u)' \subseteq {"enabled", "active"}
      /\ "enabled" \in Seen(u)' <=> "enabled" \in Seen(u)
      /\ "active" \in Seen(u)' <=> "active" \in Seen(u)
  BY Effects
<1> QED
  BY <1>1, SeenParts, SameParts

LEMMA Enabled ==
  ASSUME TypeOK, Apply(EnableNow(Now)), NEW u \in Now
  PROVE  Seen(u)' = {"enabled", "active"}
<1>1. u \in Units /\ <<u, "enable">> \in EnableNow(Now) /\ <<u, "start">> \in EnableNow(Now)
      /\ <<u, "disable">> \notin EnableNow(Now)
  BY UnitsTyped DEF EnableNow
<1>2. "enabled" \in Seen(u)' /\ "active" \in Seen(u)' /\ Seen(u)' \subseteq {"enabled", "active"}
  BY <1>1, Effects
<1> QED
  BY <1>2

LEMMA Restarted ==
  ASSUME TypeOK, NEW U, Apply(Restart(U)), NEW u \in U, u \in Units, "enabled" \in Seen(u)
  PROVE  Seen(u)' = {"enabled", "active"}
<1>1. <<u, "start">> \in Restart(U) /\ <<u, "disable">> \notin Restart(U)
  BY DEF Restart
<1>2. "enabled" \in Seen(u)' /\ "active" \in Seen(u)' /\ Seen(u)' \subseteq {"enabled", "active"}
  BY <1>1, Effects
<1> QED
  BY <1>2

LEMMA Disabled ==
  ASSUME TypeOK, Apply(DisableNow(Units)), NEW u \in Units
  PROVE  Seen(u)' = {}
<1>1. /\ <<u, "disable">> \in DisableNow(Units) /\ <<u, "stop">> \in DisableNow(Units)
      /\ <<u, "start">> \notin DisableNow(Units)
  BY DEF DisableNow
<1>2. /\ "enabled" \notin Seen(u)' /\ "active" \notin Seen(u)'
      /\ Seen(u)' \subseteq {"enabled", "active"}
  BY <1>1, Effects
<1> QED
  BY <1>2

LEMMA Revived ==
  ASSUME TypeOK, NEW u \in Units, Apply(Revival(u)), Seen(u) = {}
  PROVE  Seen(u)' = Prior(u)
<1>1. /\ <<u, "enable">> \in Revival(u) <=> u \in J.wasEnabled
      /\ <<u, "start">> \in Revival(u) <=> u \in J.wasActive
      /\ <<u, "disable">> \notin Revival(u) /\ <<u, "stop">> \notin Revival(u)
  BY DEF Revival
<1>2. /\ "enabled" \in Seen(u)' <=> u \in J.wasEnabled
      /\ "active" \in Seen(u)' <=> u \in J.wasActive
      /\ Seen(u)' \subseteq {"enabled", "active"}
  BY <1>1, Effects
<1> QED
  BY <1>2, StateParts, SameParts DEF Prior

-----------------------------------------------------------------------------
(* What the journal says of the units, from one step to the next.           *)

SameJournal ==
  /\ J'.status = J.status /\ J'.before = J.before /\ J'.after = J.after
  /\ J'.wasEnabled = J.wasEnabled /\ J'.wasActive = J.wasActive
  /\ J'.restart = J.restart

LEMMA SavedSame ==
  ASSUME TypeOK, NEW p, Save(p)
  PROVE  SameJournal /\ J'.phase = p
BY DEF TypeOK, Save, SameJournal

LEMMA AimsKept ==
  ASSUME SameJournal, NEW u
  PROVE  Prior(u)' = Prior(u) /\ Target(u)' = Target(u)
BY DEF SameJournal, Prior, Target

LEMMA AllowedKept ==
  ASSUME SameJournal, J'.phase = J.phase, NEW u
  PROVE  Allowed(u)' = Allowed(u)
<1>1. Prior(u)' = Prior(u) /\ Target(u)' = Target(u)
  BY AimsKept
<1> QED
  BY <1>1 DEF SameJournal, Allowed

LEMMA SeenKept ==
  ASSUME UNCHANGED <<enabled, act>>, NEW u
  PROVE  Seen(u)' = Seen(u)
BY DEF Seen

LEMMA AllowsPrior ==
  ASSUME NEW u, J.phase \in {"prior-captured", "definitions-applied", "external-apply-armed"}
  PROVE  Prior(u) \in Allowed(u)
BY DEF Allowed

LEMMA AllowsTarget ==
  ASSUME NEW u, J.phase \notin {"prior-captured", "definitions-applied"}
  PROVE  Target(u) \in Allowed(u)
BY DEF Allowed

LEMMA AllowsMixed ==
  ASSUME NEW u, J.phase = "external-apply-armed", NEW s,
         s \subseteq Prior(u) \cup Target(u), Prior(u) \cap Target(u) \subseteq s
  PROVE  s \in Allowed(u)
BY DEF Allowed

LEMMA AllowsStopped ==
  ASSUME NEW u \in J.restart, J.phase = "restart-armed"
  PROVE  Allowed(u) = {Target(u), Target(u) \ {"active"}}
BY DEF Allowed

LEMMA AllowedAfterPrior ==
  ASSUME NEW u, NEW s \in Allowed(u),
         J.phase \in {"prior-captured", "definitions-applied"}
  PROVE  s = Prior(u)
BY DEF Allowed

LEMMA Carried ==
  ASSUME TypeOK, UNCHANGED <<enabled, act>>, SameJournal
  PROVE  /\ UNCHANGED def => (Applied' <=> Applied)
         /\ Before' <=> Before
         /\ After' <=> After
         /\ \A u \in Units : /\ Seen(u)' = Seen(u) /\ Target(u)' = Target(u)
                             /\ Becoming(u)' = Becoming(u)
         /\ Still' <=> Still
         /\ J'.phase = J.phase => \A u \in Units : Allowed(u)' = Allowed(u)
<1>1. \A u \in Units : /\ Seen(u)' = Seen(u) /\ Prior(u)' = Prior(u)
                         /\ Target(u)' = Target(u) /\ Becoming(u)' = Becoming(u)
  BY SeenKept, AimsKept DEF Becoming
<1>2. J'.phase = J.phase => \A u \in Units : Allowed(u)' = Allowed(u)
  BY AllowedKept
<1>3. UNCHANGED def => (Applied' <=> Applied)
  BY DEF Applied, SameJournal
<1> QED
  BY <1>1, <1>2, <1>3 DEF Before, After, Still

LEMMA JournalKept == ASSUME UNCHANGED J PROVE SameJournal /\ J'.phase = J.phase
BY DEF SameJournal

LEMMA NothingToCut ==
  ASSUME pc \notin {"enable", "restart", "disable", "disable-back", "revive"},
         NEW E \in Cuts
  PROVE  E = {}
<1>1. Command(pc) = {}
  BY DEF Command
<1> QED
  BY <1>1 DEF Cuts

LEMMA StateIsExpected ==
  ASSUME TypeOK, JournalFits, Calm, UnitsFit, Expected, ~MidRestore
  PROVE  \A u \in Units : Becoming(u) \subseteq Allowed(u)
<1>1. CASE pc \in Looking
  BY <1>1 DEF Expected
<1> SUFFICES ASSUME pc \notin Looking PROVE \A u \in Units : Seen(u) \in Allowed(u)
  BY <1>1, StillSeen DEF UnitsFit, Still, MidRestore
<1>2. CASE pc \in {"define", "arm-removal", "enable", "disable"}
           \/ (pc = "reload" /\ J.after # "none")
  BY <1>2, AllowsPrior DEF UnitsFit, Before
<1>3. CASE pc \in {"remove", "restart", "verify", "replace", "commit", "finalize"}
           \/ (pc = "reload" /\ J.after = "none")
  BY <1>3, AllowsTarget DEF UnitsFit, After
<1>4. pc \notin {"begin", "capture"}
  BY DEF JournalFits, Calm
<1> QED
  BY <1>2, <1>3, <1>4 DEF TypeOK, Pcs, MidRestore, Looking

(* A command that is cut off leaves units in a state recovery accepts.      *)
LEMMA CutIsExpected ==
  ASSUME TypeOK, JournalFits, Calm, UnitsFit, Expected, ~MidRestore,
         NEW E \in Cuts, NEW T \in SUBSET (Starting(E) \cup Stopping(E)), Leave(E, T),
         SameJournal, J'.phase = J.phase
  PROVE  \A u \in Units : Becoming(u)' \subseteq Allowed(u)'
<1> SUFFICES ASSUME NEW u \in Units, NEW s \in Becoming(u)' PROVE s \in Allowed(u)
  BY AllowedKept
<1>1. CASE pc \notin {"enable", "restart", "disable"}
  <2>1. E = {}
    BY <1>1, NothingToCut DEF MidRestore
  <2>2. Becoming(u)' = Becoming(u)
    BY <2>1, CutTouched
  <2> QED
    BY <2>2, StateIsExpected
<1>0. pc \in {"enable", "restart", "disable"} => act[u] \in {"active", "inactive"}
  BY DEF UnitsFit, Still, Looking
<1>2. CASE pc = "enable"
  <2>1. E \subseteq EnableNow(Now)
    BY <1>2 DEF Cuts, Command
  <2>2. J.phase = "external-apply-armed" /\ J.after # "none" /\ Seen(u) = Prior(u)
    BY <1>2 DEF UnitsFit, Before
  <2>3. CASE u \notin Now
    <3>1. \A x : <<u, x>> \notin E
      BY <2>1, <2>3 DEF EnableNow
    <3>2. s = Seen(u)
      BY <1>0, <1>2, <3>1, CutTouched, StillSeen
    <3> QED
      BY <2>2, <3>2, AllowsPrior
  <2>4. CASE u \in Now
    <3>1. Target(u) = {"enabled", "active"}
      BY <2>2, <2>4 DEF Target
    <3>2. <<u, "disable">> \notin E /\ <<u, "stop">> \notin E
      BY <2>1 DEF EnableNow
    <3>3. Prior(u) \subseteq s /\ s \subseteq {"enabled", "active"}
      <4>1. /\ "enabled" \in Seen(u) => "enabled" \in s
            /\ "active" \in Seen(u) => "active" \in s
            /\ s \subseteq {"enabled", "active"}
        BY <1>0, <1>2, <3>2, CutEffects
      <4> QED
        BY <2>2, <4>1, TargetParts
    <3> QED
      BY <2>2, <3>1, <3>3, AllowsMixed
  <2> QED
    BY <2>3, <2>4
<1>3. CASE pc = "disable"
  <2>1. E \subseteq DisableNow(Units)
    BY <1>3 DEF Cuts, Command
  <2>2. J.phase = "external-apply-armed" /\ Target(u) = {} /\ Seen(u) = Prior(u)
    BY <1>3 DEF UnitsFit, Before, Target
  <2>3. <<u, "enable">> \notin E /\ <<u, "start">> \notin E
    BY <2>1 DEF DisableNow
  <2>4. s \subseteq Prior(u)
    <3>1. /\ "enabled" \in s => "enabled" \in Seen(u)
          /\ "active" \in s => "active" \in Seen(u)
          /\ s \subseteq {"enabled", "active"}
      BY <1>0, <1>3, <2>3, CutEffects
    <3> QED
      BY <2>2, <3>1
  <2> QED
    BY <2>2, <2>4, AllowsMixed
<1>4. CASE pc = "restart"
  <2>1. E \subseteq Restart(J.restart)
    BY <1>4 DEF Cuts, Command
  <2>2. /\ J.phase = "restart-armed" /\ J.restart \subseteq Now /\ J.after # "none"
        /\ Seen(u) = Target(u)
    BY <1>4 DEF UnitsFit, After
  <2>3. CASE u \notin J.restart
    <3>1. \A x : <<u, x>> \notin E
      BY <2>1, <2>3 DEF Restart
    <3>2. s = Seen(u)
      BY <1>0, <1>4, <3>1, CutTouched, StillSeen
    <3> QED
      BY <2>2, <3>2, AllowsTarget
  <2>4. CASE u \in J.restart
    <3>1. Target(u) = {"enabled", "active"}
      BY <2>2, <2>4 DEF Target
    <3>2. <<u, "disable">> \notin E
      BY <2>1 DEF Restart
    <3>3. "enabled" \in s /\ s \subseteq {"enabled", "active"}
      <4>1. /\ "enabled" \in Seen(u) => "enabled" \in s
            /\ s \subseteq {"enabled", "active"}
        BY <1>0, <1>4, <3>2, CutEffects
      <4> QED
        BY <2>2, <3>1, <4>1
    <3>4. s = {"enabled", "active"} \/ s = {"enabled", "active"} \ {"active"}
      BY <3>3
    <3> QED
      BY <2>2, <2>4, <3>1, <3>4, AllowsStopped
  <2> QED
    BY <2>3, <2>4
<1> QED
  BY <1>1, <1>2, <1>3, <1>4

(* A look that does not find what it expects finds systemd at work.         *)
LEMMA ConflictsExcluded ==
  ASSUME TypeOK, Known
  PROVE  /\ ~DefinitionConflict
         /\ pc \in {"units", "check"} /\ RuntimeConflict =>
              \E u \in Units : act[u] \in Transit
<1>1. pc \in {"units", "check"} => \A u \in Units : Seen(u) \in Allowed(u)
  BY DEF Known, Expected, Becoming, Looking
<1> QED
  BY <1>1 DEF Known, UnitsFit, DefinitionConflict, RuntimeConflict

LEMMA ConflictSeen ==
  ASSUME MarkConflict, \E u \in Units : act[u] \in Transit
  PROVE  ~Calm'
BY DEF MarkConflict, Calm

LEMMA BarrierKnown ==
  ASSUME TypeOK, JournalFits, Explained, Calm'
  PROVE  (\E k \in Kinds : Start(k)) \/ RecoverSettings \/ RecoverUnits \/ NothingToRecover
           => Known'
<1>1. ASSUME NEW k \in Kinds, Start(k) PROVE Known'
  <2>1. /\ Calm /\ UNCHANGED <<def, enabled, act, settings, S, J>>
        /\ pc' \in {"units", "settings"}
        /\ pc' = "settings" => S.status \in {"active", "incomplete"}
    BY <1>1 DEF Calm, Open, Start, world
  <2>2. pc = "idle" /\ Known
    BY <1>1, <2>1 DEF Start, Explained, At
  <2>3. SettingsFit'
    BY <2>1, <2>2, Carried, JournalKept DEF Known, SettingsFit, Forward, Restore
  <2>4. UnitsFit'
    BY <2>1, <2>2 DEF Known, UnitsFit, Looking
  <2>5. Expected'
    BY <2>1, <2>2, Carried, JournalKept DEF Known, Expected, Looking
  <2> QED
    BY <2>3, <2>4, <2>5 DEF Known
<1>2. ASSUME RecoverSettings PROVE Known'
  <2>1. /\ UNCHANGED <<def, enabled, act, J>> /\ pc = "settings" /\ Compensate
        /\ pc' \in {"units", "idle"}
    BY <1>2 DEF RecoverSettings, world, Step, Goto, Rest, At
  <2>2. Open
    BY <2>1 DEF Calm, Open
  <2>3. Calm /\ settings' = S.before /\ S' = [S EXCEPT !.status = "compensated"]
    BY <2>1, <2>2 DEF Compensate, Blame, Calm
  <2>4. Known
    BY <2>3 DEF Explained
  <2>5. S'.status = "compensated" /\ S'.before = S.before /\ S'.after = S.after
    BY <2>3 DEF TypeOK
  <2>6. SettingsFit'
    BY <2>1, <2>3, <2>4, <2>5 DEF Known, SettingsFit, Forward, Restore
  <2>7. UnitsFit'
    BY <2>1, <2>4 DEF Known, UnitsFit, Looking
  <2>8. Expected'
    BY <2>1, <2>4, Carried, JournalKept DEF Known, Expected, Looking
  <2> QED
    BY <2>6, <2>7, <2>8 DEF Known
<1>3. ASSUME RecoverUnits PROVE Known'
  <2>1. /\ pc = "units" /\ UNCHANGED <<def, enabled, act, settings, S>> /\ Open
    BY <1>3, RecoveryOutcomes DEF world
  <2>2. CASE Close("committed", "recovered-committed")
    BY <2>2 DEF Close, NoJournal, Calm, Open
  <2>3. CASE Rest /\ UNCHANGED <<J, upset>>
    <3>1. Known /\ pc' = "idle"
      BY <2>3 DEF Calm, Open, Explained, Rest
    <3>2. SettingsFit'
      BY <2>1, <2>3, <3>1, Carried, JournalKept DEF Known, SettingsFit, Forward, Restore
    <3>3. UnitsFit'
      BY <2>1, <2>3, <3>1 DEF Known, UnitsFit, Looking
    <3>4. Expected'
      BY <2>1, <2>3, <3>1, Carried, JournalKept DEF Known, Expected, Looking
    <3> QED
      BY <3>2, <3>3, <3>4 DEF Known
  <2>4. CASE Verdict = "restore" /\ pc' = "check" /\ why' = "recovery" /\ UNCHANGED <<J, upset>>
    <3>1. Known
      BY <2>4 DEF Calm, Open, Explained
    <3>2. S.status = "compensated"
      BY <2>4, <3>1 DEF Verdict, Known, SettingsFit
    <3>3. SettingsFit'
      BY <2>1, <2>4, <3>1, <3>2 DEF Known, SettingsFit, Forward, Restore
    <3>4. UnitsFit'
      BY <2>1, <2>4, <3>1 DEF Known, UnitsFit, Looking
    <3>5. Expected'
      BY <2>1, <2>4, <3>1, Carried, JournalKept DEF Known, Expected, Looking
    <3> QED
      BY <3>3, <3>4, <3>5 DEF Known
  <2>5. CASE Verdict = "conflict" /\ MarkConflict
    <3>1. upset = {}
      BY <2>5 DEF MarkConflict, Calm
    <3>2. Known
      BY <2>1, <3>1 DEF Calm, Explained
    <3>3. S.status # "committed"
      <4>1. SUFFICES ASSUME S.status = "committed" PROVE FALSE
        OBVIOUS
      <4>2. settings = S.after /\ Desired
        BY <3>2, <4>1 DEF Desired, Known, SettingsFit, Applied, After, Still
      <4> QED
        BY <2>5, <3>2, <4>1, <4>2, ConflictsExcluded DEF Verdict
    <3>4. RuntimeConflict
      <4>1. S.status \in {"active", "compensated"}
        BY <3>2, <3>3 DEF Known, SettingsFit
      <4>2. S.status = "compensated" => settings = S.before
        BY <3>2 DEF Known, SettingsFit
      <4> QED
        BY <2>5, <3>2, <4>1, <4>2, ConflictsExcluded DEF Verdict
    <3> QED
      BY <2>1, <2>5, <3>2, <3>4, ConflictsExcluded, ConflictSeen
  <2> QED
    BY <1>3, <2>2, <2>3, <2>4, <2>5, RecoveryOutcomes
<1>4. ASSUME NothingToRecover PROVE FALSE
  BY <1>4 DEF NothingToRecover, Calm, Open
<1> QED
  BY <1>1, <1>2, <1>3, <1>4

LEMMA CaptureKnown ==
  ASSUME TypeOK, JournalFits, Calm', Capture
  PROVE  Known'
<1>1. /\ J' = [status |-> "active", phase |-> "prior-captured", before |-> def,
               after |-> S.after.claims, wasEnabled |-> enabled,
               wasActive |-> {u \in Units : act[u] = "active"},
               restart |-> {}, owned |-> TRUE]
      /\ \A u \in Units : act[u] \in {"active", "inactive"}
      /\ IF S.after.claims = "none" THEN pc' = "arm-removal"
         ELSE pc' = "define" /\ todo' = Units
      /\ UNCHANGED <<def, enabled, act, settings, S, why>>
  <2>1. ~Open /\ S.status = "active"
    BY DEF JournalFits, Capture, At
  <2>2. J' # J
    BY <2>1 DEF Calm, Open
  <2> QED
    BY <2>2 DEF Capture, Goto, world
<1>2. S.status = "active"
  BY DEF JournalFits, Capture, At
<1>3. Before'
  BY <1>1 DEF Before, Seen, Prior
<1>4. J'.status = "active" /\ J'.phase = "prior-captured" /\ J'.before = def
      /\ J'.after = S.after.claims
  BY <1>1
<1> QED
  BY <1>1, <1>2, <1>3, <1>4
  DEF Known, SettingsFit, UnitsFit, Expected, Forward, Restore, Looking, Still

LEMMA UndoKnown ==
  ASSUME TypeOK, JournalFits, Calm, Known, pc \in Forward, Undo, UNCHANGED <<settings, S, J>>,
         UNCHANGED <<def, enabled, act>> \/ CutOff(Cuts)
  PROVE  Known'
<1>1. pc' = "check" /\ why' = "undo" /\ S.status = "active" /\ ~MidRestore
  BY DEF Undo, Goto, Known, SettingsFit, Forward, MidRestore
<1>2. UNCHANGED def /\ \A u \in Units : Becoming(u)' \subseteq Allowed(u)'
  <2>1. CASE UNCHANGED <<def, enabled, act>>
    BY <1>1, <2>1, StateIsExpected, Carried, JournalKept DEF Known
  <2>2. CASE CutOff(Cuts)
    BY <1>1, <2>2, CutIsExpected, JournalKept DEF Known, CutOff, Leave
  <2> QED
    BY <2>1, <2>2
<1>3. SettingsFit'
  BY <1>1 DEF Known, SettingsFit, Forward, Restore
<1>4. UnitsFit'
  BY <1>1, <1>2 DEF Known, UnitsFit, Looking
<1> QED
  BY <1>2, <1>3, <1>4 DEF Known, Expected

LEMMA ForwardKnown ==
  ASSUME TypeOK, JournalFits, Explained, Calm'
  PROVE  /\ Defined \/ Reload \/ EnableUnits \/ RestartUnits => Known'
         /\ ArmRemoval \/ DisableUnits \/ Verify => Known'
         /\ \A u \in Units : Define(u) => Known'
<1> DEFINE Same == SameJournal /\ UNCHANGED <<settings, S>>
<1>1. ASSUME NEW u \in Units, Define(u) PROVE Known'
  <2>1. Calm /\ Known /\ pc \in {"define", "remove"}
    BY <1>1 DEF Calm, Open, Explained, Define
  <2>2. UNCHANGED <<enabled, act, settings, S, J>>
    BY <1>1 DEF Define
  <2>3. CASE def[u] = J.before[u]
    <3>1. /\ def' = [def EXCEPT ![u] = J.after] /\ todo' = todo \ {u} /\ UNCHANGED pc
      BY <1>1, <2>3 DEF Define
    <3>2. \A v \in Units : def'[v] \in {def[v], J.after} /\ def'[u] = J.after
      BY <3>1 DEF TypeOK
    <3>3. SettingsFit'
      BY <2>1, <2>2, <3>1 DEF Known, SettingsFit, Forward, Restore
    <3> QED
      BY <2>1, <2>2, <3>1, <3>2, <3>3, Carried, JournalKept DEF Known, UnitsFit, Expected, Looking
  <2>4. CASE def[u] # J.before[u]
    BY <1>1, <2>1, <2>2, <2>4, UndoKnown DEF Define, Forward
  <2> QED
    BY <2>3, <2>4
<1>2. ASSUME Defined PROVE Known'
  <2>1. /\ pc \in {"define", "remove"} /\ todo = {} /\ pc' = "reload"
        /\ UNCHANGED <<def, enabled, act, settings, S, upset>> /\ SameJournal
        /\ J'.phase = IF pc = "define" THEN "definitions-applied" ELSE "definitions-removed"
    BY <1>2, SavedSame DEF Defined, Step, Goto, world, At
  <2>2. Calm /\ Known
    BY <2>1 DEF Calm, Open, Explained, SameJournal
  <2>3. Applied
    BY <2>1, <2>2 DEF Known, UnitsFit, Applied
  <2> QED
    BY <2>1, <2>2, <2>3, Carried
    DEF Known, SettingsFit, UnitsFit, Expected, Looking, SameJournal, Forward, Restore
<1>3. ASSUME Reload PROVE Known'
  <2>1. /\ pc = "reload" /\ SameJournal
        /\ UNCHANGED <<def, enabled, act, settings, S, upset>>
        /\ IF J.after = "none" THEN J'.phase = "external-applied" /\ pc' = "verify"
           ELSE J'.phase = "external-apply-armed" /\ pc' = "enable"
    BY <1>3, SavedSame DEF Reload, Step, Goto, world, At
  <2>2. Calm /\ Known
    BY <2>1 DEF Calm, Open, Explained, SameJournal
  <2> QED
    BY <2>1, <2>2, Carried
    DEF Known, SettingsFit, UnitsFit, Expected, Looking, SameJournal, Forward, Restore
<1>4. ASSUME EnableUnits PROVE Known'
  <2>1. /\ pc = "enable" /\ Apply(EnableNow(Now)) /\ UNCHANGED <<settings, S, upset>>
    BY <1>4 DEF EnableUnits, Command, At
  <2>2. /\ J'.status = J.status /\ J'.before = J.before /\ J'.after = J.after
        /\ J'.wasEnabled = J.wasEnabled /\ J'.wasActive = J.wasActive
        /\ \/ J'.phase = "restart-armed" /\ J'.restart = Running /\ pc' = "restart"
           \/ J'.phase = "external-applied" /\ pc' = "verify"
    <3>1. CASE Running # {}
      BY <1>4, <3>1 DEF EnableUnits, Step, Goto, TypeOK
    <3>2. CASE Running = {}
      BY <1>4, <3>2, SavedSame DEF EnableUnits, Step, Goto, SameJournal
    <3> QED
      BY <3>1, <3>2
  <2>3. Calm /\ Known
    BY <2>1, <2>2 DEF Calm, Open, Explained
  <2>4. \A u \in Units : Prior(u)' = Prior(u) /\ Target(u)' = Target(u)
    BY <2>2 DEF Prior, Target
  <2>5. J.after # "none" /\ Before /\ Applied
    BY <2>1, <2>3 DEF Known, UnitsFit
  <2>6. ASSUME NEW u \in Units PROVE Seen(u)' = Target(u)
    <3>1. CASE u \in Now
      BY <2>1, <2>5, <3>1, Enabled DEF Target
    <3>2. CASE u \notin Now
      <4>1. \A x : <<u, x>> \notin EnableNow(Now)
        BY <3>2 DEF EnableNow
      <4>2. Seen(u)' = Seen(u)
        BY <2>1, <4>1, Untouched
      <4> QED
        BY <2>5, <3>2, <4>2 DEF Target, Before
    <3> QED
      BY <3>1, <3>2
  <2>7. After'
    BY <2>4, <2>6 DEF After
  <2>8. UNCHANGED def /\ Still'
    BY <2>1, <2>3, Effects DEF Apply, Leave, Known, UnitsFit, Looking, Still
  <2>9. Running \subseteq Now /\ Applied'
    BY <2>2, <2>5, <2>8 DEF Running, Applied
  <2>10. SettingsFit'
    BY <2>1, <2>2, <2>3 DEF Known, SettingsFit, Forward, Restore
  <2> QED
    BY <2>1, <2>2, <2>3, <2>5, <2>7, <2>8, <2>9, <2>10 DEF Known, UnitsFit, Expected, Looking
<1>5. ASSUME RestartUnits PROVE Known'
  <2>1. /\ pc = "restart" /\ Apply(Restart(J.restart)) /\ UNCHANGED <<settings, S, upset>>
        /\ SameJournal /\ J'.phase = "external-applied" /\ pc' = "verify"
    BY <1>5, SavedSame DEF RestartUnits, Command, At, Step, Goto
  <2>2. Calm /\ Known
    BY <2>1 DEF Calm, Open, Explained, SameJournal
  <2>3. J.after # "none" /\ After /\ Applied /\ J.restart \subseteq Now
    BY <2>1, <2>2 DEF Known, UnitsFit
  <2>4. ASSUME NEW u \in Units PROVE Seen(u)' = Target(u)
    <3>1. CASE u \in J.restart
      <4>1. Target(u) = {"enabled", "active"}
        BY <2>3, <3>1 DEF Target
      <4>2. "enabled" \in Seen(u)
        BY <2>3, <4>1 DEF After
      <4> QED
        BY <2>1, <3>1, <4>1, <4>2, Restarted
    <3>2. CASE u \notin J.restart
      <4>1. \A x : <<u, x>> \notin Restart(J.restart)
        BY <3>2 DEF Restart
      <4> QED
        BY <2>1, <2>3, <4>1, Untouched DEF After
    <3> QED
      BY <3>1, <3>2
  <2>5. After'
    BY <2>1, <2>4, AimsKept DEF After
  <2>6. UNCHANGED def /\ Still'
    BY <2>1, <2>2, Effects DEF Apply, Leave, Known, UnitsFit, Looking, Still
  <2>7. Applied'
    BY <2>1, <2>3, <2>6 DEF Applied, SameJournal
  <2>8. SettingsFit'
    BY <2>1, <2>2 DEF Known, SettingsFit, SameJournal, Forward, Restore
  <2> QED
    BY <2>1, <2>2, <2>5, <2>6, <2>7, <2>8 DEF Known, UnitsFit, Expected, Looking, SameJournal
<1>6. ASSUME ArmRemoval PROVE Known'
  <2>1. /\ pc = "arm-removal" /\ SameJournal /\ J'.phase = "external-apply-armed"
        /\ pc' = "disable" /\ UNCHANGED <<def, enabled, act, settings, S, upset>>
    BY <1>6, SavedSame DEF ArmRemoval, Step, Goto, world, At
  <2>2. Calm /\ Known
    BY <2>1 DEF Calm, Open, Explained, SameJournal
  <2> QED
    BY <2>1, <2>2, Carried
    DEF Known, SettingsFit, UnitsFit, Expected, Looking, SameJournal, Forward, Restore
<1>7. ASSUME DisableUnits PROVE Known'
  <2>1. /\ pc = "disable" /\ UNCHANGED <<settings, S, J>> /\ pc' = "remove"
        /\ todo' = {u \in Units : J.before[u] # "none"}
    BY <1>7 DEF DisableUnits, At, Goto
  <2>2. Open
    BY <2>1 DEF Calm, Open
  <2>3. Apply(DisableNow(Units)) /\ Calm
    BY <1>7, <2>1, <2>2 DEF DisableUnits, Blame, Calm, Command
  <2>4. Known
    BY <2>3 DEF Explained
  <2>5. \A u \in Units : Seen(u)' = {} /\ Target(u)' = {}
    BY <2>1, <2>3, <2>4, Disabled DEF Known, UnitsFit, Target
  <2>6. UNCHANGED def /\ Still'
    BY <2>1, <2>3, <2>4, Effects DEF Apply, Leave, Known, UnitsFit, Looking, Still
  <2>7. After'
    BY <2>5 DEF After
  <2>8. SettingsFit'
    BY <2>1, <2>4 DEF Known, SettingsFit, Forward, Restore
  <2>9. \A u \in Units \ todo' : def'[u] = J'.after
    BY <2>1, <2>4, <2>6 DEF Known, UnitsFit
  <2> QED
    BY <2>1, <2>4, <2>6, <2>7, <2>8, <2>9 DEF Known, UnitsFit, Expected, Looking
<1>8. ASSUME Verify PROVE Known'
  <2>1. /\ pc = "verify" /\ UNCHANGED <<def, enabled, act, settings, S, upset>>
        /\ \/ SameJournal /\ J'.phase = "external-verified" /\ pc' = "replace" /\ UNCHANGED why
           \/ Undo /\ UNCHANGED J
    BY <1>8, SavedSame DEF Verify, world, At, Goto
  <2>2. Calm /\ Known
    BY <2>1 DEF Calm, Open, Explained, SameJournal
  <2>3. CASE SameJournal /\ J'.phase = "external-verified" /\ pc' = "replace"
    BY <2>1, <2>2, <2>3, Carried
    DEF Known, SettingsFit, UnitsFit, Expected, Looking, SameJournal, Forward, Restore
  <2>4. CASE Undo /\ UNCHANGED J
    BY <2>1, <2>2, <2>4, UndoKnown DEF Forward
  <2> QED
    BY <2>1, <2>3, <2>4
<1> QED
  BY <1>1, <1>2, <1>3, <1>4, <1>5, <1>6, <1>7, <1>8

LEMMA SettingsKnown ==
  ASSUME TypeOK, JournalFits, Explained, Calm'
  PROVE  /\ ReplaceSettings \/ CommitSettings \/ Finalize \/ SettingsUndo => Known'
         /\ \A k, c, o : ~BeginSettings(k, c, o)
<1>1. ASSUME ReplaceSettings PROVE Known'
  <2>1. /\ pc = "replace" /\ pc' = "commit" /\ settings' = S.after
        /\ UNCHANGED <<def, enabled, act, S, J, upset>>
    BY <1>1 DEF ReplaceSettings, Step, Goto, At, world
  <2>2. Calm /\ Known
    BY <2>1 DEF Calm, Open, Explained
  <2> QED
    BY <2>1, <2>2, Carried, JournalKept
    DEF Known, SettingsFit, UnitsFit, Expected, Looking, Forward, Restore
<1>2. ASSUME CommitSettings PROVE Known'
  <2>1. /\ pc = "commit" /\ UNCHANGED <<def, enabled, act, settings, J, upset>>
        /\ S' = [S EXCEPT !.status = "committed"]
    BY <1>2 DEF CommitSettings, At, world
  <2>2. Calm /\ Known
    BY <2>1 DEF Calm, Open, Explained
  <2>3. pc' = "finalize"
    BY <1>2, <2>1, <2>2 DEF CommitSettings, JournalFits, Calm, Step, Goto
  <2>4. S'.status = "committed" /\ S'.before = S.before /\ S'.after = S.after
    BY <2>1 DEF TypeOK
  <2>5. Applied /\ After
    BY <2>1, <2>2 DEF Known, UnitsFit
  <2> QED
    BY <2>1, <2>2, <2>3, <2>4, <2>5, Carried, JournalKept
    DEF Known, SettingsFit, UnitsFit, Expected, Looking, Forward, Restore
<1>3. ASSUME Finalize PROVE Known'
  <2>1. /\ pc = "finalize" /\ UNCHANGED <<def, enabled, act, settings, S>> /\ pc' = "idle"
    BY <1>3 DEF Finalize, Rest, At, world
  <2>2. ~Close("committed", "committed")
    BY DEF Close, NoJournal, Calm, Open
  <2>3. UNCHANGED <<J, upset>>
    BY <1>3, <2>2 DEF Finalize
  <2>4. Calm /\ Known
    BY <2>1, <2>3 DEF Calm, Open, Explained
  <2>5. \A u \in Units : Becoming(u) \subseteq Allowed(u)
    BY <2>1, <2>4, StateIsExpected DEF Known, MidRestore
  <2> QED
    BY <2>1, <2>3, <2>4, <2>5, Carried, JournalKept
    DEF Known, SettingsFit, UnitsFit, Expected, Looking, Forward, Restore
<1>4. ASSUME SettingsUndo PROVE Known'
  <2>1. /\ pc = "settings-undo" /\ UNCHANGED <<def, enabled, act, J>> /\ Compensate
        /\ \/ why = "cleanup" /\ pc' = "check" /\ UNCHANGED why
           \/ pc' = "idle"
    BY <1>4 DEF SettingsUndo, At, Step, Goto, Rest, world
  <2>2. Open
    BY <2>1 DEF Calm, Open
  <2>3. Calm /\ settings' = S.before /\ S' = [S EXCEPT !.status = "compensated"]
    BY <2>1, <2>2 DEF Compensate, Blame, Calm
  <2>4. S'.status = "compensated" /\ S'.before = S.before /\ S'.after = S.after
    BY <2>3 DEF TypeOK
  <2>5. Known
    BY <2>3 DEF Explained
  <2> QED
    BY <2>1, <2>3, <2>4, <2>5, Carried, JournalKept
    DEF Known, SettingsFit, UnitsFit, Expected, Looking, Forward, Restore
<1>5. ASSUME NEW k, NEW c, NEW o, BeginSettings(k, c, o) PROVE FALSE
  BY <1>5 DEF BeginSettings, JournalFits, At, Calm, Open
<1> QED
  BY <1>1, <1>2, <1>3, <1>4, <1>5

LEMMA RestoringKnown ==
  ASSUME TypeOK, JournalFits, Explained, Calm', Restoring
  PROVE  Known'
<1>1. ASSUME Check PROVE Known'
  <2>1. pc = "check" /\ Open /\ UNCHANGED <<def, enabled, act, settings, S>>
    BY <1>1 DEF Check, At, world, JournalFits, Restore
  <2>2. CASE Refuse /\ ~MarkConflict
    <3>1. UNCHANGED <<J, upset>> /\ GiveUp
      BY <2>2 DEF Refuse
    <3>2. Known
      BY <2>1, <3>1 DEF Calm, Explained
    <3>3. pc' = "idle" \/ (pc' = "settings-undo" /\ why = "undo")
      BY <3>1 DEF GiveUp, Goto, Rest
    <3>4. SettingsFit'
      BY <2>1, <3>1, <3>2, <3>3 DEF Known, SettingsFit, Forward, Restore
    <3>5. UnitsFit'
      BY <2>1, <3>1, <3>2, <3>3 DEF Known, UnitsFit, Looking
    <3>6. Expected'
      BY <2>1, <3>1, <3>2, <3>3, Carried, JournalKept DEF Known, Expected, Looking
    <3> QED
      BY <3>4, <3>5, <3>6 DEF Known
  <2>3. CASE (DefinitionConflict \/ RuntimeConflict) /\ MarkConflict
    <3>1. upset = {}
      BY <2>3 DEF MarkConflict, Calm
    <3>2. Known
      BY <2>1, <3>1 DEF Calm, Explained
    <3> QED
      BY <2>1, <2>3, <3>2, ConflictsExcluded, ConflictSeen
  <2>4. CASE ~(DefinitionConflict \/ RuntimeConflict)
    <3>1. /\ Mark("active", "compensation-armed") /\ pc' = "define-back"
          /\ UNCHANGED <<why, upset>>
      BY <1>1, <2>4 DEF Check, Goto
    <3>2. J'.status = "active" /\ J'.before = J.before /\ J'.after = J.after
      BY <3>1 DEF Mark, TypeOK
    <3>3. Known
      BY <2>1, <3>1 DEF Calm, Explained
    <3> QED
      BY <2>1, <3>1, <3>2, <3>3
      DEF Known, SettingsFit, UnitsFit, Expected, Looking, Forward, Restore
  <2> QED
    BY <1>1, <2>2, <2>3, <2>4 DEF Check
<1>2. ASSUME ReloadBack PROVE Known'
  <2>1. /\ pc = "define-back" /\ pc' = "disable-back" /\ UNCHANGED why
        /\ UNCHANGED <<def, enabled, act, settings, S, J, upset>>
    BY <1>2 DEF ReloadBack, Step, Goto, At, world
  <2>2. Calm /\ Known
    BY <2>1 DEF Calm, Open, Explained
  <2> QED
    BY <2>1, <2>2 DEF Known, SettingsFit, UnitsFit, Expected, Looking, Forward, Restore
<1>3. ASSUME NEW u \in Units, DefineBack(u) PROVE Known'
  <2>1. /\ pc = "define-back" /\ def' = [def EXCEPT ![u] = J.before[u]]
        /\ UNCHANGED <<enabled, act, settings, S, J, pc, why, upset>>
    BY <1>3 DEF DefineBack, At
  <2>2. Calm /\ Known
    BY <2>1 DEF Calm, Open, Explained
  <2>3. \A v \in Units : def'[v] \in {def[v], J.before[v]}
    BY <2>1 DEF TypeOK
  <2> QED
    BY <2>1, <2>2, <2>3 DEF Known, SettingsFit, UnitsFit, Expected, Looking, Forward, Restore
<1>4. ASSUME DisableBack PROVE Known'
  <2>1. /\ pc = "disable-back" /\ pc' = "revive" /\ todo' = Units
        /\ UNCHANGED <<settings, S, J, why>>
    BY <1>4 DEF DisableBack, At, Goto
  <2>2. Open
    BY <2>1 DEF Calm, Open
  <2>3. Apply(DisableNow(Units)) /\ Calm
    BY <1>4, <2>1, <2>2 DEF DisableBack, Blame, Calm, Command
  <2>4. Known
    BY <2>3 DEF Explained
  <2>5. \A u \in Units : Seen(u)' = {}
    BY <2>3, Disabled
  <2>6. UNCHANGED def /\ Still'
    <3>1. \A u \in Units : <<u, "stop">> \in DisableNow(Units)
      BY DEF DisableNow
    <3> QED
      BY <2>3, <3>1, Effects DEF Apply, Leave, Still
  <2> QED
    BY <2>1, <2>4, <2>5, <2>6 DEF Known, SettingsFit, UnitsFit, Expected, Looking, Forward, Restore
<1>5. ASSUME NEW u \in Units, Revive(u) PROVE Known'
  <2>1. /\ pc = "revive" /\ u \in todo /\ todo' = todo \ {u}
        /\ UNCHANGED <<settings, S, J, pc, why>>
    BY <1>5 DEF Revive, At
  <2>2. Open
    BY <2>1 DEF Calm, Open
  <2>3. Apply(Revival(u)) /\ Calm
    BY <1>5, <2>2 DEF Revive, Blame, Calm
  <2>4. Known
    BY <2>3 DEF Explained
  <2>5. ASSUME NEW v \in Units
        PROVE  Seen(v)' = (IF v \in todo \ {u} THEN {} ELSE Prior(v))
    <3>1. CASE v = u
      <4>1. Seen(u) = {}
        BY <2>1, <2>4 DEF Known, UnitsFit
      <4> QED
        BY <2>3, <3>1, <4>1, Revived
    <3>2. CASE v # u
      <4>1. \A x : <<v, x>> \notin Revival(u)
        BY <3>2 DEF Revival
      <4>2. Seen(v)' = Seen(v)
        BY <2>3, <4>1, Untouched
      <4> QED
        BY <2>1, <2>4, <3>2, <4>2 DEF Known, UnitsFit
    <3> QED
      BY <3>1, <3>2
  <2>6. \A v \in Units : Seen(v)' = (IF v \in todo' THEN {} ELSE Prior(v)')
    BY <2>1, <2>5, AimsKept, JournalKept
  <2>7. UNCHANGED def /\ Still'
    BY <2>1, <2>3, <2>4, Effects DEF Apply, Leave, Known, UnitsFit, Looking, Still
  <2> QED
    BY <2>1, <2>4, <2>6, <2>7 DEF Known, SettingsFit, UnitsFit, Expected, Looking, Forward, Restore
<1>6. ASSUME Compare PROVE FALSE
  <2>1. pc = "revive" /\ todo = {} /\ Open
    BY <1>6 DEF Compare, At, JournalFits, Restore
  <2>2. ~Close("compensated", "compensated")
    BY DEF Close, NoJournal, Calm, Open
  <2>3. Calm
    BY <1>6, <2>1, <2>2 DEF Compare, Calm
  <2>4. \A u \in Units : Seen(u) = Prior(u)
    BY <2>1, <2>3 DEF Explained, Known, UnitsFit
  <2> QED
    BY <1>6, <2>2, <2>4 DEF Compare
<1> QED
  BY <1>1, <1>2, <1>3, <1>4, <1>5, <1>6 DEF Restoring

LEMMA FaultsKnown ==
  ASSUME TypeOK, JournalFits, Explained, Calm'
  PROVE  /\ Control \/ ControlRefused => Known'
         /\ Raise \/ Kill \/ Bystander => Known'
<1>1. ASSUME Control \/ ControlRefused PROVE FALSE
  BY <1>1 DEF Control, ControlRefused, At, JournalFits, Calm, Open
<1>2. ASSUME Raise PROVE Known'
  <2>1. CutOff(Cuts) /\ UNCHANGED <<settings, S, J>> /\ Open
    BY <1>2 DEF Raise, Calm, Open
  <2>2. Calm /\ Known /\ ~MidRestore
    BY <1>2, <2>1 DEF Raise, BlameCut, Blame, Calm, Explained
  <2>3. CASE pc \in Forward /\ Undo
    BY <2>1, <2>2, <2>3, UndoKnown
  <2>4. CASE pc \notin Forward \/ ~Undo
    <3>1. /\ pc \in {"replace", "commit", "check"}
          /\ \/ pc' = "settings-undo" /\ (pc = "check" => why = "undo")
             \/ pc' = "idle"
      BY <1>2, <2>2, <2>4 DEF Raise, GiveUp, Goto, Rest, Forward, MidRestore
    <3>2. UNCHANGED def /\ \A u \in Units : Becoming(u)' \subseteq Allowed(u)'
      BY <2>1, <2>2, CutIsExpected, JournalKept DEF Known, CutOff, Leave
    <3>3. S.status # "committed" /\ (pc' = "settings-undo" => S.status = "active")
      BY <2>2, <3>1 DEF Known, SettingsFit, Restore, Forward
    <3>4. SettingsFit'
      BY <2>1, <2>2, <3>1, <3>3 DEF Known, SettingsFit, Forward, Restore
    <3>5. UnitsFit'
      BY <2>1, <2>2, <3>1, <3>2 DEF Known, UnitsFit, Looking
    <3> QED
      BY <3>2, <3>4, <3>5 DEF Known, Expected
  <2> QED
    BY <2>3, <2>4
<1>3. ASSUME Kill PROVE Known'
  <2>1. PICK E \in Cuts : \E T \in SUBSET (Starting(E) \cup Stopping(E)) : Leave(E, T)
    BY <1>3 DEF Kill, CutOff
  <2>2. UNCHANGED <<settings, S>> /\ pc' = "idle" /\ SameJournal /\ J'.phase = J.phase
    BY <1>3 DEF Kill, Rest, SameJournal, TypeOK
  <2>3. Calm /\ Known /\ ~MidRestore
    BY <1>3, <2>2 DEF Kill, BlameCut, Blame, Calm, Open, SameJournal, Explained
  <2>4. \A u \in Units : Becoming(u)' \subseteq Allowed(u)'
    BY <2>1, <2>2, <2>3, CutIsExpected DEF Known
  <2>5. UNCHANGED def
    BY <2>1 DEF Leave
  <2>6. S.status = "committed" => Applied' /\ After' /\ Still'
    <3>1. SUFFICES ASSUME S.status = "committed" PROVE Applied' /\ After' /\ Still'
      OBVIOUS
    <3>2. Applied /\ After /\ Still /\ pc \in {"idle", "units", "finalize"}
      BY <2>3, <3>1 DEF Known, SettingsFit
    <3>3. UNCHANGED <<def, enabled, act>>
      BY <2>1, <3>2, NothingToCut, NothingLeft
    <3> QED
      BY <2>2, <3>2, <3>3, Carried
  <2>7. SettingsFit'
    BY <2>2, <2>3, <2>6 DEF Known, SettingsFit, SameJournal, Forward, Restore
  <2>8. UnitsFit'
    BY <2>2, <2>3, <2>5 DEF Known, UnitsFit, Looking, SameJournal
  <2> QED
    BY <2>4, <2>7, <2>8 DEF Known, Expected
<1>4. ASSUME OwnerExits PROVE Known'
  <2>1. /\ SameJournal /\ J'.phase = J.phase
        /\ UNCHANGED <<def, enabled, act, settings, S, pc, todo, why, upset>>
    BY <1>4 DEF OwnerExits, SameJournal, TypeOK, world
  <2>2. Calm /\ Known /\ pc = "idle"
    BY <1>4, <2>1 DEF OwnerExits, At, SameJournal, Calm, Open, Explained
  <2> QED
    BY <2>1, <2>2, Carried
    DEF Known, SettingsFit, UnitsFit, Expected, Looking, SameJournal, Forward, Restore
<1>5. ASSUME NEW u \in Units, Crash(u) \/ Edit(u) \/ Meddle(u) PROVE FALSE
  BY <1>5 DEF Crash, Edit, Meddle, Blame, Calm, Open
<1>6. ASSUME NEW u \in Units, Settle(u) PROVE Known'
  <2>1. /\ act[u] \in Transit /\ act'[u] \in {"active", "inactive", "failed"}
        /\ act'[u] = "active" => act[u] = "activating"
        /\ \A v \in Units \ {u} : act'[v] = act[v]
        /\ UNCHANGED <<def, enabled, settings, S, J, pc, why, todo, upset>>
    BY <1>6 DEF Settle, TypeOK
  <2>2. Known
    BY <2>1 DEF Calm, Open, Explained
  <2>3. ~Still
    BY <2>1 DEF Still, Transit
  <2>4. SettingsFit'
    BY <2>1, <2>2, <2>3 DEF Known, SettingsFit, Forward, Restore
  <2>5. UnitsFit'
    BY <2>1, <2>2, <2>3 DEF Known, UnitsFit, Looking
  <2>6. \A v \in Units : Becoming(v)' \subseteq Becoming(v)
    <3>1. \A v \in Units \ {u} : Seen(v)' = Seen(v)
      BY <2>1, StateParts, SeenParts, SameParts DEF Seen
    <3>2. Seen(u)' = IF act'[u] = "active" THEN Seen(u) \cup {"active"} ELSE Seen(u)
      BY <2>1 DEF Seen, State, Transit
    <3> QED
      BY <2>1, <3>1, <3>2 DEF Becoming
  <2>7. Expected'
    BY <2>1, <2>2, <2>6, AllowedKept, JournalKept DEF Known, Expected
  <2> QED
    BY <2>4, <2>5, <2>7 DEF Known
<1> QED
  BY <1>1, <1>2, <1>3, <1>4, <1>5, <1>6 DEF Bystander

LEMMA ExplainedKept ==
  ASSUME TypeOK, JournalFits, Explained, [Next]_vars
  PROVE  Explained'
<1> SUFFICES ASSUME Calm' PROVE Known'
  BY DEF Explained
<1>1. CASE Next
  BY <1>1, BarrierKnown, CaptureKnown, ForwardKnown, SettingsKnown, RestoringKnown, FaultsKnown
  DEF Next, Session, Handoff, Kinds
<1>2. CASE UNCHANGED vars
  <2>1. Calm /\ Known
    BY <1>2 DEF vars, Calm, Open, Explained
  <2>2. UNCHANGED <<def, enabled, act, settings, S, J, pc, why, todo>>
    BY <1>2 DEF vars, world
  <2>3. SettingsFit'
    BY <2>1, <2>2, Carried, JournalKept DEF Known, SettingsFit, Forward, Restore
  <2>4. UnitsFit'
    <3>1. J.restart = J'.restart /\ \A u \in Units : Prior(u)' = Prior(u) /\ Seen(u)' = Seen(u)
      BY <2>2, AimsKept, JournalKept, SeenKept
    <3> QED
      BY <2>1, <2>2, <3>1, Carried, JournalKept DEF Known, UnitsFit
  <2>5. Expected'
    BY <2>1, <2>2, Carried, JournalKept DEF Known, Expected, Looking
  <2> QED
    BY <2>3, <2>4, <2>5 DEF Known
<1> QED
  BY <1>1, <1>2

(* Whatever dies or raises and wherever, a journal ends in conflict only if *)
(* somebody or something else had changed a unit, a failure was swallowed,  *)
(* a restoration was itself cut off, or systemd was still carrying out a    *)
(* job of the command that was cut off when it was looked at.               *)
THEOREM ConflictsAreExplained == Spec => []ConflictsHaveCauses
<1>1. Init => Explained
  BY DEF Init, Explained, Calm, Open, NoJournal
<1>2. Explained => ConflictsHaveCauses
  BY DEF Explained, Calm, Open, Known, SettingsFit, ConflictsHaveCauses
<1> QED
  BY <1>1, <1>2, ExplainedKept, AlwaysFits, PTL DEF Spec
=============================================================================
