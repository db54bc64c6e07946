--------------------------- MODULE UnitTransaction ---------------------------
(***************************************************************************)
(* Registering and removing systemd user units together with the Settings  *)
(* that record it: src/src/data_foundation/systemd_user.py, its caller     *)
(* service_manager.py and the parts of settings_transaction.py the two     *)
(* journals meet in.                                                       *)
(*                                                                         *)
(* A handoff opens a Settings journal, changes the units under a journal   *)
(* of their own, commits Settings and only then closes the unit journal.   *)
(* The Runtime guard lets one session run at a time, so one program        *)
(* counter describes it; systemctl dies with its caller (PR_SET_PDEATHSIG) *)
(* or after 30 seconds, but what it asked systemd for goes on.             *)
(* The Settings journal is one step per outcome, as AtomicSettings allows. *)
(*                                                                         *)
(* Left out: journals that cannot be read, backups of definitions,         *)
(* installers (which have an owner and no Settings journal), settings.json *)
(* edited by hand, and the gap between the second look at a definition and *)
(* its rename.                                                             *)
(***************************************************************************)
EXTENDS Naturals, FiniteSets

CONSTANTS
  Units,            \* the units of one service
  Now,              \* those to enable and start (UserUnit.enable_now)
  MaxFaults         \* kills, failures and meddlings

ASSUME UnitsTyped == Now \subseteq Units /\ IsFiniteSet(Units)
ASSUME BoundsTyped == MaxFaults \in Nat

(* "edited": a file without the managed header, which only users write.     *)
Contents == {"none", "old", "new", "edited"}
Transit == {"activating", "deactivating"}
Active == {"active", "inactive", "failed"} \cup Transit
Kinds == {"handoff", "save", "control"}

VARIABLES
  def,      \* the definition of each unit on disk
  enabled,  \* the enabled units
  act,      \* what `systemctl is-active` says
  runs,     \* the definition each running process was started from
  settings, \* claims: the definitions settings.json records; other: the rest
  S,        \* the last Settings journal
  J,        \* the last unit journal
  pc, kind, \* where the session that holds the Runtime guard is, and its task
  why,      \* what a restoration or a Settings compensation is part of
  todo,     \* the units the current loop has still to visit
  raced,    \* units edited between a restoration's look and its write
  upset,    \* what else has interfered since the journal began
  faults

world == <<def, enabled, act, runs>>
vars == <<def, enabled, act, runs, settings, S, J, pc, kind, why, todo, raced,
          upset, faults>>

NoSettings == [claims |-> "none", other |-> 0]
NoSave == [status |-> "none", before |-> NoSettings, after |-> NoSettings]
(* Nothing but the status of a closed journal is ever read again.           *)
NoJournal == [status |-> "none", phase |-> "none", before |-> [u \in Units |-> "none"],
              after |-> "none", wasEnabled |-> {}, wasActive |-> {}, restart |-> {},
              owned |-> FALSE]
Init ==
  /\ \E c \in {"none", "old"} :
       /\ def = [u \in Units |-> c]
       /\ settings = [claims |-> c, other |-> 0]
       /\ IF c = "none"
          THEN enabled = {} /\ act = [u \in Units |-> "inactive"]
          ELSE /\ enabled \in SUBSET Now
               /\ act \in [Units -> {"active", "inactive"}]
       /\ runs = [u \in Units |-> IF act[u] = "active" THEN c ELSE "none"]
  /\ S = NoSave
  /\ J = NoJournal
  /\ pc = "idle" /\ kind = "none" /\ why = "none" /\ todo = {}
  /\ raced = {} /\ upset = {} /\ faults = 0

At(label) == pc = label
Goto(label) == pc' = label /\ UNCHANGED kind
Fault == faults < MaxFaults /\ faults' = faults + 1
Save(phase) == J' = [J EXCEPT !.phase = phase]
(* Mutated form of Mark: the arguments are swapped.                         *)
MarkSwapped(status, phase) == J' = [J EXCEPT !.status = phase, !.phase = status]
Mark(status, phase) == J' = [J EXCEPT !.status = status, !.phase = phase]
Close(status, phase) == J' = [NoJournal EXCEPT !.status = status, !.phase = phase]
Open == J.status \in {"active", "conflict"}
Blame(cause) == upset' = IF Open THEN upset \cup {cause} ELSE {}
(* A conflict found while systemd is still at work on a unit.               *)
MarkConflict ==
  /\ Mark("conflict", "conflict")
  /\ upset' = IF \E u \in Units : act[u] \in Transit THEN upset \cup {"job"} ELSE upset
Rest == pc' = "idle" /\ kind' = "none" /\ why' = "none" /\ todo' = {}
Step(label) == Goto(label) /\ UNCHANGED <<why, todo>>

-----------------------------------------------------------------------------
(* systemctl --user, as systemd_user.py uses it.  A command is a set of     *)
(* effects; if it is cut off any of them may have been asked for, and units *)
(* that systemd is to start or to stop may still be on their way.           *)

Enable(U) == U \X {"enable"}
EnableNow(U) == U \X {"enable", "start"}
Restart(U) == U \X {"stop", "start"}
DisableNow(U) == U \X {"disable", "stop"}

Starting(E) ==
  {u \in Units : <<u, "start">> \in E /\ (act[u] # "active" \/ <<u, "stop">> \in E)}
Stopping(E) ==
  {u \in Units : /\ <<u, "stop">> \in E /\ <<u, "start">> \notin E
                 /\ act[u] \notin {"inactive", "failed"}}

(* Of the effects E, the units in T are not there yet.                      *)
Leave(E, T) ==
  /\ enabled' = (enabled \cup {u \in Units : <<u, "enable">> \in E})
                \ {u \in Units : <<u, "disable">> \in E}
  /\ act' = [u \in Units |->
       IF <<u, "start">> \in E THEN IF u \in T THEN "activating" ELSE "active"
       ELSE IF <<u, "stop">> \in E THEN IF u \in T THEN "deactivating" ELSE "inactive"
       ELSE act[u]]
  /\ runs' = [u \in Units |->
       IF u \in Starting(E) THEN def[u] ELSE IF act'[u] = "inactive" THEN "none" ELSE runs[u]]
  /\ UNCHANGED def

Apply(E) == Leave(E, {})
CutOff(Es) == \E E \in Es : \E T \in SUBSET (Starting(E) \cup Stopping(E)) : Leave(E, T)

(* `enable --now` or `start` of one unit, from its prior state.             *)
Revival(u) ==
  (IF u \in J.wasEnabled THEN {<<u, "enable">>} ELSE {}) \cup
  (IF u \in J.wasActive THEN {<<u, "start">>} ELSE {})

(* Mutated form of Command: running units are not restarted.                *)
CommandWithoutRestart(label) ==
  CASE label = "enable" -> EnableNow(Now)
    [] label = "restart" -> {}
    [] label \in {"disable", "disable-back"} -> DisableNow(Units)
    [] OTHER -> {}

Command(label) ==
  CASE label = "enable" -> EnableNow(Now)
    [] label = "restart" -> Restart(J.restart)
    [] label \in {"disable", "disable-back"} -> DisableNow(Units)
    [] OTHER -> {}

Cuts ==
  IF pc = "revive" THEN {{}} \cup UNION {SUBSET Revival(u) : u \in todo}
  ELSE SUBSET Command(pc)

-----------------------------------------------------------------------------
(* What a journal allows and wants.                                         *)

(* What is known of a unit is the set of what it is: enabled, active.       *)
State(u, on, up) ==
  (IF u \in on THEN {"enabled"} ELSE {}) \cup (IF u \in up THEN {"active"} ELSE {})

Prior(u) == State(u, J.wasEnabled, J.wasActive)
Target(u) ==
  IF J.after = "none" THEN {}
  ELSE IF u \in Now THEN {"enabled", "active"} ELSE Prior(u)
Seen(u) == State(u, enabled, {v \in Units : act[v] = "active"})

(* Mutated form of Allowed: a command cut half-way is not expected.         *)
AllowedUncut(u) ==
  CASE J.phase \in {"prior-captured", "definitions-applied"} -> {Prior(u)}
    [] OTHER -> {Target(u)}
Allowed(u) ==
  LET mixed == {s \in SUBSET (Prior(u) \cup Target(u)) : Prior(u) \cap Target(u) \subseteq s}
      stopped == {Target(u), Target(u) \ {"active"}}
  IN CASE J.phase \in {"external-apply-armed", "compensation-armed"} -> mixed
       [] J.phase \in {"prior-captured", "definitions-applied"} -> {Prior(u)}
       [] J.phase = "restart-armed" /\ u \in J.restart -> stopped
       [] J.phase = "external-applied" /\ J.after # "none" /\ u \in Now -> stopped
       [] OTHER -> {Target(u)}

DefinitionConflict == \E u \in Units : def[u] \notin {J.before[u], J.after}
RuntimeConflict ==
  \E u \in Units : act[u] \in Transit \/ Seen(u) \notin Allowed(u)

Desired ==
  \A u \in Units :
    /\ def[u] = J.after
    /\ act[u] \in {"active", "inactive"} /\ Seen(u) = Target(u)

-----------------------------------------------------------------------------
(* The barrier: Settings are recovered first, then the unit journal, whose  *)
(* outcome depends on them.                                                 *)

Start(k) ==
  /\ At("idle") /\ kind' = k
  /\ pc' = (IF k # "control" /\ S.status \in {"active", "incomplete"}
            THEN "settings" ELSE "units")
  /\ S' = IF S.status \in {"committed", "compensated"} /\ ~Open THEN NoSave ELSE S
  /\ UNCHANGED <<world, settings, J, why, todo, raced, upset, faults>>

(* A key that cannot be deleted leaves the journal open and the session out.*)
Compensate ==
  /\ settings' = S.before
  /\ \/ S' = [S EXCEPT !.status = "compensated"] /\ UNCHANGED <<upset, faults>>
     \/ S' = [S EXCEPT !.status = "incomplete"] /\ Fault /\ Blame("key")

(* Mutated form of RecoverSettings: the units are recovered first.          *)
RecoverSettingsLater ==
  /\ At("settings") /\ Step("units")
  /\ UNCHANGED <<world, settings, S, J, raced, upset, faults>>
RecoverSettings ==
  /\ At("settings") /\ Compensate
  /\ IF S'.status = "compensated" THEN Step("units") ELSE Rest
  /\ UNCHANGED <<world, J, raced>>

(* Mutated form of Verdict: the Settings journal is not looked at.          *)
VerdictByHash ==
  IF DefinitionConflict THEN "conflict"
  ELSE IF settings = S.after THEN IF Desired THEN "committed" ELSE "conflict"
  ELSE IF J.owned THEN "wait"
  ELSE IF settings # S.before \/ RuntimeConflict THEN "conflict" ELSE "restore"
Verdict ==
  IF DefinitionConflict \/ S.status = "incomplete" THEN "conflict"
  ELSE IF S.status = "active" \/ (S.status = "compensated" /\ J.owned) THEN "wait"
  ELSE IF S.status = "committed"
       THEN IF settings = S.after /\ Desired THEN "committed" ELSE "conflict"
  ELSE IF settings # S.before \/ RuntimeConflict THEN "conflict" ELSE "restore"

(* Mutated form of RecoverUnits: an open journal does not stop the session. *)
RecoverUnitsUnblocked ==
  /\ At("units") /\ Open
  /\ IF Verdict = "restore" THEN Goto("check") /\ why' = "recovery" /\ UNCHANGED <<J, todo>>
     ELSE Step("begin") /\ UNCHANGED J
  /\ UNCHANGED <<world, settings, S, raced, upset, faults>>
RecoverUnits ==
  /\ At("units") /\ Open
  /\ CASE Verdict = "restore" ->
            Goto("check") /\ why' = "recovery" /\ UNCHANGED <<J, todo>>
            /\ UNCHANGED upset
       [] Verdict = "committed" ->
            Step("begin") /\ Close("committed", "recovered-committed") /\ upset' = {}
       [] Verdict = "conflict" -> Rest /\ MarkConflict
       [] OTHER -> Rest /\ UNCHANGED <<J, upset>>
  /\ UNCHANGED <<world, settings, S, raced, faults>>

NothingToRecover ==
  /\ At("units") /\ ~Open /\ Step("begin")
  /\ UNCHANGED <<world, settings, S, J, raced, upset, faults>>

-----------------------------------------------------------------------------
(* The handoff, up to the commit of Settings.                               *)

(* A payload may equal what is there.  A handoff is a save that changes the *)
(* claims, any other save changes the rest.                                 *)
BeginSettings(k, claims, other) ==
  /\ At("begin") /\ kind = "save" /\ kind' = k
  /\ IF k = "save" THEN claims = settings.claims ELSE other = settings.other
  /\ S' = [status |-> "active", before |-> settings,
           after |-> [claims |-> claims, other |-> other]]
  /\ pc' = (IF k = "save" THEN "replace" ELSE "capture")
  /\ UNCHANGED <<world, settings, J, why, todo, raced, upset, faults>>

(* An unmanaged file or a state that cannot be restored is refused.         *)
Capture ==
  /\ At("capture")
  /\ IF \A u \in Units : def[u] # "edited" /\ act[u] \in {"active", "inactive"}
     THEN /\ J' = [status |-> "active", phase |-> "prior-captured", before |-> def,
                   after |-> S.after.claims, wasEnabled |-> enabled,
                   wasActive |-> {u \in Units : act[u] = "active"},
                   restart |-> {}, owned |-> TRUE]
          /\ upset' = {} /\ UNCHANGED why
          /\ IF S.after.claims = "none"
             THEN Goto("arm-removal") /\ UNCHANGED todo
             ELSE Goto("define") /\ todo' = Units
     ELSE Goto("settings-undo") /\ why' = "undo" /\ UNCHANGED <<J, todo, upset>>
  /\ UNCHANGED <<world, settings, S, raced, faults>>

Undo == Goto("check") /\ why' = "undo" /\ todo' = {}

(* _require_transaction_definition_before, then os.replace or unlink.       *)
Define(u) ==
  /\ pc \in {"define", "remove"} /\ u \in todo
  /\ IF def[u] = J.before[u]
     THEN def' = [def EXCEPT ![u] = J.after] /\ todo' = todo \ {u} /\ UNCHANGED <<pc, kind, why>>
     ELSE Undo /\ UNCHANGED def
  /\ UNCHANGED <<enabled, act, runs, settings, S, J, raced, upset, faults>>

Defined ==
  /\ pc \in {"define", "remove"} /\ todo = {}
  /\ Save(IF At("define") THEN "definitions-applied" ELSE "definitions-removed")
  /\ Step("reload")
  /\ UNCHANGED <<world, settings, S, raced, upset, faults>>

(* daemon-reload, and reset-failed for a removal.                           *)
Reload ==
  /\ At("reload")
  /\ IF J.after = "none"
     THEN Save("external-applied") /\ Step("verify")
     ELSE Save("external-apply-armed") /\ Step("enable")
  /\ UNCHANGED <<world, settings, S, raced, upset, faults>>

Running == Now \cap J.wasActive
EnableUnits ==
  /\ At("enable") /\ Apply(Command(pc))
  /\ IF Running # {}
     THEN J' = [J EXCEPT !.phase = "restart-armed", !.restart = Running] /\ Step("restart")
     ELSE Save("external-applied") /\ Step("verify")
  /\ UNCHANGED <<settings, S, raced, upset, faults>>

RestartUnits ==
  /\ At("restart") /\ Apply(Command(pc))
  /\ Save("external-applied") /\ Step("verify")
  /\ UNCHANGED <<settings, S, raced, upset, faults>>

ArmRemoval ==
  /\ At("arm-removal") /\ Save("external-apply-armed") /\ Step("disable")
  /\ UNCHANGED <<world, settings, S, raced, upset, faults>>

(* `disable --now` may report failure with a status that is accepted.       *)
DisableUnits ==
  /\ At("disable")
  /\ \/ Apply(Command(pc)) /\ UNCHANGED <<upset, faults>>
     \/ Fault /\ Blame("systemctl") /\ \E E \in Cuts : Apply(E)
  /\ Goto("remove") /\ todo' = {u \in Units : J.before[u] # "none"}
  /\ UNCHANGED <<settings, S, J, why, raced>>

Verify ==
  /\ At("verify")
  /\ IF /\ \A u \in Units : def[u] = J.after
        /\ \A u \in (IF J.after = "none" THEN Units ELSE Now) : Seen(u) = Target(u)
     THEN Save("external-verified") /\ Goto("replace") /\ UNCHANGED <<why, todo>>
     ELSE Undo /\ UNCHANGED J
  /\ UNCHANGED <<world, settings, S, raced, upset, faults>>

ReplaceSettings ==
  /\ At("replace") /\ settings' = S.after /\ Step("commit")
  /\ UNCHANGED <<world, S, J, raced, upset, faults>>

CommitSettings ==
  /\ At("commit") /\ S' = [S EXCEPT !.status = "committed"]
  /\ IF kind = "save" THEN Rest ELSE Step("finalize")
  /\ UNCHANGED <<world, settings, J, raced, upset, faults>>

(* If the units have drifted the journal stays open, for recovery to judge. *)
Finalize ==
  /\ At("finalize") /\ Rest
  /\ IF Desired THEN Close("committed", "committed") /\ upset' = {} ELSE UNCHANGED <<J, upset>>
  /\ UNCHANGED <<world, settings, S, raced, faults>>

(* An exception around the commit: Settings first, then the clean-up the    *)
(* handoff registered.                                                      *)
SettingsUndo ==
  /\ At("settings-undo") /\ Compensate
  /\ IF why = "cleanup" THEN Step("check") ELSE Rest
  /\ UNCHANGED <<world, J, raced>>

-----------------------------------------------------------------------------
(* _restore_systemd_transaction, for an undo, a clean-up or a recovery.     *)

GiveUp ==
  IF why = "undo" THEN Goto("settings-undo") /\ todo' = {} /\ UNCHANGED why
  ELSE Rest

Refuse ==
  /\ GiveUp
  /\ IF J.phase = "compensation-armed" \/ why = "cleanup" THEN UNCHANGED <<J, upset>>
     ELSE MarkConflict

Check ==
  /\ At("check")
  /\ IF DefinitionConflict \/ RuntimeConflict THEN Refuse
     ELSE /\ Mark("active", "compensation-armed")
          /\ Goto("define-back") /\ todo' = Units /\ UNCHANGED <<why, upset>>
  /\ UNCHANGED <<world, settings, S, raced, faults>>

DefineBack(u) ==
  /\ At("define-back") /\ u \in todo
  /\ def' = [def EXCEPT ![u] = J.before[u]] /\ todo' = todo \ {u}
  /\ UNCHANGED <<enabled, act, runs, settings, S, J, pc, kind, why, raced, upset, faults>>

ReloadBack ==
  /\ At("define-back") /\ todo = {} /\ Step("disable-back")
  /\ UNCHANGED <<world, settings, S, J, raced, upset, faults>>

DisableBack ==
  /\ At("disable-back")
  /\ \/ Apply(Command(pc)) /\ UNCHANGED <<upset, faults>>
     \/ Fault /\ Blame("systemctl") /\ CutOff(Cuts)
  /\ Goto("revive") /\ todo' = Units
  /\ UNCHANGED <<settings, S, J, why, raced>>

(* Here too a failure is ignored; the comparison that follows notices it.   *)
Revive(u) ==
  /\ At("revive") /\ u \in todo /\ todo' = todo \ {u}
  /\ \/ Apply(Revival(u)) /\ UNCHANGED <<upset, faults>>
     \/ Fault /\ Blame("systemctl") /\ CutOff(SUBSET Revival(u))
  /\ UNCHANGED <<settings, S, J, pc, kind, why, raced>>

Compare ==
  /\ At("revive") /\ todo = {}
  /\ IF \A u \in Units : Seen(u) = Prior(u)
     THEN /\ Close("compensated", "compensated") /\ upset' = {}
          /\ CASE why = "recovery" -> Goto("begin") /\ why' = "none" /\ UNCHANGED todo
               [] why = "undo" -> GiveUp
               [] OTHER -> Rest
     ELSE GiveUp /\ UNCHANGED <<J, upset>>
  /\ UNCHANGED <<world, settings, S, raced, faults>>

-----------------------------------------------------------------------------
(* control_user_units: start, stop or restart what is installed.            *)
Control ==
  /\ At("begin") /\ kind = "control" /\ Rest
  /\ \E E \in {Now \X {"stop"}, Now \X {"start"}, Restart(Now)} :
       /\ \A u \in Units : def[u] \in {"old", "new"}
       /\ E # Now \X {"stop"} => \A u \in Units : def[u] = settings.claims
       /\ \/ Apply(E) /\ UNCHANGED faults
          \/ Fault /\ CutOff(SUBSET E)
  /\ UNCHANGED <<settings, S, J, raced, upset>>

ControlRefused ==
  /\ At("begin") /\ kind = "control" /\ Rest
  /\ UNCHANGED <<world, settings, S, J, raced, upset, faults>>

-----------------------------------------------------------------------------
(* Faults and bystanders.                                                   *)

MidRestore == pc \in {"define-back", "disable-back", "revive"}
BlameCut == IF MidRestore THEN Blame("cut") ELSE UNCHANGED upset

(* A command, a write, a readiness check or a step of Settings raises.      *)
Raise ==
  /\ Fault
  /\ \/ /\ pc \in {"define", "remove", "reload", "enable", "restart", "disable", "verify"}
        /\ Undo
     \/ /\ pc \in {"replace", "commit"} /\ Goto("settings-undo")
        /\ why' = (IF kind = "handoff" THEN "cleanup" ELSE "none") /\ UNCHANGED todo
     \/ pc \in {"check", "define-back"} /\ GiveUp
  /\ BlameCut /\ CutOff(Cuts)
  /\ UNCHANGED <<settings, S, J, raced>>

(* The process of the session dies, and systemctl with it; systemd goes on  *)
(* with the jobs it has.                                                    *)
Kill ==
  /\ ~At("idle") /\ Fault /\ Rest
  /\ CutOff(Cuts)
  /\ J' = [J EXCEPT !.owned = @ /\ pc \in {"settings", "units", "begin", "capture"}]
  /\ BlameCut
  /\ UNCHANGED <<settings, S, raced>>

(* The process that made the journal ends after its session did.            *)
OwnerExits ==
  /\ At("idle") /\ J.owned /\ J' = [J EXCEPT !.owned = FALSE]
  /\ UNCHANGED <<world, settings, S, pc, kind, why, todo, raced, upset, faults>>

(* A service fails and systemd restarts it after RestartSec, or gives up.   *)
Crash(u) ==
  /\ act[u] = "active" /\ Fault /\ Blame("service")
  /\ act' = [act EXCEPT ![u] = "activating"]
  /\ UNCHANGED <<def, enabled, runs, settings, S, J, pc, kind, why, todo, raced>>

(* A unit arrives where it was going, or fails.                             *)
Settle(u) ==
  /\ act[u] \in Transit
  /\ \/ /\ act' \in {[act EXCEPT ![u] = "failed"]} \cup
                   IF act[u] = "deactivating" THEN {[act EXCEPT ![u] = "inactive"]} ELSE {}
        /\ runs' = [runs EXCEPT ![u] = "none"]
     \/ /\ act[u] = "activating" /\ act' = [act EXCEPT ![u] = "active"]
        /\ \E d \in {runs[u], def[u]} : runs' = [runs EXCEPT ![u] = d]
  /\ UNCHANGED <<def, enabled, settings, S, J, pc, kind, why, todo, raced, upset, faults>>

(* A user writes a unit file, or uses systemctl himself.                    *)
Edit(u) ==
  /\ def[u] # "edited" /\ Fault /\ Blame("user")
  /\ def' = [def EXCEPT ![u] = "edited"]
  /\ raced' = IF At("define-back") /\ u \in todo THEN raced \cup {u} ELSE raced
  /\ UNCHANGED <<enabled, act, runs, settings, S, J, pc, kind, why, todo>>

Meddle(u) ==
  /\ Fault /\ Blame("user")
  /\ \E E \in {Enable({u}), {<<u, "start">>}, DisableNow({u}), {<<u, "stop">>}} :
       Apply(E) /\ (def[u] = "none" => E \in {DisableNow({u}), {<<u, "stop">>}})
  /\ UNCHANGED <<settings, S, J, pc, kind, why, todo, raced>>

-----------------------------------------------------------------------------
Restoring ==
  \/ Check \/ ReloadBack \/ DisableBack \/ Compare
  \/ \E u \in Units : DefineBack(u) \/ Revive(u)
Handoff ==
  \/ \E k \in {"handoff", "save"}, c \in {"none", "old", "new"}, o \in {0, 1} :
       BeginSettings(k, c, o)
  \/ Capture \/ Defined \/ Reload \/ EnableUnits \/ RestartUnits
  \/ ArmRemoval \/ DisableUnits \/ Verify \/ ReplaceSettings
  \/ CommitSettings \/ Finalize \/ SettingsUndo
  \/ \E u \in Units : Define(u)
Session ==
  \/ RecoverSettings \/ RecoverUnits \/ NothingToRecover
  \/ Handoff \/ Restoring \/ Control \/ ControlRefused
Bystander ==
  \/ OwnerExits
  \/ \E u \in Units : Crash(u) \/ Settle(u) \/ Edit(u) \/ Meddle(u)
Next ==
  Session \/ Raise \/ Kill \/ Bystander \/ \E k \in {"save", "control"} : Start(k)

Spec == Init /\ [][Next]_vars

(* A session that began goes on; somebody saves Settings again and again    *)
(* (ensure_settings does on many reads); processes end some day.            *)
FairSpec ==
  /\ Spec
  /\ WF_vars(Session) /\ SF_vars(Start("save"))
  /\ SF_vars(OwnerExits) /\ \A u \in Units : WF_vars(Settle(u))

-----------------------------------------------------------------------------
Document == [claims : {"none", "old", "new"}, other : {0, 1}]
Phases == {"none", "prior-captured", "definitions-applied", "external-apply-armed",
           "restart-armed", "definitions-removed", "external-applied", "external-verified",
           "compensation-armed", "committed", "recovered-committed", "compensated", "conflict"}
Pcs == {"idle", "settings", "units", "begin", "capture", "define", "reload", "enable",
        "restart", "arm-removal", "disable", "remove", "verify", "replace", "commit",
        "finalize", "settings-undo", "check", "define-back", "disable-back", "revive"}

(* The types of the units, of Settings, of the journals and of the session. *)
TypeOK ==
  /\ def \in [Units -> Contents] /\ runs \in [Units -> Contents]
  /\ enabled \subseteq Units /\ act \in [Units -> Active]
  /\ settings \in Document
  /\ S \in [status : {"none", "active", "committed", "compensated", "incomplete"},
             before : Document, after : Document]
  /\ J \in [status : {"none", "active", "committed", "compensated", "conflict"},
             phase : Phases, before : [Units -> Contents], after : Contents,
             wasEnabled : SUBSET Units, wasActive : SUBSET Units,
             restart : SUBSET Units, owned : BOOLEAN]
  /\ pc \in Pcs /\ kind \in Kinds \cup {"none"}
  /\ why \in {"none", "recovery", "undo", "cleanup"}
  /\ todo \subseteq Units /\ raced \subseteq Units
  /\ upset \subseteq {"key", "systemctl", "service", "user", "cut", "job"} /\ faults \in 0..MaxFaults

(* While a unit journal is open Settings only move between the before and   *)
(* the after image of the transaction that opened it: no other save begins, *)
(* whoever died and wherever (_recover_linux_systemd_settings_barrier).     *)
SettingsHeld ==
  [][Open => /\ S'.before = S.before /\ S'.after = S.after
             /\ settings' \in {settings, S.before, S.after}]_vars

(* What a closed journal leaves behind runs what is installed: a unit that  *)
(* is to be running was started from the definition that is in place now,   *)
(* after a commit as after a compensation, however often either was begun.  *)
SettledRuns ==
  [][J'.status # J.status /\ J'.status \in {"committed", "compensated"}
     /\ upset \cap {"user", "systemctl"} = {} =>
       \A u \in Units :
         (u \in Now \/ J'.status = "compensated") /\ act'[u] = "active" =>
           runs'[u] = def'[u]]_vars

(* A kill or an exception at any step of a handoff is resolved without a    *)
(* human: a journal ends in conflict only if a user or a crashing service   *)
(* changed a unit, a failure was swallowed, a key could not be deleted, a   *)
(* restoration was cut off after it had disabled the units, or the undo or  *)
(* the recovery looked while systemd was still carrying out a job of the    *)
(* command that was cut off.                                                *)
ConflictsHaveCauses == J.status = "conflict" => upset # {}

(* Definitions and Settings change together, in one step, whatever is       *)
(* killed: units with an open journal count as before until the Settings    *)
(* journal commits and as after from then on.                               *)
Installed ==
  [u \in Units |->
     IF u \in raced THEN "lost"
     ELSE IF Open /\ def[u] \in {J.before[u], J.after}
          THEN IF S.status = "committed" THEN J.after ELSE J.before[u]
          ELSE def[u]]
Recorded == IF S.status \in {"active", "incomplete"} THEN S.before ELSE settings
Atomic == INSTANCE AtomicRegistration
            WITH installed <- Installed, claims <- Recorded.claims, other <- Recorded.other
ImplementsAtomicRegistration == Atomic!Spec

(* An interrupted handoff is closed in the end, or reported as a conflict.  *)
Resolves == J.status = "active" ~> J.status # "active"
=============================================================================
