-------------------------- MODULE UpdateTransaction --------------------------
(***************************************************************************)
(* An update of an installed Runtime: the commands of                      *)
(* install/update_transaction.py on Linux, one step per durable effect     *)
(* (a save of the journal, a rename, a systemctl call), the installer that *)
(* calls them in turn (install_linux.py), and what may happen meanwhile: a *)
(* helper or its installer is killed, the machine restarts, systemctl      *)
(* fails, a user changes the settings, a unit or a pointer.  Units are     *)
(* probed in one step, and gone through in an arbitrary fixed order.       *)
(***************************************************************************)
EXTENDS UpdateArtifacts

Init ==
  /\ kind0 \in Kinds0
  /\ ptr = [p \in Pointers |-> IF kind0[p] = "missing" THEN Gone ELSE 0]
  /\ side = [p \in Pointers |-> Gone]
  /\ disk = [k \in Artifacts |-> NoDisk]
  /\ \E b \in Before :
       /\ Gone \in {ptr["source"], ptr["venv"]} => \A u \in Units : b[u].act # "active"
       /\ unit = [u \in Units |->
                    [act |-> b[u].act, enabled |-> b[u].enabled,
                     runs |-> IF b[u].act = "active" THEN Pair ELSE Nobody,
                     stuck |-> FALSE]]
  /\ J = NoJournal /\ inst = NoInstaller /\ h = Idle /\ locked = FALSE
  /\ marker = 0 /\ ledger = "readable" /\ edited = FALSE /\ touched = {}
  /\ report = "unknown" /\ faults = 0

First(S) == CHOOSE x \in S : TRUE
Done(x) == h' = [h EXCEPT !.todo = @ \ {x}]
Spoil(x) == h' = [h EXCEPT !.todo = @ \ {x}, !.err = TRUE]

(* --------------------------- systemctl --user -------------------------- *)
Now(u, act, runs) ==
  [unit EXCEPT ![u].act = act, ![u].runs = runs, ![u].stuck = FALSE]
Stopped(u) == Now(u, "inactive", Nobody)
Broken(u) == Now(u, "failed", Nobody)
Started(u) ==
  IF Gone \in {ptr["source"], ptr["venv"]} THEN Broken(u) ELSE Now(u, "active", Pair)
Enabled(u, yes) == [unit EXCEPT ![u].enabled = yes]

WasActive == {u \in J.inventory : J.units[u].act = "active"}

(* Mutated form of WasEnabled: a unit that runs is stopped anyway.          *)
WasEnabledResting == {u \in J.inventory : J.units[u].enabled /\ J.units[u].act # "active"}

WasEnabled == {u \in J.inventory : J.units[u].enabled}
EnableExpected(u) == u \notin J.disabled /\ J.units[u].enabled
EnableAllowed(u) ==
  \/ unit[u].enabled = J.units[u].enabled
  \/ u \in J.disabled /\ ~unit[u].enabled
AsBefore(u) ==
  unit[u].enabled = J.units[u].enabled /\ unit[u].act = J.units[u].act

(* -------------------------------- begin -------------------------------- *)
BeginLock ==
  /\ At("begin", "start")
  /\ IF marker = 0 /\ ~locked
     THEN /\ Save(Fresh(J.id + 1, inst.mode)) /\ locked' = TRUE
          /\ side' = [p \in Pointers |-> Gone] /\ disk' = [k \in Artifacts |-> NoDisk]
          /\ touched' = {} /\ Goto("capture")
     ELSE Fail /\ UNCHANGED <<J, locked, side, disk, touched>>
  /\ UNCHANGED <<inst, ptr, unit, marker, ledger, edited, kind0, report, faults>>

(* A refused begin removes the lock and the journal it made.               *)
BeginCapture(inv) ==
  /\ At("begin", "capture")
  /\ IF \/ J.mode # "repair" /\ \E u \in inv : unit[u].act = "failed"
        \/ J.mode = "source-only" /\ ptr["venv"] = Gone
     THEN /\ Save([J EXCEPT !.status = "rolled-back"])
          /\ locked' = FALSE /\ Fail /\ UNCHANGED edited
     ELSE /\ Save([J EXCEPT !.prior = ptr, !.inventory = inv, !.status = "prepared",
                            !.units = [u \in Units |-> [act |-> unit[u].act,
                                                        enabled |-> unit[u].enabled]]])
          /\ edited' = FALSE /\ Return /\ UNCHANGED locked
  /\ UNCHANGED <<inst, world, kind0, touched, report, faults>>

(* ------------------------------ stop, capture -------------------------- *)
StopStep ==
  /\ h.cmd = "stop"
  /\ UNCHANGED <<inst, locked, ptr, side, disk, marker, ledger, users>>
  /\ \/ /\ h.pc = "start" /\ UNCHANGED unit
        /\ IF /\ J.status = "candidate-staged" /\ Only(J.mode) \subseteq J.ready
              /\ CriticalStateHolds /\ ArtifactsHold /\ LedgerHolds
              /\ \A u \in J.inventory : AsBefore(u)
           THEN IF J.inventory = {}
                THEN Save([J EXCEPT !.status = "stopped"]) /\ Return
                ELSE /\ Save([J EXCEPT !.status = "stopping", !.stopping = TRUE])
                     /\ GotoWith("isolate", IF J.mode = "repair" THEN WasEnabled ELSE {})
           ELSE Fail /\ UNCHANGED J
     \/ /\ h.pc = "isolate" /\ h.todo # {} /\ UNCHANGED unit
        /\ LET u == First(h.todo) IN
           IF unit[u].enabled
           THEN Save([J EXCEPT !.disabled = @ \cup {u}]) /\ Goto("disable")
           ELSE Fail /\ UNCHANGED J
     \/ /\ h.pc = "disable" /\ UNCHANGED J
        /\ LET u == First(h.todo) IN
           unit' = Enabled(u, FALSE) /\ GotoWith("isolate", h.todo \ {u})
     \/ /\ h.pc = "isolate" /\ h.todo = {} /\ UNCHANGED <<J, unit>>
        /\ GotoWith("stop", WasActive)
     \/ /\ h.pc = "stop" /\ h.todo # {} /\ UNCHANGED J
        /\ LET u == First(h.todo) IN unit' = Stopped(u) /\ Done(u)
     \/ /\ h.pc = "stop" /\ h.todo = {} /\ UNCHANGED unit
        /\ IF \A u \in J.inventory :
                /\ unit[u].enabled = EnableExpected(u) /\ unit[u].act # "active"
                /\ u \in WasActive \/ unit[u].act = J.units[u].act
           THEN Save([J EXCEPT !.status = "stopped"]) /\ Return
           ELSE Fail /\ UNCHANGED J

CaptureStep ==
  /\ At("capture", "start")
  /\ IF J.status = "stopped" /\ ~J.captured /\ CriticalStateHolds /\ LedgerHolds
     THEN Save([J EXCEPT !.captured = TRUE]) /\ Return
     ELSE Fail /\ UNCHANGED J
  /\ UNCHANGED <<inst, locked, world, users>>

(* ------------------------------- promote ------------------------------- *)
NextPointer == IF "source" \in h.todo THEN "source" ELSE "venv"
PriorKind(p) == Kind(p, J.prior[p])

PromoteStep ==
  /\ h.cmd = "promote"
  /\ UNCHANGED <<inst, locked, disk, unit, marker, ledger, users>>
  /\ \/ /\ h.pc = "start" /\ UNCHANGED <<ptr, side>>
        /\ IF /\ J.status = "stopped" /\ J.captured
              /\ CriticalStateHolds /\ LedgerHolds /\ ArtifactsHold
           THEN Save([J EXCEPT !.status = "promoting"]) /\ GotoWith("arm", Only(J.mode))
           ELSE Fail /\ UNCHANGED J
     \/ /\ h.pc = "arm" /\ h.todo # {} /\ UNCHANGED <<ptr, side>>
        /\ LET p == NextPointer IN
           IF /\ disk[p].at = "path"
              /\ (p = "venv" \/ PriorKind(p) = "symlink") => ptr[p] = J.prior[p]
           THEN /\ Save([J EXCEPT !.armed[p] = TRUE, !.back[p] = FALSE])
                /\ Goto(IF PriorKind(p) = "directory" THEN "move" ELSE "swap")
           ELSE Fail /\ UNCHANGED J
     \/ /\ h.pc = "move" /\ UNCHANGED J
        /\ LET p == NextPointer IN
           IF ptr[p] = Gone THEN Fail /\ UNCHANGED <<ptr, side>>
           ELSE /\ side' = [side EXCEPT ![p] = ptr[p]] /\ ptr' = [ptr EXCEPT ![p] = Gone]
                /\ Goto("swap")
     \/ /\ h.pc = "swap" /\ UNCHANGED J
        /\ LET p == NextPointer
               exchange == PriorKind(p) = "symlink" IN
           IF exchange # (ptr[p] # Gone) THEN Fail /\ UNCHANGED <<ptr, side>>
           ELSE /\ ptr' = [ptr EXCEPT ![p] = J.id]
                /\ side' = IF exchange THEN [side EXCEPT ![p] = ptr[p]] ELSE side
                /\ Goto(IF exchange /\ ptr[p] # J.prior[p] THEN "swap back" ELSE "swapped")
     \/ /\ h.pc = "swap back" /\ UNCHANGED J
        /\ LET p == NextPointer IN
           /\ ptr' = [ptr EXCEPT ![p] = side[p]] /\ side' = [side EXCEPT ![p] = ptr[p]]
           /\ Fail
     \/ /\ h.pc = "swapped" /\ UNCHANGED <<J, ptr, side>>
        /\ GotoWith("arm", h.todo \ {NextPointer})
     \/ /\ h.pc = "arm" /\ h.todo = {} /\ UNCHANGED <<ptr, side>>
        /\ Save([J EXCEPT !.status = "promoted"]) /\ Return

(* ----------------- restore-services, here and in a rollback ------------- *)
Rolling == h.cmd \in {"recover", "rollback"}

(* The restoring loop has failed or succeeded: the command's own end, or    *)
(* back to the rollback it is a part of.                                    *)
Restored ==
  /\ Save([J EXCEPT !.status = "services-restored"])
  /\ IF Rolling THEN Goto("finish") ELSE Return
NotRestored ==
  /\ h' = IF Rolling THEN [h EXCEPT !.pc = "finish", !.todo = {}, !.err = TRUE]
          ELSE [h EXCEPT !.pc = "failed"]
  /\ UNCHANGED J

RestoreStart ==
  /\ At("restore", "start")
  /\ IF /\ J.status = "promoted" /\ J.captured
        /\ CriticalStateHolds /\ LedgerHolds /\ ArtifactsHold
     THEN GotoWith("units", J.inventory) ELSE Fail
  /\ UNCHANGED <<inst, locked, J, world, users>>

RestoreStep ==
  /\ h.cmd \in {"restore", "recover", "rollback"}
  /\ UNCHANGED <<inst, locked, ptr, side, disk, marker, ledger, users>>
  /\ \/ /\ h.pc = "units" /\ h.todo # {}
        /\ LET u == First(h.todo) IN
           \/ /\ EnableAllowed(u) => u \notin WasActive /\ unit[u].act = "active"
              /\ NotRestored /\ UNCHANGED unit
           \/ /\ EnableAllowed(u) /\ u \in WasActive
              /\ UNCHANGED J
              /\ IF u \in J.disabled /\ ~unit[u].enabled
                 THEN unit' = Enabled(u, TRUE) /\ UNCHANGED h
                 ELSE /\ unit' = IF unit[u].act = "active" THEN unit ELSE Started(u)
                      /\ Done(u)
           \/ /\ EnableAllowed(u) /\ u \notin WasActive /\ unit[u].act # "active"
              /\ Done(u) /\ UNCHANGED <<J, unit>>
     \/ /\ h.pc = "units" /\ h.todo = {} /\ UNCHANGED <<J, unit>>
        /\ GotoWith("enable", J.disabled \ WasActive)
     \/ /\ h.pc = "enable" /\ h.todo # {} /\ UNCHANGED J
        /\ LET u == First(h.todo) IN unit' = Enabled(u, TRUE) /\ Done(u)
     \/ /\ h.pc = "enable" /\ h.todo = {} /\ UNCHANGED unit
        /\ IF \A u \in J.inventory : AsBefore(u) THEN Restored ELSE NotRestored

(* ---------------------------- verify, commit --------------------------- *)
VerifyStep ==
  /\ At("verify", "start")
  /\ IF /\ J.status = "services-restored" /\ CriticalStateHolds
        /\ PointersAreCandidate /\ ArtifactsHold /\ LedgerHolds
     THEN Save([J EXCEPT !.status = "verified"]) /\ Return
     ELSE Fail /\ UNCHANGED J
  /\ UNCHANGED <<inst, locked, world, users>>

CommitStep ==
  /\ At("commit", "start")
  /\ IF J.status = "verified" /\ CriticalStateHolds /\ ArtifactsHold /\ LedgerHolds
     THEN Save([J EXCEPT !.status = "committed"]) /\ Goto("unlock")
     ELSE Fail /\ UNCHANGED J
  /\ UNCHANGED <<inst, locked, world, users>>

Unlock ==
  /\ h.pc = "unlock" /\ locked' = FALSE /\ Return
  /\ UNCHANGED <<inst, J, world, users>>

(* --------------------- the three commands of a repair ------------------ *)
CommitRepairStep ==
  /\ h.cmd = "commit-repair"
  /\ UNCHANGED <<inst, locked, ptr, side, disk, unit, ledger, users>>
  /\ \/ /\ h.pc = "start" /\ UNCHANGED marker
        /\ IF /\ J.mode = "repair" /\ J.status = "promoted" /\ J.captured
              /\ J.inventory = {} \/ J.stopping
              /\ CriticalStateHolds /\ ArtifactsHold /\ LedgerHolds /\ PointersAreCandidate
              /\ \A u \in J.inventory :
                   unit[u].enabled = EnableExpected(u) /\ unit[u].act # "active"
              /\ marker = 0
           THEN Save([J EXCEPT !.complete = FALSE]) /\ Goto("planned")
           ELSE Fail /\ UNCHANGED J
     \/ h.pc = "planned" /\ marker' = J.id /\ Goto("written") /\ UNCHANGED J
     \/ /\ h.pc = "written" /\ UNCHANGED marker
        /\ Save([J EXCEPT !.bound = TRUE]) /\ Goto("bound")
     \/ /\ h.pc = "bound" /\ UNCHANGED marker
        /\ Save([J EXCEPT !.status = "committed"]) /\ Return

(* The units whose state is put back; a unit that had failed before is     *)
(* installed anew by the installer.                                        *)
Retained == {u \in J.inventory : J.units[u].act \in {"active", "inactive"}}

RestoreRepairStep ==
  /\ h.cmd = "restore-repair"
  /\ UNCHANGED <<inst, locked, J, ptr, side, disk, marker, ledger, users>>
  /\ \/ /\ h.pc = "start" /\ UNCHANGED unit
        /\ IF PendingRepair /\ PointersAreCandidate /\ marker = J.id /\ J.bound
           THEN GotoWith("disable", Retained) ELSE Fail
     \/ /\ h.pc = "disable" /\ h.todo # {}
        /\ unit' = Enabled(First(h.todo), FALSE) /\ Goto("enable")
     \/ /\ h.pc = "enable"
        /\ LET u == First(h.todo) IN unit' = Enabled(u, J.units[u].enabled)
        /\ Goto("run")
     \/ /\ h.pc = "run"
        /\ LET u == First(h.todo) IN
           /\ unit' = IF u \notin WasActive THEN Stopped(u)
                      ELSE IF unit[u].act = "active" THEN unit ELSE Started(u)
           /\ GotoWith("disable", h.todo \ {u})
     \/ /\ h.pc = "disable" /\ h.todo = {} /\ UNCHANGED unit
        /\ IF \A u \in Retained : AsBefore(u) THEN Return ELSE Fail

(* complete-repair, which recover runs as well                              *)
CompleteStep ==
  /\ UNCHANGED <<inst, locked, ptr, side, disk, unit, ledger, users>>
  /\ \/ /\ At("complete", "start") \/ At("recover", "complete")
        /\ UNCHANGED marker
        /\ IF ~(J.mode = "repair" /\ J.status = "committed" /\ J.bound
                /\ ArtifactsHold /\ PointersAreCandidate)
           THEN Fail /\ UNCHANGED J
           ELSE \/ /\ marker = 0 /\ J.complete /\ Goto("unlock") /\ UNCHANGED J
                \/ /\ marker = J.id
                   /\ Save([J EXCEPT !.complete = TRUE]) /\ Goto("clear")
                \/ /\ marker # J.id /\ ~(marker = 0 /\ J.complete)
                   /\ Fail /\ UNCHANGED J
     \/ /\ h.cmd \in {"complete", "recover"} /\ h.pc = "clear" /\ UNCHANGED J
        /\ IF marker = J.id /\ PointersAreCandidate
           THEN marker' = 0 /\ Goto("unlock")
           ELSE Fail /\ UNCHANGED marker

(* ------------------------- recover and rollback ------------------------ *)
(* Mutated form of RecoverStart: a committed repair is terminal.            *)
RecoverStartTerminal ==
  /\ At("recover", "start")
  /\ CASE ~locked -> Return
       [] locked /\ J.status \notin Terminal -> Goto("roll")
       [] OTHER -> Goto("unlock")
  /\ UNCHANGED <<inst, locked, J, world, users>>

(* Mutated form of RecoverStart: an unfinished promotion needs no rollback. *)
RecoverStartPromoted ==
  /\ At("recover", "start")
  /\ CASE ~locked \/ PendingRepair -> Return
       [] locked /\ J.mode = "repair" /\ J.status = "committed" /\ J.complete -> Goto("complete")
       [] locked /\ J.status \notin Terminal \cup {"promoting"} -> Goto("roll")
       [] OTHER -> Goto("unlock")
  /\ UNCHANGED <<inst, locked, J, world, users>>

(* Mutated form of RecoverStart: a failed rollback is for the operator.     *)
RecoverStartOnce ==
  /\ At("recover", "start")
  /\ CASE ~locked \/ PendingRepair -> Return
       [] locked /\ J.mode = "repair" /\ J.status = "committed" /\ J.complete -> Goto("complete")
       [] locked /\ J.status = "rollback-failed" -> Fail
       [] locked /\ J.status \notin Terminal \cup {"rollback-failed"} -> Goto("roll")
       [] OTHER -> Goto("unlock")
  /\ UNCHANGED <<inst, locked, J, world, users>>

RecoverStart ==
  /\ At("recover", "start")
  /\ CASE ~locked \/ PendingRepair -> Return
       [] locked /\ J.mode = "repair" /\ J.status = "committed" /\ J.complete -> Goto("complete")
       [] locked /\ J.status \notin Terminal -> Goto("roll")
       [] OTHER -> Goto("unlock")
  /\ UNCHANGED <<inst, locked, J, world, users>>

(* Mutated form of RollbackStart: a committed update is rolled back too.    *)
RollbackStartAlways ==
  /\ At("rollback", "start")
  /\ Goto(IF J.status = "rolled-back" THEN "unlock" ELSE "roll")
  /\ UNCHANGED <<inst, locked, J, world, users>>

RollbackStart ==
  /\ At("rollback", "start")
  /\ CASE J.status = "committed" -> Return
       [] J.status = "rolled-back" -> Goto("unlock")
       [] OTHER -> Goto("roll")
  /\ UNCHANGED <<inst, locked, J, world, users>>

(* rollback_state, its first half: the journal, the units                   *)
RollStart ==
  /\ Rolling /\ h.pc = "roll"
  /\ Save([J EXCEPT !.status = "rolling-back"])
  /\ GotoWith("halt", IF J.stopping THEN J.inventory ELSE {})
  /\ UNCHANGED <<inst, locked, world, users>>

HaltStep ==
  /\ Rolling /\ h.pc = "halt"
  /\ UNCHANGED <<inst, locked, J, ptr, side, disk, marker, ledger, users>>
  /\ \/ /\ h.todo # {}
        /\ LET u == First(h.todo) IN
           CASE ~EnableAllowed(u) -> Spoil(u) /\ UNCHANGED unit
             [] EnableAllowed(u) /\ u \in WasActive ->
                  /\ unit' = IF unit[u].act = "inactive" THEN unit ELSE Stopped(u)
                  /\ Done(u)
             [] OTHER -> /\ IF unit[u].act = J.units[u].act THEN Done(u) ELSE Spoil(u)
                         /\ UNCHANGED unit
     \/ /\ h.todo = {} /\ UNCHANGED unit
        /\ IF J.stopping /\ ~LedgerHolds
           THEN h' = [h EXCEPT !.pc = "files", !.err = TRUE]
           ELSE GotoWith("back", Pointers)

(* _restore_pointer: the venv first, then the source                        *)
BackPointer == IF "venv" \in h.todo THEN "venv" ELSE "source"

(* Mutated form of AlreadyPrior: what is not the candidate is the prior.    *)
AlreadyPriorLoosely(p) == ptr[p] # J.id

AlreadyPrior(p) ==
  CASE PriorKind(p) = "symlink" -> ptr[p] = J.prior[p]
    [] PriorKind(p) = "directory" ->
         ptr[p] # Gone /\ Kind(p, ptr[p]) = "directory" /\ side[p] = Gone
    [] OTHER -> ptr[p] = Gone

BackStep ==
  /\ Rolling /\ h.pc = "back"
  /\ UNCHANGED <<inst, locked, disk, unit, marker, ledger, users>>
  /\ \/ /\ h.todo # {}
        /\ LET p == BackPointer IN
           \/ /\ J.back[p] \/ ~J.armed[p]
              /\ Done(p) /\ UNCHANGED <<J, ptr, side>>
           \/ /\ J.armed[p] /\ ~J.back[p] /\ AlreadyPrior(p)
              /\ Save([J EXCEPT !.armed[p] = FALSE, !.back[p] = TRUE])
              /\ Done(p) /\ UNCHANGED <<ptr, side>>
           \/ /\ J.armed[p] /\ ~J.back[p] /\ ~AlreadyPrior(p) /\ UNCHANGED J
              /\ CASE ptr[p] = J.id ->
                        ptr' = [ptr EXCEPT ![p] = Gone] /\ UNCHANGED <<h, side>>
                   [] ptr[p] = Gone /\ PriorKind(p) = "symlink" ->
                        ptr' = [ptr EXCEPT ![p] = J.prior[p]] /\ UNCHANGED <<h, side>>
                   [] ptr[p] = Gone /\ PriorKind(p) = "directory" /\ side[p] # Gone ->
                        /\ ptr' = [ptr EXCEPT ![p] = side[p]]
                        /\ side' = [side EXCEPT ![p] = Gone] /\ UNCHANGED h
                   [] OTHER -> Spoil(p) /\ UNCHANGED <<ptr, side>>
     \/ /\ h.todo = {} /\ GotoWith("artifacts", Artifacts) /\ UNCHANGED <<J, ptr, side>>

(* The candidate directories are gone; the repair marker, then the units.   *)
FilesStep ==
  /\ Rolling /\ h.pc = "artifacts" /\ h.todo = {}
  /\ Goto("files") /\ UNCHANGED <<inst, locked, J, world, users>>

MarkerStep ==
  /\ Rolling /\ h.pc = "files"
  /\ marker' = IF J.mode = "repair" /\ marker = J.id THEN 0 ELSE marker
  /\ h' = [h EXCEPT !.pc = "resume", !.todo = {},
                    !.err = @ \/ edited \/ (J.mode = "repair" /\ marker \notin {0, J.id})]
  /\ UNCHANGED <<inst, locked, J, ptr, side, disk, unit, ledger, users>>

(* Mutated form of ResumeStep: the units are left stopped if no pointer was *)
(* touched.                                                                 *)
ResumeStepPointers ==
  /\ Rolling /\ h.pc = "resume"
  /\ IF J.stopping /\ \E p \in Pointers : J.back[p]
     THEN IF ~h.err /\ CriticalStateHolds THEN GotoWith("units", J.inventory)
          ELSE h' = [h EXCEPT !.pc = "finish", !.err = TRUE]
     ELSE Goto("finish")
  /\ UNCHANGED <<inst, locked, J, world, users>>

ResumeStep ==
  /\ Rolling /\ h.pc = "resume"
  /\ IF J.stopping
     THEN IF ~h.err /\ CriticalStateHolds THEN GotoWith("units", J.inventory)
          ELSE h' = [h EXCEPT !.pc = "finish", !.err = TRUE]
     ELSE h' = [h EXCEPT !.pc = "finish",
                         !.err = @ \/ \E u \in J.inventory : ~AsBefore(u)]
  /\ UNCHANGED <<inst, locked, J, world, users>>

FinishStep ==
  /\ Rolling /\ h.pc = "finish"
  /\ IF h.err THEN Save([J EXCEPT !.status = "rollback-failed"]) /\ Fail
     ELSE Save([J EXCEPT !.status = "rolled-back"]) /\ Goto("unlock")
  /\ UNCHANGED <<inst, locked, world, users>>

(* ------------------------------ the installer -------------------------- *)
Fault == faults < MaxFaults /\ faults' = faults + 1

StartInstaller ==
  /\ inst = NoInstaller /\ h = Idle
  /\ \E mode \in Modes : inst' = [at |-> "recover", mode |-> mode]
  /\ report' = "unknown"
  /\ UNCHANGED <<h, locked, J, world, edited, kind0, touched, faults>>

OwnSteps == {"configure", "database"}

RunHelper ==
  /\ inst # NoInstaller /\ inst.at \notin OwnSteps /\ h = Idle
  /\ h' = [Idle EXCEPT !.cmd = IF inst.at = "complete again" THEN "complete" ELSE inst.at,
                       !.pc = "start"]
  /\ UNCHANGED <<inst, locked, J, world, users>>

HelperExits ==
  /\ h.pc \in {"returned", "failed"}
  /\ IF h.pc = "returned" THEN Exit(Following(inst.at), Told(inst.at))
     ELSE Exit(AfterFailure(inst.at), "unknown")
  /\ UNCHANGED <<locked, J, world, edited, kind0, touched, faults>>

(* _initialize_database runs the candidate's migrations; a migration it     *)
(* did not declare would be the candidate's fault.                          *)
InitializeDatabase ==
  /\ inst.at = "database" /\ Exit("restore", "unknown")
  /\ \/ UNCHANGED <<ledger, faults>>
     \/ UsersMeddle /\ Fault /\ ledger' = "undeclared"
  /\ UNCHANGED <<locked, J, ptr, side, disk, unit, marker, edited, kind0, touched>>

(* _finish_committed_repair up to the retained units: the settings are      *)
(* migrated, the units that had failed are installed anew.                  *)
Configure ==
  /\ inst.at = "configure"
  /\ unit' \in {[u \in Units |-> IF u \in renewed THEN Started(u)[u] ELSE unit[u]] :
                  renewed \in SUBSET (J.inventory \ Retained)}
  /\ Exit(IF Retained # {} THEN "restore-repair" ELSE "complete", "unknown")
  /\ UNCHANGED <<locked, J, ptr, side, disk, marker, ledger, edited, kind0, touched, faults>>

(* A build, a health check or the doctor fails between two commands.        *)
InstallerFails ==
  /\ inst # NoInstaller /\ h = Idle /\ inst.at \notin {"recover", "begin", "rollback"}
  /\ Fault
  /\ Exit(AfterFailure(inst.at), "unknown")
  /\ UNCHANGED <<locked, J, world, edited, kind0, touched>>

(* --------------------------- what may go wrong ------------------------- *)
KillHelper ==
  /\ h # Idle /\ Fault /\ Exit(AfterFailure(inst.at), "unknown")
  /\ UNCHANGED <<locked, J, world, edited, kind0, touched>>

(* Mutated form of KillInstaller: its helper lives on.                      *)
KillInstallerAlone ==
  /\ inst # NoInstaller /\ Fault /\ inst' = NoInstaller /\ UNCHANGED h
  /\ UNCHANGED <<locked, J, world, edited, kind0, touched, report>>

KillInstaller ==
  /\ inst # NoInstaller /\ Fault /\ h' = Idle /\ inst' = NoInstaller
  /\ UNCHANGED <<locked, J, world, edited, kind0, touched, report>>

(* The user manager starts the enabled units, with what the pointers name.  *)
Reboot ==
  /\ Fault /\ h' = Idle /\ inst' = NoInstaller
  /\ unit' = [u \in Units |-> IF unit[u].enabled THEN Started(u)[u] ELSE Stopped(u)[u]]
  /\ touched' = touched \cup {"reboot"}
  /\ UNCHANGED <<locked, J, ptr, side, disk, marker, ledger, edited, kind0, report>>

(* A systemctl call fails, or the unit it starts does.  A rollback that     *)
(* cannot stop a unit records the error, skips the unit and goes on.        *)
SystemctlFails ==
  /\ h.todo # {} /\ Fault
  /\ LET u == First(h.todo) IN
     \/ /\ \/ h.cmd = "stop" /\ h.pc \in {"disable", "stop"}
           \/ h.cmd = "restore-repair" /\ h.pc \in {"disable", "enable", "run"}
        /\ Fail /\ UNCHANGED J
        /\ unit' \in IF h.pc = "run" /\ u \in WasActive THEN {unit, Broken(u)} ELSE {unit}
     \/ /\ h.pc \in {"units", "enable"} /\ EnableAllowed(u)
        /\ h.cmd \in {"restore", "recover", "rollback"}
        /\ h.pc = "units" => u \in WasActive /\ unit[u].act # "active"
        /\ NotRestored
        /\ unit' \in IF h.pc = "units" THEN {unit, Broken(u)} ELSE {unit}
     \/ /\ Rolling /\ h.pc = "halt" /\ EnableAllowed(u) /\ u \in WasActive
        /\ unit[u].act # "inactive"
        /\ Spoil(u) /\ UNCHANGED J
        /\ unit' \in {[unit EXCEPT ![u].stuck = unit[u].act = "active"], Stopped(u)}
  /\ UNCHANGED <<inst, locked, ptr, side, disk, marker, ledger,
                 edited, kind0, touched, report>>

Meddle == UsersMeddle /\ locked /\ Fault

EditSettings ==
  /\ Meddle /\ J.status # "preparing" /\ edited' = TRUE
  /\ UNCHANGED <<inst, h, locked, J, world, kind0, touched, report>>

ChangeUnit(u) ==
  /\ Meddle /\ touched' = touched \cup {u}
  /\ unit' \in {Started(u), Stopped(u), Broken(u), Enabled(u, ~unit[u].enabled)} \ {unit}
  /\ UNCHANGED <<inst, h, locked, J, ptr, side, disk, marker, ledger,
                 edited, kind0, report>>

Retarget(p) ==
  /\ Meddle /\ touched' = touched \cup {p}
  /\ \E v \in {Foreign, Gone} \ {ptr[p]} : ptr' = [ptr EXCEPT ![p] = v]
  /\ UNCHANGED <<inst, h, locked, J, side, disk, unit, marker, ledger,
                 edited, kind0, report>>

(* ----------------------------------------------------------------------- *)
HelperStep ==
  \/ BeginLock \/ (\E inv \in Inventories : BeginCapture(inv))
  \/ ReserveStep("source-temp") \/ PromoteSourceStep \/ RecordStep("source")
  \/ MigrationStep \/ ReserveStep("venv") \/ RecordStep("venv")
  \/ StopStep \/ CaptureStep \/ PromoteStep
  \/ RestoreStart \/ RestoreStep \/ VerifyStep \/ CommitStep \/ Unlock
  \/ CommitRepairStep \/ RestoreRepairStep \/ CompleteStep
  \/ RecoverStart \/ RollbackStart \/ RollStart \/ HaltStep \/ BackStep
  \/ (Rolling /\ RemovalStep)
  \/ FilesStep \/ MarkerStep \/ ResumeStep \/ FinishStep

InstallerStep == RunHelper \/ HelperExits \/ InitializeDatabase \/ Configure

Interruption ==
  \/ InstallerFails \/ KillHelper \/ KillInstaller \/ Reboot \/ SystemctlFails
  \/ EditSettings
  \/ \E u \in Units : ChangeUnit(u)
  \/ \E p \in Pointers : Retarget(p)

Next == HelperStep \/ InstallerStep \/ StartInstaller \/ Interruption

Spec == Init /\ [][Next]_vars

(* A helper and its installer run on; somebody starts another installer as  *)
(* long as one is needed.                                                   *)
FairSpec ==
  Spec /\ WF_vars(HelperStep) /\ WF_vars(InstallerStep) /\ WF_vars(StartInstaller)
==============================================================================
