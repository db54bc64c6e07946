----------------------------- MODULE UpdateState -----------------------------
(***************************************************************************)
(* What an update of an installed Runtime works on, on Linux: the two      *)
(* pointers app/source and .venv, the directories a candidate release is   *)
(* built in, the managed systemd user units, the marker of an unfinished   *)
(* repair, the update lock, and the journal of the transaction that holds  *)
(* it.  The installer drives the transaction by one helper process per     *)
(* command (install/update_transaction.py); a helper reads the journal     *)
(* when it starts and saves it around every change, so its own memory      *)
(* differs from the journal only by what its next save writes.             *)
(* Installers are serialised by the Runtime mutation guard, which their    *)
(* helpers inherit, and a helper dies with its installer.                  *)
(***************************************************************************)
EXTENDS Naturals, FiniteSets

CONSTANTS
  Units,          \* the managed units that exist
  Before,         \* the states they may be in at first: a set of functions
  Inventories,    \* the sets of them an installer may find to manage
  Kinds0,         \* the kinds the pointers may have at first
  Modes,          \* what installers are asked to do
  Gone, Foreign,  \* a pointer that is missing, or that somebody else set
  Nobody,         \* the release of a unit that does not run
  UsersMeddle,    \* do users and candidates interfere?
  RmtreeIsAtomic, \* can a removal of a directory not stop half-way?
  MaxTx,          \* bound: transactions ever begun
  MaxFaults       \* bound: kills, failures, changes made by users

Pointers == {"source", "venv"}
Artifacts == {"source-temp", "source", "venv"}
Active == {"active", "inactive", "failed"}
Releases == 0..MaxTx \cup {Gone, Foreign}   \* release n was built by transaction n

ASSUME UpdateAssumption ==
  /\ {MaxTx, MaxFaults} \subseteq Nat
  /\ Gone \notin Nat /\ Foreign \notin Nat /\ Gone # Foreign
  /\ Nobody \notin (Releases \X Releases)
  /\ Units \cap (Pointers \cup {"reboot"}) = {}
  /\ Before \subseteq [Units -> [act : Active, enabled : BOOLEAN]]
  /\ Kinds0 \subseteq [Pointers -> {"symlink", "directory", "missing"}]
  /\ Inventories \subseteq SUBSET Units
  /\ Modes \subseteq {"upgrade", "repair", "source-only"}
  /\ {UsersMeddle, RmtreeIsAtomic} \subseteq BOOLEAN

VARIABLES
  inst,     \* the installer: the command it is about to run, what it was asked
  h,        \* its helper: the command, the place in it, what is left, errors
  locked,   \* app/.update-transaction.lock exists
  J,        \* the journal of the newest transaction
  ptr,      \* what each pointer names
  side,     \* what the transaction moved away: prior directories, swapped links
  disk,     \* the candidate directories: where each is, is its marker in it
  unit,     \* each unit: active state, enabled, the release it was started from,
            \* and (for the properties) that a rollback failed to stop it
  marker,   \* the transaction named by .repair-configuration-pending, 0: no file
  ledger,   \* may the prior release still read the database?
  edited,   \* settings.json differs from the snapshot in the journal
  kind0,    \* the kinds the pointers had at first
  touched,  \* the units and pointers users changed since the transaction
            \* began, and "reboot" if the machine restarted since then
  report,   \* what the last installer told its user about it
  faults

world == <<ptr, side, disk, unit, marker, ledger>>
users == <<edited, kind0, touched, report, faults>>
vars == <<inst, h, locked, J, world, users>>

NoInstaller == [at |-> "none", mode |-> "none"]
Idle == [cmd |-> "none", pc |-> "none", todo |-> {}, err |-> FALSE]
Pair == <<ptr["source"], ptr["venv"]>>
Kind(p, v) == IF v = Gone THEN "missing" ELSE IF v = 0 THEN kind0[p] ELSE "symlink"
Only(mode) == IF mode = "source-only" THEN {"source"} ELSE Pointers

(* --------------------------- the journal ------------------------------- *)
NoRecord == [reserving |-> FALSE, created |-> FALSE, unmarked |-> FALSE,
             transfer |-> "no", cleaned |-> FALSE, moving |-> FALSE]

Fresh(id, mode) ==
  [id |-> id, status |-> "preparing", mode |-> mode,
   prior |-> ptr, armed |-> [p \in Pointers |-> FALSE],
   back |-> [p \in Pointers |-> FALSE],            \* rollbackComplete
   art |-> [k \in Artifacts |-> NoRecord], ready |-> {}, gate |-> FALSE,
   inventory |-> {}, units |-> [u \in Units |-> [act |-> "inactive", enabled |-> FALSE]],
   stopping |-> FALSE, captured |-> FALSE, disabled |-> {},
   bound |-> FALSE, complete |-> FALSE]

NoJournal == [Fresh(0, "upgrade") EXCEPT !.status = "rolled-back"]

Terminal == {"committed", "rolled-back"}
PendingRepair == J.mode = "repair" /\ J.status = "committed" /\ ~J.complete

(* What every forward command checks first: settings.json is the one in    *)
(* the snapshot and, until the venv pointer is armed, that pointer is too. *)
CriticalStateHolds ==
  /\ ~edited
  /\ J.armed["venv"] \/ ptr["venv"] = J.prior["venv"]

LedgerHolds == J.gate /\ ledger = "readable"

ArtifactsHold ==
  \A k \in Only(J.mode) : J.art[k].created /\ disk[k].at = "path"

PointersAreCandidate == \A p \in Only(J.mode) : ptr[p] = J.id

(* ----------------------- the helper and its caller --------------------- *)
Save(j) == J' = j
Goto(l) == h' = [h EXCEPT !.pc = l]
GotoWith(l, todo) == h' = [h EXCEPT !.pc = l, !.todo = todo]
At(c, l) == h.cmd = c /\ h.pc = l

(* _repair_transaction_postcondition: what the installer reads off the     *)
(* journal, the pointers and the marker of a repair                        *)
Postcondition ==
  IF ~(J.mode = "repair" /\ J.status = "committed" /\ PointersAreCandidate
       /\ marker \in {0, J.id})
  THEN "unsafe"
  ELSE IF marker = 0 THEN IF J.complete THEN "complete" ELSE "unsafe"
  ELSE IF ~J.bound THEN "unsafe"
  ELSE IF J.complete THEN "cleanup-pending" ELSE "configuration-pending"

(* The command after c.                                                    *)
Following(c) ==
  CASE c = "recover" ->
         IF marker # 0
         THEN IF inst.mode = "repair"
                 /\ Postcondition \in {"configuration-pending", "cleanup-pending"}
              THEN "configure" ELSE "none"
         ELSE IF J.id < MaxTx THEN "begin" ELSE "none"
    [] c = "begin" -> "reserve source-temp"
    [] c = "reserve source-temp" -> "promote-source"
    [] c = "promote-source" -> "record source"
    [] c = "record source" -> "migration"
    [] c = "migration" -> IF J.mode = "source-only" THEN "stop" ELSE "reserve venv"
    [] c = "reserve venv" -> "record venv"
    [] c = "record venv" -> "stop"
    [] c = "stop" -> "capture"
    [] c = "capture" -> "promote"
    [] c = "promote" -> IF J.mode = "repair" THEN "commit-repair" ELSE "database"
    [] c = "commit-repair" -> "configure"
    [] c = "restore" -> "verify"
    [] c = "restore-repair" -> "complete"
    [] c = "verify" -> "commit"
    [] OTHER -> "none"

(* What the installer does when command c failed or its helper was killed. *)
AfterFailure(c) ==
  CASE c \in {"recover", "begin", "rollback", "restore-repair"} -> "none"
    [] c = "commit-repair" ->
         IF Postcondition = "configuration-pending" THEN "configure" ELSE "rollback"
    [] c = "complete" ->
         IF Postcondition \in {"complete", "cleanup-pending"} THEN "complete again" ELSE "none"
    [] c \in {"configure", "complete again"} -> "none"
    [] OTHER -> "rollback"

Told(c) ==
  CASE c = "commit" -> "updated"
    [] c \in {"complete", "complete again"} -> "repaired"
    [] c = "rollback" -> "rolled back"
    [] OTHER -> "unknown"

(* The helper ends; its exit status reaches the installer in a step of its *)
(* own, and a helper killed before that has failed for the installer.      *)
Return == Goto("returned")
Fail == Goto("failed")
Exit(next, told) ==
  /\ h' = Idle
  /\ inst' = IF next = "none" THEN NoInstaller ELSE [inst EXCEPT !.at = next]
  /\ report' = IF next = "none" THEN told ELSE report
==============================================================================
