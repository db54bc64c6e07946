--------------------------- MODULE UpdateProperties ---------------------------
(* What an update promises whatever interrupts it.                          *)
EXTENDS UpdateTransaction

Record == [reserving : BOOLEAN, created : BOOLEAN, unmarked : BOOLEAN,
           transfer : {"no", "started", "done"}, cleaned : BOOLEAN, moving : BOOLEAN]
Statuses == {"preparing", "prepared", "candidate-staged", "stopping", "stopped",
             "promoting", "promoted", "services-restored", "verified", "committed",
             "rolling-back", "rolled-back", "rollback-failed"}

(* The types of the installer, its helper, the journal and the world.       *)
TypeOK ==
  /\ J.id \in 0..MaxTx /\ J.status \in Statuses
  /\ J.mode \in {"upgrade", "repair", "source-only"}
  /\ J.prior \in [Pointers -> Releases]
  /\ {J.armed, J.back} \subseteq [Pointers -> BOOLEAN]
  /\ J.art \in [Artifacts -> Record] /\ J.ready \subseteq Pointers
  /\ J.inventory \subseteq Units /\ J.disabled \subseteq J.inventory
  /\ J.units \in [Units -> [act : Active, enabled : BOOLEAN]]
  /\ {J.gate, J.stopping, J.captured, J.bound, J.complete} \subseteq BOOLEAN
  /\ ptr \in [Pointers -> Releases] /\ side \in [Pointers -> Releases]
  /\ disk \in [Artifacts -> [at : {"absent", "staging", "path", "quarantine"},
                             marked : BOOLEAN]]
  /\ unit \in [Units -> [act : Active, enabled : BOOLEAN,
                         runs : (Releases \X Releases) \cup {Nobody}, stuck : BOOLEAN]]
  /\ marker \in 0..MaxTx /\ ledger \in {"readable", "undeclared"}
  /\ {locked, edited} \subseteq BOOLEAN /\ kind0 \in Kinds0
  /\ touched \subseteq Units \cup Pointers \cup {"reboot"}
  /\ report \in {"unknown", "updated", "repaired", "rolled back"}
  /\ faults \in 0..MaxFaults
  /\ inst.mode \in Modes \cup {"none"} /\ inst = NoInstaller => h = Idle
  /\ h.err \in BOOLEAN /\ h.todo \subseteq Units \cup Pointers \cup Artifacts

(* ------------------------------- safety -------------------------------- *)
Target == [p \in Pointers |-> IF p \in Only(J.mode) THEN J.id ELSE J.prior[p]]

(* While the two pointers name neither the old pair of releases nor the new *)
(* one, no managed unit runs that nobody else started and that systemctl    *)
(* stops when a rollback asks it to: not after a failed command, not while  *)
(* the rollback swaps them back.  A unit it does not stop runs on           *)
(* (rollback_state, 5781-5795, swaps the pointers under it all the same),   *)
(* but not in a repair, where no unit runs at all, even after the machine   *)
(* restarted: its units are disabled before they are stopped.               *)
QuietWhileMixed ==
  locked /\ Pointers \cap touched = {} /\ ptr \notin {J.prior, Target} =>
    \A u \in J.inventory \ touched :
      /\ J.mode = "repair" => unit[u].act # "active"
      /\ "reboot" \notin touched => unit[u].act # "active" \/ unit[u].stuck

RolledBack == J.id > 0 /\ J.status = "rolled-back"
Updated == J.status = "committed" /\ J.mode # "repair"
Repaired == J.status = "committed" /\ J.complete

(* However a transaction ended, and however many helpers died on the way,   *)
(* the pointers that nobody else set are the recorded ones or the candidate *)
(* ones, both; after a rollback no directory of the candidate is left in    *)
(* its place and no repair marker names it.                                 *)
SettledPointers ==
  /\ RolledBack => \A p \in Pointers \ touched : ptr[p] = J.prior[p]
  /\ RolledBack => marker # J.id /\ \A k \in Artifacts : disk[k].at \in {"absent", "staging"}
  /\ Updated \/ Repaired => \A p \in Pointers \ touched : ptr[p] = Target[p]

(* However it ended, each managed unit that nobody else changed is enabled  *)
(* and active exactly if it was before, and runs the installed releases     *)
(* (restore_services, restore_repair_services, _verify_prior_service_vector)*)
SettledUnits ==
  RolledBack \/ Updated \/ Repaired =>
    "reboot" \in touched \/
    \A u \in (IF J.mode = "repair" /\ ~RolledBack THEN Retained ELSE J.inventory) \ touched :
      /\ AsBefore(u)
      /\ J.stopping /\ Pointers \cap touched = {} /\ unit[u].act = "active" =>
           unit[u].runs = Pair

(* Both promises about the units: none runs in between, all are right after.*)
UnitsRunOnePair == QuietWhileMixed /\ SettledUnits

(* A committed repair whose configuration is pending keeps both the lock    *)
(* and its marker, so that nobody else changes the Runtime, and a marker    *)
(* never outlives the lock (recover, commit_repair, complete_repair).       *)
RepairFenced ==
  /\ PendingRepair => locked /\ marker = J.id /\ J.bound
  /\ marker # 0 => locked /\ marker = J.id /\ J.mode = "repair"

(* A release becomes the live one, for both pointers at once, only by a     *)
(* commit; until then, and whatever recovery has to do, the live one is the *)
(* old one.                                                                 *)
Live == IF locked /\ J.status # "committed" THEN J.prior ELSE ptr
Abstract == INSTANCE AtomicRelease WITH live <- Live, loose <- touched \cap Pointers
ImplementsAtomicRelease == Abstract!Spec

(* A commit is never taken back: no later command, of the same installer    *)
(* (which rolls back when its commit helper dies) or of another, moves a    *)
(* pointer or reopens the journal.                                          *)
CommittedStays ==
  [][J.status = "committed" /\ J'.id = J.id =>
       J'.status = "committed" /\ \A p \in Pointers \ touched' : ptr'[p] = ptr[p]]_vars

(* ------------------------------- liveness ------------------------------ *)
Torn == \E k \in Artifacts : disk[k].at = "quarantine" /\ ~Owned(k)
Conflict == touched \ {"reboot"} # {} \/ edited \/ ledger # "readable"

(* A restart of the machine started a unit that did not run before, or      *)
(* left one stopped that is not enabled, and the rollback will not touch    *)
(* it: units that ran are its own only once the stop is on record           *)
(* (rollback_state, _verify_prior_service_vector).                          *)
Displaced ==
  "reboot" \in touched /\
  \E u \in J.inventory :
    IF J.stopping THEN u \notin WasActive /\ unit[u].act # J.units[u].act ELSE ~AsBefore(u)

(* The lock of an interrupted update is released in the end: recovery gets  *)
(* through whatever was killed and whichever systemctl calls failed, unless *)
(* somebody else changed what it has to put back, a restart put a unit in   *)
(* another state than before, or the repair is committed and waits for its  *)
(* configuration.                                                           *)
Resolves == locked ~> (~locked \/ PendingRepair \/ Conflict \/ Displaced \/ Torn)

(* What an installer tells its user of a rollback is true.                  *)
RollbackIsReal ==
  report = "rolled back" => J.status = "rolled-back"
===============================================================================
