--------------------------- MODULE UpdateArtifacts ---------------------------
(***************************************************************************)
(* The candidate directories of an update (reserve_candidate_artifact,     *)
(* promote_source_artifact, record_candidate) and their removal by a       *)
(* rollback (_remove_candidate_artifact).  A directory is made beside the  *)
(* journal with the owner's marker in it and renamed to its place; the     *)
(* source is renamed once more when it is built; recording a candidate     *)
(* takes its marker out.  A removal renames the directory next to the      *)
(* journal and deletes it there.  The validation runtime, built and        *)
(* removed in the same way and never pointed at, is left out.              *)
(***************************************************************************)
EXTENDS UpdateState

NoDisk == [at |-> "absent", marked |-> FALSE]
Rec(k) == J.art[k]
Put(k, place, mark) == disk' = [disk EXCEPT ![k] = [at |-> place, marked |-> mark]]

(* --------------------------- reserve-artifact -------------------------- *)
ReserveStep(k) ==
  LET c == IF k = "venv" THEN "reserve venv" ELSE "reserve source-temp" IN
  /\ UNCHANGED <<inst, locked, ptr, side, unit, marker, ledger, users>>
  /\ \/ /\ At(c, "start")
        /\ IF /\ J.status \in {"prepared", "candidate-staged"}
              /\ ~Rec(k).created /\ Rec(k).transfer # "done" /\ ~Rec(k).cleaned
              /\ disk[k].at # "path"
           THEN /\ Save([J EXCEPT !.art[k].reserving = TRUE])
                /\ Goto("authorized") /\ UNCHANGED disk
           ELSE Fail /\ UNCHANGED <<J, disk>>
     \/ At(c, "authorized") /\ Put(k, "staging", FALSE) /\ Goto("made") /\ UNCHANGED J
     \/ At(c, "made") /\ Put(k, "staging", TRUE) /\ Goto("marked") /\ UNCHANGED J
     \/ At(c, "marked") /\ Put(k, "path", TRUE) /\ Goto("renamed") /\ UNCHANGED J
     \/ /\ At(c, "renamed")
        /\ Save([J EXCEPT !.art[k].reserving = FALSE, !.art[k].created = TRUE])
        /\ Return /\ UNCHANGED disk

(* ------------------------ promote-source-artifact ---------------------- *)
PromoteSourceStep ==
  /\ UNCHANGED <<inst, locked, ptr, side, unit, marker, ledger, users>>
  /\ \/ /\ At("promote-source", "start")
        /\ IF /\ J.status \in {"prepared", "candidate-staged"}
              /\ Rec("source-temp").transfer # "done" /\ ~Rec("source").created
              /\ disk["source-temp"] = [at |-> "path", marked |-> TRUE]
              /\ disk["source"].at # "path"
           THEN /\ Save([J EXCEPT !.art["source"].created = TRUE,
                                  !.art["source"].transfer = "started"])
                /\ Goto("authorized") /\ UNCHANGED disk
           ELSE Fail /\ UNCHANGED <<J, disk>>
     \/ /\ At("promote-source", "authorized")
        /\ disk' = [disk EXCEPT !["source"] = disk["source-temp"],
                                !["source-temp"] = NoDisk]
        /\ Goto("renamed") /\ UNCHANGED J
     \/ /\ At("promote-source", "renamed")
        /\ Save([J EXCEPT !.art["source"].transfer = "no",
                          !.art["source-temp"].created = FALSE,
                          !.art["source-temp"].transfer = "done"])
        /\ Return /\ UNCHANGED disk

(* --------------------------- record-candidate -------------------------- *)
RecordStep(k) ==
  LET c == IF k = "venv" THEN "record venv" ELSE "record source" IN
  /\ UNCHANGED <<inst, locked, ptr, side, unit, marker, ledger, users>>
  /\ \/ /\ At(c, "start")
        /\ IF /\ J.status \in {"prepared", "candidate-staged"}
              /\ Rec(k).created
              /\ disk[k] = [at |-> "path", marked |-> TRUE]
           THEN /\ Save([J EXCEPT !.art[k].unmarked = TRUE])
                /\ Goto("authorized") /\ UNCHANGED disk
           ELSE Fail /\ UNCHANGED <<J, disk>>
     \/ At(c, "authorized") /\ Put(k, "path", FALSE) /\ Goto("unmarked") /\ UNCHANGED J
     \/ /\ At(c, "unmarked")
        /\ Save([J EXCEPT !.ready = @ \cup {k}, !.status = "candidate-staged",
                          !.gate = IF k = "source" THEN FALSE ELSE @])
        /\ Return /\ UNCHANGED disk

(* verify-migration-compatibility: the gate the service stop depends on.   *)
(* The release an upgrade replaces must know every migration applied so    *)
(* far, the candidate must in any case; the ledger is readable as long as  *)
(* nothing was applied beyond what was declared here.                      *)
MigrationStep ==
  /\ At("migration", "start")
  /\ UNCHANGED <<inst, locked, ptr, side, disk, unit, marker, users>>
  /\ IF /\ J.status = "candidate-staged" /\ CriticalStateHolds
        /\ "source" \in J.ready /\ disk["source"].at = "path"
        /\ J.mode = "repair" \/ J.prior["source"] # Gone
     THEN \/ /\ ledger = "readable" \/ J.mode = "repair"
             /\ Save([J EXCEPT !.gate = TRUE]) /\ Return
             /\ ledger' = "readable"
          \/ ledger # "readable" /\ Fail /\ UNCHANGED <<J, ledger>>
     ELSE Fail /\ UNCHANGED <<J, ledger>>

(* ---------------------- removal during a rollback ---------------------- *)
(* _verify_artifact_ownership for the directory that record k describes: a *)
(* reserved directory is identified by its inode, and by its marker until  *)
(* the marker was taken out on record                                      *)
Owned(k) == Rec(k).unmarked \/ disk[k].marked

Cleaned(j, k) ==
  [j EXCEPT !.art[k].created = FALSE, !.art[k].cleaned = TRUE, !.art[k].moving = FALSE]

NamedByPointer(k) ==
  \/ k = "source" /\ ptr["source"] = J.id
  \/ k = "venv" /\ ptr["venv"] = J.id

(* A reservation that was cut off: its directory is adopted where it is    *)
(* proven to be ours, and otherwise left behind unnamed.                   *)
ResumeReservation(k) ==
  /\ Rec(k).reserving
  /\ \/ /\ disk[k].at \in {"path", "staging"} /\ disk[k].marked
        /\ IF disk[k].at = "staging"
           THEN Put(k, "path", TRUE) /\ UNCHANGED J
           ELSE /\ Save([J EXCEPT !.art[k].reserving = FALSE, !.art[k].created = TRUE])
                /\ UNCHANGED disk
        /\ UNCHANGED h
     \/ /\ ~(disk[k].at \in {"path", "staging"} /\ disk[k].marked)
        /\ Save([J EXCEPT !.art[k].reserving = FALSE, !.art[k].cleaned = TRUE])
        /\ h' = [h EXCEPT !.todo = @ \ {k}] /\ UNCHANGED disk

RemoveFails == h' = [h EXCEPT !.todo = {}, !.err = TRUE] /\ UNCHANGED <<J, disk>>

RemoveArtifact(k) ==
  /\ ~Rec(k).reserving
  /\ \/ /\ ~Rec(k).created
        /\ IF disk[k].at \in {"path", "quarantine"} THEN RemoveFails
           ELSE h' = [h EXCEPT !.todo = @ \ {k}] /\ UNCHANGED <<J, disk>>
     \/ Rec(k).created /\ NamedByPointer(k) /\ RemoveFails
     \/ /\ Rec(k).created /\ ~NamedByPointer(k) /\ ~Rec(k).moving
        /\ CASE disk[k].at = "path" /\ Owned(k) ->
                  Save([J EXCEPT !.art[k].moving = TRUE]) /\ UNCHANGED <<disk, h>>
             [] disk[k].at \in {"absent", "staging"} ->
                  /\ Save(Cleaned(J, k)) /\ UNCHANGED disk
                  /\ h' = [h EXCEPT !.todo = @ \ {k}]
             [] OTHER -> RemoveFails
     \/ /\ Rec(k).created /\ ~NamedByPointer(k) /\ Rec(k).moving
        /\ CASE disk[k].at = "path" /\ Owned(k) ->
                  Put(k, "quarantine", disk[k].marked) /\ UNCHANGED <<J, h>>
             [] disk[k].at = "quarantine" /\ Owned(k) ->
                  \* shutil.rmtree: the marker may go long before the rest
                  /\ \E torn \in IF RmtreeIsAtomic THEN {FALSE} ELSE BOOLEAN :
                       IF torn THEN h' = [h EXCEPT !.pc = "removing"] /\ Put(k, "quarantine", FALSE)
                       ELSE disk' = [disk EXCEPT ![k] = NoDisk] /\ UNCHANGED h
                  /\ UNCHANGED J
             [] disk[k].at \in {"absent", "staging"} ->
                  /\ Save(Cleaned(J, k)) /\ UNCHANGED disk
                  /\ h' = [h EXCEPT !.todo = @ \ {k}]
             [] OTHER -> RemoveFails

(* _cleanup_candidate_artifacts works through the records from the last to *)
(* the first and gives up at the first error.                              *)
NextArtifact ==
  IF "venv" \in h.todo THEN "venv" ELSE IF "source-temp" \in h.todo THEN "source-temp" ELSE "source"

RemovalStep ==
  /\ UNCHANGED <<inst, locked, ptr, side, unit, marker, ledger, users>>
  /\ \/ /\ h.pc = "artifacts" /\ h.todo # {}
        /\ ResumeReservation(NextArtifact) \/ RemoveArtifact(NextArtifact)
     \/ /\ h.pc = "removing"
        /\ disk' = [disk EXCEPT ![NextArtifact] = NoDisk]
        /\ Goto("artifacts") /\ UNCHANGED J
==============================================================================
