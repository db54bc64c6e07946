----------------------------- MODULE UpdateProofs -----------------------------
(***************************************************************************)
(* Theorems about updates, for any number of transactions, units, kills,   *)
(* failures and interferences of users.                                    *)
(***************************************************************************)
EXTENDS UpdateProperties, TLAPS

-----------------------------------------------------------------------------
(* Types.                                                                  *)
Commands ==
  {"recover", "begin", "reserve source-temp", "promote-source", "record source", "migration",
   "reserve venv", "record venv", "stop", "capture", "promote", "commit-repair", "restore",
   "verify", "commit", "restore-repair", "complete", "rollback"}
Callers == Commands \cup OwnSteps \cup {"complete again", "none"}
ModeSet == {"upgrade", "repair", "source-only"}
UnitState == [act : Active, enabled : BOOLEAN]

Journal ==
  [id : 0..MaxTx, status : Statuses, mode : ModeSet, prior : [Pointers -> Releases],
   armed : [Pointers -> BOOLEAN], back : [Pointers -> BOOLEAN],
   art : [Artifacts -> Record], ready : SUBSET Pointers, gate : BOOLEAN,
   inventory : SUBSET Units, units : [Units -> UnitState],
   stopping : BOOLEAN, captured : BOOLEAN, disabled : SUBSET Units,
   bound : BOOLEAN, complete : BOOLEAN]

JournalTyped == J \in Journal /\ J.disabled \subseteq J.inventory

WorldTyped ==
  /\ ptr \in [Pointers -> Releases] /\ side \in [Pointers -> Releases]
  /\ disk \in [Artifacts -> [at : {"absent", "staging", "path", "quarantine"},
                             marked : BOOLEAN]]
  /\ unit \in [Units -> [act : Active, enabled : BOOLEAN,
                         runs : (Releases \X Releases) \cup {Nobody}, stuck : BOOLEAN]]
  /\ marker \in 0..MaxTx /\ ledger \in {"readable", "undeclared"}
  /\ locked \in BOOLEAN /\ edited \in BOOLEAN /\ kind0 \in Kinds0
  /\ touched \subseteq Units \cup Pointers \cup {"reboot"}
  /\ report \in {"unknown", "updated", "repaired", "rolled back"}
  /\ faults \in 0..MaxFaults

(* Where a helper may be after its start.                                  *)
Places ==
  {"arm", "artifacts", "authorized", "back", "bound", "capture", "clear", "complete", "disable",
   "enable", "failed", "files", "finish", "halt", "isolate", "made", "marked", "move", "planned",
   "removing", "renamed", "resume", "returned", "roll", "run", "stop", "swap", "swap back",
   "swapped", "units", "unlock", "unmarked", "written"}

(* A helper runs the command its installer is at.                          *)
CommandOf(at) == IF at = "complete again" THEN "complete" ELSE at
HelperTyped ==
  /\ inst = NoInstaller \/ inst \in [at : Callers \ {"none"}, mode : Modes]
  /\ h = Idle \/ /\ h \in [cmd : Commands, pc : Places \cup {"start"}, err : BOOLEAN,
                           todo : SUBSET (Units \cup Pointers \cup Artifacts)]
                 /\ inst # NoInstaller /\ h.cmd = CommandOf(inst.at)
  /\ inst.at = "begin" /\ h.pc \in {"none", "start"} => J.id < MaxTx

(* What it goes through.                                                   *)
TodoFits ==
  /\ h.pc \in {"isolate", "disable", "stop", "units", "enable", "run", "halt"}
       => h.todo \subseteq J.inventory
  /\ h.pc \in {"arm", "move", "swap", "swap back", "swapped"} => h.todo \subseteq Only(J.mode)
  /\ h.pc = "back" => h.todo \subseteq Pointers
  /\ h.pc = "capture" => J.disabled = {}
  /\ h.pc \in {"artifacts", "removing"} => h.todo \subseteq Artifacts
  /\ h.pc \in {"move", "swap", "swap back", "swapped", "run", "removing"} => h.todo # {}
  /\ h.pc = "disable" /\ h.cmd = "stop" => h.todo # {}
  /\ h.pc = "enable" /\ h.cmd = "restore-repair" => h.todo # {}
  /\ h.pc = "halt" => J.stopping \/ h.todo = {}

Typed == JournalTyped /\ WorldTyped /\ HelperTyped /\ TodoFits

LEMMA Constants ==
  /\ MaxTx \in Nat /\ Gone \notin Nat /\ Foreign \notin Nat /\ Gone # Foreign
  /\ 0..MaxTx \subseteq Releases /\ Gone \in Releases /\ Foreign \in Releases
  /\ Units \cap (Pointers \cup {"reboot"}) = {} /\ Modes \subseteq ModeSet
  BY UpdateAssumption DEF Releases, ModeSet

LEMMA FreshTyped ==
  ASSUME ptr \in [Pointers -> Releases], NEW id \in 0..MaxTx, NEW mode \in ModeSet
  PROVE  Fresh(id, mode) \in Journal /\ Fresh(id, mode).disabled = {}
<1>1. NoRecord \in Record
  BY DEF NoRecord, Record
<1>2. [act |-> "inactive", enabled |-> FALSE] \in UnitState
  BY DEF UnitState, Active
<1> QED
  BY <1>1, <1>2 DEF Fresh, Journal, Statuses

LEMMA InitTyped == Init => Typed
<1> SUFFICES ASSUME Init PROVE Typed
  OBVIOUS
<1>1. JournalTyped
  <2>1. ptr \in [Pointers -> Releases]
    BY Constants DEF Init
  <2>2. Fresh(0, "upgrade") \in Journal /\ Fresh(0, "upgrade").disabled = {}
    BY <2>1, FreshTyped, Constants DEF ModeSet
  <2>3. "rolled-back" \in Statuses
    BY DEF Statuses
  <2> QED
    BY <2>2, <2>3 DEF Init, NoJournal, JournalTyped, Journal
<1>2. WorldTyped
  <2>1. ptr \in [Pointers -> Releases] /\ side \in [Pointers -> Releases]
    BY Constants DEF Init
  <2>2. Pair \in Releases \X Releases
    BY <2>1 DEF Pair, Pointers
  <2>3. PICK b \in Before : unit = [u \in Units |->
                    [act |-> b[u].act, enabled |-> b[u].enabled,
                     runs |-> IF b[u].act = "active" THEN Pair ELSE Nobody,
                     stuck |-> FALSE]]
    BY DEF Init
  <2>4. b \in [Units -> UnitState]
    BY UpdateAssumption DEF UnitState
  <2>5. unit \in [Units -> [act : Active, enabled : BOOLEAN,
                            runs : (Releases \X Releases) \cup {Nobody}, stuck : BOOLEAN]]
    BY <2>2, <2>3, <2>4 DEF UnitState
  <2>6. kind0 \in Kinds0 /\ faults \in 0..MaxFaults /\ marker \in 0..MaxTx
    BY Constants, UpdateAssumption DEF Init
  <2>7. disk \in [Artifacts -> [at : {"absent", "staging", "path", "quarantine"},
                                marked : BOOLEAN]]
    BY DEF Init, NoDisk
  <2> QED
    BY <2>1, <2>5, <2>6, <2>7 DEF Init, WorldTyped
<1>3. HelperTyped /\ TodoFits
  BY DEF Init, HelperTyped, TodoFits, NoInstaller, Idle
<1> QED
  BY <1>1, <1>2, <1>3 DEF Typed

-----------------------------------------------------------------------------
(* Every step keeps the types.                                             *)
LEMMA Acting ==
  ASSUME Typed, h.cmd # "none"
  PROVE  /\ h \in [cmd : Commands, pc : Places \cup {"start"}, err : BOOLEAN,
                   todo : SUBSET (Units \cup Pointers \cup Artifacts)]
         /\ inst \in [at : Callers \ {"none"}, mode : Modes] /\ inst # NoInstaller
         /\ h.cmd = CommandOf(inst.at) /\ h.pc # "none"
         /\ inst.mode \in ModeSet
<1>1. h # Idle
  BY DEF Idle
<1>2. h \in [cmd : Commands, pc : Places \cup {"start"}, err : BOOLEAN,
             todo : SUBSET (Units \cup Pointers \cup Artifacts)]
      /\ inst # NoInstaller /\ h.cmd = CommandOf(inst.at)
  BY <1>1 DEF Typed, HelperTyped
<1>3. h.pc # "none"
  BY <1>2 DEF Places
<1>4. inst \in [at : Callers \ {"none"}, mode : Modes]
  BY <1>2 DEF Typed, HelperTyped
<1> QED
  BY <1>2, <1>3, <1>4, Constants

LEMMA Picked ==
  ASSUME NEW S, S # {}
  PROVE  First(S) \in S
  BY DEF First

(* A helper that goes on.                                                  *)
LEMMA GoesOn ==
  ASSUME Typed, h.cmd # "none", inst' = inst,
         h'.cmd = h.cmd, h'.pc \in Places, h'.err \in BOOLEAN,
         h'.todo \subseteq Units \cup Pointers \cup Artifacts,
         h' \in [cmd : {h'.cmd}, pc : {h'.pc}, err : {h'.err}, todo : {h'.todo}]
  PROVE  HelperTyped'
<1>1. h' \in [cmd : Commands, pc : Places \cup {"start"}, err : BOOLEAN,
              todo : SUBSET (Units \cup Pointers \cup Artifacts)]
  BY Acting
<1> QED
  BY <1>1, Acting DEF HelperTyped, Places

(* A helper that goes to another place, that ends, or that spoils one of   *)
(* what it goes through.                                                   *)
LEMMA GotoTyped ==
  ASSUME Typed, h.cmd # "none", inst' = inst, NEW l \in Places, Goto(l)
  PROVE  HelperTyped' /\ h'.pc = l /\ h'.cmd = h.cmd /\ h'.todo = h.todo /\ h'.err = h.err
<1>1. /\ h'.pc = l /\ h'.cmd = h.cmd /\ h'.todo = h.todo /\ h'.err = h.err
      /\ h' \in [cmd : {h'.cmd}, pc : {h'.pc}, err : {h'.err}, todo : {h'.todo}]
  BY Acting DEF Goto
<1> QED
  BY <1>1, GoesOn, Acting

LEMMA GotoWithTyped ==
  ASSUME Typed, h.cmd # "none", inst' = inst, NEW l \in Places,
         NEW todo \in SUBSET (Units \cup Pointers \cup Artifacts), GotoWith(l, todo)
  PROVE  HelperTyped' /\ h'.pc = l /\ h'.cmd = h.cmd /\ h'.todo = todo /\ h'.err = h.err
<1>1. /\ h'.pc = l /\ h'.cmd = h.cmd /\ h'.todo = todo /\ h'.err = h.err
      /\ h' \in [cmd : {h'.cmd}, pc : {h'.pc}, err : {h'.err}, todo : {h'.todo}]
  BY Acting DEF GotoWith
<1> QED
  BY <1>1, GoesOn, Acting

LEMMA DoneTyped ==
  ASSUME Typed, h.cmd # "none", inst' = inst, h.pc # "start", NEW x, Done(x) \/ Spoil(x)
  PROVE  HelperTyped' /\ h'.pc = h.pc /\ h'.cmd = h.cmd /\ h'.todo = h.todo \ {x}
<1>1. /\ h'.pc = h.pc /\ h'.cmd = h.cmd /\ h'.todo = h.todo \ {x} /\ h'.err \in BOOLEAN
      /\ h' \in [cmd : {h'.cmd}, pc : {h'.pc}, err : {h'.err}, todo : {h'.todo}]
  BY Acting DEF Done, Spoil
<1> QED
  BY <1>1, GoesOn, Acting

LEMMA FailTyped ==
  ASSUME Typed, h.cmd # "none", inst' = inst, NEW l \in Places,
         h' = [h EXCEPT !.pc = l, !.err = TRUE] \/ h' = [h EXCEPT !.pc = l, !.todo = {}, !.err = TRUE]
  PROVE  HelperTyped' /\ h'.pc = l /\ h'.cmd = h.cmd /\ h'.todo \subseteq h.todo
<1>1. /\ h'.pc = l /\ h'.cmd = h.cmd /\ h'.todo \subseteq h.todo /\ h'.err \in BOOLEAN
      /\ h' \in [cmd : {h'.cmd}, pc : {h'.pc}, err : {h'.err}, todo : {h'.todo}]
  BY Acting
<1> QED
  BY <1>1, GoesOn, Acting

LEMMA SameWorld ==
  ASSUME WorldTyped, UNCHANGED <<locked, world, users>>
  PROVE  WorldTyped'
  BY DEF WorldTyped, world, users

(* A journal saved with another status, flag or record.                    *)
LEMMA StatusTyped ==
  ASSUME JournalTyped, NEW s \in Statuses, J' = [J EXCEPT !.status = s]
  PROVE  JournalTyped'
  BY DEF JournalTyped, Journal

LEMMA FlagTyped ==
  ASSUME JournalTyped, NEW b \in BOOLEAN,
         \/ J' = [J EXCEPT !.captured = b] \/ J' = [J EXCEPT !.complete = b]
         \/ J' = [J EXCEPT !.bound = b] \/ J' = [J EXCEPT !.gate = b]
  PROVE  JournalTyped'
  BY DEF JournalTyped, Journal

LEMMA ArmingTyped ==
  ASSUME JournalTyped, NEW p \in Pointers, NEW a \in BOOLEAN, NEW b \in BOOLEAN,
         J' = [J EXCEPT !.armed[p] = a, !.back[p] = b]
  PROVE  JournalTyped'
  BY DEF JournalTyped, Journal

LEMMA RecordTyped ==
  ASSUME JournalTyped, NEW k \in Artifacts, NEW r \in Record, J' = [J EXCEPT !.art[k] = r]
  PROVE  JournalTyped'
  BY DEF JournalTyped, Journal

LEMMA BeginLockTyped == Typed /\ BeginLock => Typed'
<1> SUFFICES ASSUME Typed, BeginLock PROVE Typed'
  OBVIOUS
<1>1. h.cmd = "begin" /\ h.pc = "start" /\ h.cmd # "none" /\ inst' = inst
  BY DEF BeginLock, At
<1>2. inst.at = "begin" /\ J.id < MaxTx
  BY <1>1, Acting DEF Typed, HelperTyped, CommandOf
<1>3. J.id + 1 \in 0..MaxTx /\ inst.mode \in ModeSet
  BY <1>1, <1>2, Acting, Constants DEF Typed, JournalTyped, Journal
<1>4. Fresh(J.id + 1, inst.mode) \in Journal /\ Fresh(J.id + 1, inst.mode).disabled = {}
  BY <1>3, FreshTyped DEF Typed, WorldTyped
<1>5. CASE marker = 0 /\ ~locked
  <2>1. J' = Fresh(J.id + 1, inst.mode) /\ Goto("capture")
    BY <1>5 DEF BeginLock, Save
  <2>2. HelperTyped' /\ h'.pc = "capture"
    BY <2>1, <1>1, GotoTyped DEF Places
  <2>3. JournalTyped'
    BY <2>1, <1>4 DEF JournalTyped
  <2>4. WorldTyped'
    <3>1. side' \in [Pointers -> Releases] /\ disk' = [k \in Artifacts |-> NoDisk]
          /\ locked' = TRUE /\ touched' = {}
      BY <1>5, Constants DEF BeginLock
    <3>2. disk' \in [Artifacts -> [at : {"absent", "staging", "path", "quarantine"},
                                   marked : BOOLEAN]]
      BY <3>1 DEF NoDisk
    <3> QED
      BY <3>1, <3>2 DEF BeginLock, Typed, WorldTyped
  <2> QED
    BY <1>4, <2>1, <2>2, <2>3, <2>4 DEF Typed, TodoFits
<1>6. CASE ~(marker = 0 /\ ~locked)
  <2>1. Fail /\ UNCHANGED <<J, locked, side, disk, touched>>
    BY <1>6 DEF BeginLock
  <2>2. HelperTyped' /\ h'.pc = "failed"
    BY <2>1, <1>1, GotoTyped DEF Fail, Places
  <2>3. WorldTyped'
    BY <2>1 DEF BeginLock, Typed, WorldTyped
  <2> QED
    BY <2>1, <2>2, <2>3 DEF Typed, TodoFits, JournalTyped
<1> QED
  BY <1>5, <1>6

LEMMA BeginCaptureTyped ==
  ASSUME Typed, NEW inv \in Inventories, BeginCapture(inv)
  PROVE  Typed'
<1>1. h.cmd # "none" /\ inst' = inst
  BY DEF BeginCapture, At
<1>2. WorldTyped'
  BY DEF BeginCapture, Typed, WorldTyped, world
<1>3. HelperTyped' /\ h'.pc \in {"failed", "returned"}
  BY <1>1, GotoTyped DEF BeginCapture, Fail, Return, Places
<1>4. JournalTyped'
  <2>1. CASE J' = [J EXCEPT !.status = "rolled-back"]
    BY <2>1, StatusTyped DEF Typed, Statuses
  <2>2. CASE J' = [J EXCEPT !.prior = ptr, !.inventory = inv, !.status = "prepared",
                            !.units = [u \in Units |-> [act |-> unit[u].act,
                                                        enabled |-> unit[u].enabled]]]
             /\ J.disabled = {}
    <3>1. [u \in Units |-> [act |-> unit[u].act, enabled |-> unit[u].enabled]]
            \in [Units -> UnitState]
      BY DEF Typed, WorldTyped, UnitState
    <3>2. inv \in SUBSET Units /\ ptr \in [Pointers -> Releases] /\ "prepared" \in Statuses
      BY UpdateAssumption DEF Typed, WorldTyped, Statuses
    <3> HIDE DEF Statuses, Releases, UnitState, Pointers
    <3> QED
      BY <2>2, <3>1, <3>2 DEF Typed, JournalTyped, Journal
  <2> QED
    BY <2>1, <2>2 DEF BeginCapture, Save, At, Typed, TodoFits
<1> QED
  BY <1>2, <1>3, <1>4 DEF Typed, TodoFits

(* A helper that went to a place where it has nothing to go through.       *)
Plain ==
  {"authorized", "bound", "clear", "complete", "failed", "files", "finish", "made", "marked",
   "planned", "renamed", "resume", "returned", "roll", "unlock", "unmarked", "written"}

LEMMA GoesTyped ==
  ASSUME Typed, h.cmd # "none", inst' = inst, NEW l \in Plain, Goto(l),
         JournalTyped', WorldTyped'
  PROVE  Typed'
<1>1. l \in Places
  BY DEF Plain, Places
<1>2. HelperTyped' /\ h'.pc = l
  BY <1>1, GotoTyped
<1>3. TodoFits'
  BY <1>2 DEF TodoFits, Plain
<1> QED
  BY <1>2, <1>3 DEF Typed

LEMMA SameJournal ==
  ASSUME Typed, J' = J
  PROVE  JournalTyped'
  BY DEF Typed, JournalTyped

LEMMA RecTyped ==
  ASSUME Typed, NEW k \in Artifacts
  PROVE  Rec(k) \in Record
  BY DEF Typed, JournalTyped, Journal, Rec

LEMMA PutTyped ==
  ASSUME Typed, NEW k \in Artifacts,
         NEW place \in {"absent", "staging", "path", "quarantine"}, NEW mark \in BOOLEAN,
         Put(k, place, mark), UNCHANGED <<locked, ptr, side, unit, marker, ledger, users>>
  PROVE  WorldTyped'
<1>1. disk' \in [Artifacts -> [at : {"absent", "staging", "path", "quarantine"},
                               marked : BOOLEAN]]
  BY DEF Put, Typed, WorldTyped
<1> QED
  BY <1>1 DEF Typed, WorldTyped, users

LEMMA ReserveTyped ==
  ASSUME Typed, NEW k \in {"source-temp", "venv"}, ReserveStep(k)
  PROVE  Typed'
<1> DEFINE c == IF k = "venv" THEN "reserve venv" ELSE "reserve source-temp"
<1>1. /\ h.cmd = c /\ inst' = inst /\ k \in Artifacts
      /\ UNCHANGED <<locked, ptr, side, unit, marker, ledger, users>>
      /\ h.cmd # "none"
  BY DEF ReserveStep, At, Artifacts
<1>2. UNCHANGED disk => WorldTyped'
  BY <1>1, SameWorld DEF Typed, world
<1>3. CASE UNCHANGED <<J, disk>> /\ Fail
  BY <1>1, <1>2, <1>3, SameJournal, GoesTyped DEF Fail, Plain
<1>4. CASE UNCHANGED disk /\ Goto("authorized") /\ Save([J EXCEPT !.art[k].reserving = TRUE])
  <2>1. [Rec(k) EXCEPT !.reserving = TRUE] \in Record
    BY <1>1, RecTyped DEF Record
  <2>2. J' = [J EXCEPT !.art[k] = [Rec(k) EXCEPT !.reserving = TRUE]]
    BY <1>1, <1>4 DEF Save, Rec, Typed, JournalTyped, Journal, Record
  <2>3. JournalTyped'
    BY <1>1, <2>1, <2>2, RecordTyped DEF Typed
  <2> QED
    BY <1>1, <1>2, <1>4, <2>3, GoesTyped DEF Plain
<1>5. CASE UNCHANGED J /\ \/ Put(k, "staging", FALSE) /\ Goto("made")
                          \/ Put(k, "staging", TRUE) /\ Goto("marked")
                          \/ Put(k, "path", TRUE) /\ Goto("renamed")
  <2>1. WorldTyped'
    BY <1>1, <1>5, PutTyped
  <2> QED
    BY <1>1, <1>5, <2>1, SameJournal, GoesTyped DEF Plain
<1>6. CASE /\ UNCHANGED disk /\ Return
           /\ Save([J EXCEPT !.art[k].reserving = FALSE, !.art[k].created = TRUE])
  <2>1. [Rec(k) EXCEPT !.reserving = FALSE, !.created = TRUE] \in Record
    BY <1>1, RecTyped DEF Record
  <2>2. J' = [J EXCEPT !.art[k] = [Rec(k) EXCEPT !.reserving = FALSE, !.created = TRUE]]
    BY <1>1, <1>6 DEF Save, Rec, Typed, JournalTyped, Journal, Record
  <2>3. JournalTyped'
    BY <1>1, <2>1, <2>2, RecordTyped DEF Typed
  <2> QED
    BY <1>1, <1>2, <1>6, <2>3, GoesTyped DEF Plain, Return
<1> QED
  BY <1>3, <1>4, <1>5, <1>6 DEF ReserveStep

LEMMA PromoteSourceTyped == Typed /\ PromoteSourceStep => Typed'
<1> SUFFICES ASSUME Typed, PromoteSourceStep PROVE Typed'
  OBVIOUS
<1>1. /\ h.cmd # "none" /\ inst' = inst /\ "source" \in Artifacts /\ "source-temp" \in Artifacts
      /\ UNCHANGED <<locked, ptr, side, unit, marker, ledger, users>>
  BY DEF PromoteSourceStep, At, Artifacts
<1>2. UNCHANGED disk => WorldTyped'
  BY <1>1, SameWorld DEF Typed, world
<1>3. CASE UNCHANGED <<J, disk>> /\ Fail
  BY <1>1, <1>2, <1>3, SameJournal, GoesTyped DEF Fail, Plain
<1>4. CASE /\ UNCHANGED disk /\ Goto("authorized")
           /\ Save([J EXCEPT !.art["source"].created = TRUE,
                             !.art["source"].transfer = "started"])
  <2> DEFINE r == [Rec("source") EXCEPT !.created = TRUE, !.transfer = "started"]
  <2>1. r \in Record
    BY <1>1, RecTyped DEF Record
  <2>2. J' = [J EXCEPT !.art["source"] = r]
    BY <1>1, <1>4 DEF Save, Rec, Typed, JournalTyped, Journal, Record
  <2>3. JournalTyped'
    BY <1>1, <2>1, <2>2, RecordTyped DEF Typed
  <2> QED
    BY <1>1, <1>2, <1>4, <2>3, GoesTyped DEF Plain
<1>5. CASE /\ disk' = [disk EXCEPT !["source"] = disk["source-temp"], !["source-temp"] = NoDisk]
           /\ Goto("renamed") /\ UNCHANGED J
  <2>1. disk' \in [Artifacts -> [at : {"absent", "staging", "path", "quarantine"},
                                 marked : BOOLEAN]]
    BY <1>1, <1>5 DEF Typed, WorldTyped, NoDisk
  <2>2. WorldTyped'
    BY <1>1, <2>1 DEF Typed, WorldTyped, users
  <2> QED
    BY <1>1, <1>5, <2>2, SameJournal, GoesTyped DEF Plain
<1>6. CASE /\ UNCHANGED disk /\ Return
           /\ Save([J EXCEPT !.art["source"].transfer = "no",
                             !.art["source-temp"].created = FALSE,
                             !.art["source-temp"].transfer = "done"])
  <2> DEFINE r == [Rec("source") EXCEPT !.transfer = "no"]
             t == [Rec("source-temp") EXCEPT !.created = FALSE, !.transfer = "done"]
             art == [J.art EXCEPT !["source"] = r, !["source-temp"] = t]
  <2>1. r \in Record /\ t \in Record
    BY <1>1, RecTyped DEF Record
  <2>2. J' = [J EXCEPT !.art = art]
    BY <1>1, <1>6 DEF Save, Rec, Typed, JournalTyped, Journal, Record
  <2>3. art \in [Artifacts -> Record]
    <3> HIDE DEF r, t
    <3> QED
      BY <1>1, <2>1 DEF Typed, JournalTyped, Journal
  <2>4. JournalTyped'
    <3> HIDE DEF art
    <3> QED
      BY <2>2, <2>3 DEF Typed, JournalTyped, Journal
  <2> QED
    BY <1>1, <1>2, <1>6, <2>4, GoesTyped DEF Plain, Return
<1> QED
  BY <1>3, <1>4, <1>5, <1>6 DEF PromoteSourceStep

LEMMA RecordStepTyped ==
  ASSUME Typed, NEW k \in Pointers, RecordStep(k)
  PROVE  Typed'
<1>1. /\ h.cmd # "none" /\ inst' = inst /\ k \in Artifacts
      /\ UNCHANGED <<locked, ptr, side, unit, marker, ledger, users>>
  BY DEF RecordStep, At, Artifacts, Pointers
<1>2. UNCHANGED disk => WorldTyped'
  BY <1>1, SameWorld DEF Typed, world
<1>3. CASE UNCHANGED <<J, disk>> /\ Fail
  BY <1>1, <1>2, <1>3, SameJournal, GoesTyped DEF Fail, Plain
<1>4. CASE UNCHANGED disk /\ Goto("authorized") /\ Save([J EXCEPT !.art[k].unmarked = TRUE])
  <2>1. [Rec(k) EXCEPT !.unmarked = TRUE] \in Record
    BY <1>1, RecTyped DEF Record
  <2>2. J' = [J EXCEPT !.art[k] = [Rec(k) EXCEPT !.unmarked = TRUE]]
    BY <1>1, <1>4 DEF Save, Rec, Typed, JournalTyped, Journal, Record
  <2>3. JournalTyped'
    BY <1>1, <2>1, <2>2, RecordTyped DEF Typed
  <2> QED
    BY <1>1, <1>2, <1>4, <2>3, GoesTyped DEF Plain
<1>5. CASE UNCHANGED J /\ Put(k, "path", FALSE) /\ Goto("unmarked")
  <2>1. WorldTyped'
    BY <1>1, <1>5, PutTyped
  <2> QED
    BY <1>1, <1>5, <2>1, SameJournal, GoesTyped DEF Plain
<1>6. CASE /\ UNCHANGED disk /\ Return
           /\ Save([J EXCEPT !.ready = @ \cup {k}, !.status = "candidate-staged",
                             !.gate = IF k = "source" THEN FALSE ELSE @])
  <2>1. JournalTyped'
    BY <1>6 DEF Save, Typed, JournalTyped, Journal, Statuses
  <2> QED
    BY <1>1, <1>2, <1>6, <2>1, GoesTyped DEF Plain, Return
<1> QED
  BY <1>3, <1>4, <1>5, <1>6 DEF RecordStep

LEMMA MigrationTyped == Typed /\ MigrationStep => Typed'
<1> SUFFICES ASSUME Typed, MigrationStep PROVE Typed'
  OBVIOUS
<1>1. h.cmd # "none" /\ inst' = inst /\ UNCHANGED <<locked, ptr, side, disk, unit, marker, users>>
  BY DEF MigrationStep, At
<1>2. ledger' \in {"readable", "undeclared"} => WorldTyped'
  BY <1>1 DEF Typed, WorldTyped, users
<1>3. CASE ledger' = "readable" /\ Save([J EXCEPT !.gate = TRUE]) /\ Return
  <2>1. JournalTyped'
    BY <1>3, FlagTyped DEF Save, Typed
  <2> QED
    BY <1>1, <1>2, <1>3, <2>1, GoesTyped DEF Return, Plain
<1>4. CASE UNCHANGED <<J, ledger>> /\ Fail
  <2>1. WorldTyped' /\ JournalTyped'
    BY <1>2, <1>4, SameJournal DEF Typed, WorldTyped
  <2> QED
    BY <1>1, <1>4, <2>1, GoesTyped DEF Fail, Plain
<1> QED
  BY <1>3, <1>4 DEF MigrationStep

(* The steps that save a status or a flag of the journal, or nothing, and  *)
(* change nothing else but the marker and the lock.                        *)
LEMMA MarkedTyped ==
  ASSUME Typed, marker' \in {marker, 0, J.id}, locked' \in {locked, FALSE},
         UNCHANGED <<ptr, side, disk, unit, ledger, users>>
  PROVE  WorldTyped'
<1>1. J.id \in 0..MaxTx /\ 0 \in 0..MaxTx
  BY Constants DEF Typed, JournalTyped, Journal
<1>2. marker' \in 0..MaxTx /\ locked' \in BOOLEAN
  BY <1>1 DEF Typed, WorldTyped
<1> QED
  BY <1>2 DEF Typed, WorldTyped, users

LEMMA SimpleTyped ==
  ASSUME Typed, h.cmd # "none", inst' = inst, NEW l \in Plain, Goto(l),
         marker' \in {marker, 0, J.id}, locked' \in {locked, FALSE},
         UNCHANGED <<ptr, side, disk, unit, ledger, users>>,
         \/ J' = J
         \/ \E s \in Statuses : J' = [J EXCEPT !.status = s]
         \/ \E b \in BOOLEAN : \/ J' = [J EXCEPT !.captured = b] \/ J' = [J EXCEPT !.complete = b]
                               \/ J' = [J EXCEPT !.bound = b]
  PROVE  Typed'
<1>1. JournalTyped'
  BY SameJournal, StatusTyped, FlagTyped DEF Typed
<1> QED
  BY <1>1, MarkedTyped, GoesTyped

LEMMA SimplyTyped ==
  /\ Typed /\ CaptureStep => Typed'
  /\ Typed /\ VerifyStep => Typed'
  /\ Typed /\ CommitStep => Typed'
  /\ Typed /\ Unlock /\ h.cmd # "none" => Typed'
  /\ Typed /\ CommitRepairStep => Typed'
  /\ Typed /\ CompleteStep => Typed'
  /\ Typed /\ RecoverStart => Typed'
  /\ Typed /\ RollbackStart => Typed'
  /\ Typed /\ FinishStep => Typed'
  /\ Typed /\ FilesStep => Typed'
<1> USE DEF world, Save, Return, Fail
<1>0. /\ {"returned", "failed", "unlock", "planned", "written", "bound", "clear", "complete",
          "roll", "files"} \subseteq Plain
      /\ {"verified", "committed", "rolled-back", "rollback-failed"} \subseteq Statuses
      /\ TRUE \in BOOLEAN /\ FALSE \in BOOLEAN
  BY DEF Plain, Statuses
<1>1. Typed /\ CaptureStep => Typed'
  BY <1>0, SimpleTyped DEF CaptureStep, At
<1>2. Typed /\ VerifyStep => Typed'
  BY <1>0, SimpleTyped DEF VerifyStep, At
<1>3. Typed /\ CommitStep => Typed'
  BY <1>0, SimpleTyped DEF CommitStep, At
<1>4. Typed /\ Unlock /\ h.cmd # "none" => Typed'
  BY <1>0, SimpleTyped DEF Unlock
<1>5. Typed /\ CommitRepairStep => Typed'
  BY <1>0, SimpleTyped DEF CommitRepairStep
<1>6. Typed /\ CompleteStep => Typed'
  BY <1>0, SimpleTyped DEF CompleteStep, At
<1>7. Typed /\ RecoverStart => Typed'
  BY <1>0, SimpleTyped DEF RecoverStart, At
<1>8. Typed /\ RollbackStart => Typed'
  BY <1>0, SimpleTyped DEF RollbackStart, At
<1>9. Typed /\ FinishStep => Typed'
  BY <1>0, SimpleTyped DEF FinishStep, Rolling
<1>10. Typed /\ FilesStep => Typed'
  BY <1>0, SimpleTyped DEF FilesStep, Rolling
<1> QED
  BY <1>1, <1>2, <1>3, <1>4, <1>5, <1>6, <1>7, <1>8, <1>9, <1>10

(* A helper that goes through units or pointers.                           *)
LEMMA ThroughTyped ==
  ASSUME Typed, JournalTyped', WorldTyped', HelperTyped', TodoFits'
  PROVE  Typed'
  BY DEF Typed

UnitRows ==
  [Units -> [act : Active, enabled : BOOLEAN, runs : (Releases \X Releases) \cup {Nobody},
             stuck : BOOLEAN]]

LEMMA UnitTyped ==
  ASSUME Typed, NEW u \in Units
  PROVE  \A v \in {Stopped(u), Broken(u), Started(u), Enabled(u, TRUE), Enabled(u, FALSE),
                   Enabled(u, J.units[u].enabled), Enabled(u, ~unit[u].enabled),
                   [unit EXCEPT ![u].stuck = unit[u].act = "active"]} :
           v \in UnitRows
<1>1. Pair \in Releases \X Releases
  BY DEF Typed, WorldTyped, Pair, Pointers
<1>2. J.units[u].enabled \in BOOLEAN
  BY DEF Typed, JournalTyped, Journal, UnitState
<1>3. unit \in UnitRows
  BY DEF Typed, WorldTyped, UnitRows
<1> HIDE DEF Releases
<1>4. Stopped(u) \in UnitRows
  BY <1>3 DEF Stopped, Now, Active, UnitRows
<1>5. Broken(u) \in UnitRows
  BY <1>3 DEF Broken, Now, Active, UnitRows
<1>6. Started(u) \in UnitRows
  <2>1. Now(u, "active", Pair) \in UnitRows
    BY <1>1, <1>3 DEF Now, Active, UnitRows
  <2> QED
    BY <1>5, <2>1 DEF Started
<1>7. \A b \in BOOLEAN :
        Enabled(u, b) \in UnitRows
  BY <1>3 DEF Enabled, UnitRows
<1>8. [unit EXCEPT ![u].stuck = unit[u].act = "active"] \in UnitRows
  <2>1. (unit[u].act = "active") \in BOOLEAN
    OBVIOUS
  <2> QED
    BY <1>3, <2>1 DEF UnitRows
<1> QED
  BY <1>2, <1>3, <1>4, <1>5, <1>6, <1>7, <1>8

(* A step of a helper that changes at most the state of units.             *)
LEMMA UnitWorldTyped ==
  ASSUME Typed, NEW u \in Units,
         unit' \in {unit, Stopped(u), Broken(u), Started(u), Enabled(u, TRUE), Enabled(u, FALSE),
                    Enabled(u, J.units[u].enabled), Enabled(u, ~unit[u].enabled)},
         UNCHANGED <<locked, ptr, side, disk, marker, ledger, edited, kind0>>,
         touched' \subseteq Units \cup Pointers \cup {"reboot"},
         report' \in {"unknown", "updated", "repaired", "rolled back"},
         faults' \in 0..MaxFaults
  PROVE  WorldTyped'
<1>1. unit' \in UnitRows
  <2>1. unit \in UnitRows
    BY DEF Typed, WorldTyped, UnitRows
  <2> QED
    BY <2>1, UnitTyped
<1> QED
  BY <1>1 DEF Typed, WorldTyped, UnitRows

(* What the helper goes through is made of units of the inventory.         *)
LEMMA UnitSets ==
  ASSUME Typed
  PROVE  /\ J.inventory \subseteq Units /\ J.disabled \subseteq J.inventory
         /\ WasActive \subseteq J.inventory /\ WasEnabled \subseteq J.inventory
         /\ Retained \subseteq J.inventory
  BY DEF Typed, JournalTyped, Journal, WasActive, WasEnabled, Retained

(* A helper that goes through units of the inventory.                      *)
LEMMA UnitsTyped ==
  ASSUME Typed, h.cmd # "none", inst' = inst, JournalTyped', WorldTyped',
         NEW l \in {"isolate", "disable", "stop", "units", "enable", "run", "halt"},
         NEW todo \in SUBSET J.inventory, GotoWith(l, todo), J'.inventory = J.inventory,
         l = "run" => todo # {}, l = "disable" /\ h.cmd = "stop" => todo # {},
         l = "enable" /\ h.cmd = "restore-repair" => todo # {},
         l = "halt" => J'.stopping \/ todo = {}
  PROVE  Typed'
<1>1. todo \in SUBSET (Units \cup Pointers \cup Artifacts) /\ l \in Places
  BY UnitSets DEF Places
<1>2. HelperTyped' /\ h'.pc = l /\ h'.cmd = h.cmd /\ h'.todo = todo
  BY <1>1, GotoWithTyped
<1>3. TodoFits'
  <2>1. h'.todo \subseteq J'.inventory
    BY <1>2
  <2>2. l \notin {"arm", "move", "swap", "swap back", "swapped", "back", "capture",
                  "artifacts", "removing"}
    OBVIOUS
  <2>3. /\ h'.pc = "run" => h'.todo # {}
        /\ h'.pc = "disable" /\ h'.cmd = "stop" => h'.todo # {}
        /\ h'.pc = "enable" /\ h'.cmd = "restore-repair" => h'.todo # {}
        /\ h'.pc = "halt" => J'.stopping \/ h'.todo = {}
    BY <1>2
  <2> HIDE DEF Only
  <2>4. h'.pc = l
    BY <1>2
  <2> QED
    BY <2>1, <2>2, <2>3, <2>4 DEF TodoFits
<1> QED
  BY <1>2, <1>3, ThroughTyped

(* As GotoWith, when the set is the one the helper has.                    *)
LEMMA GotoIsGotoWith ==
  ASSUME Typed, h.cmd # "none", NEW l, Goto(l)
  PROVE  GotoWith(l, h.todo)
  BY Acting DEF Goto, GotoWith

LEMMA DoneIsGotoWith ==
  ASSUME Typed, h.cmd # "none", NEW x, Done(x)
  PROVE  GotoWith(h.pc, h.todo \ {x})
  BY Acting DEF Done, GotoWith

LEMMA StopTyped == Typed /\ StopStep => Typed'
<1> SUFFICES ASSUME Typed, StopStep PROVE Typed'
  OBVIOUS
<1>1. /\ h.cmd = "stop" /\ h.cmd # "none" /\ inst' = inst
      /\ UNCHANGED <<locked, ptr, side, disk, marker, ledger, users>>
  BY DEF StopStep
<1>2. UNCHANGED unit => WorldTyped'
  BY <1>1, SameWorld DEF Typed, world
<1>3. ASSUME NEW u \in Units, unit' \in {Enabled(u, FALSE), Stopped(u)}
      PROVE  WorldTyped'
  BY <1>1, <1>3, UnitWorldTyped DEF Typed, WorldTyped, users
<1>4. JournalTyped => /\ [J EXCEPT !.status = "stopping", !.stopping = TRUE] \in Journal
                      /\ [J EXCEPT !.status = "stopping", !.stopping = TRUE].disabled = J.disabled
                      /\ [J EXCEPT !.status = "stopping", !.stopping = TRUE].inventory = J.inventory
  BY DEF JournalTyped, Journal, Statuses
<1>5. CASE Fail /\ UNCHANGED <<J, unit>>
  BY <1>1, <1>2, <1>5, SameJournal, GoesTyped DEF Fail, Plain
<1>6. CASE Save([J EXCEPT !.status = "stopped"]) /\ Return /\ UNCHANGED unit
  <2>1. JournalTyped'
    BY <1>6, StatusTyped DEF Save, Statuses, Typed
  <2> QED
    BY <1>1, <1>2, <1>6, <2>1, GoesTyped DEF Return, Plain
<1>7. CASE /\ Save([J EXCEPT !.status = "stopping", !.stopping = TRUE]) /\ UNCHANGED unit
           /\ GotoWith("isolate", IF J.mode = "repair" THEN WasEnabled ELSE {})
  <2>1. JournalTyped' /\ J'.inventory = J.inventory
    BY <1>4, <1>7 DEF Save, Typed, JournalTyped
  <2>2. (IF J.mode = "repair" THEN WasEnabled ELSE {}) \in SUBSET J.inventory
    BY UnitSets
  <2> QED
    BY <1>1, <1>2, <1>7, <2>1, <2>2, UnitsTyped
<1>8. CASE /\ h.pc = "isolate" /\ h.todo # {} /\ UNCHANGED unit
           /\ Save([J EXCEPT !.disabled = @ \cup {First(h.todo)}]) /\ Goto("disable")
  <2>1. First(h.todo) \in J.inventory /\ h.todo \in SUBSET J.inventory
    BY <1>8, Picked DEF Typed, TodoFits
  <2>2. JournalTyped' /\ J'.inventory = J.inventory
    BY <1>8, <2>1 DEF Save, Typed, JournalTyped, Journal
  <2>3. GotoWith("disable", h.todo)
    BY <1>1, <1>8, GotoIsGotoWith
  <2> QED
    BY <1>1, <1>2, <1>8, <2>1, <2>2, <2>3, UnitsTyped
<1>9. CASE /\ h.pc = "disable" /\ UNCHANGED J
           /\ unit' = Enabled(First(h.todo), FALSE) /\ GotoWith("isolate", h.todo \ {First(h.todo)})
  <2>1. First(h.todo) \in Units /\ h.todo \ {First(h.todo)} \in SUBSET J.inventory
    BY <1>1, <1>9, Picked, UnitSets DEF Typed, TodoFits
  <2>2. JournalTyped' /\ WorldTyped' /\ J'.inventory = J.inventory
    BY <1>3, <1>9, <2>1, SameJournal
  <2> QED
    BY <1>1, <1>9, <2>1, <2>2, UnitsTyped
<1>10. CASE GotoWith("stop", WasActive) /\ UNCHANGED <<J, unit>>
  BY <1>1, <1>2, <1>10, SameJournal, UnitSets, UnitsTyped
<1>11. CASE /\ h.pc = "stop" /\ h.todo # {} /\ UNCHANGED J
            /\ unit' = Stopped(First(h.todo)) /\ Done(First(h.todo))
  <2>1. First(h.todo) \in Units /\ h.todo \ {First(h.todo)} \in SUBSET J.inventory
    BY <1>11, Picked, UnitSets DEF Typed, TodoFits
  <2>2. JournalTyped' /\ WorldTyped' /\ J'.inventory = J.inventory
    BY <1>3, <1>11, <2>1, SameJournal
  <2>3. GotoWith("stop", h.todo \ {First(h.todo)})
    BY <1>1, <1>11, DoneIsGotoWith
  <2> QED
    BY <1>1, <2>1, <2>2, <2>3, UnitsTyped
<1> QED
  BY <1>5, <1>6, <1>7, <1>8, <1>9, <1>10, <1>11 DEF StopStep

(* A helper that goes through pointers.                                    *)
LEMMA PointersTyped ==
  ASSUME Typed, h.cmd # "none", inst' = inst, JournalTyped', WorldTyped', J'.mode = J.mode,
         NEW l \in {"arm", "move", "swap", "swap back", "swapped"},
         NEW todo \in SUBSET Only(J.mode), GotoWith(l, todo), l = "arm" \/ todo # {}
  PROVE  Typed'
<1>1. todo \in SUBSET (Units \cup Pointers \cup Artifacts) /\ l \in Places
  BY DEF Places, Only, Pointers
<1>2. HelperTyped' /\ h'.pc = l /\ h'.cmd = h.cmd /\ h'.todo = todo
  BY <1>1, GotoWithTyped
<1>3. TodoFits'
  <2>1. h'.todo \subseteq Only(J'.mode) /\ (h'.pc # "arm" => h'.todo # {})
    BY <1>2
  <2>2. l \notin {"isolate", "disable", "stop", "units", "enable", "run", "halt", "back",
                  "capture", "artifacts", "removing"}
    OBVIOUS
  <2>3. h'.pc = l
    BY <1>2
  <2> HIDE DEF Only
  <2> QED
    BY <2>1, <2>2, <2>3 DEF TodoFits
<1> QED
  BY <1>2, <1>3, ThroughTyped

LEMMA PointerWorldTyped ==
  ASSUME Typed, UNCHANGED <<locked, disk, unit, marker, ledger, users>>,
         ptr' \in [Pointers -> Releases], side' \in [Pointers -> Releases]
  PROVE  WorldTyped'
  BY DEF Typed, WorldTyped, users

LEMMA NextPointerIs ==
  ASSUME Typed, h.todo # {}, h.pc \in {"arm", "move", "swap", "swap back", "swapped"}
  PROVE  /\ NextPointer \in h.todo /\ NextPointer \in Pointers
         /\ h.todo \subseteq Only(J.mode)
  BY DEF Typed, TodoFits, NextPointer, Only, Pointers

LEMMA PromoteTyped == Typed /\ PromoteStep => Typed'
<1> SUFFICES ASSUME Typed, PromoteStep PROVE Typed'
  OBVIOUS
<1>1. /\ h.cmd = "promote" /\ h.cmd # "none" /\ inst' = inst
      /\ UNCHANGED <<locked, disk, unit, marker, ledger, users>>
  BY DEF PromoteStep
<1>2. UNCHANGED <<ptr, side>> => WorldTyped'
  BY <1>1, SameWorld DEF Typed, world
<1>3. ptr \in [Pointers -> Releases] /\ side \in [Pointers -> Releases] /\ J.id \in Releases
  BY Constants DEF Typed, WorldTyped, JournalTyped, Journal
<1>4. CASE Fail /\ UNCHANGED J /\ ptr' \in [Pointers -> Releases]
           /\ side' \in [Pointers -> Releases]
  BY <1>1, <1>4, SameJournal, PointerWorldTyped, GoesTyped DEF Fail, Plain
<1>5. CASE /\ UNCHANGED <<ptr, side>> /\ Save([J EXCEPT !.status = "promoting"])
           /\ GotoWith("arm", Only(J.mode))
  <2>1. JournalTyped' /\ J'.mode = J.mode
    BY <1>5, StatusTyped DEF Save, Typed, Statuses, JournalTyped, Journal
  <2> QED
    BY <1>1, <1>2, <1>5, <2>1, PointersTyped
<1>6. ASSUME h.pc = "arm", h.todo # {}, UNCHANGED <<ptr, side>>, NEW l \in {"move", "swap"},
             Save([J EXCEPT !.armed[NextPointer] = TRUE, !.back[NextPointer] = FALSE]), Goto(l)
      PROVE  Typed'
  <2>1. JournalTyped'
    BY <1>6, NextPointerIs, ArmingTyped DEF Save, Typed
  <2>2. J'.mode = J.mode
    BY <1>6 DEF Save, Typed, JournalTyped, Journal
  <2>3. GotoWith(l, h.todo)
    BY <1>1, <1>6, GotoIsGotoWith
  <2> QED
    BY <1>1, <1>2, <1>6, <2>1, <2>2, <2>3, NextPointerIs, PointersTyped
<1>7. ASSUME h.pc \in {"move", "swap"}, UNCHANGED J, NEW v \in Releases, NEW s, s \in {side[NextPointer], ptr[NextPointer]},
             ptr' = [ptr EXCEPT ![NextPointer] = v], side' = [side EXCEPT ![NextPointer] = s],
             NEW l \in {"swap", "swap back", "swapped"}, Goto(l)
      PROVE  Typed'
  <2>1. h.todo # {}
    BY <1>7 DEF Typed, TodoFits
  <2>2. NextPointer \in Pointers /\ h.todo \subseteq Only(J.mode)
    BY <1>7, <2>1, NextPointerIs
  <2>3. ptr' \in [Pointers -> Releases] /\ side' \in [Pointers -> Releases]
    BY <1>3, <1>7, <2>2
  <2>4. WorldTyped' /\ JournalTyped' /\ J'.mode = J.mode
    BY <1>1, <1>7, <2>3, PointerWorldTyped, SameJournal
  <2>5. GotoWith(l, h.todo)
    BY <1>1, <1>7, GotoIsGotoWith
  <2> QED
    BY <1>1, <1>7, <2>1, <2>2, <2>4, <2>5, PointersTyped
<1>8. CASE h.pc = "move" /\ UNCHANGED J /\ Goto("swap") /\
           side' = [side EXCEPT ![NextPointer] = ptr[NextPointer]] /\ ptr' = [ptr EXCEPT ![NextPointer] = Gone]
  BY <1>7, <1>8, Constants
<1>9. CASE /\ h.pc = "swap" /\ UNCHANGED J /\ ptr' = [ptr EXCEPT ![NextPointer] = J.id]
           /\ side' = [side EXCEPT ![NextPointer] = ptr[NextPointer]] \/ side' = side
           /\ Goto("swap back") \/ Goto("swapped")
  <2>1. side = [side EXCEPT ![NextPointer] = side[NextPointer]]
    BY <1>3
  <2> QED
    BY <1>3, <1>7, <1>9, <2>1
<1>10. CASE h.pc = "swap back" /\ UNCHANGED J /\ Fail /\ h.todo # {} /\
           ptr' = [ptr EXCEPT ![NextPointer] = side[NextPointer]] /\ side' = [side EXCEPT ![NextPointer] = ptr[NextPointer]]
  <2>1. NextPointer \in Pointers
    BY <1>10, NextPointerIs
  <2>2. ptr' \in [Pointers -> Releases] /\ side' \in [Pointers -> Releases]
    BY <1>3, <1>10, <2>1
  <2> QED
    BY <1>4, <1>10, <2>2
<1>11. CASE /\ h.pc = "swapped" /\ UNCHANGED <<J, ptr, side>>
            /\ GotoWith("arm", h.todo \ {NextPointer})
  <2>1. h.todo \ {NextPointer} \in SUBSET Only(J.mode) /\ JournalTyped'
    BY <1>11, SameJournal DEF Typed, TodoFits
  <2> QED
    BY <1>1, <1>2, <1>11, <2>1, PointersTyped
<1>12. CASE UNCHANGED <<ptr, side>> /\ Save([J EXCEPT !.status = "promoted"]) /\ Return
  <2>1. JournalTyped'
    BY <1>12, StatusTyped DEF Save, Typed, Statuses
  <2> QED
    BY <1>1, <1>2, <1>12, <2>1, GoesTyped DEF Return, Plain
<1>13. h.pc = "swap back" => h.todo # {}
  BY DEF Typed, TodoFits
<1>14. UNCHANGED <<ptr, side>> => ptr' \in [Pointers -> Releases] /\ side' \in [Pointers -> Releases]
  BY <1>3
<1> QED
  BY <1>4, <1>5, <1>6, <1>8, <1>9, <1>10, <1>11, <1>12, <1>13, <1>14 DEF PromoteStep

LEMMA RestoreStartTyped == Typed /\ RestoreStart => Typed'
<1> SUFFICES ASSUME Typed, RestoreStart PROVE Typed'
  OBVIOUS
<1>1. h.cmd # "none" /\ inst' = inst /\ JournalTyped' /\ WorldTyped' /\ UNCHANGED J
  BY SameJournal, SameWorld DEF RestoreStart, At, Typed
<1>2. CASE GotoWith("units", J.inventory)
  BY <1>1, <1>2, UnitsTyped
<1>3. CASE Fail
  BY <1>1, <1>3, GoesTyped DEF Fail, Plain
<1> QED
  BY <1>2, <1>3 DEF RestoreStart

(* The end of a restoring loop.                                            *)
LEMMA EndedTyped ==
  ASSUME Typed, h.cmd # "none", inst' = inst, WorldTyped', Restored \/ NotRestored
  PROVE  Typed'
<1>1. CASE Restored
  <2>1. JournalTyped'
    BY <1>1, StatusTyped DEF Restored, Save, Typed, Statuses
  <2> QED
    BY <1>1, <2>1, GoesTyped DEF Restored, Return, Plain
<1>2. CASE NotRestored
  <2>1. JournalTyped'
    BY <1>2, SameJournal DEF NotRestored
  <2>2. CASE h' = [h EXCEPT !.pc = "finish", !.todo = {}, !.err = TRUE]
    <3>1. HelperTyped' /\ h'.pc = "finish"
      BY <2>2, FailTyped DEF Places
    <3>2. TodoFits'
      BY <3>1 DEF TodoFits
    <3> QED
      BY <2>1, <3>1, <3>2, ThroughTyped
  <2>3. CASE h' = [h EXCEPT !.pc = "failed"]
    BY <2>1, <2>3, GoesTyped DEF Goto, Plain
  <2> QED
    BY <1>2, <2>2, <2>3 DEF NotRestored
<1> QED
  BY <1>1, <1>2

LEMMA RestoreTyped == Typed /\ RestoreStep => Typed'
<1> SUFFICES ASSUME Typed, RestoreStep PROVE Typed'
  OBVIOUS
<1>1. /\ h.cmd # "none" /\ inst' = inst /\ h.cmd # "restore-repair" /\ h.cmd # "stop"
      /\ UNCHANGED <<locked, ptr, side, disk, marker, ledger, users>>
  BY DEF RestoreStep
<1>2. UNCHANGED unit => WorldTyped'
  BY <1>1, SameWorld DEF Typed, world
<1>3. CASE (Restored \/ NotRestored) /\ UNCHANGED unit
  BY <1>1, <1>2, <1>3, EndedTyped
<1>4. CASE GotoWith("enable", J.disabled \ WasActive) /\ UNCHANGED <<J, unit>>
  <2>1. J.disabled \ WasActive \in SUBSET J.inventory
    BY UnitSets
  <2> QED
    BY <1>1, <1>2, <1>4, <2>1, SameJournal, UnitsTyped
<1>5. CASE /\ h.pc \in {"units", "enable"} /\ h.todo # {} /\ UNCHANGED J
           /\ UNCHANGED h \/ Done(First(h.todo))
           /\ unit' \in {unit, Started(First(h.todo)), Enabled(First(h.todo), TRUE)}
  <2>1. First(h.todo) \in Units /\ h.todo \in SUBSET J.inventory
    BY <1>5, Picked, UnitSets DEF Typed, TodoFits
  <2>2. WorldTyped'
    BY <1>1, <1>5, <2>1, UnitWorldTyped DEF Typed, WorldTyped, users
  <2>3. CASE UNCHANGED h
    BY <1>1, <1>5, <2>2, <2>3, SameJournal DEF Typed, HelperTyped, TodoFits
  <2>4. CASE Done(First(h.todo))
    <3>1. GotoWith(h.pc, h.todo \ {First(h.todo)}) /\ h.todo \ {First(h.todo)} \in SUBSET J.inventory
      BY <1>1, <2>1, <2>4, DoneIsGotoWith
    <3> QED
      BY <1>1, <1>5, <2>2, <3>1, SameJournal, UnitsTyped
  <2> QED
    BY <1>5, <2>3, <2>4
<1> QED
  BY <1>3, <1>4, <1>5 DEF RestoreStep

LEMMA RestoreRepairTyped == Typed /\ RestoreRepairStep => Typed'
<1> SUFFICES ASSUME Typed, RestoreRepairStep PROVE Typed'
  OBVIOUS
<1>1. /\ h.cmd = "restore-repair" /\ h.cmd # "none" /\ inst' = inst /\ h.cmd # "stop"
      /\ UNCHANGED <<locked, J, ptr, side, disk, marker, ledger, users>> /\ JournalTyped'
  BY SameJournal DEF RestoreRepairStep
<1>2. UNCHANGED unit => WorldTyped'
  BY <1>1, SameWorld DEF Typed, world
<1>3. CASE (Fail \/ Return) /\ UNCHANGED unit
  BY <1>1, <1>2, <1>3, GoesTyped DEF Fail, Return, Plain
<1>4. CASE GotoWith("disable", Retained) /\ UNCHANGED unit
  BY <1>1, <1>2, <1>4, UnitSets, UnitsTyped
<1>5. ASSUME h.pc \in {"disable", "enable", "run"}, h.todo # {},
             unit' \in {unit, Started(First(h.todo)), Stopped(First(h.todo)),
                        Enabled(First(h.todo), FALSE),
                        Enabled(First(h.todo), J.units[First(h.todo)].enabled)},
             Goto("enable") \/ Goto("run") \/ GotoWith("disable", h.todo \ {First(h.todo)})
      PROVE  Typed'
  <2>1. First(h.todo) \in Units /\ h.todo \in SUBSET J.inventory
    BY <1>5, Picked, UnitSets DEF Typed, TodoFits
  <2>2. WorldTyped'
    BY <1>1, <1>5, <2>1, UnitWorldTyped DEF Typed, WorldTyped, users
  <2>3. CASE Goto("enable")
    BY <1>1, <1>5, <2>1, <2>2, <2>3, GotoIsGotoWith, UnitsTyped
  <2>4. CASE Goto("run")
    BY <1>1, <1>5, <2>1, <2>2, <2>4, GotoIsGotoWith, UnitsTyped
  <2>5. CASE GotoWith("disable", h.todo \ {First(h.todo)})
    BY <1>1, <1>5, <2>1, <2>2, <2>5, UnitsTyped
  <2> QED
    BY <1>5, <2>3, <2>4, <2>5
<1>6. h.pc \in {"enable", "run"} => h.todo # {}
  BY <1>1 DEF Typed, TodoFits
<1> QED
  BY <1>1, <1>3, <1>4, <1>5, <1>6 DEF RestoreRepairStep

LEMMA RollTyped == Typed /\ RollStart => Typed'
<1> SUFFICES ASSUME Typed, RollStart PROVE Typed'
  OBVIOUS
<1>1. h.cmd # "none" /\ inst' = inst /\ WorldTyped'
  BY SameWorld DEF RollStart, Rolling, Typed
<1>2. JournalTyped' /\ J'.inventory = J.inventory /\ J'.stopping = J.stopping
  BY StatusTyped DEF RollStart, Save, Typed, Statuses, JournalTyped, Journal
<1>3. (IF J.stopping THEN J.inventory ELSE {}) \in SUBSET J.inventory
  OBVIOUS
<1> QED
  BY <1>1, <1>2, <1>3, UnitsTyped DEF RollStart

(* A rollback that goes back to the pointers, or through them.             *)
LEMMA BackTyped ==
  ASSUME Typed, h.cmd # "none", inst' = inst, JournalTyped', WorldTyped',
         NEW todo \in SUBSET Pointers,
         GotoWith("back", todo) \/ \E p \in Pointers : Spoil(p) /\ h.pc = "back" /\ h.todo \ {p} = todo
  PROVE  Typed'
<1>1. HelperTyped' /\ h'.pc = "back" /\ h'.todo = todo
  BY GotoWithTyped, DoneTyped DEF Places
<1>2. TodoFits'
  BY <1>1 DEF TodoFits
<1> QED
  BY <1>1, <1>2, ThroughTyped

LEMMA HaltTyped == Typed /\ HaltStep => Typed'
<1> SUFFICES ASSUME Typed, HaltStep PROVE Typed'
  OBVIOUS
<1>1. /\ h.cmd # "none" /\ inst' = inst /\ h.cmd # "restore-repair" /\ h.cmd # "stop"
      /\ h.pc = "halt" /\ JournalTyped'
      /\ UNCHANGED <<locked, J, ptr, side, disk, marker, ledger, users>>
  BY SameJournal DEF HaltStep, Rolling
<1>2. CASE /\ h.todo # {} /\ unit' \in {unit, Stopped(First(h.todo))}
           /\ Done(First(h.todo)) \/ Spoil(First(h.todo))
  <2>1. First(h.todo) \in Units /\ h.todo \in SUBSET J.inventory
    BY <1>1, <1>2, Picked, UnitSets DEF Typed, TodoFits
  <2>2. WorldTyped'
    BY <1>1, <1>2, <2>1, UnitWorldTyped DEF Typed, WorldTyped, users
  <2>3. HelperTyped' /\ h'.pc = "halt" /\ h'.todo = h.todo \ {First(h.todo)}
    BY <1>1, <1>2, DoneTyped
  <2>4. h'.todo \subseteq J'.inventory /\ J'.stopping
    BY <1>1, <1>2, <2>1, <2>3 DEF Typed, TodoFits
  <2>5. TodoFits'
    BY <2>3, <2>4 DEF TodoFits
  <2> QED
    BY <1>1, <2>2, <2>3, <2>5, ThroughTyped
<1>3. UNCHANGED unit => WorldTyped'
  BY <1>1, SameWorld DEF Typed, world
<1>4. CASE h' = [h EXCEPT !.pc = "files", !.err = TRUE] /\ UNCHANGED unit
  <2>1. HelperTyped' /\ h'.pc = "files"
    BY <1>1, <1>4, FailTyped DEF Places
  <2>2. TodoFits'
    BY <2>1 DEF TodoFits
  <2> QED
    BY <1>1, <1>3, <1>4, <2>1, <2>2, ThroughTyped
<1>5. CASE GotoWith("back", Pointers) /\ UNCHANGED unit
  BY <1>1, <1>3, <1>5, BackTyped
<1> QED
  BY <1>2, <1>4, <1>5 DEF HaltStep

LEMMA ArtifactsTyped ==
  ASSUME Typed, h.cmd # "none", inst' = inst, JournalTyped', WorldTyped',
         NEW l \in {"artifacts", "removing"}, NEW todo \in SUBSET Artifacts,
         \/ GotoWith(l, todo)
         \/ h' = [h EXCEPT !.todo = {}, !.err = TRUE] /\ h.pc = l /\ todo = {},
         l = "artifacts" \/ todo # {}
  PROVE  Typed'
<1>1. HelperTyped' /\ h'.pc = l /\ h'.todo = todo
  <2>1. CASE GotoWith(l, todo)
    BY <2>1, GotoWithTyped DEF Places
  <2>2. CASE h' = [h EXCEPT !.todo = {}, !.err = TRUE] /\ h.pc = l /\ todo = {}
    <3>1. /\ h'.pc = l /\ h'.cmd = h.cmd /\ h'.todo = {} /\ h'.err \in BOOLEAN
          /\ h' \in [cmd : {h'.cmd}, pc : {h'.pc}, err : {h'.err}, todo : {h'.todo}]
      BY <2>2, Acting
    <3>2. l \in Places
      BY DEF Places
    <3> QED
      BY <2>2, <3>1, <3>2, GoesOn
  <2> QED
    BY <2>1, <2>2
<1>2. TodoFits'
  <2>1. h'.todo \subseteq Artifacts /\ (h'.pc = "removing" => h'.todo # {})
    BY <1>1
  <2> QED
    BY <1>1, <2>1 DEF TodoFits
<1> QED
  BY <1>1, <1>2, ThroughTyped

LEMMA BackPointerIs ==
  ASSUME Typed, h.pc = "back", h.todo # {}
  PROVE  BackPointer \in h.todo /\ BackPointer \in Pointers /\ h.todo \subseteq Pointers
  BY DEF Typed, TodoFits, BackPointer, Pointers

LEMMA BackStepTyped == Typed /\ BackStep => Typed'
<1> SUFFICES ASSUME Typed, BackStep PROVE Typed'
  OBVIOUS
<1>1. /\ h.cmd # "none" /\ inst' = inst /\ h.pc = "back"
      /\ UNCHANGED <<locked, disk, unit, marker, ledger, users>>
  BY DEF BackStep, Rolling
<1>2. ptr \in [Pointers -> Releases] /\ side \in [Pointers -> Releases]
      /\ J.prior \in [Pointers -> Releases]
  BY DEF Typed, WorldTyped, JournalTyped, Journal
<1>3. CASE h.todo = {}
  <2>1. WorldTyped' /\ JournalTyped' /\ GotoWith("artifacts", Artifacts)
    BY <1>1, <1>2, <1>3, PointerWorldTyped, SameJournal DEF BackStep
  <2> QED
    BY <1>1, <2>1, ArtifactsTyped
<1>4. CASE h.todo # {}
  <2>1. BackPointer \in Pointers /\ h.todo \subseteq Pointers
    BY <1>1, <1>4, BackPointerIs
  <2>2. JournalTyped'
    <3>1. CASE J' = J
      BY <3>1, SameJournal
    <3>2. CASE J' = [J EXCEPT !.armed[BackPointer] = FALSE, !.back[BackPointer] = TRUE]
      BY <2>1, <3>2, ArmingTyped DEF Typed
    <3> QED
      BY <1>4, <3>1, <3>2 DEF BackStep, Save
  <2>3. /\ ptr' \in {ptr, [ptr EXCEPT ![BackPointer] = Gone],
                     [ptr EXCEPT ![BackPointer] = J.prior[BackPointer]],
                     [ptr EXCEPT ![BackPointer] = side[BackPointer]]}
        /\ side' \in {side, [side EXCEPT ![BackPointer] = Gone]}
    BY <1>4 DEF BackStep
  <2>4. ptr' \in [Pointers -> Releases] /\ side' \in [Pointers -> Releases]
    BY <1>2, <2>1, <2>3, Constants
  <2>5. WorldTyped'
    BY <1>1, <2>4, PointerWorldTyped
  <2>6. h' = h \/ Done(BackPointer) \/ Spoil(BackPointer)
    BY <1>4 DEF BackStep
  <2>7. CASE Done(BackPointer)
    <3>1. GotoWith("back", h.todo \ {BackPointer})
      BY <1>1, <2>7, DoneIsGotoWith
    <3> QED
      BY <1>1, <2>1, <2>2, <2>5, <3>1, BackTyped
  <2>8. CASE Spoil(BackPointer)
    BY <1>1, <2>1, <2>2, <2>5, <2>8, BackTyped
  <2>9. CASE h' = h
    BY <1>1, <2>1, <2>2, <2>5, <2>9 DEF Typed, HelperTyped, TodoFits
  <2> QED
    BY <2>6, <2>7, <2>8, <2>9
<1> QED
  BY <1>3, <1>4

LEMMA MarkerTyped == Typed /\ MarkerStep => Typed'
<1> SUFFICES ASSUME Typed, MarkerStep PROVE Typed'
  OBVIOUS
<1>1. /\ h.cmd # "none" /\ inst' = inst /\ JournalTyped'
      /\ UNCHANGED <<locked, ptr, side, disk, unit, ledger, users>> /\ marker' \in {marker, 0}
  BY SameJournal DEF MarkerStep, Rolling
<1>2. WorldTyped'
  BY <1>1, MarkedTyped
<1>3. /\ h'.pc = "resume" /\ h'.cmd = h.cmd /\ h'.todo = {} /\ h'.err \in BOOLEAN
      /\ h' \in [cmd : {h'.cmd}, pc : {h'.pc}, err : {h'.err}, todo : {h'.todo}]
  <2>1. edited \in BOOLEAN
    BY DEF Typed, WorldTyped
  <2> QED
    BY <1>1, <2>1, Acting DEF MarkerStep
<1>4. HelperTyped'
  BY <1>1, <1>3, GoesOn DEF Places
<1>5. TodoFits'
  BY <1>3 DEF TodoFits
<1> QED
  BY <1>1, <1>2, <1>4, <1>5, ThroughTyped

LEMMA ResumeTyped == Typed /\ ResumeStep => Typed'
<1> SUFFICES ASSUME Typed, ResumeStep PROVE Typed'
  OBVIOUS
<1>1. h.cmd # "none" /\ inst' = inst /\ JournalTyped' /\ WorldTyped' /\ J' = J
      /\ h.cmd # "stop" /\ h.cmd # "restore-repair"
  BY SameJournal, SameWorld DEF ResumeStep, Rolling, Typed
<1>2. CASE GotoWith("units", J.inventory)
  BY <1>1, <1>2, UnitsTyped
<1>3. CASE \E e \in BOOLEAN : h' = [h EXCEPT !.pc = "finish", !.err = e]
  <2>1. /\ h'.pc = "finish" /\ h'.cmd = h.cmd /\ h'.todo = h.todo /\ h'.err \in BOOLEAN
        /\ h' \in [cmd : {h'.cmd}, pc : {h'.pc}, err : {h'.err}, todo : {h'.todo}]
    BY <1>1, <1>3, Acting
  <2>2. HelperTyped'
    BY <1>1, <2>1, GoesOn, Acting DEF Places
  <2>3. TodoFits'
    BY <2>1 DEF TodoFits
  <2> QED
    BY <1>1, <2>2, <2>3, ThroughTyped
<1>4. (h.err \/ \E u \in J.inventory : ~AsBefore(u)) \in BOOLEAN /\ TRUE \in BOOLEAN
  BY <1>1, Acting
<1> QED
  BY <1>2, <1>3, <1>4 DEF ResumeStep

LEMMA RemovalTyped == Typed /\ RemovalStep /\ h.cmd # "none" => Typed'
<1> SUFFICES ASSUME Typed, RemovalStep, h.cmd # "none" PROVE Typed'
  OBVIOUS
<1> DEFINE k == NextArtifact
<1>1. inst' = inst /\ UNCHANGED <<locked, ptr, side, unit, marker, ledger, users>>
      /\ h.pc \in {"artifacts", "removing"} /\ h.todo # {}
  BY DEF RemovalStep, Typed, TodoFits
<1>2. k \in h.todo /\ k \in Artifacts /\ h.todo \in SUBSET Artifacts
  BY <1>1 DEF Typed, TodoFits, NextArtifact, Artifacts
<1> HIDE DEF k
<1>3. WorldTyped'
  <2>1. CASE disk' = disk
    BY <1>1, <2>1, SameWorld DEF Typed, world
  <2>2. CASE disk' = [disk EXCEPT ![k] = NoDisk]
    <3>1. Put(k, "absent", FALSE)
      BY <2>2 DEF Put, NoDisk
    <3> QED
      BY <1>1, <1>2, <3>1, PutTyped
  <2>3. CASE Put(k, "path", TRUE) \/ Put(k, "quarantine", FALSE) \/ Put(k, "quarantine", disk[k].marked)
    <3>1. disk[k].marked \in BOOLEAN
      BY <1>2 DEF Typed, WorldTyped
    <3> QED
      BY <1>1, <1>2, <2>3, <3>1, PutTyped
  <2> QED
    BY <2>1, <2>2, <2>3 DEF RemovalStep, ResumeReservation, RemoveArtifact, RemoveFails, k
<1>4. JournalTyped'
  <2>1. CASE J' = J
    BY <2>1, SameJournal
  <2>2. CASE J' = [J EXCEPT !.art[k].moving = TRUE]
    <3>1. [Rec(k) EXCEPT !.moving = TRUE] \in Record
      BY <1>2, RecTyped DEF Record
    <3>2. J' = [J EXCEPT !.art[k] = [Rec(k) EXCEPT !.moving = TRUE]]
      BY <1>2, <2>2 DEF Rec, Typed, JournalTyped, Journal, Record
    <3> QED
      BY <1>2, <3>1, <3>2, RecordTyped DEF Typed
  <2>3. CASE J' = [J EXCEPT !.art[k].reserving = FALSE, !.art[k].created = TRUE]
    <3>1. [Rec(k) EXCEPT !.reserving = FALSE, !.created = TRUE] \in Record
      BY <1>2, RecTyped DEF Record
    <3>2. J' = [J EXCEPT !.art[k] = [Rec(k) EXCEPT !.reserving = FALSE, !.created = TRUE]]
      BY <1>2, <2>3 DEF Rec, Typed, JournalTyped, Journal, Record
    <3> QED
      BY <1>2, <3>1, <3>2, RecordTyped DEF Typed
  <2>4. CASE J' = [J EXCEPT !.art[k].reserving = FALSE, !.art[k].cleaned = TRUE]
    <3>1. [Rec(k) EXCEPT !.reserving = FALSE, !.cleaned = TRUE] \in Record
      BY <1>2, RecTyped DEF Record
    <3>2. J' = [J EXCEPT !.art[k] = [Rec(k) EXCEPT !.reserving = FALSE, !.cleaned = TRUE]]
      BY <1>2, <2>4 DEF Rec, Typed, JournalTyped, Journal, Record
    <3> QED
      BY <1>2, <3>1, <3>2, RecordTyped DEF Typed
  <2>5. CASE J' = Cleaned(J, k)
    <3>1. [Rec(k) EXCEPT !.created = FALSE, !.cleaned = TRUE, !.moving = FALSE] \in Record
      BY <1>2, RecTyped DEF Record
    <3>2. J' = [J EXCEPT !.art[k] = [Rec(k) EXCEPT !.created = FALSE, !.cleaned = TRUE,
                                                   !.moving = FALSE]]
      BY <1>2, <2>5 DEF Cleaned, Rec, Typed, JournalTyped, Journal, Record
    <3> QED
      BY <1>2, <3>1, <3>2, RecordTyped DEF Typed
  <2> QED
    BY <2>1, <2>2, <2>3, <2>4, <2>5
    DEF RemovalStep, ResumeReservation, RemoveArtifact, RemoveFails, Save, k
<1>5. \/ h' = h
      \/ h.pc = "artifacts" /\ h' = [h EXCEPT !.todo = h.todo \ {k}]
      \/ h.pc = "artifacts" /\ h' = [h EXCEPT !.todo = {}, !.err = TRUE]
      \/ h' = [h EXCEPT !.pc = "removing"] \/ h' = [h EXCEPT !.pc = "artifacts"]
  BY DEF RemovalStep, ResumeReservation, RemoveArtifact, RemoveFails, Goto, k
<1>6. CASE h' = h
  <2>1. HelperTyped'
    BY <1>1, <1>6 DEF Typed, HelperTyped
  <2>2. TodoFits'
    BY <1>1, <1>2, <1>6 DEF TodoFits
  <2> QED
    BY <1>3, <1>4, <2>1, <2>2, ThroughTyped
<1>7. CASE h.pc = "artifacts" /\ h' = [h EXCEPT !.todo = h.todo \ {k}]
  <2>1. GotoWith("artifacts", h.todo \ {k}) /\ h.todo \ {k} \in SUBSET Artifacts
    BY <1>2, <1>7, DoneIsGotoWith DEF Done
  <2> QED
    BY <1>1, <1>3, <1>4, <2>1, ArtifactsTyped
<1>8. CASE h.pc = "artifacts" /\ h' = [h EXCEPT !.todo = {}, !.err = TRUE]
  BY <1>1, <1>3, <1>4, <1>8, ArtifactsTyped
<1>9. CASE h' = [h EXCEPT !.pc = "removing"] \/ h' = [h EXCEPT !.pc = "artifacts"]
  <2>1. GotoWith("removing", h.todo) \/ GotoWith("artifacts", h.todo)
    BY <1>9, GotoIsGotoWith DEF Goto
  <2> QED
    BY <1>1, <1>2, <1>3, <1>4, <2>1, ArtifactsTyped
<1> QED
  BY <1>5, <1>6, <1>7, <1>8, <1>9

(* The helper is gone: the installer goes on, or is gone as well.          *)
LEMMA IdleFits ==
  ASSUME Typed, h' = Idle, JournalTyped', WorldTyped',
         inst' = NoInstaller \/ inst' \in [at : Callers \ {"none"}, mode : Modes],
         inst'.at = "begin" => J'.id < MaxTx
  PROVE  Typed'
  BY DEF Typed, HelperTyped, TodoFits, Idle

LEMMA ExitTyped ==
  ASSUME Typed, inst # NoInstaller, NEW next \in Callers, NEW told, Exit(next, told),
         JournalTyped', WorldTyped', next = "begin" => J'.id < MaxTx
  PROVE  Typed'
<1>1. inst \in [at : Callers \ {"none"}, mode : Modes]
  BY DEF Typed, HelperTyped
<1>2. CASE next = "none"
  BY <1>2, IdleFits DEF Exit, NoInstaller
<1>3. CASE next # "none"
  <2>1. inst' \in [at : Callers \ {"none"}, mode : Modes] /\ inst'.at = next
    BY <1>1, <1>3 DEF Exit
  <2> QED
    BY <1>3, <2>1, IdleFits DEF Exit
<1> QED
  BY <1>2, <1>3

LEMMA NextCommands ==
  ASSUME NEW c
  PROVE  /\ Following(c) \in Callers /\ AfterFailure(c) \in Callers
         /\ Told(c) \in {"unknown", "updated", "repaired", "rolled back"}
         /\ Following(c) = "begin" => J.id < MaxTx
         /\ AfterFailure(c) # "begin"
<1>1. Following(c) \in Callers /\ (Following(c) = "begin" => J.id < MaxTx)
  BY DEF Following, Callers, Commands, OwnSteps
<1>2. AfterFailure(c) \in Callers /\ AfterFailure(c) # "begin"
  BY DEF AfterFailure, Callers, Commands, OwnSteps
<1>3. Told(c) \in {"unknown", "updated", "repaired", "rolled back"}
  BY DEF Told
<1> QED
  BY <1>1, <1>2, <1>3

LEMMA Active1 ==
  ASSUME Typed, h.pc # "none"
  PROVE  h.cmd # "none" /\ inst # NoInstaller
<1>1. h # Idle
  BY DEF Idle
<1> QED
  BY <1>1 DEF Typed, HelperTyped, Commands

LEMMA FaultTyped ==
  ASSUME Typed, Fault
  PROVE  faults' \in 0..MaxFaults
<1>1. MaxFaults \in Nat /\ faults \in 0..MaxFaults
  BY UpdateAssumption DEF Typed, WorldTyped
<1> QED
  BY <1>1 DEF Fault

(* A step of the installer, or an interruption of it, that leaves the      *)
(* world alone but for its report.                                         *)
LEMMA ReportedTyped ==
  ASSUME Typed, UNCHANGED <<locked, ptr, side, disk, marker, edited, kind0>>,
         unit' \in UnitRows, ledger' \in {"readable", "undeclared"},
         touched' \subseteq Units \cup Pointers \cup {"reboot"},
         report' \in {"unknown", "updated", "repaired", "rolled back"}, faults' \in 0..MaxFaults
  PROVE  WorldTyped'
  BY DEF Typed, WorldTyped, UnitRows

LEMMA WorldIs ==
  ASSUME Typed
  PROVE  /\ unit \in UnitRows /\ ledger \in {"readable", "undeclared"}
         /\ touched \subseteq Units \cup Pointers \cup {"reboot"}
         /\ report \in {"unknown", "updated", "repaired", "rolled back"} /\ faults \in 0..MaxFaults
  BY DEF Typed, WorldTyped, UnitRows

LEMMA InstallerTyped ==
  /\ Typed /\ RunHelper => Typed'
  /\ Typed /\ HelperExits => Typed'
  /\ Typed /\ InitializeDatabase => Typed'
  /\ Typed /\ Configure => Typed'
  /\ Typed /\ StartInstaller => Typed'
<1>1. ASSUME Typed, RunHelper PROVE Typed'
  <2>1. JournalTyped' /\ WorldTyped' /\ J' = J /\ inst' = inst
    BY <1>1, SameJournal, SameWorld DEF RunHelper, Typed
  <2>2. inst \in [at : Callers \ {"none"}, mode : Modes] /\ inst.at \notin OwnSteps
    BY <1>1 DEF RunHelper, Typed, HelperTyped
  <2>3. CommandOf(inst.at) \in Commands
    BY <2>2 DEF CommandOf, Callers, Commands, OwnSteps
  <2>4. h' = [cmd |-> CommandOf(inst.at), pc |-> "start", todo |-> {}, err |-> FALSE]
    BY <1>1 DEF RunHelper, Idle, CommandOf
  <2>5. inst.at = "begin" => J.id < MaxTx
    BY <1>1 DEF RunHelper, Idle, Typed, HelperTyped
  <2>6. HelperTyped'
    <3>1. h' \in [cmd : Commands, pc : Places \cup {"start"}, err : BOOLEAN,
                  todo : SUBSET (Units \cup Pointers \cup Artifacts)]
      BY <2>3, <2>4
    <3>2. h'.cmd = CommandOf(inst'.at) /\ inst' # NoInstaller
      <4>1. inst # NoInstaller
        BY <1>1 DEF RunHelper
      <4>2. h'.cmd = CommandOf(inst.at)
        BY <2>4
      <4> QED
        BY <2>1, <4>1, <4>2
    <3>3. inst' \in [at : Callers \ {"none"}, mode : Modes]
      BY <2>1, <2>2
    <3>4. inst'.at = "begin" => J'.id < MaxTx
      BY <2>1, <2>5
    <3> QED
      BY <3>1, <3>2, <3>3, <3>4 DEF HelperTyped
  <2>7. TodoFits'
    BY <2>4 DEF TodoFits
  <2> QED
    BY <1>1, <2>1, <2>6, <2>7, ThroughTyped
<1>2. ASSUME Typed, HelperExits PROVE Typed'
  <2>1. inst # NoInstaller
    BY <1>2, Active1 DEF HelperExits
  <2>2. JournalTyped' /\ J' = J
    BY <1>2, SameJournal DEF HelperExits
  <2>3. report' \in {"unknown", "updated", "repaired", "rolled back"}
    BY <1>2, NextCommands, WorldIs DEF HelperExits, Exit
  <2>4. WorldTyped'
    BY <1>2, <2>3, WorldIs, ReportedTyped DEF HelperExits, world
  <2>5. \E next \in Callers : \E told : Exit(next, told) /\ (next = "begin" => J.id < MaxTx)
    BY <1>2, NextCommands DEF HelperExits
  <2> QED
    BY <1>2, <2>1, <2>2, <2>4, <2>5, ExitTyped
<1>3. ASSUME Typed, InitializeDatabase PROVE Typed'
  <2>1. inst # NoInstaller /\ "restore" \in Callers /\ "restore" # "begin"
    BY <1>3 DEF InitializeDatabase, NoInstaller, Callers, Commands
  <2>2. JournalTyped' /\ Exit("restore", "unknown")
    BY <1>3, SameJournal DEF InitializeDatabase
  <2>3. /\ report' \in {"unknown", "updated", "repaired", "rolled back"}
        /\ faults' \in 0..MaxFaults /\ ledger' \in {"readable", "undeclared"}
    BY <1>3, WorldIs, FaultTyped DEF InitializeDatabase, Exit
  <2>4. WorldTyped'
    BY <1>3, <2>3, WorldIs, ReportedTyped DEF InitializeDatabase
  <2> QED
    BY <1>3, <2>1, <2>2, <2>4, ExitTyped
<1>4. ASSUME Typed, Configure PROVE Typed'
  <2>1. inst # NoInstaller /\ {"restore-repair", "complete"} \subseteq Callers
    BY <1>4 DEF Configure, NoInstaller, Callers, Commands
  <2>2. JournalTyped' /\ (Exit("restore-repair", "unknown") \/ Exit("complete", "unknown"))
    BY <1>4, SameJournal DEF Configure
  <2>3. report' \in {"unknown", "updated", "repaired", "rolled back"}
    BY <1>4, WorldIs DEF Configure, Exit
  <2>4. unit' \in UnitRows
    <3>1. PICK renewed \in SUBSET (J.inventory \ Retained) :
            unit' = [u \in Units |-> IF u \in renewed THEN Started(u)[u] ELSE unit[u]]
      BY <1>4 DEF Configure
    <3>2. \A u \in Units : Started(u) \in UnitRows
      BY <1>4, UnitTyped DEF UnitRows
    <3>3. unit \in UnitRows
      BY <1>4, WorldIs
    <3>4. \A u \in Units : Started(u)[u] \in [act : Active, enabled : BOOLEAN,
                                            runs : (Releases \X Releases) \cup {Nobody},
                                            stuck : BOOLEAN]
      BY <3>2 DEF UnitRows
    <3> QED
      BY <3>1, <3>3, <3>4 DEF UnitRows
  <2>5. WorldTyped'
    BY <1>4, <2>3, <2>4, WorldIs, ReportedTyped DEF Configure
  <2> QED
    BY <1>4, <2>1, <2>2, <2>5, ExitTyped
<1>5. ASSUME Typed, StartInstaller PROVE Typed'
  <2>1. JournalTyped' /\ WorldTyped'
    BY <1>5, SameJournal, WorldIs, ReportedTyped DEF StartInstaller, world
  <2>2. PICK mode \in Modes : inst' = [at |-> "recover", mode |-> mode]
    BY <1>5 DEF StartInstaller
  <2>3. inst' \in [at : Callers \ {"none"}, mode : Modes] /\ inst'.at # "begin"
    BY <2>2 DEF Callers, Commands
  <2> QED
    BY <1>5, <2>1, <2>3, IdleFits DEF StartInstaller
<1> QED
  BY <1>1, <1>2, <1>3, <1>4, <1>5

LEMMA InterruptionTyped == Typed /\ Interruption => Typed'
<1> SUFFICES ASSUME Typed, Interruption PROVE Typed'
  OBVIOUS
<1>1. ASSUME InstallerFails \/ KillHelper PROVE Typed'
  <2>1. /\ Exit(AfterFailure(inst.at), "unknown") /\ Fault /\ inst # NoInstaller
        /\ UNCHANGED <<locked, J, world, edited, kind0, touched>>
    BY <1>1 DEF InstallerFails, KillHelper, Typed, HelperTyped
  <2>2. report' \in {"unknown", "updated", "repaired", "rolled back"}
    BY <2>1, WorldIs DEF Exit
  <2>3. WorldTyped' /\ JournalTyped'
    BY <2>1, <2>2, WorldIs, FaultTyped, SameJournal, ReportedTyped DEF world
  <2> QED
    BY <2>1, <2>3, NextCommands, ExitTyped
<1>2. ASSUME KillInstaller PROVE Typed'
  <2>1. WorldTyped' /\ JournalTyped'
    BY <1>2, WorldIs, FaultTyped, SameJournal, ReportedTyped DEF KillInstaller, world
  <2> QED
    BY <1>2, <2>1, IdleFits DEF KillInstaller, NoInstaller
<1>3. ASSUME Reboot PROVE Typed'
  <2>1. \A u \in Units : Started(u) \in UnitRows /\ Stopped(u) \in UnitRows
    BY UnitTyped DEF UnitRows
  <2>2. unit' \in UnitRows
    BY <1>3, <2>1 DEF Reboot, UnitRows
  <2>3. WorldTyped' /\ JournalTyped'
    BY <1>3, <2>2, WorldIs, FaultTyped, SameJournal, ReportedTyped DEF Reboot
  <2> QED
    BY <1>3, <2>3, IdleFits DEF Reboot, NoInstaller
<1>4. ASSUME SystemctlFails PROVE Typed'
  <2> DEFINE x == First(h.todo)
  <2>1. /\ h.todo # {} /\ inst' = inst /\ h.pc # "none" /\ faults' \in 0..MaxFaults
        /\ UNCHANGED <<locked, ptr, side, disk, marker, ledger, edited, kind0, report>>
    BY <1>4, FaultTyped DEF SystemctlFails, Idle
  <2>2. h.cmd # "none" /\ x \in h.todo
    BY <2>1, Active1, Picked
  <2>3. /\ h.pc \in {"disable", "stop", "enable", "run", "units", "halt"} /\ x \in Units
        /\ h.todo \subseteq J.inventory
    BY <1>4, <2>2, UnitSets DEF SystemctlFails, Typed, TodoFits
  <2>4. /\ unit' \in {unit, Broken(x), Stopped(x),
                       [unit EXCEPT ![x].stuck = unit[x].act = "active"]}
        /\ touched' = touched
    BY <1>4 DEF SystemctlFails
  <2>5. unit' \in UnitRows /\ touched' \subseteq Units \cup Pointers \cup {"reboot"}
    <3>1. /\ {unit, Broken(x), Stopped(x)} \subseteq UnitRows
          /\ [unit EXCEPT ![x].stuck = unit[x].act = "active"] \in UnitRows
      BY <2>3, UnitTyped, WorldIs
    <3> QED
      BY <2>3, <2>4, <3>1, WorldIs
  <2>6. WorldTyped'
    BY <2>1, <2>5, WorldIs, ReportedTyped
  <2>7. CASE Fail /\ UNCHANGED J
    BY <2>1, <2>2, <2>6, <2>7, SameJournal, GoesTyped DEF Fail, Plain
  <2>8. CASE NotRestored
    BY <2>1, <2>2, <2>6, <2>8, EndedTyped
  <2>9. CASE Spoil(x) /\ UNCHANGED J /\ h.pc = "halt"
    <3>1. HelperTyped' /\ h'.pc = "halt" /\ h'.todo = h.todo \ {x}
      BY <2>1, <2>2, <2>9, DoneTyped
    <3>2. h'.todo \subseteq J'.inventory /\ J'.stopping
      BY <2>1, <2>3, <2>9, <3>1 DEF Typed, TodoFits
    <3>3. TodoFits'
      BY <3>1, <3>2 DEF TodoFits
    <3> QED
      BY <2>6, <2>9, <3>1, <3>3, SameJournal, ThroughTyped
  <2> QED
    BY <1>4, <2>7, <2>8, <2>9 DEF SystemctlFails
<1>5. ASSUME UNCHANGED <<inst, h, J>>, WorldTyped' PROVE Typed'
  BY <1>5 DEF Typed, JournalTyped, HelperTyped, TodoFits
<1>6. ASSUME EditSettings PROVE Typed'
  <2>1. WorldTyped'
    BY <1>6, FaultTyped DEF EditSettings, Meddle, Typed, WorldTyped, world
  <2> QED
    BY <1>5, <1>6, <2>1 DEF EditSettings
<1>7. ASSUME NEW u \in Units, ChangeUnit(u) PROVE Typed'
  <2>1. unit' \in UnitRows
    <3>1. unit[u].enabled \in BOOLEAN
      BY WorldIs DEF UnitRows
    <3>2. {Started(u), Stopped(u), Broken(u), Enabled(u, ~unit[u].enabled)} \subseteq UnitRows
      BY UnitTyped
    <3> QED
      BY <1>7, <3>2 DEF ChangeUnit
  <2>2. touched' \subseteq Units \cup Pointers \cup {"reboot"}
    BY <1>7, WorldIs DEF ChangeUnit
  <2>3. WorldTyped'
    BY <1>7, <2>1, <2>2, WorldIs, FaultTyped, ReportedTyped DEF ChangeUnit, Meddle
  <2> QED
    BY <1>5, <1>7, <2>3 DEF ChangeUnit
<1>8. ASSUME NEW p \in Pointers, Retarget(p) PROVE Typed'
  <2>1. ptr' \in [Pointers -> Releases]
    <3>1. PICK v \in {Foreign, Gone} : ptr' = [ptr EXCEPT ![p] = v]
      BY <1>8 DEF Retarget
    <3>2. ptr \in [Pointers -> Releases] /\ v \in Releases
      BY Constants DEF Typed, WorldTyped
    <3> QED
      BY <3>1, <3>2
  <2>2. touched' \subseteq Units \cup Pointers \cup {"reboot"}
    BY <1>8, WorldIs DEF Retarget
  <2>3. faults' \in 0..MaxFaults
    BY <1>8, FaultTyped DEF Retarget, Meddle
  <2>4. WorldTyped'
    BY <1>8, <2>1, <2>2, <2>3 DEF Retarget, Typed, WorldTyped
  <2> QED
    BY <1>5, <1>8, <2>4 DEF Retarget
<1> QED
  BY <1>1, <1>2, <1>3, <1>4, <1>6, <1>7, <1>8 DEF Interruption

LEMMA StepTyped == Typed /\ [Next]_vars => Typed'
<1> SUFFICES ASSUME Typed, [Next]_vars PROVE Typed'
  OBVIOUS
<1>1. CASE UNCHANGED vars
  <2>1. UNCHANGED <<inst, h, J, locked, world, users>>
    BY <1>1 DEF vars
  <2>2. JournalTyped' /\ WorldTyped'
    BY <2>1, SameJournal, SameWorld DEF Typed
  <2>3. HelperTyped' /\ TodoFits'
    BY <2>1 DEF Typed, HelperTyped, TodoFits
  <2> QED
    BY <2>2, <2>3, ThroughTyped
<1>2. CASE Interruption
  BY <1>2, InterruptionTyped
<1>3. CASE InstallerStep \/ StartInstaller
  BY <1>3, InstallerTyped DEF InstallerStep
<1>4. CASE HelperStep
  <2>1. CASE BeginLock \/ \E inv \in Inventories : BeginCapture(inv)
    BY <2>1, BeginLockTyped, BeginCaptureTyped
  <2>2. CASE \/ ReserveStep("source-temp") \/ ReserveStep("venv") \/ PromoteSourceStep
             \/ RecordStep("source") \/ RecordStep("venv") \/ MigrationStep
    BY <2>2, ReserveTyped, PromoteSourceTyped, RecordStepTyped, MigrationTyped DEF Pointers
  <2>3. CASE \/ StopStep \/ PromoteStep \/ RestoreStart \/ RestoreStep \/ RestoreRepairStep
             \/ RollStart \/ HaltStep \/ BackStep \/ MarkerStep \/ ResumeStep
    BY <2>3, StopTyped, PromoteTyped, RestoreStartTyped, RestoreTyped, RestoreRepairTyped,
       RollTyped, HaltTyped, BackStepTyped, MarkerTyped, ResumeTyped
  <2>4. CASE \/ CaptureStep \/ VerifyStep \/ CommitStep \/ CommitRepairStep \/ CompleteStep
             \/ RecoverStart \/ RollbackStart \/ FinishStep \/ FilesStep
    BY <2>4, SimplyTyped
  <2>5. CASE Unlock
    BY <2>5, SimplyTyped, Active1 DEF Unlock
  <2>6. CASE Rolling /\ RemovalStep
    BY <2>6, RemovalTyped DEF Rolling
  <2> QED
    BY <1>4, <2>1, <2>2, <2>3, <2>4, <2>5, <2>6 DEF HelperStep
<1> QED
  BY <1>1, <1>2, <1>3, <1>4 DEF Next

(* Every step keeps the types of what an update works on.                  *)
THEOREM TypeCorrect == Spec => []TypeOK
<1>1. ASSUME Typed PROVE TypeOK
  <2>1. /\ J.id \in 0..MaxTx /\ J.status \in Statuses
        /\ J.mode \in {"upgrade", "repair", "source-only"}
        /\ J.prior \in [Pointers -> Releases]
        /\ {J.armed, J.back} \subseteq [Pointers -> BOOLEAN]
        /\ J.art \in [Artifacts -> Record] /\ J.ready \subseteq Pointers
        /\ J.inventory \subseteq Units /\ J.disabled \subseteq J.inventory
        /\ J.units \in [Units -> [act : Active, enabled : BOOLEAN]]
        /\ {J.gate, J.stopping, J.captured, J.bound, J.complete} \subseteq BOOLEAN
    BY <1>1 DEF Typed, JournalTyped, Journal, ModeSet, UnitState
  <2>2. inst.mode \in Modes \cup {"none"} /\ (inst = NoInstaller => h = Idle)
    <3>1. inst = NoInstaller \/ inst \in [at : Callers \ {"none"}, mode : Modes]
      BY <1>1 DEF Typed, HelperTyped
    <3>2. inst = NoInstaller => h = Idle
      BY <1>1 DEF Typed, HelperTyped
    <3> QED
      BY <3>1, <3>2 DEF NoInstaller
  <2>3. h.err \in BOOLEAN /\ h.todo \subseteq Units \cup Pointers \cup Artifacts
    <3>1. CASE h = Idle
      BY <3>1 DEF Idle
    <3>2. CASE h # Idle
      <4>1. h \in [cmd : Commands, pc : Places \cup {"start"}, err : BOOLEAN,
                   todo : SUBSET (Units \cup Pointers \cup Artifacts)]
        BY <1>1, <3>2 DEF Typed, HelperTyped
      <4> QED
        BY <4>1
    <3> QED
      BY <3>1, <3>2
  <2> QED
    BY <1>1, <2>1, <2>2, <2>3 DEF Typed, WorldTyped, TypeOK
<1> QED
  BY <1>1, InitTyped, StepTyped, PTL DEF Spec

-----------------------------------------------------------------------------
(* What the status of the journal tells of the command that runs.          *)
Mid == h.pc \notin {"none", "start", "returned", "failed"}
Staging == {"reserve source-temp", "promote-source", "record source", "reserve venv", "record venv"}
Putting == {"artifacts", "removing", "files", "resume", "units", "enable"}

StatusFits ==
  /\ Mid =>
       /\ h.cmd = "begin" => J.status = "preparing"
       /\ h.cmd \in Staging => J.status \in {"prepared", "candidate-staged"}
       /\ h.cmd = "stop" => J.status = "stopping"
       /\ h.cmd = "promote" => J.status = "promoting"
       /\ h.cmd \in {"restore", "commit-repair"} => J.status = "promoted"
       /\ h.cmd \in {"commit", "complete", "restore-repair"} => J.status = "committed"
       /\ Rolling /\ h.pc = "roll" => J.status \notin Terminal
       /\ Rolling /\ h.pc \in {"halt", "back"} \cup Putting => J.status = "rolling-back"
       /\ Rolling /\ h.pc = "finish" => J.status \in {"rolling-back", "services-restored"}
       /\ h.pc \in {"complete", "clear"} => J.status = "committed"
       /\ h.pc = "unlock" => J.status \in Terminal
  /\ J.id = 0 => J.status = "rolled-back"

(* The lock, the marker and the journal.                                   *)
LockFits ==
  /\ J.status \notin Terminal => locked
  /\ marker # 0 => locked /\ marker = J.id /\ J.mode = "repair" /\ J.status # "rolled-back"
  /\ PendingRepair => locked /\ marker = J.id /\ J.bound
  /\ h.pc \in {"unlock", "capture"} => marker = 0 /\ ~PendingRepair
  /\ h.pc = "clear" => J.complete /\ J.mode = "repair"
  /\ h.pc = "complete" => J.complete
  /\ Rolling /\ h.pc \in {"resume", "units", "enable", "finish"} => marker = 0
  /\ inst.at \in {"database", "restore", "verify", "commit"} => J.mode # "repair"
  /\ h.cmd = "commit-repair" /\ Mid => J.mode = "repair"
  /\ h.pc \in {"written", "bound"} => marker = J.id
  /\ h.pc = "bound" => J.bound

(* The pointers: what is not armed is as it was; what is armed may be the  *)
(* candidate, and is no release that is still to come.                     *)
Below(v, n) == v \in Nat => v < n
PtrCore ==
  \A p \in Pointers :
    /\ p \notin touched /\ ~J.armed[p] => ptr[p] = J.prior[p]
    /\ J.armed[p] => p \in Only(J.mode) /\ ~J.back[p]
    /\ kind0[p] = "missing" => ptr[p] # 0 /\ side[p] # 0 /\ J.prior[p] # 0
    /\ Below(ptr[p], J.id + 1) /\ Below(side[p], J.id + 1)
    /\ J.id # 0 => Below(J.prior[p], J.id)
Candidate == \A p \in Only(J.mode) \ touched : ptr[p] = J.id
Disarmed == \A p \in Pointers : ~J.armed[p]
Older == \A p \in Pointers : Below(ptr[p], J.id)
PtrFits ==
  /\ PtrCore
  /\ h.pc = "capture" => Disarmed /\ Older
  /\ J.status \in {"verified", "committed"} => Candidate
  /\ h.cmd = "commit-repair" /\ Mid => Candidate
  /\ J.status = "rolled-back" => Disarmed
  /\ Rolling /\ h.pc \in Putting \cup {"finish"} /\ ~h.err => Disarmed
  /\ h.pc = "back" /\ ~h.err => \A p \in Pointers \ h.todo : ~J.armed[p]
  /\ h.pc \in {"move", "swap", "swap back", "swapped"} => J.armed[NextPointer]

(* The candidate directories: none is left where it was built or set aside *)
(* once a rollback is through.                                             *)
Out == {"absent", "staging"}
DiskCore ==
  \A k \in Artifacts :
    Rec(k).reserving => /\ ~Rec(k).created /\ k # "source"
                        /\ disk[k].at \in Out \/ (disk[k].at = "path" /\ disk[k].marked)
Clean == \A k \in Artifacts : disk[k].at \in Out
DiskFits ==
  /\ DiskCore
  /\ h.cmd = "record venv" /\ Mid => Rec("venv").created
  /\ J.status \in {"prepared", "candidate-staged"} =>
       \A k \in Artifacts : disk[k].at # "quarantine"
  /\ h.pc = "capture" \/ J.status = "rolled-back" => Clean
  /\ Rolling /\ h.pc \in {"artifacts", "removing"} /\ ~h.err =>
       \A k \in Artifacts \ h.todo : disk[k].at \in Out
  /\ Rolling /\ h.pc \in {"files", "resume", "units", "enable", "finish"} /\ ~h.err => Clean

Fits == Typed /\ StatusFits /\ LockFits /\ PtrFits /\ DiskFits

(* What a step leaves alone of the journal.                                *)
Kept == J'.id = J.id /\ J'.mode = J.mode /\ J'.prior = J.prior
Flags == J'.bound = J.bound /\ J'.complete = J.complete
Arms == J'.armed = J.armed /\ J'.back = J.back
Arts == J'.art = J.art
Still == Kept /\ Flags /\ Arms /\ Arts
SamePointers == /\ UNCHANGED <<ptr, side, kind0>>
                /\ \A p \in Pointers : p \in touched' <=> p \in touched

LEMMA StatusSaved ==
  ASSUME Typed, NEW s, Save([J EXCEPT !.status = s])
  PROVE  J'.status = s /\ Still
  BY DEF Typed, JournalTyped, Journal, Still, Kept, Flags, Arms, Arts, Save

LEMMA NothingSaved ==
  ASSUME UNCHANGED J
  PROVE  J'.status = J.status /\ Still
  BY DEF Still, Kept, Flags, Arms, Arts

LEMMA PointersKept ==
  ASSUME SamePointers, Kept, Arms
  PROVE  /\ PtrCore => PtrCore'
         /\ Candidate => Candidate'
         /\ Disarmed => Disarmed'
         /\ Older => Older'
  BY DEF SamePointers, Kept, Arms, PtrCore, Candidate, Disarmed, Older, Below, Only, Pointers

LEMMA DisksKept ==
  ASSUME UNCHANGED disk, Arts
  PROVE  (DiskCore => DiskCore') /\ (Clean => Clean') /\ \A k : Rec(k)' = Rec(k)
  BY DEF Arts, DiskCore, Clean, Rec

(* A helper that ends: the status may have advanced.                       *)
Advance ==
  \/ J'.status = J.status
  \/ J.status \in {"prepared", "candidate-staged"} /\ J'.status = "candidate-staged"
  \/ J.status \notin Terminal
       /\ J'.status \in {"stopped", "promoted", "services-restored", "rollback-failed"}
  \/ J.status \notin Terminal /\ J'.status = "verified" /\ Candidate

LEMMA EndFits ==
  ASSUME Fits, h.cmd # "none", inst' = inst, Typed', Fail \/ Return,
         UNCHANGED <<locked, marker, disk>>, SamePointers, Still, Advance
  PROVE  Fits'
<1> USE DEF Still
<1>1. h'.cmd = h.cmd /\ h'.pc \in {"failed", "returned"}
  BY GotoTyped DEF Fail, Return, Places, Fits
<1>2. StatusFits'
  BY <1>1 DEF Fits, StatusFits, Mid, Advance, Kept, Terminal
<1>3. LockFits'
  BY <1>1 DEF Fits, StatusFits, LockFits, Mid, Advance, Kept, Flags, PendingRepair, Terminal
<1>4. PtrFits'
  BY <1>1, PointersKept DEF Fits, PtrFits, Mid, Advance, Putting, Terminal
<1>5. DiskFits'
  BY <1>1, DisksKept DEF Fits, DiskFits, Mid, Advance, Terminal
<1> QED
  BY <1>2, <1>3, <1>4, <1>5 DEF Fits

(* A helper that goes through units.                                       *)
LEMMA FlowFits ==
  ASSUME Fits, h.cmd # "none", inst' = inst, Typed', h'.cmd = h.cmd,
         UNCHANGED <<locked, marker, disk>>, SamePointers, Still, J'.status = J.status,
         h.err => h'.err,
         \/ h.cmd = "stop" /\ {h.pc, h'.pc} \subseteq {"isolate", "disable", "stop"}
         \/ /\ h.cmd \in {"restore", "recover", "rollback"}
            /\ {h.pc, h'.pc} \subseteq {"units", "enable"}
         \/ h.cmd = "restore-repair" /\ {h.pc, h'.pc} \subseteq {"disable", "enable", "run"}
         \/ Rolling /\ h.pc = "halt" /\ h'.pc = "halt"
  PROVE  Fits'
<1> USE DEF Still
<1>2. StatusFits'
  BY DEF Fits, StatusFits, Mid, Kept, Terminal, Rolling, Putting, Staging
<1>3. LockFits'
  BY DEF Fits, LockFits, Mid, Kept, Flags, PendingRepair, Terminal, Rolling
<1>4. PtrFits'
  BY PointersKept DEF Fits, PtrFits, Mid, Putting, Terminal, Rolling
<1>5. DiskFits'
  BY DisksKept DEF Fits, DiskFits, Mid, Terminal, Rolling
<1> QED
  BY <1>2, <1>3, <1>4, <1>5 DEF Fits

LEMMA SamePointersIf ==
  ASSUME UNCHANGED <<ptr, side, users>> \/ UNCHANGED <<world, users>>
  PROVE  SamePointers
  BY DEF SamePointers, users, world

LEMMA SimplyFit ==
  /\ Fits /\ CaptureStep => Fits'
  /\ Fits /\ VerifyStep => Fits'
  /\ Fits /\ MigrationStep => Fits'
<1>1. ASSUME Fits, CaptureStep PROVE Fits'
  <2>1. /\ h.cmd # "none" /\ inst' = inst /\ UNCHANGED <<locked, marker, disk>>
        /\ SamePointers /\ (Fail \/ Return)
    BY <1>1, SamePointersIf DEF CaptureStep, At, world
  <2>2. Still /\ J'.status = J.status
    BY <1>1, NothingSaved DEF CaptureStep, Save, Fits, Typed, JournalTyped, Journal, Still, Kept,
       Flags, Arms, Arts
  <2>3. Typed'
    BY <1>1, SimplyTyped DEF Fits
  <2> QED
    BY <1>1, <2>1, <2>2, <2>3, EndFits DEF Advance
<1>2. ASSUME Fits, VerifyStep PROVE Fits'
  <2>1. /\ h.cmd # "none" /\ inst' = inst /\ UNCHANGED <<locked, marker, disk>>
        /\ SamePointers /\ (Fail \/ Return)
    BY <1>2, SamePointersIf DEF VerifyStep, At, world
  <2>2. Typed'
    BY <1>2, SimplyTyped DEF Fits
  <2>3. CASE J.status = "services-restored" /\ PointersAreCandidate
             /\ Save([J EXCEPT !.status = "verified"])
    <3>1. J'.status = "verified" /\ Still
      BY <1>2, <2>3, StatusSaved DEF Fits
    <3>2. Candidate
      BY <2>3 DEF PointersAreCandidate, Candidate
    <3> QED
      BY <1>2, <2>1, <2>2, <2>3, <3>1, <3>2, EndFits DEF Advance, Terminal
  <2>4. CASE UNCHANGED J
    BY <1>2, <2>1, <2>2, <2>4, NothingSaved, EndFits DEF Advance
  <2> QED
    BY <1>2, <2>3, <2>4 DEF VerifyStep
<1>3. ASSUME Fits, MigrationStep PROVE Fits'
  <2>1. /\ h.cmd # "none" /\ inst' = inst /\ UNCHANGED <<locked, marker, disk>>
        /\ SamePointers /\ (Fail \/ Return)
    BY <1>3, SamePointersIf DEF MigrationStep, At
  <2>2. Still /\ J'.status = J.status
    BY <1>3, NothingSaved DEF MigrationStep, Save, Fits, Typed, JournalTyped, Journal, Still, Kept,
       Flags, Arms, Arts
  <2>3. Typed'
    BY <1>3, MigrationTyped DEF Fits
  <2> QED
    BY <1>3, <2>1, <2>2, <2>3, EndFits DEF Advance
<1> QED
  BY <1>1, <1>2, <1>3

LEMMA StopFits == Fits /\ StopStep => Fits'
<1> SUFFICES ASSUME Fits, StopStep PROVE Fits'
  OBVIOUS
<1>1. /\ h.cmd = "stop" /\ h.cmd # "none" /\ inst' = inst /\ UNCHANGED <<locked, marker, disk>>
      /\ SamePointers
  BY SamePointersIf DEF StopStep
<1>2. Typed' /\ Typed
  BY StopTyped DEF Fits
<1>3. CASE Fail /\ UNCHANGED J
  BY <1>1, <1>2, <1>3, NothingSaved, EndFits DEF Advance
<1>4. CASE /\ J.status = "candidate-staged" \/ h.pc = "stop"
           /\ Save([J EXCEPT !.status = "stopped"]) /\ Return
  <2>1. J'.status = "stopped" /\ Still
    BY <1>2, <1>4, StatusSaved
  <2>2. J.status \notin Terminal
    BY <1>1, <1>4 DEF Fits, StatusFits, Mid, Terminal
  <2> QED
    BY <1>1, <1>2, <1>4, <2>1, <2>2, EndFits DEF Advance
<1>5. CASE /\ J.status = "candidate-staged" /\ h.pc = "start"
           /\ Save([J EXCEPT !.status = "stopping", !.stopping = TRUE])
           /\ GotoWith("isolate", IF J.mode = "repair" THEN WasEnabled ELSE {})
  <2>1. J'.status = "stopping" /\ Still
    BY <1>2, <1>5 DEF Typed, JournalTyped, Journal, Still, Kept, Flags, Arms, Arts, Save
  <2>2. h'.pc = "isolate" /\ h'.cmd = "stop"
    BY <1>1, <1>2, <1>5, Acting DEF GotoWith
  <2> USE DEF Still
  <2>3. StatusFits'
    BY <1>1, <1>5, <2>1, <2>2 DEF Fits, StatusFits, Mid, Kept, Terminal, Rolling, Staging
  <2>4. LockFits'
    BY <1>1, <1>5, <2>1, <2>2 DEF Fits, LockFits, Mid, Kept, PendingRepair, Terminal, Rolling
  <2>5. PtrFits'
    BY <1>1, <2>1, <2>2, PointersKept DEF Fits, PtrFits, Mid, Rolling
  <2>6. DiskFits'
    BY <1>1, <2>1, <2>2, DisksKept DEF Fits, DiskFits, Mid, Rolling
  <2> QED
    BY <1>2, <2>3, <2>4, <2>5, <2>6 DEF Fits
<1>6. CASE /\ h.pc \in {"isolate", "disable", "stop"}
           /\ J' = J \/ Save([J EXCEPT !.disabled = @ \cup {First(h.todo)}])
           /\ \/ Goto("disable") \/ GotoWith("isolate", h.todo \ {First(h.todo)})
              \/ GotoWith("stop", WasActive) \/ (h.pc = "stop" /\ Done(First(h.todo)))
  <2>1. J'.status = J.status /\ Still
    BY <1>2, <1>6, NothingSaved
    DEF Typed, JournalTyped, Journal, Still, Kept, Flags, Arms, Arts, Save
  <2>2. h'.cmd = h.cmd /\ h'.pc \in {"isolate", "disable", "stop"} /\ h'.err = h.err
    BY <1>1, <1>2, <1>6, Acting DEF Goto, GotoWith, Done
  <2> QED
    BY <1>1, <1>2, <1>6, <2>1, <2>2, FlowFits
<1> QED
  BY <1>3, <1>4, <1>5, <1>6 DEF StopStep

LEMMA BeginLockFits == Fits /\ BeginLock => Fits'
<1> SUFFICES ASSUME Fits, BeginLock PROVE Fits'
  OBVIOUS
<1>1. /\ h.cmd = "begin" /\ h.cmd # "none" /\ h.pc = "start" /\ inst' = inst
      /\ UNCHANGED <<ptr, unit, marker, ledger, edited, kind0>>
  BY DEF BeginLock, At
<1>2. Typed /\ Typed'
  BY BeginLockTyped DEF Fits
<1>3. CASE Fail /\ UNCHANGED <<J, locked, side, disk, touched>>
  BY <1>1, <1>2, <1>3, NothingSaved, EndFits DEF Advance, SamePointers
<1>4. CASE /\ marker = 0 /\ ~locked /\ J' = Fresh(J.id + 1, inst.mode) /\ locked' = TRUE
           /\ side' = [p \in Pointers |-> Gone] /\ disk' = [k \in Artifacts |-> NoDisk]
           /\ touched' = {} /\ Goto("capture")
  <2>1. /\ J'.id = J.id + 1 /\ J'.status = "preparing" /\ J'.mode = inst.mode /\ J'.prior = ptr
        /\ J'.armed = [p \in Pointers |-> FALSE] /\ J'.art = [k \in Artifacts |-> NoRecord]
    BY <1>4 DEF Fresh
  <2>2. h'.cmd = "begin" /\ h'.pc = "capture"
    BY <1>1, <1>2, <1>4, GotoTyped DEF Places
  <2>3. J.id \in Nat /\ inst.at = "begin" /\ J'.id # 0
    <3>1. J.id \in Nat
      BY <1>2, Constants DEF Typed, JournalTyped, Journal
    <3>2. inst.at = "begin"
      BY <1>1, <1>2, Acting DEF CommandOf
    <3> QED
      BY <2>1, <3>1, <3>2
  <2>4. StatusFits'
    BY <2>1, <2>2, <2>3 DEF StatusFits, Mid, Terminal, Rolling, Staging
  <2>5. LockFits'
    BY <1>1, <1>4, <2>1, <2>2, <2>3 DEF LockFits, Mid, PendingRepair, Terminal, Rolling
  <2>6. PtrCore' /\ Disarmed' /\ Older'
    <3>1. ASSUME NEW p \in Pointers
          PROVE  /\ ptr'[p] = ptr[p] /\ side'[p] = Gone /\ J'.prior[p] = ptr[p] /\ ~J'.armed[p]
                 /\ kind0'[p] = "missing" => ptr[p] # 0
                 /\ Below(ptr[p], J.id + 1)
      BY <1>1, <1>4, <2>1 DEF Fits, PtrFits, PtrCore
    <3>2. ASSUME NEW v, Below(v, J.id + 1)
          PROVE  Below(v, J'.id) /\ Below(v, J'.id + 1)
      BY <2>1, <2>3, <3>2 DEF Below
    <3>3. Gone # 0 /\ Below(Gone, J'.id + 1)
      BY Constants DEF Below
    <3>4. PtrCore'
      BY <2>1, <3>1, <3>2, <3>3 DEF PtrCore
    <3>5. Disarmed' /\ Older'
      BY <3>1, <3>2 DEF Disarmed, Older
    <3> QED
      BY <3>4, <3>5
  <2>7. PtrFits'
    BY <2>1, <2>2, <2>6 DEF PtrFits, Rolling
  <2>8. DiskCore' /\ Clean'
    BY <1>4, <2>1 DEF DiskCore, Clean, Rec, NoRecord, NoDisk, Out
  <2>9. DiskFits'
    BY <2>1, <2>2, <2>8 DEF DiskFits, Rolling
  <2> QED
    BY <1>2, <2>4, <2>5, <2>7, <2>9 DEF Fits
<1> QED
  BY <1>1, <1>3, <1>4 DEF BeginLock, Save

LEMMA BeginCaptureFits ==
  ASSUME Fits, NEW inv \in Inventories, BeginCapture(inv)
  PROVE  Fits'
<1>1. /\ h.cmd = "begin" /\ h.cmd # "none" /\ h.pc = "capture" /\ inst' = inst
      /\ UNCHANGED <<world, ptr, side, disk, marker, kind0, touched>>
  BY DEF BeginCapture, At, world
<1>2. Typed /\ Typed' /\ inst.at = "begin"
  BY <1>1, BeginCaptureTyped, Acting DEF Fits, CommandOf
<1>3. /\ J.status = "preparing" /\ marker = 0 /\ locked /\ J.id # 0
      /\ Disarmed /\ Older /\ PtrCore /\ Clean /\ DiskCore
  BY <1>1 DEF Fits, StatusFits, LockFits, PtrFits, DiskFits, Mid, Terminal
<1>4. /\ J'.id = J.id /\ J'.mode = J.mode /\ Flags /\ Arms /\ Arts
      /\ h'.cmd = "begin" /\ h'.pc \in {"failed", "returned"}
      /\ \/ J'.status = "rolled-back" /\ J'.prior = J.prior
         \/ J'.status = "prepared" /\ J'.prior = ptr /\ locked' = locked
  <2>1. h'.cmd = "begin" /\ h'.pc \in {"failed", "returned"}
    BY <1>1, <1>2, GotoTyped DEF BeginCapture, Fail, Return, Places
  <2>2. CASE J' = [J EXCEPT !.status = "rolled-back"]
    BY <1>2, <2>1, <2>2, StatusSaved DEF Save, Still, Kept
  <2>3. CASE /\ J' = [J EXCEPT !.prior = ptr, !.inventory = inv, !.status = "prepared",
                            !.units = [u \in Units |-> [act |-> unit[u].act,
                                                        enabled |-> unit[u].enabled]]]
             /\ locked' = locked
    BY <1>2, <2>1, <2>3 DEF Typed, JournalTyped, Journal, Flags, Arms, Arts
  <2> QED
    BY <2>2, <2>3 DEF BeginCapture, Save
<1>5. StatusFits'
  BY <1>3, <1>4 DEF StatusFits, Mid
<1>6. LockFits'
  BY <1>1, <1>2, <1>3, <1>4 DEF LockFits, Mid, PendingRepair, Terminal, Rolling
<1>7. PtrCore' /\ Disarmed'
  <2>1. ASSUME NEW p \in Pointers
        PROVE  /\ ptr'[p] = ptr[p] /\ side'[p] = side[p] /\ ~J'.armed[p]
               /\ J'.prior[p] = J.prior[p] \/ J'.prior[p] = ptr[p]
               /\ p \notin touched' => ptr'[p] = J'.prior[p]
    BY <1>1, <1>3, <1>4 DEF Disarmed, PtrCore, Arms
  <2> QED
    BY <1>1, <1>3, <1>4, <2>1 DEF PtrCore, Disarmed, Older
<1>8. PtrFits'
  BY <1>4, <1>7 DEF PtrFits, Mid, Rolling
<1>9. DiskFits'
  <2>1. DiskCore' /\ Clean'
    BY <1>1, <1>3, <1>4, DisksKept
  <2>2. \A k \in Artifacts : disk'[k].at # "quarantine"
    BY <2>1 DEF Clean, Out
  <2> QED
    BY <1>4, <2>1, <2>2 DEF DiskFits, Mid, Rolling
<1> QED
  BY <1>2, <1>5, <1>6, <1>8, <1>9 DEF Fits

(* A helper that builds a candidate.                                       *)
LEMMA StagingFits ==
  ASSUME Fits, h.cmd \in Staging, inst' = inst, Typed', h'.cmd = h.cmd,
         UNCHANGED <<locked, marker>>, SamePointers, Kept, Flags, Arms, J'.status = J.status,
         J.status \in {"prepared", "candidate-staged"},
         h'.pc \in {"authorized", "made", "marked", "renamed", "unmarked", "returned"},
         DiskCore', h.cmd = "record venv" /\ Mid' => Rec("venv")'.created,
         \A k \in Artifacts : disk'[k].at # "quarantine"
  PROVE  Fits'
<1>1. StatusFits'
  BY DEF Fits, StatusFits, Mid, Kept, Terminal, Rolling, Staging, Putting
<1>2. LockFits'
  BY DEF Fits, LockFits, Mid, Kept, Flags, PendingRepair, Terminal, Rolling, Staging
<1>3. PtrFits'
  BY PointersKept DEF Fits, PtrFits, Mid, Putting, Terminal, Rolling, Staging
<1>4. DiskFits'
  BY DEF Fits, DiskFits, Mid, Terminal, Rolling, Staging
<1> QED
  BY <1>1, <1>2, <1>3, <1>4 DEF Fits

LEMMA ReserveFits ==
  ASSUME Fits, NEW k \in {"source-temp", "venv"}, ReserveStep(k)
  PROVE  Fits'
<1> DEFINE c == IF k = "venv" THEN "reserve venv" ELSE "reserve source-temp"
<1>1. /\ h.cmd = c /\ inst' = inst /\ k \in Artifacts /\ k # "source"
      /\ UNCHANGED <<locked, ptr, side, unit, marker, ledger, users>>
      /\ h.cmd # "none" /\ h.cmd \in Staging /\ h.cmd # "record venv"
  BY DEF ReserveStep, At, Artifacts, Staging
<1> HIDE DEF c
<1>2. Typed /\ Typed' /\ SamePointers
  BY <1>1, ReserveTyped, SamePointersIf DEF Fits
<1>3. CASE UNCHANGED <<J, disk>> /\ Fail
  BY <1>1, <1>2, <1>3, NothingSaved, EndFits DEF Advance
<1>4. /\ DiskCore
      /\ J.status \in {"prepared", "candidate-staged"} =>
           \A l \in Artifacts : disk[l].at # "quarantine"
      /\ Mid => J.status \in {"prepared", "candidate-staged"}
  BY <1>1 DEF Fits, DiskFits, StatusFits
<1>5. \A l \in Artifacts : /\ disk[l] \in [at : {"absent", "staging", "path", "quarantine"},
                                           marked : BOOLEAN]
                           /\ Rec(l) \in Record
  BY <1>2, RecTyped DEF Typed, WorldTyped
<1>6. CASE /\ UNCHANGED disk /\ Goto("authorized") /\ Save([J EXCEPT !.art[k].reserving = TRUE])
           /\ J.status \in {"prepared", "candidate-staged"}
           /\ ~Rec(k).created /\ disk[k].at # "path"
  <2>1. Kept /\ Flags /\ Arms /\ J'.status = J.status
    BY <1>2, <1>6 DEF Typed, JournalTyped, Journal, Kept, Flags, Arms, Save
  <2>2. \A l \in Artifacts : Rec(l)' = IF l = k THEN [Rec(k) EXCEPT !.reserving = TRUE] ELSE Rec(l)
    BY <1>1, <1>2, <1>6 DEF Typed, JournalTyped, Journal, Rec, Record, Save
  <2>3. DiskCore'
    BY <1>1, <1>4, <1>5, <1>6, <2>2 DEF DiskCore, Out, Record
  <2>4. h'.cmd = h.cmd /\ h'.pc = "authorized"
    BY <1>1, <1>2, <1>6, GotoTyped DEF Places
  <2> QED
    BY <1>1, <1>2, <1>4, <1>6, <2>1, <2>3, <2>4, StagingFits
<1>7. CASE UNCHANGED J /\ \/ Put(k, "staging", FALSE) /\ h.pc = "authorized" /\ Goto("made")
                          \/ Put(k, "staging", TRUE) /\ h.pc = "made" /\ Goto("marked")
                          \/ Put(k, "path", TRUE) /\ h.pc = "marked" /\ Goto("renamed")
  <2>1. h'.cmd = h.cmd /\ h'.pc \in {"made", "marked", "renamed"}
    BY <1>1, <1>2, <1>7, GotoTyped DEF Places
  <2>2. Kept /\ Flags /\ Arms /\ J'.status = J.status /\ \A l \in Artifacts : Rec(l)' = Rec(l)
    BY <1>7 DEF Kept, Flags, Arms, Rec
  <2>3. J.status \in {"prepared", "candidate-staged"}
    BY <1>4, <1>7 DEF Mid
  <2>4. \A l \in Artifacts : \/ l # k /\ disk'[l] = disk[l]
                             \/ l = k /\ disk'[l].at = "staging"
                             \/ l = k /\ disk'[l].at = "path" /\ disk'[l].marked
    <3>1. DOMAIN disk = Artifacts
      BY <1>2 DEF Typed, WorldTyped
    <3>2. PICK r \in {[at |-> "staging", marked |-> FALSE], [at |-> "staging", marked |-> TRUE],
                      [at |-> "path", marked |-> TRUE]} : disk' = [disk EXCEPT ![k] = r]
      BY <1>7 DEF Put
    <3>3. r.at = "staging" \/ (r.at = "path" /\ r.marked)
      OBVIOUS
    <3>4. \A l \in Artifacts : disk'[l] = IF l = k THEN r ELSE disk[l]
      BY <3>1, <3>2
    <3> QED
      BY <3>3, <3>4
  <2>5. DiskCore' /\ \A l \in Artifacts : disk'[l].at # "quarantine"
    BY <1>4, <2>2, <2>3, <2>4 DEF DiskCore, Out
  <2> QED
    BY <1>1, <1>2, <2>1, <2>2, <2>3, <2>5, StagingFits
<1>8. CASE /\ UNCHANGED disk /\ Return /\ h.pc = "renamed"
           /\ Save([J EXCEPT !.art[k].reserving = FALSE, !.art[k].created = TRUE])
  <2>1. Kept /\ Flags /\ Arms /\ J'.status = J.status
    BY <1>2, <1>8 DEF Typed, JournalTyped, Journal, Kept, Flags, Arms, Save
  <2>2. \A l \in Artifacts :
          Rec(l)' = IF l = k THEN [Rec(k) EXCEPT !.reserving = FALSE, !.created = TRUE] ELSE Rec(l)
    BY <1>1, <1>2, <1>8 DEF Typed, JournalTyped, Journal, Rec, Record, Save
  <2>3. DiskCore'
    BY <1>1, <1>4, <1>5, <1>8, <2>2 DEF DiskCore, Out, Record
  <2>4. h'.cmd = h.cmd /\ h'.pc = "returned"
    BY <1>1, <1>2, <1>8, GotoTyped DEF Places, Return
  <2>5. J.status \in {"prepared", "candidate-staged"}
    BY <1>4, <1>8 DEF Mid
  <2> QED
    BY <1>1, <1>2, <1>4, <1>8, <2>1, <2>3, <2>4, <2>5, StagingFits
<1> QED
  BY <1>1, <1>3, <1>6, <1>7, <1>8 DEF ReserveStep, At, c

LEMMA PromoteSourceFits == Fits /\ PromoteSourceStep => Fits'
<1> SUFFICES ASSUME Fits, PromoteSourceStep PROVE Fits'
  OBVIOUS
<1>1. /\ h.cmd = "promote-source" /\ inst' = inst /\ {"source", "source-temp"} \subseteq Artifacts
      /\ UNCHANGED <<locked, ptr, side, unit, marker, ledger, users>>
      /\ h.cmd # "none" /\ h.cmd \in Staging /\ h.cmd # "record venv"
  BY DEF PromoteSourceStep, At, Artifacts, Staging
<1>2. Typed /\ Typed' /\ SamePointers
  BY <1>1, PromoteSourceTyped, SamePointersIf DEF Fits
<1>3. CASE UNCHANGED <<J, disk>> /\ Fail
  BY <1>1, <1>2, <1>3, NothingSaved, EndFits DEF Advance
<1>4. /\ DiskCore /\ ~Rec("source").reserving
      /\ J.status \in {"prepared", "candidate-staged"} =>
           \A l \in Artifacts : disk[l].at # "quarantine"
      /\ Mid => J.status \in {"prepared", "candidate-staged"}
  BY <1>1 DEF Fits, DiskFits, StatusFits, DiskCore
<1>5. ASSUME UNCHANGED disk, Kept, Flags, Arms, J'.status = J.status,
             J.status \in {"prepared", "candidate-staged"},
             ~Rec("source")'.reserving, Rec("venv")' = Rec("venv"),
             Rec("source-temp")'.reserving = Rec("source-temp").reserving,
             Rec("source-temp")'.created => Rec("source-temp").created,
             Goto("authorized") \/ Goto("returned")
      PROVE  Fits'
  <2>1. h'.cmd = h.cmd /\ h'.pc \in {"authorized", "returned"}
    BY <1>1, <1>2, <1>5, GotoTyped DEF Places
  <2>2. DiskCore'
    BY <1>4, <1>5 DEF DiskCore, Artifacts
  <2> QED
    BY <1>1, <1>2, <1>4, <1>5, <2>1, <2>2, StagingFits
<1>6. CASE /\ UNCHANGED disk /\ Goto("authorized")
           /\ J.status \in {"prepared", "candidate-staged"}
           /\ Save([J EXCEPT !.art["source"].created = TRUE,
                             !.art["source"].transfer = "started"])
  <2>1. Kept /\ Flags /\ Arms /\ J'.status = J.status
    BY <1>2, <1>6 DEF Typed, JournalTyped, Journal, Kept, Flags, Arms, Save
  <2>2. /\ Rec("source")' = [Rec("source") EXCEPT !.created = TRUE, !.transfer = "started"]
        /\ Rec("source-temp")' = Rec("source-temp") /\ Rec("venv")' = Rec("venv")
    BY <1>1, <1>2, <1>6 DEF Typed, JournalTyped, Journal, Rec, Record, Save, Artifacts
  <2>3. ~Rec("source")'.reserving
    BY <1>1, <1>2, <1>4, <2>2, RecTyped DEF Record
  <2> QED
    BY <1>5, <1>6, <2>1, <2>2, <2>3
<1>7. CASE /\ disk' = [disk EXCEPT !["source"] = disk["source-temp"], !["source-temp"] = NoDisk]
           /\ Goto("renamed") /\ UNCHANGED J /\ h.pc = "authorized"
  <2>1. h'.cmd = h.cmd /\ h'.pc = "renamed"
    BY <1>1, <1>2, <1>7, GotoTyped DEF Places
  <2>2. Kept /\ Flags /\ Arms /\ J'.status = J.status /\ \A l \in Artifacts : Rec(l)' = Rec(l)
    BY <1>7 DEF Kept, Flags, Arms, Rec
  <2>3. J.status \in {"prepared", "candidate-staged"}
    BY <1>4, <1>7 DEF Mid
  <2>4. /\ disk'["source"] = disk["source-temp"] /\ disk'["source-temp"] = NoDisk
        /\ disk'["venv"] = disk["venv"]
    BY <1>1, <1>2, <1>7 DEF Typed, WorldTyped, Artifacts
  <2>5. NoDisk.at = "absent"
    BY DEF NoDisk
  <2>6. DiskCore'
    BY <1>4, <2>2, <2>4, <2>5 DEF DiskCore, Artifacts, Out
  <2>7. \A l \in Artifacts : disk'[l].at # "quarantine"
    BY <1>4, <2>3, <2>4, <2>5 DEF Artifacts
  <2> QED
    BY <1>1, <1>2, <2>1, <2>2, <2>3, <2>6, <2>7, StagingFits
<1>8. CASE /\ UNCHANGED disk /\ Return /\ h.pc = "renamed"
           /\ Save([J EXCEPT !.art["source"].transfer = "no",
                             !.art["source-temp"].created = FALSE,
                             !.art["source-temp"].transfer = "done"])
  <2>1. Kept /\ Flags /\ Arms /\ J'.status = J.status
    BY <1>2, <1>8 DEF Typed, JournalTyped, Journal, Kept, Flags, Arms, Save
  <2>2. /\ Rec("source")' = [Rec("source") EXCEPT !.transfer = "no"]
        /\ Rec("source-temp")' = [Rec("source-temp") EXCEPT !.created = FALSE, !.transfer = "done"]
        /\ Rec("venv")' = Rec("venv")
    BY <1>1, <1>2, <1>8 DEF Typed, JournalTyped, Journal, Rec, Record, Save, Artifacts
  <2>3. /\ ~Rec("source")'.reserving /\ Rec("source-temp")'.created = FALSE
        /\ Rec("source-temp")'.reserving = Rec("source-temp").reserving
    BY <1>1, <1>2, <1>4, <2>2, RecTyped DEF Record
  <2>4. J.status \in {"prepared", "candidate-staged"}
    BY <1>4, <1>8 DEF Mid
  <2> QED
    BY <1>5, <1>8, <2>1, <2>2, <2>3, <2>4 DEF Return
<1> QED
  BY <1>3, <1>6, <1>7, <1>8 DEF PromoteSourceStep, At

LEMMA RecordStepFits ==
  ASSUME Fits, NEW k \in Pointers, RecordStep(k)
  PROVE  Fits'
<1> DEFINE c == IF k = "venv" THEN "record venv" ELSE "record source"
<1>1. /\ h.cmd = c /\ inst' = inst /\ k \in Artifacts /\ k # "source-temp"
      /\ UNCHANGED <<locked, ptr, side, unit, marker, ledger, users>>
      /\ h.cmd # "none" /\ h.cmd \in Staging /\ (h.cmd = "record venv" <=> k = "venv")
  BY DEF RecordStep, At, Artifacts, Staging, Pointers
<1> HIDE DEF c
<1>2. Typed /\ Typed' /\ SamePointers
  BY <1>1, RecordStepTyped, SamePointersIf DEF Fits
<1>3. CASE UNCHANGED <<J, disk>> /\ Fail
  BY <1>1, <1>2, <1>3, NothingSaved, EndFits DEF Advance
<1>4. /\ DiskCore
      /\ J.status \in {"prepared", "candidate-staged"} =>
           \A l \in Artifacts : disk[l].at # "quarantine"
      /\ Mid => /\ J.status \in {"prepared", "candidate-staged"}
                /\ k = "venv" => Rec("venv").created
  BY <1>1 DEF Fits, DiskFits, StatusFits
<1>5. CASE /\ UNCHANGED disk /\ Goto("authorized") /\ Save([J EXCEPT !.art[k].unmarked = TRUE])
           /\ J.status \in {"prepared", "candidate-staged"} /\ Rec(k).created
  <2>1. Kept /\ Flags /\ Arms /\ J'.status = J.status
    BY <1>2, <1>5 DEF Typed, JournalTyped, Journal, Kept, Flags, Arms, Save
  <2>2. \A l \in Artifacts : Rec(l)' = IF l = k THEN [Rec(k) EXCEPT !.unmarked = TRUE] ELSE Rec(l)
    BY <1>1, <1>2, <1>5 DEF Typed, JournalTyped, Journal, Rec, Record, Save
  <2>3. \A l \in Artifacts : /\ Rec(l)'.reserving = Rec(l).reserving
                             /\ Rec(l)'.created = Rec(l).created
    BY <1>1, <1>2, <2>2, RecTyped DEF Record
  <2>4. DiskCore'
    BY <1>4, <1>5, <2>3 DEF DiskCore
  <2>5. h'.cmd = h.cmd /\ h'.pc = "authorized"
    BY <1>1, <1>2, <1>5, GotoTyped DEF Places
  <2>6. h.cmd = "record venv" => Rec("venv")'.created
    BY <1>1, <1>5, <2>3
  <2> QED
    BY <1>1, <1>2, <1>4, <1>5, <2>1, <2>4, <2>5, <2>6, StagingFits
<1>6. CASE UNCHANGED J /\ h.pc = "authorized" /\ Put(k, "path", FALSE) /\ Goto("unmarked")
  <2>1. h'.cmd = h.cmd /\ h'.pc = "unmarked"
    BY <1>1, <1>2, <1>6, GotoTyped DEF Places
  <2>2. Kept /\ Flags /\ Arms /\ J'.status = J.status /\ \A l \in Artifacts : Rec(l)' = Rec(l)
    BY <1>6 DEF Kept, Flags, Arms, Rec
  <2>3. J.status \in {"prepared", "candidate-staged"} /\ (k = "venv" => Rec("venv").created)
    BY <1>4, <1>6 DEF Mid
  <2>4. ~Rec(k).reserving
    BY <1>1, <1>4, <2>3 DEF DiskCore, Pointers
  <2>5. \A l \in Artifacts : disk'[l] = IF l = k THEN [at |-> "path", marked |-> FALSE] ELSE disk[l]
    BY <1>2, <1>6 DEF Put, Typed, WorldTyped
  <2>6. DiskCore' /\ \A l \in Artifacts : disk'[l].at # "quarantine"
    BY <1>4, <2>2, <2>3, <2>4, <2>5 DEF DiskCore
  <2>7. h.cmd = "record venv" => Rec("venv")'.created
    BY <1>1, <2>2, <2>3 DEF Artifacts
  <2> QED
    BY <1>1, <1>2, <2>1, <2>2, <2>3, <2>6, <2>7, StagingFits
<1>7. CASE /\ UNCHANGED disk /\ Return /\ h.pc = "unmarked"
           /\ Save([J EXCEPT !.ready = @ \cup {k}, !.status = "candidate-staged",
                             !.gate = IF k = "source" THEN FALSE ELSE @])
  <2>1. Still /\ J'.status = "candidate-staged"
    BY <1>2, <1>7 DEF Typed, JournalTyped, Journal, Still, Kept, Flags, Arms, Arts, Save
  <2>2. J.status \in {"prepared", "candidate-staged"}
    BY <1>4, <1>7 DEF Mid
  <2> QED
    BY <1>1, <1>2, <1>7, <2>1, <2>2, EndFits DEF Advance
<1> QED
  BY <1>1, <1>3, <1>5, <1>6, <1>7 DEF RecordStep, At, c

(* A helper that swaps the pointers.                                       *)
LEMMA PromotingFits ==
  ASSUME Fits, h.cmd = "promote", inst' = inst, Typed', h'.cmd = h.cmd,
         UNCHANGED <<locked, marker, disk>>, Kept, Flags, Arts,
         J.status \notin Terminal, J'.status = "promoting", PtrCore',
         h'.pc \in {"arm", "move", "swap", "swap back", "swapped", "failed"},
         h'.pc \in {"move", "swap", "swap back", "swapped"} => J'.armed[NextPointer']
  PROVE  Fits'
<1>1. StatusFits'
  BY DEF Fits, StatusFits, Mid, Kept, Terminal, Rolling, Staging, Putting
<1>2. LockFits'
  BY DEF Fits, LockFits, Mid, Kept, Flags, PendingRepair, Terminal, Rolling
<1>3. PtrFits'
  BY DEF PtrFits, Mid, Rolling
<1>4. DiskFits'
  BY DisksKept DEF Fits, DiskFits, Mid, Terminal, Rolling
<1> QED
  BY <1>1, <1>2, <1>3, <1>4 DEF Fits

LEMMA OwnRelease ==
  ASSUME Typed
  PROVE  J.id \in Nat /\ Below(J.id, J.id + 1) /\ Below(Gone, J.id + 1) /\ Gone # 0
<1>1. J.id \in 0..MaxTx
  BY DEF Typed, JournalTyped, Journal
<1>2. MaxTx \in Nat /\ Gone \notin Nat
  BY UpdateAssumption
<1>3. J.id \in Nat
  BY <1>1, <1>2
<1> QED
  BY <1>2, <1>3 DEF Below

LEMMA PromoteFits == Fits /\ PromoteStep => Fits'
<1> SUFFICES ASSUME Fits, PromoteStep PROVE Fits'
  OBVIOUS
<1>1. /\ h.cmd = "promote" /\ h.cmd # "none" /\ inst' = inst
      /\ UNCHANGED <<locked, disk, unit, marker, ledger, users>>
  BY DEF PromoteStep
<1>2. Typed /\ Typed'
  BY PromoteTyped DEF Fits
<1>3. /\ ptr \in [Pointers -> Releases] /\ side \in [Pointers -> Releases]
      /\ J.armed \in [Pointers -> BOOLEAN] /\ J.back \in [Pointers -> BOOLEAN]
      /\ kind0' = kind0 /\ touched' = touched /\ PtrCore
      /\ J.status # "promoting" \/ J.status \notin Terminal
      /\ Mid => J.status = "promoting" /\ J.status \notin Terminal /\ J.id # 0
  BY <1>1, <1>2 DEF Typed, WorldTyped, JournalTyped, Journal, Fits, StatusFits, PtrFits, users,
     Terminal
<1>4. CASE Fail /\ UNCHANGED <<J, ptr, side>>
  BY <1>1, <1>2, <1>4, NothingSaved, SamePointersIf, EndFits DEF Advance
<1>5. CASE /\ UNCHANGED <<ptr, side>> /\ Save([J EXCEPT !.status = "promoting"])
           /\ J.status = "stopped" /\ GotoWith("arm", Only(J.mode))
  <2>1. J'.status = "promoting" /\ Still
    BY <1>2, <1>5, StatusSaved
  <2>2. h'.cmd = h.cmd /\ h'.pc = "arm"
    BY <1>1, <1>2, <1>5, Acting DEF GotoWith
  <2>3. PtrCore'
    BY <1>1, <1>3, <1>5, <2>1, SamePointersIf, PointersKept DEF Still
  <2> QED
    BY <1>1, <1>2, <1>5, <2>1, <2>2, <2>3, PromotingFits DEF Still, Terminal
<1>6. ASSUME h.pc = "arm", h.todo # {}, UNCHANGED <<ptr, side>>, NEW l \in {"move", "swap"},
             Save([J EXCEPT !.armed[NextPointer] = TRUE, !.back[NextPointer] = FALSE]), Goto(l)
      PROVE  Fits'
  <2>1. PICK p \in Pointers : p = NextPointer /\ p \in Only(J.mode)
    BY <1>2, <1>6, NextPointerIs
  <2>2. Kept /\ Flags /\ Arts /\ J'.status = J.status
    BY <1>2, <1>6 DEF Typed, JournalTyped, Journal, Kept, Flags, Arts, Save
  <2>3. J'.armed = [J.armed EXCEPT ![p] = TRUE] /\ J'.back = [J.back EXCEPT ![p] = FALSE]
    BY <1>2, <1>6, <2>1 DEF Typed, JournalTyped, Journal, Save
  <2>4. h'.cmd = h.cmd /\ h'.pc = l /\ h'.todo = h.todo
    BY <1>1, <1>2, <1>6, GotoTyped DEF Places
  <2>5. NextPointer' = p /\ J'.armed[p]
    BY <1>3, <2>1, <2>3, <2>4 DEF NextPointer
  <2>6. PtrCore'
    <3> SUFFICES ASSUME NEW q \in Pointers
        PROVE  /\ q \notin touched' /\ ~J'.armed[q] => ptr'[q] = J'.prior[q]
               /\ J'.armed[q] => q \in Only(J'.mode) /\ ~J'.back[q]
               /\ kind0'[q] = "missing" => ptr'[q] # 0 /\ side'[q] # 0 /\ J'.prior[q] # 0
               /\ Below(ptr'[q], J'.id + 1) /\ Below(side'[q], J'.id + 1)
               /\ J'.id # 0 => Below(J'.prior[q], J'.id)
      BY DEF PtrCore, Below
    <3>1. /\ J'.armed[q] = IF q = p THEN TRUE ELSE J.armed[q]
          /\ J'.back[q] = IF q = p THEN FALSE ELSE J.back[q]
      BY <1>3, <2>3
    <3> QED
      BY <1>3, <1>6, <2>1, <2>2, <3>1 DEF Kept, PtrCore
  <2> QED
    BY <1>1, <1>2, <1>3, <1>6, <2>2, <2>4, <2>5, <2>6, PromotingFits DEF Mid
<1>7. ASSUME h.pc \in {"move", "swap", "swap back"}, UNCHANGED J, h.todo # {},
             NEW v \in {Gone, J.id, side[NextPointer]}, NEW s \in {side[NextPointer], ptr[NextPointer]},
             ptr' = [ptr EXCEPT ![NextPointer] = v], side' = [side EXCEPT ![NextPointer] = s],
             NEW l \in {"swap", "swap back", "swapped", "failed"}, Goto(l)
      PROVE  Fits'
  <2>1. PICK p \in Pointers : p = NextPointer /\ J.armed[p]
    BY <1>2, <1>7, NextPointerIs DEF Fits, PtrFits
  <2>2. Kept /\ Flags /\ Arts /\ Arms /\ J'.status = "promoting" /\ J.id # 0
        /\ J.status \notin Terminal
    BY <1>3, <1>7, NothingSaved DEF Still, Mid
  <2>3. h'.cmd = h.cmd /\ h'.pc = l /\ h'.todo = h.todo
    BY <1>1, <1>2, <1>7, GotoTyped DEF Places
  <2>4. NextPointer' = p
    BY <2>1, <2>3 DEF NextPointer
  <2>5. J.id \in Nat /\ Below(J.id, J.id + 1) /\ Below(Gone, J.id + 1) /\ Gone # 0
    BY <1>2, OwnRelease
  <2>6. PtrCore'
    <3> SUFFICES ASSUME NEW q \in Pointers
        PROVE  /\ q \notin touched' /\ ~J'.armed[q] => ptr'[q] = J'.prior[q]
               /\ J'.armed[q] => q \in Only(J'.mode) /\ ~J'.back[q]
               /\ kind0'[q] = "missing" => ptr'[q] # 0 /\ side'[q] # 0 /\ J'.prior[q] # 0
               /\ Below(ptr'[q], J'.id + 1) /\ Below(side'[q], J'.id + 1)
               /\ J'.id # 0 => Below(J'.prior[q], J'.id)
      BY DEF PtrCore, Below
    <3>1. /\ ptr'[q] = IF q = p THEN v ELSE ptr[q]
          /\ side'[q] = IF q = p THEN s ELSE side[q]
      BY <1>3, <1>7, <2>1
    <3>2. q # p \/ J.armed[q]
      BY <2>1
    <3>3. /\ v = Gone \/ v = J.id \/ v = side[p]
          /\ s = side[p] \/ s = ptr[p]
      BY <1>7, <2>1
    <3> QED
      BY <1>3, <1>7, <2>1, <2>2, <2>5, <3>1, <3>2, <3>3 DEF PtrCore
  <2> QED
    BY <1>1, <1>2, <1>7, <2>1, <2>2, <2>3, <2>4, <2>6, PromotingFits
<1>8. h.pc \in {"move", "swap", "swap back", "swapped"} => h.todo # {}
  BY <1>2 DEF Typed, TodoFits
<1>9. CASE /\ h.pc = "move" /\ UNCHANGED J /\ Goto("swap")
           /\ side' = [side EXCEPT ![NextPointer] = ptr[NextPointer]]
           /\ ptr' = [ptr EXCEPT ![NextPointer] = Gone]
  BY <1>7, <1>8, <1>9
<1>10. CASE /\ h.pc = "swap" /\ UNCHANGED J /\ ptr' = [ptr EXCEPT ![NextPointer] = J.id]
            /\ side' = [side EXCEPT ![NextPointer] = ptr[NextPointer]] \/ side' = side
            /\ Goto("swap back") \/ Goto("swapped")
  <2>1. side = [side EXCEPT ![NextPointer] = side[NextPointer]]
    BY <1>3
  <2> QED
    BY <1>7, <1>8, <1>10, <2>1
<1>11. CASE /\ h.pc = "swap back" /\ UNCHANGED J /\ Fail
            /\ ptr' = [ptr EXCEPT ![NextPointer] = side[NextPointer]]
            /\ side' = [side EXCEPT ![NextPointer] = ptr[NextPointer]]
  BY <1>7, <1>8, <1>11 DEF Fail
<1>12. CASE /\ h.pc = "swapped" /\ UNCHANGED <<J, ptr, side>>
            /\ GotoWith("arm", h.todo \ {NextPointer})
  <2>1. Still /\ J'.status = J.status /\ PtrCore'
    BY <1>1, <1>3, <1>12, NothingSaved, SamePointersIf, PointersKept DEF Still
  <2>2. h'.cmd = h.cmd /\ h'.pc = "arm"
    BY <1>1, <1>2, <1>12, Acting DEF GotoWith
  <2> QED
    BY <1>1, <1>2, <1>3, <1>12, <2>1, <2>2, PromotingFits DEF Still, Mid
<1>13. CASE h.pc = "arm" /\ UNCHANGED <<ptr, side>> /\ Save([J EXCEPT !.status = "promoted"]) /\ Return
  <2>1. Still /\ J'.status = "promoted"
    BY <1>2, <1>13, StatusSaved
  <2> QED
    BY <1>1, <1>2, <1>3, <1>13, <2>1, SamePointersIf, EndFits DEF Advance, Mid
<1> QED
  BY <1>4, <1>5, <1>6, <1>9, <1>10, <1>11, <1>12, <1>13 DEF PromoteStep

(* A step of a helper that is past its start and changes none of the       *)
(* pointers, directories, lock and marker.                                 *)
LEMMA CommitFits == Fits /\ CommitStep => Fits'
<1> SUFFICES ASSUME Fits, CommitStep PROVE Fits'
  OBVIOUS
<1>1. /\ h.cmd = "commit" /\ h.cmd # "none" /\ h.pc = "start" /\ inst' = inst
      /\ UNCHANGED <<locked, marker, disk>> /\ SamePointers
  BY SamePointersIf DEF CommitStep, At, world
<1>2. Typed /\ Typed' /\ inst.at = "commit"
  BY <1>1, SimplyTyped, Acting DEF Fits, CommandOf
<1>3. CASE Fail /\ UNCHANGED J
  BY <1>1, <1>2, <1>3, NothingSaved, EndFits DEF Advance
<1>4. CASE J.status = "verified" /\ Save([J EXCEPT !.status = "committed"]) /\ Goto("unlock")
  <2>1. J'.status = "committed" /\ Still
    BY <1>2, <1>4, StatusSaved
  <2>2. h'.cmd = "commit" /\ h'.pc = "unlock"
    BY <1>1, <1>2, <1>4, GotoTyped DEF Places
  <2> USE DEF Still
  <2>3. StatusFits'
    BY <1>1, <1>4, <2>1, <2>2 DEF Fits, StatusFits, Mid, Kept, Terminal, Rolling, Staging
  <2>4. LockFits'
    BY <1>1, <1>2, <1>4, <2>1, <2>2
    DEF Fits, LockFits, Mid, Kept, Flags, PendingRepair, Terminal, Rolling
  <2>5. PtrFits'
    BY <1>1, <1>4, <2>1, <2>2, PointersKept DEF Fits, PtrFits, Mid, Rolling
  <2>6. DiskFits'
    BY <1>1, <1>4, <2>1, <2>2, DisksKept DEF Fits, DiskFits, Mid, Rolling
  <2> QED
    BY <1>2, <2>3, <2>4, <2>5, <2>6 DEF Fits
<1> QED
  BY <1>3, <1>4 DEF CommitStep

LEMMA UnlockFits == Fits /\ Unlock => Fits'
<1> SUFFICES ASSUME Fits, Unlock PROVE Fits'
  OBVIOUS
<1>1. /\ h.pc = "unlock" /\ inst' = inst /\ locked' = FALSE
      /\ UNCHANGED <<J, marker, disk>> /\ SamePointers
  BY SamePointersIf DEF Unlock, world
<1>2. Typed /\ Typed' /\ h.cmd # "none"
  BY <1>1, Active1, SimplyTyped DEF Fits
<1>3. h'.cmd = h.cmd /\ h'.pc = "returned"
  BY <1>2, GotoTyped DEF Unlock, Return, Places
<1>4. J'.status = J.status /\ Still
  BY <1>1, NothingSaved
<1> USE DEF Still
<1>5. StatusFits'
  BY <1>1, <1>3, <1>4 DEF Fits, StatusFits, Mid, Kept
<1>6. LockFits'
  BY <1>1, <1>2, <1>3, <1>4
  DEF Fits, LockFits, StatusFits, Mid, Kept, Flags, PendingRepair, Terminal, Rolling
<1>7. PtrFits'
  BY <1>1, <1>3, <1>4, PointersKept DEF Fits, PtrFits, Mid, Rolling, Putting
<1>8. DiskFits'
  BY <1>1, <1>3, <1>4, DisksKept DEF Fits, DiskFits, Mid, Rolling
<1> QED
  BY <1>2, <1>5, <1>6, <1>7, <1>8 DEF Fits

LEMMA CommitRepairFits == Fits /\ CommitRepairStep => Fits'
<1> SUFFICES ASSUME Fits, CommitRepairStep PROVE Fits'
  OBVIOUS
<1>1. /\ h.cmd = "commit-repair" /\ h.cmd # "none" /\ inst' = inst
      /\ UNCHANGED <<locked, disk>> /\ SamePointers
  BY SamePointersIf DEF CommitRepairStep
<1>2. Typed /\ Typed'
  BY SimplyTyped DEF Fits
<1>3. CASE h.pc = "start" /\ Fail /\ UNCHANGED <<J, marker>>
  BY <1>1, <1>2, <1>3, NothingSaved, EndFits DEF Advance
<1>4. CASE /\ h.pc = "start" /\ J.mode = "repair" /\ J.status = "promoted" /\ marker = 0
           /\ PointersAreCandidate /\ UNCHANGED marker
           /\ Save([J EXCEPT !.complete = FALSE]) /\ Goto("planned")
  <2>1. J'.status = J.status /\ Kept /\ Arms /\ Arts /\ J'.bound = J.bound
    BY <1>2, <1>4 DEF Typed, JournalTyped, Journal, Kept, Arms, Arts, Save
  <2>2. h'.cmd = h.cmd /\ h'.pc = "planned"
    BY <1>1, <1>2, <1>4, GotoTyped DEF Places
  <2>3. Candidate
    BY <1>4 DEF PointersAreCandidate, Candidate
  <2>4. StatusFits'
    BY <1>1, <1>4, <2>1, <2>2 DEF Fits, StatusFits, Mid, Kept, Terminal, Rolling, Staging
  <2>5. LockFits'
    BY <1>1, <1>4, <2>1, <2>2 DEF Fits, LockFits, Mid, Kept, PendingRepair, Terminal, Rolling
  <2>6. PtrFits'
    BY <1>1, <1>4, <2>1, <2>2, <2>3, PointersKept DEF Fits, PtrFits, Mid, Rolling
  <2>7. DiskFits'
    BY <1>1, <1>4, <2>1, <2>2, DisksKept DEF Fits, DiskFits, Mid, Rolling
  <2> QED
    BY <1>2, <2>4, <2>5, <2>6, <2>7 DEF Fits
<1>5. CASE /\ h.pc \in {"planned", "written"}
           /\ \/ marker' = J.id /\ h.pc = "planned" /\ Goto("written") /\ UNCHANGED J
              \/ /\ Save([J EXCEPT !.bound = TRUE]) /\ h.pc = "written" /\ Goto("bound")
                 /\ UNCHANGED marker
  <2>1. J'.status = J.status /\ Kept /\ Arms /\ Arts /\ J'.complete = J.complete
        /\ (h'.pc = "bound" => J'.bound)
    <3>1. CASE Goto("written") /\ UNCHANGED J
      BY <1>2, <1>1, <3>1, GotoTyped DEF Kept, Arms, Arts, Places
    <3>2. CASE Save([J EXCEPT !.bound = TRUE])
      BY <1>2, <3>2 DEF Typed, JournalTyped, Journal, Kept, Arms, Arts, Save
    <3> QED
      BY <1>5, <3>1, <3>2
  <2>2. h'.cmd = h.cmd /\ h'.pc \in {"written", "bound"} /\ marker' = J.id
    BY <1>1, <1>2, <1>5, GotoTyped DEF Places, Fits, LockFits
  <2>3. J.status = "promoted" /\ Candidate /\ J.mode = "repair" /\ J.id # 0
    BY <1>1, <1>5 DEF Fits, StatusFits, PtrFits, LockFits, Mid
  <2>4. StatusFits'
    BY <1>1, <1>5, <2>1, <2>2, <2>3 DEF Fits, StatusFits, Mid, Kept, Terminal, Rolling, Staging
  <2>5. LockFits'
    BY <1>1, <1>5, <2>1, <2>2, <2>3
    DEF Fits, LockFits, Mid, Kept, PendingRepair, Terminal, Rolling
  <2>6. PtrFits'
    BY <1>1, <1>5, <2>1, <2>2, <2>3, PointersKept DEF Fits, PtrFits, Mid, Rolling
  <2>7. DiskFits'
    BY <1>1, <1>5, <2>1, <2>2, <2>3, DisksKept DEF Fits, DiskFits, Mid, Rolling
  <2> QED
    BY <1>2, <2>4, <2>5, <2>6, <2>7 DEF Fits
<1>6. CASE /\ h.pc = "bound" /\ UNCHANGED marker
           /\ Save([J EXCEPT !.status = "committed"]) /\ Return
  <2>1. J'.status = "committed" /\ Still
    BY <1>2, <1>6, StatusSaved
  <2>2. h'.cmd = h.cmd /\ h'.pc = "returned"
    BY <1>1, <1>2, <1>6, GotoTyped DEF Places, Return
  <2> USE DEF Still
  <2>3. J.status = "promoted" /\ Candidate /\ J.mode = "repair" /\ J.id # 0
        /\ marker = J.id /\ J.bound /\ locked
    BY <1>1, <1>6 DEF Fits, StatusFits, PtrFits, LockFits, Mid
  <2>4. StatusFits'
    BY <1>1, <1>6, <2>1, <2>2, <2>3 DEF Fits, StatusFits, Mid, Kept
  <2>5. LockFits'
    BY <1>1, <1>6, <2>1, <2>2, <2>3
    DEF Fits, LockFits, Mid, Kept, Flags, PendingRepair, Terminal, Rolling
  <2>6. PtrFits'
    BY <1>1, <1>6, <2>1, <2>2, <2>3, PointersKept DEF Fits, PtrFits, Mid, Rolling
  <2>7. DiskFits'
    BY <1>1, <1>6, <2>1, <2>2, <2>3, DisksKept DEF Fits, DiskFits, Mid, Rolling
  <2> QED
    BY <1>2, <2>4, <2>5, <2>6, <2>7 DEF Fits
<1> QED
  BY <1>3, <1>4, <1>5, <1>6 DEF CommitRepairStep

LEMMA RestoreStartFits == Fits /\ RestoreStart => Fits'
<1> SUFFICES ASSUME Fits, RestoreStart PROVE Fits'
  OBVIOUS
<1>1. /\ h.cmd = "restore" /\ h.cmd # "none" /\ h.pc = "start" /\ inst' = inst
      /\ UNCHANGED <<locked, marker, disk>> /\ SamePointers /\ J'.status = J.status /\ Still
  BY SamePointersIf, NothingSaved DEF RestoreStart, At, world
<1>2. Typed /\ Typed'
  BY RestoreStartTyped DEF Fits
<1>3. CASE Fail
  BY <1>1, <1>2, <1>3, EndFits DEF Advance
<1>4. CASE J.status = "promoted" /\ GotoWith("units", J.inventory)
  <2>1. h'.cmd = "restore" /\ h'.pc = "units"
    BY <1>1, <1>2, <1>4, Acting DEF GotoWith
  <2> USE DEF Still
  <2>2. StatusFits'
    BY <1>1, <1>4, <2>1 DEF Fits, StatusFits, Mid, Kept, Terminal, Rolling, Staging
  <2>3. LockFits'
    BY <1>1, <1>4, <2>1 DEF Fits, LockFits, Mid, Kept, Flags, PendingRepair, Terminal, Rolling
  <2>4. PtrFits'
    BY <1>1, <1>4, <2>1, PointersKept DEF Fits, PtrFits, Mid, Rolling
  <2>5. DiskFits'
    BY <1>1, <1>4, <2>1, DisksKept DEF Fits, DiskFits, Mid, Rolling
  <2> QED
    BY <1>2, <2>2, <2>3, <2>4, <2>5 DEF Fits
<1> QED
  BY <1>3, <1>4 DEF RestoreStart

(* The end of a restoring loop.                                            *)
LEMMA RestoredFits ==
  ASSUME Fits, inst' = inst, Typed', h.cmd \in {"restore", "recover", "rollback"},
         h.pc \in {"units", "enable"}, UNCHANGED <<locked, marker, disk>>, SamePointers,
         Restored \/ NotRestored
  PROVE  Fits'
<1>1. /\ h.cmd # "none" /\ Typed /\ J.status \notin Terminal
      /\ Rolling => J.status = "rolling-back"
  BY DEF Fits, StatusFits, Mid, Terminal, Rolling, Putting
<1>2. Still /\ J'.status \in {J.status, "services-restored"}
  BY <1>1, StatusSaved, NothingSaved DEF Restored, NotRestored
<1>3. CASE ~Rolling
  <2>1. Return \/ Fail
    BY <1>3 DEF Restored, NotRestored, Fail, Goto
  <2> QED
    BY <1>1, <1>2, <2>1, EndFits DEF Advance
<1>4. CASE Rolling
  <2>1. h'.cmd = h.cmd /\ h'.pc = "finish" /\ (h'.err = h.err \/ h'.err = TRUE)
    <3>1. CASE Restored
      BY <1>1, <1>4, <3>1, GotoTyped DEF Restored, Places
    <3>2. CASE NotRestored
      BY <1>1, <1>4, <3>2, Acting DEF NotRestored
    <3> QED
      BY <3>1, <3>2
  <2> USE DEF Still
  <2>2. StatusFits'
    BY <1>1, <1>2, <1>4, <2>1 DEF Fits, StatusFits, Mid, Kept, Terminal, Rolling, Staging, Putting
  <2>3. LockFits'
    BY <1>1, <1>2, <1>4, <2>1
    DEF Fits, LockFits, Mid, Kept, Flags, PendingRepair, Terminal, Rolling
  <2>4. PtrFits'
    BY <1>1, <1>2, <1>4, <2>1, PointersKept DEF Fits, PtrFits, Mid, Rolling, Terminal, Putting
  <2>5. DiskFits'
    BY <1>1, <1>2, <1>4, <2>1, DisksKept DEF Fits, DiskFits, Mid, Rolling, Terminal
  <2> QED
    BY <2>2, <2>3, <2>4, <2>5 DEF Fits
<1> QED
  BY <1>3, <1>4

LEMMA RestoreFits == Fits /\ RestoreStep => Fits'
<1> SUFFICES ASSUME Fits, RestoreStep PROVE Fits'
  OBVIOUS
<1>1. /\ h.cmd # "none" /\ inst' = inst /\ h.cmd \in {"restore", "recover", "rollback"}
      /\ UNCHANGED <<locked, marker, disk>> /\ SamePointers
  BY SamePointersIf DEF RestoreStep
<1>2. Typed /\ Typed' /\ h.pc \in {"units", "enable"}
  BY RestoreTyped DEF Fits, RestoreStep
<1>3. CASE Restored \/ NotRestored
  BY <1>1, <1>2, <1>3, RestoredFits
<1>4. CASE UNCHANGED J /\ \/ UNCHANGED h
                          \/ Done(First(h.todo))
                          \/ GotoWith("enable", J.disabled \ WasActive)
  <2>1. J'.status = J.status /\ Still
    BY <1>4, NothingSaved
  <2>2. h'.cmd = h.cmd /\ h'.pc \in {"units", "enable"} /\ h'.err = h.err
    BY <1>1, <1>2, <1>4, Acting DEF GotoWith, Done
  <2> QED
    BY <1>1, <1>2, <2>1, <2>2, FlowFits
<1> QED
  BY <1>3, <1>4 DEF RestoreStep

LEMMA RestoreRepairFits == Fits /\ RestoreRepairStep => Fits'
<1> SUFFICES ASSUME Fits, RestoreRepairStep PROVE Fits'
  OBVIOUS
<1>1. /\ h.cmd # "none" /\ inst' = inst /\ h.cmd = "restore-repair"
      /\ UNCHANGED <<locked, marker, disk>> /\ SamePointers /\ J'.status = J.status /\ Still
  BY SamePointersIf, NothingSaved DEF RestoreRepairStep
<1>2. Typed /\ Typed'
  BY RestoreRepairTyped DEF Fits
<1>3. CASE Return \/ Fail
  BY <1>1, <1>2, <1>3, EndFits DEF Advance
<1>4. CASE h.pc = "start" /\ PendingRepair /\ GotoWith("disable", Retained)
  <2>1. h'.cmd = h.cmd /\ h'.pc = "disable" /\ J.status = "committed"
    BY <1>1, <1>2, <1>4, Acting DEF GotoWith, PendingRepair
  <2> USE DEF Still
  <2>2. StatusFits'
    BY <1>1, <1>4, <2>1 DEF Fits, StatusFits, Mid, Kept, Terminal, Rolling, Staging
  <2>3. LockFits'
    BY <1>1, <1>4, <2>1 DEF Fits, LockFits, Mid, Kept, Flags, PendingRepair, Terminal, Rolling
  <2>4. PtrFits'
    BY <1>1, <1>4, <2>1, PointersKept DEF Fits, PtrFits, Mid, Rolling
  <2>5. DiskFits'
    BY <1>1, <1>4, <2>1, DisksKept DEF Fits, DiskFits, Mid, Rolling
  <2> QED
    BY <1>2, <2>2, <2>3, <2>4, <2>5 DEF Fits
<1>5. CASE /\ h.pc \in {"disable", "enable", "run"}
           /\ Goto("enable") \/ Goto("run") \/ GotoWith("disable", h.todo \ {First(h.todo)})
  <2>1. h'.cmd = h.cmd /\ h'.pc \in {"disable", "enable", "run"} /\ h'.err = h.err
    BY <1>1, <1>2, <1>5, Acting DEF GotoWith, Goto
  <2> QED
    BY <1>1, <1>2, <1>5, <2>1, FlowFits
<1> QED
  BY <1>3, <1>4, <1>5 DEF RestoreRepairStep, At

LEMMA CompleteFits == Fits /\ CompleteStep => Fits'
<1> SUFFICES ASSUME Fits, CompleteStep PROVE Fits'
  OBVIOUS
<1>1. /\ h.cmd \in {"complete", "recover"} /\ h.cmd # "none" /\ inst' = inst
      /\ UNCHANGED <<locked, disk>> /\ SamePointers
  BY SamePointersIf DEF CompleteStep, At
<1>2. Typed /\ Typed'
  BY SimplyTyped DEF Fits
<1>3. CASE Fail /\ UNCHANGED <<J, marker>>
  BY <1>1, <1>2, <1>3, NothingSaved, EndFits DEF Advance
<1>4. CASE /\ J.status = "committed" /\ J.complete /\ marker' = 0
           /\ Goto("unlock") /\ UNCHANGED J
  <2>1. J'.status = J.status /\ Still
    BY <1>4, NothingSaved
  <2>2. h'.cmd = h.cmd /\ h'.pc = "unlock"
    BY <1>1, <1>2, <1>4, GotoTyped DEF Places
  <2> USE DEF Still
  <2>3. StatusFits'
    BY <1>1, <1>4, <2>1, <2>2 DEF Fits, StatusFits, Mid, Kept, Terminal, Rolling, Staging, Putting
  <2>4. LockFits'
    BY <1>1, <1>4, <2>1, <2>2
    DEF Fits, LockFits, Mid, Kept, Flags, PendingRepair, Terminal, Rolling
  <2>5. PtrFits'
    BY <1>1, <1>4, <2>1, <2>2, PointersKept DEF Fits, PtrFits, Mid, Rolling, Putting
  <2>6. DiskFits'
    BY <1>1, <1>4, <2>1, <2>2, DisksKept DEF Fits, DiskFits, Mid, Rolling
  <2> QED
    BY <1>2, <2>3, <2>4, <2>5, <2>6 DEF Fits
<1>5. CASE /\ J.status = "committed" /\ J.mode = "repair" /\ marker = J.id /\ UNCHANGED marker
           /\ Save([J EXCEPT !.complete = TRUE]) /\ Goto("clear")
  <2>1. J'.status = J.status /\ Kept /\ Arms /\ Arts /\ J'.complete
    BY <1>2, <1>5 DEF Typed, JournalTyped, Journal, Kept, Arms, Arts, Save
  <2>2. h'.cmd = h.cmd /\ h'.pc = "clear"
    BY <1>1, <1>2, <1>5, GotoTyped DEF Places
  <2>3. StatusFits'
    BY <1>1, <1>5, <2>1, <2>2 DEF Fits, StatusFits, Mid, Kept, Terminal, Rolling, Staging, Putting
  <2>4. LockFits'
    BY <1>1, <1>5, <2>1, <2>2 DEF Fits, LockFits, Mid, Kept, PendingRepair, Terminal, Rolling
  <2>5. PtrFits'
    BY <1>1, <1>5, <2>1, <2>2, PointersKept DEF Fits, PtrFits, Mid, Rolling, Putting
  <2>6. DiskFits'
    BY <1>1, <1>5, <2>1, <2>2, DisksKept DEF Fits, DiskFits, Mid, Rolling
  <2> QED
    BY <1>2, <2>3, <2>4, <2>5, <2>6 DEF Fits
<1>6. h.pc = "clear" => J.status = "committed" /\ J.complete
  BY DEF Fits, StatusFits, LockFits, Mid
<1> QED
  BY <1>3, <1>4, <1>5, <1>6 DEF CompleteStep

(* A helper of a recovery or rollback that has read the journal.           *)
LEMMA ReadFits ==
  ASSUME Fits, h.cmd \in {"recover", "rollback"}, h.pc = "start", inst' = inst, Typed',
         UNCHANGED <<locked, marker, disk>>, SamePointers, UNCHANGED J,
         \/ Return
         \/ Goto("complete") /\ J.status = "committed" /\ J.complete
         \/ Goto("roll") /\ J.status \notin Terminal
         \/ /\ Goto("unlock") /\ J.status \in Terminal /\ ~PendingRepair
            /\ ~(J.mode = "repair" /\ J.status = "committed" /\ J.complete)
  PROVE  Fits'
<1>1. J'.status = J.status /\ Still /\ Typed /\ h.cmd # "none"
  BY NothingSaved DEF Fits
<1>2. CASE Return
  BY <1>1, <1>2, EndFits DEF Advance
<1>3. CASE ~Return
  <2>1. h'.cmd = h.cmd /\ h'.pc \in {"complete", "roll", "unlock"}
    BY <1>1, <1>3, GotoTyped DEF Places
  <2>2. /\ h'.pc = "complete" => J.status = "committed" /\ J.complete
        /\ h'.pc = "roll" => J.status \notin Terminal
        /\ h'.pc = "unlock" => /\ J.status \in Terminal /\ ~PendingRepair
                               /\ ~(J.mode = "repair" /\ J.status = "committed" /\ J.complete)
    BY <1>1, <1>3, GotoTyped DEF Places
  <2> USE DEF Still
  <2>3. StatusFits'
    BY <1>1, <2>1, <2>2 DEF Fits, StatusFits, Mid, Kept, Terminal, Rolling, Staging, Putting
  <2>4. LockFits'
    BY <1>1, <2>1, <2>2 DEF Fits, LockFits, Mid, Kept, Flags, PendingRepair, Terminal, Rolling
  <2>5. PtrFits'
    BY <1>1, <2>1, PointersKept DEF Fits, PtrFits, Mid, Rolling, Putting
  <2>6. DiskFits'
    BY <1>1, <2>1, DisksKept DEF Fits, DiskFits, Mid, Rolling
  <2> QED
    BY <2>3, <2>4, <2>5, <2>6 DEF Fits
<1> QED
  BY <1>2, <1>3

LEMMA StartsFit ==
  /\ Fits /\ RecoverStart => Fits'
  /\ Fits /\ RollbackStart => Fits'
<1>1. ASSUME Fits, RecoverStart PROVE Fits'
  <2>1. /\ h.cmd = "recover" /\ h.pc = "start" /\ inst' = inst
        /\ UNCHANGED <<locked, marker, disk, J>> /\ SamePointers
    BY <1>1, SamePointersIf DEF RecoverStart, At, world
  <2>2. Typed'
    BY <1>1, SimplyTyped DEF Fits
  <2>3. \/ Return
        \/ Goto("complete") /\ J.status = "committed" /\ J.complete
        \/ Goto("roll") /\ J.status \notin Terminal
        \/ /\ Goto("unlock") /\ J.status \in Terminal /\ ~PendingRepair
           /\ ~(J.mode = "repair" /\ J.status = "committed" /\ J.complete)
    <3>1. CASE ~locked \/ PendingRepair
      BY <1>1, <3>1 DEF RecoverStart, PendingRepair, Terminal
    <3>2. CASE ~(~locked \/ PendingRepair)
      BY <1>1, <3>2 DEF RecoverStart
    <3> QED
      BY <3>1, <3>2
  <2> QED
    BY <1>1, <2>1, <2>2, <2>3, ReadFits
<1>2. ASSUME Fits, RollbackStart PROVE Fits'
  <2>1. /\ h.cmd = "rollback" /\ h.pc = "start" /\ inst' = inst
        /\ UNCHANGED <<locked, marker, disk, J>> /\ SamePointers
    BY <1>2, SamePointersIf DEF RollbackStart, At, world
  <2>2. Typed'
    BY <1>2, SimplyTyped DEF Fits
  <2>3. \/ Return
        \/ Goto("roll") /\ J.status \notin Terminal
        \/ /\ Goto("unlock") /\ J.status \in Terminal /\ ~PendingRepair
           /\ ~(J.mode = "repair" /\ J.status = "committed" /\ J.complete)
    BY <1>2 DEF RollbackStart, Terminal, PendingRepair
  <2> QED
    BY <1>2, <2>1, <2>2, <2>3, ReadFits
<1> QED
  BY <1>1, <1>2

LEMMA RollFits == Fits /\ RollStart => Fits'
<1> SUFFICES ASSUME Fits, RollStart PROVE Fits'
  OBVIOUS
<1>1. /\ Rolling /\ h.cmd # "none" /\ h.pc = "roll" /\ inst' = inst
      /\ UNCHANGED <<locked, marker, disk>> /\ SamePointers
  BY SamePointersIf DEF RollStart, world, Rolling
<1>2. Typed /\ Typed' /\ J.status \notin Terminal
  BY <1>1, RollTyped DEF Fits, StatusFits, Mid
<1>3. J'.status = "rolling-back" /\ Still
  BY <1>2, StatusSaved DEF RollStart
<1>4. h'.cmd = h.cmd /\ h'.pc = "halt"
  BY <1>1, <1>2, Acting DEF RollStart, GotoWith
<1> USE DEF Still
<1>5. StatusFits'
  BY <1>1, <1>2, <1>3, <1>4 DEF Fits, StatusFits, Mid, Kept, Terminal, Rolling, Staging, Putting
<1>6. LockFits'
  BY <1>1, <1>2, <1>3, <1>4
  DEF Fits, LockFits, Mid, Kept, Flags, PendingRepair, Terminal, Rolling
<1>7. PtrFits'
  BY <1>1, <1>2, <1>3, <1>4, PointersKept DEF Fits, PtrFits, Mid, Rolling, Putting
<1>8. DiskFits'
  BY <1>1, <1>2, <1>3, <1>4, DisksKept DEF Fits, DiskFits, Mid, Rolling
<1> QED
  BY <1>2, <1>5, <1>6, <1>7, <1>8 DEF Fits

LEMMA HaltFits == Fits /\ HaltStep => Fits'
<1> SUFFICES ASSUME Fits, HaltStep PROVE Fits'
  OBVIOUS
<1>1. /\ Rolling /\ h.cmd # "none" /\ h.pc = "halt" /\ inst' = inst /\ UNCHANGED J
      /\ UNCHANGED <<locked, marker, disk>> /\ SamePointers
  BY SamePointersIf DEF HaltStep, Rolling
<1>2. Typed /\ Typed' /\ J.status = "rolling-back"
  BY <1>1, HaltTyped DEF Fits, StatusFits, Mid
<1>3. J'.status = J.status /\ Still
  BY <1>1, NothingSaved
<1>4. CASE Done(First(h.todo)) \/ Spoil(First(h.todo))
  <2>1. h'.cmd = h.cmd /\ h'.pc = "halt" /\ (h.err => h'.err)
    BY <1>1, <1>2, <1>4, Acting DEF Done, Spoil
  <2> QED
    BY <1>1, <1>2, <1>3, <2>1, FlowFits
<1>5. CASE h' = [h EXCEPT !.pc = "files", !.err = TRUE] \/ GotoWith("back", Pointers)
  <2>1. h'.cmd = h.cmd /\ \/ h'.pc = "files" /\ h'.err = TRUE
                          \/ h'.pc = "back" /\ h'.todo = Pointers
    BY <1>1, <1>2, <1>5, Acting DEF GotoWith
  <2> USE DEF Still
  <2>2. StatusFits'
    BY <1>1, <1>2, <1>3, <2>1 DEF Fits, StatusFits, Mid, Kept, Terminal, Rolling, Staging, Putting
  <2>3. LockFits'
    BY <1>1, <1>2, <1>3, <2>1
    DEF Fits, LockFits, Mid, Kept, Flags, PendingRepair, Terminal, Rolling
  <2>4. PtrFits'
    BY <1>1, <1>2, <1>3, <2>1, PointersKept DEF Fits, PtrFits, Mid, Rolling, Putting
  <2>5. DiskFits'
    BY <1>1, <1>2, <1>3, <2>1, DisksKept DEF Fits, DiskFits, Mid, Rolling
  <2> QED
    BY <1>2, <2>2, <2>3, <2>4, <2>5 DEF Fits
<1> QED
  BY <1>4, <1>5 DEF HaltStep

(* A rollback that puts a pointer back.                                    *)
LEMMA BackingFits ==
  ASSUME Fits, Rolling, h.pc = "back", inst' = inst, Typed', h'.cmd = h.cmd, h'.pc = "back",
         UNCHANGED <<locked, marker, disk>>, Kept, Flags, Arts, J'.status = J.status, PtrCore',
         ~h'.err => \A p \in Pointers \ h'.todo : ~J'.armed[p]
  PROVE  Fits'
<1>0. J.status = "rolling-back"
  BY DEF Fits, StatusFits, Mid
<1>1. StatusFits'
  BY <1>0 DEF Fits, StatusFits, Mid, Kept, Terminal, Rolling, Staging, Putting
<1>2. LockFits'
  BY <1>0 DEF Fits, LockFits, Mid, Kept, Flags, PendingRepair, Terminal, Rolling
<1>3. PtrFits'
  BY <1>0 DEF PtrFits, Mid, Rolling, Putting
<1>4. DiskFits'
  BY <1>0, DisksKept DEF Fits, DiskFits, Mid, Rolling
<1> QED
  BY <1>1, <1>2, <1>3, <1>4 DEF Fits

(* What a rollback takes for the prior pointer is the prior pointer.       *)
LEMMA PriorFound ==
  ASSUME Typed, PtrCore, NEW p \in Pointers, AlreadyPrior(p)
  PROVE  ptr[p] = J.prior[p]
<1>1. kind0[p] \in {"symlink", "directory", "missing"}
  <2>1. kind0 \in Kinds0
    BY DEF Typed, WorldTyped
  <2>2. Kinds0 \subseteq [Pointers -> {"symlink", "directory", "missing"}]
    BY UpdateAssumption
  <2>3. kind0 \in [Pointers -> {"symlink", "directory", "missing"}]
    BY <2>1, <2>2
  <2> QED
    BY <2>3
<1>2. kind0[p] = "missing" => J.prior[p] # 0
  BY DEF PtrCore
<1>3. Gone # 0
  BY OwnRelease
<1>4. CASE PriorKind(p) = "symlink"
  BY <1>4 DEF AlreadyPrior
<1>5. CASE PriorKind(p) = "directory"
  <2>1. J.prior[p] = 0
    BY <1>5 DEF PriorKind, Kind
  <2>2. ptr[p] # Gone /\ Kind(p, ptr[p]) = "directory"
    BY <1>5 DEF AlreadyPrior
  <2>3. ptr[p] = 0
    BY <2>2 DEF Kind
  <2> QED
    BY <2>1, <2>3
<1>6. CASE PriorKind(p) \notin {"symlink", "directory"}
  <2>1. ptr[p] = Gone
    BY <1>6 DEF AlreadyPrior
  <2>2. J.prior[p] = Gone
    BY <1>1, <1>2, <1>6 DEF PriorKind, Kind
  <2> QED
    BY <2>1, <2>2
<1> QED
  BY <1>4, <1>5, <1>6

LEMMA BackFits == Fits /\ BackStep => Fits'
<1> SUFFICES ASSUME Fits, BackStep PROVE Fits'
  OBVIOUS
<1>1. /\ Rolling /\ h.cmd # "none" /\ h.pc = "back" /\ inst' = inst
      /\ UNCHANGED <<locked, marker, disk, users>>
  BY DEF BackStep, Rolling
<1>2. Typed /\ Typed' /\ J.status = "rolling-back" /\ J.id # 0
  BY <1>1, BackStepTyped DEF Fits, StatusFits, Mid
<1>3. /\ ptr \in [Pointers -> Releases] /\ side \in [Pointers -> Releases]
      /\ J.armed \in [Pointers -> BOOLEAN] /\ J.back \in [Pointers -> BOOLEAN]
      /\ kind0' = kind0 /\ touched' = touched /\ PtrCore
      /\ ~h.err => \A p \in Pointers \ h.todo : ~J.armed[p]
  BY <1>1, <1>2 DEF Typed, WorldTyped, JournalTyped, Journal, Fits, PtrFits, users
<1>4. CASE h.todo = {}
  <2>1. GotoWith("artifacts", Artifacts) /\ UNCHANGED <<J, ptr, side>>
    BY <1>4 DEF BackStep
  <2>2. h'.cmd = h.cmd /\ h'.pc = "artifacts" /\ h'.err = h.err /\ h'.todo = Artifacts
    BY <1>1, <1>2, <2>1, Acting DEF GotoWith
  <2>3. J'.status = J.status /\ Still /\ SamePointers
    BY <1>1, <2>1, NothingSaved, SamePointersIf
  <2> USE DEF Still
  <2>4. StatusFits'
    BY <1>1, <1>2, <2>2, <2>3 DEF Fits, StatusFits, Mid, Kept, Terminal, Rolling, Staging, Putting
  <2>5. LockFits'
    BY <1>1, <1>2, <2>2, <2>3
    DEF Fits, LockFits, Mid, Kept, Flags, PendingRepair, Terminal, Rolling
  <2>6. PtrFits'
    <3>1. ~h.err => Disarmed
      BY <1>3, <1>4 DEF Disarmed
    <3> QED
      BY <1>1, <1>2, <2>2, <2>3, <3>1, PointersKept DEF Fits, PtrFits, Mid, Rolling, Putting
  <2>7. DiskFits'
    BY <1>1, <1>2, <2>2, <2>3, DisksKept DEF Fits, DiskFits, Mid, Rolling
  <2> QED
    BY <1>2, <2>4, <2>5, <2>6, <2>7 DEF Fits
<1>5. CASE h.todo # {}
  <2>1. PICK p \in Pointers : p = BackPointer
    BY <1>1, <1>2, <1>5, BackPointerIs
  <2>2. CASE Done(p) /\ ~J.armed[p] /\ UNCHANGED <<J, ptr, side>>
    <3>1. h'.cmd = h.cmd /\ h'.pc = "back" /\ h'.err = h.err /\ h'.todo = h.todo \ {p}
      BY <1>1, <1>2, <2>2, Acting DEF Done
    <3>2. J'.status = J.status /\ Still /\ PtrCore'
      BY <1>1, <1>3, <2>2, NothingSaved, SamePointersIf, PointersKept DEF Still
    <3>3. ~h'.err => \A q \in Pointers \ h'.todo : ~J'.armed[q]
      BY <1>3, <2>2, <3>1
    <3> QED
      BY <1>1, <1>2, <3>1, <3>2, <3>3, BackingFits DEF Still
  <2>3. CASE /\ AlreadyPrior(p) /\ Save([J EXCEPT !.armed[p] = FALSE, !.back[p] = TRUE])
             /\ Done(p) /\ UNCHANGED <<ptr, side>>
    <3>1. h'.cmd = h.cmd /\ h'.pc = "back" /\ h'.err = h.err /\ h'.todo = h.todo \ {p}
      BY <1>1, <1>2, <2>3, Acting DEF Done
    <3>2. Kept /\ Flags /\ Arts /\ J'.status = J.status
      BY <1>2, <2>3 DEF Typed, JournalTyped, Journal, Kept, Flags, Arts, Save
    <3>3. J'.armed = [J.armed EXCEPT ![p] = FALSE] /\ J'.back = [J.back EXCEPT ![p] = TRUE]
      BY <1>2, <2>3 DEF Typed, JournalTyped, Journal, Save
    <3>4. ptr[p] = J.prior[p]
      BY <1>2, <1>3, <2>3, PriorFound
    <3>5. \A q \in Pointers : /\ J'.armed[q] = IF q = p THEN FALSE ELSE J.armed[q]
                              /\ J'.back[q] = IF q = p THEN TRUE ELSE J.back[q]
      BY <1>3, <3>3
    <3>6. PtrCore'
      <4> SUFFICES ASSUME NEW q \in Pointers
          PROVE  /\ q \notin touched' /\ ~J'.armed[q] => ptr'[q] = J'.prior[q]
                 /\ J'.armed[q] => q \in Only(J'.mode) /\ ~J'.back[q]
                 /\ kind0'[q] = "missing" => ptr'[q] # 0 /\ side'[q] # 0 /\ J'.prior[q] # 0
                 /\ Below(ptr'[q], J'.id + 1) /\ Below(side'[q], J'.id + 1)
                 /\ J'.id # 0 => Below(J'.prior[q], J'.id)
        BY DEF PtrCore, Below
      <4> QED
        BY <1>3, <2>3, <3>2, <3>4, <3>5 DEF Kept, PtrCore
    <3>7. ~h'.err => \A q \in Pointers \ h'.todo : ~J'.armed[q]
      BY <1>3, <3>1, <3>5
    <3> QED
      BY <1>1, <1>2, <3>1, <3>2, <3>6, <3>7, BackingFits
  <2>4. CASE Spoil(p) /\ UNCHANGED <<J, ptr, side>>
    <3>1. h'.cmd = h.cmd /\ h'.pc = "back" /\ h'.err = TRUE
      BY <1>1, <1>2, <2>4, Acting DEF Spoil
    <3>2. J'.status = J.status /\ Still /\ PtrCore'
      BY <1>1, <1>3, <2>4, NothingSaved, SamePointersIf, PointersKept DEF Still
    <3> QED
      BY <1>1, <1>2, <3>1, <3>2, BackingFits DEF Still
  <2>5. ASSUME J.armed[p], UNCHANGED <<J, h>>, NEW v \in {Gone, J.prior[p], side[p]},
               NEW s \in {Gone, side[p]},
               ptr' = [ptr EXCEPT ![p] = v], side' = [side EXCEPT ![p] = s]
        PROVE  Fits'
    <3>1. h'.cmd = h.cmd /\ h'.pc = "back" /\ h'.err = h.err /\ h'.todo = h.todo
      BY <1>1, <2>5
    <3>2. J'.status = J.status /\ Kept /\ Flags /\ Arts /\ Arms
      BY <2>5, NothingSaved DEF Still
    <3>3. \A q \in Pointers : /\ ptr'[q] = IF q = p THEN v ELSE ptr[q]
                              /\ side'[q] = IF q = p THEN s ELSE side[q]
      BY <1>3, <2>5
    <3>4. /\ v = Gone \/ v = J.prior[p] \/ v = side[p]
          /\ s = Gone \/ s = side[p]
      BY <2>5
    <3>5. Below(J.prior[p], J.id + 1)
      BY <1>2, <1>3, OwnRelease DEF PtrCore, Below
    <3>6. J.id \in Nat /\ Below(Gone, J.id + 1) /\ Gone # 0
      BY <1>2, OwnRelease
    <3>7. PtrCore'
      <4> SUFFICES ASSUME NEW q \in Pointers
          PROVE  /\ q \notin touched' /\ ~J'.armed[q] => ptr'[q] = J'.prior[q]
                 /\ J'.armed[q] => q \in Only(J'.mode) /\ ~J'.back[q]
                 /\ kind0'[q] = "missing" => ptr'[q] # 0 /\ side'[q] # 0 /\ J'.prior[q] # 0
                 /\ Below(ptr'[q], J'.id + 1) /\ Below(side'[q], J'.id + 1)
                 /\ J'.id # 0 => Below(J'.prior[q], J'.id)
        BY DEF PtrCore, Below
      <4> QED
        BY <1>3, <2>5, <3>3, <3>4, <3>5, <3>6 DEF PtrCore
    <3>8. ~h'.err => \A q \in Pointers \ h'.todo : ~J'.armed[q]
      BY <1>3, <2>5, <3>1
    <3> QED
      BY <1>1, <1>2, <3>1, <3>2, <3>7, <3>8, BackingFits
  <2>6. /\ side = [side EXCEPT ![p] = side[p]]
        /\ J.armed[p] => ~J.back[p]
    BY <1>3, <2>1 DEF PtrCore
  <2>7. \/ Done(p) /\ ~J.armed[p] /\ UNCHANGED <<J, ptr, side>>
        \/ /\ AlreadyPrior(p) /\ Save([J EXCEPT !.armed[p] = FALSE, !.back[p] = TRUE])
           /\ Done(p) /\ UNCHANGED <<ptr, side>>
        \/ Spoil(p) /\ UNCHANGED <<J, ptr, side>>
        \/ /\ J.armed[p] /\ UNCHANGED <<J, h>>
           /\ \/ ptr' = [ptr EXCEPT ![p] = Gone] /\ side' = side
              \/ ptr' = [ptr EXCEPT ![p] = J.prior[p]] /\ side' = side
              \/ ptr' = [ptr EXCEPT ![p] = side[p]] /\ side' = [side EXCEPT ![p] = Gone]
    BY <1>5, <2>1, <2>6 DEF BackStep
  <2> QED
    BY <2>2, <2>3, <2>4, <2>5, <2>6, <2>7
<1> QED
  BY <1>4, <1>5

(* A rollback that removes the candidate directories, one at a time.       *)
LEMMA RemovingFits ==
  ASSUME Fits, Rolling, h.pc \in {"artifacts", "removing"}, inst' = inst, Typed', h'.cmd = h.cmd,
         h'.pc \in {"artifacts", "removing"}, h.err => h'.err,
         UNCHANGED <<locked, marker>>, SamePointers, Kept, Flags, Arms, J'.status = J.status,
         DiskCore', ~h'.err => \A k \in Artifacts \ h'.todo : disk'[k].at \in Out
  PROVE  Fits'
<1>0. J.status = "rolling-back"
  BY DEF Fits, StatusFits, Mid, Putting
<1>1. StatusFits'
  BY <1>0 DEF Fits, StatusFits, Mid, Kept, Terminal, Rolling, Staging, Putting
<1>2. LockFits'
  BY <1>0 DEF Fits, LockFits, Mid, Kept, Flags, PendingRepair, Terminal, Rolling
<1>3. PtrFits'
  BY <1>0, PointersKept DEF Fits, PtrFits, Mid, Rolling, Putting
<1>4. DiskFits'
  BY <1>0 DEF DiskFits, Mid, Rolling, Out
<1> QED
  BY <1>1, <1>2, <1>3, <1>4 DEF Fits

(* A change of a record inside the journal is a new record in it.          *)
LEMMA RecordMade ==
  ASSUME Typed, NEW k \in Artifacts
  PROVE  /\ [J EXCEPT !.art[k].moving = TRUE] = [J EXCEPT !.art[k] = [Rec(k) EXCEPT !.moving = TRUE]]
         /\ [J EXCEPT !.art[k].reserving = FALSE, !.art[k].created = TRUE]
              = [J EXCEPT !.art[k] = [Rec(k) EXCEPT !.reserving = FALSE, !.created = TRUE]]
         /\ [J EXCEPT !.art[k].reserving = FALSE, !.art[k].cleaned = TRUE]
              = [J EXCEPT !.art[k] = [Rec(k) EXCEPT !.reserving = FALSE, !.cleaned = TRUE]]
         /\ Cleaned(J, k)
              = [J EXCEPT !.art[k] = [Rec(k) EXCEPT !.created = FALSE, !.cleaned = TRUE,
                                                    !.moving = FALSE]]
<1>1. ASSUME NEW j, j = [J EXCEPT !.art[k].moving = TRUE]
      PROVE  j = [J EXCEPT !.art[k] = [Rec(k) EXCEPT !.moving = TRUE]]
  BY <1>1 DEF Rec, Typed, JournalTyped, Journal, Record
<1>2. ASSUME NEW j, j = [J EXCEPT !.art[k].reserving = FALSE, !.art[k].created = TRUE]
      PROVE  j = [J EXCEPT !.art[k] = [Rec(k) EXCEPT !.reserving = FALSE, !.created = TRUE]]
  BY <1>2 DEF Rec, Typed, JournalTyped, Journal, Record
<1>3. ASSUME NEW j, j = [J EXCEPT !.art[k].reserving = FALSE, !.art[k].cleaned = TRUE]
      PROVE  j = [J EXCEPT !.art[k] = [Rec(k) EXCEPT !.reserving = FALSE, !.cleaned = TRUE]]
  BY <1>3 DEF Rec, Typed, JournalTyped, Journal, Record
<1>4. ASSUME NEW j, j = Cleaned(J, k)
      PROVE  j = [J EXCEPT !.art[k] = [Rec(k) EXCEPT !.created = FALSE, !.cleaned = TRUE,
                                                     !.moving = FALSE]]
  BY <1>4 DEF Cleaned, Rec, Typed, JournalTyped, Journal, Record
<1> QED
  BY <1>1, <1>2, <1>3, <1>4

LEMMA RemovalFits == Fits /\ Rolling /\ RemovalStep => Fits'
<1> SUFFICES ASSUME Fits, Rolling, RemovalStep PROVE Fits'
  OBVIOUS
<1> DEFINE k == NextArtifact
<1>1. /\ inst' = inst /\ UNCHANGED <<locked, marker>> /\ SamePointers
      /\ h.pc \in {"artifacts", "removing"} /\ h.todo # {} /\ h.cmd # "none"
  BY SamePointersIf DEF RemovalStep, Fits, Typed, TodoFits, Rolling
<1>2. Typed /\ Typed' /\ k \in Artifacts
  BY <1>1, RemovalTyped DEF Fits, NextArtifact, Artifacts
<1>3. /\ disk \in [Artifacts -> [at : {"absent", "staging", "path", "quarantine"},
                                  marked : BOOLEAN]]
      /\ J.art \in [Artifacts -> Record] /\ DiskCore
      /\ ~h.err => \A l \in Artifacts \ h.todo : disk[l].at \in Out
  BY <1>1, <1>2 DEF Typed, WorldTyped, JournalTyped, Journal, Fits, DiskFits
<1> HIDE DEF k
(* The five things that may happen to a directory and to its record.       *)
<1>4. ASSUME J' = J, disk' = disk \/ disk' = [disk EXCEPT ![k] = NoDisk],
             h' = h \/ h' = [h EXCEPT !.pc = "artifacts"]
      PROVE  Fits'
  <2>1. J'.status = J.status /\ Kept /\ Flags /\ Arms /\ Arts
    BY <1>4, NothingSaved DEF Still
  <2>2. h'.cmd = h.cmd /\ h'.pc \in {"artifacts", "removing"} /\ h'.err = h.err /\ h'.todo = h.todo
    BY <1>1, <1>2, <1>4, Acting
  <2>3. \A l \in Artifacts : disk'[l] = disk[l] \/ disk'[l] = NoDisk
    BY <1>2, <1>3, <1>4
  <2>4. DiskCore'
    BY <1>3, <2>1, <2>3 DEF DiskCore, Rec, Arts, NoDisk, Out
  <2>5. ~h'.err => \A l \in Artifacts \ h'.todo : disk'[l].at \in Out
    BY <1>3, <2>2, <2>3 DEF NoDisk, Out
  <2> QED
    BY <1>1, <1>2, <2>1, <2>2, <2>4, <2>5, RemovingFits
<1>5. ASSUME J' = J, disk' = disk, disk[k].at \in Out, h' = [h EXCEPT !.todo = h.todo \ {k}]
      PROVE  Fits'
  <2>1. J'.status = J.status /\ Kept /\ Flags /\ Arms /\ Arts
    BY <1>5, NothingSaved DEF Still
  <2>2. h'.cmd = h.cmd /\ h'.pc = h.pc /\ h'.err = h.err /\ h'.todo = h.todo \ {k}
    BY <1>1, <1>2, <1>5, Acting
  <2>3. DiskCore'
    BY <1>3, <1>5, <2>1, DisksKept
  <2>4. ~h'.err => \A l \in Artifacts \ h'.todo : disk'[l].at \in Out
    BY <1>3, <1>5, <2>2
  <2> QED
    BY <1>1, <1>2, <2>1, <2>2, <2>3, <2>4, RemovingFits
<1>6. ASSUME J' = J, disk' = disk, h' = [h EXCEPT !.todo = {}, !.err = TRUE]
      PROVE  Fits'
  <2>1. J'.status = J.status /\ Kept /\ Flags /\ Arms /\ Arts
    BY <1>6, NothingSaved DEF Still
  <2>2. h'.cmd = h.cmd /\ h'.pc = h.pc /\ h'.err = TRUE
    BY <1>1, <1>2, <1>6, Acting
  <2>3. DiskCore'
    BY <1>3, <1>6, <2>1, DisksKept
  <2> QED
    BY <1>1, <1>2, <2>1, <2>2, <2>3, RemovingFits
<1>7. ASSUME J' = J, NEW place, NEW mark, Put(k, place, mark), k \in h.todo,
             ~Rec(k).reserving \/ (place = "path" /\ mark = TRUE),
             h' = h \/ h' = [h EXCEPT !.pc = "removing"]
      PROVE  Fits'
  <2>1. J'.status = J.status /\ Kept /\ Flags /\ Arms /\ Arts
    BY <1>7, NothingSaved DEF Still
  <2>2. h'.cmd = h.cmd /\ h'.pc \in {"artifacts", "removing"} /\ h'.err = h.err /\ h'.todo = h.todo
    BY <1>1, <1>2, <1>7, Acting
  <2>3. /\ \A l \in Artifacts : l # k => disk'[l] = disk[l]
        /\ disk'[k] = [at |-> place, marked |-> mark]
    BY <1>2, <1>3, <1>7 DEF Put
  <2>4. DiskCore'
    <3> SUFFICES ASSUME NEW l \in Artifacts, J'.art[l].reserving
        PROVE  /\ ~J'.art[l].created /\ l # "source"
               /\ disk'[l].at \in Out \/ (disk'[l].at = "path" /\ disk'[l].marked)
      BY DEF DiskCore, Rec, Out
    <3>1. CASE l = k
      BY <1>3, <1>7, <2>1, <2>3, <3>1 DEF Arts, Rec, DiskCore
    <3>2. CASE l # k
      BY <1>3, <2>1, <2>3, <3>2 DEF Arts, Rec, DiskCore
    <3> QED
      BY <3>1, <3>2
  <2>5. ~h'.err => \A l \in Artifacts \ h'.todo : disk'[l].at \in Out
    BY <1>3, <1>7, <2>2, <2>3
  <2> QED
    BY <1>1, <1>2, <2>1, <2>2, <2>4, <2>5, RemovingFits
<1>8. ASSUME NEW r \in Record, ~r.reserving, J' = [J EXCEPT !.art[k] = r], disk' = disk,
             h' = h \/ (disk[k].at \in Out /\ h' = [h EXCEPT !.todo = h.todo \ {k}])
      PROVE  Fits'
  <2>1. J'.status = J.status /\ Kept /\ Flags /\ Arms /\ J'.art = [J.art EXCEPT ![k] = r]
    BY <1>2, <1>8 DEF Typed, JournalTyped, Journal, Kept, Flags, Arms
  <2>2. h'.cmd = h.cmd /\ h'.pc = h.pc /\ h'.err = h.err
        /\ \/ h'.todo = h.todo
           \/ disk[k].at \in Out /\ h'.todo = h.todo \ {k}
    BY <1>1, <1>2, <1>8, Acting
  <2>3. \A l \in Artifacts : J'.art[l] = IF l = k THEN r ELSE J.art[l]
    BY <1>2, <1>3, <2>1
  <2>4. DiskCore'
    BY <1>3, <1>8, <2>3 DEF DiskCore, Rec, Out
  <2>5. ~h'.err => \A l \in Artifacts \ h'.todo : disk'[l].at \in Out
    BY <1>3, <1>8, <2>2
  <2> QED
    BY <1>1, <1>2, <2>1, <2>2, <2>4, <2>5, RemovingFits
<1>9. CASE h.pc = "removing" /\ disk' = [disk EXCEPT ![k] = NoDisk] /\ Goto("artifacts") /\ UNCHANGED J
  BY <1>4, <1>9 DEF Goto
<1>10. k \in h.todo
  BY <1>1, <1>2 DEF k, NextArtifact, Typed, TodoFits, Artifacts
<1>11. ASSUME ResumeReservation(k) PROVE Fits'
  <2>1. Rec(k).reserving /\ (disk[k].at \in Out \/ (disk[k].at = "path" /\ disk[k].marked))
    BY <1>2, <1>3, <1>11 DEF ResumeReservation, DiskCore
  <2>2. CASE Put(k, "path", TRUE) /\ UNCHANGED <<J, h>>
    BY <1>7, <1>10, <2>2
  <2>3. CASE Save([J EXCEPT !.art[k].reserving = FALSE, !.art[k].created = TRUE]) /\ UNCHANGED <<disk, h>>
    <3>1. [Rec(k) EXCEPT !.reserving = FALSE, !.created = TRUE] \in Record
          /\ ~[Rec(k) EXCEPT !.reserving = FALSE, !.created = TRUE].reserving
      BY <1>2, RecTyped DEF Record
    <3>2. J' = [J EXCEPT !.art[k] = [Rec(k) EXCEPT !.reserving = FALSE, !.created = TRUE]]
      BY <1>2, <2>3, RecordMade DEF Save
    <3> QED
      BY <1>8, <2>3, <3>1, <3>2
  <2>4. CASE /\ ~(disk[k].at \in {"path", "staging"} /\ disk[k].marked)
             /\ Save([J EXCEPT !.art[k].reserving = FALSE, !.art[k].cleaned = TRUE])
             /\ h' = [h EXCEPT !.todo = @ \ {k}] /\ UNCHANGED disk
    <3>1. [Rec(k) EXCEPT !.reserving = FALSE, !.cleaned = TRUE] \in Record
          /\ ~[Rec(k) EXCEPT !.reserving = FALSE, !.cleaned = TRUE].reserving
      BY <1>2, RecTyped DEF Record
    <3>2. J' = [J EXCEPT !.art[k] = [Rec(k) EXCEPT !.reserving = FALSE, !.cleaned = TRUE]]
      BY <1>2, <2>4, RecordMade DEF Save
    <3>3. disk[k].at \in Out
      BY <2>1, <2>4
    <3> QED
      BY <1>8, <2>4, <3>1, <3>2, <3>3
  <2> QED
    BY <1>11, <2>2, <2>3, <2>4 DEF ResumeReservation
<1>12. ASSUME RemoveArtifact(k) PROVE Fits'
  <2>1. ~Rec(k).reserving
    BY <1>12 DEF RemoveArtifact
  <2>2. CASE RemoveFails
    BY <1>6, <2>2 DEF RemoveFails
  <2>3. CASE disk[k].at \in Out /\ h' = [h EXCEPT !.todo = @ \ {k}] /\ UNCHANGED <<J, disk>>
    BY <1>5, <2>3
  <2>4. CASE Save([J EXCEPT !.art[k].moving = TRUE]) /\ UNCHANGED <<disk, h>>
    <3>1. [Rec(k) EXCEPT !.moving = TRUE] \in Record /\ ~[Rec(k) EXCEPT !.moving = TRUE].reserving
      BY <1>2, <2>1, RecTyped DEF Record
    <3>2. J' = [J EXCEPT !.art[k] = [Rec(k) EXCEPT !.moving = TRUE]]
      BY <1>2, <2>4, RecordMade DEF Save
    <3> QED
      BY <1>8, <2>4, <3>1, <3>2
  <2>5. CASE disk[k].at \in Out /\ Save(Cleaned(J, k)) /\ UNCHANGED disk
             /\ h' = [h EXCEPT !.todo = @ \ {k}]
    <3>1. [Rec(k) EXCEPT !.created = FALSE, !.cleaned = TRUE, !.moving = FALSE] \in Record
          /\ ~[Rec(k) EXCEPT !.created = FALSE, !.cleaned = TRUE, !.moving = FALSE].reserving
      BY <1>2, <2>1, RecTyped DEF Record
    <3>2. J' = [J EXCEPT !.art[k] = [Rec(k) EXCEPT !.created = FALSE, !.cleaned = TRUE,
                                                   !.moving = FALSE]]
      BY <1>2, <2>5, RecordMade DEF Save
    <3> QED
      BY <1>8, <2>5, <3>1, <3>2
  <2>6. CASE Put(k, "quarantine", disk[k].marked) /\ UNCHANGED <<J, h>>
    BY <1>7, <1>10, <2>1, <2>6
  <2>7. CASE h' = [h EXCEPT !.pc = "removing"] /\ Put(k, "quarantine", FALSE) /\ UNCHANGED J
    BY <1>7, <1>10, <2>1, <2>7
  <2>8. CASE disk' = [disk EXCEPT ![k] = NoDisk] /\ UNCHANGED <<J, h>>
    BY <1>4, <2>8
  <2>9. disk[k].at \in {"absent", "staging", "path", "quarantine"}
    BY <1>2, <1>3
  <2> QED
    BY <1>12, <2>2, <2>3, <2>4, <2>5, <2>6, <2>7, <2>8, <2>9 DEF RemoveArtifact, Out
<1>13. \/ h.pc = "removing" /\ disk' = [disk EXCEPT ![k] = NoDisk] /\ Goto("artifacts") /\ UNCHANGED J
       \/ ResumeReservation(k) \/ RemoveArtifact(k)
  BY DEF RemovalStep, k
<1> QED
  BY <1>9, <1>11, <1>12, <1>13

LEMMA FilesFits == Fits /\ FilesStep => Fits'
<1> SUFFICES ASSUME Fits, FilesStep PROVE Fits'
  OBVIOUS
<1>1. /\ Rolling /\ h.cmd # "none" /\ h.pc = "artifacts" /\ h.todo = {} /\ inst' = inst
      /\ UNCHANGED <<locked, marker, disk, J>> /\ SamePointers
  BY SamePointersIf DEF FilesStep, world, Rolling
<1>2. Typed /\ Typed' /\ J.status = "rolling-back"
  BY <1>1, SimplyTyped DEF Fits, StatusFits, Mid, Putting
<1>3. J'.status = J.status /\ Still
  BY <1>1, NothingSaved
<1>4. h'.cmd = h.cmd /\ h'.pc = "files" /\ h'.err = h.err
  BY <1>1, <1>2, GotoTyped DEF FilesStep, Places
<1> USE DEF Still
<1>5. StatusFits'
  BY <1>1, <1>2, <1>3, <1>4 DEF Fits, StatusFits, Mid, Kept, Terminal, Rolling, Staging, Putting
<1>6. LockFits'
  BY <1>1, <1>2, <1>3, <1>4
  DEF Fits, LockFits, Mid, Kept, Flags, PendingRepair, Terminal, Rolling
<1>7. PtrFits'
  BY <1>1, <1>2, <1>3, <1>4, PointersKept DEF Fits, PtrFits, Mid, Rolling, Putting
<1>8. DiskFits'
  <2>1. ~h.err => Clean
    BY <1>1 DEF Fits, DiskFits, Clean
  <2> QED
    BY <1>1, <1>2, <1>3, <1>4, <2>1, DisksKept DEF Fits, DiskFits, Mid, Rolling
<1> QED
  BY <1>2, <1>5, <1>6, <1>7, <1>8 DEF Fits

LEMMA MarkerFits == Fits /\ MarkerStep => Fits'
<1> SUFFICES ASSUME Fits, MarkerStep PROVE Fits'
  OBVIOUS
<1>1. /\ Rolling /\ h.cmd # "none" /\ h.pc = "files" /\ inst' = inst
      /\ UNCHANGED <<locked, disk, J>> /\ SamePointers
  BY SamePointersIf DEF MarkerStep, Rolling
<1>2. Typed /\ Typed' /\ J.status = "rolling-back"
  BY <1>1, MarkerTyped DEF Fits, StatusFits, Mid, Putting
<1>3. J'.status = J.status /\ Still
  BY <1>1, NothingSaved
<1>4. h'.cmd = h.cmd /\ h'.pc = "resume" /\ (h.err => h'.err)
  BY <1>1, <1>2, Acting DEF MarkerStep
<1>5. marker' = 0
  BY DEF MarkerStep, Fits, LockFits
<1> USE DEF Still
<1>6. StatusFits'
  BY <1>1, <1>2, <1>3, <1>4 DEF Fits, StatusFits, Mid, Kept, Terminal, Rolling, Staging, Putting
<1>7. LockFits'
  BY <1>1, <1>2, <1>3, <1>4, <1>5
  DEF Fits, LockFits, Mid, Kept, Flags, PendingRepair, Terminal, Rolling
<1>8. PtrFits'
  BY <1>1, <1>2, <1>3, <1>4, PointersKept DEF Fits, PtrFits, Mid, Rolling, Putting
<1>9. DiskFits'
  BY <1>1, <1>2, <1>3, <1>4, DisksKept DEF Fits, DiskFits, Mid, Rolling
<1> QED
  BY <1>2, <1>6, <1>7, <1>8, <1>9 DEF Fits

LEMMA ResumeFits == Fits /\ ResumeStep => Fits'
<1> SUFFICES ASSUME Fits, ResumeStep PROVE Fits'
  OBVIOUS
<1>1. /\ Rolling /\ h.cmd # "none" /\ h.pc = "resume" /\ inst' = inst
      /\ UNCHANGED <<locked, marker, disk, J>> /\ SamePointers
  BY SamePointersIf DEF ResumeStep, world, Rolling
<1>2. Typed /\ Typed' /\ J.status = "rolling-back"
  BY <1>1, ResumeTyped DEF Fits, StatusFits, Mid, Putting
<1>3. J'.status = J.status /\ Still
  BY <1>1, NothingSaved
<1>4. h'.cmd = h.cmd /\ h'.pc \in {"units", "finish"} /\ (h.err => h'.err)
  BY <1>1, <1>2, Acting DEF ResumeStep, GotoWith
<1> USE DEF Still
<1>5. StatusFits'
  BY <1>1, <1>2, <1>3, <1>4 DEF Fits, StatusFits, Mid, Kept, Terminal, Rolling, Staging, Putting
<1>6. LockFits'
  BY <1>1, <1>2, <1>3, <1>4
  DEF Fits, LockFits, Mid, Kept, Flags, PendingRepair, Terminal, Rolling
<1>7. PtrFits'
  BY <1>1, <1>2, <1>3, <1>4, PointersKept DEF Fits, PtrFits, Mid, Rolling, Putting
<1>8. DiskFits'
  BY <1>1, <1>2, <1>3, <1>4, DisksKept DEF Fits, DiskFits, Mid, Rolling
<1> QED
  BY <1>2, <1>5, <1>6, <1>7, <1>8 DEF Fits

LEMMA FinishFits == Fits /\ FinishStep => Fits'
<1> SUFFICES ASSUME Fits, FinishStep PROVE Fits'
  OBVIOUS
<1>1. /\ Rolling /\ h.cmd # "none" /\ h.pc = "finish" /\ inst' = inst
      /\ UNCHANGED <<locked, marker, disk>> /\ SamePointers
  BY SamePointersIf DEF FinishStep, world, Rolling
<1>2. Typed /\ Typed' /\ J.status \notin Terminal /\ marker = 0
  BY <1>1, SimplyTyped DEF Fits, StatusFits, LockFits, Mid, Terminal
<1>3. CASE Save([J EXCEPT !.status = "rollback-failed"]) /\ Fail
  <2>1. J'.status = "rollback-failed" /\ Still
    BY <1>2, <1>3, StatusSaved
  <2> QED
    BY <1>1, <1>2, <1>3, <2>1, EndFits DEF Advance
<1>4. CASE ~h.err /\ Save([J EXCEPT !.status = "rolled-back"]) /\ Goto("unlock")
  <2>1. J'.status = "rolled-back" /\ Still
    BY <1>2, <1>4, StatusSaved
  <2>2. h'.cmd = h.cmd /\ h'.pc = "unlock"
    BY <1>1, <1>2, <1>4, GotoTyped DEF Places
  <2>3. Disarmed /\ Clean
    BY <1>1, <1>4 DEF Fits, PtrFits, DiskFits
  <2> USE DEF Still
  <2>4. StatusFits'
    BY <1>1, <1>2, <2>1, <2>2 DEF Fits, StatusFits, Mid, Kept, Terminal, Rolling, Staging, Putting
  <2>5. LockFits'
    BY <1>1, <1>2, <2>1, <2>2
    DEF Fits, LockFits, Mid, Kept, Flags, PendingRepair, Terminal, Rolling
  <2>6. PtrFits'
    BY <1>1, <1>2, <2>1, <2>2, <2>3, PointersKept DEF Fits, PtrFits, Mid, Rolling, Putting
  <2>7. DiskFits'
    BY <1>1, <1>2, <2>1, <2>2, <2>3, DisksKept DEF Fits, DiskFits, Mid, Rolling
  <2> QED
    BY <1>2, <2>4, <2>5, <2>6, <2>7 DEF Fits
<1> QED
  BY <1>3, <1>4 DEF FinishStep

(* An installer between two commands, and a helper that starts or is gone. *)
LEMMA BetweenFits ==
  ASSUME Fits, Typed', UNCHANGED <<locked, J, marker, disk>>, SamePointers,
         h'.pc \in {"none", "start"},
         inst'.at \in {"database", "restore", "verify", "commit"} => J.mode # "repair"
  PROVE  Fits'
<1>1. J'.status = J.status /\ Still
  BY NothingSaved
<1> USE DEF Still
<1>2. StatusFits'
  BY <1>1 DEF Fits, StatusFits, Mid, Kept
<1>3. LockFits'
  BY <1>1 DEF Fits, LockFits, Mid, Kept, Flags, PendingRepair, Terminal
<1>4. PtrFits'
  BY <1>1, PointersKept DEF Fits, PtrFits, Mid, Putting
<1>5. DiskFits'
  BY <1>1, DisksKept DEF Fits, DiskFits, Mid
<1> QED
  BY <1>2, <1>3, <1>4, <1>5 DEF Fits

LEMMA Unrepaired ==
  ASSUME Fits, NEW c, c = inst.at
  PROVE  /\ Following(c) \in {"database", "restore", "verify", "commit"} => J.mode # "repair"
         /\ AfterFailure(c) \notin {"database", "restore", "verify", "commit"}
<1>1. Following(c) \in {"database", "restore", "verify", "commit"} => J.mode # "repair"
  BY DEF Following, Fits, LockFits
<1>2. AfterFailure(c) \notin {"database", "restore", "verify", "commit"}
  BY DEF AfterFailure
<1> QED
  BY <1>1, <1>2

LEMMA InstallerFits ==
  /\ Fits /\ RunHelper => Fits'
  /\ Fits /\ HelperExits => Fits'
  /\ Fits /\ InitializeDatabase => Fits'
  /\ Fits /\ Configure => Fits'
  /\ Fits /\ StartInstaller => Fits'
<1>1. ASSUME Fits, RunHelper PROVE Fits'
  <2>1. Typed' /\ UNCHANGED <<locked, J, marker, disk>> /\ SamePointers /\ inst' = inst
    BY <1>1, InstallerTyped, SamePointersIf DEF Fits, RunHelper, world
  <2>2. h'.pc = "start"
    BY <1>1 DEF RunHelper, Idle
  <2>3. inst.at \in {"database", "restore", "verify", "commit"} => J.mode # "repair"
    BY <1>1 DEF Fits, LockFits
  <2> QED
    BY <1>1, <2>1, <2>2, <2>3, BetweenFits
<1>2. ASSUME Fits, HelperExits PROVE Fits'
  <2>1. Typed' /\ UNCHANGED <<locked, J, marker, disk>> /\ SamePointers
    BY <1>2, InstallerTyped DEF Fits, HelperExits, world, SamePointers
  <2>2. h'.pc = "none"
    BY <1>2 DEF HelperExits, Exit, Idle
  <2>3. inst'.at \in {Following(inst.at), AfterFailure(inst.at), "none"}
        /\ (inst'.at = Following(inst.at) \/ inst'.at \in {AfterFailure(inst.at), "none"})
    <3>1. ASSUME NEW next, NEW told, Exit(next, told) PROVE inst'.at \in {next, "none"}
      <4>1. inst \in [at : Callers \ {"none"}, mode : Modes]
        BY <1>2, Active1 DEF Fits, HelperExits, Typed, HelperTyped
      <4> QED
        BY <3>1, <4>1 DEF Exit, NoInstaller
    <3> QED
      BY <1>2, <3>1 DEF HelperExits
  <2> QED
    BY <1>2, <2>1, <2>2, <2>3, Unrepaired, BetweenFits
<1>3. ASSUME Fits, InitializeDatabase PROVE Fits'
  <2>1. Typed' /\ UNCHANGED <<locked, J, marker, disk>> /\ SamePointers
    BY <1>3, InstallerTyped DEF Fits, InitializeDatabase, SamePointers
  <2>2. h'.pc = "none" /\ J.mode # "repair"
    BY <1>3 DEF InitializeDatabase, Exit, Idle, Fits, LockFits
  <2> QED
    BY <1>3, <2>1, <2>2, BetweenFits
<1>4. ASSUME Fits, Configure PROVE Fits'
  <2>1. Typed' /\ UNCHANGED <<locked, J, marker, disk>> /\ SamePointers
    BY <1>4, InstallerTyped DEF Fits, Configure, SamePointers
  <2>2. h'.pc = "none" /\ inst'.at \in {"restore-repair", "complete"}
    <3>1. inst \in [at : Callers \ {"none"}, mode : Modes]
      BY <1>4 DEF Configure, NoInstaller, Fits, Typed, HelperTyped
    <3> QED
      BY <1>4, <3>1 DEF Configure, Exit, Idle
  <2> QED
    BY <1>4, <2>1, <2>2, BetweenFits
<1>5. ASSUME Fits, StartInstaller PROVE Fits'
  <2>1. Typed' /\ UNCHANGED <<locked, J, marker, disk>> /\ SamePointers
    BY <1>5, InstallerTyped DEF Fits, StartInstaller, SamePointers, world
  <2>2. h'.pc = "none" /\ inst'.at = "recover"
    BY <1>5 DEF StartInstaller, Idle
  <2> QED
    BY <1>5, <2>1, <2>2, BetweenFits
<1> QED
  BY <1>1, <1>2, <1>3, <1>4, <1>5

(* A step that leaves the helper and the journal alone.                    *)
LEMMA UntouchedFits ==
  ASSUME Fits, Typed', UNCHANGED <<locked, J, marker, disk>>, inst' = inst, h' = h,
         PtrCore', Candidate => Candidate', Older => Older'
  PROVE  Fits'
<1>1. J'.status = J.status /\ Still
  BY NothingSaved
<1> USE DEF Still
<1>2. StatusFits'
  BY <1>1 DEF Fits, StatusFits, Mid, Kept, Terminal, Rolling, Staging, Putting
<1>3. LockFits'
  BY <1>1 DEF Fits, LockFits, Mid, Kept, Flags, PendingRepair, Terminal, Rolling
<1>4. PtrFits'
  BY <1>1 DEF Fits, PtrFits, Mid, Putting, Arms, Disarmed, Rolling, NextPointer
<1>5. DiskFits'
  BY <1>1, DisksKept DEF Fits, DiskFits, Mid, Rolling
<1> QED
  BY <1>2, <1>3, <1>4, <1>5 DEF Fits

LEMMA RetargetFits == ASSUME NEW p \in Pointers PROVE Fits /\ Retarget(p) => Fits'
<1> SUFFICES ASSUME Fits, Retarget(p) PROVE Fits'
  OBVIOUS
<1>1. /\ inst' = inst /\ h' = h /\ touched' = touched \cup {p}
      /\ UNCHANGED <<locked, J, marker, disk, side, kind0>>
  BY DEF Retarget
<1>2. Typed' /\ Typed
  BY InterruptionTyped DEF Fits, Interruption
<1>3. PICK v \in {Foreign, Gone} : ptr' = [ptr EXCEPT ![p] = v]
  BY DEF Retarget
<1>4. \A q \in Pointers : ptr'[q] = IF q = p THEN v ELSE ptr[q]
  BY <1>2, <1>3 DEF Typed, WorldTyped
<1>5. Below(v, J.id) /\ Below(v, J.id + 1) /\ v # 0
  BY UpdateAssumption DEF Below
<1>6. PtrCore'
  <2> SUFFICES ASSUME NEW q \in Pointers
      PROVE  /\ q \notin touched' /\ ~J'.armed[q] => ptr'[q] = J'.prior[q]
             /\ J'.armed[q] => q \in Only(J'.mode) /\ ~J'.back[q]
             /\ kind0'[q] = "missing" => ptr'[q] # 0 /\ side'[q] # 0 /\ J'.prior[q] # 0
             /\ Below(ptr'[q], J'.id + 1) /\ Below(side'[q], J'.id + 1)
             /\ J'.id # 0 => Below(J'.prior[q], J'.id)
    BY DEF PtrCore, Below
  <2>1. PtrCore
    BY DEF Fits, PtrFits
  <2> QED
    BY <1>1, <1>4, <1>5, <2>1 DEF PtrCore
<1>7. Candidate => Candidate'
  BY <1>1, <1>4 DEF Candidate, Only, Pointers
<1>8. Older => Older'
  BY <1>1, <1>4, <1>5 DEF Older, Below
<1> QED
  BY <1>1, <1>2, <1>6, <1>7, <1>8, UntouchedFits

LEMMA InterruptionFits == Fits /\ Interruption => Fits'
<1> SUFFICES ASSUME Fits, Interruption PROVE Fits'
  OBVIOUS
<1>1. Typed /\ Typed'
  BY InterruptionTyped DEF Fits
<1>2. ASSUME InstallerFails \/ KillHelper PROVE Fits'
  <2>1. UNCHANGED <<locked, J, marker, disk>> /\ SamePointers /\ Exit(AfterFailure(inst.at), "unknown")
    BY <1>2 DEF InstallerFails, KillHelper, world, SamePointers
  <2>2. inst \in [at : Callers \ {"none"}, mode : Modes]
    BY <1>1, <1>2 DEF InstallerFails, KillHelper, Typed, HelperTyped
  <2>3. h'.pc = "none" /\ inst'.at \in {AfterFailure(inst.at), "none"}
    BY <2>1, <2>2 DEF Exit, Idle, NoInstaller
  <2> QED
    BY <1>1, <2>1, <2>3, Unrepaired, BetweenFits
<1>3. ASSUME KillInstaller \/ Reboot PROVE Fits'
  <2>1. UNCHANGED <<locked, J, marker, disk>> /\ SamePointers
    BY <1>3 DEF KillInstaller, Reboot, world, SamePointers, Pointers
  <2>2. h'.pc = "none" /\ inst'.at = "none"
    BY <1>3 DEF KillInstaller, Reboot, Idle, NoInstaller
  <2> QED
    BY <1>1, <2>1, <2>2, BetweenFits
<1>4. ASSUME SystemctlFails PROVE Fits'
  <2> DEFINE x == First(h.todo)
  <2>1. /\ h.todo # {} /\ inst' = inst /\ h.pc # "none"
        /\ UNCHANGED <<locked, ptr, side, disk, marker, kind0>>
    BY <1>4 DEF SystemctlFails, Idle
  <2>2. h.cmd # "none" /\ x \in h.todo
    BY <1>1, <2>1, Active1, Picked
  <2>3. x \in Units
    BY <1>1, <1>4, <2>2, UnitSets DEF SystemctlFails, Typed, TodoFits
  <2>4. touched' \in {touched, touched \cup {x}}
    BY <1>4 DEF SystemctlFails
  <2>5. SamePointers
    BY <2>1, <2>3, <2>4, Constants DEF SamePointers
  <2>6. CASE Fail /\ UNCHANGED J
    BY <1>1, <2>1, <2>2, <2>5, <2>6, NothingSaved, EndFits DEF Advance
  <2>7. CASE NotRestored /\ h.pc \in {"units", "enable"} /\ h.cmd \in {"restore", "recover", "rollback"}
    BY <1>1, <2>1, <2>5, <2>7, RestoredFits
  <2>8. CASE Rolling /\ h.pc = "halt" /\ Spoil(x) /\ UNCHANGED J
    <3>1. h'.cmd = h.cmd /\ h'.pc = "halt" /\ (h.err => h'.err)
      BY <1>1, <2>2, <2>8, Acting DEF Spoil
    <3>2. J'.status = J.status /\ Still
      BY <2>8, NothingSaved
    <3> QED
      BY <1>1, <2>1, <2>2, <2>5, <2>8, <3>1, <3>2, FlowFits
  <2> QED
    BY <1>4, <2>6, <2>7, <2>8 DEF SystemctlFails
<1>5. ASSUME EditSettings \/ \E u \in Units : ChangeUnit(u) PROVE Fits'
  <2>1. inst' = inst /\ h' = h /\ UNCHANGED <<locked, J, marker, disk, ptr, side, kind0>>
    BY <1>5 DEF EditSettings, ChangeUnit, world
  <2>2. SamePointers
    BY <1>5, <2>1, Constants DEF EditSettings, ChangeUnit, SamePointers
  <2>3. PtrCore' /\ (Candidate => Candidate') /\ (Older => Older')
    BY <2>1, <2>2, NothingSaved, PointersKept DEF Still, Fits, PtrFits
  <2> QED
    BY <1>1, <2>1, <2>3, UntouchedFits
<1> QED
  BY <1>2, <1>3, <1>4, <1>5, RetargetFits DEF Interruption

LEMMA InitFits == Init => Fits
<1> SUFFICES ASSUME Init PROVE Fits
  OBVIOUS
<1>1. Typed
  BY InitTyped
<1>2. /\ J.status = "rolled-back" /\ J.id = 0 /\ J.mode = "upgrade" /\ J.prior = ptr
      /\ J.armed = [p \in Pointers |-> FALSE] /\ J.art = [k \in Artifacts |-> NoRecord]
      /\ h = Idle /\ inst = NoInstaller /\ marker = 0
      /\ disk = [k \in Artifacts |-> NoDisk] /\ side = [p \in Pointers |-> Gone]
      /\ ptr = [p \in Pointers |-> IF kind0[p] = "missing" THEN Gone ELSE 0]
  BY DEF Init, NoJournal, Fresh
<1>3. Below(Gone, 0 + 1) /\ Below(0, 0 + 1) /\ Gone # 0
  BY <1>1, <1>2, OwnRelease
<1>4. StatusFits
  BY <1>2 DEF StatusFits, Mid, Idle
<1>5. LockFits
  BY <1>2 DEF LockFits, Mid, Idle, NoInstaller, PendingRepair, Terminal
<1>6. PtrFits
  <2>1. PtrCore
    BY <1>2, <1>3 DEF PtrCore
  <2>2. Disarmed
    BY <1>2 DEF Disarmed
  <2> QED
    BY <1>2, <2>1, <2>2 DEF PtrFits, Mid, Idle, Putting
<1>7. DiskFits
  BY <1>2 DEF DiskFits, DiskCore, Clean, Mid, Idle, NoDisk, NoRecord, Rec, Out
<1> QED
  BY <1>1, <1>4, <1>5, <1>6, <1>7 DEF Fits

LEMMA StepFits == Fits /\ [Next]_vars => Fits'
<1> SUFFICES ASSUME Fits, [Next]_vars PROVE Fits'
  OBVIOUS
<1>1. CASE UNCHANGED vars
  <2>1. /\ Typed' /\ UNCHANGED <<locked, J, marker, disk, ptr, side, kind0, touched>>
        /\ inst' = inst /\ h' = h
    BY <1>1, StepTyped DEF vars, world, users, Fits
  <2>2. SamePointers
    BY <2>1 DEF SamePointers
  <2>3. PtrCore' /\ (Candidate => Candidate') /\ (Older => Older')
    BY <2>1, <2>2, NothingSaved, PointersKept DEF Still, Fits, PtrFits
  <2> QED
    BY <2>1, <2>3, UntouchedFits
<1>2. CASE Interruption
  BY <1>2, InterruptionFits
<1>3. CASE InstallerStep \/ StartInstaller
  BY <1>3, InstallerFits DEF InstallerStep
<1>4. CASE HelperStep
  <2>1. CASE BeginLock \/ \E inv \in Inventories : BeginCapture(inv)
    BY <2>1, BeginLockFits, BeginCaptureFits
  <2>2. CASE \/ ReserveStep("source-temp") \/ ReserveStep("venv") \/ PromoteSourceStep
             \/ RecordStep("source") \/ RecordStep("venv") \/ MigrationStep
    BY <2>2, ReserveFits, PromoteSourceFits, RecordStepFits, SimplyFit DEF Pointers
  <2>3. CASE StopStep \/ CaptureStep \/ PromoteStep \/ VerifyStep
    BY <2>3, StopFits, PromoteFits, SimplyFit
  <2>4. CASE RestoreStart \/ RestoreStep \/ RestoreRepairStep \/ CompleteStep
    BY <2>4, RestoreStartFits, RestoreFits, RestoreRepairFits, CompleteFits
  <2>5. CASE CommitStep \/ CommitRepairStep \/ Unlock
    BY <2>5, CommitFits, CommitRepairFits, UnlockFits
  <2>6. CASE RecoverStart \/ RollbackStart \/ RollStart \/ HaltStep \/ BackStep
    BY <2>6, StartsFit, RollFits, HaltFits, BackFits
  <2>7. CASE (Rolling /\ RemovalStep) \/ FilesStep \/ MarkerStep \/ ResumeStep \/ FinishStep
    BY <2>7, RemovalFits, FilesFits, MarkerFits, ResumeFits, FinishFits
  <2> QED
    BY <1>4, <2>1, <2>2, <2>3, <2>4, <2>5, <2>6, <2>7 DEF HelperStep
<1> QED
  BY <1>1, <1>2, <1>3, <1>4 DEF Next

LEMMA AlwaysFits == Spec => []Fits
  BY InitFits, StepFits, PTL DEF Spec

(* A repair whose configuration is pending keeps its lock and its marker,  *)
(* and no marker outlives the lock, whatever killed the helpers that set   *)
(* and remove them.                                                        *)
THEOREM RepairIsFenced == Spec => []RepairFenced
<1>1. Fits => RepairFenced
  BY DEF Fits, LockFits, RepairFenced
<1> QED
  BY <1>1, AlwaysFits, PTL

(* A transaction that has ended left both pointers on the recorded         *)
(* releases or both on the candidate, unless somebody else set them, and   *)
(* one that was rolled back left no directory of the candidate and no      *)
(* marker.                                                                 *)
THEOREM PointersSettle == Spec => []SettledPointers
<1>1. Fits => SettledPointers
  <2> SUFFICES ASSUME Fits PROVE SettledPointers
    OBVIOUS
  <2>1. ASSUME RolledBack PROVE /\ \A p \in Pointers \ touched : ptr[p] = J.prior[p]
                                /\ marker # J.id
                                /\ \A k \in Artifacts : disk[k].at \in {"absent", "staging"}
    <3>1. J.status = "rolled-back" /\ J.id # 0
      BY <2>1, OwnRelease DEF RolledBack, Fits
    <3>2. Disarmed /\ PtrCore /\ Clean
      BY <3>1 DEF Fits, PtrFits, DiskFits
    <3>3. marker # J.id
      BY <3>1 DEF Fits, LockFits
    <3>4. \A p \in Pointers \ touched : ptr[p] = J.prior[p]
      BY <3>2 DEF Disarmed, PtrCore
    <3> QED
      BY <3>2, <3>3, <3>4 DEF Clean, Out
  <2>2. ASSUME Updated \/ Repaired, NEW p \in Pointers \ touched PROVE ptr[p] = Target[p]
    <3>1. Candidate /\ PtrCore
      BY <2>2 DEF Updated, Repaired, Fits, PtrFits
    <3>2. CASE p \in Only(J.mode)
      BY <3>1, <3>2 DEF Candidate, Target
    <3>3. CASE p \notin Only(J.mode)
      <4>1. ~J.armed[p]
        BY <3>1, <3>3 DEF PtrCore
      <4> QED
        BY <3>1, <3>3, <4>1 DEF PtrCore, Target
    <3> QED
      BY <3>2, <3>3
  <2> QED
    BY <2>1, <2>2 DEF SettledPointers
<1> QED
  BY <1>1, AlwaysFits, PTL

-----------------------------------------------------------------------------
(* What most steps leave alone of what the releases and commits are about. *)
Frame ==
  /\ locked' = locked /\ Kept
  /\ J'.status = "committed" <=> J.status = "committed"
  /\ \A p \in Pointers : p \in touched' <=> p \in touched
  /\ ptr' = ptr \/ (locked /\ J.status # "committed")

Begins ==
  /\ ~locked /\ locked' = TRUE /\ J'.prior = ptr /\ J'.id = J.id + 1
  /\ J'.status = "preparing" /\ touched' = {} /\ ptr' = ptr

(* The live release becomes what the pointers name: they name it already.  *)
Settles ==
  /\ J.status # "committed" /\ locked => \A p \in Pointers \ touched : ptr[p] = J.prior[p]
  /\ locked' = FALSE \/ (J'.status # "committed" /\ J'.prior = ptr)
  /\ J.status = "committed" => J'.status = "committed"
  /\ ptr' = ptr /\ touched' = touched

Commits ==
  /\ locked /\ J.status # "committed" /\ J'.status = "committed"
  /\ J.id # 0 /\ PtrCore /\ Candidate
  /\ locked' = locked /\ ptr' = ptr /\ touched' = touched

Moves ==
  \E p \in Pointers :
    /\ locked' = locked /\ J' = J /\ touched' = touched \cup {p}
    /\ \A q \in Pointers \ {p} : ptr'[q] = ptr[q]
    /\ ptr' \in [Pointers -> Releases]

LEMMA FramedIf ==
  ASSUME Typed, locked' = locked, touched' = touched,
         ptr' = ptr \/ (locked /\ J.status # "committed"),
         \/ J' = J
         \/ Kept /\ J'.status = J.status
         \/ \E s : /\ Save([J EXCEPT !.status = s]) /\ J.status # "committed"
                   /\ s # "committed"
  PROVE  Frame
<1>1. CASE J' = J
  BY <1>1 DEF Frame, Kept
<1>2. CASE Kept /\ J'.status = J.status
  BY <1>2 DEF Frame
<1>3. CASE \E s : /\ Save([J EXCEPT !.status = s]) /\ J.status # "committed" /\ s # "committed"
  BY <1>3, StatusSaved DEF Frame, Still
<1> QED
  BY <1>1, <1>2, <1>3

(* The commands that build a candidate.                                    *)
LEMMA BuildingFramed ==
  ASSUME Fits,
         \/ ReserveStep("source-temp") \/ ReserveStep("venv") \/ PromoteSourceStep
         \/ RecordStep("source") \/ RecordStep("venv") \/ MigrationStep
  PROVE  Frame
<1>1. Typed /\ locked' = locked /\ ptr' = ptr /\ touched' = touched
  BY DEF Fits, ReserveStep, PromoteSourceStep, RecordStep, MigrationStep, users
<1>2. ASSUME NEW k, ReserveStep(k) PROVE Kept /\ J'.status = J.status
  BY <1>1, <1>2 DEF ReserveStep, Save, Kept, Typed, JournalTyped, Journal
<1>3. ASSUME PromoteSourceStep PROVE Kept /\ J'.status = J.status
  BY <1>1, <1>3 DEF PromoteSourceStep, Save, Kept, Typed, JournalTyped, Journal
<1>4. ASSUME NEW k \in {"source", "venv"}, RecordStep(k) PROVE Frame
  <2>1. CASE J' = J
    BY <1>1, <2>1, FramedIf
  <2>2. CASE Save([J EXCEPT !.art[k].unmarked = TRUE])
    <3>1. Kept /\ J'.status = J.status
      BY <1>1, <2>2 DEF Save, Kept, Typed, JournalTyped, Journal
    <3> QED
      BY <1>1, <3>1, FramedIf
  <2>3. CASE /\ h.pc = "unmarked" /\ h.cmd \in {"record venv", "record source"}
             /\ Save([J EXCEPT !.ready = @ \cup {k}, !.status = "candidate-staged",
                               !.gate = IF k = "source" THEN FALSE ELSE @])
    <3>1. Kept /\ J'.status = "candidate-staged"
      BY <1>1, <2>3 DEF Save, Kept, Typed, JournalTyped, Journal
    <3>2. J.status # "committed"
      BY <2>3 DEF Fits, StatusFits, Mid, Staging
    <3> QED
      BY <1>1, <3>1, <3>2 DEF Frame
  <2> QED
    BY <1>4, <2>1, <2>2, <2>3 DEF RecordStep, At
<1>5. ASSUME MigrationStep PROVE Kept /\ J'.status = J.status
  BY <1>1, <1>5 DEF MigrationStep, Save, Kept, Typed, JournalTyped, Journal
<1> QED
  BY <1>1, <1>2, <1>3, <1>4, <1>5, FramedIf

(* The commands that stop the units, move the pointers and start the units.*)
LEMMA PromotingFramed ==
  ASSUME Fits, StopStep \/ CaptureStep \/ PromoteStep \/ RestoreStart \/ RestoreStep \/ VerifyStep
  PROVE  Frame
<1>0. Typed /\ locked' = locked /\ touched' = touched
  BY DEF Fits, StopStep, CaptureStep, PromoteStep, RestoreStart, RestoreStep, VerifyStep, users
<1>1. ASSUME StopStep PROVE Frame
  <2>1. ptr' = ptr
    BY <1>1 DEF StopStep
  <2>2. \/ J' = J
        \/ J.status # "committed" /\ Save([J EXCEPT !.status = "stopped"])
        \/ J.status # "committed" /\ Save([J EXCEPT !.status = "stopping", !.stopping = TRUE])
        \/ Save([J EXCEPT !.disabled = @ \cup {First(h.todo)}])
    BY <1>1 DEF StopStep, Fits, StatusFits, Mid
  <2>3. \/ J' = J
        \/ J.status # "committed" /\ Save([J EXCEPT !.status = "stopped"])
        \/ Frame
    <3>1. ASSUME J.status # "committed", Save([J EXCEPT !.status = "stopping", !.stopping = TRUE])
          PROVE  Kept /\ J'.status = "stopping"
      BY <1>0, <3>1 DEF Save, Kept, Typed, JournalTyped, Journal
    <3>2. ASSUME Save([J EXCEPT !.disabled = @ \cup {First(h.todo)}])
          PROVE  Kept /\ J'.status = J.status
      BY <1>0, <3>2 DEF Save, Kept, Typed, JournalTyped, Journal
    <3> QED
      BY <1>0, <2>1, <2>2, <3>1, <3>2 DEF Frame
  <2> QED
    BY <1>0, <2>1, <2>3, FramedIf
<1>2. ASSUME CaptureStep PROVE Frame
  <2>1. ptr' = ptr /\ Kept /\ J'.status = J.status
    BY <1>0, <1>2 DEF CaptureStep, world, Save, Kept, Typed, JournalTyped, Journal
  <2> QED
    BY <1>0, <2>1, FramedIf
<1>3. ASSUME PromoteStep PROVE Frame
  <2>1. Mid => J.status = "promoting" /\ locked
    BY <1>3 DEF PromoteStep, Fits, StatusFits, LockFits, Terminal
  <2>2. ptr' = ptr \/ (locked /\ J.status # "committed")
    BY <1>3, <2>1 DEF PromoteStep, Mid
  <2>3. \/ J' = J
        \/ J.status # "committed" /\ Save([J EXCEPT !.status = "promoting"])
        \/ J.status # "committed" /\ Save([J EXCEPT !.status = "promoted"])
        \/ Save([J EXCEPT !.armed[NextPointer] = TRUE, !.back[NextPointer] = FALSE])
    BY <1>3, <2>1 DEF PromoteStep, Mid
  <2>4. Save([J EXCEPT !.armed[NextPointer] = TRUE, !.back[NextPointer] = FALSE])
          => Kept /\ J'.status = J.status
    BY <1>0 DEF Save, Kept, Typed, JournalTyped, Journal
  <2> QED
    BY <1>0, <2>2, <2>3, <2>4, FramedIf
<1>4. ASSUME RestoreStart PROVE Frame
  BY <1>0, <1>4, FramedIf DEF RestoreStart, world
<1>5. ASSUME RestoreStep PROVE Frame
  <2>1. ptr' = ptr /\ (J' = J \/ Save([J EXCEPT !.status = "services-restored"]))
    BY <1>5 DEF RestoreStep, Restored, NotRestored
  <2>2. J.status # "committed"
    BY <1>5 DEF RestoreStep, Fits, StatusFits, Mid, Rolling, Putting
  <2> QED
    BY <1>0, <2>1, <2>2, FramedIf
<1>6. ASSUME VerifyStep PROVE Frame
  BY <1>0, <1>6, FramedIf DEF VerifyStep, world
<1> QED
  BY <1>1, <1>2, <1>3, <1>4, <1>5, <1>6

(* The commands that end a transaction, but for its commit.                *)
LEMMA EndingFramed ==
  ASSUME Fits,
         \/ RestoreRepairStep \/ CompleteStep \/ RecoverStart \/ RollbackStart \/ RollStart
         \/ HaltStep \/ BackStep \/ (Rolling /\ RemovalStep) \/ FilesStep \/ MarkerStep
         \/ ResumeStep \/ FinishStep
  PROVE  Frame
<1>0. Typed /\ locked' = locked /\ touched' = touched
  BY DEF Fits, RestoreRepairStep, CompleteStep, RecoverStart, RollbackStart, RollStart, HaltStep,
     BackStep, RemovalStep, FilesStep, MarkerStep, ResumeStep, FinishStep, users
<1>1. ASSUME RestoreRepairStep \/ RecoverStart \/ RollbackStart \/ HaltStep \/ FilesStep
             \/ MarkerStep \/ ResumeStep
      PROVE  J' = J /\ ptr' = ptr
  BY <1>1 DEF RestoreRepairStep, RecoverStart, RollbackStart, HaltStep, FilesStep, MarkerStep,
     ResumeStep, world
<1>2. ASSUME CompleteStep PROVE Frame
  <2>1. ptr' = ptr /\ (J' = J \/ Save([J EXCEPT !.complete = TRUE]))
    BY <1>2 DEF CompleteStep
  <2>2. Save([J EXCEPT !.complete = TRUE]) => Kept /\ J'.status = J.status
    BY <1>0 DEF Save, Kept, Typed, JournalTyped, Journal
  <2> QED
    BY <1>0, <2>1, <2>2, FramedIf
<1>3. ASSUME RollStart PROVE Frame
  <2>1. /\ ptr' = ptr /\ J.status # "committed" /\ Save([J EXCEPT !.status = "rolling-back"])
    BY <1>3 DEF RollStart, world, Fits, StatusFits, Mid, Terminal
  <2> QED
    BY <1>0, <2>1, FramedIf
<1>4. ASSUME BackStep PROVE Frame
  <2>1. J.status = "rolling-back" /\ locked
    BY <1>4 DEF BackStep, Fits, StatusFits, LockFits, Mid, Terminal
  <2>2. J' = J \/ Save([J EXCEPT !.armed[BackPointer] = FALSE, !.back[BackPointer] = TRUE])
    BY <1>4 DEF BackStep
  <2>3. Save([J EXCEPT !.armed[BackPointer] = FALSE, !.back[BackPointer] = TRUE])
          => Kept /\ J'.status = J.status
    BY <1>0 DEF Save, Kept, Typed, JournalTyped, Journal
  <2> QED
    BY <1>0, <2>1, <2>2, <2>3, FramedIf
<1>5. ASSUME Rolling, RemovalStep PROVE Frame
  <2> DEFINE k == NextArtifact
  <2>1. k \in Artifacts /\ ptr' = ptr
    BY <1>5 DEF RemovalStep, NextArtifact, Artifacts
  <2>2. \/ J' = J \/ J' = [J EXCEPT !.art[k].moving = TRUE]
        \/ J' = [J EXCEPT !.art[k].reserving = FALSE, !.art[k].created = TRUE]
        \/ J' = [J EXCEPT !.art[k].reserving = FALSE, !.art[k].cleaned = TRUE]
        \/ J' = Cleaned(J, k)
    BY <1>5 DEF RemovalStep, ResumeReservation, RemoveArtifact, RemoveFails, Save
  <2> HIDE DEF k
  <2>3. Kept /\ J'.status = J.status
    BY <1>0, <2>2 DEF Cleaned, Kept, Typed, JournalTyped, Journal
  <2> QED
    BY <1>0, <2>1, <2>3, FramedIf
<1>6. ASSUME FinishStep PROVE Frame
  <2>1. /\ ptr' = ptr /\ J.status # "committed"
        /\ \/ Save([J EXCEPT !.status = "rollback-failed"])
           \/ Save([J EXCEPT !.status = "rolled-back"])
    BY <1>6 DEF FinishStep, world, Fits, StatusFits, Mid
  <2> QED
    BY <1>0, <2>1, FramedIf
<1> QED
  BY <1>0, <1>1, <1>2, <1>3, <1>4, <1>5, <1>6, FramedIf

(* What is not armed and what nobody set is what it was.                   *)
LEMMA PriorKept ==
  ASSUME PtrCore, Disarmed, NEW p \in Pointers \ touched
  PROVE  ptr[p] = J.prior[p]
  BY DEF PtrCore, Disarmed

LEMMA LockSteps ==
  /\ Fits /\ BeginLock => Begins \/ Frame
  /\ Fits /\ (\E inv \in Inventories : BeginCapture(inv)) => Settles
  /\ Fits /\ Unlock => Settles
  /\ Fits /\ CommitStep => Commits \/ Frame
  /\ Fits /\ CommitRepairStep => Commits \/ Frame
<1>1. ASSUME Fits, BeginLock PROVE Begins \/ Frame
  <2>1. CASE marker = 0 /\ ~locked
    <3>1. /\ J' = Fresh(J.id + 1, inst.mode) /\ locked' = TRUE /\ touched' = {} /\ ptr' = ptr
      BY <1>1, <2>1 DEF BeginLock, Save
    <3>2. J'.id = J.id + 1 /\ J'.prior = ptr /\ J'.status = "preparing"
      BY <3>1 DEF Fresh
    <3> QED
      BY <2>1, <3>1, <3>2 DEF Begins
  <2>2. CASE ~(marker = 0 /\ ~locked)
    <3>1. locked' = locked /\ touched' = touched /\ ptr' = ptr /\ J' = J
      BY <1>1, <2>2 DEF BeginLock
    <3> QED
      BY <1>1, <3>1, FramedIf DEF Fits
  <2> QED
    BY <2>1, <2>2
<1>2. ASSUME Fits, NEW inv \in Inventories, BeginCapture(inv) PROVE Settles
  <2>1. ptr' = ptr /\ touched' = touched /\ h.pc = "capture" /\ h.cmd = "begin"
    BY <1>2 DEF BeginCapture, world, At
  <2>2. J.status = "preparing" /\ PtrCore /\ Disarmed
    BY <1>2, <2>1 DEF Fits, StatusFits, PtrFits, Mid
  <2>3. locked' = FALSE \/ (J'.status # "committed" /\ J'.prior = ptr)
    <3>1. CASE locked' = FALSE
      BY <3>1
    <3>2. CASE locked' # FALSE
      <4>1. Save([J EXCEPT !.prior = ptr, !.inventory = inv, !.status = "prepared",
                           !.units = [u \in Units |-> [act |-> unit[u].act,
                                                       enabled |-> unit[u].enabled]]])
        BY <1>2, <3>2 DEF BeginCapture
      <4> QED
        BY <1>2, <4>1 DEF Save, Fits, Typed, JournalTyped, Journal
    <3> QED
      BY <3>1, <3>2
  <2> QED
    BY <2>1, <2>2, <2>3, PriorKept DEF Settles
<1>3. ASSUME Fits, Unlock PROVE Settles
  <2>1. ptr' = ptr /\ touched' = touched /\ J' = J /\ locked' = FALSE /\ h.pc = "unlock"
    BY <1>3 DEF Unlock, world, users
  <2>2. J.status \in Terminal
    BY <1>3, <2>1 DEF Fits, StatusFits, Mid
  <2>3. J.status # "committed" => Disarmed /\ PtrCore
    BY <1>3, <2>2 DEF Fits, PtrFits, Terminal
  <2> QED
    BY <2>1, <2>3, PriorKept DEF Settles
<1>4. ASSUME Fits, NEW c, Save([J EXCEPT !.status = "committed"]), locked' = locked, ptr' = ptr,
             touched' = touched, J.status \notin Terminal, Candidate
      PROVE  Commits
  <2>1. J'.status = "committed"
    BY <1>4, StatusSaved DEF Fits
  <2>2. locked /\ J.id # 0 /\ PtrCore
    BY <1>4 DEF Fits, StatusFits, LockFits, PtrFits, Terminal
  <2> QED
    BY <1>4, <2>1, <2>2 DEF Commits, Terminal
<1>5. ASSUME Fits, CommitStep PROVE Commits \/ Frame
  <2>1. locked' = locked /\ ptr' = ptr /\ touched' = touched
    BY <1>5 DEF CommitStep, world, users
  <2>2. CASE J.status = "verified" /\ Save([J EXCEPT !.status = "committed"])
    <3>1. Candidate /\ J.status \notin Terminal
      BY <1>5, <2>2 DEF Fits, PtrFits, Terminal
    <3> QED
      BY <1>4, <1>5, <2>1, <2>2, <3>1
  <2>3. CASE J' = J
    BY <1>5, <2>1, <2>3, FramedIf DEF Fits
  <2> QED
    BY <1>5, <2>2, <2>3 DEF CommitStep
<1>6. ASSUME Fits, CommitRepairStep PROVE Commits \/ Frame
  <2>1. locked' = locked /\ ptr' = ptr /\ touched' = touched
    BY <1>6 DEF CommitRepairStep, users
  <2>2. CASE h.pc = "bound" /\ Save([J EXCEPT !.status = "committed"])
    <3>1. Candidate /\ J.status \notin Terminal
      BY <1>6, <2>2 DEF CommitRepairStep, Fits, StatusFits, PtrFits, Terminal, Mid
    <3> QED
      BY <1>4, <1>6, <2>1, <2>2, <3>1
  <2>3. CASE \/ J' = J \/ Save([J EXCEPT !.complete = FALSE]) \/ Save([J EXCEPT !.bound = TRUE])
    <3>1. Kept /\ J'.status = J.status
      BY <1>6, <2>3 DEF Save, Kept, Fits, Typed, JournalTyped, Journal
    <3> QED
      BY <1>6, <2>1, <3>1, FramedIf DEF Fits
  <2> QED
    BY <1>6, <2>2, <2>3 DEF CommitRepairStep
<1> QED
  BY <1>1, <1>2, <1>3, <1>5, <1>6

(* Steps of the installer, and interruptions.                              *)
LEMMA OthersFramed ==
  /\ Fits /\ (InstallerStep \/ StartInstaller) => Frame
  /\ Fits /\ Interruption => Moves \/ Frame
<1>1. ASSUME Fits, InstallerStep \/ StartInstaller PROVE Frame
  <2>1. locked' = locked /\ J' = J /\ ptr' = ptr /\ touched' = touched
    BY <1>1 DEF InstallerStep, StartInstaller, RunHelper, HelperExits, InitializeDatabase,
       Configure, world, users
  <2> QED
    BY <1>1, <2>1, FramedIf DEF Fits
<1>2. ASSUME Fits, Interruption PROVE Moves \/ Frame
  <2>1. CASE \E p \in Pointers : Retarget(p)
    <3>1. PICK p \in Pointers : Retarget(p)
      BY <2>1
    <3>2. Typed' /\ ptr \in [Pointers -> Releases]
      BY <1>2, InterruptionTyped DEF Fits, Typed, WorldTyped
    <3>3. ptr' \in [Pointers -> Releases]
      BY <3>2 DEF Typed, WorldTyped
    <3>4. \A q \in Pointers \ {p} : ptr'[q] = ptr[q]
      BY <3>1, <3>2 DEF Retarget
    <3> QED
      BY <3>1, <3>3, <3>4 DEF Moves, Retarget
  <2>2. CASE InstallerFails \/ KillHelper \/ KillInstaller \/ EditSettings
    <3>1. locked' = locked /\ J' = J /\ ptr' = ptr /\ touched' = touched
      BY <2>2 DEF InstallerFails, KillHelper, KillInstaller, EditSettings, world
    <3> QED
      BY <1>2, <3>1, FramedIf DEF Fits
  <2>3. CASE SystemctlFails \/ Reboot \/ \E u \in Units : ChangeUnit(u)
    <3>1. locked' = locked /\ J' = J /\ ptr' = ptr
      BY <2>3 DEF SystemctlFails, Reboot, ChangeUnit, NotRestored
    <3>2. \E x \in Units \cup {"reboot"} : touched' \in {touched, touched \cup {x}}
      <4>1. CASE SystemctlFails
        BY <4>1 DEF SystemctlFails
      <4>2. CASE Reboot \/ \E u \in Units : ChangeUnit(u)
        BY <4>2 DEF Reboot, ChangeUnit
      <4> QED
        BY <2>3, <4>1, <4>2
    <3>3. \A p \in Pointers : p \in touched' <=> p \in touched
      BY <3>2, Constants DEF Pointers
    <3> QED
      BY <3>1, <3>3 DEF Frame, Kept
  <2> QED
    BY <1>2, <2>1, <2>2, <2>3 DEF Interruption
<1> QED
  BY <1>1, <1>2

(* Whatever happens to the pointers, the lock and the commit is one of     *)
(* five things.                                                            *)
LEMMA StepKinds ==
  ASSUME Fits, [Next]_vars
  PROVE  Frame \/ Begins \/ Settles \/ Commits \/ Moves
<1>1. CASE UNCHANGED vars
  BY <1>1, FramedIf DEF vars, world, users, Fits
<1>2. CASE Interruption \/ InstallerStep \/ StartInstaller
  BY <1>2, OthersFramed
<1>3. CASE HelperStep
  <2>1. CASE \/ ReserveStep("source-temp") \/ ReserveStep("venv") \/ PromoteSourceStep
             \/ RecordStep("source") \/ RecordStep("venv") \/ MigrationStep
    BY <2>1, BuildingFramed
  <2>2. CASE StopStep \/ CaptureStep \/ PromoteStep \/ RestoreStart \/ RestoreStep \/ VerifyStep
    BY <2>2, PromotingFramed
  <2>3. CASE \/ RestoreRepairStep \/ CompleteStep \/ RecoverStart \/ RollbackStart \/ RollStart
             \/ HaltStep \/ BackStep \/ (Rolling /\ RemovalStep) \/ FilesStep \/ MarkerStep
             \/ ResumeStep \/ FinishStep
    BY <2>3, EndingFramed
  <2>4. CASE \/ BeginLock \/ (\E inv \in Inventories : BeginCapture(inv))
             \/ Unlock \/ CommitStep \/ CommitRepairStep
    BY <2>4, LockSteps
  <2> QED
    BY <1>3, <2>1, <2>2, <2>3, <2>4 DEF HelperStep
<1> QED
  BY <1>1, <1>2, <1>3 DEF Next

(* Nothing takes a commit back: no step of any command of any installer,   *)
(* and no kill, reopens a committed transaction or moves one of its        *)
(* pointers; only a user does.                                             *)
THEOREM CommitsStay == Spec => CommittedStays
<1>1. Fits /\ [Next]_vars =>
        [J.status = "committed" /\ J'.id = J.id =>
           J'.status = "committed" /\ \A p \in Pointers \ touched' : ptr'[p] = ptr[p]]_vars
  <2> SUFFICES ASSUME Fits, [Next]_vars, J.status = "committed", J'.id = J.id
      PROVE  J'.status = "committed" /\ \A p \in Pointers \ touched' : ptr'[p] = ptr[p]
    OBVIOUS
  <2>1. CASE Frame
    BY <2>1 DEF Frame
  <2>2. CASE Begins
    <3>1. J.id \in Nat /\ J'.id = J.id + 1
      BY <2>2, OwnRelease DEF Begins, Fits
    <3> QED
      BY <3>1
  <2>3. CASE Settles \/ Commits
    BY <2>3 DEF Settles, Commits
  <2>4. CASE Moves
    BY <2>4 DEF Moves
  <2> QED
    BY <2>1, <2>2, <2>3, <2>4, StepKinds
<1> QED
  BY <1>1, AlwaysFits, PTL DEF Spec, CommittedStays

(* An update changes the release the Runtime stands on in one step, its    *)
(* commit, to a newer one and for all its pointers at once: every step of  *)
(* every command and every interruption is that step, or one that leaves   *)
(* the live release alone where nobody else set it.                        *)
THEOREM ReleasesAreAtomic == Spec => ImplementsAtomicRelease
<1> DEFINE Loose == touched \cap Pointers
<1>1. Init => Abstract!Init
  <2> SUFFICES ASSUME Init PROVE Abstract!Init
    OBVIOUS
  <2>1. Live = ptr /\ touched \cap Pointers = {}
    BY DEF Init, Live
  <2>2. ptr \in [Pointers -> Releases]
    BY InitTyped DEF Typed, WorldTyped
  <2> QED
    BY <2>1, <2>2 DEF Abstract!Init
<1>2. Fits /\ [Next]_vars => [Abstract!Next]_(Abstract!vars)
  <2> SUFFICES ASSUME Fits, [Next]_vars PROVE [Abstract!Next]_(Abstract!vars)
    OBVIOUS
  <2>1. ptr \in [Pointers -> Releases] /\ J.prior \in [Pointers -> Releases]
    BY DEF Fits, Typed, WorldTyped, JournalTyped, Journal
  <2>2. Live' \in [Pointers -> Releases]
    <3>1. Fits'
      BY StepFits
    <3>2. ptr' \in [Pointers -> Releases] /\ J'.prior \in [Pointers -> Releases]
      BY <3>1 DEF Fits, Typed, WorldTyped, JournalTyped, Journal
    <3> QED
      BY <3>2 DEF Live
  <2>3. CASE Frame
    <3>1. Live' = Live /\ Loose' = Loose
      BY <2>3 DEF Frame, Kept, Live
    <3> QED
      BY <3>1 DEF Abstract!vars
  <2>4. CASE Begins
    <3>1. Live' = Live /\ Loose' = {}
      BY <2>4 DEF Begins, Live
    <3> QED
      BY <3>1 DEF Abstract!Next, Abstract!Begin
  <2>5. CASE Settles
    <3>1. Live' = ptr /\ Loose' = Loose
      BY <2>5 DEF Settles, Live
    <3>2. \A q \in Pointers \ touched : Live[q] = ptr[q]
      BY <2>5 DEF Settles, Live
    <3> QED
      BY <2>1, <3>1, <3>2 DEF Abstract!Next, Abstract!Settle
  <2>6. CASE Commits
    <3>1. Live = J.prior /\ Live' = ptr /\ Loose' = Loose
      BY <2>6 DEF Commits, Live
    <3>2. J.id \in Releases \cap Nat /\ Only(J.mode) \in {{"source"}, Pointers}
      <4>1. J.id \in 0..MaxTx
        BY DEF Fits, Typed, JournalTyped, Journal
      <4> QED
        BY <4>1, OwnRelease DEF Releases, Only, Fits
    <3>3. \A p \in Pointers \ Loose :
            /\ p \in Only(J.mode) => Live'[p] = J.id /\ Live[p] # J.id
            /\ p \notin Only(J.mode) => Live'[p] = Live[p]
      <4> SUFFICES ASSUME NEW p \in Pointers, p \notin touched
          PROVE  /\ p \in Only(J.mode) => Live'[p] = J.id /\ Live[p] # J.id
                 /\ p \notin Only(J.mode) => Live'[p] = Live[p]
        OBVIOUS
      <4>1. CASE p \in Only(J.mode)
        <5>1. ptr[p] = J.id
          BY <2>6, <4>1 DEF Commits, Candidate
        <5>2. Below(J.prior[p], J.id)
          BY <2>6 DEF Commits, PtrCore
        <5>3. J.prior[p] # J.id
          BY <5>2, <3>2 DEF Below
        <5> QED
          BY <3>1, <4>1, <5>1, <5>3
      <4>2. CASE p \notin Only(J.mode)
        <5>1. ~J.armed[p]
          BY <2>6, <4>2 DEF Commits, PtrCore
        <5>2. ptr[p] = J.prior[p]
          BY <2>6, <5>1 DEF Commits, PtrCore
        <5> QED
          BY <3>1, <4>2, <5>2
      <4> QED
        BY <4>1, <4>2
    <3> QED
      BY <2>2, <3>1, <3>2, <3>3 DEF Abstract!Next, Abstract!Switch
  <2>7. CASE Moves
    <3>1. PICK p \in Pointers :
            /\ locked' = locked /\ J' = J /\ touched' = touched \cup {p}
            /\ \A q \in Pointers \ {p} : ptr'[q] = ptr[q]
      BY <2>7 DEF Moves
    <3>2. Loose' = Loose \cup {p}
      BY <3>1
    <3>3. \A q \in Pointers \ Loose' : Live'[q] = Live[q]
      BY <3>1 DEF Live
    <3> QED
      BY <2>2, <3>2, <3>3 DEF Abstract!Next, Abstract!Loosen
  <2> QED
    BY <2>3, <2>4, <2>5, <2>6, <2>7, StepKinds
<1> QED
  BY <1>1, <1>2, AlwaysFits, PTL DEF Spec, ImplementsAtomicRelease, Abstract!Spec

-----------------------------------------------------------------------------
(* The units.  What is managed and nobody else changed is Own; Calm says   *)
(* that the machine did not restart, Mixed that the pointers name neither  *)
(* the old pair of releases nor the new one.                               *)
Calm == "reboot" \notin touched
Unset == Pointers \cap touched = {}
Armed == \E p \in Pointers : J.armed[p]
Mixed == ptr \notin {J.prior, Target}
Own == J.inventory \ touched
Quiet == \A u \in Own : unit[u].act = "active" => unit[u].stuck
OnPair == \A u \in Own : unit[u].act = "active" => unit[u].runs = Pair \/ unit[u].stuck
AllOff == \A u \in Own : ~unit[u].enabled /\ unit[u].act # "active"
AllAsBefore == \A u \in Own : AsBefore(u)
RetainedAsBefore == \A u \in Retained \ touched : AsBefore(u)
Tame == \A u \in Own : EnableAllowed(u) /\ (u \notin WasActive => unit[u].act = J.units[u].act)

Waiting == {"stopped", "promoting"}
Onward == {"promoted", "services-restored", "verified", "committed"}
Halted == {"back", "artifacts", "removing", "files", "resume"}
Resuming == {"units", "enable", "finish"}
Restoring == h.cmd \in {"restore", "recover", "rollback"}

(* What the journal says of the units.                                     *)
RowsFit ==
  /\ J.disabled \subseteq WasEnabled
  /\ J.status = "preparing" \/ J.id = 0 => J.inventory = {} /\ ~J.stopping
  /\ Armed \/ J.status \in Waiting \cup Onward => J.stopping \/ J.inventory = {}
  /\ J.status = "promoted" => Candidate

(* What a command works through.  A stop that prepares a repair has on     *)
(* record, or still has to do, every unit that was enabled; a promotion    *)
(* leaves the candidate behind it.                                         *)
WorkFits ==
  /\ h.cmd = "stop" /\ Mid => J.stopping
  /\ h.cmd = "stop" /\ h.pc \in {"isolate", "disable"} => h.todo \subseteq WasEnabled
  /\ h.cmd = "stop" /\ h.pc = "disable" => First(h.todo) \in J.disabled
  /\ h.cmd = "stop" /\ Mid /\ J.mode = "repair" =>
       \A u \in WasEnabled \ J.disabled : h.pc \in {"isolate", "disable"} /\ u \in h.todo
  /\ h.cmd = "stop" /\ h.pc = "stop" => h.todo \subseteq WasActive
  /\ Restoring /\ h.pc = "enable" => h.todo \subseteq J.disabled
  /\ Rolling /\ h.pc \in {"units", "enable"} => J.stopping /\ ~h.err
  /\ h.cmd = "promote" /\ Mid =>
       \A p \in Only(J.mode) \ touched :
         \/ p \in h.todo /\ (h.pc = "swapped" => p # NextPointer)
         \/ ptr[p] = J.id

(* When a committed repair is being configured, and that its units are as  *)
(* before once that is on record.                                          *)
Configured ==
  \/ J.complete \/ inst.at \in {"complete", "complete again"}
  \/ h.cmd = "restore-repair" /\ h.pc = "returned"
RepairFits ==
  /\ inst.at \in {"configure", "restore-repair"} => PendingRepair
  /\ h.cmd = "commit-repair" /\ Mid => ~J.complete
  /\ h.cmd = "commit-repair" /\ h.pc = "returned" => PendingRepair
  /\ h.cmd = "recover" /\ h.pc = "returned" /\ marker # 0 => PendingRepair
  /\ Calm /\ J.mode = "repair" /\ J.status = "committed" /\ Configured => RetainedAsBefore

(* Until a commit, a unit is enabled as before or not, and is in another   *)
(* state than before only if it ran.                                       *)
StatesFit ==
  /\ J.status \notin {"preparing", "committed"} => Tame
  /\ \/ J.status \in {"services-restored", "verified", "rolled-back"}
     \/ J.status = "committed" /\ J.mode # "repair"
     \/ Rolling /\ h.pc = "finish" /\ ~h.err
     => AllAsBefore
  /\ J.stopping /\ (J.status \in Waiting \/ (Rolling /\ h.pc \in Halted)) => Quiet
  /\ J.stopping /\ Rolling /\ h.pc = "halt" =>
       \A u \in Own \ h.todo : unit[u].act = "active" => unit[u].stuck
  /\ Unset /\ J.stopping
     /\ (J.status \in Waiting \cup Onward \cup {"rolled-back"} \/ (Rolling /\ h.pc \in Resuming))
       => OnPair
  /\ Unset /\ Mixed => Quiet

(* The units of a repair are disabled, which outlasts a restart.           *)
Isolated ==
  J.mode = "repair" /\ J.status # "committed" /\ (J.status \in Waiting \cup {"promoted"} \/ Armed)
    => AllOff

UnitsFit == RowsFit /\ WorkFits /\ RepairFits /\ (Calm => StatesFit) /\ Isolated

(* A step that leaves the units, the pointers and what the journal says of *)
(* them alone, and one that at most takes some of them out of our hands.   *)
Rows == J'.inventory = J.inventory /\ J'.units = J.units /\ J.disabled \subseteq J'.disabled
Held == J'.stopping = J.stopping /\ J'.disabled = J.disabled /\ J'.complete = J.complete
Unmoved == Kept /\ Arms /\ Rows /\ UNCHANGED <<unit, ptr, touched>>
Fewer ==
  /\ UNCHANGED J /\ touched \subseteq touched'
  /\ \A u \in Units \ touched' : unit'[u] = unit[u]
  /\ \A p \in Pointers \ touched' : ptr'[p] = ptr[p]
  /\ ptr' = ptr \/ Pointers \cap touched' # {}

LEMMA TargetKept ==
  ASSUME Kept
  PROVE  Target' = Target
  BY DEF Kept, Target, Only

LEMMA UnitParts ==
  ASSUME Unmoved
  PROVE  /\ Own' = Own /\ WasActive' = WasActive /\ WasEnabled' = WasEnabled
         /\ (Calm' <=> Calm) /\ (Unset' <=> Unset) /\ (Armed' <=> Armed)
         /\ (Mixed' <=> Mixed) /\ (Candidate' <=> Candidate)
         /\ (Quiet' <=> Quiet) /\ (OnPair' <=> OnPair) /\ (AllOff' <=> AllOff)
         /\ (AllAsBefore' <=> AllAsBefore) /\ (RetainedAsBefore' <=> RetainedAsBefore)
         /\ (Tame => Tame') /\ Retained' = Retained
<1>1. Own' = Own /\ WasActive' = WasActive /\ WasEnabled' = WasEnabled /\ Retained' = Retained
  BY DEF Unmoved, Rows, Own, WasActive, WasEnabled, Retained
<1>2. /\ (Calm' <=> Calm) /\ (Unset' <=> Unset) /\ (Armed' <=> Armed)
      /\ (Candidate' <=> Candidate)
  BY DEF Unmoved, Arms, Kept, Calm, Unset, Armed, Candidate, Only
<1>3. Mixed' <=> Mixed
  BY TargetKept DEF Unmoved, Kept, Mixed
<1>4. (Quiet' <=> Quiet) /\ (OnPair' <=> OnPair) /\ (AllOff' <=> AllOff)
  BY <1>1 DEF Unmoved, Quiet, OnPair, AllOff, Pair
<1>5. (AllAsBefore' <=> AllAsBefore) /\ (RetainedAsBefore' <=> RetainedAsBefore)
  BY <1>1 DEF Unmoved, Rows, AllAsBefore, RetainedAsBefore, AsBefore
<1>6. Tame => Tame'
  BY <1>1 DEF Unmoved, Rows, Tame, EnableAllowed
<1> QED
  BY <1>1, <1>2, <1>3, <1>4, <1>5, <1>6

LEMMA FewerParts ==
  ASSUME Typed, Fewer
  PROVE  /\ Own' \subseteq Own /\ WasActive' = WasActive /\ WasEnabled' = WasEnabled
         /\ \A u \in Own' : unit'[u] = unit[u]
         /\ (Calm' => Calm) /\ (Unset' => Unset) /\ (Armed' <=> Armed)
         /\ (Unset' /\ Mixed' => Mixed) /\ (Candidate => Candidate')
         /\ (Quiet => Quiet') /\ (Unset' /\ OnPair => OnPair') /\ (AllOff => AllOff')
         /\ (AllAsBefore => AllAsBefore') /\ (RetainedAsBefore => RetainedAsBefore')
         /\ (Tame => Tame')
<1>1. /\ Own' \subseteq Own /\ WasActive' = WasActive /\ WasEnabled' = WasEnabled
      /\ Retained' = Retained
  BY DEF Fewer, Own, WasActive, WasEnabled, Retained
<1>2. /\ \A u \in Own' : unit'[u] = unit[u]
      /\ \A u \in Retained' \ touched' : unit'[u] = unit[u] /\ u \in Retained \ touched
  BY UnitSets DEF Fewer, Own, Retained
<1>3. (Calm' => Calm) /\ (Unset' => Unset) /\ (Armed' <=> Armed) /\ (Unset' => ptr' = ptr)
  BY DEF Fewer, Calm, Unset, Armed
<1>4. Candidate => Candidate'
  BY DEF Fewer, Candidate, Only, Pointers
<1>5. Unset' /\ Mixed' => Mixed
  BY <1>3, TargetKept, NothingSaved DEF Fewer, Still, Kept, Mixed
<1>6. /\ (Quiet => Quiet') /\ (Unset' /\ OnPair => OnPair') /\ (AllOff => AllOff')
  BY <1>1, <1>2, <1>3 DEF Quiet, OnPair, AllOff, Pair
<1>7. (AllAsBefore => AllAsBefore') /\ (RetainedAsBefore => RetainedAsBefore')
  BY <1>1, <1>2 DEF Fewer, AllAsBefore, RetainedAsBefore, AsBefore
<1>8. Tame => Tame'
  BY <1>1, <1>2 DEF Fewer, Tame, EnableAllowed
<1> QED
  BY <1>1, <1>2, <1>3, <1>4, <1>5, <1>6, <1>7, <1>8

(* Nothing is mixed once the candidate is in place or nothing is armed.    *)
LEMMA Unmixed ==
  ASSUME Typed, PtrCore, Unset, Candidate \/ ~Armed
  PROVE  ~Mixed
<1>1. ptr \in [Pointers -> Releases] /\ J.prior \in [Pointers -> Releases]
  BY DEF Typed, WorldTyped, JournalTyped, Journal
<1>2. CASE ~Armed
  <2>1. \A p \in Pointers : ptr[p] = J.prior[p]
    BY <1>2 DEF Armed, PtrCore, Unset
  <2> QED
    BY <1>1, <2>1 DEF Mixed
<1>3. CASE Candidate
  <2>1. \A p \in Pointers : ptr[p] = Target[p]
    BY <1>3 DEF Candidate, PtrCore, Unset, Target
  <2>2. ptr = Target
    BY <1>1, <2>1 DEF Target
  <2> QED
    BY <2>2 DEF Mixed
<1> QED
  BY <1>2, <1>3

(* What a call of systemctl does to a unit.                                *)
LEMMA UnitChanges ==
  ASSUME Typed, NEW u \in Units
  PROVE  /\ \A w \in Units \ {u} : /\ Stopped(u)[w] = unit[w] /\ Broken(u)[w] = unit[w]
                                   /\ Started(u)[w] = unit[w]
         /\ Stopped(u)[u].act = "inactive" /\ Stopped(u)[u].enabled = unit[u].enabled
         /\ Broken(u)[u].act = "failed" /\ Broken(u)[u].enabled = unit[u].enabled
         /\ Started(u)[u].act \in {"active", "failed"}
         /\ Started(u)[u].act = "active" => Started(u)[u].runs = Pair
         /\ Started(u)[u].enabled = unit[u].enabled
         /\ ~Stopped(u)[u].stuck /\ ~Broken(u)[u].stuck /\ ~Started(u)[u].stuck
<1>1. unit \in UnitRows
  BY DEF Typed, WorldTyped, UnitRows
<1>2. /\ \A w \in Units \ {u} : Stopped(u)[w] = unit[w]
      /\ Stopped(u)[u].act = "inactive" /\ Stopped(u)[u].enabled = unit[u].enabled
      /\ ~Stopped(u)[u].stuck
  BY <1>1 DEF UnitRows, Stopped, Now
<1>3. /\ \A w \in Units \ {u} : Broken(u)[w] = unit[w]
      /\ Broken(u)[u].act = "failed" /\ Broken(u)[u].enabled = unit[u].enabled
      /\ ~Broken(u)[u].stuck
  BY <1>1 DEF UnitRows, Broken, Now
<1>4. /\ \A w \in Units \ {u} : Started(u)[w] = unit[w]
      /\ Started(u)[u].act \in {"active", "failed"}
      /\ Started(u)[u].act = "active" => Started(u)[u].runs = Pair
      /\ Started(u)[u].enabled = unit[u].enabled /\ ~Started(u)[u].stuck
  <2>1. CASE Gone \in {ptr["source"], ptr["venv"]}
    BY <1>3, <2>1 DEF Started
  <2>2. CASE Gone \notin {ptr["source"], ptr["venv"]}
    <3>1. Started(u) = Now(u, "active", Pair)
      BY <2>2 DEF Started
    <3> QED
      BY <1>1, <3>1 DEF UnitRows, Now
  <2> QED
    BY <2>1, <2>2
<1> QED
  BY <1>2, <1>3, <1>4

(* A step that changes one unit.                                           *)
Rests(u) == unit[u].act = "active" => unit[u].stuck

LEMMA OneUnitParts ==
  ASSUME Typed, NEW u \in Units, Kept, Arms, Rows, UNCHANGED <<ptr, touched>>,
         \A w \in Units \ {u} : unit'[w] = unit[w]
  PROVE  /\ Own' = Own /\ WasActive' = WasActive /\ WasEnabled' = WasEnabled
         /\ (Calm' <=> Calm) /\ (Unset' <=> Unset) /\ (Armed' <=> Armed)
         /\ (Mixed' <=> Mixed) /\ (Candidate' <=> Candidate) /\ Retained' = Retained
         /\ Quiet /\ (u \in Own => Rests(u)') => Quiet'
         /\ OnPair /\ (u \in Own /\ unit'[u].act = "active" => unit'[u].runs = Pair \/ unit'[u].stuck)
              => OnPair'
         /\ AllOff /\ (u \in Own => ~unit'[u].enabled /\ unit'[u].act # "active") => AllOff'
         /\ /\ Tame
            /\ u \in Own => /\ u \notin WasActive => unit'[u].act = J.units[u].act
                           /\ \/ unit'[u].enabled = J.units[u].enabled
                              \/ u \in J'.disabled /\ ~unit'[u].enabled
            => Tame'
<1>1. /\ Own' = Own /\ WasActive' = WasActive /\ WasEnabled' = WasEnabled /\ Retained' = Retained
      /\ Own \subseteq Units
  BY UnitSets DEF Rows, Own, WasActive, WasEnabled, Retained
<1>2. /\ (Calm' <=> Calm) /\ (Unset' <=> Unset) /\ (Armed' <=> Armed)
      /\ (Candidate' <=> Candidate)
  BY DEF Arms, Kept, Calm, Unset, Armed, Candidate, Only
<1>3. Mixed' <=> Mixed
  BY TargetKept DEF Kept, Mixed
<1>4. /\ Quiet /\ (u \in Own => Rests(u)') => Quiet'
      /\ OnPair /\ (u \in Own /\ unit'[u].act = "active" => unit'[u].runs = Pair \/ unit'[u].stuck)
              => OnPair'
      /\ AllOff /\ (u \in Own => ~unit'[u].enabled /\ unit'[u].act # "active") => AllOff'
  BY <1>1 DEF Quiet, Rests, OnPair, AllOff, Pair
<1>5. /\ Tame
      /\ u \in Own => /\ u \notin WasActive => unit'[u].act = J.units[u].act
                     /\ \/ unit'[u].enabled = J.units[u].enabled
                        \/ u \in J'.disabled /\ ~unit'[u].enabled
      => Tame'
  BY <1>1 DEF Rows, Tame, EnableAllowed
<1> QED
  BY <1>1, <1>2, <1>3, <1>4, <1>5

LEMMA EnabledChanges ==
  ASSUME Typed, NEW u \in Units, NEW b \in BOOLEAN, unit' = Enabled(u, b)
  PROVE  /\ \A w \in Units \ {u} : unit'[w] = unit[w]
         /\ unit'[u].act = unit[u].act /\ unit'[u].runs = unit[u].runs /\ unit'[u].enabled = b
         /\ unit'[u].stuck = unit[u].stuck
<1>1. unit \in UnitRows
  BY DEF Typed, WorldTyped, UnitRows
<1> QED
  BY <1>1 DEF UnitRows, Enabled

(* A step that leaves the helper and the journal alone.                    *)
LEMMA UntouchedUnits ==
  ASSUME Fits, UnitsFit, Fits', inst' = inst, h' = h, marker' = marker, Fewer
  PROVE  UnitsFit'
<1>0. Typed /\ J' = J /\ RowsFit /\ WorkFits /\ RepairFits /\ (Calm => StatesFit) /\ Isolated
  BY DEF Fits, UnitsFit, Fewer
<1>1. RowsFit'
  BY <1>0, FewerParts DEF RowsFit
<1>2. WorkFits'
  <2>1. \A p \in Only(J.mode) \ touched' : ptr'[p] = ptr[p] /\ p \notin touched
    BY DEF Fewer, Only, Pointers
  <2> QED
    BY <1>0, <2>1, FewerParts DEF WorkFits, Mid, Rolling, Restoring, NextPointer, First, Only
<1>3. RepairFits'
  BY <1>0, FewerParts DEF RepairFits, Configured, PendingRepair, Mid
<1>4. Calm' => StatesFit'
  BY <1>0, FewerParts DEF StatesFit, Rolling
<1>5. Isolated'
  BY <1>0, FewerParts DEF Isolated
<1> QED
  BY <1>1, <1>2, <1>3, <1>4, <1>5 DEF UnitsFit

(* A step between two commands.                                            *)
LEMMA BetweenUnits ==
  ASSUME Fits, UnitsFit, UNCHANGED J, Unmoved, h'.pc \in {"none", "start"}, RepairFits'
  PROVE  UnitsFit'
<1>0. Typed /\ RowsFit /\ (Calm => StatesFit) /\ Isolated
  BY DEF Fits, UnitsFit
<1>1. RowsFit'
  BY <1>0, UnitParts DEF RowsFit
<1>2. WorkFits'
  BY DEF WorkFits, Mid
<1>3. Calm' => StatesFit'
  BY <1>0, UnitParts DEF StatesFit, Halted, Resuming
<1>4. Isolated'
  BY <1>0, UnitParts DEF Isolated
<1> QED
  BY <1>1, <1>2, <1>3, <1>4 DEF UnitsFit

(* A step of a command that has to do with no unit.                        *)
LEMMA PlainUnits ==
  ASSUME Fits, UnitsFit, inst' = inst, h'.cmd = h.cmd, Unmoved, Held,
         h.cmd \in Staging \cup {"begin", "migration", "capture", "verify", "commit", "complete"},
         \/ J'.status = J.status
         \/ J.status = "prepared" /\ J'.status = "candidate-staged"
         \/ J.status = "services-restored" /\ J'.status = "verified"
         \/ J.status = "verified" /\ J'.status = "committed" /\ J.mode # "repair"
  PROVE  UnitsFit'
<1>0. Typed /\ RowsFit /\ RepairFits /\ (Calm => StatesFit) /\ Isolated
  BY DEF Fits, UnitsFit
<1>1. RowsFit'
  BY <1>0, UnitParts DEF RowsFit, Held, Unmoved, Rows, Kept, Waiting, Onward
<1>2. WorkFits'
  BY DEF WorkFits, Rolling, Restoring, Staging
<1>3. RepairFits'
  BY <1>0, UnitParts DEF RepairFits, Configured, PendingRepair, Held, Unmoved, Kept, Staging
<1>4. Calm' => StatesFit'
  BY <1>0, UnitParts DEF StatesFit, Rolling, Staging, Waiting, Onward, Held, Unmoved, Kept
<1>5. Isolated'
  BY <1>0, UnitParts DEF Isolated, Waiting, Unmoved, Kept
<1> QED
  BY <1>1, <1>2, <1>3, <1>4, <1>5 DEF UnitsFit

(* A helper that ends.                                                     *)
LEMMA EndUnits ==
  ASSUME Fits, UnitsFit, inst' = inst, h.cmd # "none", h'.cmd = h.cmd,
         h'.pc \in {"returned", "failed"}, Unmoved, Held,
         \/ J'.status = J.status
         \/ J.status \in {"rolling-back", "services-restored"} /\ J'.status = "rollback-failed",
         h'.pc = "returned" /\ h.cmd = "commit-repair" => PendingRepair',
         h'.pc = "returned" /\ h.cmd = "recover" /\ marker' # 0 => PendingRepair',
         h'.pc = "returned" /\ h.cmd = "restore-repair" /\ Calm => RetainedAsBefore
  PROVE  UnitsFit'
<1>0. Typed /\ RowsFit /\ RepairFits /\ (Calm => StatesFit) /\ Isolated
  BY DEF Fits, UnitsFit
<1>1. RowsFit'
  BY <1>0, UnitParts DEF RowsFit, Held, Unmoved, Rows, Kept, Waiting, Onward
<1>2. WorkFits'
  BY DEF WorkFits, Mid
<1>3. RepairFits'
  BY <1>0, UnitParts DEF RepairFits, Configured, PendingRepair, Held, Unmoved, Kept, Mid
<1>4. Calm' => StatesFit'
  BY <1>0, UnitParts DEF StatesFit, Waiting, Onward, Halted, Resuming, Held, Unmoved, Kept
<1>5. Isolated'
  BY <1>0, UnitParts DEF Isolated, Waiting, Unmoved, Kept
<1> QED
  BY <1>1, <1>2, <1>3, <1>4, <1>5 DEF UnitsFit

(* The commands that build a candidate, and the first of a transaction.    *)
LEMMA BuildingUnits ==
  /\ Fits /\ UnitsFit /\ (\E k \in {"source-temp", "venv"} : ReserveStep(k)) => UnitsFit'
  /\ Fits /\ UnitsFit /\ PromoteSourceStep => UnitsFit'
  /\ Fits /\ UnitsFit /\ (\E k \in Pointers : RecordStep(k)) => UnitsFit'
  /\ Fits /\ UnitsFit /\ MigrationStep => UnitsFit'
  /\ Fits /\ UnitsFit /\ CaptureStep => UnitsFit'
  /\ Fits /\ UnitsFit /\ VerifyStep => UnitsFit'
<1> USE DEF Fits
<1>1. ASSUME Fits, UnitsFit, NEW k \in {"source-temp", "venv"}, ReserveStep(k) PROVE UnitsFit'
  <2>1. /\ inst' = inst /\ h.cmd \in Staging /\ h.cmd # "none" /\ UNCHANGED <<unit, ptr, users>>
        /\ J \in Journal
    BY <1>1 DEF ReserveStep, At, Staging, Typed, JournalTyped
  <2>2. h'.cmd = h.cmd
    BY <1>1, <2>1, Acting DEF ReserveStep, Goto, Fail, Return
  <2>3. Unmoved /\ Held /\ J'.status = J.status
    BY <1>1, <2>1 DEF ReserveStep, Save, Unmoved, Held, Rows, Kept, Arms, Journal, users
  <2> QED
    BY <1>1, <2>1, <2>2, <2>3, PlainUnits
<1>2. ASSUME Fits, UnitsFit, PromoteSourceStep PROVE UnitsFit'
  <2>1. /\ inst' = inst /\ h.cmd \in Staging /\ h.cmd # "none" /\ UNCHANGED <<unit, ptr, users>>
        /\ J \in Journal
    BY <1>2 DEF PromoteSourceStep, At, Staging, Typed, JournalTyped
  <2>2. h'.cmd = h.cmd
    BY <1>2, <2>1, Acting DEF PromoteSourceStep, Goto, Fail, Return
  <2>3. Unmoved /\ Held /\ J'.status = J.status
    BY <1>2, <2>1 DEF PromoteSourceStep, Save, Unmoved, Held, Rows, Kept, Arms, Journal, users
  <2> QED
    BY <1>2, <2>1, <2>2, <2>3, PlainUnits
<1>3. ASSUME Fits, UnitsFit, NEW k \in Pointers, RecordStep(k) PROVE UnitsFit'
  <2>1. /\ inst' = inst /\ h.cmd \in Staging /\ h.cmd # "none" /\ UNCHANGED <<unit, ptr, users>>
        /\ J \in Journal
    BY <1>3 DEF RecordStep, At, Staging, Typed, JournalTyped
  <2>2. h'.cmd = h.cmd
    BY <1>3, <2>1, Acting DEF RecordStep, Goto, Fail, Return
  <2>3. h.pc = "unmarked" => J.status \in {"prepared", "candidate-staged"}
    BY <1>3, <2>1 DEF StatusFits, Mid
  <2>4. Unmoved /\ Held /\ (J'.status = J.status \/ (h.pc = "unmarked" /\ J'.status = "candidate-staged"))
    BY <1>3, <2>1 DEF RecordStep, At, Save, Unmoved, Held, Rows, Kept, Arms, Journal, users
  <2> QED
    BY <1>3, <2>1, <2>2, <2>3, <2>4, PlainUnits
<1>4. ASSUME Fits, UnitsFit, MigrationStep PROVE UnitsFit'
  <2>1. /\ inst' = inst /\ h.cmd = "migration" /\ UNCHANGED <<unit, ptr, users>> /\ J \in Journal
    BY <1>4 DEF MigrationStep, At, Typed, JournalTyped
  <2>2. h'.cmd = h.cmd
    BY <1>4, <2>1, Acting DEF MigrationStep, Goto, Fail, Return
  <2>3. Unmoved /\ Held /\ J'.status = J.status
    BY <1>4, <2>1 DEF MigrationStep, Save, Unmoved, Held, Rows, Kept, Arms, Journal, users
  <2> QED
    BY <1>4, <2>1, <2>2, <2>3, PlainUnits
<1>5. ASSUME Fits, UnitsFit, CaptureStep PROVE UnitsFit'
  <2>1. /\ inst' = inst /\ h.cmd = "capture" /\ UNCHANGED <<unit, ptr, users>> /\ J \in Journal
    BY <1>5 DEF CaptureStep, At, Typed, JournalTyped, world
  <2>2. h'.cmd = h.cmd
    BY <1>5, <2>1, Acting DEF CaptureStep, Goto, Fail, Return
  <2>3. Unmoved /\ Held /\ J'.status = J.status
    BY <1>5, <2>1 DEF CaptureStep, Save, Unmoved, Held, Rows, Kept, Arms, Journal, users
  <2> QED
    BY <1>5, <2>1, <2>2, <2>3, PlainUnits
<1>6. ASSUME Fits, UnitsFit, VerifyStep PROVE UnitsFit'
  <2>1. /\ inst' = inst /\ h.cmd = "verify" /\ UNCHANGED <<unit, ptr, users>> /\ J \in Journal
    BY <1>6 DEF VerifyStep, At, Typed, JournalTyped, world
  <2>2. h'.cmd = h.cmd
    BY <1>6, <2>1, Acting DEF VerifyStep, Goto, Fail, Return
  <2>3. Unmoved /\ Held /\ (J'.status = J.status
                            \/ (J.status = "services-restored" /\ J'.status = "verified"))
    BY <1>6, <2>1 DEF VerifyStep, Save, Unmoved, Held, Rows, Kept, Arms, Journal, users
  <2> QED
    BY <1>6, <2>1, <2>2, <2>3, PlainUnits
<1> QED
  BY <1>1, <1>2, <1>3, <1>4, <1>5, <1>6

(* A new transaction manages no unit until it has looked at them.          *)
LEMMA BeginLockUnits == Fits /\ UnitsFit /\ BeginLock => UnitsFit'
<1> SUFFICES ASSUME Fits, UnitsFit, BeginLock PROVE UnitsFit'
  OBVIOUS
<1>1. /\ h.cmd = "begin" /\ h.cmd # "none" /\ inst' = inst /\ inst.at = "begin" /\ Typed
      /\ UNCHANGED <<unit, ptr>>
  BY Acting DEF BeginLock, At, Fits, CommandOf
<1>2. CASE marker = 0 /\ ~locked
  <2>1. /\ J' = Fresh(J.id + 1, inst.mode) /\ touched' = {} /\ UNCHANGED <<unit, ptr>>
        /\ h'.cmd = "begin" /\ h'.pc = "capture"
    BY <1>1, <1>2, Acting DEF BeginLock, Save, Goto
  <2>2. /\ J'.inventory = {} /\ J'.disabled = {} /\ ~J'.stopping /\ J'.status = "preparing"
        /\ J'.prior = ptr' /\ J'.armed = [p \in Pointers |-> FALSE]
    BY <2>1 DEF Fresh
  <2>3. Own' = {} /\ ~Armed' /\ ~Mixed'
    BY <2>2 DEF Own, Armed, Mixed
  <2>4. RowsFit' /\ WorkFits' /\ RepairFits'
    BY <1>1, <2>1, <2>2, <2>3
    DEF RowsFit, WorkFits, RepairFits, Rolling, Restoring, Configured, PendingRepair, Waiting, Onward
  <2>5. StatesFit' /\ Isolated'
    BY <2>1, <2>2, <2>3 DEF StatesFit, Isolated, Rolling, Waiting, Onward
  <2> QED
    BY <2>4, <2>5 DEF UnitsFit
<1>3. CASE ~(marker = 0 /\ ~locked)
  <2>1. Fail /\ UNCHANGED J /\ touched' = touched
    BY <1>3 DEF BeginLock
  <2>2. Unmoved /\ Held /\ J'.status = J.status
    BY <1>1, <2>1 DEF Unmoved, Held, Rows, Kept, Arms
  <2>3. h'.cmd = "begin" /\ h'.pc = "failed"
    BY <1>1, <2>1, GotoTyped DEF Fail, Places
  <2> QED
    BY <1>1, <2>2, <2>3, EndUnits
<1> QED
  BY <1>2, <1>3

LEMMA BeginCaptureUnits ==
  ASSUME NEW inv \in Inventories PROVE Fits /\ UnitsFit /\ BeginCapture(inv) => UnitsFit'
<1> SUFFICES ASSUME Fits, UnitsFit, BeginCapture(inv) PROVE UnitsFit'
  OBVIOUS
<1>1. /\ h.cmd = "begin" /\ h.cmd # "none" /\ h.pc = "capture" /\ inst' = inst
      /\ inst.at = "begin" /\ Typed /\ UNCHANGED <<unit, ptr, touched>>
      /\ J.status = "preparing" /\ J \in Journal /\ J.disabled = {} /\ ~Armed
      /\ J.inventory = {} /\ ~J.stopping /\ inv \subseteq Units
  BY Acting, UpdateAssumption
  DEF BeginCapture, At, Fits, CommandOf, StatusFits, Mid, PtrFits, Typed, JournalTyped, TodoFits,
      Disarmed, Armed, UnitsFit, RowsFit, world
<1>2. CASE Save([J EXCEPT !.status = "rolled-back"]) /\ Fail
  <2>1. /\ J'.inventory = {} /\ J'.disabled = {} /\ ~J'.stopping /\ J'.status = "rolled-back"
        /\ J'.armed = J.armed
    BY <1>1, <1>2 DEF Save, Journal
  <2>2. h'.cmd = "begin" /\ h'.pc = "failed"
    BY <1>1, <1>2, GotoTyped DEF Fail, Places
  <2>3. Own' = {} /\ ~Armed'
    BY <1>1, <2>1 DEF Own, Armed
  <2>4. RowsFit' /\ WorkFits' /\ RepairFits'
    BY <1>1, <2>1, <2>2, <2>3
    DEF RowsFit, WorkFits, RepairFits, Rolling, Restoring, Configured, PendingRepair, Waiting, Onward
  <2>5. StatesFit' /\ Isolated'
    BY <2>1, <2>2, <2>3
    DEF StatesFit, Isolated, Rolling, Waiting, Onward, Quiet, OnPair, AllOff, AllAsBefore, Tame
  <2> QED
    BY <2>4, <2>5 DEF UnitsFit
<1>3. CASE /\ Save([J EXCEPT !.prior = ptr, !.inventory = inv, !.status = "prepared",
                            !.units = [u \in Units |-> [act |-> unit[u].act,
                                                        enabled |-> unit[u].enabled]]])
           /\ Return
  <2>1. /\ J'.inventory = inv /\ J'.disabled = {} /\ ~J'.stopping /\ J'.status = "prepared"
        /\ J'.armed = J.armed /\ J'.prior = ptr' /\ J'.id = J.id
        /\ J'.units = [u \in Units |-> [act |-> unit[u].act, enabled |-> unit[u].enabled]]
    BY <1>1, <1>3 DEF Save, Journal
  <2>2. h'.cmd = "begin" /\ h'.pc = "returned"
    BY <1>1, <1>3, GotoTyped DEF Return, Places
  <2>3. ~Armed' /\ ~Mixed' /\ J.id # 0
    BY <1>1, <2>1 DEF Armed, Mixed, Fits, StatusFits
  <2>4. Tame'
    BY <1>1, <2>1 DEF Tame, Own, EnableAllowed
  <2>5. RowsFit' /\ WorkFits' /\ RepairFits'
    BY <1>1, <2>1, <2>2, <2>3
    DEF RowsFit, WorkFits, RepairFits, Rolling, Restoring, Configured, PendingRepair, Waiting, Onward
  <2>6. StatesFit' /\ Isolated'
    BY <2>1, <2>2, <2>3, <2>4 DEF StatesFit, Isolated, Rolling, Waiting, Onward
  <2> QED
    BY <2>5, <2>6 DEF UnitsFit
<1> QED
  BY <1>2, <1>3 DEF BeginCapture

(* All units are stopped; those of a repair are disabled.                  *)
LEMMA StoppedUnits ==
  ASSUME Fits, UnitsFit, h.cmd = "stop", inst' = inst, h'.cmd = h.cmd, h'.pc = "returned",
         Unmoved, Held, J.status \in {"candidate-staged", "stopping"}, J'.status = "stopped",
         Quiet, J.mode = "repair" => AllOff, J.stopping \/ J.inventory = {}
  PROVE  UnitsFit'
<1>0. Typed /\ RowsFit /\ RepairFits /\ (Calm => StatesFit) /\ Isolated
  BY DEF Fits, UnitsFit
<1>1. RowsFit'
  BY <1>0, UnitParts DEF RowsFit, Held, Unmoved, Rows, Kept, Waiting, Onward
<1>2. WorkFits'
  BY DEF WorkFits, Mid, Rolling
<1>3. RepairFits'
  BY <1>0 DEF RepairFits, PendingRepair
<1>4. OnPair
  BY DEF Quiet, OnPair
<1>5. Calm' => StatesFit'
  BY <1>0, <1>4, UnitParts DEF StatesFit, Rolling, Waiting, Onward, Held, Unmoved, Kept
<1>6. Isolated'
  BY UnitParts DEF Isolated, Unmoved, Kept
<1> QED
  BY <1>1, <1>2, <1>3, <1>5, <1>6 DEF UnitsFit

LEMMA StopUnits == Fits /\ UnitsFit /\ StopStep => UnitsFit'
<1> SUFFICES ASSUME Fits, UnitsFit, StopStep PROVE UnitsFit'
  OBVIOUS
<1> DEFINE u == First(h.todo)
<1>1. /\ h.cmd = "stop" /\ h.cmd # "none" /\ inst' = inst /\ UNCHANGED <<ptr, touched>>
      /\ inst.at = "stop" /\ Typed /\ J \in Journal
      /\ Mid => J.status = "stopping" /\ J.stopping
      /\ RowsFit /\ WorkFits /\ RepairFits /\ (Calm => StatesFit) /\ Isolated
  BY Acting DEF StopStep, users, Fits, UnitsFit, WorkFits, StatusFits, CommandOf, Typed, JournalTyped
<1>2. CASE Fail /\ UNCHANGED <<J, unit>>
  <2>1. h'.cmd = "stop" /\ h'.pc = "failed"
    BY <1>1, <1>2, GotoTyped DEF Fail, Places
  <2>2. Unmoved /\ Held /\ J'.status = J.status
    BY <1>1, <1>2 DEF Unmoved, Held, Rows, Kept, Arms
  <2> QED
    BY <1>1, <2>1, <2>2, EndUnits
<1>3. CASE /\ J.status \in {"candidate-staged", "stopping"} /\ UNCHANGED unit
           /\ Save([J EXCEPT !.status = "stopped"]) /\ Return
           /\ \/ J.inventory = {}
              \/ /\ h.pc = "stop" /\ h.todo = {}
                 /\ \A w \in J.inventory :
                      /\ unit[w].enabled = EnableExpected(w) /\ unit[w].act # "active"
                      /\ w \in WasActive \/ unit[w].act = J.units[w].act
  <2>1. h'.cmd = "stop" /\ h'.pc = "returned"
    BY <1>1, <1>3, GotoTyped DEF Return, Places
  <2>2. Unmoved /\ Held /\ J'.status = "stopped"
    BY <1>1, <1>3 DEF Save, Unmoved, Held, Rows, Kept, Arms, Journal
  <2>3. CASE J.inventory = {}
    <3>1. Quiet /\ AllOff
      BY <2>3 DEF Own, Quiet, AllOff
    <3> QED
      BY <1>1, <1>3, <2>1, <2>2, <2>3, <3>1, StoppedUnits
  <2>4. CASE /\ h.pc = "stop"
             /\ \A w \in J.inventory : unit[w].enabled = EnableExpected(w) /\ unit[w].act # "active"
    <3>1. J.stopping /\ (J.mode = "repair" => WasEnabled \subseteq J.disabled)
      BY <1>1, <2>4 DEF WorkFits, Mid
    <3>2. Quiet
      BY <2>4 DEF Quiet, Own
    <3>3. J.mode = "repair" => AllOff
      BY <2>4, <3>1 DEF AllOff, Own, EnableExpected, WasEnabled
    <3> QED
      BY <1>1, <1>3, <2>1, <2>2, <3>1, <3>2, <3>3, StoppedUnits
  <2> QED
    BY <1>3, <2>3, <2>4
<1>4. CASE /\ J.status = "candidate-staged" /\ UNCHANGED unit
           /\ Save([J EXCEPT !.status = "stopping", !.stopping = TRUE])
           /\ GotoWith("isolate", IF J.mode = "repair" THEN WasEnabled ELSE {})
  <2>1. /\ h'.cmd = "stop" /\ h'.pc = "isolate"
        /\ h'.todo = IF J.mode = "repair" THEN WasEnabled ELSE {}
    BY <1>1, <1>4, Acting DEF GotoWith
  <2>2. /\ Unmoved /\ J'.status = "stopping" /\ J'.stopping /\ J'.disabled = J.disabled
        /\ J'.mode = J.mode /\ J'.id # 0
    BY <1>1, <1>4 DEF Save, Unmoved, Rows, Kept, Arms, Journal, Fits, StatusFits
  <2>3. RowsFit'
    BY <1>1, <1>4, <2>2, UnitParts DEF RowsFit, Waiting, Onward, Unmoved, Rows
  <2>4. WorkFits'
    BY <1>1, <2>1, <2>2, UnitParts DEF WorkFits, Rolling, Restoring
  <2>5. RepairFits'
    BY <1>1, <2>1, <2>2 DEF RepairFits, PendingRepair
  <2>6. Calm' => StatesFit'
    BY <1>1, <1>4, <2>1, <2>2, UnitParts DEF StatesFit, Rolling, Waiting, Onward
  <2>7. Isolated'
    BY <1>1, <1>4, <2>2, UnitParts DEF Isolated, Waiting
  <2> QED
    BY <2>3, <2>4, <2>5, <2>6, <2>7 DEF UnitsFit
<1>5. CASE /\ h.pc = "isolate" /\ h.todo # {} /\ UNCHANGED unit
           /\ Save([J EXCEPT !.disabled = @ \cup {u}]) /\ Goto("disable")
  <2>1. h'.cmd = "stop" /\ h'.pc = "disable" /\ h'.todo = h.todo /\ First(h'.todo) = u
    BY <1>1, <1>5, GotoTyped DEF Places
  <2>2. u \in h.todo /\ u \in WasEnabled
    BY <1>1, <1>5, Picked DEF WorkFits
  <2>3. /\ Unmoved /\ J'.status = J.status /\ J'.stopping = J.stopping
        /\ J'.disabled = J.disabled \cup {u} /\ J'.mode = J.mode /\ J'.id = J.id
        /\ J'.complete = J.complete
    BY <1>1, <1>5 DEF Save, Unmoved, Rows, Kept, Arms, Journal
  <2>4. RowsFit'
    BY <1>1, <2>2, <2>3, UnitParts DEF RowsFit, Unmoved, Rows
  <2>5. WorkFits'
    BY <1>1, <1>5, <2>1, <2>2, <2>3, UnitParts DEF WorkFits, Rolling, Restoring, Mid
  <2>6. RepairFits'
    BY <1>1, <1>5, <2>1, <2>3 DEF RepairFits, PendingRepair, Configured, Mid
  <2>7. Calm' => StatesFit'
    BY <1>1, <1>5, <2>1, <2>3, UnitParts DEF StatesFit, Rolling, Waiting, Onward
  <2>8. Isolated'
    BY <1>1, <2>3, UnitParts DEF Isolated
  <2> QED
    BY <2>4, <2>5, <2>6, <2>7, <2>8 DEF UnitsFit
<1>6. CASE /\ h.pc = "isolate" /\ h.todo = {} /\ UNCHANGED <<J, unit>> /\ GotoWith("stop", WasActive)
  <2>1. h'.cmd = "stop" /\ h'.pc = "stop" /\ h'.todo = WasActive
    BY <1>1, <1>6, Acting DEF GotoWith
  <2>2. Unmoved
    BY <1>1, <1>6 DEF Unmoved, Rows, Kept, Arms
  <2>3. RowsFit'
    BY <1>1, <1>6, <2>2, UnitParts DEF RowsFit
  <2>4. WorkFits'
    BY <1>1, <1>6, <2>1, <2>2, UnitParts DEF WorkFits, Rolling, Restoring, Mid
  <2>5. RepairFits'
    BY <1>1, <1>6, <2>1 DEF RepairFits, PendingRepair, Configured, Mid
  <2>6. Calm' => StatesFit'
    BY <1>1, <1>6, <2>1, <2>2, UnitParts DEF StatesFit, Rolling
  <2>7. Isolated'
    BY <1>1, <1>6, <2>2, UnitParts DEF Isolated
  <2> QED
    BY <2>3, <2>4, <2>5, <2>6, <2>7 DEF UnitsFit
<1>7. CASE \/ /\ h.pc = "disable" /\ UNCHANGED J /\ unit' = Enabled(u, FALSE)
              /\ GotoWith("isolate", h.todo \ {u})
           \/ h.pc = "stop" /\ h.todo # {} /\ UNCHANGED J /\ unit' = Stopped(u) /\ Done(u)
  <2>1. /\ h'.cmd = "stop" /\ h'.todo = h.todo \ {u}
        /\ h'.pc = IF h.pc = "disable" THEN "isolate" ELSE "stop"
    BY <1>1, <1>7, Acting DEF GotoWith, Done
  <2>2. u \in h.todo /\ u \in Units
    <3>1. h.todo # {} /\ h.todo \subseteq J.inventory
      BY <1>1, <1>7 DEF Typed, TodoFits
    <3> QED
      BY <1>1, <3>1, Picked, UnitSets
  <2>3. Kept /\ Arms /\ Rows /\ J.status = "stopping"
    BY <1>1, <1>7 DEF Rows, Kept, Arms, Mid
  <2>4. /\ \A w \in Units \ {u} : unit'[w] = unit[w]
        /\ h.pc = "disable" => /\ unit'[u].act = unit[u].act /\ ~unit'[u].enabled
                               /\ unit'[u].stuck = unit[u].stuck
        /\ h.pc = "stop" => unit'[u].act = "inactive" /\ unit'[u].enabled = unit[u].enabled
    <3>1. CASE h.pc = "disable"
      BY <1>1, <1>7, <2>2, <3>1, EnabledChanges
    <3>2. CASE h.pc = "stop"
      BY <1>1, <1>7, <2>2, <3>2, UnitChanges
    <3> QED
      BY <1>7, <3>1, <3>2
  <2>5. (h.pc = "disable" => u \in J.disabled) /\ (h.pc = "stop" => u \in WasActive)
    BY <1>1, <2>2 DEF WorkFits
  <2>6. RowsFit'
    BY <1>1, <1>7, <2>2, <2>3, <2>4, OneUnitParts DEF RowsFit
  <2>7. WorkFits'
    BY <1>1, <1>7, <2>1, <2>2, <2>3, <2>4, <2>5, OneUnitParts DEF WorkFits, Rolling, Restoring, Mid
  <2>8. RepairFits'
    BY <1>1, <1>7, <2>1, <2>3 DEF RepairFits, PendingRepair, Configured
  <2>9. Tame => Tame'
    <3>1. ASSUME Tame, u \in Own
          PROVE  EnableAllowed(u) /\ (u \notin WasActive => unit[u].act = J.units[u].act)
      BY <3>1 DEF Tame
    <3> QED
      BY <1>1, <1>7, <2>2, <2>3, <2>4, <2>5, <3>1, OneUnitParts DEF EnableAllowed, Rows
  <2>10. (Quiet => Quiet') /\ (AllOff => AllOff')
    <3>1. (Quiet /\ u \in Own => Rests(u)) /\ (AllOff /\ u \in Own => unit[u].act # "active")
      BY DEF Quiet, Rests, AllOff
    <3>2. AllOff /\ u \in Own => ~unit[u].enabled
      BY DEF AllOff
    <3> QED
      BY <1>1, <1>7, <2>2, <2>3, <2>4, <3>1, <3>2, OneUnitParts DEF Rests
  <2>11. Calm' => StatesFit'
    BY <1>1, <1>7, <2>1, <2>2, <2>3, <2>4, <2>9, <2>10, OneUnitParts
       DEF StatesFit, Rolling, Waiting, Onward
  <2>12. Isolated'
    BY <1>1, <1>7, <2>2, <2>3, <2>4, <2>10, OneUnitParts DEF Isolated
  <2> QED
    BY <2>6, <2>7, <2>8, <2>11, <2>12 DEF UnitsFit
<1>8. CASE h.pc = "start"
  BY <1>2, <1>3, <1>4, <1>8 DEF StopStep
<1>9. CASE h.pc = "stop"
  <2>1. CASE h.todo = {}
    <3>1. J.status \in {"candidate-staged", "stopping"}
      BY <1>1, <1>9 DEF Mid
    <3> QED
      BY <1>2, <1>3, <1>9, <2>1, <3>1 DEF StopStep
  <2>2. CASE h.todo # {}
    BY <1>7, <1>9, <2>2 DEF StopStep
  <2> QED
    BY <2>1, <2>2
<1>10. CASE h.pc \in {"isolate", "disable"}
  BY <1>2, <1>5, <1>6, <1>7, <1>10 DEF StopStep
<1> QED
  BY <1>8, <1>9, <1>10 DEF StopStep

(* A step that moves or arms a pointer.                                    *)
LEMMA PointerParts ==
  ASSUME Kept, Rows, UNCHANGED <<unit, touched>>
  PROVE  /\ Own' = Own /\ WasActive' = WasActive /\ WasEnabled' = WasEnabled /\ Retained' = Retained
         /\ (Calm' <=> Calm) /\ (Unset' <=> Unset)
         /\ (Quiet' <=> Quiet) /\ (AllOff' <=> AllOff) /\ (Quiet => OnPair')
         /\ (AllAsBefore' <=> AllAsBefore) /\ (RetainedAsBefore' <=> RetainedAsBefore)
         /\ (Tame => Tame')
<1>1. Own' = Own /\ WasActive' = WasActive /\ WasEnabled' = WasEnabled /\ Retained' = Retained
  BY DEF Rows, Own, WasActive, WasEnabled, Retained
<1>2. (Calm' <=> Calm) /\ (Unset' <=> Unset)
  BY DEF Calm, Unset
<1>3. (Quiet' <=> Quiet) /\ (AllOff' <=> AllOff) /\ (Quiet => OnPair')
  BY <1>1 DEF Quiet, OnPair, AllOff
<1>4. (AllAsBefore' <=> AllAsBefore) /\ (RetainedAsBefore' <=> RetainedAsBefore)
  BY <1>1 DEF Rows, AllAsBefore, RetainedAsBefore, AsBefore
<1>5. Tame => Tame'
  BY <1>1 DEF Rows, Tame, EnableAllowed
<1> QED
  BY <1>1, <1>2, <1>3, <1>4, <1>5

(* Nothing runs while the pointers are exchanged.                          *)
LEMMA SwappingUnits ==
  ASSUME Fits, UnitsFit, Kept, Rows, Held, UNCHANGED <<unit, touched>>, inst' = inst,
         h.cmd = "promote", h'.cmd = h.cmd, J.status = "promoting", J'.status = "promoting",
         WorkFits'
  PROVE  UnitsFit'
<1>0. /\ Typed /\ RowsFit /\ RepairFits /\ (Calm => StatesFit) /\ Isolated
      /\ inst.at = "promote" /\ J.id # 0
  BY Acting DEF Fits, UnitsFit, CommandOf, StatusFits
<1>1. RowsFit'
  BY <1>0, PointerParts DEF RowsFit, Held, Rows, Kept, Waiting, Onward
<1>2. RepairFits'
  BY <1>0 DEF RepairFits
<1>3. Calm => Quiet
  <2>1. CASE J.stopping
    BY <1>0, <2>1 DEF StatesFit, Waiting
  <2>2. CASE ~J.stopping
    BY <1>0, <2>2 DEF RowsFit, Waiting, Quiet, Own
  <2> QED
    BY <2>1, <2>2
<1>4. Calm' => StatesFit'
  BY <1>0, <1>3, PointerParts DEF StatesFit, Rolling, Waiting
<1>5. Isolated'
  BY <1>0, PointerParts DEF Isolated, Waiting, Kept
<1> QED
  BY <1>1, <1>2, <1>4, <1>5 DEF UnitsFit

LEMMA PromoteUnits == Fits /\ UnitsFit /\ PromoteStep => UnitsFit'
<1> SUFFICES ASSUME Fits, UnitsFit, PromoteStep PROVE UnitsFit'
  OBVIOUS
<1> DEFINE q == NextPointer
<1>1. /\ h.cmd = "promote" /\ h.cmd # "none" /\ inst' = inst /\ inst.at = "promote"
      /\ UNCHANGED <<unit, touched>> /\ Typed /\ J \in Journal
      /\ Mid => J.status = "promoting"
      /\ ptr \in [Pointers -> Releases] /\ Only(J.mode) \subseteq Pointers
      /\ RowsFit /\ WorkFits /\ RepairFits /\ (Calm => StatesFit) /\ Isolated
  BY Acting
  DEF PromoteStep, users, Fits, UnitsFit, StatusFits, CommandOf, Typed, JournalTyped, WorldTyped,
      Only, Pointers
<1>2. CASE Fail /\ UNCHANGED <<J, ptr, side>>
  <2>1. h'.cmd = "promote" /\ h'.pc = "failed"
    BY <1>1, <1>2, GotoTyped DEF Fail, Places
  <2>2. Unmoved /\ Held /\ J'.status = J.status
    BY <1>1, <1>2 DEF Unmoved, Held, Rows, Kept, Arms
  <2> QED
    BY <1>1, <2>1, <2>2, EndUnits
<1>3. CASE /\ J.status = "stopped" /\ UNCHANGED <<ptr, side>>
           /\ Save([J EXCEPT !.status = "promoting"]) /\ GotoWith("arm", Only(J.mode))
  <2>1. h'.cmd = "promote" /\ h'.pc = "arm" /\ h'.todo = Only(J.mode)
    BY <1>1, <1>3, Acting DEF GotoWith
  <2>2. Unmoved /\ Held /\ J'.status = "promoting" /\ J'.mode = J.mode
    BY <1>1, <1>3 DEF Save, Unmoved, Held, Rows, Kept, Arms, Journal
  <2>3. RowsFit'
    BY <1>1, <1>3, <2>2, UnitParts DEF RowsFit, Waiting, Onward, Unmoved, Rows, Held, Kept
  <2>4. WorkFits'
    BY <2>1, <2>2 DEF WorkFits, Rolling, Restoring
  <2>5. RepairFits'
    BY <1>1, <2>1, <2>2 DEF RepairFits
  <2>6. Calm' => StatesFit'
    BY <1>1, <1>3, <2>1, <2>2, UnitParts DEF StatesFit, Rolling, Waiting, Held
  <2>7. Isolated'
    BY <1>1, <1>3, <2>2, UnitParts DEF Isolated, Waiting
  <2> QED
    BY <2>3, <2>4, <2>5, <2>6, <2>7 DEF UnitsFit
<1>4. CASE /\ h.pc = "arm" /\ h.todo # {} /\ UNCHANGED <<ptr, side>>
           /\ Save([J EXCEPT !.armed[q] = TRUE, !.back[q] = FALSE])
           /\ Goto("move") \/ Goto("swap")
  <2>1. h'.cmd = "promote" /\ h'.pc \in {"move", "swap"} /\ h'.todo = h.todo
    BY <1>1, <1>4, GotoTyped DEF Places
  <2>2. /\ Kept /\ Rows /\ Held /\ J'.status = J.status /\ J'.mode = J.mode /\ J'.id = J.id
        /\ J.status = "promoting"
    BY <1>1, <1>4 DEF Save, Held, Rows, Kept, Journal, Mid
  <2>3. WorkFits'
    BY <1>1, <1>4, <2>1, <2>2 DEF WorkFits, Rolling, Restoring, Mid
  <2> QED
    BY <1>1, <2>1, <2>2, <2>3, SwappingUnits
<1>5. CASE /\ h.pc \in {"move", "swap"} /\ UNCHANGED J
           /\ \/ ptr' = [ptr EXCEPT ![q] = Gone] /\ Goto("swap")
              \/ ptr' = [ptr EXCEPT ![q] = J.id] /\ (Goto("swap back") \/ Goto("swapped"))
  <2>1. /\ h'.cmd = "promote" /\ h'.pc \in {"swap", "swap back", "swapped"} /\ h'.todo = h.todo
        /\ h'.pc = "swapped" => ptr' = [ptr EXCEPT ![q] = J.id]
    BY <1>1, <1>5, GotoTyped DEF Places
  <2>2. Kept /\ Rows /\ Held /\ J.status = "promoting"
    BY <1>1, <1>5 DEF Held, Rows, Kept, Mid
  <2>3. q \in h.todo
    BY <1>1, <1>5, NextPointerIs DEF Typed, TodoFits
  <2>4. /\ \A p \in Pointers \ {q} : ptr'[p] = ptr[p]
        /\ h'.pc = "swapped" => \A p \in Pointers : p = q => ptr'[p] = J.id
    BY <1>1, <1>5, <2>1
  <2>5. \A p \in Only(J.mode) \ touched : p \in h.todo \/ ptr[p] = J.id
    BY <1>1, <1>5 DEF WorkFits, Mid
  <2>6. \A p \in Only(J.mode) \ touched : \/ p \in h.todo /\ (h'.pc = "swapped" => p # q)
                                          \/ ptr'[p] = J.id
    BY <1>1, <2>3, <2>4, <2>5
  <2>7. WorkFits'
    BY <1>1, <1>5, <2>1, <2>6 DEF WorkFits, Rolling, Restoring, NextPointer
  <2> QED
    BY <1>1, <1>5, <2>1, <2>2, <2>7, SwappingUnits
<1>6. CASE h.pc = "swap back" /\ UNCHANGED J /\ Fail
  <2>1. h'.cmd = "promote" /\ h'.pc = "failed"
    BY <1>1, <1>6, GotoTyped DEF Fail, Places
  <2>2. Kept /\ Rows /\ Held /\ J.status = "promoting"
    BY <1>1, <1>6 DEF Held, Rows, Kept, Mid
  <2>3. WorkFits'
    BY <2>1 DEF WorkFits, Mid
  <2> QED
    BY <1>1, <1>6, <2>1, <2>2, <2>3, SwappingUnits
<1>7. CASE /\ h.pc = "swapped" /\ UNCHANGED <<J, ptr, side>> /\ GotoWith("arm", h.todo \ {q})
  <2>1. h'.cmd = "promote" /\ h'.pc = "arm" /\ h'.todo = h.todo \ {q}
    BY <1>1, <1>7, Acting DEF GotoWith
  <2>2. Kept /\ Rows /\ Held /\ J.status = "promoting"
    BY <1>1, <1>7 DEF Held, Rows, Kept, Mid
  <2>3. WorkFits'
    BY <1>1, <1>7, <2>1, <2>2 DEF WorkFits, Rolling, Restoring, Mid
  <2> QED
    BY <1>1, <1>7, <2>1, <2>2, <2>3, SwappingUnits
<1>8. CASE /\ h.pc = "arm" /\ h.todo = {} /\ UNCHANGED <<ptr, side>>
           /\ Save([J EXCEPT !.status = "promoted"]) /\ Return
  <2>1. h'.cmd = "promote" /\ h'.pc = "returned"
    BY <1>1, <1>8, GotoTyped DEF Return, Places
  <2>2. Unmoved /\ Held /\ J'.status = "promoted" /\ J.status = "promoting"
    BY <1>1, <1>8 DEF Save, Unmoved, Held, Rows, Kept, Arms, Journal, Mid
  <2>3. Candidate
    BY <1>1, <1>8 DEF WorkFits, Candidate, Mid
  <2>4. RowsFit'
    BY <1>1, <2>2, <2>3, UnitParts DEF RowsFit, Waiting, Onward, Unmoved, Rows, Held, Kept
  <2>5. WorkFits' /\ RepairFits'
    BY <1>1, <2>1, <2>2 DEF WorkFits, RepairFits, Rolling, Restoring, Mid
  <2>6. ASSUME Calm' PROVE StatesFit'
    <3>1. StatesFit /\ ~Rolling' /\ J'.stopping = J.stopping
      BY <1>1, <2>1, <2>2, <2>6, UnitParts DEF Rolling, Held
    <3>2. Tame' /\ (Unset' /\ Mixed' => Quiet')
      BY <2>2, <3>1, UnitParts DEF StatesFit
    <3>3. Unset' /\ J'.stopping => OnPair'
      BY <2>2, <3>1, UnitParts DEF StatesFit, Waiting
    <3>4. ~Rolling' /\ J'.status = "promoted"
      BY <2>2, <3>1
    <3> HIDE DEF Rolling, Tame, Quiet, OnPair, Mixed, Unset
    <3> QED
      BY <3>2, <3>3, <3>4 DEF StatesFit, Waiting
  <2>7. Isolated'
    BY <1>1, <2>2, UnitParts DEF Isolated, Waiting, Unmoved, Kept
  <2> QED
    BY <2>4, <2>5, <2>6, <2>7 DEF UnitsFit
<1>9. CASE h.pc \in {"start", "arm"}
  BY <1>2, <1>3, <1>4, <1>8, <1>9 DEF PromoteStep
<1>10. CASE h.pc \in {"move", "swap"}
  BY <1>2, <1>5, <1>10 DEF PromoteStep
<1>11. CASE h.pc \in {"swap back", "swapped"}
  BY <1>6, <1>7, <1>11 DEF PromoteStep
<1> QED
  BY <1>9, <1>10, <1>11 DEF PromoteStep

(* A helper that goes through nothing but the units it restores.           *)
LEMMA WorkIf ==
  ASSUME h'.cmd \in {"restore", "recover", "rollback"},
         h'.pc = "enable" => h'.todo \subseteq J'.disabled,
         h'.cmd # "restore" /\ h'.pc \in {"units", "enable"} => J'.stopping /\ ~h'.err
  PROVE  WorkFits'
  BY DEF WorkFits, Rolling

(* A command that is no repair's does not come near a committed repair.    *)
LEMMA RepairKept ==
  ASSUME UnitsFit, inst' = inst, h'.cmd = h.cmd, J'.status = J.status, Kept, Held,
         h.cmd \notin {"commit-repair", "restore-repair"},
         h.cmd = "recover" /\ h'.pc = "returned" => marker' = 0 \/ PendingRepair,
         J.status = "committed" => (Calm' => Calm) /\ (RetainedAsBefore => RetainedAsBefore')
  PROVE  RepairFits'
<1>1. RepairFits /\ (PendingRepair' <=> PendingRepair)
  BY DEF UnitsFit, PendingRepair, Kept, Held
<1> QED
  BY <1>1 DEF RepairFits, Configured, Kept, Held

(* A step of a command that leaves the units, the pointers and the status. *)
LEMMA FlowUnits ==
  ASSUME Fits, UnitsFit, inst' = inst, h'.cmd = h.cmd, Unmoved, Held, J'.status = J.status,
         h.cmd \in {"restore", "recover", "rollback"}, WorkFits',
         h.cmd = "recover" /\ h'.pc = "returned" => marker' = 0 \/ PendingRepair,
         Rolling /\ Calm => StatesFit'
  PROVE  UnitsFit'
<1>0. Typed /\ RowsFit /\ (Calm => StatesFit) /\ Isolated
  BY DEF Fits, UnitsFit
<1>1. RowsFit'
  BY <1>0, UnitParts DEF RowsFit, Held, Unmoved, Rows, Kept, Waiting, Onward
<1>2. RepairFits'
  BY UnitParts, RepairKept DEF Unmoved
<1>3. Calm' => StatesFit'
  <2>1. CASE Rolling
    BY <2>1, UnitParts
  <2>2. CASE ~Rolling
    <3>1. ~Rolling'
      BY <2>2 DEF Rolling
    <3> QED
      BY <1>0, <2>2, <3>1, UnitParts DEF StatesFit, Held, Unmoved, Kept
  <2> QED
    BY <2>1, <2>2
<1>4. Isolated'
  BY <1>0, UnitParts DEF Isolated, Unmoved, Kept
<1> QED
  BY <1>1, <1>2, <1>3, <1>4 DEF UnitsFit

LEMMA RestoreStartUnits == Fits /\ UnitsFit /\ RestoreStart => UnitsFit'
<1> SUFFICES ASSUME Fits, UnitsFit, RestoreStart PROVE UnitsFit'
  OBVIOUS
<1>1. /\ h.cmd = "restore" /\ h.cmd # "none" /\ inst' = inst /\ Typed
      /\ UNCHANGED <<J, unit, ptr, touched>>
  BY DEF RestoreStart, At, Fits, world, users
<1>2. Unmoved /\ Held /\ J'.status = J.status
  BY <1>1 DEF Unmoved, Held, Rows, Kept, Arms
<1>3. h'.cmd = "restore" /\ h'.pc \in {"units", "failed"}
  BY <1>1, Acting DEF RestoreStart, GotoWith, Fail, Goto
<1>4. WorkFits'
  BY <1>3, WorkIf
<1> QED
  BY <1>1, <1>2, <1>3, <1>4, FlowUnits DEF Rolling

(* What holds while the units are being restored: the pointers are right.  *)
LEMMA RestoringParts ==
  ASSUME Fits, UnitsFit, h.cmd \in {"restore", "recover", "rollback"}, h.pc \in {"units", "enable"}
  PROVE  /\ Typed /\ J.id # 0 /\ (J.stopping \/ J.inventory = {})
         /\ J.status = IF h.cmd = "restore" THEN "promoted" ELSE "rolling-back"
         /\ ~(Unset /\ Mixed) /\ (J.mode = "repair" => ~Armed /\ J.status = "rolling-back")
         /\ h.cmd # "restore" => J.stopping /\ ~h.err
         /\ Calm => /\ Tame
                    /\ Unset /\ J.stopping => OnPair
<1>1. /\ Typed /\ PtrCore /\ J.id # 0
      /\ J.status = IF h.cmd = "restore" THEN "promoted" ELSE "rolling-back"
  BY DEF Fits, StatusFits, PtrFits, Mid, Rolling, Putting
<1>2. h.cmd = "restore" => J.mode # "repair" /\ Candidate /\ (J.stopping \/ J.inventory = {})
  BY <1>1, Acting DEF Fits, LockFits, CommandOf, UnitsFit, RowsFit, Onward
<1>3. h.cmd # "restore" => J.stopping /\ ~h.err /\ ~Armed
  BY DEF UnitsFit, WorkFits, Rolling, Fits, PtrFits, Putting, Disarmed, Armed
<1>4. ~(Unset /\ Mixed)
  BY <1>1, <1>2, <1>3, Unmixed
<1>5. ASSUME Calm PROVE Tame /\ (Unset /\ J.stopping => OnPair)
  BY <1>1, <1>5 DEF UnitsFit, StatesFit, Rolling, Onward, Resuming
<1> QED
  BY <1>1, <1>2, <1>3, <1>4, <1>5

(* The restoring loop goes on, or gives up.                                *)
LEMMA RestoringUnits ==
  ASSUME Fits, UnitsFit, h.cmd \in {"restore", "recover", "rollback"}, h.pc \in {"units", "enable"},
         inst' = inst, UNCHANGED <<J, ptr, touched>>, h'.cmd = h.cmd,
         Tame => Tame', OnPair => OnPair',
         \/ /\ h'.pc \in {"units", "enable"} /\ h'.err = h.err
            /\ h'.pc = "enable" => h'.todo \subseteq J.disabled
         \/ h.cmd # "restore" /\ h'.pc = "finish" /\ h'.err
         \/ h.cmd = "restore" /\ h'.pc = "failed"
  PROVE  UnitsFit'
<1>0. RowsFit
  BY DEF UnitsFit
<1>1. /\ Own' = Own /\ (Calm' <=> Calm) /\ (Unset' <=> Unset) /\ (Armed' <=> Armed)
      /\ (Mixed' <=> Mixed) /\ (Candidate' <=> Candidate) /\ WasEnabled' = WasEnabled
  BY DEF Own, Calm, Unset, Armed, Mixed, Target, Candidate, Only, WasEnabled
<1>2. RowsFit'
  BY <1>0, <1>1 DEF RowsFit
<1>3. WorkFits'
  BY RestoringParts, WorkIf
<1>4. Kept /\ Held /\ J'.status = J.status /\ J.status # "committed"
  BY RestoringParts DEF Kept, Held
<1>5. RepairFits'
  BY <1>4, RepairKept
<1>6. ASSUME Calm' PROVE StatesFit'
  <2>1. Tame' /\ ~(Unset' /\ Mixed') /\ (Unset' /\ J'.stopping => OnPair')
    BY <1>1, <1>6, RestoringParts
  <2>2. /\ J'.status \notin Waiting /\ h'.pc \notin Halted \cup {"halt"}
        /\ J'.status \notin {"services-restored", "verified", "rolled-back", "committed"}
        /\ h'.pc = "finish" => h'.err
    BY RestoringParts DEF Waiting, Halted
  <2> HIDE DEF Tame, Mixed, OnPair, Unset
  <2> QED
    BY <2>1, <2>2 DEF StatesFit
<1>7. Isolated'
  BY <1>1, RestoringParts DEF Isolated, Waiting
<1> QED
  BY <1>2, <1>3, <1>5, <1>6, <1>7 DEF UnitsFit

LEMMA RestoredUnits ==
  ASSUME Fits, UnitsFit, h.cmd \in {"restore", "recover", "rollback"}, h.pc = "enable",
         inst' = inst, UNCHANGED <<unit, ptr, touched>>, Restored,
         \A u \in J.inventory : AsBefore(u)
  PROVE  UnitsFit'
<1>1. h.cmd # "none" /\ J \in Journal
  BY RestoringParts DEF Typed, JournalTyped
<1>2. Unmoved /\ Held /\ J'.status = "services-restored"
  BY <1>1 DEF Restored, Save, Unmoved, Held, Rows, Kept, Arms, Journal
<1>3. /\ h'.cmd = h.cmd /\ h'.err = h.err /\ h'.pc \in {"finish", "returned"}
      /\ h.cmd = "recover" => h'.pc = "finish"
  BY <1>1, RestoringParts, Acting DEF Restored, Return, Goto, Rolling
<1>4. RowsFit'
  BY <1>2, RestoringParts, UnitParts DEF UnitsFit, RowsFit, Onward, Waiting, Unmoved, Held, Rows, Kept
<1>5. WorkFits'
  BY <1>3, WorkIf
<1>6. RepairFits'
  BY <1>2, <1>3, RestoringParts DEF UnitsFit, RepairFits, PendingRepair
<1>7. ASSUME Calm' PROVE StatesFit'
  <2>1. AllAsBefore'
    BY <1>2, UnitParts DEF AllAsBefore, Own
  <2>2. Tame' /\ ~(Unset' /\ Mixed') /\ (Unset' /\ J'.stopping => OnPair')
    BY <1>2, <1>7, RestoringParts, UnitParts DEF Held
  <2>3. h'.pc \notin Halted \cup {"halt"} /\ J'.status \notin Waiting
    BY <1>2, <1>3 DEF Halted, Waiting
  <2> HIDE DEF Tame, Mixed, OnPair, Unset
  <2> QED
    BY <2>1, <2>2, <2>3 DEF StatesFit
<1>8. Isolated'
  BY <1>2, RestoringParts, UnitParts DEF Isolated, Waiting, Unmoved, Kept
<1> QED
  BY <1>4, <1>5, <1>6, <1>7, <1>8 DEF UnitsFit

LEMMA RestoreUnits == Fits /\ UnitsFit /\ RestoreStep => UnitsFit'
<1> SUFFICES ASSUME Fits, UnitsFit, RestoreStep PROVE UnitsFit'
  OBVIOUS
<1> DEFINE u == First(h.todo)
<1>1. /\ h.cmd \in {"restore", "recover", "rollback"} /\ h.cmd # "none" /\ inst' = inst
      /\ UNCHANGED <<ptr, touched>> /\ Typed /\ h.pc \in {"units", "enable"} /\ J \in Journal
  BY DEF RestoreStep, users, Fits, Typed, JournalTyped
<1>2. CASE NotRestored /\ UNCHANGED unit
  <2>1. /\ h'.cmd = h.cmd /\ J' = J
        /\ \/ h.cmd # "restore" /\ h'.pc = "finish" /\ h'.err
           \/ h.cmd = "restore" /\ h'.pc = "failed"
    BY <1>1, <1>2, Acting DEF NotRestored, Rolling
  <2>2. Unmoved
    BY <1>1, <1>2, <2>1 DEF Unmoved, Rows, Kept, Arms
  <2> QED
    BY <1>1, <2>1, <2>2, UnitParts, RestoringUnits
<1>3. CASE GotoWith("enable", J.disabled \ WasActive) /\ UNCHANGED <<J, unit>>
  <2>1. h'.cmd = h.cmd /\ h'.pc = "enable" /\ h'.err = h.err /\ h'.todo \subseteq J.disabled
    BY <1>1, <1>3, Acting DEF GotoWith
  <2>2. Unmoved
    BY <1>1, <1>3 DEF Unmoved, Rows, Kept, Arms
  <2> QED
    BY <1>1, <1>3, <2>1, <2>2, UnitParts, RestoringUnits
<1>4. CASE h.pc = "enable" /\ UNCHANGED unit /\ (\A w \in J.inventory : AsBefore(w)) /\ Restored
  BY <1>1, <1>4, RestoredUnits
<1>5. ASSUME h.todo # {}, UNCHANGED J, UNCHANGED h \/ Done(u),
             \/ unit' = unit
             \/ EnableAllowed(u) /\ u \in WasActive /\ unit' = Started(u)
             \/ u \in J.disabled /\ unit' = Enabled(u, TRUE)
      PROVE  UnitsFit'
  <2>1. u \in h.todo /\ u \in Units
    <3>1. h.todo \subseteq J.inventory
      BY <1>1 DEF Typed, TodoFits
    <3> QED
      BY <1>1, <1>5, <3>1, Picked, UnitSets
  <2>2. /\ h'.cmd = h.cmd /\ h'.pc = h.pc /\ h'.err = h.err /\ h'.todo \subseteq h.todo
    BY <1>1, <1>5, Acting DEF Done
  <2>3. h'.pc = "enable" => h'.todo \subseteq J.disabled
    BY <1>1, <2>2 DEF UnitsFit, WorkFits, Restoring
  <2>4. Kept /\ Arms /\ Rows
    BY <1>5 DEF Rows, Kept, Arms
  <2>5. CASE unit' = unit
    <3>1. Unmoved
      BY <1>1, <2>4, <2>5 DEF Unmoved
    <3> QED
      BY <1>1, <1>5, <2>2, <2>3, <3>1, UnitParts, RestoringUnits
  <2>6. CASE EnableAllowed(u) /\ u \in WasActive /\ unit' = Started(u)
    <3>1. /\ \A w \in Units \ {u} : unit'[w] = unit[w]
          /\ unit'[u].act = "active" => unit'[u].runs = Pair
          /\ unit'[u].enabled = unit[u].enabled
      BY <1>1, <2>1, <2>6, UnitChanges
    <3>2. (OnPair => OnPair') /\ (Tame => Tame')
      BY <1>1, <1>5, <2>1, <2>4, <2>6, <3>1, OneUnitParts DEF EnableAllowed
    <3> QED
      BY <1>1, <1>5, <2>2, <2>3, <3>2, RestoringUnits
  <2>7. CASE u \in J.disabled /\ unit' = Enabled(u, TRUE)
    <3>1. /\ \A w \in Units \ {u} : unit'[w] = unit[w]
          /\ unit'[u].act = unit[u].act /\ unit'[u].runs = unit[u].runs /\ unit'[u].enabled
          /\ unit'[u].stuck = unit[u].stuck
      BY <1>1, <2>1, <2>7, EnabledChanges
    <3>2. J.units[u].enabled = TRUE
      BY <1>1, <2>1, <2>7 DEF UnitsFit, RowsFit, WasEnabled, Journal, UnitState
    <3>3. /\ Tame /\ u \in Own => (u \notin WasActive => unit[u].act = J.units[u].act)
          /\ OnPair /\ u \in Own => (unit[u].act = "active" => unit[u].runs = Pair \/ unit[u].stuck)
      BY DEF Tame, OnPair
    <3>4. unit'[u].enabled = J.units[u].enabled
      BY <2>7, <3>2, <2>1, <1>1 DEF Typed, WorldTyped, Enabled
    <3>5. (OnPair => OnPair') /\ (Tame => Tame')
      BY <1>1, <1>5, <2>1, <2>4, <3>1, <3>3, <3>4, OneUnitParts
    <3> QED
      BY <1>1, <1>5, <2>2, <2>3, <3>5, RestoringUnits
  <2> QED
    BY <1>5, <2>5, <2>6, <2>7
<1>6. CASE h.pc = "units" /\ h.todo # {}
  <2>1. CASE /\ EnableAllowed(u) /\ u \in WasActive /\ UNCHANGED J
             /\ IF u \in J.disabled /\ ~unit[u].enabled
                THEN unit' = Enabled(u, TRUE) /\ UNCHANGED h
                ELSE /\ unit' = IF unit[u].act = "active" THEN unit ELSE Started(u)
                     /\ Done(u)
    BY <1>5, <1>6, <2>1
  <2>2. CASE Done(u) /\ UNCHANGED <<J, unit>>
    BY <1>5, <1>6, <2>2
  <2> QED
    BY <1>2, <1>6, <2>1, <2>2 DEF RestoreStep
<1>7. CASE h.pc = "enable" /\ h.todo # {}
  <2>1. unit' = Enabled(u, TRUE) /\ Done(u) /\ UNCHANGED J
    BY <1>7 DEF RestoreStep
  <2>2. u \in J.disabled
    BY <1>1, <1>7, Picked DEF UnitsFit, WorkFits, Restoring
  <2> QED
    BY <1>5, <1>7, <2>1, <2>2
<1>8. CASE h.todo = {}
  BY <1>1, <1>2, <1>3, <1>4, <1>8 DEF RestoreStep
<1> QED
  BY <1>1, <1>6, <1>7, <1>8

(* A commit, and the end of a command that releases the lock.              *)
LEMMA CommitUnits == Fits /\ UnitsFit /\ CommitStep => UnitsFit'
<1> SUFFICES ASSUME Fits, UnitsFit, CommitStep PROVE UnitsFit'
  OBVIOUS
<1>1. /\ h.cmd = "commit" /\ h.cmd # "none" /\ inst' = inst /\ Typed /\ J \in Journal
      /\ UNCHANGED <<unit, ptr, touched>>
  BY DEF CommitStep, At, Fits, world, users, Typed, JournalTyped
<1>2. J.mode # "repair"
  BY <1>1, Acting DEF Fits, LockFits, CommandOf
<1>3. h'.cmd = h.cmd
  BY <1>1, Acting DEF CommitStep, Goto, Fail
<1>4. /\ Unmoved /\ Held
      /\ J'.status = J.status \/ (J.status = "verified" /\ J'.status = "committed")
  BY <1>1 DEF CommitStep, Save, Unmoved, Held, Rows, Kept, Arms, Journal
<1> QED
  BY <1>1, <1>2, <1>3, <1>4, PlainUnits

LEMMA UnlockUnits == Fits /\ UnitsFit /\ Unlock => UnitsFit'
<1> SUFFICES ASSUME Fits, UnitsFit, Unlock PROVE UnitsFit'
  OBVIOUS
<1>1. /\ h.pc = "unlock" /\ inst' = inst /\ UNCHANGED <<J, unit, ptr, touched, marker>>
      /\ Typed /\ h.cmd # "none" /\ marker = 0 /\ ~PendingRepair /\ J.status \in Terminal
  BY Active1 DEF Unlock, world, users, Fits, LockFits, StatusFits, Mid
<1>2. h'.cmd = h.cmd /\ h'.pc = "returned"
  BY <1>1, GotoTyped DEF Unlock, Return, Places
<1>3. Unmoved /\ Held /\ J'.status = J.status
  BY <1>1 DEF Unmoved, Held, Rows, Kept, Arms
<1>4. h.cmd # "commit-repair" /\ h.cmd # "restore-repair"
  BY <1>1, Acting DEF Fits, StatusFits, Mid, Terminal, CommandOf, UnitsFit, RepairFits
<1> QED
  BY <1>1, <1>2, <1>3, <1>4, EndUnits

(* The commit of a repair: its units are still disabled.                   *)
LEMMA CommittingUnits ==
  ASSUME Fits, UnitsFit, h.cmd = "commit-repair", inst' = inst, h'.cmd = h.cmd, Unmoved,
         J'.stopping = J.stopping, J'.disabled = J.disabled, J.mode = "repair", J.status = "promoted",
         J'.status = "promoted" \/ J'.status = "committed",
         ~J'.complete, h'.pc = "returned" => J'.status = "committed"
  PROVE  UnitsFit'
<1>0. /\ Typed /\ RowsFit /\ RepairFits /\ (Calm => StatesFit) /\ Isolated /\ J.id # 0
      /\ inst.at = "commit-repair"
  BY Acting DEF Fits, UnitsFit, StatusFits, CommandOf
<1>1. RowsFit'
  BY <1>0, UnitParts DEF RowsFit, Unmoved, Rows, Kept, Waiting, Onward
<1>2. WorkFits'
  BY DEF WorkFits, Rolling, Restoring
<1>3. RepairFits'
  BY <1>0 DEF RepairFits, Configured, PendingRepair, Unmoved, Kept
<1>4. ASSUME Calm' PROVE StatesFit'
  <2>1. Tame' /\ (Unset' /\ Mixed' => Quiet') /\ (Unset' /\ J'.stopping => OnPair')
    BY <1>0, <1>4, UnitParts DEF StatesFit, Onward
  <2>2. J'.mode = "repair" /\ ~Rolling' /\ J'.status \in {"promoted", "committed"}
    BY DEF Unmoved, Kept, Rolling
  <2> HIDE DEF Tame, Mixed, OnPair, Unset, Rolling
  <2> QED
    BY <2>1, <2>2 DEF StatesFit, Waiting
<1>5. Isolated'
  BY <1>0, UnitParts DEF Isolated, Unmoved, Kept
<1> QED
  BY <1>1, <1>2, <1>3, <1>4, <1>5 DEF UnitsFit

LEMMA CommitRepairUnits == Fits /\ UnitsFit /\ CommitRepairStep => UnitsFit'
<1> SUFFICES ASSUME Fits, UnitsFit, CommitRepairStep PROVE UnitsFit'
  OBVIOUS
<1>1. /\ h.cmd = "commit-repair" /\ h.cmd # "none" /\ inst' = inst /\ Typed /\ J \in Journal
      /\ UNCHANGED <<unit, ptr, touched>>
      /\ Mid => J.mode = "repair" /\ J.status = "promoted" /\ ~J.complete
  BY DEF CommitRepairStep, Fits, users, LockFits, StatusFits, Typed, JournalTyped, UnitsFit, RepairFits
<1>2. CASE Fail /\ UNCHANGED J
  <2>1. h'.cmd = h.cmd /\ h'.pc = "failed"
    BY <1>1, <1>2, GotoTyped DEF Fail, Places
  <2>2. Unmoved /\ Held /\ J'.status = J.status
    BY <1>1, <1>2 DEF Unmoved, Held, Rows, Kept, Arms
  <2> QED
    BY <1>1, <2>1, <2>2, EndUnits
<1>3. CASE /\ h.pc = "start" /\ J.mode = "repair" /\ J.status = "promoted"
           /\ Save([J EXCEPT !.complete = FALSE]) /\ Goto("planned")
  <2>1. h'.cmd = h.cmd /\ h'.pc = "planned"
    BY <1>1, <1>3, GotoTyped DEF Places
  <2>2. /\ Unmoved /\ J'.stopping = J.stopping /\ J'.disabled = J.disabled
        /\ J'.status = "promoted" /\ ~J'.complete
    BY <1>1, <1>3 DEF Save, Unmoved, Rows, Kept, Arms, Journal
  <2> QED
    BY <1>1, <1>3, <2>1, <2>2, CommittingUnits
<1>4. CASE /\ Mid
           /\ \/ J' = J /\ Goto("written")
              \/ Save([J EXCEPT !.bound = TRUE]) /\ Goto("bound")
              \/ Save([J EXCEPT !.status = "committed"]) /\ Return
  <2>1. h'.cmd = h.cmd /\ h'.pc \in {"written", "bound", "returned"}
    BY <1>1, <1>4, GotoTyped DEF Places, Return
  <2>2. /\ Unmoved /\ J'.stopping = J.stopping /\ J'.disabled = J.disabled
        /\ J'.status \in {"promoted", "committed"} /\ ~J'.complete
        /\ h'.pc = "returned" => J'.status = "committed"
    BY <1>1, <1>4, Acting DEF Save, Unmoved, Rows, Kept, Arms, Journal, Goto, Return
  <2> QED
    BY <1>1, <1>4, <2>1, <2>2, CommittingUnits
<1> QED
  BY <1>1, <1>2, <1>3, <1>4 DEF CommitRepairStep, Mid

(* The retained units of a committed repair are put back.                  *)
LEMMA RepairingUnits ==
  ASSUME Fits, UnitsFit, h.cmd = "restore-repair", inst' = inst, h'.cmd = h.cmd,
         UNCHANGED <<J, ptr, touched>>, OnPair => OnPair',
         h'.pc = "returned" => RetainedAsBefore'
  PROVE  UnitsFit'
<1>0. /\ Typed /\ RowsFit /\ RepairFits /\ (Calm => StatesFit) /\ PtrCore
      /\ inst.at = "restore-repair" /\ PendingRepair
  BY Acting DEF Fits, UnitsFit, CommandOf, RepairFits, PtrFits
<1>1. J.mode = "repair" /\ J.status = "committed" /\ ~J.complete /\ Candidate
  BY <1>0 DEF PendingRepair, Fits, PtrFits
<1>2. /\ Own' = Own /\ (Calm' <=> Calm) /\ (Unset' <=> Unset) /\ (Armed' <=> Armed)
      /\ (Mixed' <=> Mixed) /\ (Candidate' <=> Candidate) /\ WasEnabled' = WasEnabled
  BY DEF Own, Calm, Unset, Armed, Mixed, Target, Candidate, Only, WasEnabled
<1>3. RowsFit'
  BY <1>0, <1>2 DEF RowsFit
<1>4. WorkFits'
  BY DEF WorkFits, Rolling, Restoring
<1>5. RepairFits'
  BY <1>0, <1>1 DEF RepairFits, Configured, PendingRepair
<1>6. ASSUME Calm' PROVE StatesFit'
  <2>1. ~(Unset' /\ Mixed')
    BY <1>0, <1>1, <1>2, Unmixed
  <2>2. Unset' /\ J'.stopping => OnPair'
    BY <1>0, <1>1, <1>2, <1>6 DEF StatesFit, Onward
  <2>3. J'.mode = "repair" /\ ~Rolling' /\ J'.status = "committed"
    BY <1>1 DEF Rolling
  <2> HIDE DEF Mixed, OnPair, Unset, Rolling
  <2> QED
    BY <2>1, <2>2, <2>3 DEF StatesFit, Waiting
<1>7. Isolated'
  BY <1>1 DEF Isolated
<1> QED
  BY <1>3, <1>4, <1>5, <1>6, <1>7 DEF UnitsFit

LEMMA RestoreRepairUnits == Fits /\ UnitsFit /\ RestoreRepairStep => UnitsFit'
<1> SUFFICES ASSUME Fits, UnitsFit, RestoreRepairStep PROVE UnitsFit'
  OBVIOUS
<1> DEFINE u == First(h.todo)
<1>1. /\ h.cmd = "restore-repair" /\ h.cmd # "none" /\ inst' = inst /\ Typed
      /\ UNCHANGED <<J, ptr, touched>>
  BY DEF RestoreRepairStep, Fits, users
<1>2. CASE /\ UNCHANGED unit
           /\ Fail \/ GotoWith("disable", Retained) \/ (Return /\ \A w \in Retained : AsBefore(w))
  <2>1. /\ h'.cmd = h.cmd
        /\ h'.pc = "returned" => \A w \in Retained : AsBefore(w)
    BY <1>1, <1>2, Acting DEF Fail, GotoWith, Return, Goto
  <2>2. Unmoved
    BY <1>1, <1>2 DEF Unmoved, Rows, Kept, Arms
  <2>3. h'.pc = "returned" => RetainedAsBefore'
    BY <2>1, <2>2, UnitParts DEF RetainedAsBefore
  <2> QED
    BY <1>1, <2>1, <2>2, <2>3, UnitParts, RepairingUnits
<1>3. ASSUME h.pc \in {"disable", "enable", "run"}, h.todo # {},
             \/ unit' = unit
             \/ \E b \in BOOLEAN : unit' = Enabled(u, b)
             \/ unit' \in {Stopped(u), Started(u)},
             Goto("enable") \/ Goto("run") \/ GotoWith("disable", h.todo \ {u})
      PROVE  UnitsFit'
  <2>1. u \in Units
    <3>1. h.todo \subseteq J.inventory
      BY <1>3 DEF Typed, TodoFits, Fits
    <3> QED
      BY <1>1, <1>3, <3>1, Picked, UnitSets
  <2>2. h'.cmd = h.cmd /\ h'.pc # "returned"
    BY <1>1, <1>3, Acting DEF Goto, GotoWith
  <2>3. Kept /\ Arms /\ Rows
    BY <1>1 DEF Rows, Kept, Arms
  <2>4. CASE unit' = unit
    <3>1. Unmoved
      BY <1>1, <2>3, <2>4 DEF Unmoved
    <3> QED
      BY <1>1, <2>2, <3>1, UnitParts, RepairingUnits
  <2>5. CASE \E b \in BOOLEAN : unit' = Enabled(u, b)
    <3>1. PICK b \in BOOLEAN : unit' = Enabled(u, b)
      BY <2>5
    <3>2. /\ \A w \in Units \ {u} : unit'[w] = unit[w]
          /\ unit'[u].act = unit[u].act /\ unit'[u].runs = unit[u].runs
          /\ unit'[u].stuck = unit[u].stuck
      BY <1>1, <2>1, <3>1, EnabledChanges
    <3>3. OnPair /\ u \in Own => (unit[u].act = "active" => unit[u].runs = Pair \/ unit[u].stuck)
      BY DEF OnPair
    <3>4. OnPair => OnPair'
      BY <1>1, <2>1, <2>3, <3>2, <3>3, OneUnitParts
    <3> QED
      BY <1>1, <2>2, <3>4, RepairingUnits
  <2>6. CASE unit' \in {Stopped(u), Started(u)}
    <3>1. /\ \A w \in Units \ {u} : unit'[w] = unit[w]
          /\ unit'[u].act = "active" => unit'[u].runs = Pair
      BY <1>1, <2>1, <2>6, UnitChanges
    <3>2. OnPair => OnPair'
      BY <1>1, <2>1, <2>3, <3>1, OneUnitParts
    <3> QED
      BY <1>1, <2>2, <3>2, RepairingUnits
  <2> QED
    BY <1>3, <2>4, <2>5, <2>6
<1>4. CASE h.pc \in {"enable", "run"}
  <2>1. h.todo # {} /\ (u \in Units => J.units[u].enabled \in BOOLEAN)
    BY <1>1, <1>4 DEF Typed, TodoFits, JournalTyped, Journal, UnitState
  <2>2. u \in Units
    <3>1. h.todo \subseteq J.inventory
      BY <1>4 DEF Typed, TodoFits, Fits
    <3> QED
      BY <1>1, <2>1, <3>1, Picked, UnitSets
  <2>3. CASE h.pc = "enable"
    BY <1>3, <2>1, <2>2, <2>3 DEF RestoreRepairStep
  <2>4. CASE h.pc = "run"
    BY <1>3, <2>1, <2>4 DEF RestoreRepairStep
  <2> QED
    BY <1>4, <2>3, <2>4
<1>5. CASE h.pc = "disable" /\ h.todo # {}
  BY <1>3, <1>5 DEF RestoreRepairStep
<1>6. CASE h.pc = "start" \/ (h.pc = "disable" /\ h.todo = {})
  BY <1>2, <1>6 DEF RestoreRepairStep
<1> QED
  BY <1>4, <1>5, <1>6 DEF RestoreRepairStep

(* A repair is complete only once its retained units are as before.        *)
LEMMA CompletingUnits ==
  ASSUME Fits, UnitsFit, h.cmd \in {"complete", "recover"}, inst' = inst, h'.cmd = h.cmd, Unmoved,
         J'.stopping = J.stopping, J'.disabled = J.disabled, J.status = "committed",
         J'.status = J.status, J'.complete = J.complete \/ J'.complete,
         h.cmd = "recover" => J.complete, h'.pc \in {"unlock", "clear"}
  PROVE  UnitsFit'
<1>0. /\ Typed /\ RowsFit /\ RepairFits /\ (Calm => StatesFit)
      /\ inst.at \in {"complete", "complete again", "recover"}
      /\ h.cmd = "complete" => inst.at \in {"complete", "complete again"}
  BY Acting DEF Fits, UnitsFit, CommandOf
<1>1. RowsFit'
  BY <1>0, UnitParts DEF RowsFit, Unmoved, Rows, Kept
<1>2. WorkFits'
  BY DEF WorkFits, Rolling, Restoring
<1>3. RepairFits'
  <2>1. Calm /\ J.mode = "repair" => RetainedAsBefore
    BY <1>0 DEF RepairFits, Configured
  <2> QED
    BY <1>0, <2>1, UnitParts DEF RepairFits, Unmoved, Kept
<1>4. ASSUME Calm' PROVE StatesFit'
  <2>1. (Unset' /\ Mixed' => Quiet') /\ (Unset' /\ J'.stopping => OnPair')
    BY <1>0, <1>4, UnitParts DEF StatesFit, Onward
  <2>2. J.mode # "repair" => AllAsBefore'
    BY <1>0, <1>4, UnitParts DEF StatesFit
  <2>3. J'.mode = J.mode /\ J'.status = "committed" /\ h'.pc \notin Halted \cup {"halt", "finish"}
    BY DEF Unmoved, Kept, Halted
  <2> HIDE DEF Mixed, OnPair, Unset, Quiet
  <2> QED
    BY <2>1, <2>2, <2>3 DEF StatesFit, Waiting
<1>5. Isolated'
  BY DEF Isolated
<1> QED
  BY <1>1, <1>2, <1>3, <1>4, <1>5 DEF UnitsFit

LEMMA CompleteUnits == Fits /\ UnitsFit /\ CompleteStep => UnitsFit'
<1> SUFFICES ASSUME Fits, UnitsFit, CompleteStep PROVE UnitsFit'
  OBVIOUS
<1>1. /\ h.cmd \in {"complete", "recover"} /\ h.cmd # "none" /\ inst' = inst /\ Typed
      /\ J \in Journal /\ UNCHANGED <<unit, ptr, touched>>
      /\ h.pc \in {"start", "complete", "clear"} /\ (h.cmd = "recover" => h.pc # "start")
  BY DEF CompleteStep, At, Fits, users, Typed, JournalTyped
<1>2. (h.pc = "clear" => J.complete /\ J.status = "committed") /\ (h.pc = "complete" => J.complete)
  BY DEF Fits, LockFits, StatusFits, Mid
<1>3. CASE Fail /\ UNCHANGED J
  <2>1. h'.cmd = h.cmd /\ h'.pc = "failed"
    BY <1>1, <1>3, GotoTyped DEF Fail, Places
  <2>2. Unmoved /\ Held /\ J'.status = J.status
    BY <1>1, <1>3 DEF Unmoved, Held, Rows, Kept, Arms
  <2> QED
    BY <1>1, <2>1, <2>2, EndUnits
<1>4. CASE /\ J.status = "committed"
           /\ \/ UNCHANGED J /\ Goto("unlock")
              \/ Save([J EXCEPT !.complete = TRUE]) /\ Goto("clear")
  <2>1. h'.cmd = h.cmd /\ h'.pc \in {"unlock", "clear"}
    BY <1>1, <1>4, GotoTyped DEF Places
  <2>2. /\ Unmoved /\ J'.stopping = J.stopping /\ J'.disabled = J.disabled
        /\ J'.status = J.status /\ (J'.complete = J.complete \/ J'.complete)
    BY <1>1, <1>4 DEF Save, Unmoved, Rows, Kept, Arms, Journal
  <2>3. h.cmd = "recover" => J.complete
    BY <1>1, <1>2
  <2> QED
    BY <1>1, <1>4, <2>1, <2>2, <2>3, CompletingUnits
<1>5. CASE h.pc \in {"start", "complete"}
  BY <1>3, <1>4, <1>5 DEF CompleteStep
<1>6. CASE h.pc = "clear"
  BY <1>2, <1>3, <1>4, <1>6 DEF CompleteStep, At
<1> QED
  BY <1>1, <1>5, <1>6

(* A rollback.  A step of it that is not about the units, first.           *)
LEMMA AsideUnits ==
  ASSUME Fits, UnitsFit, inst' = inst, h'.cmd = h.cmd, Unmoved, Held, J'.status = J.status,
         h.cmd \in {"recover", "rollback"}, h'.pc \notin Halted \cup Resuming \cup {"halt"},
         h.cmd = "recover" /\ h'.pc = "returned" => marker' = 0 \/ PendingRepair
  PROVE  UnitsFit'
<1>1. WorkFits'
  BY WorkIf DEF Resuming
<1>2. ASSUME Calm PROVE StatesFit'
  <2>1. StatesFit
    BY <1>2 DEF UnitsFit
  <2>2. Tame => Tame'
    BY UnitParts
  <2> HIDE DEF Tame, Mixed, OnPair, Unset, Quiet
  <2> QED
    BY <2>1, <2>2, UnitParts DEF StatesFit, Unmoved, Kept, Held, Resuming
<1> QED
  BY <1>1, <1>2, FlowUnits

(* The units stay as they are from the moment they were halted.            *)
LEMMA HaltedUnits ==
  ASSUME Fits, UnitsFit, inst' = inst, h'.cmd = h.cmd, Unmoved, Held, J'.status = J.status,
         Rolling, h.pc \in Halted, h'.pc \in Halted
  PROVE  UnitsFit'
<1>1. WorkFits'
  BY WorkIf DEF Halted, Rolling
<1>2. ASSUME Calm PROVE StatesFit'
  <2>1. StatesFit /\ J.status = "rolling-back"
    BY <1>2 DEF UnitsFit, Fits, StatusFits, Mid, Halted, Putting
  <2>2. Tame => Tame'
    BY UnitParts
  <2> HIDE DEF Tame, Mixed, OnPair, Unset, Quiet
  <2> QED
    BY <2>1, <2>2, UnitParts DEF StatesFit, Unmoved, Kept, Held, Halted, Resuming, Waiting, Onward
<1> QED
  BY <1>1, <1>2, FlowUnits DEF Rolling, Halted

LEMMA RecoverStartUnits ==
  /\ Fits /\ UnitsFit /\ RecoverStart => UnitsFit'
  /\ Fits /\ UnitsFit /\ RollbackStart => UnitsFit'
<1>1. ASSUME Fits, UnitsFit, RecoverStart \/ RollbackStart PROVE UnitsFit'
  <2>1. /\ h.cmd \in {"recover", "rollback"} /\ h.cmd # "none" /\ inst' = inst /\ Typed
        /\ UNCHANGED <<J, unit, ptr, touched, marker>>
    BY <1>1 DEF RecoverStart, RollbackStart, At, Fits, users, world
  <2>2. /\ h'.cmd = h.cmd /\ h'.pc \in {"returned", "complete", "roll", "unlock"}
        /\ h.cmd = "recover" /\ h'.pc = "returned" => ~locked \/ PendingRepair
    BY <1>1, <2>1, Acting DEF RecoverStart, RollbackStart, At, Return, Goto
  <2>3. ~locked => marker = 0
    BY <1>1 DEF Fits, LockFits
  <2>4. Unmoved /\ Held /\ J'.status = J.status
    BY <2>1 DEF Unmoved, Held, Rows, Kept, Arms
  <2>5. h'.pc \notin Halted \cup Resuming \cup {"halt"}
    BY <2>2 DEF Halted, Resuming
  <2> QED
    BY <1>1, <2>1, <2>2, <2>3, <2>4, <2>5, AsideUnits
<1> QED
  BY <1>1

LEMMA RollUnits == Fits /\ UnitsFit /\ RollStart => UnitsFit'
<1> SUFFICES ASSUME Fits, UnitsFit, RollStart PROVE UnitsFit'
  OBVIOUS
<1>1. /\ h.cmd \in {"recover", "rollback"} /\ h.cmd # "none" /\ h.pc = "roll" /\ inst' = inst
      /\ Typed /\ J \in Journal /\ UNCHANGED <<unit, ptr, touched>>
      /\ J.status \notin Terminal /\ J.id # 0 /\ inst.at = h.cmd
      /\ RowsFit /\ RepairFits /\ (Calm => StatesFit) /\ Isolated
  BY Acting DEF RollStart, Rolling, Fits, StatusFits, Mid, Terminal, CommandOf, world, users, UnitsFit,
     Typed, JournalTyped
<1>2. /\ h'.cmd = h.cmd /\ h'.pc = "halt" /\ h'.todo = IF J.stopping THEN J.inventory ELSE {}
  BY <1>1, Acting DEF RollStart, GotoWith
<1>3. Unmoved /\ Held /\ J'.status = "rolling-back"
  BY <1>1 DEF RollStart, Save, Unmoved, Held, Rows, Kept, Arms, Journal
<1>4. RowsFit'
  BY <1>1, <1>3, UnitParts DEF RowsFit, Unmoved, Held, Rows, Kept, Waiting, Onward
<1>5. WorkFits'
  BY <1>1, <1>2, WorkIf
<1>6. RepairFits'
  BY <1>1, <1>2, <1>3 DEF RepairFits
<1>7. ASSUME Calm' PROVE StatesFit'
  <2>1. StatesFit
    BY <1>1, <1>3, <1>7, UnitParts
  <2>2. Tame
    <3>1. CASE J.status = "preparing"
      BY <1>1, <3>1 DEF RowsFit, Tame, Own
    <3> QED
      BY <1>1, <2>1, <3>1 DEF StatesFit, Terminal
  <2>3. (Unset' /\ Mixed' => Quiet') /\ Tame'
    BY <1>3, <2>1, <2>2, UnitParts DEF StatesFit
  <2>4. J'.stopping => Own' \ h'.todo = {}
    BY <1>2, <1>3 DEF Own, Unmoved, Held, Rows
  <2> HIDE DEF Tame, Mixed, OnPair, Unset, Quiet, Own
  <2> QED
    BY <1>2, <1>3, <2>3, <2>4 DEF StatesFit, Waiting, Onward, Halted, Resuming
<1>8. Isolated'
  BY <1>1, <1>3, UnitParts DEF Isolated, Waiting, Unmoved, Kept, Terminal
<1> QED
  BY <1>4, <1>5, <1>6, <1>7, <1>8 DEF UnitsFit

(* One unit after the other is halted; one that is not as the update knows *)
(* it was changed by somebody else.                                        *)
LEMMA HaltingUnits ==
  ASSUME Fits, UnitsFit, Rolling, h.pc = "halt", inst' = inst, UNCHANGED <<J, ptr>>,
         touched' = touched, NEW u \in h.todo,
         h'.cmd = h.cmd, h'.pc = "halt", h'.todo = h.todo \ {u},
         \A w \in Units \ {u} : unit'[w] = unit[w],
         unit'[u] = unit[u]
         \/ /\ u \in WasActive /\ unit'[u].enabled = unit[u].enabled
            /\ unit'[u].act # "active" \/ (unit'[u].act = unit[u].act /\ unit'[u].stuck),
         u \in Own /\ Tame => (unit'[u].act = "active" => unit'[u].stuck)
  PROVE  UnitsFit'
<1>0. /\ Typed /\ RowsFit /\ (Calm => StatesFit) /\ Isolated /\ J.status = "rolling-back"
      /\ h.cmd \in {"recover", "rollback"}
  BY DEF Fits, UnitsFit, StatusFits, Mid, Rolling
<1>1. Kept /\ Arms /\ Rows /\ Held
  BY DEF Kept, Arms, Rows, Held
<1>2. u \in Units
  BY <1>0, UnitSets DEF Typed, TodoFits
<1>3. /\ Own' = Own /\ WasActive' = WasActive /\ WasEnabled' = WasEnabled
      /\ (Calm' <=> Calm) /\ (Unset' <=> Unset) /\ (Armed' <=> Armed) /\ (Mixed' <=> Mixed)
      /\ Own \subseteq Units
  BY <1>0, <1>1, <1>2, OneUnitParts, UnitSets DEF Own
<1>4. /\ (Quiet => Quiet') /\ (AllOff => AllOff')
  <2>1. (Quiet /\ u \in Own => Rests(u))
        /\ (AllOff /\ u \in Own => unit[u].act # "active" /\ ~unit[u].enabled)
    BY DEF Quiet, Rests, AllOff
  <2>2. Rests(u) => Rests(u)'
    BY DEF Rests
  <2> QED
    BY <1>0, <1>1, <1>2, <2>1, <2>2, OneUnitParts
<1>5. Tame => Tame'
  <2>1. ASSUME Tame, u \in Own
        PROVE  EnableAllowed(u) /\ (u \notin WasActive => unit[u].act = J.units[u].act)
    BY <2>1 DEF Tame
  <2> QED
    BY <1>0, <1>1, <1>2, <2>1, OneUnitParts DEF EnableAllowed
<1>6. RowsFit'
  BY <1>0, <1>3 DEF RowsFit
<1>7. WorkFits'
  BY <1>0, WorkIf
<1>8. RepairFits'
  BY <1>0, <1>1, RepairKept
<1>9. ASSUME Calm' PROVE StatesFit'
  <2>1. StatesFit /\ Tame /\ Tame'
    BY <1>0, <1>3, <1>5, <1>9 DEF StatesFit
  <2>2. J'.stopping =>
          \A w \in Own' \ h'.todo : unit'[w].act = "active" => unit'[w].stuck
    <3>1. J.stopping => \A w \in Own \ h.todo : unit[w].act = "active" => unit[w].stuck
      BY <1>0, <2>1 DEF StatesFit
    <3> QED
      BY <1>3, <2>1, <3>1 DEF Rests
  <2>3. Unset' /\ Mixed' => Quiet'
    BY <1>3, <1>4, <2>1 DEF StatesFit
  <2> HIDE DEF Tame, Mixed, OnPair, Unset, Quiet, Own
  <2> QED
    BY <1>0, <2>1, <2>2, <2>3 DEF StatesFit, Waiting, Onward, Halted, Resuming
<1>10. Isolated'
  BY <1>0, <1>3, <1>4 DEF Isolated
<1> QED
  BY <1>6, <1>7, <1>8, <1>9, <1>10 DEF UnitsFit

LEMMA HaltUnits == Fits /\ UnitsFit /\ HaltStep => UnitsFit'
<1> SUFFICES ASSUME Fits, UnitsFit, HaltStep PROVE UnitsFit'
  OBVIOUS
<1> DEFINE u == First(h.todo)
<1>1. /\ h.cmd \in {"recover", "rollback"} /\ h.cmd # "none" /\ h.pc = "halt" /\ inst' = inst
      /\ Rolling /\ Typed /\ UNCHANGED <<J, ptr>> /\ touched' = touched
      /\ J.status = "rolling-back"
  BY DEF HaltStep, Rolling, Fits, users, StatusFits, Mid
<1>2. CASE h.todo # {}
  <2>1. u \in h.todo /\ u \in J.inventory /\ u \in Units
    <3>1. h.todo \subseteq J.inventory
      BY <1>1 DEF Typed, TodoFits
    <3> QED
      BY <1>1, <1>2, <3>1, Picked, UnitSets
  <2>2. h'.cmd = h.cmd /\ h'.pc = "halt" /\ h'.todo = h.todo \ {u}
    <3>1. Done(u) \/ Spoil(u)
      BY <1>2 DEF HaltStep
    <3> QED
      BY <1>1, <3>1, DoneTyped
  <2>3. /\ \A w \in Units \ {u} : unit'[w] = unit[w]
        /\ unit' = unit \/ (u \in WasActive /\ unit'[u].act # "active"
                            /\ unit'[u].enabled = unit[u].enabled)
    BY <1>1, <1>2, <2>1, UnitChanges DEF HaltStep
  <2>4. ASSUME u \in Own, Tame PROVE unit'[u].act = "active" => unit'[u].stuck
    <3>1. EnableAllowed(u) /\ (u \notin WasActive => unit[u].act = J.units[u].act)
      BY <2>4 DEF Tame
    <3>2. CASE u \in WasActive
      <4>1. unit' = IF unit[u].act = "inactive" THEN unit ELSE Stopped(u)
        BY <1>2, <3>1, <3>2 DEF HaltStep
      <4> QED
        BY <1>1, <2>1, <4>1, UnitChanges
    <3>3. CASE u \notin WasActive
      <4>1. unit' = unit
        BY <1>2, <3>1, <3>3 DEF HaltStep
      <4> QED
        BY <2>1, <3>1, <3>3, <4>1 DEF WasActive
    <3> QED
      BY <3>2, <3>3
  <2> HIDE DEF u
  <2> QED
    BY <1>1, <2>1, <2>2, <2>3, <2>4, HaltingUnits
<1>3. CASE h.todo = {}
  <2>1. Unmoved /\ Held /\ J'.status = J.status
    BY <1>1, <1>3 DEF HaltStep, Unmoved, Held, Rows, Kept, Arms
  <2>2. h'.cmd = h.cmd /\ h'.pc \in {"files", "back"}
    BY <1>1, <1>3, Acting DEF HaltStep, GotoWith
  <2>3. WorkFits'
    BY <1>1, <2>2, WorkIf
  <2>4. ASSUME Calm PROVE StatesFit'
    <3>1. StatesFit
      BY <2>4 DEF UnitsFit
    <3>2. J.stopping => Quiet
      BY <1>1, <1>3, <3>1 DEF StatesFit, Quiet
    <3>3. Tame' /\ (Unset' /\ Mixed' => Quiet') /\ (J'.stopping => Quiet')
      BY <1>1, <2>1, <3>1, <3>2, UnitParts DEF StatesFit
    <3> HIDE DEF Tame, Mixed, OnPair, Unset, Quiet
    <3> QED
      BY <1>1, <2>1, <2>2, <3>3 DEF StatesFit, Waiting, Onward, Resuming
  <2> QED
    BY <1>1, <2>1, <2>2, <2>3, <2>4, FlowUnits
<1> QED
  BY <1>2, <1>3

(* The pointers go back while nothing runs.                                *)
LEMMA BackingUnits ==
  ASSUME Fits, UnitsFit, Rolling, h.pc = "back", inst' = inst, h'.cmd = h.cmd,
         h'.pc \in {"back", "artifacts"}, Kept, Rows, Held, J'.status = J.status,
         UNCHANGED <<unit, touched>>, Armed' => Armed, ptr' = ptr \/ Armed
  PROVE  UnitsFit'
<1>0. /\ Typed /\ RowsFit /\ (Calm => StatesFit) /\ Isolated /\ J.status = "rolling-back"
      /\ h.cmd \in {"recover", "rollback"} /\ J.id # 0
  BY DEF Fits, UnitsFit, StatusFits, Mid, Rolling
<1>1. RowsFit'
  BY <1>0, PointerParts DEF RowsFit, Held, Rows, Kept, Waiting, Onward
<1>2. WorkFits'
  BY <1>0, WorkIf
<1>3. RepairFits'
  BY <1>0, RepairKept
<1>4. ASSUME Calm' PROVE StatesFit'
  <2>1. StatesFit
    BY <1>0, <1>4, PointerParts
  <2>2. (J.stopping => Quiet) /\ Tame
    BY <1>0, <2>1 DEF StatesFit, Halted
  <2>3. Unset' /\ Mixed' => Quiet'
    <3>1. CASE ptr' = ptr
      <4>1. Mixed' <=> Mixed
        BY <3>1, TargetKept DEF Mixed, Kept
      <4> QED
        BY <2>1, <4>1, PointerParts DEF StatesFit
    <3>2. CASE Armed
      <4>1. J.stopping \/ Own = {}
        BY <1>0, <3>2 DEF RowsFit, Own
      <4> QED
        BY <2>2, <4>1, PointerParts DEF Quiet
    <3> QED
      BY <3>1, <3>2
  <2>4. Tame' /\ (J'.stopping => Quiet')
    BY <2>2, PointerParts DEF Held
  <2> HIDE DEF Tame, Mixed, OnPair, Unset, Quiet
  <2> QED
    BY <1>0, <2>3, <2>4 DEF StatesFit, Waiting, Onward, Resuming
<1>5. Isolated'
  BY <1>0, PointerParts DEF Isolated, Kept, Waiting
<1> QED
  BY <1>1, <1>2, <1>3, <1>4, <1>5 DEF UnitsFit

LEMMA BackUnits == Fits /\ UnitsFit /\ BackStep => UnitsFit'
<1> SUFFICES ASSUME Fits, UnitsFit, BackStep PROVE UnitsFit'
  OBVIOUS
<1> DEFINE p == BackPointer
<1>1. /\ Rolling /\ h.cmd # "none" /\ h.pc = "back" /\ inst' = inst /\ Typed /\ J \in Journal
      /\ UNCHANGED <<unit, touched>>
  BY DEF BackStep, Rolling, Fits, users, Typed, JournalTyped
<1>2. /\ h'.cmd = h.cmd /\ h'.pc \in {"back", "artifacts"}
  BY <1>1, Acting DEF BackStep, Done, Spoil, GotoWith
<1>3. CASE UNCHANGED J /\ (ptr' = ptr \/ Armed)
  <2>1. Kept /\ Rows /\ Held /\ J'.status = J.status /\ (Armed' => Armed)
    BY <1>3 DEF Kept, Rows, Held, Armed
  <2> QED
    BY <1>1, <1>2, <1>3, <2>1, BackingUnits
<1>4. CASE Save([J EXCEPT !.armed[p] = FALSE, !.back[p] = TRUE]) /\ ptr' = ptr
  <2>1. Kept /\ Rows /\ Held /\ J'.status = J.status
    BY <1>1, <1>4 DEF Save, Kept, Rows, Held, Journal
  <2>2. Armed' => Armed
    BY <1>1, <1>4 DEF Save, Armed, Journal
  <2> QED
    BY <1>1, <1>2, <1>4, <2>1, <2>2, BackingUnits
<1>5. J.armed[p] => Armed
  BY DEF Armed, BackPointer, Pointers
<1> QED
  BY <1>3, <1>4, <1>5 DEF BackStep

(* The rest of the way back to the units.                                  *)
LEMMA PuttingUnits ==
  /\ Fits /\ UnitsFit /\ Rolling /\ RemovalStep => UnitsFit'
  /\ Fits /\ UnitsFit /\ FilesStep => UnitsFit'
  /\ Fits /\ UnitsFit /\ MarkerStep => UnitsFit'
<1>1. ASSUME Fits, UnitsFit, Rolling, RemovalStep PROVE UnitsFit'
  <2>1. /\ h.cmd # "none" /\ inst' = inst /\ Typed /\ J \in Journal /\ UNCHANGED <<unit, ptr, touched>>
        /\ h.pc \in {"artifacts", "removing"}
    BY <1>1 DEF RemovalStep, Rolling, Fits, users, Typed, JournalTyped
  <2>2. h'.cmd = h.cmd /\ h'.pc \in {"artifacts", "removing"}
    BY <1>1, <2>1, Acting DEF RemovalStep, ResumeReservation, RemoveArtifact, RemoveFails, Goto
  <2>3. \/ J' = J
        \/ \E k \in Artifacts :
             \/ J' = [J EXCEPT !.art[k].reserving = FALSE, !.art[k].created = TRUE]
             \/ J' = [J EXCEPT !.art[k].reserving = FALSE, !.art[k].cleaned = TRUE]
             \/ J' = [J EXCEPT !.art[k].moving = TRUE]
             \/ J' = Cleaned(J, k)
    <3> DEFINE k == NextArtifact
    <3>1. k \in Artifacts
      BY DEF NextArtifact, Artifacts
    <3>2. CASE ResumeReservation(k)
      BY <3>1, <3>2 DEF ResumeReservation, Save
    <3>3. CASE RemoveArtifact(k)
      BY <3>1, <3>3 DEF RemoveArtifact, RemoveFails, Save
    <3> QED
      BY <1>1, <3>2, <3>3 DEF RemovalStep
  <2>4. Unmoved /\ Held /\ J'.status = J.status
    <3>1. CASE J' = J
      BY <2>1, <3>1 DEF Unmoved, Held, Rows, Kept, Arms
    <3>2. ASSUME NEW k \in Artifacts,
                 \/ J' = [J EXCEPT !.art[k].reserving = FALSE, !.art[k].created = TRUE]
                 \/ J' = [J EXCEPT !.art[k].reserving = FALSE, !.art[k].cleaned = TRUE]
                 \/ J' = [J EXCEPT !.art[k].moving = TRUE]
                 \/ J' = Cleaned(J, k)
          PROVE  Unmoved /\ Held /\ J'.status = J.status
      BY <2>1, <3>2 DEF Cleaned, Unmoved, Held, Rows, Kept, Arms, Journal
    <3> QED
      BY <2>3, <3>1, <3>2
  <2> QED
    BY <1>1, <2>1, <2>2, <2>4, HaltedUnits DEF Halted
<1>2. ASSUME Fits, UnitsFit, FilesStep PROVE UnitsFit'
  <2>1. /\ h.cmd # "none" /\ inst' = inst /\ Typed /\ UNCHANGED <<J, unit, ptr, touched>>
        /\ Rolling /\ h.pc = "artifacts"
    BY <1>2 DEF FilesStep, Rolling, Fits, users, world
  <2>2. h'.cmd = h.cmd /\ h'.pc = "files"
    BY <1>2, <2>1, GotoTyped DEF FilesStep, Places
  <2>3. Unmoved /\ Held /\ J'.status = J.status
    BY <2>1 DEF Unmoved, Held, Rows, Kept, Arms
  <2> QED
    BY <1>2, <2>1, <2>2, <2>3, HaltedUnits DEF Halted
<1>3. ASSUME Fits, UnitsFit, MarkerStep PROVE UnitsFit'
  <2>1. /\ h.cmd # "none" /\ inst' = inst /\ Typed /\ UNCHANGED <<J, unit, ptr, touched>>
        /\ Rolling /\ h.pc = "files"
    BY <1>3 DEF MarkerStep, Rolling, Fits, users
  <2>2. h'.cmd = h.cmd /\ h'.pc = "resume"
    BY <1>3, <2>1, Acting DEF MarkerStep
  <2>3. Unmoved /\ Held /\ J'.status = J.status
    BY <2>1 DEF Unmoved, Held, Rows, Kept, Arms
  <2> QED
    BY <1>3, <2>1, <2>2, <2>3, HaltedUnits DEF Halted
<1> QED
  BY <1>1, <1>2, <1>3

LEMMA ResumeUnits == Fits /\ UnitsFit /\ ResumeStep => UnitsFit'
<1> SUFFICES ASSUME Fits, UnitsFit, ResumeStep PROVE UnitsFit'
  OBVIOUS
<1>1. /\ h.cmd \in {"recover", "rollback"} /\ h.cmd # "none" /\ inst' = inst /\ Typed
      /\ UNCHANGED <<J, unit, ptr, touched>> /\ Rolling /\ h.pc = "resume"
      /\ J.status = "rolling-back"
  BY DEF ResumeStep, Rolling, Fits, users, world, StatusFits, Mid, Putting
<1>2. /\ h'.cmd = h.cmd /\ h'.pc \in {"units", "finish"}
      /\ h'.pc = "units" => J.stopping /\ ~h'.err
      /\ h'.pc = "finish" /\ ~h'.err => \A u \in J.inventory : AsBefore(u)
  <2>1. CASE J.stopping /\ ~h.err /\ CriticalStateHolds
    BY <1>1, <2>1, Acting DEF ResumeStep, GotoWith
  <2>2. CASE J.stopping /\ ~(~h.err /\ CriticalStateHolds)
    BY <1>1, <2>2, Acting DEF ResumeStep
  <2>3. CASE ~J.stopping
    BY <1>1, <2>3, Acting DEF ResumeStep
  <2> QED
    BY <2>1, <2>2, <2>3
<1>3. Unmoved /\ Held /\ J'.status = J.status
  BY <1>1 DEF Unmoved, Held, Rows, Kept, Arms
<1>4. WorkFits'
  BY <1>1, <1>2, WorkIf
<1>5. ASSUME Calm PROVE StatesFit'
  <2>1. StatesFit
    BY <1>5 DEF UnitsFit
  <2>2. J.stopping => OnPair
    BY <1>1, <2>1 DEF StatesFit, Halted, Quiet, OnPair
  <2>3. Tame' /\ (Unset' /\ Mixed' => Quiet') /\ (J'.stopping => OnPair')
    BY <1>1, <1>3, <2>1, <2>2, UnitParts DEF StatesFit
  <2>4. h'.pc = "finish" /\ ~h'.err => AllAsBefore'
    <3>1. h'.pc = "finish" /\ ~h'.err => AllAsBefore
      BY <1>2 DEF AllAsBefore, Own
    <3> QED
      BY <1>3, <3>1, UnitParts
  <2> HIDE DEF Tame, Mixed, OnPair, Unset, Quiet, AllAsBefore
  <2> QED
    BY <1>1, <1>2, <2>3, <2>4 DEF StatesFit, Waiting, Halted
<1> QED
  BY <1>1, <1>2, <1>3, <1>4, <1>5, FlowUnits

LEMMA FinishUnits == Fits /\ UnitsFit /\ FinishStep => UnitsFit'
<1> SUFFICES ASSUME Fits, UnitsFit, FinishStep PROVE UnitsFit'
  OBVIOUS
<1>1. /\ h.cmd \in {"recover", "rollback"} /\ h.cmd # "none" /\ inst' = inst /\ Typed
      /\ J \in Journal /\ UNCHANGED <<unit, ptr, touched>> /\ Rolling /\ h.pc = "finish"
      /\ J.status \in {"rolling-back", "services-restored"} /\ J.id # 0 /\ inst.at = h.cmd
      /\ RowsFit /\ RepairFits /\ (Calm => StatesFit) /\ (~h.err => ~Armed)
  BY Acting DEF FinishStep, Rolling, Fits, users, world, StatusFits, Mid, Typed, JournalTyped,
     CommandOf, UnitsFit, PtrFits, Disarmed, Armed
<1>2. CASE h.err
  <2>1. h'.cmd = h.cmd /\ h'.pc = "failed"
    BY <1>1, <1>2, GotoTyped DEF FinishStep, Fail, Places
  <2>2. Unmoved /\ Held /\ J'.status = "rollback-failed"
    BY <1>1, <1>2 DEF FinishStep, Save, Unmoved, Held, Rows, Kept, Arms, Journal
  <2> QED
    BY <1>1, <2>1, <2>2, EndUnits
<1>3. CASE ~h.err
  <2>1. h'.cmd = h.cmd /\ h'.pc = "unlock"
    BY <1>1, <1>3, GotoTyped DEF FinishStep, Places
  <2>2. Unmoved /\ Held /\ J'.status = "rolled-back"
    BY <1>1, <1>3 DEF FinishStep, Save, Unmoved, Held, Rows, Kept, Arms, Journal
  <2>3. RowsFit'
    BY <1>1, <1>3, <2>2, UnitParts DEF RowsFit, Unmoved, Held, Rows, Kept, Waiting, Onward
  <2>4. WorkFits'
    BY <1>1, <2>1, WorkIf
  <2>5. RepairFits'
    BY <1>1, <2>1, <2>2 DEF RepairFits
  <2>6. ASSUME Calm' PROVE StatesFit'
    <3>1. StatesFit
      BY <1>1, <2>2, <2>6, UnitParts
    <3>2. /\ Tame' /\ AllAsBefore' /\ (Unset' /\ Mixed' => Quiet')
          /\ (Unset' /\ J'.stopping => OnPair')
      BY <1>1, <1>3, <2>2, <3>1, UnitParts DEF StatesFit, Held, Resuming
    <3> HIDE DEF Tame, Mixed, OnPair, Unset, Quiet, AllAsBefore
    <3> QED
      BY <2>1, <2>2, <3>2 DEF StatesFit, Waiting, Halted
  <2>7. Isolated'
    BY <1>1, <1>3, <2>2, UnitParts DEF Isolated, Waiting
  <2> QED
    BY <2>3, <2>4, <2>5, <2>6, <2>7 DEF UnitsFit
<1> QED
  BY <1>2, <1>3

-----------------------------------------------------------------------------
(* The installer: what it does after a command.                            *)
LEMMA NextOfRepair ==
  ASSUME Fits, UnitsFit
  PROVE  /\ h.pc = "returned" =>
              /\ Following(inst.at) \in {"configure", "restore-repair"} => PendingRepair
              /\ Following(inst.at) \in {"complete", "complete again"} => h.cmd = "restore-repair"
         /\ AfterFailure(inst.at) \in {"configure", "restore-repair"} => PendingRepair
         /\ AfterFailure(inst.at) \in {"complete", "complete again"} => inst.at = "complete"
<1>1. ASSUME h.pc = "returned"
      PROVE  /\ Following(inst.at) \in {"configure", "restore-repair"} => PendingRepair
             /\ Following(inst.at) \in {"complete", "complete again"} => h.cmd = "restore-repair"
  <2>1. /\ h.cmd = CommandOf(inst.at)
    BY <1>1, Active1, Acting DEF Fits
  <2>2. /\ h.cmd = "commit-repair" => PendingRepair
        /\ h.cmd = "recover" /\ marker # 0 => PendingRepair
    BY <1>1 DEF UnitsFit, RepairFits
  <2>3. /\ Following(inst.at) \in {"configure", "restore-repair"} =>
             inst.at = "commit-repair" \/ (inst.at = "recover" /\ marker # 0)
        /\ Following(inst.at) \in {"complete", "complete again"} => inst.at = "restore-repair"
    BY DEF Following
  <2> QED
    BY <2>1, <2>2, <2>3 DEF CommandOf
<1>2. /\ AfterFailure(inst.at) \in {"configure", "restore-repair"} =>
           Postcondition = "configuration-pending"
      /\ AfterFailure(inst.at) \in {"complete", "complete again"} => inst.at = "complete"
  BY DEF AfterFailure
<1>3. Postcondition = "configuration-pending" => PendingRepair
  BY DEF Postcondition, PendingRepair
<1> QED
  BY <1>1, <1>2, <1>3

(* A step between two commands leaves a repair where it is.                *)
LEMMA RepairBetween ==
  ASSUME UnitsFit, UNCHANGED J, Unmoved, h'.pc \in {"none", "start"},
         inst'.at \in {"configure", "restore-repair"} => PendingRepair,
         inst'.at \in {"complete", "complete again"} => Configured
  PROVE  RepairFits'
<1>1. RepairFits
  BY DEF UnitsFit
<1>2. Configured' => Configured
  BY DEF Configured
<1> QED
  BY <1>1, <1>2, UnitParts DEF RepairFits, PendingRepair, Mid

LEMMA ExitUnits ==
  ASSUME Fits, UnitsFit, inst # NoInstaller, UNCHANGED J, Unmoved, NEW next, NEW told,
         Exit(next, told),
         next \in {"configure", "restore-repair"} => PendingRepair,
         next \in {"complete", "complete again"} => Configured
  PROVE  UnitsFit'
<1>1. inst \in [at : Callers \ {"none"}, mode : Modes]
  BY DEF Fits, Typed, HelperTyped
<1>2. h'.pc = "none" /\ inst'.at \in {next, "none"}
  BY <1>1 DEF Exit, Idle, NoInstaller
<1>3. RepairFits'
  BY <1>2, RepairBetween
<1> QED
  BY <1>2, <1>3, BetweenUnits

(* The units that had failed before a repair are installed anew.           *)
LEMMA ConfigureUnits == Fits /\ UnitsFit /\ Configure => UnitsFit'
<1> SUFFICES ASSUME Fits, UnitsFit, Configure PROVE UnitsFit'
  OBVIOUS
<1>1. /\ Typed /\ inst.at = "configure" /\ inst # NoInstaller /\ UNCHANGED <<J, ptr, touched>>
      /\ inst \in [at : Callers \ {"none"}, mode : Modes]
      /\ RowsFit /\ RepairFits /\ (Calm => StatesFit) /\ PtrCore /\ PendingRepair
  <2>0. inst.at = "configure" /\ J' = J /\ ptr' = ptr /\ touched' = touched
    BY DEF Configure
  <2>1. /\ Typed /\ inst.at = "configure" /\ inst # NoInstaller /\ UNCHANGED <<J, ptr, touched>>
        /\ PtrCore
    <3>1. Typed /\ PtrCore
      BY DEF Fits, PtrFits
    <3> QED
      BY <2>0, <3>1 DEF NoInstaller
  <2>2. inst \in [at : Callers \ {"none"}, mode : Modes]
    BY <2>1 DEF Typed, HelperTyped
  <2>3. RowsFit /\ RepairFits /\ (Calm => StatesFit)
    BY DEF UnitsFit
  <2>4. PendingRepair
    BY <2>1, <2>3 DEF RepairFits
  <2> QED
    BY <2>1, <2>2, <2>3, <2>4
<1>2. J.mode = "repair" /\ J.status = "committed" /\ ~J.complete /\ Candidate
  BY <1>1 DEF PendingRepair, Fits, PtrFits
<1>3. /\ h' = Idle /\ inst'.at \in {"restore-repair", "complete"}
      /\ inst'.at = "complete" => Retained = {}
  BY <1>1 DEF Configure, Exit
<1>4. /\ Own' = Own /\ (Calm' <=> Calm) /\ (Unset' <=> Unset) /\ (Armed' <=> Armed)
      /\ (Mixed' <=> Mixed) /\ (Candidate' <=> Candidate) /\ WasEnabled' = WasEnabled
      /\ Retained' = Retained
  BY <1>1 DEF Own, Calm, Unset, Armed, Mixed, Target, Candidate, Only, WasEnabled, Retained
<1>5. RowsFit'
  BY <1>1, <1>4 DEF RowsFit
<1>6. WorkFits'
  BY <1>3 DEF WorkFits, Mid, Idle, Rolling, Restoring
<1>7. RepairFits'
  <2>1. Configured' => RetainedAsBefore'
    BY <1>1, <1>2, <1>3, <1>4 DEF Configured, RetainedAsBefore, Idle
  <2> QED
    BY <1>1, <1>3, <2>1 DEF RepairFits, PendingRepair, Mid, Idle
<1>8. ASSUME Calm' PROVE StatesFit'
  <2>1. ~(Unset' /\ Mixed')
    BY <1>1, <1>2, <1>4, Unmixed
  <2>2. OnPair => OnPair'
    <3>1. PICK renewed \in SUBSET (J.inventory \ Retained) :
            unit' = [u \in Units |-> IF u \in renewed THEN Started(u)[u] ELSE unit[u]]
      BY DEF Configure
    <3>2. \A u \in Units : Started(u)[u].act = "active" => Started(u)[u].runs = Pair
      BY <1>1, UnitChanges
    <3> QED
      BY <1>1, <1>4, <3>1, <3>2, UnitSets DEF OnPair, Own, Pair
  <2>3. Unset' /\ J'.stopping => OnPair'
    BY <1>1, <1>2, <1>4, <1>8, <2>2 DEF StatesFit, Onward
  <2>4. J'.mode = "repair" /\ ~Rolling' /\ J'.status = "committed"
    BY <1>1, <1>2, <1>3 DEF Rolling, Idle
  <2> HIDE DEF Mixed, OnPair, Unset, Rolling
  <2> QED
    BY <2>1, <2>3, <2>4 DEF StatesFit, Waiting
<1>9. Isolated'
  BY <1>1, <1>2 DEF Isolated
<1> QED
  BY <1>5, <1>6, <1>7, <1>8, <1>9 DEF UnitsFit

LEMMA InstallerUnits ==
  /\ Fits /\ UnitsFit /\ RunHelper => UnitsFit'
  /\ Fits /\ UnitsFit /\ HelperExits => UnitsFit'
  /\ Fits /\ UnitsFit /\ InitializeDatabase => UnitsFit'
  /\ Fits /\ UnitsFit /\ StartInstaller => UnitsFit'
<1>1. ASSUME Fits, UnitsFit, RunHelper PROVE UnitsFit'
  <2>1. UNCHANGED J /\ Unmoved /\ inst' = inst /\ h'.pc = "start"
    BY <1>1 DEF RunHelper, Idle, world, users, Unmoved, Rows, Kept, Arms
  <2>2. inst.at \in {"configure", "restore-repair"} => PendingRepair
    BY <1>1 DEF UnitsFit, RepairFits
  <2>3. RepairFits'
    BY <1>1, <2>1, <2>2, RepairBetween DEF Configured
  <2> QED
    BY <1>1, <2>1, <2>3, BetweenUnits
<1>2. ASSUME Fits, UnitsFit, HelperExits PROVE UnitsFit'
  <2>1. UNCHANGED J /\ Unmoved
    BY <1>2 DEF HelperExits, world, Unmoved, Rows, Kept, Arms
  <2>2. inst # NoInstaller
    BY <1>2, Active1 DEF HelperExits, Fits
  <2>3. CASE h.pc = "returned"
    <3>1. Exit(Following(inst.at), Told(inst.at))
      BY <1>2, <2>3 DEF HelperExits
    <3>2. /\ Following(inst.at) \in {"configure", "restore-repair"} => PendingRepair
          /\ Following(inst.at) \in {"complete", "complete again"} => Configured
      BY <1>2, <2>3, NextOfRepair DEF Configured
    <3> QED
      BY <1>2, <2>1, <2>2, <3>1, <3>2, ExitUnits
  <2>4. CASE h.pc # "returned"
    <3>1. Exit(AfterFailure(inst.at), "unknown")
      BY <1>2, <2>4 DEF HelperExits
    <3>2. /\ AfterFailure(inst.at) \in {"configure", "restore-repair"} => PendingRepair
          /\ AfterFailure(inst.at) \in {"complete", "complete again"} => Configured
      BY <1>2, NextOfRepair DEF Configured
    <3> QED
      BY <1>2, <2>1, <2>2, <3>1, <3>2, ExitUnits
  <2> QED
    BY <2>3, <2>4
<1>3. ASSUME Fits, UnitsFit, InitializeDatabase PROVE UnitsFit'
  <2>1. UNCHANGED J /\ Unmoved /\ Exit("restore", "unknown") /\ inst # NoInstaller
    BY <1>3 DEF InitializeDatabase, Unmoved, Rows, Kept, Arms, NoInstaller
  <2> QED
    BY <1>3, <2>1, ExitUnits
<1>4. ASSUME Fits, UnitsFit, StartInstaller PROVE UnitsFit'
  <2>1. UNCHANGED J /\ Unmoved /\ inst'.at = "recover" /\ h'.pc = "none"
    BY <1>4 DEF StartInstaller, Idle, world, Unmoved, Rows, Kept, Arms
  <2>2. RepairFits'
    BY <1>4, <2>1, RepairBetween
  <2> QED
    BY <1>4, <2>1, <2>2, BetweenUnits
<1> QED
  BY <1>1, <1>2, <1>3, <1>4

-----------------------------------------------------------------------------
(* The interruptions.                                                      *)
LEMMA KillUnits ==
  /\ Fits /\ UnitsFit /\ (InstallerFails \/ KillHelper) => UnitsFit'
  /\ Fits /\ UnitsFit /\ KillInstaller => UnitsFit'
<1>1. ASSUME Fits, UnitsFit, InstallerFails \/ KillHelper PROVE UnitsFit'
  <2>1. /\ UNCHANGED J /\ Unmoved /\ Exit(AfterFailure(inst.at), "unknown")
        /\ inst # NoInstaller
    BY <1>1 DEF InstallerFails, KillHelper, world, Unmoved, Rows, Kept, Arms, Fits, Typed, HelperTyped
  <2>2. /\ AfterFailure(inst.at) \in {"configure", "restore-repair"} => PendingRepair
        /\ AfterFailure(inst.at) \in {"complete", "complete again"} => Configured
    BY <1>1, NextOfRepair DEF Configured
  <2> QED
    BY <1>1, <2>1, <2>2, ExitUnits
<1>2. ASSUME Fits, UnitsFit, KillInstaller PROVE UnitsFit'
  <2>1. UNCHANGED J /\ Unmoved /\ inst'.at = "none" /\ h'.pc = "none"
    BY <1>2 DEF KillInstaller, Idle, NoInstaller, world, Unmoved, Rows, Kept, Arms
  <2>2. RepairFits'
    BY <1>2, <2>1, RepairBetween
  <2> QED
    BY <1>2, <2>1, <2>2, BetweenUnits
<1> QED
  BY <1>1, <1>2

(* A restart starts what is enabled, and no unit of a repair is.           *)
LEMMA RebootUnits == Fits /\ UnitsFit /\ Reboot => UnitsFit'
<1> SUFFICES ASSUME Fits, UnitsFit, Reboot PROVE UnitsFit'
  OBVIOUS
<1>1. /\ Typed /\ RowsFit /\ Isolated /\ UNCHANGED <<J, ptr>> /\ h' = Idle /\ inst' = NoInstaller
      /\ touched' = touched \cup {"reboot"} /\ ~Calm'
  BY DEF Fits, UnitsFit, Reboot, Calm
<1>2. Own' \subseteq Own /\ (Armed' <=> Armed) /\ WasEnabled' = WasEnabled
      /\ (Candidate => Candidate')
  BY <1>1 DEF Own, Armed, WasEnabled, Candidate, Only
<1>3. RowsFit'
  BY <1>1, <1>2 DEF RowsFit
<1>4. WorkFits'
  BY <1>1 DEF WorkFits, Mid, Idle, Rolling, Restoring
<1>5. RepairFits'
  BY <1>1 DEF RepairFits, Mid, Idle, NoInstaller
<1>6. AllOff => AllOff'
  <2>1. \A u \in Units : ~unit[u].enabled =>
          unit'[u].act = "inactive" /\ unit'[u].enabled = unit[u].enabled
    BY <1>1, UnitChanges DEF Reboot
  <2> QED
    BY <1>1, <1>2, <2>1, UnitSets DEF AllOff, Own
<1>7. Isolated'
  BY <1>1, <1>2, <1>6 DEF Isolated
<1> QED
  BY <1>1, <1>3, <1>4, <1>5, <1>7 DEF UnitsFit

LEMMA SystemctlUnits == Fits /\ UnitsFit /\ SystemctlFails => UnitsFit'
<1> SUFFICES ASSUME Fits, UnitsFit, SystemctlFails PROVE UnitsFit'
  OBVIOUS
<1> DEFINE u == First(h.todo)
<1>1. /\ Typed /\ h.todo # {} /\ inst' = inst /\ ptr' = ptr /\ h.pc # "none" /\ h.cmd # "none"
  BY Active1 DEF SystemctlFails, Idle, Fits, Typed, HelperTyped
<1>2. u \in h.todo
  BY <1>1, Picked
<1>3. u \in Units /\ u \in J.inventory
  BY <1>1, <1>2, UnitSets DEF SystemctlFails, Typed, TodoFits
<1>4. CASE h.cmd = "stop" /\ Fail /\ UNCHANGED <<J, touched>> /\ unit' = unit
  <2>1. h'.cmd = h.cmd /\ h'.pc = "failed"
    BY <1>1, <1>4, GotoTyped DEF Fail, Places
  <2>2. Unmoved /\ Held /\ J'.status = J.status
    BY <1>1, <1>4 DEF Unmoved, Held, Rows, Kept, Arms
  <2> QED
    BY <1>1, <1>4, <2>1, <2>2, EndUnits
<1>5. CASE h.cmd = "restore-repair" /\ Fail /\ UNCHANGED <<J, touched>> /\ unit' \in {unit, Broken(u)}
  <2>1. h'.cmd = h.cmd /\ h'.pc = "failed"
    BY <1>1, <1>5, GotoTyped DEF Fail, Places
  <2>2. Kept /\ Arms /\ Rows
    BY <1>5 DEF Kept, Arms, Rows
  <2>3. OnPair => OnPair'
    <3>1. CASE unit' = unit
      BY <1>1, <1>5, <2>2, <3>1, UnitParts DEF Unmoved
    <3>2. CASE unit' = Broken(u)
      BY <1>1, <1>3, <1>5, <2>2, <3>2, UnitChanges, OneUnitParts
    <3> QED
      BY <1>5, <3>1, <3>2
  <2> QED
    BY <1>1, <1>5, <2>1, <2>3, RepairingUnits
<1>6. CASE /\ h.pc \in {"units", "enable"} /\ EnableAllowed(u)
           /\ h.cmd \in {"restore", "recover", "rollback"} /\ (h.pc = "units" => u \in WasActive)
           /\ NotRestored /\ touched' = touched
           /\ unit' \in (IF h.pc = "units" THEN {unit, Broken(u)} ELSE {unit})
  <2>1. /\ h'.cmd = h.cmd /\ J' = J
        /\ \/ h.cmd # "restore" /\ h'.pc = "finish" /\ h'.err
           \/ h.cmd = "restore" /\ h'.pc = "failed"
    BY <1>1, <1>6, Acting DEF NotRestored, Rolling
  <2>2. Kept /\ Arms /\ Rows
    BY <2>1 DEF Kept, Arms, Rows
  <2>3. (OnPair => OnPair') /\ (Tame => Tame')
    <3>1. CASE unit' = unit
      BY <1>1, <1>6, <2>2, <3>1, UnitParts DEF Unmoved
    <3>2. CASE unit' = Broken(u) /\ u \in WasActive
      <4>1. /\ \A w \in Units \ {u} : unit'[w] = unit[w]
            /\ unit'[u].act = "failed" /\ unit'[u].enabled = unit[u].enabled
        BY <1>1, <1>3, <3>2, UnitChanges
      <4> QED
        BY <1>1, <1>3, <1>6, <2>1, <2>2, <3>2, <4>1, OneUnitParts DEF EnableAllowed
    <3> QED
      BY <1>6, <3>1, <3>2
  <2> QED
    BY <1>1, <1>6, <2>1, <2>3, RestoringUnits
<1>7. CASE /\ Rolling /\ h.pc = "halt" /\ u \in WasActive /\ Spoil(u) /\ UNCHANGED <<J, touched>>
           /\ unit' \in {[unit EXCEPT ![u].stuck = unit[u].act = "active"], Stopped(u)}
  <2>1. h'.cmd = h.cmd /\ h'.pc = "halt" /\ h'.todo = h.todo \ {u}
    BY <1>1, <1>7, DoneTyped
  <2>2. /\ \A w \in Units \ {u} : unit'[w] = unit[w]
        /\ unit'[u].enabled = unit[u].enabled
        /\ unit'[u].act # "active" \/ (unit'[u].act = unit[u].act /\ unit'[u].stuck)
    <3>1. CASE unit' = Stopped(u)
      BY <1>1, <1>3, <3>1, UnitChanges
    <3>2. CASE unit' = [unit EXCEPT ![u].stuck = unit[u].act = "active"]
      BY <1>1, <1>3, <3>2 DEF Typed, WorldTyped
    <3> QED
      BY <1>7, <3>1, <3>2
  <2>3. unit'[u].act = "active" => unit'[u].stuck
    BY <2>2
  <2> HIDE DEF u
  <2> QED
    BY <1>1, <1>2, <1>7, <2>1, <2>2, <2>3, HaltingUnits
<1> QED
  BY <1>4, <1>5, <1>6, <1>7 DEF SystemctlFails

LEMMA InterruptionUnits == Fits /\ UnitsFit /\ Interruption => UnitsFit'
<1> SUFFICES ASSUME Fits, UnitsFit, Interruption PROVE UnitsFit'
  OBVIOUS
<1>1. Fits' /\ Typed
  BY InterruptionFits DEF Fits
<1>2. CASE EditSettings
  <2>1. inst' = inst /\ h' = h /\ marker' = marker /\ Fewer
    BY <1>2 DEF EditSettings, world, Fewer
  <2> QED
    BY <1>1, <2>1, UntouchedUnits
<1>3. ASSUME NEW u \in Units, ChangeUnit(u) PROVE UnitsFit'
  <2>1. inst' = inst /\ h' = h /\ marker' = marker /\ UNCHANGED <<J, ptr>>
        /\ touched' = touched \cup {u}
    BY <1>3 DEF ChangeUnit
  <2>2. \A w \in Units \ {u} : unit'[w] = unit[w]
    <3>1. unit[u].enabled \in BOOLEAN
      BY <1>1 DEF Typed, WorldTyped
    <3>2. CASE unit' = Enabled(u, ~unit[u].enabled)
      BY <1>1, <3>1, <3>2, EnabledChanges
    <3>3. CASE unit' \in {Started(u), Stopped(u), Broken(u)}
      BY <1>1, <3>3, UnitChanges
    <3> QED
      BY <1>3, <3>2, <3>3 DEF ChangeUnit
  <2>3. Fewer
    BY <2>1, <2>2 DEF Fewer
  <2> QED
    BY <1>1, <2>1, <2>3, UntouchedUnits
<1>4. ASSUME NEW p \in Pointers, Retarget(p) PROVE UnitsFit'
  <2>1. inst' = inst /\ h' = h /\ marker' = marker /\ UNCHANGED <<J, unit>>
        /\ touched' = touched \cup {p}
    BY <1>4 DEF Retarget
  <2>2. \A q \in Pointers \ {p} : ptr'[q] = ptr[q]
    BY <1>1, <1>4 DEF Retarget, Typed, WorldTyped
  <2>3. Fewer
    BY <2>1, <2>2 DEF Fewer
  <2> QED
    BY <1>1, <2>1, <2>3, UntouchedUnits
<1> QED
  BY <1>2, <1>3, <1>4, KillUnits, RebootUnits, SystemctlUnits DEF Interruption

-----------------------------------------------------------------------------
LEMMA InitUnits == Init => UnitsFit
<1> SUFFICES ASSUME Init PROVE UnitsFit
  OBVIOUS
<1>1. /\ J.status = "rolled-back" /\ J.id = 0 /\ J.mode = "upgrade" /\ J.prior = ptr
      /\ J.armed = [p \in Pointers |-> FALSE] /\ J.inventory = {} /\ J.disabled = {}
      /\ ~J.stopping /\ h = Idle /\ inst = NoInstaller
  BY DEF Init, NoJournal, Fresh
<1>2. Own = {} /\ ~Armed /\ ~Mixed
  BY <1>1 DEF Own, Armed, Mixed
<1>3. RowsFit /\ WorkFits /\ RepairFits
  BY <1>1, <1>2 DEF RowsFit, WorkFits, RepairFits, Mid, Idle, NoInstaller, Rolling, Restoring,
     Waiting, Onward
<1>4. StatesFit
  BY <1>1, <1>2 DEF StatesFit, Rolling, Idle, Waiting, Onward, Tame, AllAsBefore
<1>5. Isolated
  BY <1>1 DEF Isolated
<1> QED
  BY <1>3, <1>4, <1>5 DEF UnitsFit

LEMMA StepUnits == Fits /\ UnitsFit /\ [Next]_vars => UnitsFit'
<1> SUFFICES ASSUME Fits, UnitsFit, [Next]_vars PROVE UnitsFit'
  OBVIOUS
<1>1. CASE UNCHANGED vars
  <2>1. Fits'
    BY StepFits
  <2>2. inst' = inst /\ h' = h /\ marker' = marker /\ Fewer
    BY <1>1 DEF vars, world, users, Fewer
  <2> QED
    BY <2>1, <2>2, UntouchedUnits
<1>2. CASE Interruption
  BY <1>2, InterruptionUnits
<1>3. CASE InstallerStep \/ StartInstaller
  BY <1>3, InstallerUnits, ConfigureUnits DEF InstallerStep
<1>4. CASE HelperStep
  <2>1. CASE BeginLock \/ \E inv \in Inventories : BeginCapture(inv)
    BY <2>1, BeginLockUnits, BeginCaptureUnits
  <2>2. CASE \/ ReserveStep("source-temp") \/ ReserveStep("venv") \/ PromoteSourceStep
             \/ RecordStep("source") \/ RecordStep("venv") \/ MigrationStep
             \/ CaptureStep \/ VerifyStep
    BY <2>2, BuildingUnits DEF Pointers
  <2>3. CASE StopStep \/ PromoteStep
    BY <2>3, StopUnits, PromoteUnits
  <2>4. CASE RestoreStart \/ RestoreStep \/ RestoreRepairStep \/ CompleteStep
    BY <2>4, RestoreStartUnits, RestoreUnits, RestoreRepairUnits, CompleteUnits
  <2>5. CASE CommitStep \/ CommitRepairStep \/ Unlock
    BY <2>5, CommitUnits, CommitRepairUnits, UnlockUnits
  <2>6. CASE RecoverStart \/ RollbackStart \/ RollStart \/ HaltStep \/ BackStep
    BY <2>6, RecoverStartUnits, RollUnits, HaltUnits, BackUnits
  <2>7. CASE (Rolling /\ RemovalStep) \/ FilesStep \/ MarkerStep \/ ResumeStep \/ FinishStep
    BY <2>7, PuttingUnits, ResumeUnits, FinishUnits
  <2> QED
    BY <1>4, <2>1, <2>2, <2>3, <2>4, <2>5, <2>6, <2>7 DEF HelperStep
<1> QED
  BY <1>1, <1>2, <1>3, <1>4 DEF Next

-----------------------------------------------------------------------------
(* A unit that runs although a rollback asked systemctl to stop it.  The   *)
(* rollback has an error on record from then on, or still has to ask, and  *)
(* so neither it nor a later one ends before the unit is down.             *)
Faltering == {"rolling-back", "rollback-failed"}
StuckFits ==
  \A u \in Units : unit[u].stuck =>
    /\ u \in WasActive /\ J.stopping /\ J.status \in Faltering /\ unit[u].act = "active"
    /\ Rolling /\ h.pc \in Halted \cup Resuming => h.err
    /\ Rolling /\ h.pc = "halt" => h.err \/ u \in h.todo

(* No other step than a failed stop adds such a unit.                      *)
Loosened == \A u \in Units : unit'[u].stuck => unit[u].stuck /\ unit'[u].act = unit[u].act

LEMMA ChangeLoosens ==
  ASSUME Typed, NEW u \in Units,
         \/ unit' \in {unit, Stopped(u), Broken(u), Started(u)}
         \/ \E b \in BOOLEAN : unit' = Enabled(u, b)
  PROVE  Loosened
<1>1. CASE unit' \in {unit, Stopped(u), Broken(u), Started(u)}
  BY <1>1, UnitChanges DEF Loosened
<1>2. CASE \E b \in BOOLEAN : unit' = Enabled(u, b)
  <2>1. PICK b \in BOOLEAN : unit' = Enabled(u, b)
    BY <1>2
  <2> QED
    BY <2>1, EnabledChanges DEF Loosened
<1> QED
  BY <1>1, <1>2

(* A step that keeps what the journal says of the units; a step at a       *)
(* status no such unit lives to see; a step that leaves the journal alone. *)
LEMMA StuckIf ==
  ASSUME StuckFits, Loosened, Rows, J'.stopping = J.stopping, J'.status \in Faltering,
         \A u \in Units : unit'[u].stuck /\ unit[u].stuck /\ Rolling' =>
           /\ h'.pc \in Halted \cup Resuming => h'.err
           /\ h'.pc = "halt" => h'.err \/ u \in h'.todo
  PROVE  StuckFits'
<1>1. WasActive' = WasActive
  BY DEF Rows, WasActive
<1> QED
  BY <1>1 DEF StuckFits, Loosened

LEMMA NoneStuck ==
  ASSUME StuckFits, Loosened,
         J.status \notin Faltering \/ \A u \in Units : ~unit[u].stuck
  PROVE  StuckFits'
  BY DEF StuckFits, Loosened

LEMMA AsideStuck ==
  ASSUME StuckFits, Loosened, J.status \in Faltering => UNCHANGED J,
         Rolling' => h' = h \/ h'.pc \notin {"halt"} \cup Halted \cup Resuming
  PROVE  StuckFits'
<1>1. CASE J.status \notin Faltering
  BY <1>1, NoneStuck
<1>2. CASE J.status \in Faltering /\ UNCHANGED J
  <2>1. Rows /\ (Rolling' /\ h' = h => Rolling)
    BY <1>2 DEF Rows, Rolling
  <2> QED
    BY <1>2, <2>1, StuckIf DEF StuckFits
<1> QED
  BY <1>1, <1>2

(* The commands that are no rollback.                                      *)
LEMMA ForwardStuck ==
  ASSUME Fits, StuckFits, h.cmd \notin {"recover", "rollback", "none"}, inst' = inst,
         Loosened, J.status \in Faltering => UNCHANGED J,
         \/ h' = h \/ Fail \/ Return \/ NotRestored \/ (\E l : Goto(l) \/ \E t : GotoWith(l, t))
         \/ \E x : Done(x)
  PROVE  StuckFits'
<1>1. ~Rolling'
  BY Acting DEF Fits, Fail, Return, Goto, GotoWith, NotRestored, Done, Rolling
<1> QED
  BY <1>1, AsideStuck

LEMMA BuildingStuck ==
  /\ Fits /\ StuckFits /\ (\E k \in {"source-temp", "venv"} : ReserveStep(k)) => StuckFits'
  /\ Fits /\ StuckFits /\ PromoteSourceStep => StuckFits'
  /\ Fits /\ StuckFits /\ (\E k \in Pointers : RecordStep(k)) => StuckFits'
  /\ Fits /\ StuckFits /\ (MigrationStep \/ CaptureStep \/ VerifyStep \/ CommitStep) => StuckFits'
<1>1. ASSUME Fits, StuckFits, NEW k \in {"source-temp", "venv"}, ReserveStep(k) PROVE StuckFits'
  <2>1. /\ h.cmd \in Staging /\ inst' = inst /\ Loosened
        /\ Fail \/ Return \/ \E l : Goto(l)
    BY <1>1 DEF ReserveStep, At, Staging, Loosened
  <2>2. J.status \in Faltering => UNCHANGED J
    BY <1>1 DEF ReserveStep, At, Fits, StatusFits, Mid, Staging, Faltering
  <2> QED
    BY <1>1, <2>1, <2>2, ForwardStuck DEF Staging
<1>2. ASSUME Fits, StuckFits, PromoteSourceStep PROVE StuckFits'
  <2>1. /\ h.cmd \in Staging /\ inst' = inst /\ Loosened
        /\ Fail \/ Return \/ \E l : Goto(l)
    BY <1>2 DEF PromoteSourceStep, At, Staging, Loosened
  <2>2. J.status \in Faltering => UNCHANGED J
    BY <1>2 DEF PromoteSourceStep, At, Fits, StatusFits, Mid, Staging, Faltering
  <2> QED
    BY <1>2, <2>1, <2>2, ForwardStuck DEF Staging
<1>3. ASSUME Fits, StuckFits, NEW k \in Pointers, RecordStep(k) PROVE StuckFits'
  <2>1. /\ h.cmd \in Staging /\ inst' = inst /\ Loosened
        /\ Fail \/ Return \/ \E l : Goto(l)
    BY <1>3 DEF RecordStep, At, Staging, Loosened
  <2>2. J.status \in Faltering => UNCHANGED J
    BY <1>3 DEF RecordStep, At, Fits, StatusFits, Mid, Staging, Faltering
  <2> QED
    BY <1>3, <2>1, <2>2, ForwardStuck DEF Staging
<1>4. ASSUME Fits, StuckFits, MigrationStep \/ CaptureStep \/ VerifyStep \/ CommitStep
      PROVE  StuckFits'
  <2>1. /\ h.cmd \in {"migration", "capture", "verify", "commit"} /\ inst' = inst /\ Loosened
        /\ Fail \/ Return \/ \E l : Goto(l)
    BY <1>4 DEF MigrationStep, CaptureStep, VerifyStep, CommitStep, At, Loosened, world
  <2>2. J.status \in Faltering => UNCHANGED J
    BY <1>4 DEF MigrationStep, CaptureStep, VerifyStep, CommitStep, At, Faltering
  <2> QED
    BY <1>4, <2>1, <2>2, ForwardStuck
<1> QED
  BY <1>1, <1>2, <1>3, <1>4

(* First steps of a transaction: the one before has ended.                 *)
LEMMA BeginStuck ==
  Fits /\ StuckFits /\ (BeginLock \/ \E inv \in Inventories : BeginCapture(inv)) => StuckFits'
<1> SUFFICES ASSUME Fits, StuckFits, BeginLock \/ \E inv \in Inventories : BeginCapture(inv)
             PROVE  StuckFits'
  OBVIOUS
<1>1. h.cmd = "begin" /\ inst' = inst /\ Loosened /\ (Fail \/ Return \/ \E l : Goto(l))
  BY DEF BeginLock, BeginCapture, At, Loosened, world
<1>2. J.status \in Faltering => UNCHANGED J
  BY DEF BeginLock, BeginCapture, At, Fits, StatusFits, LockFits, Mid, Terminal, Faltering
<1> QED
  BY <1>1, <1>2, ForwardStuck

LEMMA StopStuck == Fits /\ StuckFits /\ StopStep => StuckFits'
<1> SUFFICES ASSUME Fits, StuckFits, StopStep PROVE StuckFits'
  OBVIOUS
<1> DEFINE u == First(h.todo)
<1>1. h.cmd = "stop" /\ inst' = inst /\ Typed
  BY DEF StopStep, Fits
<1>2. \/ Fail \/ Return \/ (\E l : Goto(l) \/ \E t : GotoWith(l, t)) \/ \E x : Done(x)
  BY DEF StopStep
<1>3. J.status \in Faltering => UNCHANGED J
  BY <1>1 DEF StopStep, Fits, StatusFits, Mid, Faltering
<1>4. Loosened
  <2>1. CASE unit' = unit
    BY <2>1 DEF Loosened
  <2>2. CASE /\ unit' \in {Enabled(u, FALSE), Stopped(u)} /\ h.todo # {}
             /\ h.pc \in {"disable", "stop"}
    <3>1. u \in Units
      BY <1>1, <2>2, Picked, UnitSets DEF Typed, TodoFits
    <3> QED
      BY <1>1, <2>2, <3>1, ChangeLoosens
  <2> QED
    BY <1>1, <2>1, <2>2 DEF StopStep, Typed, TodoFits
<1> QED
  BY <1>1, <1>2, <1>3, <1>4, ForwardStuck

LEMMA PromoteStuck == Fits /\ StuckFits /\ PromoteStep => StuckFits'
<1> SUFFICES ASSUME Fits, StuckFits, PromoteStep PROVE StuckFits'
  OBVIOUS
<1>1. h.cmd = "promote" /\ inst' = inst /\ Loosened
  BY DEF PromoteStep, Loosened
<1>2. Fail \/ Return \/ (\E l : Goto(l) \/ \E t : GotoWith(l, t))
  BY DEF PromoteStep
<1>3. J.status \in Faltering => UNCHANGED J
  BY <1>1 DEF PromoteStep, Fits, StatusFits, Mid, Faltering
<1> QED
  BY <1>1, <1>2, <1>3, ForwardStuck

LEMMA RepairStuck ==
  /\ Fits /\ StuckFits /\ CommitRepairStep => StuckFits'
  /\ Fits /\ StuckFits /\ RestoreRepairStep => StuckFits'
  /\ Fits /\ StuckFits /\ CompleteStep => StuckFits'
<1>1. ASSUME Fits, StuckFits, CommitRepairStep PROVE StuckFits'
  <2>1. /\ h.cmd = "commit-repair" /\ inst' = inst /\ Loosened
        /\ Fail \/ Return \/ \E l : Goto(l)
    BY <1>1 DEF CommitRepairStep, Loosened
  <2>2. J.status \in Faltering => UNCHANGED J
    BY <1>1, <2>1 DEF CommitRepairStep, Fits, StatusFits, Mid, Faltering
  <2> QED
    BY <1>1, <2>1, <2>2, ForwardStuck
<1>2. ASSUME Fits, StuckFits, RestoreRepairStep PROVE StuckFits'
  <2> DEFINE u == First(h.todo)
  <2>1. /\ h.cmd = "restore-repair" /\ inst' = inst /\ UNCHANGED J /\ Typed
        /\ Fail \/ Return \/ \E l : Goto(l) \/ \E t : GotoWith(l, t)
    BY <1>2 DEF RestoreRepairStep, Fits
  <2>2. Loosened
    <3>1. CASE unit' = unit
      BY <3>1 DEF Loosened
    <3>2. CASE (h.pc = "disable" /\ h.todo # {}) \/ h.pc \in {"enable", "run"}
      <4>1. h.todo # {} /\ h.todo \subseteq J.inventory
        BY <2>1, <3>2 DEF Typed, TodoFits
      <4>2. u \in Units /\ J.units[u].enabled \in BOOLEAN
        BY <2>1, <4>1, Picked, UnitSets DEF Typed, JournalTyped, Journal, UnitState
      <4>3. \/ unit' \in {unit, Stopped(u), Started(u)}
            \/ \E b \in BOOLEAN : unit' = Enabled(u, b)
        BY <1>2, <3>2, <4>2 DEF RestoreRepairStep
      <4> QED
        BY <2>1, <4>2, <4>3, ChangeLoosens
    <3> QED
      BY <1>2, <3>1, <3>2 DEF RestoreRepairStep
  <2> QED
    BY <1>2, <2>1, <2>2, ForwardStuck
<1>3. ASSUME Fits, StuckFits, CompleteStep PROVE StuckFits'
  <2>1. /\ h.cmd \in {"complete", "recover"} /\ inst' = inst /\ Loosened /\ Typed
        /\ h.cmd # "none"
        /\ Fail \/ Goto("unlock") \/ Goto("clear")
    BY <1>3 DEF CompleteStep, At, Loosened, Fits
  <2>2. J.status \in Faltering => UNCHANGED J
    BY <1>3, <2>1 DEF CompleteStep, At, Fits, StatusFits, Mid, Faltering
  <2>3. h'.pc \in {"failed", "unlock", "clear"}
    BY <2>1, Acting DEF Fail, Goto
  <2> QED
    BY <1>3, <2>1, <2>2, <2>3, AsideStuck DEF Halted, Resuming
<1> QED
  BY <1>1, <1>2, <1>3

(* A rollback that begins anew asks every unit again.                      *)
LEMMA RollingStuck ==
  /\ Fits /\ StuckFits /\ (RecoverStart \/ RollbackStart) => StuckFits'
  /\ Fits /\ StuckFits /\ RollStart => StuckFits'
<1>1. ASSUME Fits, StuckFits, RecoverStart \/ RollbackStart PROVE StuckFits'
  <2>1. h.cmd # "none" /\ inst' = inst /\ Loosened /\ UNCHANGED J /\ Typed
    BY <1>1 DEF RecoverStart, RollbackStart, At, Loosened, world, Fits
  <2>2. h'.pc \in {"returned", "complete", "roll", "unlock"}
    BY <1>1, <2>1, Acting DEF RecoverStart, RollbackStart, Return, Goto
  <2> QED
    BY <1>1, <2>1, <2>2, AsideStuck DEF Halted, Resuming
<1>2. ASSUME Fits, StuckFits, RollStart PROVE StuckFits'
  <2>1. /\ h.cmd # "none" /\ inst' = inst /\ Loosened /\ Typed /\ J \in Journal
        /\ J' = [J EXCEPT !.status = "rolling-back"]
    BY <1>2 DEF RollStart, Save, Rolling, Loosened, world, Fits, Typed, JournalTyped
  <2>2. h'.pc = "halt" /\ h'.todo = IF J.stopping THEN J.inventory ELSE {}
    BY <1>2, <2>1, Acting DEF RollStart, GotoWith
  <2>3. J'.status \in Faltering /\ J'.stopping = J.stopping /\ Rows
    BY <2>1 DEF Rows, Faltering, Journal
  <2>4. \A u \in Units : unit[u].stuck => J.stopping /\ u \in J.inventory
    BY <1>2, <2>1, UnitSets DEF StuckFits
  <2> QED
    BY <1>2, <2>1, <2>2, <2>3, <2>4, StuckIf DEF Halted, Resuming
<1> QED
  BY <1>1, <1>2

(* A unit is asked to stop: it is down afterwards, or systemctl failed, or *)
(* an error is on record because somebody enabled or disabled it.          *)
LEMMA HaltStuck == Fits /\ StuckFits /\ HaltStep => StuckFits'
<1> SUFFICES ASSUME Fits, StuckFits, HaltStep PROVE StuckFits'
  OBVIOUS
<1> DEFINE u == First(h.todo)
<1>1. /\ h.cmd # "none" /\ h.pc = "halt" /\ inst' = inst /\ Rolling /\ Typed /\ UNCHANGED J
      /\ J.status = "rolling-back"
  BY DEF HaltStep, Rolling, Fits, StatusFits, Mid
<1>2. Rows /\ J'.stopping = J.stopping /\ J'.status \in Faltering
  BY <1>1 DEF Rows, Faltering
<1>3. CASE h.todo # {}
  <2>1. u \in Units
    <3>1. h.todo \subseteq J.inventory
      BY <1>1 DEF Typed, TodoFits
    <3> QED
      BY <1>1, <1>3, <3>1, Picked, UnitSets
  <2>2. unit' \in {unit, Stopped(u)}
    BY <1>3 DEF HaltStep
  <2>3. Loosened
    BY <1>1, <2>1, <2>2, ChangeLoosens
  <2>4. Done(u) \/ Spoil(u)
    BY <1>3 DEF HaltStep
  <2>5. h'.pc = "halt" /\ h'.todo = h.todo \ {u}
    BY <1>1, <2>4, DoneTyped
  <2>6. (Done(u) => h'.err = h.err) /\ (Spoil(u) => h'.err)
    BY <1>1, Acting DEF Done, Spoil
  <2>7. ASSUME unit'[u].stuck, unit[u].stuck PROVE Spoil(u)
    <3>1. u \in WasActive /\ unit[u].act = "active"
      BY <2>1, <2>7 DEF StuckFits
    <3>2. unit' # Stopped(u)
      BY <1>1, <2>1, <2>7, UnitChanges
    <3> QED
      BY <1>3, <3>1, <3>2 DEF HaltStep
  <2>8. \A w \in Units : unit'[w].stuck /\ unit[w].stuck => h'.err \/ w \in h'.todo
    <3> SUFFICES ASSUME NEW w \in Units, unit'[w].stuck, unit[w].stuck
                 PROVE  h'.err \/ w \in h'.todo
      OBVIOUS
    <3>1. h.err \/ w \in h.todo
      BY <1>1 DEF StuckFits
    <3> HIDE DEF u
    <3> QED
      BY <2>4, <2>5, <2>6, <2>7, <3>1
  <2> HIDE DEF u
  <2> QED
    BY <1>1, <1>2, <2>3, <2>5, <2>8, StuckIf DEF Halted, Resuming
<1>4. CASE h.todo = {}
  <2>1. Loosened
    BY <1>4 DEF HaltStep, Loosened
  <2>2. h'.pc \in {"files", "back"} /\ (h.err => h'.err)
    BY <1>1, <1>4, Acting DEF HaltStep, GotoWith
  <2>3. \A w \in Units : unit[w].stuck => h'.err
    BY <1>1, <1>4, <2>2 DEF StuckFits
  <2> QED
    BY <1>1, <1>2, <2>1, <2>2, <2>3, StuckIf
<1> QED
  BY <1>3, <1>4

(* The rest of the rollback keeps the error.                               *)
LEMMA ErrorStuck ==
  ASSUME Fits, StuckFits, Rolling, h.pc \in Halted \cup Resuming, inst' = inst,
         unit' = unit, Rows, J'.stopping = J.stopping, J'.status = J.status,
         h.err => h'.err, h'.pc # "halt"
  PROVE  StuckFits'
<1>1. Loosened
  BY DEF Loosened
<1>2. CASE J.status \in Faltering
  <2>1. \A u \in Units : unit[u].stuck => h'.err
    BY DEF StuckFits
  <2> QED
    BY <1>1, <1>2, <2>1, StuckIf
<1>3. CASE J.status \notin Faltering
  BY <1>1, <1>3, NoneStuck
<1> QED
  BY <1>2, <1>3

LEMMA BackStuck == Fits /\ StuckFits /\ BackStep => StuckFits'
<1> SUFFICES ASSUME Fits, StuckFits, BackStep PROVE StuckFits'
  OBVIOUS
<1> DEFINE p == BackPointer
<1>1. /\ Rolling /\ h.cmd # "none" /\ h.pc = "back" /\ inst' = inst /\ Typed /\ J \in Journal
      /\ unit' = unit
  BY DEF BackStep, Rolling, Fits, Typed, JournalTyped
<1>2. h'.pc \in {"back", "artifacts"} /\ (h.err => h'.err)
  BY <1>1, Acting DEF BackStep, Done, Spoil, GotoWith
<1>3. UNCHANGED J \/ Save([J EXCEPT !.armed[p] = FALSE, !.back[p] = TRUE])
  BY DEF BackStep
<1>4. Rows /\ J'.stopping = J.stopping /\ J'.status = J.status
  BY <1>1, <1>3 DEF Save, Rows, Journal
<1> QED
  BY <1>1, <1>2, <1>4, ErrorStuck DEF Halted

LEMMA PuttingStuck ==
  /\ Fits /\ StuckFits /\ Rolling /\ RemovalStep => StuckFits'
  /\ Fits /\ StuckFits /\ FilesStep => StuckFits'
  /\ Fits /\ StuckFits /\ MarkerStep => StuckFits'
  /\ Fits /\ StuckFits /\ ResumeStep => StuckFits'
<1>1. ASSUME Fits, StuckFits, Rolling, RemovalStep PROVE StuckFits'
  <2>1. /\ h.cmd # "none" /\ inst' = inst /\ Typed /\ J \in Journal /\ unit' = unit
        /\ h.pc \in {"artifacts", "removing"}
    BY <1>1 DEF RemovalStep, Rolling, Fits, Typed, JournalTyped
  <2>2. h'.pc \in {"artifacts", "removing"} /\ (h.err => h'.err)
    BY <1>1, <2>1, Acting DEF RemovalStep, ResumeReservation, RemoveArtifact, RemoveFails, Goto
  <2>3. Rows /\ J'.stopping = J.stopping /\ J'.status = J.status
    <3> DEFINE k == NextArtifact
    <3>1. CASE J' = J
      BY <3>1 DEF Rows
    <3>2. ASSUME NEW d, J' = [J EXCEPT !.art = d]
          PROVE  Rows /\ J'.stopping = J.stopping /\ J'.status = J.status
      BY <2>1, <3>2 DEF Rows, Journal
    <3>3. CASE ResumeReservation(k)
      BY <3>1, <3>2, <3>3 DEF ResumeReservation, Save
    <3>4. CASE RemoveArtifact(k)
      BY <3>1, <3>2, <3>4 DEF RemoveArtifact, RemoveFails, Save, Cleaned
    <3> QED
      BY <1>1, <3>1, <3>3, <3>4 DEF RemovalStep
  <2> QED
    BY <1>1, <2>1, <2>2, <2>3, ErrorStuck DEF Halted
<1>2. ASSUME Fits, StuckFits, FilesStep \/ MarkerStep \/ ResumeStep PROVE StuckFits'
  <2>1. /\ h.cmd # "none" /\ inst' = inst /\ Typed /\ UNCHANGED <<J, unit>> /\ Rolling
        /\ h.pc \in {"artifacts", "files", "resume"}
    BY <1>2 DEF FilesStep, MarkerStep, ResumeStep, Rolling, Fits, world
  <2>2. h'.pc \in {"files", "resume", "units", "finish"} /\ (h.err => h'.err)
    <3>1. CASE FilesStep
      BY <2>1, <3>1, Acting DEF FilesStep, Goto
    <3>2. CASE MarkerStep
      BY <2>1, <3>2, Acting DEF MarkerStep
    <3>3. CASE ResumeStep
      BY <2>1, <3>3, Acting DEF ResumeStep, GotoWith
    <3> QED
      BY <1>2, <3>1, <3>2, <3>3
  <2>3. Rows
    BY <2>1 DEF Rows
  <2> QED
    BY <1>2, <2>1, <2>2, <2>3, ErrorStuck DEF Halted
<1> QED
  BY <1>1, <1>2

(* Units are put back, and a rollback ends well, only without an error on  *)
(* record: no unit was left running.                                       *)
LEMMA RestoreStuck ==
  /\ Fits /\ StuckFits /\ RestoreStart => StuckFits'
  /\ Fits /\ UnitsFit /\ StuckFits /\ RestoreStep => StuckFits'
<1>1. ASSUME Fits, StuckFits, RestoreStart PROVE StuckFits'
  <2>1. /\ h.cmd = "restore" /\ inst' = inst /\ Loosened /\ UNCHANGED J
        /\ Fail \/ \E l : Goto(l) \/ \E t : GotoWith(l, t)
    BY <1>1 DEF RestoreStart, At, Loosened, world
  <2> QED
    BY <1>1, <2>1, ForwardStuck
<1>2. ASSUME Fits, UnitsFit, StuckFits, RestoreStep PROVE StuckFits'
  <2> DEFINE u == First(h.todo)
  <2>1. /\ h.cmd \in {"restore", "recover", "rollback"} /\ h.pc \in {"units", "enable"} /\ Typed
        /\ h.todo \subseteq Units
    BY <1>2, UnitSets DEF RestoreStep, Fits, Typed, TodoFits
  <2>2. J.status \notin Faltering \/ \A w \in Units : ~unit[w].stuck
    <3>1. CASE h.cmd = "restore"
      BY <1>2, <2>1, <3>1 DEF Fits, StatusFits, Mid, Faltering
    <3>2. CASE Rolling
      <4>1. ~h.err
        BY <1>2, <2>1, <3>2 DEF UnitsFit, WorkFits
      <4> QED
        BY <1>2, <2>1, <3>2, <4>1 DEF StuckFits, Resuming
    <3> QED
      BY <2>1, <3>1, <3>2 DEF Rolling
  <2>3. Loosened
    <3>1. CASE h.todo = {}
      BY <1>2, <3>1 DEF RestoreStep, Loosened
    <3>2. CASE h.todo # {}
      <4>1. u \in Units
        BY <2>1, <3>2, Picked
      <4>2. unit' \in {unit, Started(u)} \/ \E b \in BOOLEAN : unit' = Enabled(u, b)
        BY <1>2, <3>2 DEF RestoreStep
      <4> QED
        BY <2>1, <4>1, <4>2, ChangeLoosens
    <3> QED
      BY <3>1, <3>2
  <2> QED
    BY <1>2, <2>2, <2>3, NoneStuck
<1> QED
  BY <1>1, <1>2

LEMMA EndStuck ==
  /\ Fits /\ StuckFits /\ FinishStep => StuckFits'
  /\ Fits /\ StuckFits /\ Unlock => StuckFits'
<1>1. ASSUME Fits, StuckFits, FinishStep PROVE StuckFits'
  <2>1. /\ Rolling /\ h.cmd # "none" /\ h.pc = "finish" /\ inst' = inst /\ Typed /\ J \in Journal
        /\ Loosened
    BY <1>1 DEF FinishStep, Rolling, Fits, Typed, JournalTyped, Loosened, world
  <2>2. CASE h.err
    <3>1. h'.pc = "failed"
      BY <1>1, <2>1, <2>2, Acting DEF FinishStep, Fail, Goto
    <3>2. Rows /\ J'.stopping = J.stopping /\ J'.status \in Faltering
      BY <1>1, <2>1, <2>2 DEF FinishStep, Save, Rows, Journal, Faltering
    <3> QED
      BY <1>1, <2>1, <3>1, <3>2, StuckIf DEF Halted, Resuming
  <2>3. CASE ~h.err
    <3>1. \A w \in Units : ~unit[w].stuck
      BY <1>1, <2>1, <2>3 DEF StuckFits, Resuming
    <3> QED
      BY <1>1, <2>1, <3>1, NoneStuck
  <2> QED
    BY <2>2, <2>3
<1>2. ASSUME Fits, StuckFits, Unlock PROVE StuckFits'
  <2>1. Loosened /\ J.status \in Terminal
    BY <1>2 DEF Unlock, Loosened, world, Fits, StatusFits, Mid
  <2> QED
    BY <1>2, <2>1, NoneStuck DEF Terminal, Faltering
<1> QED
  BY <1>1, <1>2

(* The installer between two commands, and what may interrupt it.          *)
LEMMA InstallerStuck ==
  Fits /\ StuckFits /\ (InstallerStep \/ StartInstaller) => StuckFits'
<1>1. ASSUME Fits, StuckFits, RunHelper \/ HelperExits \/ InitializeDatabase \/ StartInstaller
      PROVE  StuckFits'
  <2>1. UNCHANGED <<J, unit>>
    BY <1>1 DEF RunHelper, HelperExits, InitializeDatabase, StartInstaller, world
  <2>2. Loosened
    BY <2>1 DEF Loosened
  <2>3. h'.pc \in {"none", "start"}
    <3>1. CASE RunHelper
      BY <3>1 DEF RunHelper, Idle
    <3>2. CASE HelperExits \/ InitializeDatabase \/ StartInstaller
      <4>1. h' = Idle
        BY <3>2 DEF HelperExits, InitializeDatabase, StartInstaller, Exit
      <4> QED
        BY <4>1 DEF Idle
    <3> QED
      BY <1>1, <3>1, <3>2
  <2> QED
    BY <1>1, <2>1, <2>2, <2>3, AsideStuck DEF Halted, Resuming
<1>2. ASSUME Fits, StuckFits, Configure PROVE StuckFits'
  <2>1. Typed /\ UNCHANGED J /\ h'.pc = "none"
    BY <1>2 DEF Configure, Exit, Idle, Fits
  <2>2. Loosened
    <3>1. PICK renewed \in SUBSET (J.inventory \ Retained) :
            unit' = [u \in Units |-> IF u \in renewed THEN Started(u)[u] ELSE unit[u]]
      BY <1>2 DEF Configure
    <3>2. \A u \in Units : ~Started(u)[u].stuck
      BY <2>1, UnitChanges
    <3> QED
      BY <3>1, <3>2 DEF Loosened
  <2> QED
    BY <1>2, <2>1, <2>2, AsideStuck DEF Halted, Resuming
<1> QED
  BY <1>1, <1>2 DEF InstallerStep

(* A failed stop leaves a unit that was active before running, and the     *)
(* rollback with an error.                                                 *)
LEMMA SystemctlStuck == Fits /\ StuckFits /\ SystemctlFails => StuckFits'
<1> SUFFICES ASSUME Fits, StuckFits, SystemctlFails PROVE StuckFits'
  OBVIOUS
<1> DEFINE u == First(h.todo)
<1>1. /\ Typed /\ h.todo # {} /\ inst' = inst /\ h.pc # "none" /\ h.cmd # "none"
  BY Active1 DEF SystemctlFails, Idle, Fits, Typed, HelperTyped
<1>2. u \in Units /\ u \in h.todo
  <2>1. u \in h.todo
    BY <1>1, Picked
  <2> QED
    BY <1>1, <2>1, UnitSets DEF SystemctlFails, Typed, TodoFits
<1>3. CASE (Fail \/ NotRestored) /\ UNCHANGED J /\ unit' \in {unit, Broken(u)}
  <2>1. Loosened
    BY <1>1, <1>2, <1>3, ChangeLoosens
  <2>2. \/ h'.pc = "failed"
        \/ Rolling /\ h'.pc = "finish" /\ h'.err
    BY <1>1, <1>3, Acting DEF Fail, Goto, NotRestored, Rolling
  <2>3. CASE h'.pc = "failed"
    BY <1>3, <2>1, <2>3, AsideStuck DEF Halted, Resuming
  <2>4. CASE h'.pc = "finish" /\ h'.err
    <3>1. CASE J.status \in Faltering
      <4>1. Rows
        BY <1>3 DEF Rows
      <4> QED
        BY <1>3, <2>1, <2>4, <3>1, <4>1, StuckIf
    <3> QED
      BY <2>1, <3>1, NoneStuck
  <2> QED
    BY <2>2, <2>3, <2>4
<1>4. CASE /\ Rolling /\ h.pc = "halt" /\ u \in WasActive /\ Spoil(u) /\ UNCHANGED J
           /\ unit' \in {[unit EXCEPT ![u].stuck = unit[u].act = "active"], Stopped(u)}
  <2>1. J.stopping /\ J.status = "rolling-back" /\ WasActive' = WasActive
    BY <1>1, <1>4 DEF Fits, StatusFits, Mid, Typed, TodoFits, WasActive
  <2>2. h'.err /\ h'.pc = "halt"
    BY <1>1, <1>4, Acting DEF Spoil
  <2>3. \A w \in Units : unit'[w].stuck =>
          unit'[w].act = "active" /\ (w = u \/ unit[w].stuck)
    <3>1. CASE unit' = Stopped(u)
      <4>1. Loosened
        BY <1>1, <1>2, <3>1, ChangeLoosens
      <4> QED
        BY <4>1 DEF Loosened, StuckFits
    <3>2. CASE unit' = [unit EXCEPT ![u].stuck = unit[u].act = "active"]
      <4>1. unit \in UnitRows
        BY <1>1 DEF Typed, WorldTyped, UnitRows
      <4> QED
        BY <1>2, <3>2, <4>1 DEF UnitRows, StuckFits
    <3> QED
      BY <1>4, <3>1, <3>2
  <2> HIDE DEF u
  <2> QED
    BY <1>4, <2>1, <2>2, <2>3 DEF StuckFits, Faltering, Halted, Resuming
<1>5. \/ (Fail \/ NotRestored) /\ UNCHANGED J /\ unit' \in {unit, Broken(u)}
      \/ /\ Rolling /\ h.pc = "halt" /\ u \in WasActive /\ Spoil(u) /\ UNCHANGED J
         /\ unit' \in {[unit EXCEPT ![u].stuck = unit[u].act = "active"], Stopped(u)}
  <2>1. NotRestored => UNCHANGED J
    BY DEF NotRestored
  <2> QED
    BY <2>1 DEF SystemctlFails
<1> QED
  BY <1>3, <1>4, <1>5

LEMMA InterruptionStuck == Fits /\ StuckFits /\ Interruption => StuckFits'
<1> SUFFICES ASSUME Fits, StuckFits, Interruption PROVE StuckFits'
  OBVIOUS
<1>1. Typed
  BY DEF Fits
<1>2. CASE InstallerFails \/ KillHelper \/ KillInstaller
  <2>1. Loosened /\ UNCHANGED J /\ h'.pc = "none"
    BY <1>2 DEF InstallerFails, KillHelper, KillInstaller, Exit, Idle, Loosened, world
  <2> QED
    BY <2>1, AsideStuck DEF Halted, Resuming
<1>3. CASE Reboot
  <2>1. UNCHANGED J /\ h'.pc = "none"
    BY <1>3 DEF Reboot, Idle
  <2>2. Loosened
    BY <1>1, <1>3, UnitChanges DEF Reboot, Loosened
  <2> QED
    BY <2>1, <2>2, AsideStuck DEF Halted, Resuming
<1>4. CASE EditSettings \/ \E p \in Pointers : Retarget(p)
  <2>1. Loosened /\ UNCHANGED <<h, J>>
    BY <1>4 DEF EditSettings, Retarget, Loosened, world
  <2> QED
    BY <2>1, AsideStuck
<1>5. CASE \E u \in Units : ChangeUnit(u)
  <2>1. PICK u \in Units : ChangeUnit(u)
    BY <1>5
  <2>2. UNCHANGED <<h, J>> /\ unit[u].enabled \in BOOLEAN
    BY <1>1, <2>1 DEF ChangeUnit, Typed, WorldTyped
  <2>3. unit' \in {Started(u), Stopped(u), Broken(u), Enabled(u, ~unit[u].enabled)}
    BY <2>1 DEF ChangeUnit
  <2>4. Loosened
    BY <1>1, <2>2, <2>3, ChangeLoosens
  <2> QED
    BY <2>2, <2>4, AsideStuck
<1> QED
  BY <1>2, <1>3, <1>4, <1>5, SystemctlStuck DEF Interruption

LEMMA InitStuck == Init => StuckFits
<1> SUFFICES ASSUME Init PROVE StuckFits
  OBVIOUS
<1>1. \A u \in Units : ~unit[u].stuck
  BY DEF Init
<1> QED
  BY <1>1 DEF StuckFits

LEMMA StepStuck == Fits /\ UnitsFit /\ StuckFits /\ [Next]_vars => StuckFits'
<1> SUFFICES ASSUME Fits, UnitsFit, StuckFits, [Next]_vars PROVE StuckFits'
  OBVIOUS
<1>1. CASE UNCHANGED vars
  BY <1>1, AsideStuck DEF vars, world, Loosened
<1>2. CASE Interruption \/ InstallerStep \/ StartInstaller
  BY <1>2, InterruptionStuck, InstallerStuck
<1>3. CASE HelperStep
  <2>1. CASE BeginLock \/ \E inv \in Inventories : BeginCapture(inv)
    BY <2>1, BeginStuck
  <2>2. CASE \/ ReserveStep("source-temp") \/ ReserveStep("venv") \/ PromoteSourceStep
             \/ RecordStep("source") \/ RecordStep("venv") \/ MigrationStep
             \/ CaptureStep \/ VerifyStep \/ CommitStep
    BY <2>2, BuildingStuck DEF Pointers
  <2>3. CASE \/ StopStep \/ PromoteStep \/ CommitRepairStep \/ RestoreRepairStep \/ CompleteStep
    BY <2>3, StopStuck, PromoteStuck, RepairStuck
  <2>4. CASE RestoreStart \/ RestoreStep \/ Unlock \/ FinishStep
    BY <2>4, RestoreStuck, EndStuck
  <2>5. CASE RecoverStart \/ RollbackStart \/ RollStart \/ HaltStep \/ BackStep
    BY <2>5, RollingStuck, HaltStuck, BackStuck
  <2>6. CASE (Rolling /\ RemovalStep) \/ FilesStep \/ MarkerStep \/ ResumeStep
    BY <2>6, PuttingStuck
  <2> QED
    BY <1>3, <2>1, <2>2, <2>3, <2>4, <2>5, <2>6 DEF HelperStep
<1> QED
  BY <1>1, <1>2, <1>3 DEF Next

-----------------------------------------------------------------------------
(* While the pointers name neither pair of releases no managed unit runs   *)
(* that nobody else started and that systemctl stops when a rollback asks  *)
(* it to, none at all in a repair; and however the transaction ends, the   *)
(* units are enabled and active as before, on one release (stop_services,  *)
(* rollback_state, restore_services, restore_repair_services).             *)
THEOREM UnitsStayOnOnePair == Spec => []UnitsRunOnePair
<1>1. Spec => [](Fits /\ UnitsFit /\ StuckFits)
  <2>1. Init => Fits /\ UnitsFit /\ StuckFits
    BY InitFits, InitUnits, InitStuck
  <2>2. (Fits /\ UnitsFit /\ StuckFits) /\ [Next]_vars => (Fits /\ UnitsFit /\ StuckFits)'
    BY StepFits, StepUnits, StepStuck
  <2> QED
    BY <2>1, <2>2, PTL DEF Spec
<1>2. Fits /\ UnitsFit /\ StuckFits => UnitsRunOnePair
  <2> SUFFICES ASSUME Fits, UnitsFit, StuckFits PROVE UnitsRunOnePair
    OBVIOUS
  <2>1. /\ Typed /\ PtrCore /\ (J.status = "committed" => Candidate)
        /\ RepairFits /\ (Calm => StatesFit) /\ Isolated
    BY DEF Fits, UnitsFit, PtrFits
  <2>2. QuietWhileMixed
    <3>1. ASSUME Unset, Mixed, J.mode = "repair", NEW u \in Own
          PROVE  unit[u].act # "active"
      <4>1. Armed /\ ~Candidate
        BY <2>1, <3>1, Unmixed
      <4> QED
        BY <2>1, <3>1, <4>1 DEF Isolated, AllOff
    <3>2. ASSUME Unset, Mixed, Calm, NEW u \in Own
          PROVE  unit[u].act # "active" \/ unit[u].stuck
      BY <2>1, <3>2 DEF StatesFit, Quiet
    <3> QED
      BY <3>1, <3>2 DEF QuietWhileMixed, Unset, Mixed, Own, Calm
  <2>3. SettledUnits
    <3>1. ASSUME RolledBack \/ Updated \/ Repaired, Calm,
                 NEW u \in (IF J.mode = "repair" /\ ~RolledBack THEN Retained ELSE J.inventory) \ touched
          PROVE  /\ AsBefore(u)
                 /\ J.stopping /\ Unset /\ unit[u].act = "active" => unit[u].runs = Pair
      <4>1. u \in Own /\ u \in Units
        BY <2>1, <3>1, UnitSets DEF Own
      <4>2. J.status \in {"committed", "rolled-back"} /\ ~unit[u].stuck
        BY <3>1, <4>1 DEF RolledBack, Updated, Repaired, StuckFits, Faltering
      <4>3. J.stopping /\ Unset => OnPair
        BY <2>1, <3>1, <4>2 DEF StatesFit, Onward
      <4>4. J.stopping /\ Unset /\ unit[u].act = "active" => unit[u].runs = Pair
        BY <4>1, <4>2, <4>3 DEF OnPair
      <4>5. CASE J.mode = "repair" /\ ~RolledBack
        <5>1. J.status = "committed" /\ J.complete
          BY <3>1, <4>5 DEF Updated, Repaired
        <5>2. RetainedAsBefore
          BY <2>1, <3>1, <4>5, <5>1 DEF RepairFits, Configured
        <5> QED
          BY <3>1, <4>1, <4>4, <4>5, <5>2 DEF RetainedAsBefore
      <4>6. CASE ~(J.mode = "repair" /\ ~RolledBack)
        <5>1. AllAsBefore
          BY <2>1, <3>1, <4>2, <4>6 DEF StatesFit, RolledBack
        <5> QED
          BY <4>1, <4>4, <5>1 DEF AllAsBefore
      <4> QED
        BY <4>5, <4>6
    <3> QED
      BY <3>1 DEF SettledUnits, Calm, Unset
  <2> QED
    BY <2>2, <2>3 DEF UnitsRunOnePair
<1> QED
  BY <1>1, <1>2, PTL
==============================================================================
