------------------------ MODULE HistoryBackfillProofs ------------------------
(***************************************************************************)
(* Theorems about HistoryBackfill.  Every step changes at most one row, by *)
(* a transform, or appends one; what a transform may do to a row is        *)
(* established once (Good) and the safety properties follow from it.       *)
(***************************************************************************)
EXTENDS HistoryBackfill, SequenceTheorems, TLAPS

(* --------------------------- what a transform does --------------------- *)
(* An active row was asked to stop exactly if its status says so, and the  *)
(* retry list of one that ended is what was not done by then.              *)
Sound(row) ==
  /\ row.status \in Active => (row.cancel <=> row.status = "cancel_requested")
  /\ row.status \in Ended \ {"cancelled"} => row.retry = Undone(row)
  /\ row.status = "completed" => Undone(row) = {}

KeepsCancel(old, new) ==
  Cancelling(old) /\ old.status \in Active
    => Cancelling(new) /\ new.status \in {"cancel_requested", "cancelled"}

Good(old, new) ==
  /\ new \in RowType
  /\ old.status \in Ended => new = old
  /\ Sound(old) => Sound(new) /\ KeepsCancel(old, new)

LEMMA StatusSplit ==
  ASSUME NEW row \in RowType
  PROVE  /\ row.status \in Active \cup Ended
         /\ row.status \in Ended <=> row.status \notin Active
  BY DEF RowType, Active, Ended

LEMMA InitializedGood ==
  ASSUME NEW row \in RowType, NEW pid \in {"none", "dashboard", "timer"} \X Nat
  PROVE  Good(row, Initialized(row, pid))
<1> DEFINE new == Initialized(row, pid)
<1>1. new \in RowType
  BY DEF Initialized, RowType, Active
<1>2. row.status \notin Ended =>
        /\ new.cancel = row.cancel /\ row.cancel \in BOOLEAN
        /\ new.status = IF Cancelling(row) THEN "cancel_requested" ELSE "running"
  BY DEF Initialized, RowType
<1> QED
  BY <1>1, <1>2 DEF Good, Sound, KeepsCancel, Cancelling, Initialized, Active, Ended

LEMMA ClaimedGood ==
  ASSUME NEW row \in RowType, NEW s \in Stage, NEW pid \in {"none", "dashboard", "timer"} \X Nat,
         row.status \notin Ended, ~Cancelling(row)
  PROVE  Good(row, Claimed(row, s, pid))
<1> DEFINE new == Claimed(row, s, pid)
<1>1. new \in RowType
  BY DEF Claimed, RowType, Active
<1>2. new.cancel = row.cancel /\ new.status = "running"
  BY DEF Claimed, RowType
<1> QED
  BY <1>1, <1>2 DEF Good, Sound, KeepsCancel, Cancelling, Active, Ended

LEMMA RecordedGood ==
  ASSUME NEW row \in RowType, NEW s \in Stage, NEW o \in [status : Outcome, committed : BOOLEAN]
  PROVE  Good(row, Recorded(row, s, o))
<1> DEFINE new == Recorded(row, s, o)
<1>1. new \in RowType
  BY DEF Recorded, RowType, Outcome
<1>2. new.cancel = row.cancel /\ new.status = row.status
  BY DEF Recorded, RowType
<1> QED
  BY <1>1, <1>2 DEF Good, Sound, KeepsCancel, Cancelling, Recorded, Active, Ended

LEMMA FlaggedGood ==
  ASSUME NEW row \in RowType PROVE Good(row, Flagged(row, "error"))
<1> DEFINE new == Flagged(row, "error")
<1>1. new \in RowType
  BY DEF Flagged, RowType
<1>2. new.cancel = row.cancel /\ new.status = row.status
  BY DEF Flagged, RowType
<1> QED
  BY <1>1, <1>2 DEF Good, Sound, KeepsCancel, Cancelling, Flagged, Active, Ended

LEMMA MarkedOrphanGood ==
  ASSUME NEW row \in RowType PROVE Good(row, MarkedOrphan(row))
<1> DEFINE new == MarkedOrphan(row)
<1>1. new \in RowType
  BY DEF MarkedOrphan, RowType
<1>2. new.cancel = row.cancel /\ new.status = row.status
  BY DEF MarkedOrphan, RowType
<1> QED
  BY <1>1, <1>2 DEF Good, Sound, KeepsCancel, Cancelling, MarkedOrphan, Active, Ended

LEMMA CancelRequestedGood ==
  ASSUME NEW row \in RowType PROVE Good(row, CancelRequested(row))
<1> DEFINE new == CancelRequested(row)
<1>1. new \in RowType
  BY DEF CancelRequested, RowType, Active, Ended
<1>2. row.status \notin Ended =>
        new.cancel = TRUE /\ new.status \in {"cancel_requested", "cancelled"}
  BY DEF CancelRequested, RowType
<1> QED
  BY <1>1, <1>2 DEF Good, Sound, KeepsCancel, Cancelling, CancelRequested, Active, Ended

LEMMA FinalizedGood ==
  ASSUME NEW row \in RowType
  PROVE  Good(row, Finalized(row)) /\ Finalized(row).status \in Ended
<1> DEFINE new == Finalized(row)
<1>1. Undone(row) \subseteq Stage /\ ReducedStatus(row) \in Ended
  BY DEF Undone, ReducedStatus, RowType, Ended
<1>2. new \in RowType
  BY <1>1 DEF Finalized, RowType, Ended
<1>3. CASE row.status \in Ended
  BY <1>2, <1>3 DEF Finalized, Good, KeepsCancel, Active, Ended
<1>4. CASE row.status \notin Ended /\ Cancelling(row)
  <2>1. new.status = "cancelled" /\ new.cancel = row.cancel
    BY <1>4 DEF Finalized, RowType
  <2> QED
    BY <1>2, <1>4, <2>1 DEF Good, Sound, KeepsCancel, Cancelling, Active, Ended
<1>5. CASE row.status \notin Ended /\ ~Cancelling(row)
  <2>1. /\ new.status = ReducedStatus(row) /\ new.retry = Undone(row)
        /\ new.requested = row.requested /\ new.outcome = row.outcome
    BY <1>5 DEF Finalized, RowType
  <2>2. Undone(new) = Undone(row)
    BY <2>1 DEF Undone
  <2>3. ReducedStatus(row) = "completed" => Undone(row) = {}
    BY DEF ReducedStatus
  <2> QED
    BY <1>1, <1>2, <1>5, <2>1, <2>2, <2>3 DEF Good, Sound, KeepsCancel, Active, Ended
<1> QED
  BY <1>3, <1>4, <1>5

(* ----------------------------- the invariant --------------------------- *)
Label == {"idle", "read", "init", "claim", "work", "pipeline", "record", "final",
          "error", "close"}
Host3 == {"none", "dashboard", "timer"}

LedgerTyped == ledger \in Seq(RowType)

WorkerTyped ==
  /\ pc \in [Workers -> Label]
  /\ job \in [Workers -> Runs \cup {0}]
  /\ stage \in [Workers -> Stage \cup {NoStage}] /\ todo \in [Workers -> SUBSET Stage]
  /\ result \in [Workers -> [status : Outcome, committed : BOOLEAN]]

RequestType(runs) ==
  [kind : {"none", "queue", "cancel", "look"},
   at : {"idle", "scan", "mark", "blame", "close", "act"},
   run : runs \cup {0}, blame : Stage \cup {NoStage, Nobody},
   scan : SUBSET runs, plan : SUBSET Stage, timed : BOOLEAN]

ServerTyped == server \in RequestType(Runs)

RestTyped ==
  /\ tasks \subseteq Runs
  /\ lockPid \in [Days -> Host3 \X Nat]
  /\ made \in [1..MaxRuns -> SUBSET Stage]
  /\ born \in [Host3 -> Nat] /\ faults \in 0..MaxFaults

(* A worker that is busy has a run, and in the middle of a stage it has a  *)
(* stage; a reconciliation that blames somebody blames a stage or the      *)
(* orchestration.                                                          *)
HasJob == \A w \in Workers : pc[w] # "idle" => job[w] \in Runs
AtStage == \A w \in Workers : pc[w] \in {"work", "pipeline", "record"} => stage[w] \in Stage
Busy == WorkerTyped /\ HasJob /\ AtStage
BlameKnown == server.at = "blame" => server.blame # Nobody

Typed == LedgerTyped /\ Busy /\ ServerTyped /\ BlameKnown /\ RestTyped

LEMMA TypedImpliesTypeOK == Typed => TypeOK
  BY DEF Typed, Busy, TypeOK, LedgerTyped, WorkerTyped, ServerTyped, RequestType, RestTyped,
         Label, Host3

LEMMA InitTyped == Init => Typed
<1> SUFFICES ASSUME Init PROVE Typed
  OBVIOUS
<1>1. LedgerTyped /\ RestTyped
  BY BackfillAssumption, EmptySeq DEF Init, LedgerTyped, RestTyped, NoPid, Host3
<1>2. Busy
  BY DEF Init, Busy, WorkerTyped, HasJob, AtStage, Label, NoResult, Outcome
<1>3. ServerTyped /\ BlameKnown
  BY DEF Init, ServerTyped, RequestType, BlameKnown, NoRequest
<1> QED
  BY <1>1, <1>2, <1>3 DEF Typed

(* What a step does to the ledger: nothing, a transform of one row, or a   *)
(* new row after a scan that left nothing.                                 *)
Appended ==
  /\ server.at = "scan" /\ server.scan = {} /\ server' = NoRequest
  /\ ledger' = Append(ledger, NewRow(server.plan,
                               IF server.timed THEN "scheduled" ELSE "queued"))
LedgerChange ==
  \/ ledger' = ledger
  \/ \E r \in Runs, new \in RowType :
       Good(ledger[r], new) /\ ledger' = [ledger EXCEPT ![r] = new]
  \/ Appended

LEMMA NewRowTyped ==
  ASSUME ServerTyped
  PROVE  NewRow(server.plan, IF server.timed THEN "scheduled" ELSE "queued") \in RowType
  BY DEF ServerTyped, RequestType, NewRow, RowType, Active, Outcome, NoPid

LEMMA SameRowGood == ASSUME NEW row \in RowType PROVE Good(row, row)
  BY DEF Good, KeepsCancel, Sound, Cancelling, Active

(* The rows that were there stay, and were changed as transforms do.       *)
LEMMA LedgerKept ==
  ASSUME LedgerTyped, ServerTyped, LedgerChange
  PROVE  /\ LedgerTyped' /\ Runs \subseteq Runs'
         /\ \A r \in Runs : Good(ledger[r], ledger'[r])
<1>1. Runs = 1..Len(ledger) /\ \A r \in Runs : ledger[r] \in RowType
  BY LenProperties, ElementOfSeq DEF LedgerTyped, Runs
<1>2. CASE ledger' = ledger
  BY <1>1, <1>2, SameRowGood DEF LedgerTyped, Runs
<1>3. CASE \E r \in Runs, new \in RowType :
             Good(ledger[r], new) /\ ledger' = [ledger EXCEPT ![r] = new]
  <2>1. PICK r \in Runs, new \in RowType :
          Good(ledger[r], new) /\ ledger' = [ledger EXCEPT ![r] = new]
    BY <1>3
  <2>2. /\ ledger' \in Seq(RowType) /\ Len(ledger') = Len(ledger)
        /\ \A q \in Runs : ledger'[q] = IF q = r THEN new ELSE ledger[q]
    BY <1>1, <2>1, ExceptSeq DEF LedgerTyped
  <2>3. Runs' = Runs
    BY <1>1, <2>2, LenProperties DEF Runs
  <2> QED
    BY <1>1, <2>1, <2>2, <2>3, SameRowGood DEF LedgerTyped
<1>4. CASE Appended
  <2>1. /\ ledger' \in Seq(RowType) /\ Len(ledger') = Len(ledger) + 1
        /\ \A q \in Runs : ledger'[q] = ledger[q]
    BY <1>1, <1>4, NewRowTyped, AppendProperties DEF Appended, LedgerTyped
  <2>2. Len(ledger) \in Nat /\ Runs' = 1..Len(ledger')
    BY <2>1, LenProperties DEF LedgerTyped, Runs
  <2> QED
    BY <1>1, <2>1, <2>2, SameRowGood DEF LedgerTyped
<1> QED
  BY <1>2, <1>3, <1>4 DEF LedgerChange

(* ------------------------ what a step leaves alone --------------------- *)
LEMMA ServerKept ==
  ASSUME ServerTyped, BlameKnown, UNCHANGED server, Runs \subseteq Runs'
  PROVE  ServerTyped' /\ BlameKnown'
<1>1. RequestType(Runs) \subseteq RequestType(Runs')
  BY DEF RequestType
<1> QED
  BY <1>1 DEF ServerTyped, BlameKnown

LEMMA NoRequestTyped ==
  ASSUME server' = NoRequest PROVE ServerTyped' /\ BlameKnown'
  BY DEF ServerTyped, RequestType, BlameKnown, NoRequest

LEMMA RestKept ==
  ASSUME RestTyped, Runs \subseteq Runs', tasks' \subseteq tasks,
         UNCHANGED <<lockPid, made, born>>,
         UNCHANGED faults \/ (faults + Weight <= MaxFaults /\ faults' = faults + Weight)
  PROVE  RestTyped'
  BY BackfillAssumption DEF RestTyped

LEMMA BusyKept ==
  ASSUME Busy, UNCHANGED workerVars, Runs \subseteq Runs' PROVE Busy'
  BY DEF Busy, WorkerTyped, HasJob, AtStage, workerVars

LEMMA LeaveBusy ==
  ASSUME Busy, NEW w \in Workers, Leave(w), Runs \subseteq Runs' PROVE Busy'
  BY DEF Busy, WorkerTyped, HasJob, AtStage, Leave, NoResult, Outcome, Label

LEMMA GiveUpBusy ==
  ASSUME Busy, NEW w \in Workers, NEW l \in {"close", "final", "error"}, GiveUp(w, l),
         pc[w] # "idle", UNCHANGED job, Runs \subseteq Runs'
  PROVE  Busy'
  BY DEF Busy, WorkerTyped, HasJob, AtStage, GiveUp, Goto, NoResult, Outcome, Label

LEMMA GotoBusy ==
  ASSUME Busy, NEW w \in Workers, NEW l \in Label, Goto(w, l), pc[w] # "idle",
         l \in {"work", "pipeline", "record"} => stage[w] \in Stage,
         UNCHANGED <<job, stage, result>>, todo' \in [Workers -> SUBSET Stage],
         Runs \subseteq Runs'
  PROVE  Busy'
  BY DEF Busy, WorkerTyped, HasJob, AtStage, Goto, Label

LEMMA WorkedBusy ==
  ASSUME Busy, NEW w \in Workers, NEW o \in Outcome, NEW c \in BOOLEAN, Worked(w, o, c),
         pc[w] \in {"work", "pipeline"}, UNCHANGED <<job, stage, todo>>, Runs \subseteq Runs'
  PROVE  Busy'
  BY DEF Busy, WorkerTyped, HasJob, AtStage, Worked, Goto, Label

LEMMA WorkedMade ==
  ASSUME Busy, RestTyped, NEW w \in Workers, NEW o, NEW c \in BOOLEAN, Worked(w, o, c),
         pc[w] \in {"work", "pipeline"}
  PROVE  made' \in [1..MaxRuns -> SUBSET Stage]
<1>1. stage[w] \in Stage
  BY DEF Busy, AtStage
<1>2. CASE c
  <2>1. made' = [made EXCEPT ![job[w]] = @ \cup {stage[w]}]
    BY <1>2 DEF Worked
  <2> QED
    BY <1>1, <2>1 DEF RestTyped
<1>3. CASE ~c
  BY <1>3 DEF Worked, RestTyped
<1> QED
  BY <1>2, <1>3

LEMMA PidTyped ==
  ASSUME RestTyped, NEW w PROVE Pid(w) \in Host3 \X Nat
  BY DEF RestTyped, Pid, Host, Host3

LEMMA RowTyped ==
  ASSUME LedgerTyped, NEW r \in Runs PROVE ledger[r] \in RowType
  BY LenProperties, ElementOfSeq DEF LedgerTyped, Runs

(* A worker's transform of its row is one transform.                       *)
LEMMA SetRowChanges ==
  ASSUME LedgerTyped, Busy, NEW w \in Workers, pc[w] # "idle", NEW row,
         SetRow(w, row), Good(Row(w), row)
  PROVE  LedgerChange
  BY DEF LedgerChange, SetRow, Row, Good, Busy, HasJob

LEMMA OwnRowTyped ==
  ASSUME LedgerTyped, Busy, NEW w \in Workers, pc[w] # "idle"
  PROVE  Row(w) \in RowType
  BY RowTyped DEF Busy, HasJob, Row

(* ------------------------- every step, typed --------------------------- *)
LEMMA SameLedger == ASSUME UNCHANGED ledger PROVE LedgerChange
  BY DEF LedgerChange

LEMMA ChangeTyped ==
  ASSUME Typed, LedgerChange,
         Runs \subseteq Runs' => Busy' /\ ServerTyped' /\ BlameKnown' /\ RestTyped'
  PROVE  Typed'
  BY LedgerKept DEF Typed

LEMMA WorkChanges == ASSUME Typed, NEW w \in Workers, Work(w) PROVE LedgerChange /\ Typed'
<1> SUFFICES LedgerChange /\ (Runs \subseteq Runs' => Busy' /\ RestTyped')
  BY ChangeTyped, ServerKept DEF Typed, Work, ReadStatus, Initialize, ClaimRefused, Claim,
     WorkDay, StartPipeline, EndPipeline, WorkLater, Record, HandleError, Finalize
<1> USE DEF Typed
<1>1. CASE ReadStatus(w)
  <2>1. LedgerChange
    BY <1>1, SameLedger DEF ReadStatus
  <2>2. ASSUME Runs \subseteq Runs' PROVE Busy'
    <3>1. CASE Leave(w)
      BY <2>2, <3>1, LeaveBusy
    <3>2. CASE Goto(w, "init") /\ UNCHANGED <<job, stage, todo, result>>
      BY <1>1, <2>2, <3>2, GotoBusy DEF ReadStatus, Label, Busy, WorkerTyped
    <3> QED
      BY <1>1, <3>1, <3>2 DEF ReadStatus
  <2> QED
    BY <1>1, <2>1, <2>2, RestKept DEF ReadStatus
<1>2. CASE Initialize(w)
  <2>1. LedgerChange
    BY <1>2, SetRowChanges, OwnRowTyped, PidTyped, InitializedGood DEF Initialize, Host3
  <2>2. ASSUME Runs \subseteq Runs' PROVE Busy'
    <3>1. CASE GiveUp(w, "close")
      BY <1>2, <2>2, <3>1, GiveUpBusy DEF Initialize
    <3>2. CASE /\ Goto(w, "claim") /\ UNCHANGED <<stage, result>>
               /\ todo' = [todo EXCEPT ![w] = Row(w).requested]
      <4>1. Row(w).requested \subseteq Stage
        BY <1>2, OwnRowTyped DEF Initialize, RowType
      <4>2. todo' \in [Workers -> SUBSET Stage]
        BY <3>2, <4>1 DEF Busy, WorkerTyped
      <4> QED
        BY <1>2, <2>2, <3>2, <4>2, GotoBusy DEF Initialize, Label
    <3> QED
      BY <1>2, <3>1, <3>2 DEF Initialize
  <2> QED
    BY <1>2, <2>1, <2>2, RestKept DEF Initialize
<1>3. CASE ClaimRefused(w)
  BY <1>3, SameLedger, GiveUpBusy, RestKept DEF ClaimRefused
<1>4. ASSUME NEW s \in Stage, Claim(w, s) PROVE LedgerChange /\ (Runs \subseteq Runs' => Busy' /\ RestTyped')
  <2>1. LedgerChange
    BY <1>4, SetRowChanges, OwnRowTyped, PidTyped, ClaimedGood DEF Claim, Host3
  <2>2. ASSUME Runs \subseteq Runs' PROVE Busy'
    BY <1>4, <2>2 DEF Claim, Goto, Busy, WorkerTyped, HasJob, AtStage, Label
  <2> QED
    BY <1>4, <2>1, <2>2, RestKept DEF Claim
<1>5. CASE WorkDay(w)
  <2>1. PICK o \in Outcome, c \in BOOLEAN : Worked(w, o, c)
    BY <1>5 DEF WorkDay, Outcome
  <2>2. made' \in [1..MaxRuns -> SUBSET Stage]
    BY <1>5, <2>1, WorkedMade DEF WorkDay
  <2>3. Runs \subseteq Runs' => RestTyped'
    BY <1>5, <2>2 DEF WorkDay, RestTyped
  <2> QED
    BY <1>5, <2>1, <2>3, SameLedger, WorkedBusy DEF WorkDay
<1>6. CASE StartPipeline(w)
  <2>1. lockPid' \in [Days -> Host3 \X Nat]
    BY <1>6, PidTyped DEF StartPipeline, RestTyped
  <2>2. Runs \subseteq Runs' => RestTyped'
    BY <1>6, <2>1 DEF StartPipeline, RestTyped
  <2>3. Runs \subseteq Runs' => Busy'
    BY <1>6, GotoBusy DEF StartPipeline, Label, Stage, Busy, WorkerTyped
  <2> QED
    BY <1>6, <2>2, <2>3, SameLedger DEF StartPipeline
<1>7. CASE EndPipeline(w)
  <2>1. PICK o \in Outcome, c \in BOOLEAN : Worked(w, o, c)
    BY <1>7 DEF EndPipeline, Outcome
  <2>2. made' \in [1..MaxRuns -> SUBSET Stage]
    BY <1>7, <2>1, WorkedMade DEF EndPipeline
  <2>3. lockPid' \in [Days -> Host3 \X Nat]
    BY <1>7 DEF EndPipeline, RestTyped, NoPid, Host3
  <2>4. Runs \subseteq Runs' => RestTyped'
    BY <1>7, <2>2, <2>3 DEF EndPipeline, RestTyped
  <2> QED
    BY <1>7, <2>1, <2>4, SameLedger, WorkedBusy DEF EndPipeline
<1>8. CASE WorkLater(w)
  <2>1. PICK o \in Outcome, c \in BOOLEAN : Worked(w, o, c)
    BY <1>8 DEF WorkLater, Outcome
  <2>2. made' \in [1..MaxRuns -> SUBSET Stage]
    BY <1>8, <2>1, WorkedMade DEF WorkLater
  <2>3. Runs \subseteq Runs' => RestTyped'
    BY <1>8, <2>2 DEF WorkLater, RestTyped
  <2> QED
    BY <1>8, <2>1, <2>3, SameLedger, WorkedBusy DEF WorkLater
<1>9. CASE Record(w)
  <2>1. stage[w] \in Stage /\ result[w] \in [status : Outcome, committed : BOOLEAN]
    BY <1>9 DEF Record, Busy, AtStage, WorkerTyped
  <2>2. LedgerChange
    BY <1>9, <2>1, SetRowChanges, OwnRowTyped, RecordedGood DEF Record
  <2>3. ASSUME Runs \subseteq Runs' PROVE Busy'
    <3>1. CASE todo[w] = {stage[w]}
      BY <1>9, <2>3, <3>1, GiveUpBusy DEF Record
    <3>2. CASE todo[w] # {stage[w]}
      <4>1. /\ pc' = [pc EXCEPT ![w] = "claim"] /\ stage' = [stage EXCEPT ![w] = NoStage]
            /\ todo' = [todo EXCEPT ![w] = todo[w] \ {stage[w]}]
            /\ result' = [result EXCEPT ![w] = NoResult] /\ job' = job
        BY <1>9, <3>2 DEF Record, Goto
      <4>2. todo[w] \ {stage[w]} \subseteq Stage
        BY DEF Busy, WorkerTyped
      <4>3. NoResult \in [status : Outcome, committed : BOOLEAN]
        BY DEF NoResult, Outcome
      <4>4. WorkerTyped'
        BY <2>3, <4>1, <4>2, <4>3 DEF Busy, WorkerTyped, Label
      <4>5. HasJob' /\ AtStage'
        BY <1>9, <2>3, <4>1 DEF Record, Busy, WorkerTyped, HasJob, AtStage
      <4> QED
        BY <4>4, <4>5 DEF Busy
    <3> QED
      BY <3>1, <3>2
  <2> QED
    BY <1>9, <2>2, <2>3, RestKept DEF Record
<1>10. CASE HandleError(w)
  <2>1. LedgerChange
    BY <1>10, SetRowChanges, OwnRowTyped, FlaggedGood DEF HandleError
  <2>2. ASSUME Runs \subseteq Runs' PROVE Busy'
    BY <1>10, <2>2, GotoBusy DEF HandleError, Label, Busy, WorkerTyped
  <2> QED
    BY <1>10, <2>1, <2>2, RestKept DEF HandleError
<1>11. CASE Finalize(w)
  <2>1. LedgerChange
    BY <1>11, SetRowChanges, OwnRowTyped, FinalizedGood DEF Finalize
  <2> QED
    BY <1>11, <2>1, LeaveBusy, RestKept DEF Finalize
<1> QED
  BY <1>1, <1>2, <1>3, <1>4, <1>5, <1>6, <1>7, <1>8, <1>9, <1>10, <1>11 DEF Work

LEMMA StartChanges ==
  ASSUME Typed, NEW w \in Workers, NEW r \in Runs, TakeTask(w, r) \/ Tick(w, r)
  PROVE  LedgerChange /\ Typed'
<1>1. Begin(w, r) /\ tasks' \subseteq tasks
  BY DEF TakeTask, Tick
<1>2. LedgerChange
  BY <1>1, SameLedger DEF Begin
<1>3. Runs \subseteq Runs' => Busy'
  BY <1>1 DEF Begin, Goto, Typed, Busy, WorkerTyped, HasJob, AtStage, Label
<1>4. Runs \subseteq Runs' => RestTyped'
  BY <1>1, RestKept DEF Begin, Typed
<1> QED
  BY <1>1, <1>2, <1>3, <1>4, ChangeTyped, ServerKept DEF Begin, Typed

(* A step of the event loop leaves the workers alone.                      *)
LEMMA RequestTyped ==
  ASSUME Typed, LedgerChange,
         Runs \subseteq Runs' => ServerTyped' /\ BlameKnown' /\ RestTyped',
         UNCHANGED workerVars
  PROVE  LedgerChange /\ Typed'
  BY ChangeTyped, BusyKept DEF Typed

LEMMA BlameForTyped ==
  ASSUME NEW row \in RowType PROVE BlameFor(row) \in Stage \cup {NoStage, Nobody}
  BY DEF BlameFor, RowType

LEMMA ReconcileChanges ==
  ASSUME Typed, NEW r \in Runs, NEW request \in RequestType(Runs), Reconcile(r, request)
  PROVE  LedgerChange /\ Typed'
<1>1. LedgerChange /\ Runs' = Runs
  BY SameLedger DEF Reconcile, Runs
<1>2. server' = [request EXCEPT !.at = "mark", !.run = r, !.blame = BlameFor(ledger[r])]
  BY DEF Reconcile
<1>3. ServerTyped' /\ BlameKnown'
  BY <1>1, <1>2, RowTyped, BlameForTyped DEF Typed, ServerTyped, BlameKnown, RequestType
<1>4. UNCHANGED faults \/ (faults + Weight <= MaxFaults /\ faults' = faults + Weight)
  BY DEF Reconcile, OrphanedByTime
<1>5. RestTyped'
  BY <1>1, <1>4, RestKept DEF Reconcile, Typed
<1> QED
  BY <1>1, <1>3, <1>5, RequestTyped DEF Reconcile, workerVars

LEMMA ScanForTyped ==
  ASSUME Typed, NEW plan \in SUBSET Stage, NEW timed \in BOOLEAN
  PROVE  ScanFor(plan, timed) \in RequestType(Runs)
  BY DEF ScanFor, RequestType, NoRequest, ActiveRuns

LEMMA AskChanges ==
  ASSUME Typed, NEW plan \in SUBSET Stage, NEW timed \in BOOLEAN, server' = ScanFor(plan, timed),
         UNCHANGED <<ledger, tasks, workerVars, lockPid, made, born, faults>>
  PROVE  LedgerChange /\ Typed'
<1>1. LedgerChange /\ Runs' = Runs
  BY SameLedger DEF Runs
<1>2. ServerTyped' /\ BlameKnown'
  BY <1>1, ScanForTyped DEF ServerTyped, BlameKnown, ScanFor, NoRequest
<1> QED
  BY <1>1, <1>2, RequestTyped, RestKept DEF Typed

LEMMA RequestsChange == ASSUME Typed, Requests PROVE LedgerChange /\ Typed'
<1>1. ASSUME NEW plan \in FreshPlans, NEW timed \in BOOLEAN, AskQueue(plan, timed)
      PROVE  LedgerChange /\ Typed'
  BY <1>1, AskChanges DEF AskQueue, FreshPlans, Stage
<1>2. ASSUME NEW r \in Runs, AskRetry(r) PROVE LedgerChange /\ Typed'
  <2>1. ledger[r].retry \in SUBSET Stage
    BY RowTyped DEF RowType, Typed
  <2> QED
    BY <1>2, <2>1, AskChanges DEF AskRetry
<1>3. ASSUME NEW r \in Runs, AskCancel(r) PROVE LedgerChange /\ Typed'
  <2> DEFINE request == [NoRequest EXCEPT !.kind = "cancel", !.run = r, !.at = "act"]
  <2>1. request \in RequestType(Runs)
    BY DEF RequestType, NoRequest
  <2>2. CASE Reconcile(r, request)
    BY <2>1, <2>2, ReconcileChanges
  <2>3. CASE server' = request /\ UNCHANGED <<ledger, tasks, workerVars, lockPid, made, born, faults>>
    <3>1. LedgerChange /\ Runs' = Runs
      BY <2>3, SameLedger DEF Runs
    <3>2. ServerTyped' /\ BlameKnown'
      BY <2>1, <2>3, <3>1 DEF ServerTyped, BlameKnown, NoRequest
    <3> QED
      BY <2>3, <3>1, <3>2, RequestTyped, RestKept DEF Typed
  <2> QED
    BY <1>3, <2>2, <2>3 DEF AskCancel
<1> QED
  BY <1>1, <1>2, <1>3 DEF Requests

LEMMA LookChanges == ASSUME Typed, NEW r \in Runs, Look(r) PROVE LedgerChange /\ Typed'
<1>1. [NoRequest EXCEPT !.kind = "look"] \in RequestType(Runs)
  BY DEF RequestType, NoRequest
<1> QED
  BY <1>1, ReconcileChanges DEF Look

(* One transform of the row that is reconciled or cancelled; a request that*)
(* is not for a row in the ledger changes nothing.                         *)
LEMMA TransformChanges ==
  ASSUME Typed, NEW row, server.run \in Runs => Good(ledger[server.run], row),
         ledger' = [ledger EXCEPT ![server.run] = row]
  PROVE  LedgerChange
<1>1. CASE server.run \in Runs
  BY <1>1 DEF LedgerChange, Good
<1>2. CASE server.run \notin Runs
  <2>1. ledger' = ledger
    BY <1>2, LenProperties DEF Typed, LedgerTyped, Runs
  <2> QED
    BY <2>1, SameLedger
<1> QED
  BY <1>1, <1>2

LEMMA ServeChanges == ASSUME Typed, Serve PROVE LedgerChange /\ Typed'
<1> USE DEF Typed
<1>1. server \in RequestType(Runs)
  BY DEF ServerTyped
<1>2. ASSUME NEW r \in Runs, Scan(r) PROVE LedgerChange /\ Typed'
  BY <1>1, <1>2, ReconcileChanges DEF Scan
<1>3. ASSUME NEW r \in Runs, ScanEnds(r) PROVE LedgerChange /\ Typed'
  BY <1>3, SameLedger, NoRequestTyped, RequestTyped, RestKept DEF ScanEnds
<1>4. CASE Mark
  <2>1. LedgerChange
    BY <1>4, TransformChanges, RowTyped, MarkedOrphanGood DEF Mark
  <2>2. Runs \subseteq Runs' => ServerTyped' /\ BlameKnown'
    BY <1>1, <1>4 DEF Mark, ServerTyped, BlameKnown, RequestType
  <2> QED
    BY <1>4, <2>1, <2>2, RequestTyped, RestKept DEF Mark, workerVars
<1>5. CASE Blame
  <2> DEFINE failed == [status |-> "failed", committed |-> FALSE]
             row == IF server.blame = NoStage THEN Flagged(ledger[server.run], "error")
                    ELSE Recorded(ledger[server.run], server.blame, failed)
  <2>1. server.blame # NoStage => server.blame \in Stage
    BY <1>1, <1>5 DEF Blame, BlameKnown, RequestType
  <2>2. server.run \in Runs => Good(ledger[server.run], row)
    BY <2>1, RowTyped, FlaggedGood, RecordedGood DEF Outcome
  <2>3. LedgerChange
    BY <1>5, <2>2, TransformChanges DEF Blame
  <2>4. Runs \subseteq Runs' => ServerTyped' /\ BlameKnown'
    BY <1>1, <1>5 DEF Blame, ServerTyped, BlameKnown, RequestType
  <2> QED
    BY <1>5, <2>3, <2>4, RequestTyped, RestKept DEF Blame, workerVars
<1>6. CASE Close
  <2>1. LedgerChange
    BY <1>6, TransformChanges, RowTyped, FinalizedGood DEF Close
  <2>2. ASSUME Runs \subseteq Runs' PROVE ServerTyped' /\ BlameKnown'
    <3>1. CASE server.kind = "queue"
      BY <1>1, <1>6, <2>2, <3>1 DEF Close, ServerTyped, BlameKnown, RequestType
    <3>2. CASE server.kind # "queue"
      BY <1>6, <3>2, NoRequestTyped DEF Close
    <3> QED
      BY <3>1, <3>2
  <2> QED
    BY <1>6, <2>1, <2>2, RequestTyped, RestKept DEF Close, workerVars
<1>7. CASE Insert
  <2>1. LedgerChange
    BY <1>7 DEF Insert, LedgerChange, Appended
  <2>2. Len(ledger) + 1 \in Runs'
    <3>1. Len(ledger') = Len(ledger) + 1 /\ ledger' \in Seq(RowType)
      BY <1>7, NewRowTyped, AppendProperties DEF Insert, LedgerTyped
    <3> QED
      BY <3>1, LenProperties DEF LedgerTyped, Runs
  <2>3. Runs \subseteq Runs' => RestTyped'
    BY <1>7, <2>2 DEF Insert, RestTyped
  <2> QED
    BY <1>7, <2>1, <2>3, NoRequestTyped, RequestTyped DEF Insert
<1>8. CASE Cancel
  <2>1. LedgerChange
    BY <1>8, TransformChanges, RowTyped, CancelRequestedGood DEF Cancel
  <2> QED
    BY <1>8, <2>1, NoRequestTyped, RequestTyped, RestKept DEF Cancel
<1> QED
  BY <1>2, <1>3, <1>4, <1>5, <1>6, <1>7, <1>8 DEF Serve

LEMMA FailuresChange == ASSUME Typed, Failures PROVE LedgerChange /\ Typed'
<1> USE DEF Typed
<1>1. LedgerChange /\ Runs' = Runs /\ Runs \subseteq Runs'
  BY SameLedger DEF Failures, RequestRaises, WorkerRaises, WorkerLost, Crash, Runs
<1>2. CASE RequestRaises
  BY <1>1, <1>2, NoRequestTyped, RequestTyped, RestKept DEF RequestRaises
<1>3. ASSUME NEW w \in Workers, WorkerRaises(w) PROVE LedgerChange /\ Typed'
  <2>1. Busy'
    BY <1>1, <1>3, GiveUpBusy DEF WorkerRaises
  <2>2. ServerTyped' /\ BlameKnown' /\ RestTyped'
    BY <1>1, <1>3, ServerKept, RestKept DEF WorkerRaises
  <2> QED
    BY <1>1, <2>1, <2>2, ChangeTyped
<1>4. ASSUME NEW w \in Workers, WorkerLost(w) PROVE LedgerChange /\ Typed'
  <2>1. Busy'
    BY <1>1, <1>4, LeaveBusy DEF WorkerLost
  <2>2. born' \in [Host3 -> Nat]
    BY <1>4 DEF WorkerLost, RestTyped, Host3
  <2>3. RestTyped'
    BY <1>1, <1>4, <2>2, BackfillAssumption DEF WorkerLost, RestTyped
  <2>4. ServerTyped' /\ BlameKnown'
    BY <1>1, <1>4, ServerKept DEF WorkerLost
  <2> QED
    BY <1>1, <2>1, <2>3, <2>4, ChangeTyped
<1>5. ASSUME NEW h \in {"dashboard", "timer"}, Crash(h) PROVE LedgerChange /\ Typed'
  <2>1. born' \in [Host3 -> Nat]
    BY <1>5 DEF Crash, RestTyped, Host3
  <2>2. tasks' \subseteq tasks
    BY <1>5 DEF Crash
  <2>3. RestTyped'
    BY <1>1, <1>5, <2>1, <2>2, BackfillAssumption DEF Crash, RestTyped
  <2>4. ServerTyped' /\ BlameKnown'
    BY <1>1, <1>5, ServerKept, NoRequestTyped DEF Crash
  <2>5. NoResult \in [status : Outcome, committed : BOOLEAN] /\ "idle" \in Label
    BY DEF NoResult, Outcome, Label
  <2>6. WorkerTyped'
    BY <1>1, <1>5, <2>5 DEF Crash, Busy, WorkerTyped
  <2>7. HasJob' /\ AtStage'
    BY <1>1, <1>5 DEF Crash, Busy, HasJob, AtStage
  <2> QED
    BY <1>1, <2>3, <2>4, <2>6, <2>7, ChangeTyped DEF Busy
<1> QED
  BY <1>2, <1>3, <1>4, <1>5 DEF Failures

LEMMA StutterChanges == ASSUME Typed, UNCHANGED vars PROVE LedgerChange /\ Typed'
<1>1. LedgerChange /\ Runs' = Runs
  BY SameLedger DEF vars, Runs
<1> QED
  BY <1>1, ChangeTyped, BusyKept, ServerKept, RestKept DEF vars, workerVars, Typed

LEMMA NextChanges == ASSUME Typed, [Next]_vars PROVE LedgerChange /\ Typed'
  BY RequestsChange, LookChanges, ServeChanges, StartChanges, WorkChanges, FailuresChange,
     StutterChanges DEF Next, StartRun

(* Every reachable state of the ledger, its workers and its requests has   *)
(* its type, for any number of stages, workers, runs and faults.           *)
THEOREM TypeCorrect == Spec => []TypeOK
<1>1. Typed /\ [Next]_vars => Typed'
  BY NextChanges
<1> QED
  BY <1>1, InitTyped, TypedImpliesTypeOK, PTL DEF Spec

(* ---------------------- what follows from the rows --------------------- *)
LEMMA NewRowSound == ASSUME NEW plan, NEW timed PROVE
  Sound(NewRow(plan, IF timed THEN "scheduled" ELSE "queued"))
  BY DEF Sound, NewRow, Active, Ended

AllSound == \A r \in Runs : Sound(ledger[r])

(* The rows after a step: those that were there, as transforms left them,  *)
(* and a new one after an insertion.                                       *)
LEMMA NewRuns ==
  ASSUME LedgerTyped, ServerTyped, LedgerChange, NEW r \in Runs', r \notin Runs
  PROVE  /\ Appended /\ r = Len(ledger) + 1 /\ r = Len(ledger') /\ r = Len(ledger)'
         /\ ledger'[r] = NewRow(server.plan, IF server.timed THEN "scheduled" ELSE "queued")
<1>1. Appended
  <2>1. ASSUME NEW q \in Runs, NEW new, ledger' = [ledger EXCEPT ![q] = new] PROVE Runs' = Runs
    BY <2>1 DEF Runs
  <2> QED
    BY <2>1 DEF LedgerChange, Runs
<1>2. /\ ledger' \in Seq(RowType) /\ Len(ledger') = Len(ledger) + 1
      /\ ledger'[Len(ledger) + 1]
           = NewRow(server.plan, IF server.timed THEN "scheduled" ELSE "queued")
  BY <1>1, NewRowTyped, AppendProperties DEF Appended, LedgerTyped
<1>3. Runs = 1..Len(ledger) /\ Runs' = 1..(Len(ledger) + 1) /\ Len(ledger) \in Nat
  BY <1>2, LenProperties DEF LedgerTyped, Runs
<1> QED
  BY <1>1, <1>2, <1>3

LEMMA NextSound == ASSUME Typed, AllSound, [Next]_vars PROVE AllSound'
<1>1. LedgerChange /\ LedgerTyped /\ ServerTyped
  BY NextChanges DEF Typed
<1>2. \A r \in Runs : Sound(ledger'[r])
  BY <1>1, LedgerKept DEF AllSound, Good
<1>3. \A r \in Runs' \ Runs : Sound(ledger'[r])
  BY <1>1, NewRuns, NewRowSound
<1> QED
  BY <1>2, <1>3 DEF AllSound

LEMMA SoundIsInvariant == Spec => [](Typed /\ AllSound)
<1>1. Init => AllSound
  BY DEF Init, AllSound, Runs
<1>2. Typed /\ AllSound /\ [Next]_vars => Typed' /\ AllSound'
  BY NextChanges, NextSound
<1> QED
  BY <1>1, <1>2, InitTyped, PTL DEF Spec

(* A row that has ended never changes again, for any number of workers,    *)
(* requests and faults.                                                    *)
THEOREM EndsAreFinal == Spec => EndedIsFinal
<1>1. Typed /\ [Next]_vars =>
        [\A r \in Runs : ledger[r].status \in Ended => ledger'[r] = ledger[r]]_vars
  BY NextChanges, LedgerKept DEF Typed, Good
<1> QED
  BY <1>1, SoundIsInvariant, PTL DEF Spec, EndedIsFinal

(* A cancel request that reached a live run wins the race for its end.     *)
THEOREM CancelsWin == Spec => CancelWins
<1>1. Typed /\ AllSound /\ [Next]_vars =>
        [\A r \in Runs : Cancelling(ledger[r]) /\ ledger[r].status \in Active
           => Cancelling(ledger'[r]) /\ ledger'[r].status \in {"cancel_requested", "cancelled"}]_vars
  BY NextChanges, LedgerKept DEF Typed, AllSound, Good, KeepsCancel
<1> QED
  BY <1>1, SoundIsInvariant, PTL DEF Spec, CancelWins

(* What an ended run offers for a retry is what it did not do.             *)
THEOREM RetriesAreTheRest == Spec => []RetryIsTheRest
<1>1. AllSound => RetryIsTheRest
  BY DEF AllSound, Sound, RetryIsTheRest
<1> QED
  BY <1>1, SoundIsInvariant, PTL

(* ------------------------ one active run at a time --------------------- *)
(* A request to queue holds a list with every run that is still active, and*)
(* while it holds it the only new row is its own.                          *)
ScanCovers ==
  /\ server.at = "scan" => server.kind = "queue"
  /\ server.kind = "queue" => ActiveRuns \subseteq server.scan

(* What a step does to the list: there is none afterwards, it is the same, *)
(* it was made just now, or the run that was reconciled left it.           *)
Listless == server'.kind # "queue" /\ server'.at # "scan"
SameList ==
  /\ server'.kind = server.kind /\ server'.scan = server.scan
  /\ server'.at = "scan" => server.at = "scan"
NewList ==
  /\ server'.kind = "queue" /\ server'.scan = ActiveRuns
  /\ UNCHANGED ledger /\ Len(ledger) < MaxRuns
ShorterList ==
  /\ server.kind = "queue"
  /\ server'.kind = "queue" /\ server'.scan = server.scan \ {server.run}
  /\ server.run \in Runs' => ledger'[server.run].status \in Ended

LEMMA ReconcileLists ==
  ASSUME NEW r \in Runs, NEW request \in RequestType(Runs), Reconcile(r, request)
  PROVE  server'.kind = request.kind /\ server'.scan = request.scan /\ server'.at = "mark"
  BY DEF Reconcile, RequestType

LEMMA NoRequestListless == ASSUME server' = NoRequest PROVE Listless
  BY DEF Listless, NoRequest

LEMMA ServeLists == ASSUME Typed, Serve PROVE Listless \/ SameList \/ ShorterList
<1>1. server \in RequestType(Runs)
  BY DEF Typed, ServerTyped
<1>2. ASSUME NEW r \in Runs, Scan(r) PROVE SameList
  BY <1>1, <1>2, ReconcileLists DEF Scan, SameList
<1>3. CASE Mark
  BY <1>1, <1>3 DEF Mark, SameList, RequestType
<1>4. CASE Blame
  BY <1>1, <1>4 DEF Blame, SameList, RequestType
<1>5. CASE Close /\ server.kind = "queue"
  <2>1. server'.kind = "queue" /\ server'.scan = server.scan \ {server.run}
    BY <1>1, <1>5 DEF Close, RequestType
  <2>2. ASSUME server.run \in Runs' PROVE ledger'[server.run].status \in Ended
    <3>1. Runs' = Runs /\ ledger'[server.run] = Finalized(ledger[server.run])
      BY <1>5, <2>2 DEF Close, Runs
    <3> QED
      BY <2>2, <3>1, RowTyped, FinalizedGood DEF Typed
  <2> QED
    BY <1>5, <2>1, <2>2 DEF ShorterList
<1>6. CASE Close /\ server.kind # "queue"
  BY <1>6, NoRequestListless DEF Close
<1>7. CASE Insert \/ Cancel \/ \E r \in Runs : ScanEnds(r)
  BY <1>7, NoRequestListless DEF Insert, Cancel, ScanEnds
<1> QED
  BY <1>2, <1>3, <1>4, <1>5, <1>6, <1>7 DEF Serve

LEMMA NextLists ==
  ASSUME Typed, [Next]_vars PROVE Listless \/ SameList \/ NewList \/ ShorterList
<1>1. ASSUME NEW plan, NEW timed, AskQueue(plan, timed) PROVE NewList
  BY <1>1 DEF AskQueue, ScanFor, NoRequest, NewList
<1>2. ASSUME NEW r \in Runs, AskRetry(r) PROVE NewList
  BY <1>2 DEF AskRetry, ScanFor, NoRequest, NewList
<1>3. ASSUME NEW r \in Runs, AskCancel(r) PROVE Listless
  <2> DEFINE request == [NoRequest EXCEPT !.kind = "cancel", !.run = r, !.at = "act"]
  <2>1. request \in RequestType(Runs) /\ request.kind = "cancel" /\ request.at = "act"
    BY DEF RequestType, NoRequest
  <2> QED
    BY <1>3, <2>1, ReconcileLists DEF AskCancel, Listless
<1>4. ASSUME NEW r \in Runs, Look(r) PROVE Listless
  <2> DEFINE request == [NoRequest EXCEPT !.kind = "look"]
  <2>1. request \in RequestType(Runs) /\ request.kind = "look"
    BY DEF RequestType, NoRequest
  <2> QED
    BY <1>4, <2>1, ReconcileLists DEF Look, Listless
<1>5. CASE UNCHANGED server
  BY <1>5 DEF SameList
<1>6. CASE Failures
  BY <1>5, <1>6, NoRequestListless DEF Failures, RequestRaises, WorkerRaises, WorkerLost, Crash
<1>7. CASE StartRun
  BY <1>5, <1>7 DEF StartRun, TakeTask, Tick, Begin
<1>8. ASSUME NEW w \in Workers, Work(w) PROVE UNCHANGED server
  BY <1>8 DEF Work, ReadStatus, Initialize, ClaimRefused, Claim, WorkDay, StartPipeline,
     EndPipeline, WorkLater, Record, HandleError, Finalize
<1> QED
  BY <1>1, <1>2, <1>3, <1>4, <1>5, <1>6, <1>7, <1>8, ServeLists DEF Next, Requests, vars

(* Only a new row is active that was not active before.                    *)
LEMMA ActiveKept ==
  ASSUME Typed, [Next]_vars, NEW r \in ActiveRuns', r \notin ActiveRuns
  PROVE  r \in Runs' /\ r \notin Runs /\ Appended /\ r = Len(ledger)'
<1>1. LedgerChange /\ LedgerTyped /\ ServerTyped
  BY NextChanges DEF Typed
<1>2. r \in Runs' /\ ledger'[r].status \in Active
  BY DEF ActiveRuns
<1>3. r \notin Runs
  <2>1. SUFFICES ASSUME r \in Runs PROVE FALSE
    OBVIOUS
  <2>2. Good(ledger[r], ledger'[r]) /\ ledger[r].status \notin Active
    BY <1>1, <2>1, LedgerKept DEF ActiveRuns
  <2>3. ledger[r].status \in Ended
    BY <1>1, <2>1, <2>2, RowTyped, StatusSplit
  <2> QED
    BY <1>2, <2>2, <2>3 DEF Good
<1> QED
  BY <1>1, <1>2, <1>3, NewRuns

LEMMA NextScanCovers == ASSUME Typed, ScanCovers, [Next]_vars PROVE ScanCovers'
<1>1. CASE Listless
  BY <1>1 DEF Listless, ScanCovers
<1>2. CASE ~Listless
  <2>1. ~Appended
    BY <1>2, NoRequestListless DEF Appended
  <2>2. ActiveRuns' \subseteq ActiveRuns
    BY <2>1, ActiveKept
  <2>3. CASE SameList
    BY <2>2, <2>3 DEF SameList, ScanCovers
  <2>4. CASE NewList
    BY <2>2, <2>4 DEF NewList, ScanCovers
  <2>5. CASE ShorterList
    <3>1. ASSUME NEW r \in ActiveRuns' PROVE r # server.run
      BY <2>5, <3>1 DEF ShorterList, ActiveRuns, Active, Ended
    <3> QED
      BY <2>2, <2>5, <3>1 DEF ShorterList, ScanCovers
  <2> QED
    BY <1>2, <2>3, <2>4, <2>5, NextLists
<1> QED
  BY <1>1, <1>2

LEMMA LengthKept ==
  ASSUME Typed, LedgerChange, ~Appended PROVE Len(ledger') = Len(ledger)
<1>1. CASE ledger' = ledger
  BY <1>1
<1>2. CASE \E q \in Runs, new \in RowType : ledger' = [ledger EXCEPT ![q] = new]
  BY <1>2, ExceptSeq DEF Typed, LedgerTyped, Runs
<1> QED
  BY <1>1, <1>2 DEF LedgerChange

LEMMA NextNewest ==
  ASSUME Typed, ScanCovers, OnlyTheNewestIsActive, [Next]_vars PROVE OnlyTheNewestIsActive'
<1>1. SUFFICES ASSUME NEW r \in Runs', ledger'[r].status \in Active PROVE r = Len(ledger)'
  BY DEF OnlyTheNewestIsActive
<1>2. r \in ActiveRuns'
  BY <1>1 DEF ActiveRuns
<1>3. CASE r \notin ActiveRuns
  BY <1>2, <1>3, ActiveKept
<1>4. CASE r \in ActiveRuns
  <2>1. r = Len(ledger) /\ r \in Runs
    BY <1>4 DEF ActiveRuns, OnlyTheNewestIsActive
  <2>2. ~Appended
    BY <1>4 DEF Appended, ScanCovers
  <2>3. Len(ledger') = Len(ledger)
    BY <2>2, LengthKept, NextChanges
  <2> QED
    BY <2>1, <2>3
<1> QED
  BY <1>3, <1>4

LEMMA NewestIsInvariant == Spec => [](Typed /\ ScanCovers /\ OnlyTheNewestIsActive)
<1>1. Init => ScanCovers /\ OnlyTheNewestIsActive
  BY DEF Init, ScanCovers, OnlyTheNewestIsActive, NoRequest, Runs
<1>2. Typed /\ ScanCovers /\ OnlyTheNewestIsActive /\ [Next]_vars
        => Typed' /\ ScanCovers' /\ OnlyTheNewestIsActive'
  BY NextChanges, NextScanCovers, NextNewest
<1> QED
  BY <1>1, <1>2, InitTyped, PTL DEF Spec

(* However requests, workers and reconciliations interleave, only the      *)
(* newest run is ever active.                                              *)
THEOREM OneActiveRun == Spec => []OnlyTheNewestIsActive
  BY NewestIsInvariant, PTL

(* ----------------------- where a stage is started ---------------------- *)
StartsStage(w) == pc[w] = "claim" /\ pc'[w] = "work"

(* Only a claim starts a stage; no other step takes a worker there.        *)
LEMMA OnlyClaimStarts ==
  ASSUME Typed, [Next]_vars, NEW w \in Workers, StartsStage(w)
  PROVE  \E s \in Stage : Claim(w, s)
<1>1. pc \in [Workers -> Label]
  BY DEF Typed, Busy, WorkerTyped
<1>2. ~ UNCHANGED pc
  BY DEF StartsStage
<1>3. ~ Requests /\ ~ (\E r \in Runs : Look(r)) /\ ~ Serve
  BY <1>2 DEF Requests, AskQueue, AskRetry, AskCancel, Look, Reconcile, Serve, Scan, ScanEnds,
     Mark, Blame, Close, Insert, Cancel, workerVars
<1>4. ~ StartRun
  BY <1>1 DEF StartRun, TakeTask, Tick, Begin, Goto, StartsStage
<1>5. ~ Failures
  BY <1>1, <1>2 DEF Failures, RequestRaises, WorkerRaises, WorkerLost, Crash, GiveUp, Leave,
     Goto, StartsStage, workerVars
<1>6. PICK v \in Workers : Work(v)
  BY <1>2, <1>3, <1>4, <1>5 DEF Next, vars, workerVars
<1>7. ASSUME NEW s \in Stage, Claim(v, s) PROVE v = w
  BY <1>1, <1>7 DEF Claim, Goto, StartsStage
<1>8. ~ (ReadStatus(v) \/ Initialize(v) \/ ClaimRefused(v))
  BY <1>1 DEF ReadStatus, Initialize, ClaimRefused, Leave, GiveUp, Goto, StartsStage
<1>9. ~ (WorkDay(v) \/ StartPipeline(v) \/ EndPipeline(v) \/ WorkLater(v))
  BY <1>1 DEF WorkDay, StartPipeline, EndPipeline, WorkLater, Worked, Goto, StartsStage
<1>10. ~ (Record(v) \/ HandleError(v) \/ Finalize(v))
  BY <1>1 DEF Record, HandleError, Finalize, Leave, GiveUp, Goto, StartsStage
<1> QED
  BY <1>6, <1>7, <1>8, <1>9, <1>10 DEF Work

LEMMA StageStartSafe ==
  ASSUME Typed, OnlyTheNewestIsActive, [Next]_vars, NEW w \in Workers, StartsStage(w)
  PROVE  /\ job[w] = Len(ledger)
         /\ ledger'[job[w]].status = "running" /\ ~ledger[job[w]].cancel
<1>1. PICK s \in Stage : Claim(w, s)
  BY OnlyClaimStarts
<1>2. job[w] \in Runs /\ Row(w) \in RowType
  BY <1>1, OwnRowTyped DEF Claim, Typed, Busy, HasJob
<1>3. Row(w).status \in Active /\ ~Row(w).cancel
  BY <1>1, <1>2, StatusSplit DEF Claim, Cancelling
<1>4. job[w] = Len(ledger)
  BY <1>2, <1>3 DEF OnlyTheNewestIsActive, Row
<1>5. ledger'[job[w]] = Claimed(Row(w), s, Pid(w))
  BY <1>1, <1>2 DEF Claim, SetRow, Runs
<1>6. ledger'[job[w]].status = "running"
  BY <1>2, <1>5 DEF Claimed, RowType
<1> QED
  BY <1>3, <1>4, <1>6 DEF Row

(* A stage is started only in the newest run, while it is running and not  *)
(* asked to stop, whatever happened to the worker's run meanwhile.         *)
THEOREM StagesStartSafely == Spec => StagesStartInTheActiveRun
<1>1. Typed /\ OnlyTheNewestIsActive /\ [Next]_vars =>
        [\A w \in Workers : pc[w] = "claim" /\ pc'[w] = "work"
           => /\ job[w] = Len(ledger)
              /\ ledger'[job[w]].status = "running" /\ ~ledger[job[w]].cancel]_vars
  BY StageStartSafe DEF StartsStage
<1> QED
  BY <1>1, NewestIsInvariant, PTL DEF Spec, StagesStartInTheActiveRun

(* --------------------- what the ledger claims is there ----------------- *)
(* A row claims no stage but those in m; a step that is not a record lets  *)
(* a row claim no more than it did.                                        *)
Real(row, m) ==
  /\ row.committed \subseteq m
  /\ \A s \in Stage : row.outcome[s] = "completed" => s \in m

ClaimsNoMore(old, new) ==
  /\ new.committed \subseteq old.committed
  /\ \A s \in Stage : new.outcome[s] = "completed" => old.outcome[s] = "completed"

AllReal == \A r \in Runs : Real(ledger[r], made[r])
ResultsReal ==
  \A w \in Workers :
    pc[w] = "record" /\ (result[w].status = "completed" \/ result[w].committed)
      => stage[w] \in made[job[w]]
WithinBound ==
  /\ Len(ledger) <= MaxRuns
  /\ server.kind = "queue" => Len(ledger) < MaxRuns

MadeGrows == \A r \in Runs : made[r] \subseteq made'[r]
RowsClaimNoMore == \A r \in Runs : ClaimsNoMore(ledger[r], ledger'[r])
RowsReal == \A r \in Runs : Real(ledger'[r], made'[r])

LEMMA TransformsClaimNoMore ==
  ASSUME NEW row \in RowType, NEW pid, NEW s
  PROVE  /\ ClaimsNoMore(row, row)
         /\ ClaimsNoMore(row, Initialized(row, pid)) /\ ClaimsNoMore(row, Claimed(row, s, pid))
         /\ ClaimsNoMore(row, Flagged(row, "error")) /\ ClaimsNoMore(row, MarkedOrphan(row))
         /\ ClaimsNoMore(row, CancelRequested(row)) /\ ClaimsNoMore(row, Finalized(row))
<1>1. ClaimsNoMore(row, Initialized(row, pid)) /\ ClaimsNoMore(row, Claimed(row, s, pid))
  BY DEF ClaimsNoMore, Initialized, Claimed, RowType
<1>2. ClaimsNoMore(row, Flagged(row, "error")) /\ ClaimsNoMore(row, MarkedOrphan(row))
  BY DEF ClaimsNoMore, Flagged, MarkedOrphan, RowType
<1>3. ClaimsNoMore(row, CancelRequested(row)) /\ ClaimsNoMore(row, Finalized(row))
  BY DEF ClaimsNoMore, CancelRequested, Finalized, RowType
<1> QED
  BY <1>1, <1>2, <1>3 DEF ClaimsNoMore

LEMMA BlamedClaimsNoMore ==
  ASSUME NEW row \in RowType, NEW s
  PROVE  ClaimsNoMore(row, Recorded(row, s, [status |-> "failed", committed |-> FALSE]))
  BY DEF ClaimsNoMore, Recorded, RowType

LEMMA RecordedReal ==
  ASSUME NEW row \in RowType, NEW s \in Stage, NEW o \in [status : Outcome, committed : BOOLEAN],
         NEW m, Real(row, m), o.status = "completed" \/ o.committed => s \in m
  PROVE  Real(Recorded(row, s, o), m)
<1>1. CASE row.status \in Ended
  BY <1>1 DEF Recorded
<1>2. CASE row.status \notin Ended
  <2>1. /\ Recorded(row, s, o).outcome = [row.outcome EXCEPT ![s] = o.status]
        /\ Recorded(row, s, o).committed
             = IF o.committed THEN row.committed \cup {s} ELSE row.committed \ {s}
    BY <1>2 DEF Recorded, RowType
  <2> QED
    BY <2>1 DEF Real, RowType
<1> QED
  BY <1>1, <1>2

LEMMA NoMoreIsReal ==
  ASSUME AllReal, RowsClaimNoMore, MadeGrows PROVE RowsReal
<1>1. ASSUME NEW r \in Runs PROVE Real(ledger'[r], made'[r])
  <2>1. /\ Real(ledger[r], made[r]) /\ ClaimsNoMore(ledger[r], ledger'[r])
        /\ made[r] \subseteq made'[r]
    BY DEF AllReal, RowsClaimNoMore, MadeGrows
  <2> QED
    BY <2>1 DEF Real, ClaimsNoMore
<1> QED
  BY <1>1 DEF RowsReal

LEMMA OneRowClaimsNoMore ==
  ASSUME Typed, NEW r, NEW new, ledger' = [ledger EXCEPT ![r] = new],
         r \in Runs => ClaimsNoMore(ledger[r], new)
  PROVE  RowsClaimNoMore
<1>1. ASSUME NEW q \in Runs PROVE ClaimsNoMore(ledger[q], ledger'[q])
  <2>1. ledger'[q] = IF q = r THEN new ELSE ledger[q]
    BY DEF Runs
  <2> QED
    BY <2>1 DEF ClaimsNoMore
<1> QED
  BY <1>1 DEF RowsClaimNoMore

LEMMA SameLedgerClaimsNoMore == ASSUME UNCHANGED ledger PROVE RowsClaimNoMore
  BY DEF RowsClaimNoMore, ClaimsNoMore

LEMMA NextWithinBound ==
  ASSUME Typed, ScanCovers, WithinBound, [Next]_vars PROVE WithinBound'
<1>1. LedgerChange /\ Len(ledger) \in Nat /\ MaxRuns \in Nat
  BY NextChanges, LenProperties, BackfillAssumption DEF Typed, LedgerTyped
<1>2. CASE Appended
  <2>1. Len(ledger') = Len(ledger) + 1
    BY <1>2, NewRowTyped, AppendProperties DEF Appended, Typed, LedgerTyped
  <2>2. server.kind = "queue" /\ server'.kind = "none"
    BY <1>2 DEF Appended, ScanCovers, NoRequest
  <2> QED
    BY <1>1, <2>1, <2>2 DEF WithinBound
<1>3. CASE ~Appended
  <2>1. Len(ledger') = Len(ledger)
    BY <1>1, <1>3, LengthKept
  <2>2. server'.kind = "queue" => Len(ledger) < MaxRuns
    BY NextLists DEF Listless, SameList, NewList, ShorterList, WithinBound
  <2> QED
    BY <2>1, <2>2 DEF WithinBound
<1> QED
  BY <1>2, <1>3

LEMMA JobWithinBound ==
  ASSUME Typed, WithinBound, NEW w \in Workers, pc[w] # "idle"
  PROVE  job[w] \in Runs /\ job[w] \in 1..MaxRuns
<1>1. job[w] \in 1..Len(ledger)
  BY LenProperties DEF Typed, LedgerTyped, Busy, HasJob, Runs
<1> QED
  BY <1>1, LenProperties, BackfillAssumption
     DEF Typed, LedgerTyped, WithinBound, Busy, HasJob, Runs

(* Workers that come to no new result keep the one they have.              *)
NoNewResult ==
  \A w \in Workers : pc'[w] = "record" =>
    /\ pc[w] = "record" /\ result'[w] = result[w]
    /\ stage'[w] = stage[w] /\ job'[w] = job[w]

LEMMA SameWorkersNoResult == ASSUME UNCHANGED workerVars PROVE NoNewResult
  BY DEF NoNewResult, workerVars

LEMMA LeaveNoResult ==
  ASSUME Typed, NEW w \in Workers, Leave(w) PROVE NoNewResult
  BY DEF Typed, Busy, WorkerTyped, Leave, NoNewResult

LEMMA GiveUpNoResult ==
  ASSUME Typed, NEW w \in Workers, NEW l, l # "record", GiveUp(w, l), UNCHANGED job
  PROVE  NoNewResult
  BY DEF Typed, Busy, WorkerTyped, GiveUp, Goto, NoNewResult

LEMMA GotoNoResult ==
  ASSUME Typed, NEW w \in Workers, NEW l, l # "record", Goto(w, l),
         UNCHANGED result, \A v \in Workers : v # w => stage'[v] = stage[v] /\ job'[v] = job[v]
  PROVE  NoNewResult
  BY DEF Typed, Busy, WorkerTyped, Goto, NoNewResult

LEMMA ResultsKept ==
  ASSUME Typed, ResultsReal, MadeGrows, NoNewResult
  PROVE  ResultsReal'
<1>1. SUFFICES ASSUME NEW w \in Workers, pc'[w] = "record",
                      result'[w].status = "completed" \/ result'[w].committed
               PROVE  stage'[w] \in made'[job'[w]]
  BY DEF ResultsReal
<1>2. stage[w] \in made[job[w]] /\ job[w] \in Runs
  BY <1>1 DEF ResultsReal, NoNewResult, Typed, Busy, HasJob
<1> QED
  BY <1>1, <1>2 DEF MadeGrows, NoNewResult

LEMMA WorkedReal ==
  ASSUME Typed, ResultsReal, WithinBound, NEW w \in Workers, NEW o, NEW c \in BOOLEAN,
         Worked(w, o, c), o = "completed" => c, pc[w] \in {"work", "pipeline"},
         UNCHANGED <<job, stage>>
  PROVE  MadeGrows /\ ResultsReal'
<1>1. job[w] \in 1..MaxRuns /\ made \in [1..MaxRuns -> SUBSET Stage]
  BY JobWithinBound DEF Typed, RestTyped
<1>2. made' = IF c THEN [made EXCEPT ![job[w]] = made[job[w]] \cup {stage[w]}] ELSE made
  BY DEF Worked
<1>3. (c => stage[w] \in made'[job[w]]) /\ \A r : r \in 1..MaxRuns => made[r] \subseteq made'[r]
  BY <1>1, <1>2
<1>4. Runs \subseteq 1..MaxRuns
  BY LenProperties, BackfillAssumption DEF Typed, LedgerTyped, WithinBound, Runs
<1>5. MadeGrows
  BY <1>3, <1>4 DEF MadeGrows
<1>6. ASSUME NEW v \in Workers, pc'[v] = "record",
             result'[v].status = "completed" \/ result'[v].committed
      PROVE  stage[v] \in made'[job[v]]
  <2>1. pc \in [Workers -> Label] /\ result \in [Workers -> [status : Outcome, committed : BOOLEAN]]
    BY DEF Typed, Busy, WorkerTyped
  <2>2. CASE v = w
    <3>1. result'[w] = [status |-> o, committed |-> c]
      BY <2>1 DEF Worked
    <3> QED
      BY <1>3, <1>6, <2>2, <3>1
  <2>3. CASE v # w
    <3>1. pc[v] = "record" /\ result'[v] = result[v]
      BY <1>6, <2>1, <2>3 DEF Worked, Goto
    <3>2. stage[v] \in made[job[v]] /\ job[v] \in Runs
      BY <1>6, <3>1 DEF ResultsReal, Typed, Busy, HasJob
    <3> QED
      BY <1>5, <3>2 DEF MadeGrows
  <2> QED
    BY <2>2, <2>3
<1> QED
  BY <1>5, <1>6 DEF ResultsReal

(* Steps that write nothing: rows claim no more, workers keep results.     *)
LEMMA QuietReal ==
  ASSUME Typed, AllReal, ResultsReal, RowsClaimNoMore, UNCHANGED made, NoNewResult
  PROVE  RowsReal /\ ResultsReal'
<1>1. MadeGrows
  BY DEF MadeGrows
<1> QED
  BY <1>1, NoMoreIsReal, ResultsKept

LEMMA ServeReal ==
  ASSUME Typed, AllReal, ResultsReal, Serve PROVE RowsReal /\ ResultsReal'
<1>1. UNCHANGED <<workerVars, made>>
  BY DEF Serve, Scan, ScanEnds, Reconcile, Mark, Blame, Close, Insert, Cancel
<1>2. ASSUME NEW r \in Runs, Scan(r) \/ ScanEnds(r) PROVE RowsClaimNoMore
  BY <1>2, SameLedgerClaimsNoMore DEF Scan, ScanEnds, Reconcile
<1>3. Mark \/ Close \/ Cancel => RowsClaimNoMore
  BY OneRowClaimsNoMore, TransformsClaimNoMore, RowTyped DEF Mark, Close, Cancel, Typed
<1>4. ASSUME Blame PROVE RowsClaimNoMore
  <2> DEFINE failed == [status |-> "failed", committed |-> FALSE]
             row == IF server.blame = NoStage THEN Flagged(ledger[server.run], "error")
                    ELSE Recorded(ledger[server.run], server.blame, failed)
  <2>1. ASSUME server.run \in Runs PROVE ClaimsNoMore(ledger[server.run], row)
    <3>1. ledger[server.run] \in RowType
      BY <2>1, RowTyped DEF Typed
    <3>2. ClaimsNoMore(ledger[server.run], Flagged(ledger[server.run], "error"))
      BY <3>1 DEF ClaimsNoMore, Flagged, RowType
    <3> QED
      BY <3>1, <3>2, BlamedClaimsNoMore
  <2>2. ledger' = [ledger EXCEPT ![server.run] = row]
    BY <1>4 DEF Blame
  <2> HIDE DEF row
  <2> QED
    BY <2>1, <2>2, OneRowClaimsNoMore
<1>5. ASSUME Insert PROVE RowsClaimNoMore
  BY <1>5, NewRowTyped, AppendProperties, LenProperties
     DEF Insert, RowsClaimNoMore, ClaimsNoMore, Typed, LedgerTyped, Runs
<1> QED
  BY <1>1, <1>2, <1>3, <1>4, <1>5, SameWorkersNoResult, QuietReal DEF Serve

LEMMA RecordReal ==
  ASSUME Typed, AllReal, ResultsReal, NEW w \in Workers, Record(w)
  PROVE  RowsReal /\ ResultsReal'
<1>1. /\ job[w] \in Runs /\ stage[w] \in Stage /\ Row(w) \in RowType
      /\ result[w] \in [status : Outcome, committed : BOOLEAN]
      /\ pc \in [Workers -> Label]
  BY OwnRowTyped DEF Record, Typed, Busy, HasJob, AtStage, WorkerTyped
<1>2. result[w].status = "completed" \/ result[w].committed => stage[w] \in made[job[w]]
  BY DEF Record, ResultsReal
<1>3. Real(Row(w), made[job[w]])
  BY <1>1 DEF AllReal, Row
<1>4. Real(Recorded(Row(w), stage[w], result[w]), made[job[w]])
  BY <1>1, <1>2, <1>3, RecordedReal
<1>5. ASSUME NEW r \in Runs PROVE Real(ledger'[r], made'[r])
  <2>1. ledger'[r] = IF r = job[w] THEN Recorded(Row(w), stage[w], result[w]) ELSE ledger[r]
    BY DEF Record, SetRow, Runs
  <2>2. made'[r] = made[r] /\ Real(ledger[r], made[r])
    BY DEF Record, AllReal
  <2> QED
    BY <1>4, <2>1, <2>2
<1>6. NoNewResult
  BY <1>1, GiveUpNoResult DEF Record, Goto, NoNewResult, Typed, Busy, WorkerTyped
<1>7. MadeGrows
  BY DEF Record, MadeGrows
<1> QED
  BY <1>5, <1>6, <1>7, ResultsKept DEF RowsReal

LEMMA WorkReal ==
  ASSUME Typed, AllReal, ResultsReal, WithinBound, NEW w \in Workers, Work(w)
  PROVE  RowsReal /\ ResultsReal'
<1>1. stage \in [Workers -> Stage \cup {NoStage}]
  BY DEF Typed, Busy, WorkerTyped
<1>2. pc[w] # "idle" => Row(w) \in RowType
  BY OwnRowTyped DEF Typed
<1>3. CASE ReadStatus(w) \/ ClaimRefused(w)
  <2>1. RowsClaimNoMore /\ UNCHANGED made
    BY <1>3, SameLedgerClaimsNoMore DEF ReadStatus, ClaimRefused
  <2>2. NoNewResult
    BY <1>3, LeaveNoResult, GiveUpNoResult, GotoNoResult DEF ReadStatus, ClaimRefused
  <2> QED
    BY <2>1, <2>2, QuietReal
<1>4. CASE Initialize(w)
  <2>1. RowsClaimNoMore /\ UNCHANGED made
    BY <1>2, <1>4, OneRowClaimsNoMore, TransformsClaimNoMore DEF Initialize, SetRow, Row
  <2>2. NoNewResult
    BY <1>4, GiveUpNoResult, GotoNoResult DEF Initialize
  <2> QED
    BY <2>1, <2>2, QuietReal
<1>5. ASSUME NEW s \in Stage, Claim(w, s) PROVE RowsReal /\ ResultsReal'
  <2>1. RowsClaimNoMore /\ UNCHANGED made
    BY <1>2, <1>5, OneRowClaimsNoMore, TransformsClaimNoMore DEF Claim, SetRow, Row
  <2>2. \A v \in Workers : v # w => stage'[v] = stage[v]
    BY <1>1, <1>5 DEF Claim
  <2>3. NoNewResult
    BY <1>5, <2>2, GotoNoResult DEF Claim
  <2> QED
    BY <2>1, <2>3, QuietReal
<1>6. CASE WorkDay(w) \/ EndPipeline(w) \/ WorkLater(w)
  <2>1. PICK o \in Outcome, c \in BOOLEAN : Worked(w, o, c) /\ (o = "completed" => c)
    BY <1>6 DEF WorkDay, EndPipeline, WorkLater, Outcome
  <2>2. MadeGrows /\ ResultsReal'
    BY <1>6, <2>1, WorkedReal DEF WorkDay, EndPipeline, WorkLater
  <2>3. RowsClaimNoMore
    BY <1>6, SameLedgerClaimsNoMore DEF WorkDay, EndPipeline, WorkLater
  <2> QED
    BY <2>2, <2>3, NoMoreIsReal
<1>7. CASE StartPipeline(w)
  <2>1. RowsClaimNoMore /\ UNCHANGED made
    BY <1>7, SameLedgerClaimsNoMore DEF StartPipeline
  <2> QED
    BY <1>7, <2>1, GotoNoResult, QuietReal DEF StartPipeline
<1>8. CASE HandleError(w)
  <2>1. RowsClaimNoMore /\ UNCHANGED made
    BY <1>2, <1>8, OneRowClaimsNoMore, TransformsClaimNoMore DEF HandleError, SetRow, Row
  <2> QED
    BY <1>8, <2>1, GotoNoResult, QuietReal DEF HandleError
<1>9. CASE Finalize(w)
  <2>1. RowsClaimNoMore /\ UNCHANGED made
    BY <1>2, <1>9, OneRowClaimsNoMore, TransformsClaimNoMore DEF Finalize, SetRow, Row
  <2> QED
    BY <1>9, <2>1, LeaveNoResult, QuietReal DEF Finalize
<1> QED
  BY <1>3, <1>4, <1>5, <1>6, <1>7, <1>8, <1>9, RecordReal DEF Work

LEMMA OthersReal ==
  ASSUME Typed, AllReal, ResultsReal, Requests \/ (\E r \in Runs : Look(r)) \/ StartRun
                                      \/ Failures \/ UNCHANGED vars
  PROVE  RowsReal /\ ResultsReal'
<1>1. UNCHANGED <<ledger, made>>
  BY DEF Requests, AskQueue, AskRetry, AskCancel, Look, Reconcile, StartRun, TakeTask, Tick,
     Begin, Failures, RequestRaises, WorkerRaises, WorkerLost, Crash, vars
<1>2. NoNewResult => RowsReal /\ ResultsReal'
  BY <1>1, SameLedgerClaimsNoMore, QuietReal
<1>3. CASE Requests \/ (\E r \in Runs : Look(r)) \/ UNCHANGED vars
  BY <1>2, <1>3, SameWorkersNoResult DEF Requests, AskQueue, AskRetry, AskCancel, Look,
     Reconcile, vars, workerVars
<1>4. ASSUME NEW w \in Workers, NEW r \in Runs, TakeTask(w, r) \/ Tick(w, r) PROVE NoNewResult
  <2>1. Begin(w, r) /\ job \in [Workers -> Runs \cup {0}]
    BY <1>4 DEF TakeTask, Tick, Typed, Busy, WorkerTyped
  <2> QED
    BY <2>1, GotoNoResult DEF Begin
<1>5. ASSUME RequestRaises PROVE NoNewResult
  BY <1>5, SameWorkersNoResult DEF RequestRaises
<1>6. ASSUME NEW w \in Workers, WorkerRaises(w) \/ WorkerLost(w) PROVE NoNewResult
  BY <1>6, GiveUpNoResult, LeaveNoResult DEF WorkerRaises, WorkerLost
<1>7. ASSUME NEW h, Crash(h) PROVE NoNewResult
  BY <1>7 DEF Crash, NoNewResult
<1>8. StartRun => RowsReal /\ ResultsReal'
  BY <1>2, <1>4 DEF StartRun
<1>9. Failures => RowsReal /\ ResultsReal'
  BY <1>2, <1>5, <1>6, <1>7 DEF Failures
<1> QED
  BY <1>3, <1>8, <1>9

LEMMA NextReal ==
  ASSUME Typed, AllReal, ResultsReal, WithinBound, [Next]_vars
  PROVE  AllReal' /\ ResultsReal'
<1>1. RowsReal /\ ResultsReal'
  BY OthersReal, ServeReal, WorkReal DEF Next
<1>2. LedgerChange /\ LedgerTyped /\ ServerTyped
  BY NextChanges DEF Typed
<1>3. ASSUME NEW r \in Runs' PROVE Real(ledger'[r], made'[r])
  <2>1. CASE r \in Runs
    BY <1>1, <2>1 DEF RowsReal
  <2>2. CASE r \notin Runs
    <3>1. ledger'[r] = NewRow(server.plan, IF server.timed THEN "scheduled" ELSE "queued")
      BY <1>2, <2>2, NewRuns
    <3> QED
      BY <3>1 DEF Real, NewRow
  <2> QED
    BY <2>1, <2>2
<1> QED
  BY <1>1, <1>3 DEF AllReal

(* A row that is sound and claims nothing but what is there.               *)
LEMMA RealCompleted ==
  ASSUME Typed, AllSound, AllReal PROVE CompletedIsReal
<1>1. SUFFICES ASSUME NEW r \in Runs
      PROVE  /\ ledger[r].committed \subseteq made[r]
             /\ \A s \in Stage : ledger[r].outcome[s] = "completed" => s \in made[r]
             /\ ledger[r].status = "completed" =>
                  \A s \in ledger[r].requested : s \in made[r] \/ ledger[r].outcome[s] = "skipped"
  BY DEF CompletedIsReal
<1>2. ledger[r] \in RowType /\ Sound(ledger[r]) /\ Real(ledger[r], made[r])
  BY RowTyped DEF Typed, AllSound, AllReal
<1>3. ASSUME ledger[r].status = "completed", NEW s \in ledger[r].requested
      PROVE  s \in Stage /\ ledger[r].outcome[s] \in {"completed", "skipped"}
  BY <1>2, <1>3 DEF Sound, Undone, RowType
<1> QED
  BY <1>2, <1>3 DEF Real

(* The ledger claims no work nobody did, and a completed run did all it    *)
(* was asked for, whichever workers died, raised or came late.             *)
THEOREM CompletedRunsAreReal == Spec => []CompletedIsReal
<1>1. Init => AllReal /\ ResultsReal /\ WithinBound
  BY BackfillAssumption DEF Init, AllReal, ResultsReal, WithinBound, Runs, NoRequest
<1> DEFINE Inv == /\ Typed /\ AllSound /\ ScanCovers
                  /\ AllReal /\ ResultsReal /\ WithinBound
<1>2. Init => Inv
  BY <1>1, InitTyped DEF Init, AllSound, ScanCovers, Runs, NoRequest
<1>3. Inv /\ [Next]_vars => Inv'
  BY NextChanges, NextSound, NextScanCovers, NextReal, NextWithinBound
<1>4. Inv => CompletedIsReal
  BY RealCompleted
<1> QED
  BY <1>2, <1>3, <1>4, PTL DEF Spec

=============================================================================
