--------------------------- MODULE HistoryBackfill ---------------------------
(***************************************************************************)
(* The ledger of historical backfills: one row of ingestion_runs per run,  *)
(* changed only by compare-and-set transforms (refresh.py:148-206), so a   *)
(* transform is one atomic step here.  Three kinds of actor change rows:   *)
(* the dashboard's event loop (queue, retry, cancel, look, and the         *)
(* reconciliation of orphans inside each of them), the background threads  *)
(* of the dashboard, and the two places that run due scheduled backfills,  *)
(* the dashboard's own scheduler loop and the scheduled refresh process.   *)
(* Progress, labels, counters and error texts of the metadata are left     *)
(* out, and so are the artifacts inside one period.                        *)
(***************************************************************************)
EXTENDS Naturals, Sequences, FiniteSets

CONSTANTS
  Days, Later,              \* the stages: days, and the snapshot and periods after them
  NoStage,                  \* no stage was claimed yet
  Threads, Tickers,         \* background threads; who looks for due scheduled runs
  Timer,                    \* the ticker that is a process of its own
  Suspends,                 \* can a run be overdue though somebody attends to it?
  MaxRuns,                  \* bound: rows ever inserted
  MaxFaults,                \* bound: exceptions, deaths of a process, such runs
  Weight                    \* what of it an exception or such a run takes; a death takes 1

Stage == Days \cup Later
Workers == Threads \cup Tickers

ASSUME BackfillAssumption ==
  /\ NoStage \notin Stage
  /\ Days \cap Later = {}
  /\ Timer \notin Threads
  /\ Suspends \in BOOLEAN
  /\ {MaxRuns, MaxFaults, Weight} \subseteq Nat

VARIABLES
  ledger,   \* the rows, in order of their ids
  tasks,    \* runs whose background task was added and did not start
  pc, job, stage, todo, result,  \* per worker: its place in run_history_backfill
  lockPid,  \* per day: the process id in its daily-pipeline lock file
  made,     \* per run: the stages whose artifacts its workers wrote
  server,   \* the event loop's request: kind, place, the run it reconciles, ...
  born,     \* per process: how often it was started anew
  faults

workerVars == <<pc, job, stage, todo, result>>
vars == <<ledger, tasks, workerVars, lockPid, made, server, born, faults>>

Active == {"scheduled", "queued", "running", "cancel_requested"}
Ended == {"completed", "partial", "failed", "cancelled"}
Outcome == {"none", "completed", "skipped", "failed", "cancelled"}
Runs == DOMAIN ledger
Cancelling(row) == row.status = "cancel_requested" \/ row.cancel

(* A process id: the process and how often it was started.  A worker of    *)
(* the dashboard records the dashboard's id.                               *)
NoPid == <<"none", 0>>
Host(w) == IF w = Timer THEN "timer" ELSE "dashboard"
Pid(w) == <<Host(w), born[Host(w)]>>
Dead(pid) == pid # NoPid /\ pid[2] # born[pid[1]]

(* --------------------- the compare-and-set transforms ------------------ *)
NewRow(requested, status) ==
  [status |-> status, cancel |-> FALSE, orphaned |-> FALSE, error |-> FALSE,
   requested |-> requested, outcome |-> [s \in Stage |-> "none"],
   committed |-> {}, at |-> "none", current |-> NoStage, worker |-> NoPid,
   retry |-> {}]

Initialized(row, pid) ==
  IF row.status \in Ended THEN row
  ELSE [row EXCEPT !.worker = pid,
                   !.status = IF Cancelling(row) THEN "cancel_requested" ELSE "running"]

Claimed(row, s, pid) ==
  [row EXCEPT !.status = "running", !.worker = pid, !.current = s,
              !.at = IF s \in Days THEN "daily" ELSE "other"]

(* Mutated form of Recorded: an outcome that comes late is still entered.   *)
RecordedLate(row, s, o) ==
  [row EXCEPT !.outcome[s] = o.status,
              !.committed = IF o.committed THEN @ \cup {s} ELSE @ \ {s}]

Recorded(row, s, o) ==
  IF row.status \in Ended THEN row
  ELSE [row EXCEPT !.outcome[s] = o.status,
                   !.committed = IF o.committed THEN @ \cup {s} ELSE @ \ {s}]

Flagged(row, field) ==
  IF row.status \in Ended THEN row ELSE [row EXCEPT ![field] = TRUE]

MarkedOrphan(row) ==
  IF row.status \in Ended THEN row ELSE [row EXCEPT !.orphaned = TRUE, !.at = "other"]

(* Mutated form of CancelRequested: a run that just ended is not spared.    *)
CancelRequestedLate(row) ==
  [row EXCEPT !.cancel = TRUE, !.at = "other",
              !.status = IF @ \in {"scheduled", "queued"} THEN "cancelled"
                         ELSE "cancel_requested"]

CancelRequested(row) ==
  IF row.status \in Ended THEN row
  ELSE [row EXCEPT !.cancel = TRUE, !.at = "other",
                   !.status = IF @ \in {"scheduled", "queued"} THEN "cancelled"
                              ELSE "cancel_requested"]

(* Mutated form of Undone: a stage that was never tried counts as done.     *)
UndoneTried(row) == {s \in row.requested : row.outcome[s] \in {"failed", "cancelled"}}

Undone(row) == {s \in row.requested : row.outcome[s] \notin {"completed", "skipped"}}

(* Mutated form of ReducedStatus: the name of the stage for the status.     *)
ReducedStatusLabel(row) ==
  IF Undone(row) = {} /\ ~row.error THEN "completed" ELSE "completed-with-failures"

ReducedStatus(row) ==
  IF Undone(row) = {} /\ ~row.error THEN "completed"
  ELSE IF row.committed \cap row.requested # {} THEN "partial" ELSE "failed"

Finalized(row) ==
  IF row.status \in Ended THEN row
  ELSE IF Cancelling(row) THEN [row EXCEPT !.status = "cancelled", !.at = "other"]
  ELSE [row EXCEPT !.status = ReducedStatus(row), !.retry = Undone(row), !.at = "other"]

(* ------------------------- the event loop ------------------------------ *)
(* Requests run on one event loop and never wait, so one is served at a    *)
(* time; background threads and other processes interleave with it.        *)
NoRequest == [kind |-> "none", at |-> "idle", run |-> 0, blame |-> NoStage,
              scan |-> {}, plan |-> {}, timed |-> FALSE]

(* Mutated form of ActiveRuns: a run that was asked to stop does not count. *)
ActiveRunsGoing == {r \in Runs : ledger[r].status \in {"scheduled", "queued", "running"}}

ActiveRuns == {r \in Runs : ledger[r].status \in Active}
ScanFor(plan, timed) ==
  [NoRequest EXCEPT !.kind = "queue", !.at = "scan", !.scan = ActiveRuns,
                    !.plan = plan, !.timed = timed]

(* queue_history_backfill lists the rows first; those that ended pass.     *)
AskQueue(plan, timed) ==
  /\ server.at = "idle" /\ Len(ledger) < MaxRuns
  /\ server' = ScanFor(plan, timed)
  /\ UNCHANGED <<ledger, tasks, workerVars, lockPid, made, born, faults>>

(* queue_failed_history_backfill_retry goes on to queue the retry stages of *)
(* a run; it refuses a run without, as every run that has not ended.        *)
AskRetry(r) ==
  /\ server.at = "idle" /\ Len(ledger) < MaxRuns
  /\ ledger[r].retry # {}
  /\ server' = ScanFor(ledger[r].retry, FALSE)
  /\ UNCHANGED <<ledger, tasks, workerVars, lockPid, made, born, faults>>

Attended(r) == r \in tasks \/ \E w \in Workers : pc[w] # "idle" /\ job[w] = r

(* _history_backfill_orphaned: what a dead process proves, and what the    *)
(* clock decides, 2 minutes in the queue or 24 hours without a heartbeat.  *)
(* Time gets there when nobody attends to the run; that it gets there      *)
(* although somebody does counts as a fault.                               *)
OrphanedByDeath(row) ==
  /\ row.status \in {"running", "cancel_requested"}
  /\ \/ row.at = "daily" /\ Dead(lockPid[row.current])
     \/ Dead(row.worker)

(* Mutated form of OrphanedByTime: nobody watches the queue.                *)
OrphanedByTimeRunning(r) ==
  /\ ledger[r].status \in {"running", "cancel_requested"}
  /\ Attended(r) => Suspends /\ faults + Weight <= MaxFaults

OrphanedByTime(r) ==
  /\ \/ ledger[r].status = "queued" /\ ledger[r].at = "none"
     \/ ledger[r].status \in {"running", "cancel_requested"}
  /\ Attended(r) => Suspends /\ faults + Weight <= MaxFaults

(* Whom _reconcile_orphaned_history_backfill will blame, decided on the    *)
(* row as it was read: the stage under way, the orchestration if none was  *)
(* claimed (NoStage), else nobody.                                         *)
Nobody == "nobody"
BlameFor(row) ==
  IF row.current = NoStage THEN NoStage
  ELSE IF row.current \in row.requested /\ row.outcome[row.current] = "none"
       THEN row.current ELSE Nobody

Reconcile(r, request) ==
  /\ \/ OrphanedByDeath(ledger[r]) /\ UNCHANGED faults
     \/ ~OrphanedByDeath(ledger[r]) /\ OrphanedByTime(r)
        /\ faults' = IF Attended(r) THEN faults + Weight ELSE faults
  /\ server' = [request EXCEPT !.at = "mark", !.run = r, !.blame = BlameFor(ledger[r])]
  /\ UNCHANGED <<ledger, tasks, workerVars, lockPid, made, born>>

(* A status request or a job list finds an orphan; otherwise it changes    *)
(* nothing.                                                                *)
Look(r) ==
  /\ server.at = "idle" /\ Reconcile(r, [NoRequest EXCEPT !.kind = "look"])

(* cancel_history_backfill reconciles the run, or finds it sound.          *)
AskCancel(r) ==
  /\ server.at = "idle"
  /\ LET request == [NoRequest EXCEPT !.kind = "cancel", !.run = r, !.at = "act"] IN
       \/ Reconcile(r, request)
       \/ /\ ledger[r].status \in Active /\ ~OrphanedByDeath(ledger[r])
          /\ server' = request
          /\ UNCHANGED <<ledger, tasks, workerVars, lockPid, made, born, faults>>

(* active_history_backfill_run: the newest row it listed is an orphan, or   *)
(* no longer active, or the queue is refused.                               *)
Scan(r) ==
  /\ server.at = "scan" /\ r \in server.scan /\ \A q \in server.scan : q <= r
  /\ Reconcile(r, server)

ScanEnds(r) ==
  /\ server.at = "scan" /\ r \in server.scan /\ \A q \in server.scan : q <= r
  /\ ~OrphanedByDeath(ledger[r])
  /\ server' = NoRequest
  /\ UNCHANGED <<ledger, tasks, workerVars, lockPid, made, born, faults>>

(* _reconcile_orphaned_history_backfill: three transforms.                 *)
Mark ==
  /\ server.at = "mark"
  /\ ledger' = [ledger EXCEPT ![server.run] = MarkedOrphan(@)]
  /\ server' = [server EXCEPT !.at = IF server.blame = Nobody THEN "close" ELSE "blame"]
  /\ UNCHANGED <<tasks, workerVars, lockPid, made, born, faults>>

Blame ==
  /\ server.at = "blame"
  /\ ledger' = [ledger EXCEPT ![server.run] =
       IF server.blame = NoStage THEN Flagged(@, "error")
       ELSE Recorded(@, server.blame, [status |-> "failed", committed |-> FALSE])]
  /\ server' = [server EXCEPT !.at = "close"]
  /\ UNCHANGED <<tasks, workerVars, lockPid, made, born, faults>>

(* The reconciled run has ended: the scan passes it, a cancel request finds *)
(* nothing to do, a look is answered.                                       *)
Close ==
  /\ server.at = "close"
  /\ ledger' = [ledger EXCEPT ![server.run] = Finalized(@)]
  /\ server' = IF server.kind = "queue"
               THEN [server EXCEPT !.at = "scan", !.scan = @ \ {server.run},
                                   !.run = 0, !.blame = NoStage]
               ELSE NoRequest
  /\ UNCHANGED <<tasks, workerVars, lockPid, made, born, faults>>

(* queue_history_backfill after the scan; the endpoint adds the background *)
(* task in the same step, a scheduled run waits for a tick.                *)
Insert ==
  /\ server.at = "scan" /\ server.scan = {}
  /\ ledger' = Append(ledger, NewRow(server.plan, IF server.timed THEN "scheduled" ELSE "queued"))
  /\ tasks' = IF server.timed THEN tasks ELSE tasks \cup {Len(ledger) + 1}
  /\ server' = NoRequest
  /\ UNCHANGED <<workerVars, lockPid, made, born, faults>>

Cancel ==
  /\ server.at = "act"
  /\ ledger' = [ledger EXCEPT ![server.run] = CancelRequested(@)]
  /\ server' = NoRequest
  /\ UNCHANGED <<tasks, workerVars, lockPid, made, born, faults>>

(* Any step of a request can raise (a busy database, planning refuses the  *)
(* dates): the request ends where it is.                                   *)
RequestRaises ==
  /\ server.at # "idle" /\ faults + Weight <= MaxFaults
  /\ server' = NoRequest /\ faults' = faults + Weight
  /\ UNCHANGED <<ledger, tasks, workerVars, lockPid, made, born>>

(* ---------------- run_history_backfill, one step per transform ---------- *)
NoResult == [status |-> "none", committed |-> FALSE]

Leave(w) ==
  /\ pc' = [pc EXCEPT ![w] = "idle"] /\ job' = [job EXCEPT ![w] = 0]
  /\ stage' = [stage EXCEPT ![w] = NoStage] /\ todo' = [todo EXCEPT ![w] = {}]
  /\ result' = [result EXCEPT ![w] = NoResult]

Goto(w, l) == pc' = [pc EXCEPT ![w] = l]

(* On to the end of the run: what is left of its stages is forgotten.      *)
GiveUp(w, l) ==
  /\ Goto(w, l) /\ stage' = [stage EXCEPT ![w] = NoStage]
  /\ todo' = [todo EXCEPT ![w] = {}] /\ result' = [result EXCEPT ![w] = NoResult]

Begin(w, r) ==
  /\ pc[w] = "idle" /\ Goto(w, "read") /\ job' = [job EXCEPT ![w] = r]
  /\ UNCHANGED <<ledger, stage, todo, result, lockPid, made, server, born, faults>>

TakeTask(w, r) ==
  /\ w \in Threads /\ r \in tasks
  /\ tasks' = tasks \ {r}
  /\ Begin(w, r)

(* A tick lists the scheduled runs that are due and runs what it listed.   *)
Tick(w, r) ==
  /\ w \in Tickers /\ r \in Runs /\ ledger[r].status = "scheduled"
  /\ Begin(w, r) /\ UNCHANGED tasks

Row(w) == ledger[job[w]]
SetRow(w, row) == ledger' = [ledger EXCEPT ![job[w]] = row]

ReadStatus(w) ==
  /\ pc[w] = "read"
  /\ \/ Row(w).status \in Ended /\ Leave(w)
     \/ Row(w).status \notin Ended /\ Goto(w, "init") /\ UNCHANGED <<job, stage, todo, result>>
  /\ UNCHANGED <<ledger, tasks, lockPid, made, server, born, faults>>

Initialize(w) ==
  /\ pc[w] = "init"
  /\ SetRow(w, Initialized(Row(w), Pid(w)))
  /\ \/ Cancelling(Row(w)) /\ GiveUp(w, "close")
     \/ /\ ~Cancelling(Row(w)) /\ Goto(w, "claim")
        /\ todo' = [todo EXCEPT ![w] = Row(w).requested] /\ UNCHANGED <<stage, result>>
  /\ UNCHANGED <<tasks, job, lockPid, made, server, born, faults>>

(* Daily stages come first.                                                *)
NextStages(w) == IF todo[w] \cap Days # {} THEN todo[w] \cap Days ELSE todo[w]

(* Mutated form of Claim: a cancel request is left to the reads before it.  *)
ClaimUncancelled(w, s) ==
  /\ pc[w] = "claim" /\ s \in NextStages(w)
  /\ Row(w).status \notin Ended
  /\ SetRow(w, Claimed(Row(w), s, Pid(w)))
  /\ stage' = [stage EXCEPT ![w] = s] /\ Goto(w, "work")
  /\ UNCHANGED <<tasks, job, todo, result, lockPid, made, server, born, faults>>

(* Mutated form of Claim: that the row has ended is not noticed.            *)
ClaimBlind(w, s) ==
  /\ pc[w] = "claim" /\ s \in NextStages(w)
  /\ SetRow(w, IF Row(w).status \in Ended THEN Row(w) ELSE Claimed(Row(w), s, Pid(w)))
  /\ stage' = [stage EXCEPT ![w] = s] /\ Goto(w, "work")
  /\ UNCHANGED <<tasks, job, todo, result, lockPid, made, server, born, faults>>

(* The reads of the cancel flag before a claim are part of it: what they   *)
(* would stop, the claim refuses.                                          *)
Claim(w, s) ==
  /\ pc[w] = "claim" /\ s \in NextStages(w)
  /\ Row(w).status \notin Ended /\ ~Cancelling(Row(w))
  /\ SetRow(w, Claimed(Row(w), s, Pid(w)))
  /\ stage' = [stage EXCEPT ![w] = s] /\ Goto(w, "work")
  /\ UNCHANGED <<tasks, job, todo, result, lockPid, made, server, born, faults>>

ClaimRefused(w) ==
  /\ pc[w] = "claim"
  /\ Row(w).status \in Ended \/ Cancelling(Row(w))
  /\ GiveUp(w, "close")
  /\ UNCHANGED <<ledger, tasks, job, lockPid, made, server, born, faults>>

Worked(w, status, committed) ==
  /\ result' = [result EXCEPT ![w] = [status |-> status, committed |-> committed]]
  /\ made' = IF committed THEN [made EXCEPT ![job[w]] = @ \cup {stage[w]}] ELSE made
  /\ Goto(w, "record")

(* The actions of a day that need no pipeline, a day that is complete, a   *)
(* day that may not be overwritten, a pipeline whose lock is taken.        *)
WorkDay(w) ==
  /\ pc[w] = "work" /\ stage[w] \in Days
  /\ \/ Worked(w, "completed", TRUE)
     \/ \E o \in {"skipped", "failed"} : Worked(w, o, FALSE)
     \/ Cancelling(Row(w)) /\ Worked(w, "cancelled", FALSE)
  /\ UNCHANGED <<ledger, tasks, job, stage, todo, lockPid, server, born, faults>>

InPipeline(d) == {w \in Workers : pc[w] = "pipeline" /\ stage[w] = d}

StartPipeline(w) ==
  /\ pc[w] = "work" /\ stage[w] \in Days /\ InPipeline(stage[w]) = {}
  /\ lockPid' = [lockPid EXCEPT ![stage[w]] = Pid(w)]
  /\ Goto(w, "pipeline")
  /\ UNCHANGED <<ledger, tasks, job, stage, todo, result, made, server, born, faults>>

EndPipeline(w) ==
  /\ pc[w] = "pipeline"
  /\ \/ Worked(w, "completed", TRUE)
     \/ Worked(w, IF Cancelling(Row(w)) THEN "cancelled" ELSE "failed", FALSE)
  /\ lockPid' = [lockPid EXCEPT ![stage[w]] = NoPid]
  /\ UNCHANGED <<ledger, tasks, job, stage, todo, server, born, faults>>

(* The snapshot of the AI assets, or a period, which can fail with some of *)
(* its artifacts committed.                                                *)
WorkLater(w) ==
  /\ pc[w] = "work" /\ stage[w] \in Later
  /\ \/ Worked(w, "completed", TRUE) \/ Worked(w, "skipped", FALSE)
     \/ \E c \in BOOLEAN : Worked(w, "failed", c)
  /\ UNCHANGED <<ledger, tasks, job, stage, todo, lockPid, server, born, faults>>

Record(w) ==
  /\ pc[w] = "record"
  /\ SetRow(w, Recorded(Row(w), stage[w], result[w]))
  /\ IF todo[w] = {stage[w]} THEN GiveUp(w, "final")
     ELSE /\ Goto(w, "claim") /\ stage' = [stage EXCEPT ![w] = NoStage]
          /\ todo' = [todo EXCEPT ![w] = @ \ {stage[w]}]
          /\ result' = [result EXCEPT ![w] = NoResult]
  /\ UNCHANGED <<tasks, job, lockPid, made, server, born, faults>>

(* The handler of unexpected exceptions: the error first, the end second.  *)
HandleError(w) ==
  /\ pc[w] = "error"
  /\ SetRow(w, Flagged(Row(w), "error")) /\ Goto(w, "close")
  /\ UNCHANGED <<tasks, job, stage, todo, result, lockPid, made, server, born, faults>>

(* The end after all stages ("final", where an exception is still handled) *)
(* and from the handlers ("close").  The cancel flag that                  *)
(* _finish_cancelled_history_backfill sets first is set already, or the    *)
(* run has ended.                                                          *)
Finalize(w) ==
  /\ pc[w] \in {"final", "close"}
  /\ SetRow(w, Finalized(Row(w)))
  /\ Leave(w)
  /\ UNCHANGED <<tasks, lockPid, made, server, born, faults>>

(* An exception where run_history_backfill still catches it.               *)
WorkerRaises(w) ==
  /\ pc[w] \in {"claim", "work", "record", "final"} /\ faults + Weight <= MaxFaults
  /\ faults' = faults + Weight /\ GiveUp(w, "error")
  /\ UNCHANGED <<ledger, tasks, job, lockPid, made, server, born>>

(* An exception nobody catches ends the thread, and the timer's process.   *)
WorkerLost(w) ==
  /\ pc[w] \in {"read", "init", "error", "close"} /\ faults + Weight <= MaxFaults
  /\ faults' = faults + Weight /\ Leave(w)
  /\ born' = IF w = Timer THEN [born EXCEPT !["timer"] = @ + 1] ELSE born
  /\ UNCHANGED <<ledger, tasks, lockPid, made, server>>

(* A process dies with its workers; the dashboard also forgets its tasks   *)
(* and its request.  Rows and lock files stay.                             *)
Crash(h) ==
  /\ h = "timer" => Timer \in Tickers /\ pc[Timer] # "idle"
  /\ faults < MaxFaults /\ faults' = faults + 1
  /\ born' = [born EXCEPT ![h] = @ + 1]
  /\ LET Died(w) == Host(w) = h IN
       /\ pc' = [w \in Workers |-> IF Died(w) THEN "idle" ELSE pc[w]]
       /\ job' = [w \in Workers |-> IF Died(w) THEN 0 ELSE job[w]]
       /\ stage' = [w \in Workers |-> IF Died(w) THEN NoStage ELSE stage[w]]
       /\ todo' = [w \in Workers |-> IF Died(w) THEN {} ELSE todo[w]]
       /\ result' = [w \in Workers |-> IF Died(w) THEN NoResult ELSE result[w]]
  /\ \/ h = "dashboard" /\ tasks' = {} /\ server' = NoRequest
     \/ h = "timer" /\ UNCHANGED <<tasks, server>>
  /\ UNCHANGED <<ledger, lockPid, made>>

(* --------------------------- the specification ------------------------- *)
Init ==
  /\ ledger = <<>> /\ tasks = {}
  /\ pc = [w \in Workers |-> "idle"] /\ job = [w \in Workers |-> 0]
  /\ stage = [w \in Workers |-> NoStage] /\ todo = [w \in Workers |-> {}]
  /\ result = [w \in Workers |-> NoResult]
  /\ lockPid = [d \in Days |-> NoPid]
  /\ made = [r \in 1..MaxRuns |-> {}]
  /\ server = NoRequest
  /\ born = [h \in {"none", "dashboard", "timer"} |-> 0] /\ faults = 0

(* _history_requested_stages: days, the snapshot, then periods.            *)
FreshPlans == {D \cup L : D \in SUBSET Days \ {{}}, L \in SUBSET Later \ {{}}}

Requests ==
  \/ \E plan \in FreshPlans, timed \in BOOLEAN : AskQueue(plan, timed)
  \/ \E r \in Runs : AskRetry(r) \/ AskCancel(r)

Serve ==
  \/ \E r \in Runs : Scan(r) \/ ScanEnds(r)
  \/ Mark \/ Blame \/ Close \/ Insert \/ Cancel

Work(w) ==
  \/ ReadStatus(w) \/ Initialize(w) \/ ClaimRefused(w)
  \/ \E s \in Stage : Claim(w, s)
  \/ WorkDay(w) \/ StartPipeline(w) \/ EndPipeline(w)
  \/ WorkLater(w)
  \/ Record(w) \/ HandleError(w) \/ Finalize(w)

StartRun == \E w \in Workers, r \in Runs : TakeTask(w, r) \/ Tick(w, r)

Failures ==
  \/ RequestRaises
  \/ \E w \in Workers : WorkerRaises(w) \/ WorkerLost(w)
  \/ \E h \in {"dashboard", "timer"} : Crash(h)

Next ==
  \/ Requests \/ (\E r \in Runs : Look(r)) \/ Serve
  \/ StartRun \/ (\E w \in Workers : Work(w)) \/ Failures

Spec == Init /\ [][Next]_vars

(* Workers and the event loop go on, due runs are started, and the jobs    *)
(* panel keeps looking, also at a run after it is overdue.                 *)
Fairness ==
  /\ \A w \in Workers : WF_vars(Work(w))
  /\ WF_vars(StartRun) /\ WF_vars(Serve)
  /\ SF_vars(\E r \in Runs : Look(r))

FairSpec == Spec /\ Fairness

(* ------------------------------ properties ----------------------------- *)
RowType ==
  [status : Active \cup Ended, cancel : BOOLEAN, orphaned : BOOLEAN, error : BOOLEAN,
   requested : SUBSET Stage, outcome : [Stage -> Outcome], committed : SUBSET Stage,
   at : {"none", "daily", "other"}, current : Stage \cup {NoStage},
   worker : {"none", "dashboard", "timer"} \X Nat, retry : SUBSET Stage]

(* Every variable has its type: the rows of the ledger, the places of the  *)
(* workers in run_history_backfill and of the request being served.        *)
TypeOK ==
  /\ ledger \in Seq(RowType) /\ tasks \subseteq Runs
  /\ pc \in [Workers -> {"idle", "read", "init", "claim", "work", "pipeline",
                          "record", "final", "error", "close"}]
  /\ job \in [Workers -> Runs \cup {0}]
  /\ stage \in [Workers -> Stage \cup {NoStage}] /\ todo \in [Workers -> SUBSET Stage]
  /\ result \in [Workers -> [status : Outcome, committed : BOOLEAN]]
  /\ lockPid \in [Days -> {"none", "dashboard", "timer"} \X Nat]
  /\ made \in [1..MaxRuns -> SUBSET Stage]
  /\ server \in [kind : {"none", "queue", "cancel", "look"},
                 at : {"idle", "scan", "mark", "blame", "close", "act"},
                 run : Runs \cup {0}, blame : Stage \cup {NoStage, Nobody},
                 scan : SUBSET Runs, plan : SUBSET Stage, timed : BOOLEAN]
  /\ born \in [{"none", "dashboard", "timer"} -> Nat] /\ faults \in 0..MaxFaults

(* A new run is queued only after every older one has ended: only the      *)
(* newest run is ever active, although workers change the rows between the *)
(* scan of active_history_backfill_run and the insertion.                  *)
OnlyTheNewestIsActive == \A r \in Runs : ledger[r].status \in Active => r = Len(ledger)

(* A row that has ended never changes again: late outcomes, late cancel    *)
(* requests, a second worker and a reconciliation that lost the race all   *)
(* leave it alone.                                                         *)
EndedIsFinal ==
  [][\A r \in Runs : ledger[r].status \in Ended => ledger'[r] = ledger[r]]_vars

(* A cancel request that reached a live run wins the race for its end: no  *)
(* worker sets the run going again or ends it in any other way.            *)
CancelWins ==
  [][\A r \in Runs : Cancelling(ledger[r]) /\ ledger[r].status \in Active
       => Cancelling(ledger'[r]) /\ ledger'[r].status \in {"cancel_requested", "cancelled"}]_vars

(* Work starts only in the newest run, while it is running and before a    *)
(* cancel request: a worker whose run was ended behind its back finishes   *)
(* the stage it is in and starts no other.                                 *)
StagesStartInTheActiveRun ==
  [][\A w \in Workers : pc[w] = "claim" /\ pc'[w] = "work"
       => /\ job[w] = Len(ledger)
          /\ ledger'[job[w]].status = "running" /\ ~ledger[job[w]].cancel]_vars

(* A run that ended without being cancelled offers exactly what it did not *)
(* do for a retry: no outcome arrives after the retry list was made.       *)
RetryIsTheRest ==
  \A r \in Runs : ledger[r].status \in Ended \ {"cancelled"} =>
    ledger[r].retry = Undone(ledger[r])

(* The ledger claims no work nobody did: a completed stage was written by  *)
(* a worker of the run, and a completed run did all it was asked for.      *)
CompletedIsReal ==
  \A r \in Runs :
    /\ ledger[r].committed \subseteq made[r]
    /\ \A s \in Stage : ledger[r].outcome[s] = "completed" => s \in made[r]
    /\ ledger[r].status = "completed" =>
         \A s \in ledger[r].requested : s \in made[r] \/ ledger[r].outcome[s] = "skipped"

(* "History backfill worker exited unexpectedly": a run whose row says it  *)
(* was orphaned has no worker any more.                                    *)
OrphansHaveNoWorker ==
  \A r \in Runs : ledger[r].orphaned => \A w \in Workers : pc[w] # "idle" => job[w] # r

(* A queued row that a reconciliation marked before it was itself cut off.  *)
(* Its currentStage is set, so nothing takes it for an orphan any more, and *)
(* its task is gone: only a cancel request still ends it.                   *)
HalfReconciled(r) ==
  ledger[r].status = "queued" /\ ledger[r].orphaned /\ ~Attended(r)

(* No run blocks the queue for good, whatever dies under it, as long as     *)
(* somebody looks: again and again no run is active, but for a queued one   *)
(* whose reconciliation was cut off half-way.                               *)
RunsEnd == []<>(\A r \in ActiveRuns : HalfReconciled(r))
=============================================================================
