---------------------------- MODULE DailyPipeline ----------------------------
(***************************************************************************)
(* The pipelines of one business date: the lock file of the day with the   *)
(* steps in which it is taken and released, the rows of pipeline_runs, the *)
(* stages with the report files they write, the reuse of a failed run's    *)
(* stages by a retry, and the repair runs of the dashboard, which are the  *)
(* only callers that retry.  Runs of other dates share none of this.  The  *)
(* stages that write no report take one step; prompts, payloads, settings  *)
(* and the time a stage may take are left out.                             *)
(***************************************************************************)
EXTENDS Naturals, Sequences, FiniteSets

CONSTANTS
  Threads,     \* background threads of the dashboard: backfills and repairs
  Tools,       \* processes of their own: the command line, the catch-up
  Production,  \* the steps of a whole run
  Partials,    \* the steps a partial backfill selects, a set of sets
  Nobody,      \* no worker and no process
  NoFile,      \* no lock file, no report
  MaxRuns,     \* bound: pipelines ever started
  MaxRepairs,  \* bound: repair runs ever queued
  MaxFaults    \* bound: failing stages, exceptions, kills, edits by hand

Workers == Threads \cup Tools
Procs == {"dashboard"} \cup Tools
Report == {"story", "empty", "technical", "learning"}
Passes == {"narrative", "technical", "learning"}
Steps == {"narrative", "technical", "learning", "rag"}

ASSUME PipelineAssumption ==
  /\ Threads \cap Tools = {} /\ IsFiniteSet(Workers)
  /\ "dashboard" \notin Tools /\ Nobody \notin Workers \cup Procs
  /\ NoFile \notin Nat \cup [by : Nat, whole : BOOLEAN]
  /\ Production \subseteq Steps /\ Production # {}
  /\ Partials \subseteq (SUBSET (Steps \ {"narrative"})) \ {{}}
  /\ {MaxRuns, MaxRepairs, MaxFaults} \subseteq Nat

VARIABLES
  path,     \* the file that has the name of the day's lock, or NoFile
  locks,    \* per file: who holds its flock, and the process id written in it
  handle,   \* per worker: the file it has open, or NoFile
  pc, stage, run, parent, steps, plan, blank,  \* per worker: its run_daily_pipeline
  repair,   \* per worker: the repair run it executes, or 0
  runs,     \* the rows of pipeline_runs of the day, in order of their ids
  report,   \* the report files of the day
  repairs,  \* the rows of foundation_repair_runs
  orphans,  \* passes that outlived the process of their run
  window,   \* history: who read its own process id in the file it had released
  doubled,  \* history: such a release unlinked a file somebody had opened
  foreign,  \* history: reports written by others than the only pipeline
  raced,    \* history, per worker: reports written since it validated its own
  lost,     \* history: runs and repairs cut off by a kill or an exception
  faults

lockVars == <<path, locks, handle, window, doubled>>
jobVars == <<run, parent, steps, plan, blank, repair>>
fileVars == <<report, foreign, raced>>
vars == <<lockVars, pc, stage, jobVars, fileVars, runs, repairs, orphans, lost, faults>>

Files == 1..(Cardinality(Workers) + 1)
Proc(w) == IF w \in Threads THEN "dashboard" ELSE w
Runs == DOMAIN runs
Running == {i \in Runs : runs[i].status = "running"}
Goto(w, place) == pc' = [pc EXCEPT ![w] = place]

(* ------------------------------- reports ------------------------------- *)
(* A report is known by who wrote it, a run or a hand, and by whether it   *)
(* was written to its end.                                                 *)
Text(by, whole) == [by |-> by, whole |-> whole]
ByHand(n) == MaxRuns + n

(* diary_report_paths: a no-activity narrative hides the other one.        *)
Shown(s, files) ==
  {f \in (IF s # "narrative" THEN {s}
          ELSE IF files["empty"] # NoFile THEN {"empty"} ELSE {"story"}) :
     files[f] # NoFile}
Proofs(s, files) == {<<f, files[f]>> : f \in Shown(s, files)}

(* _proofs_are_current: what a stage left behind is still there.           *)
Current(proofs) == proofs # {} /\ proofs \subseteq UNION {Proofs(s, report) : s \in Passes}

Target(w) == IF stage[w] # "narrative" THEN stage[w]
             ELSE IF blank[w] THEN "empty" ELSE "story"

InPipeline == {w \in Workers : pc[w] \in {"work", "pass", "write", "commit"}}

Written(f, text, by) ==
  /\ report' = [report EXCEPT ![f] = text]
  /\ raced' = [v \in Workers |-> IF pc[v] = "commit" /\ v # by THEN raced[v] \cup {f}
                                 ELSE raced[v]]

(* ------------------------- the stages of a run ------------------------- *)
(* The stages in the order of the loop over the steps; those that write no *)
(* report are one with their neighbours: the collection with the inputs of *)
(* the narrative, the task graph with the technical pass, the snapshots    *)
(* with the search memory.  On a blank day the other passes and the search *)
(* memory are skipped, and the narrative is written without a model.       *)
Order == <<"inputs", "narrative", "technical", "learning", "rag", "end">>
StepOf(s) == IF s = "inputs" THEN "narrative" ELSE s
Ahead(s, chosen, empty) ==
  {i \in DOMAIN Order :
     /\ Order[i] = "end" \/ StepOf(Order[i]) \in chosen
     /\ empty => Order[i] \notin {"technical", "learning"}
     /\ \A j \in DOMAIN Order : Order[j] = s => j < i}
After(s, chosen, empty) ==
  LET ahead == Ahead(s, chosen, empty)
  IN Order[CHOOSE i \in ahead : \A j \in ahead : i <= j]
Advance(w, empty) == stage' = [stage EXCEPT ![w] = After(stage[w], steps[w], empty)]

(* Mutated form of NewRun: the row is created before it runs.              *)
NewRunQueued(w) ==
  [status |-> "queued", parent |-> parent[w], steps |-> steps[w], blank |-> FALSE,
   proof |-> [s \in Passes |-> {}], reused |-> {}]

NewRun(w) ==
  [status |-> "running", parent |-> parent[w], steps |-> steps[w], blank |-> FALSE,
   proof |-> [s \in Passes |-> {}], reused |-> {}]
SetRun(w, row) == runs' = [runs EXCEPT ![run[w]] = row]

(* append_stage: what a finished stage left behind is recorded as proof.   *)
Committed(row, s, proofs) == [row EXCEPT !.proof[s] = proofs]

(* _retry_committed_stage_ids: what a retry may take over, if it is the    *)
(* same selection of steps.                                                *)
Reusable(p, chosen) ==
  [s \in Passes |->
     IF p # 0 /\ runs[p].steps = chosen /\ Current(runs[p].proof[s])
     THEN runs[p].proof[s] ELSE {}]

(* ------------------------------- callers ------------------------------- *)
Starting == {w \in Workers : pc[w] \in {"open", "flock", "mark"}}
Unended == {i \in DOMAIN repairs : repairs[i].status \in {"queued", "running"}}
Queued == {i \in Unended : repairs[i].status = "queued" /\ <<"repair", i>> \notin lost}
Room == Len(runs) + Cardinality(Starting) + Cardinality(Queued) < MaxRuns

Call(w, p, chosen, i) ==
  /\ pc[w] = "idle" /\ Goto(w, "open")
  /\ parent' = [parent EXCEPT ![w] = p] /\ steps' = [steps EXCEPT ![w] = chosen]
  /\ plan' = [plan EXCEPT ![w] = Reusable(p, chosen)]
  /\ repair' = [repair EXCEPT ![w] = i]
  /\ UNCHANGED <<lockVars, stage, run, blank, fileVars, runs, orphans, lost, faults>>

(* A backfill or a tool starts a pipeline; a partial one is planned where  *)
(* the narrative is there.                                                 *)
Start(w) ==
  /\ Room
  /\ \/ Call(w, 0, Production, 0)
     \/ w \in Threads /\ Shown("narrative", report) # {} /\ \E c \in Partials : Call(w, 0, c, 0)
  /\ UNCHANGED repairs

(* queue_foundation_daily_qa_repair, on the event loop.                    *)
QueueRepair(retry) ==
  /\ Room /\ Len(repairs) < MaxRepairs
  /\ \A i \in DOMAIN repairs :
       repairs[i].retry = retry => i \notin Unended
  /\ LET latest == IF retry /\ runs # <<>> /\ runs[Len(runs)].status = "failed"
                   THEN Len(runs) ELSE 0
     IN repairs' = Append(repairs, [status |-> "queued", retry |-> retry, source |-> latest])
  /\ UNCHANGED <<lockVars, pc, stage, jobVars, fileVars, runs, orphans, lost, faults>>

TakeRepair(w, i) ==
  /\ i \in Queued
  /\ repairs' = [repairs EXCEPT ![i].status = "running"]
  /\ Call(w, repairs[i].source, Production, i)

(* --------------------------- the day's lock ---------------------------- *)
Open(w) ==
  /\ pc[w] = "open" /\ Goto(w, "flock")
  /\ LET fresh == CHOOSE f \in Files : f # path /\ \A v \in Workers : handle[v] # f
         f == IF path = NoFile THEN fresh ELSE path IN
       /\ path' = f /\ handle' = [handle EXCEPT ![w] = f]
       /\ locks' = IF path # NoFile THEN locks
                   ELSE [locks EXCEPT ![f] = [held |-> Nobody, pid |-> Nobody]]
  /\ UNCHANGED <<window, doubled, stage, jobVars, fileVars, runs, repairs, orphans, lost, faults>>

Flock(w) ==
  /\ pc[w] = "flock" /\ locks[handle[w]].held = Nobody
  /\ locks' = [locks EXCEPT ![handle[w]].held = w]
  /\ Goto(w, "mark")
  /\ UNCHANGED <<path, handle, window, doubled, stage, jobVars, fileVars, runs, repairs,
                 orphans, lost, faults>>

(* The end of run_daily_pipeline; a repair has its own end after it.       *)
NoPlan == [s \in Passes |-> {}]
Forget(w) ==
  /\ stage' = [stage EXCEPT ![w] = "end"]
  /\ parent' = [parent EXCEPT ![w] = 0] /\ steps' = [steps EXCEPT ![w] = {}]
  /\ plan' = [plan EXCEPT ![w] = NoPlan] /\ blank' = [blank EXCEPT ![w] = FALSE]

(* Mutated form of Return: the repair is not told.                         *)
ReturnUntold(w) ==
  /\ Forget(w) /\ Goto(w, "idle")
  /\ run' = [run EXCEPT ![w] = 0] /\ repair' = [repair EXCEPT ![w] = 0]

Return(w) ==
  /\ Forget(w) /\ UNCHANGED repair
  /\ Goto(w, IF repair[w] = 0 THEN "idle" ELSE "answer")
  /\ run' = IF repair[w] = 0 THEN [run EXCEPT ![w] = 0] ELSE run

Refused(w) ==
  /\ pc[w] = "flock" /\ locks[handle[w]].held # Nobody
  /\ handle' = [handle EXCEPT ![w] = NoFile]
  /\ Return(w)
  /\ UNCHANGED <<path, locks, window, doubled, fileVars, runs, repairs, orphans, lost, faults>>

(* The process id goes into the file, the row into the ledger.             *)
Mark(w) ==
  /\ pc[w] = "mark" /\ Goto(w, "work")
  /\ locks' = [locks EXCEPT ![handle[w]].pid = Proc(w)]
  /\ runs' = Append(runs, NewRun(w)) /\ run' = [run EXCEPT ![w] = Len(runs) + 1]
  /\ stage' = [stage EXCEPT ![w] = After("none", steps[w], FALSE)]
  /\ UNCHANGED <<path, handle, window, doubled, parent, steps, plan, blank, repair, fileVars,
                 repairs, orphans, lost, faults>>

(* _release_daily_pipeline_lock: unlock and close; read whatever file has  *)
(* the name now; unlink it if it names this process.                       *)
Unlock(w) ==
  /\ pc[w] = "release" /\ Goto(w, "read")
  /\ locks' = [locks EXCEPT ![handle[w]].held = Nobody]
  /\ handle' = [handle EXCEPT ![w] = NoFile]
  /\ UNCHANGED <<path, window, doubled, stage, jobVars, fileVars, runs, repairs, orphans, lost, faults>>

(* Mutated form of NamesMe: any lock file will do.                         *)
NamesAnybody(w) == path # NoFile

NamesMe(w) == path # NoFile /\ locks[path].pid = Proc(w)

ReadOwner(w) ==
  /\ pc[w] = "read"
  /\ IF NamesMe(w)
     THEN /\ Goto(w, "unlink") /\ UNCHANGED <<stage, jobVars>>
          /\ window' = IF locks[path].pid = Proc(w) THEN window \cup {w} ELSE window
     ELSE Return(w) /\ UNCHANGED window
  /\ UNCHANGED <<path, locks, handle, doubled, fileVars, runs, repairs, orphans, lost, faults>>

Unlink(w) ==
  /\ pc[w] = "unlink" /\ path' = NoFile
  /\ doubled' = (doubled \/ (w \in window /\ path \in {handle[v] : v \in Workers} \ {NoFile}))
  /\ window' = window \ {w}
  /\ Return(w)
  /\ UNCHANGED <<locks, handle, fileVars, runs, repairs, orphans, lost, faults>>

(* ------------------------------ the stages ----------------------------- *)
(* A stage that writes no report succeeds; the inputs find out whether the *)
(* day is blank.                                                           *)
Simple(w) ==
  /\ pc[w] = "work" /\ stage[w] \notin Passes \cup {"end"}
  /\ \E b \in BOOLEAN :
       /\ stage[w] # "inputs" => b = blank[w]
       /\ blank' = [blank EXCEPT ![w] = b] /\ Advance(w, b)
       /\ SetRun(w, [runs[run[w]] EXCEPT !.blank = b])
  /\ UNCHANGED <<lockVars, pc, run, parent, steps, plan, repair, fileVars, repairs, orphans, lost, faults>>

(* reuse_stage: the parent's proof of this stage, if it is still current.  *)
CanReuse(w) ==
  /\ Current(plan[w][stage[w]])
  /\ stage[w] = "narrative" => runs[parent[w]].blank = blank[w]

Reuse(w) ==
  /\ pc[w] = "work" /\ stage[w] \in Passes /\ CanReuse(w)
  /\ SetRun(w, [Committed(runs[run[w]], stage[w], plan[w][stage[w]])
                  EXCEPT !.reused = @ \cup {stage[w]}])
  /\ Advance(w, blank[w])
  /\ UNCHANGED <<lockVars, pc, jobVars, fileVars, repairs, orphans, lost, faults>>

RunPass(w) ==
  /\ pc[w] = "work" /\ stage[w] \in Passes /\ ~CanReuse(w) /\ Goto(w, "pass")
  /\ UNCHANGED <<lockVars, stage, jobVars, fileVars, runs, repairs, orphans, lost, faults>>

(* A pass opens its report for writing, which empties it, and writes it.   *)
Alone(w) == InPipeline \subseteq {w}
OpenReport(w) ==
  /\ pc[w] = "pass" /\ Goto(w, "write")
  /\ Written(Target(w), Text(run[w], FALSE), w)
  /\ foreign' = IF Alone(w) THEN foreign \ {Target(w)} ELSE foreign \cup {Target(w)}
  /\ UNCHANGED <<lockVars, stage, jobVars, runs, repairs, orphans, lost, faults>>

PassDone(w) ==
  /\ pc[w] = "write" /\ Goto(w, "work")
  /\ Written(Target(w), Text(run[w], TRUE), w)
  /\ foreign' = IF Alone(w) THEN foreign ELSE foreign \cup {Target(w)}
  /\ SetRun(w, Committed(runs[run[w]], stage[w], Proofs(stage[w], report')))
  /\ Advance(w, blank[w])
  /\ UNCHANGED <<lockVars, jobVars, repairs, orphans, lost, faults>>

(* fail_run ends the row, and the lock is released.                        *)
(* Mutated form of Failed: the stage that failed counts as committed.      *)
FailedCommitted(w) ==
  LET row == [runs[run[w]] EXCEPT !.status = "failed"]
  IN IF stage[w] \in Passes THEN Committed(row, stage[w], Proofs(stage[w], report')) ELSE row

Failed(w) == [runs[run[w]] EXCEPT !.status = "failed"]

Fails(w) == SetRun(w, Failed(w)) /\ Goto(w, "release")

(* A stage without a report fails, or a cancellation or the time limit is  *)
(* seen at a checkpoint.                                                   *)
Stop(w) ==
  /\ pc[w] \in {"work", "commit"}
  /\ faults < MaxFaults /\ faults' = faults + 1
  /\ UNCHANGED <<lockVars, stage, jobVars, fileVars, repairs, orphans, lost>>
  /\ Fails(w)

(* A pass fails or its time limit kills it, with its report untouched,     *)
(* half written or whole.                                                  *)
PassFails(w) ==
  /\ pc[w] \in {"pass", "write"} /\ faults < MaxFaults /\ faults' = faults + 1
  /\ \/ UNCHANGED fileVars
     \/ /\ pc[w] = "write" /\ Written(Target(w), Text(run[w], TRUE), w)
        /\ foreign' = IF Alone(w) THEN foreign ELSE foreign \cup {Target(w)}
  /\ Fails(w)
  /\ UNCHANGED <<lockVars, stage, jobVars, repairs, orphans, lost>>

(* An exception nobody expects leaves the row running.                     *)
Raise(w) ==
  /\ pc[w] \in {"mark", "work", "commit"} /\ faults < MaxFaults /\ faults' = faults + 1
  /\ Goto(w, "release")
  /\ lost' = IF run[w] = 0 THEN lost ELSE lost \cup {<<"run", run[w]>>}
  /\ UNCHANGED <<lockVars, stage, jobVars, fileVars, runs, repairs, orphans>>

(* The end: the reports of reused stages are compared once more, and the   *)
(* row is completed.                                                       *)
(* Mutated form of Intact: what was current when it was reused still is.   *)
IntactOnce(row) == row.status = "running"

Intact(row) == \A s \in row.reused : Current(row.proof[s])

Validate(w) ==
  /\ pc[w] = "work" /\ stage[w] = "end"
  /\ UNCHANGED <<lockVars, stage, jobVars, report, foreign, repairs, orphans, lost, faults>>
  /\ IF Intact(runs[run[w]])
     THEN Goto(w, "commit") /\ raced' = [raced EXCEPT ![w] = {}] /\ UNCHANGED runs
     ELSE Fails(w) /\ UNCHANGED raced

Finish(w) ==
  /\ pc[w] = "commit" /\ Goto(w, "release")
  /\ SetRun(w, [runs[run[w]] EXCEPT !.status = IF blank[w] THEN "skipped" ELSE "completed"])
  /\ raced' = [raced EXCEPT ![w] = {}]
  /\ UNCHANGED <<lockVars, stage, jobVars, report, foreign, repairs, orphans, lost, faults>>

(* execute_foundation_daily_qa_repair: the answer of the pipeline.         *)
Answer(w) ==
  /\ pc[w] = "answer" /\ Goto(w, "idle")
  /\ repairs' = [repairs EXCEPT ![repair[w]].status =
       IF run[w] # 0 /\ runs[run[w]].status \in {"completed", "skipped"}
       THEN "completed" ELSE "failed"]
  /\ run' = [run EXCEPT ![w] = 0] /\ repair' = [repair EXCEPT ![w] = 0]
  /\ UNCHANGED <<lockVars, stage, parent, steps, plan, blank, fileVars, runs, orphans, lost, faults>>

(* finish_repair_run raises, and the repair stays running.                 *)
RepairLost(w) ==
  /\ pc[w] = "answer" /\ Goto(w, "idle") /\ faults < MaxFaults /\ faults' = faults + 1
  /\ lost' = lost \cup {<<"repair", repair[w]>>}
  /\ run' = [run EXCEPT ![w] = 0] /\ repair' = [repair EXCEPT ![w] = 0]
  /\ UNCHANGED <<lockVars, stage, parent, steps, plan, blank, fileVars, runs, repairs, orphans>>

(* ------------------------- kills, orphans, hands ----------------------- *)
(* A process is killed.  The system releases its locks; a pass it started  *)
(* may go on without it; nobody takes its queued repairs again.            *)
Died(p) == {w \in Workers : Proc(w) = p /\ pc[w] # "idle"}
Children(p) == {[file |-> Target(w), by |-> run[w]] :
                  w \in {v \in Died(p) : pc[v] \in {"pass", "write"} /\ ~blank[v]}}

Crash(p) ==
  LET died == Died(p) IN
  /\ died # {} \/ (p = "dashboard" /\ Queued # {})
  /\ faults < MaxFaults /\ faults' = faults + 1
  /\ \E left \in SUBSET Children(p) : orphans' = orphans \cup left
  /\ pc' = [w \in Workers |-> IF w \in died THEN "idle" ELSE pc[w]]
  /\ stage' = [w \in Workers |-> IF w \in died THEN "end" ELSE stage[w]]
  /\ run' = [w \in Workers |-> IF w \in died THEN 0 ELSE run[w]]
  /\ parent' = [w \in Workers |-> IF w \in died THEN 0 ELSE parent[w]]
  /\ steps' = [w \in Workers |-> IF w \in died THEN {} ELSE steps[w]]
  /\ plan' = [w \in Workers |-> IF w \in died THEN NoPlan ELSE plan[w]]
  /\ blank' = [w \in Workers |-> blank[w] /\ w \notin died]
  /\ repair' = [w \in Workers |-> IF w \in died THEN 0 ELSE repair[w]]
  /\ handle' = [w \in Workers |-> IF w \in died THEN NoFile ELSE handle[w]]
  /\ locks' = [f \in Files |->
       [held |-> IF locks[f].held \in died THEN Nobody ELSE locks[f].held,
        pid |-> IF locks[f].pid = p THEN Nobody ELSE locks[f].pid]]
  /\ window' = window \ died
  /\ raced' = [w \in Workers |-> IF w \in died THEN {} ELSE raced[w]]
  /\ lost' = lost \cup {<<"run", run[w]>> : w \in {v \in died : run[v] # 0}}
                  \cup {<<"repair", i>> : i \in IF p = "dashboard" THEN Unended ELSE {}}
  /\ UNCHANGED <<path, doubled, report, foreign, runs, repairs>>

(* The pass goes on where it was; when it has written its report it ends.  *)
OrphanWrites(o) ==
  \E whole \in BOOLEAN :
    /\ Written(o.file, Text(o.by, whole), Nobody)
    /\ foreign' = foreign \cup {o.file}
    /\ orphans' = IF whole THEN orphans \ {o} ELSE orphans
    /\ UNCHANGED <<lockVars, pc, stage, jobVars, runs, repairs, lost, faults>>

(* The user edits a report.                                                *)
Edit(f) ==
  /\ report[f] # NoFile /\ faults < MaxFaults /\ faults' = faults + 1
  /\ Written(f, Text(ByHand(faults'), TRUE), Nobody) /\ foreign' = foreign \cup {f}
  /\ UNCHANGED <<lockVars, pc, stage, jobVars, runs, repairs, orphans, lost>>

(* ---------------------------- specification ---------------------------- *)
Init ==
  /\ path = NoFile /\ locks = [f \in Files |-> [held |-> Nobody, pid |-> Nobody]]
  /\ handle = [w \in Workers |-> NoFile] /\ window = {} /\ doubled = FALSE
  /\ pc = [w \in Workers |-> "idle"] /\ stage = [w \in Workers |-> "end"]
  /\ run = [w \in Workers |-> 0] /\ parent = [w \in Workers |-> 0]
  /\ steps = [w \in Workers |-> {}] /\ plan = [w \in Workers |-> NoPlan]
  /\ blank = [w \in Workers |-> FALSE] /\ repair = [w \in Workers |-> 0]
  /\ runs = <<>> /\ repairs = <<>> /\ orphans = {} /\ lost = {} /\ faults = 0
  /\ report = [f \in Report |-> NoFile] /\ foreign = {}
  /\ raced = [w \in Workers |-> {}]

Step(w) ==
  \/ Open(w) \/ Flock(w) \/ Refused(w) \/ Mark(w)
  \/ Simple(w) \/ Reuse(w) \/ RunPass(w) \/ OpenReport(w) \/ PassDone(w)
  \/ Validate(w) \/ Finish(w) \/ Unlock(w) \/ ReadOwner(w) \/ Unlink(w) \/ Answer(w)

Fault(w) == Stop(w) \/ PassFails(w) \/ Raise(w) \/ RepairLost(w)

Next ==
  \/ \E w \in Workers : Step(w) \/ Fault(w) \/ Start(w)
  \/ \E retry \in BOOLEAN : QueueRepair(retry)
  \/ \E w \in Threads : \E i \in Queued : TakeRepair(w, i)
  \/ \E p \in Procs : Crash(p)
  \/ \E o \in orphans : OrphanWrites(o)
  \/ \E f \in Report : Edit(f)

(* Every worker goes on, and the dashboard takes what it has queued.       *)
Fairness ==
  /\ \A w \in Workers : WF_vars(Step(w))
  /\ WF_vars(\E w \in Threads : \E i \in Queued : TakeRepair(w, i))

Spec == Init /\ [][Next]_vars /\ Fairness

(* ------------------------------ properties ----------------------------- *)
TypeOK ==
  /\ path \in Files \cup {NoFile}
  /\ locks \in [Files -> [held : Workers \cup {Nobody}, pid : Procs \cup {Nobody}]]
  /\ handle \in [Workers -> Files \cup {NoFile}]
  /\ window \subseteq Workers /\ doubled \in BOOLEAN
  /\ pc \in [Workers -> {"idle", "open", "flock", "mark", "work", "pass", "write", "commit",
                         "release", "read", "unlink", "answer"}]
  /\ stage \in [Workers -> {Order[i] : i \in DOMAIN Order}]
  /\ run \in [Workers -> 0..Len(runs)] /\ parent \in [Workers -> 0..Len(runs)]
  /\ steps \in [Workers -> SUBSET Steps]
  /\ repair \in [Workers -> 0..Len(repairs)]
  /\ blank \in [Workers -> BOOLEAN]
  /\ report \in [Report -> [by : 1..(MaxRuns + MaxFaults), whole : BOOLEAN] \cup {NoFile}]
  /\ foreign \subseteq Report /\ raced \in [Workers -> SUBSET Report]
  /\ \A o \in orphans : o.file \in Report /\ o.by \in Runs
  /\ \A i \in Runs : /\ runs[i].status \in {"running", "failed", "completed", "skipped"}
                     /\ runs[i].parent \in 0..(i - 1)
  /\ lost \subseteq {"run", "repair"} \X (1..(MaxRuns + MaxRepairs))
  /\ Len(runs) <= MaxRuns /\ Len(repairs) <= MaxRepairs /\ faults \in 0..MaxFaults

(* The lock admits one pipeline of the day at a time, in whatever order    *)
(* pipelines start, end and die, stale lock files included, except after   *)
(* the release of one read its own process id and unlinked the file when a *)
(* second one had opened it: the check by name cannot see that.            *)
OneAtATime == Cardinality(InPipeline) <= 1 \/ doubled

(* A run whose row becomes completed, or skipped on a blank day, leaves    *)
(* every report it owes whole and written by itself or by the failed runs  *)
(* it retries, so that a retry never takes over what a failed or killed    *)
(* stage left behind; and what it reused is, to the byte, what was proved. *)
(* Reports written meanwhile by a hand, by a pass that outlived its run or *)
(* by a second pipeline are exempt from the first, those written after the *)
(* last validation from the second.  So is, from the first, a narrative    *)
(* that was reused while a no-activity one of an earlier run hides it: see *)
(* TamperedIsRerun.                                                        *)
Lineage(r) ==
  LET L[i \in 0..Len(runs)] == IF i = 0 THEN {} ELSE {i} \cup L[runs[i].parent] IN L[r]
Owed(row) ==
  IF row.blank THEN {"empty"}
  ELSE (row.steps \cap {"technical", "learning"})
       \cup (IF "narrative" \in row.steps THEN {"story"} ELSE {})
Hidden(row) ==
  IF "narrative" \in row.reused /\ ~row.blank /\ report["empty"] # NoFile
  THEN {"story"} ELSE {}
Sound(w) ==
  LET row == runs[run[w]] IN
  /\ \A f \in Owed(row) \ (foreign \cup Hidden(row)) :
       report[f] # NoFile /\ report[f].whole /\ report[f].by \in Lineage(run[w])
  /\ \A s \in row.reused : \A proof \in row.proof[s] :
       report[proof[1]] = proof[2] \/ proof[1] \in raced[w]
Ended(i) == runs[i].status = "running" /\ runs'[i].status \in {"completed", "skipped"}
CompletedIsSound ==
  [][\A w \in Workers : run[w] # 0 /\ Ended(run[w]) => Sound(w)]_vars

(* A retry runs a stage again when the report the failed run wrote there   *)
(* is missing or was changed: the test of that name says so.  It does not  *)
(* hold of a narrative hidden by the no-activity one of an earlier run:    *)
(* what is recorded and compared for it is the other file.                 *)
TamperedIsRerun ==
  [][\A w \in Workers : run[w] # 0 =>
       \A s \in runs'[run[w]].reused \ runs[run[w]].reused :
         s \in runs[parent[w]].reused \/ report[Target(w)] = Text(parent[w], TRUE)]_vars

(* Again and again nothing is under way: every run that has a row and      *)
(* every repair that is queued ends, with its lock released and its answer *)
(* written, unless a kill or an exception cut it off.                      *)
Pending == ({<<"run", i>> : i \in Running} \cup {<<"repair", i>> : i \in Unended}) \ lost
RunsEnd == []<>(Pending = {} /\ \A w \in Workers : pc[w] = "idle")

=============================================================================
