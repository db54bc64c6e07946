------------------------- MODULE DailyReportsProofs -------------------------
(***************************************************************************)
(* Theorem about the reports of a day: a completed run has whole reports   *)
(* of its own lineage.                                                     *)
(***************************************************************************)
EXTENDS DailyPipelineProofs

-----------------------------------------------------------------------------
(* Induction up to a number, from the pigeonhole: the successor would map  *)
(* a finite set that has 0 and not the number into itself without 0.       *)
LEMMA Induction ==
  ASSUME NEW n \in Nat, NEW S, 0 \in S, \A k \in S \cap (0..n) : k < n => k + 1 \in S
  PROVE  n \in S
<1> SUFFICES ASSUME n \notin S PROVE FALSE
  OBVIOUS
<1> DEFINE A == S \cap (0..n)
           next == [k \in A |-> k + 1]
<1>1. IsFiniteSet(A) /\ Cardinality(A) \in Nat
  <2>1. IsFiniteSet(0..n)
    BY FS_Interval
  <2> QED
    BY <2>1, FS_Subset, FS_CardinalityType
<1>2. next \in Injection(A, A \ {0})
  <2>1. \A k \in A : k + 1 \in A \ {0}
    OBVIOUS
  <2>2. \A j, k \in A : j + 1 = k + 1 => j = k
    OBVIOUS
  <2> HIDE DEF A
  <2> QED
    BY <2>1, <2>2 DEF Injection, IsInjective
<1>3. 0 \in A
  OBVIOUS
<1> HIDE DEF next, A
<1>4. IsFiniteSet(A \ {0}) /\ Cardinality(A \ {0}) = Cardinality(A) - 1
  BY <1>1, <1>3, FS_RemoveElement
<1>5. Cardinality(A) <= Cardinality(A \ {0})
  BY <1>2, <1>4, FS_Injection
<1> QED
  BY <1>1, <1>4, <1>5

(* The lineage of a row: itself, and the lineage of the row it retries.    *)
LineOf(rows, r) ==
  LET L[i \in 0..Len(rows)] == IF i = 0 THEN {} ELSE {i} \cup L[rows[i].parent] IN L[r]

Linked(rows) == Len(rows) \in Nat /\ \A i \in 1..Len(rows) : rows[i].parent \in 0..(i - 1)

Upwards(f, rows, i) == IF i = 0 THEN {} ELSE {i} \cup f[rows[i].parent]
IsLine(f, rows, k) == f = [i \in 0..k |-> Upwards(f, rows, i)]

LEMMA LineExists ==
  ASSUME NEW rows, Linked(rows)
  PROVE  \E f : IsLine(f, rows, Len(rows))
<1> DEFINE S == {k \in 0..Len(rows) : \E f : IsLine(f, rows, k)}
<1>1. 0 \in S
  <2>1. IsLine([i \in 0..0 |-> {}], rows, 0)
    BY DEF IsLine, Upwards
  <2> QED
    BY <2>1 DEF Linked
<1>2. ASSUME NEW k \in S, k < Len(rows) PROVE k + 1 \in S
  <2>1. k \in Nat /\ k + 1 \in 0..Len(rows) /\ Len(rows) \in Nat
    BY <1>2 DEF Linked
  <2>2. PICK f : IsLine(f, rows, k)
    OBVIOUS
  <2> DEFINE g == [i \in 0..(k + 1) |-> IF i = k + 1 THEN {i} \cup f[rows[i].parent] ELSE f[i]]
  <2>3. \A i \in 1..(k + 1) : rows[i].parent \in 0..k /\ rows[i].parent < i
    BY <1>2, <2>1 DEF Linked
  <2>4. \A i \in 0..k : g[i] = Upwards(f, rows, i)
    <3>1. \A i \in 0..k : f[i] = Upwards(f, rows, i)
      BY <2>2 DEF IsLine
    <3>2. \A i \in 0..k : g[i] = f[i]
      BY <2>1
    <3> QED
      BY <3>1, <3>2
  <2>5. g[k + 1] = Upwards(f, rows, k + 1)
    <3>1. g[k + 1] = {k + 1} \cup f[rows[k + 1].parent] /\ k + 1 # 0
      BY <2>1
    <3> QED
      BY <3>1 DEF Upwards
  <2>6. ASSUME NEW i \in 0..(k + 1) PROVE Upwards(g, rows, i) = Upwards(f, rows, i)
    <3>1. CASE i = 0
      BY <3>1 DEF Upwards
    <3>2. CASE i # 0
      <4>1. rows[i].parent \in 0..k
        BY <2>1, <2>3, <3>2
      <4>2. g[rows[i].parent] = f[rows[i].parent]
        BY <2>1, <4>1
      <4> QED
        BY <4>2 DEF Upwards
    <3> QED
      BY <3>1, <3>2
  <2>7. \A i \in 0..(k + 1) : g[i] = Upwards(g, rows, i)
    <3> HIDE DEF g
    <3>1. \A i \in 0..(k + 1) : i \in 0..k \/ i = k + 1
      BY <2>1
    <3> QED
      BY <2>4, <2>5, <2>6, <3>1
  <2>8. IsLine(g, rows, k + 1)
    <3>1. g = [i \in 0..(k + 1) |-> g[i]]
      OBVIOUS
    <3> HIDE DEF g
    <3> QED
      BY <2>7, <3>1 DEF IsLine
  <2> QED
    BY <2>1, <2>8
<1>3. Len(rows) \in S
  <2> HIDE DEF S
  <2> QED
    BY <1>1, <1>2, Induction DEF Linked
<1> QED
  BY <1>3

LEMMA LineStep ==
  ASSUME NEW rows, Linked(rows)
  PROVE  /\ LineOf(rows, 0) = {}
         /\ \A r \in 1..Len(rows) : LineOf(rows, r) = {r} \cup LineOf(rows, rows[r].parent)
<1> DEFINE L == CHOOSE f : IsLine(f, rows, Len(rows))
<1>1. IsLine(L, rows, Len(rows))
  BY LineExists
<1>2. \A r : LineOf(rows, r) = L[r]
  BY DEF LineOf, IsLine, Upwards
<1> HIDE DEF L
<1>3. \A r \in 0..Len(rows) : L[r] = Upwards(L, rows, r)
  BY <1>1 DEF IsLine
<1>4. 0 \in 0..Len(rows) /\ \A r \in 1..Len(rows) : r \in 0..Len(rows) /\ r # 0
  BY DEF Linked
<1>5. L[0] = {}
  BY <1>3, <1>4 DEF Upwards
<1>6. ASSUME NEW r \in 1..Len(rows) PROVE L[r] = {r} \cup L[rows[r].parent]
  BY <1>3, <1>4 DEF Upwards
<1> QED
  BY <1>2, <1>5, <1>6

(* It does not change when rows are added and edited, their parents apart. *)
LEMMA LineSame ==
  ASSUME NEW rows, NEW more, Linked(rows), Linked(more), Len(rows) <= Len(more),
         \A i \in 1..Len(rows) : more[i].parent = rows[i].parent
  PROVE  \A r \in 0..Len(rows) : LineOf(more, r) = LineOf(rows, r)
<1> DEFINE S == {k \in 0..Len(rows) : \A r \in 0..k : LineOf(more, r) = LineOf(rows, r)}
<1>0. Len(rows) \in Nat /\ Len(more) \in Nat
  BY DEF Linked
<1>1. 0 \in S
  <2>1. LineOf(more, 0) = LineOf(rows, 0)
    BY LineStep
  <2> QED
    BY <1>0, <2>1
<1>2. ASSUME NEW k \in S, k < Len(rows) PROVE k + 1 \in S
  <2>1. k + 1 \in 1..Len(rows) /\ k + 1 \in 1..Len(more) /\ rows[k + 1].parent \in 0..k
    BY <1>0, <1>2 DEF Linked
  <2>2. LineOf(more, rows[k + 1].parent) = LineOf(rows, rows[k + 1].parent)
    BY <2>1
  <2>3. LineOf(more, k + 1) = LineOf(rows, k + 1)
    <3>1. LineOf(more, k + 1) = {k + 1} \cup LineOf(more, more[k + 1].parent)
      BY <2>1, LineStep
    <3>2. LineOf(rows, k + 1) = {k + 1} \cup LineOf(rows, rows[k + 1].parent)
      BY <2>1, LineStep
    <3> QED
      BY <2>1, <2>2, <3>1, <3>2
  <2> QED
    BY <1>0, <2>1, <2>3
<1>3. Len(rows) \in S
  <2> HIDE DEF S
  <2> QED
    BY <1>0, <1>1, <1>2, Induction
<1> QED
  BY <1>3

-----------------------------------------------------------------------------
(* The inductive invariant.  The rows a retry may take over are frozen,    *)
(* what rows prove is whole and of their lineage, and so is every report   *)
(* that a run at work has behind it, as far as nobody else wrote it.       *)
Pipe == {"work", "pass", "write", "commit"}

(* The passes from a stage on, and those a run at work has behind it.      *)
Left(s) == IF s \in {"inputs", "narrative"} THEN Passes
           ELSE IF s = "technical" THEN {"technical", "learning"}
           ELSE IF s = "learning" THEN {"learning"} ELSE {}
Behind(chosen, s, empty) == {t \in (Passes \cap chosen) \ Left(s) : empty => t = "narrative"}

TargetOf(s, empty) ==
  IF s # "narrative" THEN s ELSE IF empty THEN "empty" ELSE "story"

Own(rows, text, i) == text.whole /\ text.by \in LineOf(rows, i)

(* A proof is of the stage's own report, or of the one that hides it.      *)
Hides(s, empty, f) == s = "narrative" /\ ~empty /\ f = "empty"
ProofFits(rows, proofs, s, empty, i) ==
  \A proof \in proofs : \/ proof[1] = TargetOf(s, empty) /\ Own(rows, proof[2], i)
                        \/ Hides(s, empty, proof[1])

RowFits(rows, i) == \A s \in Passes : ProofFits(rows, rows[i].proof[s], s, rows[i].blank, i)
HasFailed(rows, i) == i # 0 => rows[i].status = "failed"
PlanFits(w) ==
  /\ HasFailed(runs, parent[w])
  /\ \A s \in Passes : plan[w][s] # {} =>
       /\ parent[w] # 0
       /\ ProofFits(runs, plan[w][s], s, runs[parent[w]].blank, parent[w])

(* A run at work is what its row says.                                     *)
RowIsJob(w) ==
  LET row == runs[run[w]] IN
  /\ row.status = "running" /\ row.parent = parent[w]
  /\ row.steps = steps[w] /\ row.blank = blank[w]
  /\ blank[w] => "narrative" \in steps[w]
  /\ stage[w] = "inputs" =>
       "narrative" \in steps[w] /\ \A s \in Passes : row.proof[s] = {}
RowFitsJob(w) ==
  /\ pc[w] \in Pipe => RowIsJob(w)
  /\ pc[w] \in {"idle", "open", "flock", "mark", "answer"} => blank[w] = FALSE

(* What it has behind it is good, and validated before it is committed.    *)
HiddenStory(w, s) ==
  /\ s = "narrative" /\ ~blank[w] /\ report["empty"] # NoFile
  /\ s \in runs[run[w]].reused
Good(f, i) == report[f] # NoFile /\ Own(runs, report[f], i)
BehindIsGood(w) ==
  \A s \in Behind(steps[w], stage[w], blank[w]) :
    \/ TargetOf(s, blank[w]) \in foreign
    \/ HiddenStory(w, s)
    \/ Good(TargetOf(s, blank[w]), run[w])
Validated(w) ==
  /\ stage[w] = "end"
  /\ \A s \in runs[run[w]].reused : \A proof \in runs[run[w]].proof[s] :
       report[proof[1]] = proof[2] \/ proof[1] \in raced[w]
ReportsFit(w) ==
  /\ pc[w] \in Pipe => BehindIsGood(w)
  /\ pc[w] = "commit" => Validated(w)

Ledger ==
  /\ \A i \in Runs : RowFits(runs, i)
  /\ \A i \in DOMAIN repairs : HasFailed(runs, repairs[i].source)
  /\ \A v, w \in Workers : run[v] = run[w] /\ run[v] # 0 => v = w
Job(w) == PlanFits(w) /\ RowFitsJob(w) /\ ReportsFit(w)
Sources == Ledger /\ \A w \in Workers : Job(w)

-----------------------------------------------------------------------------
(* What steps leave alone.  Rows are added and those of runs that ended    *)
(* are never changed, so that lineages stay as they are.                   *)
Grown ==
  /\ Len(runs) <= Len(runs')
  /\ \A i \in 1..Len(runs) :
       /\ runs'[i].parent = runs[i].parent
       /\ runs[i].status = "failed" => runs'[i] = runs[i]

LEMMA LinkedRows ==
  ASSUME NEW rows \in Seq(Row), \A i \in DOMAIN rows : rows[i].parent < i
  PROVE  Linked(rows)
<1>1. ASSUME NEW i \in 1..Len(rows) PROVE rows[i].parent \in 0..(i - 1)
  <2>1. rows[i] \in Row /\ rows[i].parent < i /\ i \in Nat
    OBVIOUS
  <2>2. rows[i].parent \in Nat
    BY <2>1 DEF Row
  <2> QED
    BY <2>1, <2>2
<1> QED
  BY <1>1 DEF Linked

LEMMA LinkedRuns ==
  ASSUME RowsTyped
  PROVE  Linked(runs) /\ Runs = 1..Len(runs) /\ Len(runs) \in Nat
  BY LinkedRows DEF RowsTyped, Runs

LEMMA OwnKept ==
  ASSUME RowsTyped, RowsTyped', Grown
  PROVE  \A i \in 0..Len(runs) : \A text : Own(runs', text, i) <=> Own(runs, text, i)
<1>1. Linked(runs) /\ Linked(runs')
  BY LinkedRows DEF RowsTyped, Runs
<1>2. \A i \in 0..Len(runs) : LineOf(runs', i) = LineOf(runs, i)
  BY <1>1, LineSame DEF Grown
<1> QED
  BY <1>2 DEF Own

LEMMA ProofKept ==
  ASSUME RowsTyped, RowsTyped', Grown, NEW i \in 0..Len(runs), NEW proofs, NEW s, NEW empty,
         ProofFits(runs, proofs, s, empty, i)
  PROVE  ProofFits(runs', proofs, s, empty, i)
  BY OwnKept DEF ProofFits

(* A retry has the lineage of the run it retries.                          *)
LEMMA Inherits ==
  ASSUME RowsTyped, NEW i \in 1..Len(runs)
  PROVE  /\ \A text : Own(runs, text, runs[i].parent) => Own(runs, text, i)
         /\ \A text : text.whole /\ text.by = i => Own(runs, text, i)
<1>1. LineOf(runs, i) = {i} \cup LineOf(runs, runs[i].parent)
  BY LinkedRuns, LineStep
<1> QED
  BY <1>1 DEF Own

SameJob(v) ==
  /\ pc'[v] = pc[v] /\ stage'[v] = stage[v] /\ run'[v] = run[v] /\ parent'[v] = parent[v]
  /\ steps'[v] = steps[v] /\ plan'[v] = plan[v] /\ blank'[v] = blank[v]
  /\ run[v] # 0 => runs'[run[v]] = runs[run[v]]

(* Reports may change if that is on record.                                *)
SameReports(v) ==
  /\ foreign \subseteq foreign' /\ raced[v] \subseteq raced'[v]
  /\ \A f : \/ report'[f] = report[f]
            \/ f \in foreign' /\ report'[f] # NoFile /\ (pc[v] = "commit" => f \in raced'[v])

LEMMA PlanKept ==
  ASSUME Typed, RowsTyped', Grown, NEW v \in Workers, PlanFits(v),
         parent'[v] = parent[v], plan'[v] = plan[v]
  PROVE  PlanFits(v)'
<1>1. parent[v] \in 0..Len(runs) /\ RowsTyped /\ Len(runs) \in Nat
  BY LinkedRuns DEF Typed, Jobs, JobsTyped
<1>2. parent[v] # 0 => runs'[parent[v]] = runs[parent[v]] /\ runs[parent[v]].status = "failed"
  BY <1>1 DEF PlanFits, HasFailed, Grown
<1>3. HasFailed(runs', parent[v])
  BY <1>2 DEF HasFailed
<1>4. ASSUME NEW s \in Passes, plan[v][s] # {}
      PROVE  parent[v] # 0 /\ ProofFits(runs', plan[v][s], s, runs'[parent[v]].blank, parent[v])
  BY <1>1, <1>2, <1>4, ProofKept DEF PlanFits
<1> QED
  BY <1>3, <1>4 DEF PlanFits

LEMMA RunHasRow ==
  ASSUME Typed, NEW v \in Workers, pc[v] \in Pipe
  PROVE  run[v] # 0 /\ run[v] \in 1..Len(runs) /\ runs[run[v]] \in Row
  BY PassWrites, LinkedRuns DEF Typed, Jobs, Pipe

LEMMA JobKept ==
  ASSUME Typed, RowsTyped', Grown, NEW v \in Workers, Job(v), SameJob(v),
         pc[v] \in Pipe => SameReports(v)
  PROVE  Job(v)'
<1>1. PlanFits(v)'
  BY PlanKept DEF Job, SameJob
<1>2. RowFitsJob(v)'
  <2>1. CASE pc[v] \in Pipe
    <3>1. RowIsJob(v)'
      BY <2>1, RunHasRow DEF Job, SameJob, RowFitsJob, RowIsJob
    <3> QED
      BY <2>1, <3>1 DEF SameJob, RowFitsJob, Pipe
  <2>2. CASE pc[v] \notin Pipe
    BY <2>2 DEF Job, SameJob, RowFitsJob
  <2> QED
    BY <2>1, <2>2
<1>3. ReportsFit(v)'
  <2>1. CASE pc[v] \notin Pipe
    BY <2>1 DEF SameJob, ReportsFit, Pipe
  <2>2. CASE pc[v] \in Pipe
    <3>0. run'[v] = run[v] /\ runs'[run[v]] = runs[run[v]] /\ run[v] \in 0..Len(runs)
          /\ SameReports(v) /\ BehindIsGood(v) /\ RowsTyped
      BY <2>2, RunHasRow DEF SameJob, Job, ReportsFit, Typed, Jobs, JobsTyped
    <3>1. BehindIsGood(v)'
      <4> SUFFICES ASSUME NEW s \in Behind(steps[v], stage[v], blank[v])
                   PROVE  \/ TargetOf(s, blank[v]) \in foreign'
                          \/ HiddenStory(v, s)'
                          \/ LET f == TargetOf(s, blank[v]) IN
                               report'[f] # NoFile /\ Own(runs', report'[f], run[v])
        BY <3>0 DEF BehindIsGood, SameJob, Good
      <4>1. CASE TargetOf(s, blank[v]) \in foreign
        BY <3>0, <4>1 DEF SameReports
      <4>2. CASE HiddenStory(v, s)
        BY <3>0, <4>2 DEF HiddenStory, SameReports, SameJob
      <4>3. CASE Good(TargetOf(s, blank[v]), run[v])
        <5> DEFINE f == TargetOf(s, blank[v])
        <5> HIDE DEF f
        <5>1. CASE report'[f] = report[f]
          <6>1. Own(runs', report[f], run[v])
            BY <3>0, <4>3, OwnKept DEF Good, f
          <6> QED
            BY <3>0, <4>3, <5>1, <6>1 DEF Good, f
        <5>2. CASE f \in foreign'
          BY <5>2 DEF f
        <5> QED
          BY <3>0, <5>1, <5>2 DEF SameReports
      <4> QED
        BY <3>0, <4>1, <4>2, <4>3 DEF BehindIsGood
    <3>2. pc[v] = "commit" => Validated(v)'
      BY <3>0 DEF Job, ReportsFit, Validated, SameReports, SameJob
    <3> QED
      BY <3>1, <3>2 DEF ReportsFit, SameJob
  <2> QED
    BY <2>1, <2>2
<1> QED
  BY <1>1, <1>2, <1>3 DEF Job

LEMMA LedgerKept ==
  ASSUME Typed, Sources, UNCHANGED <<runs, repairs>>,
         \A v \in Workers : run'[v] \in {0, run[v]}
  PROVE  Ledger' /\ Grown
<1>1. Ledger' = /\ \A i \in Runs : RowFits(runs, i)
                /\ \A i \in DOMAIN repairs : HasFailed(runs, repairs[i].source)
                /\ \A v, w \in Workers : run'[v] = run'[w] /\ run'[v] # 0 => v = w
  BY DEF Ledger, Runs
<1>2. Len(runs) \in Nat
  BY LinkedRuns DEF Typed, Jobs
<1> QED
  BY <1>1, <1>2 DEF Sources, Ledger, Grown

(* A job that is not at work: the plan alone is of interest.               *)
LEMMA JobAway ==
  ASSUME Typed, RowsTyped', Grown, NEW w \in Workers, Job(w), pc'[w] \notin Pipe,
         \/ parent'[w] = parent[w] /\ plan'[w] = plan[w]
         \/ parent'[w] = 0 /\ plan'[w] = NoPlan,
         pc'[w] \in {"idle", "open", "flock", "mark", "answer"} => blank'[w] = FALSE
  PROVE  Job(w)'
<1>1. PlanFits(w)'
  <2>1. CASE parent'[w] = parent[w] /\ plan'[w] = plan[w]
    BY <2>1, PlanKept DEF Job
  <2>2. CASE parent'[w] = 0 /\ plan'[w] = NoPlan
    BY <2>2 DEF PlanFits, NoPlan, HasFailed
  <2> QED
    BY <2>1, <2>2
<1> QED
  BY <1>1 DEF Job, RowFitsJob, ReportsFit, Pipe

LEMMA Moves ==
  ASSUME Typed, Typed', Sources, NEW w \in Workers,
         Open(w) \/ Flock(w) \/ Unlock(w) \/ RunPass(w) \/ (ReadOwner(w) /\ NamesMe(w))
  PROVE  Sources'
<1>0. /\ UNCHANGED <<stage, jobVars, fileVars, runs, repairs>> /\ pc \in [Workers -> Places]
      /\ \/ pc[w] = "open" /\ pc' = [pc EXCEPT ![w] = "flock"]
         \/ pc[w] = "flock" /\ pc' = [pc EXCEPT ![w] = "mark"]
         \/ pc[w] = "release" /\ pc' = [pc EXCEPT ![w] = "read"]
         \/ pc[w] = "read" /\ pc' = [pc EXCEPT ![w] = "unlink"]
         \/ pc[w] = "work" /\ pc' = [pc EXCEPT ![w] = "pass"]
  BY DEF Typed, LockTyped, Open, Flock, Unlock, RunPass, ReadOwner, Goto
<1>1. Ledger' /\ Grown /\ RowsTyped'
  BY <1>0, LedgerKept DEF Typed, Jobs, jobVars
<1>2. \A v \in Workers : SameReports(v)
  BY <1>0 DEF SameReports, fileVars
<1>3. ASSUME NEW v \in Workers, v # w PROVE Job(v)'
  <2>1. SameJob(v)
    BY <1>0, <1>3 DEF SameJob, jobVars
  <2> QED
    BY <1>1, <1>2, <2>1, JobKept DEF Sources
<1>4. Job(w)'
  <2>1. CASE pc[w] = "work"
    <3>1. pc'[w] = "pass" /\ RowIsJob(w) /\ BehindIsGood(w) /\ PlanFits(w)
      BY <1>0, <2>1 DEF Sources, Job, RowFitsJob, ReportsFit, Pipe
    <3>2. RowIsJob(w)' /\ BehindIsGood(w)' /\ PlanFits(w)'
      BY <1>0, <3>1 DEF RowIsJob, BehindIsGood, HiddenStory, Good, PlanFits, jobVars, fileVars
    <3> QED
      BY <3>1, <3>2 DEF Job, RowFitsJob, ReportsFit, Pipe
  <2>2. CASE pc[w] # "work"
    <3>1. pc'[w] \notin Pipe /\ parent'[w] = parent[w] /\ plan'[w] = plan[w]
      BY <1>0, <2>2 DEF Pipe, jobVars
    <3>2. pc'[w] \in {"idle", "open", "flock", "mark", "answer"} => blank'[w] = FALSE
      BY <1>0, <2>2 DEF Sources, Job, RowFitsJob, jobVars
    <3> QED
      BY <1>1, <3>1, <3>2, JobAway DEF Sources
  <2> QED
    BY <2>1, <2>2
<1> QED
  BY <1>1, <1>3, <1>4 DEF Sources

(* A job that is forgotten, and the end of a repair.                       *)
LEMMA Leaves ==
  ASSUME Typed, Typed', Sources, NEW w \in Workers,
         \/ Return(w) /\ UNCHANGED <<fileVars, runs, repairs>>
         \/ Answer(w) \/ RepairLost(w)
  PROVE  Sources'
<1>0. /\ pc \in [Workers -> Places] /\ JobsTyped /\ UNCHANGED <<fileVars, runs>>
      /\ RowsTyped /\ RowsTyped' /\ repairs \in Seq(RepairRow)
  BY DEF Typed, Jobs, LockTyped, RowsTyped, Answer, RepairLost
<1>1. /\ \A v \in Workers : v # w =>
           /\ pc'[v] = pc[v] /\ stage'[v] = stage[v] /\ run'[v] = run[v]
           /\ parent'[v] = parent[v] /\ steps'[v] = steps[v] /\ plan'[v] = plan[v]
           /\ blank'[v] = blank[v]
      /\ run'[w] \in {0, run[w]} /\ pc'[w] \in {"idle", "answer"}
      /\ \/ parent'[w] = parent[w] /\ plan'[w] = plan[w] /\ blank'[w] = blank[w]
            /\ pc[w] = "answer"
         \/ parent'[w] = 0 /\ plan'[w] = NoPlan /\ blank'[w] = FALSE
  BY <1>0 DEF JobsTyped, Return, Forget, Answer, RepairLost, Goto
<1>2. \A i \in DOMAIN repairs' : i \in DOMAIN repairs /\ repairs'[i].source = repairs[i].source
  <2>1. CASE UNCHANGED repairs
    BY <2>1
  <2>2. ASSUME NEW status, repairs' = [repairs EXCEPT ![repair[w]].status = status]
        PROVE  <1>2!:
    <3>1. \A i \in DOMAIN repairs : repairs[i] \in RepairRow
      BY <1>0
    <3>2. \A i \in DOMAIN repairs :
            repairs'[i] \in {repairs[i], [repairs[i] EXCEPT !.status = status]}
      BY <2>2
    <3>3. \A i \in DOMAIN repairs : [repairs[i] EXCEPT !.status = status].source = repairs[i].source
      BY <3>1 DEF RepairRow
    <3> QED
      BY <2>2, <3>2, <3>3
  <2> QED
    BY <2>1, <2>2 DEF Answer, RepairLost
<1>3. Grown
  BY <1>0, LinkedRuns DEF Grown
<1>4. Ledger'
  <2>1. \A i \in DOMAIN repairs' : HasFailed(runs, repairs'[i].source)
    BY <1>2 DEF Sources, Ledger
  <2>2. \A u, v \in Workers : run'[u] = run'[v] /\ run'[u] # 0 => u = v
    BY <1>1 DEF Sources, Ledger
  <2> QED
    BY <1>0, <2>1, <2>2 DEF Sources, Ledger, Runs
<1>5. ASSUME NEW v \in Workers, v # w PROVE Job(v)'
  <2>1. SameJob(v) /\ SameReports(v)
    BY <1>0, <1>1, <1>5 DEF SameJob, SameReports, fileVars
  <2> QED
    BY <1>0, <1>3, <2>1, JobKept DEF Sources
<1>6. Job(w)'
  <2>1. pc'[w] \notin Pipe /\ blank'[w] = FALSE
    BY <1>1 DEF Pipe, Sources, Job, RowFitsJob
  <2> QED
    BY <1>0, <1>1, <1>3, <2>1, JobAway DEF Sources
<1> QED
  BY <1>4, <1>5, <1>6 DEF Sources

(* A call plans to take over what the failed run proved.                   *)
LEMMA Called ==
  ASSUME Typed, Typed', Sources, NEW w \in Workers, NEW p \in 0..Len(runs), NEW chosen, NEW i,
         Call(w, p, chosen, i), HasFailed(runs, p)
  PROVE  Grown /\ \A v \in Workers : Job(v)'
<1>0. /\ pc \in [Workers -> Places] /\ JobsTyped /\ RowsTyped /\ RowsTyped' /\ Len(runs) \in Nat
      /\ pc[w] = "idle" /\ pc' = [pc EXCEPT ![w] = "open"]
      /\ parent' = [parent EXCEPT ![w] = p] /\ steps' = [steps EXCEPT ![w] = chosen]
      /\ plan' = [plan EXCEPT ![w] = Reusable(p, chosen)]
      /\ UNCHANGED <<stage, run, blank, fileVars, runs>>
  BY LinkedRuns DEF Typed, Jobs, LockTyped, Call, Goto
<1>1. Grown
  BY <1>0 DEF Grown
<1>2. ASSUME NEW v \in Workers, v # w PROVE Job(v)'
  <2>1. SameJob(v) /\ SameReports(v)
    BY <1>0, <1>2 DEF SameJob, SameReports, fileVars, JobsTyped
  <2> QED
    BY <1>0, <1>1, <2>1, JobKept DEF Sources
<1>3. PlanFits(w)'
  <2>1. parent'[w] = p /\ plan'[w] = Reusable(p, chosen)
    BY <1>0 DEF JobsTyped
  <2>2. ASSUME NEW s \in Passes, Reusable(p, chosen)[s] # {}
        PROVE  p # 0 /\ ProofFits(runs, Reusable(p, chosen)[s], s, runs[p].blank, p)
    <3>1. p # 0 /\ Reusable(p, chosen)[s] = runs[p].proof[s]
      BY <2>2 DEF Reusable
    <3>2. RowFits(runs, p)
      BY <1>0, <3>1, LinkedRuns DEF Sources, Ledger
    <3> QED
      BY <3>1, <3>2 DEF RowFits
  <2> QED
    BY <1>0, <2>1, <2>2 DEF PlanFits
<1>4. Job(w)'
  <2>1. pc'[w] = "open" /\ blank'[w] = FALSE
    BY <1>0 DEF Sources, Job, RowFitsJob
  <2> QED
    BY <1>3, <2>1 DEF Job, RowFitsJob, ReportsFit, Pipe
<1> QED
  BY <1>1, <1>2, <1>4

LEMMA CallsKeep ==
  ASSUME Typed, Typed', Sources, NEW w \in Workers,
         Start(w) \/ \E i \in Queued : TakeRepair(w, i)
  PROVE  Sources'
<1>0. RowsTyped /\ UNCHANGED <<run, runs>> /\ Len(runs) \in Nat
  BY LinkedRuns DEF Typed, Jobs, Start, TakeRepair, Call
<1>1. CASE Start(w)
  <2>1. UNCHANGED repairs /\ \E chosen : Call(w, 0, chosen, 0)
    BY <1>1 DEF Start
  <2>2. \A v \in Workers : Job(v)'
    BY <1>0, <2>1, Called DEF HasFailed
  <2>3. Ledger'
    BY <1>0, <2>1, LedgerKept
  <2> QED
    BY <2>2, <2>3 DEF Sources
<1>2. ASSUME NEW i \in Queued, TakeRepair(w, i) PROVE Sources'
  <2>0. /\ i \in DOMAIN repairs /\ repairs \in Seq(RepairRow)
        /\ Call(w, repairs[i].source, Production, i)
        /\ repairs' = [repairs EXCEPT ![i].status = "running"]
    BY <1>0, <1>2 DEF Queued, Unended, TakeRepair, RowsTyped
  <2>1. repairs[i] \in RepairRow
    BY <2>0
  <2>2. repairs[i].source \in 0..Len(runs) /\ HasFailed(runs, repairs[i].source)
    BY <1>0, <2>0, <2>1 DEF RepairRow, RowsTyped, Sources, Ledger
  <2>3. \A v \in Workers : Job(v)'
    BY <2>0, <2>2, Called
  <2>4. \A j \in DOMAIN repairs' : j \in DOMAIN repairs /\ repairs'[j].source = repairs[j].source
    <3>1. [repairs[i] EXCEPT !.status = "running"].source = repairs[i].source
      BY <2>1 DEF RepairRow
    <3> QED
      BY <2>0, <3>1
  <2>5. Ledger'
    <3>1. \A j \in DOMAIN repairs' : HasFailed(runs, repairs'[j].source)
      BY <2>4 DEF Sources, Ledger
    <3> QED
      BY <1>0, <3>1 DEF Sources, Ledger, Runs
  <2> QED
    BY <2>3, <2>5 DEF Sources
<1> QED
  BY <1>1, <1>2

(* Every worker goes on as it was, and only reports that are on record as  *)
(* somebody else's have changed.                                           *)
LEMMA NobodyMoves ==
  ASSUME Typed, Typed', Sources, UNCHANGED <<pc, stage, jobVars, runs>>,
         \A v \in Workers : SameReports(v)
  PROVE  Grown /\ \A v \in Workers : Job(v)'
<1>1. RowsTyped /\ RowsTyped' /\ Grown
  BY LinkedRuns DEF Typed, Jobs, Grown
<1>2. \A v \in Workers : SameJob(v)
  BY DEF SameJob, jobVars
<1> QED
  BY <1>1, <1>2, JobKept DEF Sources

LEMMA QueueKeeps ==
  ASSUME Typed, Typed', Sources, NEW retry \in BOOLEAN, QueueRepair(retry)
  PROVE  Sources'
<1>0. /\ RowsTyped /\ Len(runs) \in Nat /\ runs \in Seq(Row) /\ repairs \in Seq(RepairRow)
      /\ UNCHANGED <<pc, stage, jobVars, fileVars, runs>>
  BY LinkedRuns DEF Typed, Jobs, RowsTyped, QueueRepair
<1>1. \A v \in Workers : Job(v)'
  <2>1. \A v \in Workers : SameReports(v)
    BY <1>0 DEF SameReports, fileVars
  <2> QED
    BY <1>0, <2>1, NobodyMoves
<1>2. PICK latest : /\ HasFailed(runs, latest)
                    /\ repairs' = Append(repairs, [status |-> "queued", retry |-> retry,
                                                   source |-> latest])
  <2> DEFINE latest == IF retry /\ runs # <<>> /\ runs[Len(runs)].status = "failed"
                       THEN Len(runs) ELSE 0
  <2>1. HasFailed(runs, latest)
    BY DEF HasFailed
  <2>2. repairs' = Append(repairs, [status |-> "queued", retry |-> retry, source |-> latest])
    BY DEF QueueRepair
  <2> QED
    BY <2>1, <2>2
<1>3. \A j \in DOMAIN repairs' : HasFailed(runs, repairs'[j].source)
  <2>1. \A j \in DOMAIN repairs' : \/ j \in DOMAIN repairs /\ repairs'[j] = repairs[j]
                                   \/ repairs'[j].source = latest
    BY <1>0, <1>2
  <2> QED
    BY <1>2, <2>1 DEF Sources, Ledger
<1>4. Ledger'
  BY <1>0, <1>3 DEF Sources, Ledger, Runs, jobVars
<1> QED
  BY <1>1, <1>4 DEF Sources

LEMMA OthersKeep ==
  ASSUME Typed, Typed', Sources,
         (\E o \in orphans : OrphanWrites(o)) \/ (\E f \in Report : Edit(f))
  PROVE  Sources'
<1>0. UNCHANGED <<pc, stage, jobVars, runs, repairs>> /\ report \in [Report -> Texts \cup {NoFile}]
      /\ raced \in [Workers -> SUBSET Report]
  BY DEF Typed, FilesTyped, OrphanWrites, Edit
<1>1. PICK f, by, whole : /\ Written(f, Text(by, whole), Nobody) /\ foreign' = foreign \cup {f}
                          /\ Text(by, whole) \in [by : Nat, whole : BOOLEAN]
  <2>1. ASSUME NEW o \in orphans, OrphanWrites(o)
        PROVE  \E f, by, whole : /\ Written(f, Text(by, whole), Nobody)
                                 /\ foreign' = foreign \cup {f}
                                 /\ Text(by, whole) \in [by : Nat, whole : BOOLEAN]
    <3>1. o.by \in Nat
      BY LinkedRuns DEF Typed, Jobs, FilesTyped
    <3> QED
      BY <2>1, <3>1 DEF OrphanWrites, Text
  <2>2. ASSUME NEW g \in Report, Edit(g)
        PROVE  \E f, by, whole : /\ Written(f, Text(by, whole), Nobody)
                                 /\ foreign' = foreign \cup {f}
                                 /\ Text(by, whole) \in [by : Nat, whole : BOOLEAN]
    <3>1. ByHand(faults') \in Nat
      BY PipelineAssumption DEF Typed, Roomy, ByHand
    <3> QED
      BY <2>2, <3>1 DEF Edit, Text
  <2> QED
    BY <2>1, <2>2
<1>2. Text(by, whole) # NoFile
  BY <1>1, PipelineAssumption
<1>3. ASSUME NEW v \in Workers PROVE SameReports(v)
  <2>1. \A g : report'[g] = report[g] \/ (g = f /\ report'[g] # NoFile)
    BY <1>0, <1>1, <1>2 DEF Written
  <2>2. raced[v] \subseteq raced'[v] /\ (pc[v] = "commit" => f \in raced'[v])
    BY <1>1, Values DEF Written
  <2> QED
    BY <1>1, <2>1, <2>2 DEF SameReports
<1>4. (\A v \in Workers : Job(v)') /\ Ledger'
  BY <1>0, <1>3, NobodyMoves, LedgerKept DEF jobVars
<1> QED
  BY <1>4 DEF Sources

LEMMA CrashKeeps ==
  ASSUME Typed, Typed', Sources, NEW p \in Procs, Crash(p)
  PROVE  Sources'
<1> DEFINE died == Died(p)
<1>0. /\ pc' = [w \in Workers |-> IF w \in died THEN "idle" ELSE pc[w]]
      /\ stage' = [w \in Workers |-> IF w \in died THEN "end" ELSE stage[w]]
      /\ run' = [w \in Workers |-> IF w \in died THEN 0 ELSE run[w]]
      /\ parent' = [w \in Workers |-> IF w \in died THEN 0 ELSE parent[w]]
      /\ steps' = [w \in Workers |-> IF w \in died THEN {} ELSE steps[w]]
      /\ plan' = [w \in Workers |-> IF w \in died THEN NoPlan ELSE plan[w]]
      /\ blank' = [w \in Workers |-> blank[w] /\ w \notin died]
      /\ raced' = [w \in Workers |-> IF w \in died THEN {} ELSE raced[w]]
      /\ UNCHANGED <<report, foreign, runs, repairs>>
      /\ blank \in [Workers -> BOOLEAN] /\ RowsTyped'
  BY DEF Crash, Typed, Jobs, JobsTyped
<1> HIDE DEF died
<1>1. Ledger' /\ Grown
  BY <1>0, LedgerKept
<1>2. ASSUME NEW v \in Workers PROVE Job(v)'
  <2>1. CASE v \in died
    <3>1. pc'[v] = "idle" /\ parent'[v] = 0 /\ plan'[v] = NoPlan /\ blank'[v] = FALSE
      BY <1>0, <2>1
    <3> QED
      BY <1>0, <1>1, <3>1, JobAway DEF Sources, Pipe
  <2>2. CASE v \notin died
    <3>1. SameJob(v) /\ SameReports(v)
      BY <1>0, <2>2 DEF SameJob, SameReports
    <3> QED
      BY <1>0, <1>1, <3>1, JobKept DEF Sources
  <2> QED
    BY <2>1, <2>2
<1> QED
  BY <1>1, <1>2 DEF Sources

-----------------------------------------------------------------------------
(* The loop leaves out no pass: those ahead that are chosen, and not left  *)
(* out on a blank day, are still ahead after it has gone on.               *)
LEMMA AfterSkipsNone ==
  ASSUME NEW s \in {"none", "inputs", "narrative", "technical", "learning", "rag"},
         NEW chosen, NEW empty \in BOOLEAN
  PROVE  /\ After(s, chosen, empty) \in Stages
         /\ After(s, chosen, empty) = "inputs" => s = "none" /\ "narrative" \in chosen
         /\ \A t \in Passes \cap chosen :
              /\ s = "none" \/ (t \in Left(s) /\ t # s)
              /\ empty => t = "narrative"
              => t \in Left(After(s, chosen, empty))
<1> DEFINE A == Ahead(s, chosen, empty)
           a == CHOOSE i \in A : \A j \in A : i <= j
<1>1. /\ DOMAIN Order = 1..6 /\ Order[6] = "end"
      /\ Order[1] = "inputs" /\ Order[2] = "narrative" /\ Order[3] = "technical"
      /\ Order[4] = "learning" /\ Order[5] = "rag"
  BY DEF Order
<1>2. A \subseteq 1..6
  BY <1>1 DEF Ahead
<1>3. 6 \in A
  <2>1. \A j \in DOMAIN Order : Order[j] = s => j < 6
    BY <1>1
  <2> QED
    BY <1>1, <2>1 DEF Ahead
<1>4. 1 \in A => s = "none" /\ "narrative" \in chosen
  <2> SUFFICES ASSUME 1 \in A PROVE s = "none" /\ "narrative" \in chosen
    OBVIOUS
  <2>1. StepOf(Order[1]) \in chosen /\ \A j \in DOMAIN Order : Order[j] = s => j < 1
    BY <1>1 DEF Ahead
  <2>2. StepOf(Order[1]) = "narrative"
    BY <1>1 DEF StepOf
  <2> QED
    BY <1>1, <2>1, <2>2
<1>5. ASSUME NEW t \in Passes \cap chosen, s = "none" \/ (t \in Left(s) /\ t # s),
             empty => t = "narrative"
      PROVE  \E i \in A : Order[i] = t
  <2> DEFINE i == IF t = "narrative" THEN 2 ELSE IF t = "technical" THEN 3 ELSE 4
  <2>1. i \in DOMAIN Order /\ Order[i] = t
    BY <1>1 DEF Passes
  <2>2. StepOf(t) \in chosen
    BY DEF StepOf, Passes
  <2>3. empty => t \notin {"technical", "learning"}
    BY <1>5
  <2>4. \A j \in DOMAIN Order : Order[j] = s => j < i
    BY <1>1, <1>5 DEF Left, Passes
  <2> QED
    BY <2>1, <2>2, <2>3, <2>4 DEF Ahead
<1> HIDE DEF A
<1>6. \E i \in A : \A j \in A : i <= j
  <2>1. CASE 1 \in A
    BY <1>2, <2>1
  <2>2. CASE 1 \notin A /\ 2 \in A
    BY <1>2, <2>2
  <2>3. CASE 1 \notin A /\ 2 \notin A /\ 3 \in A
    BY <1>2, <2>3
  <2>4. CASE 1 \notin A /\ 2 \notin A /\ 3 \notin A /\ 4 \in A
    BY <1>2, <2>4
  <2>5. CASE 1 \notin A /\ 2 \notin A /\ 3 \notin A /\ 4 \notin A
    BY <1>2, <1>3, <2>5
  <2> QED
    BY <2>1, <2>2, <2>3, <2>4, <2>5
<1>7. a \in A /\ \A j \in A : a <= j
  BY <1>6
<1> HIDE DEF a
<1>8. After(s, chosen, empty) = Order[a]
  BY DEF After, A, a
<1>9. Order[a] \in Stages /\ (Order[a] = "inputs" => s = "none" /\ "narrative" \in chosen)
  BY <1>1, <1>2, <1>4, <1>7 DEF Stages
<1>10. ASSUME NEW t \in Passes, NEW i \in A, Order[i] = t PROVE t \in Left(Order[a])
  <2>1. a <= i /\ a \in 1..6 /\ i \in 1..6
    BY <1>2, <1>7
  <2> QED
    BY <1>1, <1>10, <2>1 DEF Left, Passes
<1> QED
  BY <1>5, <1>8, <1>9, <1>10

(* What a run has behind it when it goes on: what it had, and the stage.   *)
LEMMA GoesOn ==
  ASSUME NEW s \in Stages \ {"end"}, NEW chosen, NEW empty \in BOOLEAN
  PROVE  /\ After(s, chosen, empty) \in Stages /\ After(s, chosen, empty) # "inputs"
         /\ Behind(chosen, After(s, chosen, empty), empty)
              \subseteq Behind(chosen, s, empty) \cup (Passes \cap {s})
<1>1. s \in {"inputs", "narrative", "technical", "learning", "rag"}
  BY DEF Stages, Order
<1>2. ASSUME NEW t \in Behind(chosen, After(s, chosen, empty), empty)
      PROVE  t \in Behind(chosen, s, empty) \cup (Passes \cap {s})
  <2>1. /\ t \in Passes \cap chosen /\ t \notin Left(After(s, chosen, empty))
        /\ empty => t = "narrative"
    BY DEF Behind
  <2>2. ~ (t \in Left(s) /\ t # s)
    BY <1>1, <2>1, AfterSkipsNone
  <2> QED
    BY <2>1, <2>2 DEF Behind
<1> QED
  BY <1>1, <1>2, AfterSkipsNone

(* The row of a run at work is written.                                    *)
LEMMA RowWritten ==
  ASSUME Typed, RowsTyped', Sources, NEW w \in Workers, pc[w] \in Pipe,
         NEW row \in Row, row.parent = runs[run[w]].parent, SetRun(w, row),
         \A s \in Passes : ProofFits(runs, row.proof[s], s, row.blank, run[w]),
         UNCHANGED <<run, repairs>>
  PROVE  /\ Ledger' /\ Grown /\ runs'[run[w]] = row
         /\ \A v \in Workers : v # w /\ run[v] # 0 => runs'[run[v]] = runs[run[v]]
<1>0. /\ RowsTyped /\ run[w] # 0 /\ run[w] \in 1..Len(runs) /\ Runs = 1..Len(runs)
      /\ Len(runs) \in Nat /\ runs \in Seq(Row) /\ run[w] \in 0..Len(runs)
      /\ runs[run[w]].status = "running"
  BY RunHasRow, LinkedRuns DEF Typed, Jobs, RowsTyped, Sources, Job, RowFitsJob, RowIsJob
<1>1. /\ runs' = [runs EXCEPT ![run[w]] = row] /\ Len(runs') = Len(runs)
      /\ runs'[run[w]] = row /\ Runs' = 1..Len(runs)
      /\ \A i \in 1..Len(runs) : i # run[w] => runs'[i] = runs[i]
  BY <1>0 DEF SetRun, Runs
<1>2. Grown
  BY <1>0, <1>1 DEF Grown
<1>3. ASSUME NEW v \in Workers, v # w, run[v] # 0 PROVE runs'[run[v]] = runs[run[v]]
  <2>1. run[v] # run[w] /\ run[v] \in 1..Len(runs)
    BY <1>0, <1>3 DEF Sources, Ledger, Typed, Jobs, JobsTyped
  <2> QED
    BY <1>1, <2>1
<1>4. ASSUME NEW i \in Runs PROVE RowFits(runs', i)
  <2>1. i \in 0..Len(runs)
    BY <1>0
  <2>2. CASE i = run[w]
    <3>1. \A s \in Passes : ProofFits(runs', row.proof[s], s, row.blank, run[w])
      BY <1>0, <1>2, ProofKept
    <3> QED
      BY <1>1, <2>2, <3>1 DEF RowFits
  <2>3. CASE i # run[w]
    <3>1. runs'[i] = runs[i] /\ RowFits(runs, i)
      BY <1>0, <1>1, <2>3 DEF Sources, Ledger
    <3> QED
      BY <1>0, <1>2, <2>1, <3>1, ProofKept DEF RowFits
  <2> QED
    BY <2>2, <2>3
<1>5. ASSUME NEW i \in DOMAIN repairs PROVE HasFailed(runs', repairs[i].source)
  <2>1. repairs[i].source \in 0..Len(runs) /\ HasFailed(runs, repairs[i].source)
    <3>1. repairs[i] \in RepairRow /\ repairs[i].source <= Len(runs)
      BY <1>0 DEF RowsTyped
    <3> QED
      BY <1>0, <3>1 DEF RepairRow, Sources, Ledger
  <2> QED
    BY <1>0, <1>2, <2>1 DEF HasFailed, Grown
<1>6. Ledger'
  BY <1>0, <1>1, <1>4, <1>5 DEF Sources, Ledger
<1> QED
  BY <1>1, <1>2, <1>3, <1>6

(* Of the row of a run at work.                                            *)
LEMMA AtWork ==
  ASSUME Typed, Sources, NEW w \in Workers, pc[w] \in Pipe
  PROVE  /\ run[w] \in 1..Len(runs) /\ run[w] # 0 /\ runs[run[w]] \in Row
         /\ RowIsJob(w) /\ BehindIsGood(w) /\ PlanFits(w)
         /\ blank[w] \in BOOLEAN /\ stage[w] \in Stages /\ parent[w] \in 0..Len(runs)
         /\ \A s \in Passes :
              ProofFits(runs, runs[run[w]].proof[s], s, runs[run[w]].blank, run[w])
<1>1. run[w] \in Runs
  BY RunHasRow, LinkedRuns DEF Typed, Jobs
<1> QED
  BY <1>1, RunHasRow DEF Sources, Ledger, Job, RowFitsJob, ReportsFit, RowFits,
     Typed, Jobs, JobsTyped

(* A pass that is behind stays good, as long as its report stays as it is. *)
Stands(w, s) ==
  \/ TargetOf(s, blank[w]) \in foreign
  \/ HiddenStory(w, s)
  \/ Good(TargetOf(s, blank[w]), run[w])

LEMMA BehindKept ==
  ASSUME Typed, RowsTyped', Grown, NEW w \in Workers, pc[w] \in Pipe, BehindIsGood(w),
         NEW s \in Behind(steps[w], stage[w], blank[w]),
         run'[w] = run[w], blank'[w] = blank[w],
         runs[run[w]].reused \subseteq runs'[run[w]].reused,
         report["empty"] # NoFile => report'["empty"] # NoFile,
         TargetOf(s, blank[w]) \in foreign => TargetOf(s, blank[w]) \in foreign',
         \/ TargetOf(s, blank[w]) \in foreign'
         \/ report'[TargetOf(s, blank[w])] = report[TargetOf(s, blank[w])]
  PROVE  Stands(w, s)'
<1> DEFINE f == TargetOf(s, blank[w])
<1>0. run[w] \in 0..Len(runs) /\ RowsTyped
  BY RunHasRow DEF Typed, Jobs, JobsTyped
<1>1. TargetOf(s, blank'[w]) = f
  OBVIOUS
<1>2. f \in foreign \/ HiddenStory(w, s) \/ Good(f, run[w])
  BY DEF BehindIsGood
<1>3. HiddenStory(w, s) => HiddenStory(w, s)'
  BY DEF HiddenStory
<1> HIDE DEF f
<1>4. ASSUME Good(f, run[w]), report'[f] = report[f]
      PROVE  report'[f] # NoFile /\ Own(runs', report'[f], run'[w])
  BY <1>0, <1>4, OwnKept DEF Good
<1> QED
  BY <1>1, <1>2, <1>3, <1>4 DEF Stands, Good, f

LEMMA SimpleKeeps ==
  ASSUME Typed, Typed', Sources, NEW w \in Workers, Simple(w)
  PROVE  Sources'
<1>0. /\ pc[w] = "work" /\ pc[w] \in Pipe /\ JobsTyped /\ RowsTyped'
      /\ stage[w] \in {"inputs", "rag"}
      /\ UNCHANGED <<pc, run, parent, steps, plan, fileVars, repairs>>
  BY DEF Simple, Typed, Jobs, JobsTyped, Stages, Order, Passes, Pipe
<1>a. /\ run[w] \in 1..Len(runs) /\ runs[run[w]] \in Row /\ RowIsJob(w) /\ BehindIsGood(w)
      /\ PlanFits(w) /\ stage[w] \in Stages \ {"end"} /\ RowsTyped
      /\ \A s \in Passes :
           ProofFits(runs, runs[run[w]].proof[s], s, runs[run[w]].blank, run[w])
  BY <1>0, AtWork DEF Typed, Jobs
<1>1. PICK b \in BOOLEAN :
        /\ stage[w] # "inputs" => b = blank[w]
        /\ blank' = [blank EXCEPT ![w] = b] /\ Advance(w, b)
        /\ SetRun(w, [runs[run[w]] EXCEPT !.blank = b])
  BY DEF Simple
<1> DEFINE row == [runs[run[w]] EXCEPT !.blank = b]
<1>2. /\ row \in Row /\ row.parent = runs[run[w]].parent /\ row.proof = runs[run[w]].proof
      /\ row.blank = b /\ row.steps = runs[run[w]].steps /\ row.status = runs[run[w]].status
      /\ row.reused = runs[run[w]].reused
  BY <1>a DEF Row
<1> HIDE DEF row
<1>3. \A s \in Passes : ProofFits(runs, row.proof[s], s, row.blank, run[w])
  <2>1. CASE stage[w] = "inputs"
    <3>1. \A s \in Passes : row.proof[s] = {}
      BY <1>a, <1>2, <2>1 DEF RowIsJob
    <3> QED
      BY <3>1 DEF ProofFits
  <2>2. CASE stage[w] # "inputs"
    BY <1>a, <1>1, <1>2, <2>2 DEF RowIsJob
  <2> QED
    BY <2>1, <2>2
<1>4. /\ Ledger' /\ Grown /\ runs'[run[w]] = row
      /\ \A v \in Workers : v # w /\ run[v] # 0 => runs'[run[v]] = runs[run[v]]
  BY <1>0, <1>1, <1>2, <1>3, RowWritten DEF row
<1>5. /\ blank'[w] = b /\ stage'[w] = After(stage[w], steps[w], b)
      /\ \A v \in Workers : v # w => blank'[v] = blank[v] /\ stage'[v] = stage[v]
  BY <1>0, <1>1 DEF Advance, JobsTyped
<1>6. ASSUME NEW v \in Workers, v # w PROVE Job(v)'
  <2>1. SameJob(v) /\ SameReports(v)
    BY <1>0, <1>4, <1>5, <1>6 DEF SameJob, SameReports, fileVars
  <2> QED
    BY <1>0, <1>4, <2>1, JobKept DEF Sources
<1>7. RowIsJob(w)'
  <2>1. stage'[w] # "inputs"
    BY <1>a, <1>5, GoesOn
  <2>2. b => "narrative" \in steps[w]
    BY <1>a, <1>0, <1>1 DEF RowIsJob
  <2> QED
    BY <1>a, <1>0, <1>2, <1>4, <1>5, <2>1, <2>2 DEF RowIsJob
<1>8. BehindIsGood(w)'
  <2>1. /\ Behind(steps[w], stage'[w], b) \subseteq Behind(steps[w], stage[w], b)
                                                  \cup (Passes \cap {stage[w]})
        /\ stage[w] \notin Passes
    BY <1>a, <1>0, <1>5, GoesOn DEF Passes
  <2>2. CASE stage[w] = "inputs"
    <3>1. Behind(steps[w], stage'[w], b) = {}
      BY <2>1, <2>2 DEF Behind, Left
    <3> QED
      BY <1>0, <1>5, <3>1 DEF BehindIsGood
  <2>3. ASSUME stage[w] # "inputs", NEW s \in Behind(steps[w], stage'[w], b)
        PROVE  Stands(w, s)'
    <3>1. s \in Behind(steps[w], stage[w], blank[w]) /\ b = blank[w]
      BY <1>1, <2>1, <2>3
    <3> QED
      BY <1>0, <1>a, <1>2, <1>4, <1>5, <3>1, BehindKept DEF fileVars
  <2> QED
    BY <1>0, <1>5, <2>2, <2>3 DEF BehindIsGood, Stands
<1>9. Job(w)'
  <2>1. PlanFits(w)'
    BY <1>0, <1>4, PlanKept, <1>a
  <2> QED
    BY <1>0, <1>7, <1>8, <2>1 DEF Job, RowFitsJob, ReportsFit, Pipe
<1> QED
  BY <1>4, <1>6, <1>9 DEF Sources

LEMMA MarkKeeps ==
  ASSUME Typed, Typed', Sources, NEW w \in Workers, Mark(w)
  PROVE  Sources'
<1>0. /\ pc[w] = "mark" /\ pc' = [pc EXCEPT ![w] = "work"] /\ pc \in [Workers -> Places]
      /\ JobsTyped /\ RowsTyped /\ RowsTyped' /\ Len(runs) \in Nat /\ runs \in Seq(Row)
      /\ Runs = 1..Len(runs) /\ steps[w] \in SUBSET Steps
      /\ runs' = Append(runs, NewRun(w)) /\ run' = [run EXCEPT ![w] = Len(runs) + 1]
      /\ stage' = [stage EXCEPT ![w] = After("none", steps[w], FALSE)]
      /\ UNCHANGED <<parent, steps, plan, blank, fileVars, repairs>>
      /\ blank[w] = FALSE /\ PlanFits(w)
  BY LinkedRuns DEF Typed, Jobs, LockTyped, JobsTyped, RowsTyped, Mark, Goto, Sources, Job, RowFitsJob
<1>1. /\ Len(runs') = Len(runs) + 1 /\ runs'[Len(runs) + 1] = NewRun(w)
      /\ \A i \in 1..Len(runs) : runs'[i] = runs[i]
      /\ Runs' = 1..(Len(runs) + 1)
  BY <1>0 DEF Runs
<1>2. Grown
  BY <1>0, <1>1 DEF Grown
<1>3. /\ run'[w] = Len(runs) + 1 /\ pc'[w] = "work"
      /\ stage'[w] = After("none", steps[w], FALSE)
      /\ \A v \in Workers : v # w => run'[v] = run[v] /\ pc'[v] = pc[v] /\ stage'[v] = stage[v]
      /\ \A v \in Workers : run[v] \in 0..Len(runs)
  BY <1>0 DEF JobsTyped
<1>4. ASSUME NEW i \in Runs' PROVE RowFits(runs', i)
  <2>1. CASE i \in 1..Len(runs)
    <3>1. runs'[i] = runs[i] /\ RowFits(runs, i) /\ i \in 0..Len(runs)
      BY <1>0, <1>1, <2>1 DEF Sources, Ledger
    <3> QED
      BY <1>0, <1>2, <3>1, ProofKept DEF RowFits
  <2>2. CASE i = Len(runs) + 1
    <3>1. \A s \in Passes : runs'[i].proof[s] = {}
      BY <1>1, <2>2 DEF NewRun
    <3> QED
      BY <3>1 DEF RowFits, ProofFits
  <2> QED
    BY <1>0, <1>1, <2>1, <2>2
<1>5. ASSUME NEW i \in DOMAIN repairs PROVE HasFailed(runs', repairs[i].source)
  <2>1. repairs[i].source \in 0..Len(runs) /\ HasFailed(runs, repairs[i].source)
    <3>1. repairs[i] \in RepairRow /\ repairs[i].source <= Len(runs)
      BY <1>0 DEF RowsTyped
    <3> QED
      BY <1>0, <3>1 DEF RepairRow, Sources, Ledger
  <2> QED
    BY <1>0, <1>2, <2>1 DEF HasFailed, Grown
<1>6. Ledger'
  <2>1. \A u, v \in Workers : run'[u] = run'[v] /\ run'[u] # 0 => u = v
    BY <1>0, <1>3 DEF Sources, Ledger
  <2> QED
    BY <1>0, <1>4, <1>5, <2>1 DEF Ledger
<1>7. ASSUME NEW v \in Workers, v # w PROVE Job(v)'
  <2>1. SameJob(v) /\ SameReports(v)
    BY <1>0, <1>1, <1>3, <1>7 DEF SameJob, SameReports, fileVars
  <2> QED
    BY <1>0, <1>2, <2>1, JobKept DEF Sources
<1>8. RowIsJob(w)'
  <2>1. stage'[w] = "inputs" => "narrative" \in steps[w]
    BY <1>3, AfterSkipsNone
  <2>2. /\ NewRun(w).status = "running" /\ NewRun(w).parent = parent[w]
        /\ NewRun(w).steps = steps[w] /\ NewRun(w).blank = FALSE
        /\ \A s \in Passes : NewRun(w).proof[s] = {}
    BY DEF NewRun
  <2> QED
    BY <1>0, <1>1, <1>3, <2>1, <2>2 DEF RowIsJob
<1>9. BehindIsGood(w)'
  <2>1. Behind(steps[w], stage'[w], FALSE) = {}
    BY <1>3, AfterSkipsNone DEF Behind
  <2> QED
    BY <1>0, <2>1 DEF BehindIsGood
<1>10. PlanFits(w)'
  BY <1>0, <1>2, PlanKept
<1> QED
  BY <1>3, <1>6, <1>7, <1>8, <1>9, <1>10 DEF Sources, Job, RowFitsJob, ReportsFit, Pipe

(* What is current of what a stage proved is good, or hides what it wrote. *)
LEMMA CurrentIsGood ==
  ASSUME NEW proofs, Current(proofs), NEW s \in Passes, NEW empty \in BOOLEAN, NEW i,
         ProofFits(runs, proofs, s, empty, i)
  PROVE  \/ Good(TargetOf(s, empty), i)
         \/ s = "narrative" /\ ~empty /\ report["empty"] # NoFile
<1>1. PICK proof \in proofs : proof \in UNION {Proofs(t, report) : t \in Passes}
  BY DEF Current
<1>2. report[proof[1]] # NoFile /\ report[proof[1]] = proof[2]
  BY <1>1 DEF Proofs, Shown
<1>3. CASE proof[1] = TargetOf(s, empty) /\ Own(runs, proof[2], i)
  BY <1>2, <1>3 DEF Good
<1>4. CASE Hides(s, empty, proof[1])
  BY <1>2, <1>4 DEF Hides
<1> QED
  BY <1>1, <1>3, <1>4 DEF ProofFits

(* The stage of a run at work becomes one it has behind it.                *)
LEMMA GoneOn ==
  ASSUME Typed, Typed', Sources, Ledger', Grown, NEW w \in Workers, pc[w] \in Pipe, pc'[w] = "work",
         NEW s \in Passes, s = stage[w], Advance(w, blank[w]),
         UNCHANGED <<run, parent, steps, plan, blank>>,
         NEW row \in Row, runs'[run[w]] = row,
         row.status = runs[run[w]].status, row.parent = runs[run[w]].parent,
         row.steps = runs[run[w]].steps, row.blank = runs[run[w]].blank,
         runs[run[w]].reused \subseteq row.reused,
         Stands(w, s)',
         report["empty"] # NoFile => report'["empty"] # NoFile,
         \A f \in Report \ {Target(w)} : /\ f \in foreign => f \in foreign'
                                         /\ f \in foreign' \/ report'[f] = report[f]
  PROVE  Job(w)'
<1>0. /\ RowIsJob(w) /\ BehindIsGood(w) /\ PlanFits(w) /\ blank[w] \in BOOLEAN
      /\ stage[w] \in Stages \ {"end"} /\ RowsTyped' /\ JobsTyped
  BY AtWork DEF Passes, Typed, Jobs
<1>1. stage'[w] = After(stage[w], steps[w], blank[w])
  BY <1>0 DEF Advance, JobsTyped
<1>2. /\ stage'[w] # "inputs"
      /\ Behind(steps[w], stage'[w], blank[w])
           \subseteq Behind(steps[w], stage[w], blank[w]) \cup {stage[w]}
  BY <1>0, <1>1, GoesOn
<1>3. RowIsJob(w)'
  BY <1>0, <1>2 DEF RowIsJob
<1>4. ASSUME NEW t \in Behind(steps[w], stage'[w], blank[w]) PROVE Stands(w, t)'
  <2>1. CASE t = stage[w]
    BY <2>1
  <2>2. CASE t # stage[w]
    <3>1. t \in Behind(steps[w], stage[w], blank[w])
      BY <1>2, <2>2
    <3>2. TargetOf(t, blank[w]) \in Report \ {Target(w)}
      BY <2>2, <3>1 DEF TargetOf, Target, Report, Passes, Behind
    <3>3. /\ TargetOf(t, blank[w]) \in foreign => TargetOf(t, blank[w]) \in foreign'
          /\ \/ TargetOf(t, blank[w]) \in foreign'
             \/ report'[TargetOf(t, blank[w])] = report[TargetOf(t, blank[w])]
      BY <3>2
    <3> QED
      BY <1>0, <3>1, <3>3, BehindKept
  <2> QED
    BY <2>1, <2>2
<1>5. BehindIsGood(w)'
  <2>1. \A t \in Behind(steps'[w], stage'[w], blank'[w]) : Stands(w, t)'
    BY <1>4
  <2> QED
    BY <2>1 DEF BehindIsGood, Stands
<1>6. PlanFits(w)'
  BY <1>0, PlanKept
<1> QED
  BY <1>3, <1>5, <1>6 DEF Job, RowFitsJob, ReportsFit, Pipe

LEMMA ReuseKeeps ==
  ASSUME Typed, Typed', Sources, NEW w \in Workers, Reuse(w)
  PROVE  Sources'
<1>s. PICK s \in Passes : s = stage[w]
  BY DEF Reuse
<1> DEFINE proofs == plan[w][s]
<1>0. /\ pc[w] = "work" /\ pc[w] \in Pipe /\ JobsTyped /\ RowsTyped /\ RowsTyped'
      /\ UNCHANGED <<pc, run, parent, steps, plan, blank, fileVars, repairs>>
      /\ s \in Passes /\ Current(proofs) /\ Advance(w, blank[w])
      /\ s = "narrative" => runs[parent[w]].blank = blank[w]
  BY <1>s DEF Reuse, CanReuse, Typed, Jobs, Pipe, jobVars
<1>a. /\ run[w] \in 1..Len(runs) /\ runs[run[w]] \in Row /\ RowIsJob(w) /\ PlanFits(w)
      /\ stage[w] \in Stages \ {"end"} /\ blank[w] \in BOOLEAN /\ proofs \in SUBSET (Report \X Texts)
      /\ \A t \in Passes :
           ProofFits(runs, runs[run[w]].proof[t], t, runs[run[w]].blank, run[w])
  BY <1>s, <1>0, AtWork DEF Passes, Typed, Jobs, JobsTyped, ProofSets
<1>1. ProofFits(runs, proofs, s, blank[w], run[w])
  <2>1. proofs # {}
    BY <1>0 DEF Current
  <2>2. ProofFits(runs, proofs, s, runs[parent[w]].blank, parent[w])
    BY <1>0, <1>a, <2>1 DEF PlanFits
  <2>3. ProofFits(runs, proofs, s, blank[w], parent[w])
    BY <1>0, <2>2 DEF ProofFits, TargetOf, Hides
  <2>4. \A text : Own(runs, text, parent[w]) => Own(runs, text, run[w])
    BY <1>0, <1>a, Inherits DEF RowIsJob
  <2> QED
    BY <2>3, <2>4 DEF ProofFits
<1> DEFINE row == [Committed(runs[run[w]], s, proofs) EXCEPT !.reused = @ \cup {s}]
<1>2. /\ row \in Row /\ row.parent = runs[run[w]].parent /\ row.blank = runs[run[w]].blank
      /\ row.steps = runs[run[w]].steps /\ row.status = runs[run[w]].status
      /\ row.reused = runs[run[w]].reused \cup {s} /\ row.proof[s] = proofs
      /\ \A t \in Passes : t # s => row.proof[t] = runs[run[w]].proof[t]
  BY <1>0, <1>a DEF Row, Committed, ProofSets
<1>b. SetRun(w, row)
  BY <1>s DEF Reuse
<1> HIDE DEF row, proofs
<1>3. \A t \in Passes : ProofFits(runs, row.proof[t], t, row.blank, run[w])
  BY <1>1, <1>2, <1>a DEF RowIsJob
<1>4. /\ Ledger' /\ Grown /\ runs'[run[w]] = row
      /\ \A v \in Workers : v # w /\ run[v] # 0 => runs'[run[v]] = runs[run[v]]
  BY <1>0, <1>b, <1>2, <1>3, RowWritten
<1>6. ASSUME NEW v \in Workers, v # w PROVE Job(v)'
  <2>1. SameJob(v) /\ SameReports(v)
    BY <1>0, <1>4, <1>6 DEF SameJob, SameReports, fileVars, Advance, JobsTyped
  <2> QED
    BY <1>0, <1>4, <2>1, JobKept DEF Sources
<1>7. Stands(w, s)'
  <2>1. CASE Good(TargetOf(s, blank[w]), run[w])
    <3>1. run[w] \in 0..Len(runs)
      BY <1>0 DEF JobsTyped
    <3>2. \A text : Own(runs', text, run[w]) <=> Own(runs, text, run[w])
      BY <1>0, <1>4, <3>1, OwnKept
    <3> QED
      BY <1>0, <2>1, <3>2 DEF Stands, Good, fileVars
  <2>2. CASE s = "narrative" /\ ~blank[w] /\ report["empty"] # NoFile
    BY <1>0, <1>2, <1>4, <2>2 DEF Stands, HiddenStory, fileVars
  <2> QED
    BY <1>0, <1>1, <1>a, <2>1, <2>2, CurrentIsGood
<1>8. Job(w)'
  BY <1>s, <1>0, <1>2, <1>4, <1>7, GoneOn DEF fileVars
<1> QED
  BY <1>4, <1>6, <1>8 DEF Sources

(* A pass writes its own report: to the others that is on record.          *)
LEMMA Overwrites ==
  ASSUME Typed, NEW w \in Workers, NEW whole \in BOOLEAN, run[w] # 0, Target(w) \in Report,
         Written(Target(w), Text(run[w], whole), w),
         \/ Alone(w)
         \/ foreign' = foreign \cup {Target(w)}
  PROVE  /\ report'[Target(w)] = Text(run[w], whole) /\ Text(run[w], whole) # NoFile
         /\ \A f : f # Target(w) => report'[f] = report[f]
         /\ \A v \in Workers : v # w /\ pc[v] \in Pipe => SameReports(v)
<1>1. /\ report'[Target(w)] = Text(run[w], whole)
      /\ \A f : f # Target(w) => report'[f] = report[f]
  BY DEF Written, Typed, FilesTyped
<1>2. Text(run[w], whole) # NoFile
  <2>1. run[w] \in Nat
    BY LinkedRuns DEF Typed, Jobs, JobsTyped
  <2>2. Text(run[w], whole) \in [by : Nat, whole : BOOLEAN]
    BY <2>1 DEF Text
  <2> QED
    BY <2>2, PipelineAssumption
<1>3. ASSUME NEW v \in Workers, v # w, pc[v] \in Pipe PROVE SameReports(v)
  <2>1. foreign' = foreign \cup {Target(w)}
    BY <1>3 DEF Alone, InPipeline, Pipe
  <2>2. raced[v] \subseteq raced'[v] /\ (pc[v] = "commit" => Target(w) \in raced'[v])
    BY <1>3 DEF Written
  <2> QED
    BY <1>1, <1>2, <2>1, <2>2 DEF SameReports
<1> QED
  BY <1>1, <1>2, <1>3

LEMMA OpenKeeps ==
  ASSUME Typed, Typed', Sources, NEW w \in Workers, OpenReport(w)
  PROVE  Sources'
<1>0. /\ pc[w] = "pass" /\ pc' = [pc EXCEPT ![w] = "write"] /\ pc \in [Workers -> Places]
      /\ pc[w] \in Pipe /\ RowsTyped /\ RowsTyped' /\ stage[w] \in Passes
      /\ UNCHANGED <<stage, run, parent, steps, plan, blank, runs, repairs>>
      /\ Written(Target(w), Text(run[w], FALSE), w)
      /\ foreign' = IF Alone(w) THEN foreign \ {Target(w)} ELSE foreign \cup {Target(w)}
  BY DEF OpenReport, Goto, Typed, Jobs, LockTyped, JobFits, Pipe, jobVars
<1>a. /\ run[w] # 0 /\ RowIsJob(w) /\ BehindIsGood(w) /\ PlanFits(w)
  BY <1>0, AtWork
<1>b. Target(w) \in Report
  BY <1>0, PassWrites
<1>1. Ledger' /\ Grown
  BY <1>0, LedgerKept
<1>2. /\ report'[Target(w)] # NoFile
      /\ \A f : f # Target(w) => report'[f] = report[f]
      /\ \A v \in Workers : v # w /\ pc[v] \in Pipe => SameReports(v)
  BY <1>0, <1>a, <1>b, Overwrites
<1>3. ASSUME NEW v \in Workers, v # w PROVE Job(v)'
  <2>1. SameJob(v)
    BY <1>0, <1>3 DEF SameJob
  <2> QED
    BY <1>0, <1>1, <1>2, <1>3, <2>1, JobKept DEF Sources
<1>4. ASSUME NEW s \in Behind(steps[w], stage[w], blank[w]) PROVE Stands(w, s)'
  <2>1. s # stage[w]
    BY <1>0 DEF Behind, Left, Passes
  <2>2. TargetOf(s, blank[w]) # Target(w)
    BY <1>0, <2>1 DEF TargetOf, Target, Passes, Behind
  <2>3. /\ TargetOf(s, blank[w]) \in foreign => TargetOf(s, blank[w]) \in foreign'
        /\ report'[TargetOf(s, blank[w])] = report[TargetOf(s, blank[w])]
        /\ report["empty"] # NoFile => report'["empty"] # NoFile
    BY <1>0, <1>2, <2>2
  <2> QED
    BY <1>0, <1>1, <1>a, <2>3, BehindKept
<1>5. Job(w)'
  <2>1. pc'[w] = "write"
    BY <1>0
  <2>2. PlanFits(w)'
    BY <1>0, <1>1, <1>a, PlanKept
  <2>3. RowIsJob(w)'
    BY <1>0, <1>a DEF RowIsJob
  <2>4. BehindIsGood(w)'
    <3>1. \A s \in Behind(steps'[w], stage'[w], blank'[w]) : Stands(w, s)'
      BY <1>0, <1>4
    <3> QED
      BY <3>1 DEF BehindIsGood, Stands
  <2> QED
    BY <2>1, <2>2, <2>3, <2>4 DEF Job, RowFitsJob, ReportsFit, Pipe
<1> QED
  BY <1>1, <1>3, <1>5 DEF Sources

LEMMA DoneKeeps ==
  ASSUME Typed, Typed', Sources, NEW w \in Workers, PassDone(w)
  PROVE  Sources'
<1>0. /\ pc[w] = "write" /\ pc' = [pc EXCEPT ![w] = "work"] /\ pc \in [Workers -> Places]
      /\ pc[w] \in Pipe /\ RowsTyped /\ RowsTyped' /\ stage[w] \in Passes /\ JobsTyped
      /\ UNCHANGED <<run, parent, steps, plan, blank, repairs>> /\ Advance(w, blank[w])
      /\ Written(Target(w), Text(run[w], TRUE), w)
      /\ foreign' = IF Alone(w) THEN foreign ELSE foreign \cup {Target(w)}
      /\ report' \in [Report -> Texts \cup {NoFile}]
  BY DEF PassDone, Goto, Typed, Jobs, LockTyped, JobFits, Pipe, jobVars, FilesTyped
<1>s. PICK s \in Passes : s = stage[w]
  BY <1>0
<1>a. /\ run[w] # 0 /\ RowIsJob(w) /\ PlanFits(w) /\ blank[w] \in BOOLEAN
      /\ run[w] \in 1..Len(runs) /\ runs[run[w]] \in Row /\ run[w] \in 0..Len(runs)
      /\ \A t \in Passes :
           ProofFits(runs, runs[run[w]].proof[t], t, runs[run[w]].blank, run[w])
  BY <1>0, AtWork DEF JobsTyped
<1>b. Target(w) \in Report /\ Target(w) = TargetOf(s, blank[w])
  BY <1>0, <1>s, PassWrites DEF Target, TargetOf
<1>2. /\ report'[Target(w)] = Text(run[w], TRUE) /\ report'[Target(w)] # NoFile
      /\ \A f : f # Target(w) => report'[f] = report[f]
      /\ \A v \in Workers : v # w /\ pc[v] \in Pipe => SameReports(v)
  BY <1>0, <1>a, <1>b, Overwrites
<1>3. Own(runs, Text(run[w], TRUE), run[w])
  <2>1. Text(run[w], TRUE).whole /\ Text(run[w], TRUE).by = run[w]
    BY DEF Text
  <2> QED
    BY <1>0, <1>a, <2>1, Inherits
<1>c. PICK proofs : proofs = Proofs(s, report')
  OBVIOUS
<1>4. proofs \in SUBSET (Report \X Texts) /\ ProofFits(runs, proofs, s, blank[w], run[w])
  <2>1. ASSUME NEW f \in Shown(s, report')
        PROVE  \/ f = TargetOf(s, blank[w]) /\ Own(runs, report'[f], run[w])
               \/ Hides(s, blank[w], f)
    <3>1. CASE s # "narrative"
      BY <1>2, <1>3, <1>b, <2>1, <3>1 DEF Shown, TargetOf
    <3>2. CASE s = "narrative" /\ blank[w]
      BY <1>2, <1>3, <1>b, <2>1, <3>2 DEF Shown, TargetOf
    <3>3. CASE s = "narrative" /\ ~blank[w]
      BY <1>2, <1>3, <1>b, <2>1, <3>3 DEF Shown, TargetOf, Hides
    <3> QED
      BY <3>1, <3>2, <3>3
  <2>2. \A proof \in proofs : \E f \in Shown(s, report') : proof[1] = f /\ proof[2] = report'[f]
    BY <1>c DEF Proofs
  <2>3. proofs \in SUBSET (Report \X Texts)
    BY <1>0, <1>c, ProofsTyped
  <2> QED
    BY <2>1, <2>2, <2>3 DEF ProofFits
<1> DEFINE row == Committed(runs[run[w]], s, proofs)
<1>5. /\ row \in Row /\ row.parent = runs[run[w]].parent /\ row.blank = runs[run[w]].blank
      /\ row.steps = runs[run[w]].steps /\ row.status = runs[run[w]].status
      /\ row.reused = runs[run[w]].reused /\ row.proof[s] = proofs
      /\ \A t \in Passes : t # s => row.proof[t] = runs[run[w]].proof[t]
  BY <1>4, <1>a DEF Row, Committed, ProofSets
<1>d. SetRun(w, row)
  BY <1>s, <1>c DEF PassDone
<1> HIDE DEF row
<1>6. \A t \in Passes : ProofFits(runs, row.proof[t], t, row.blank, run[w])
  BY <1>4, <1>5, <1>a DEF RowIsJob
<1>7. /\ Ledger' /\ Grown /\ runs'[run[w]] = row
      /\ \A v \in Workers : v # w /\ run[v] # 0 => runs'[run[v]] = runs[run[v]]
  BY <1>0, <1>d, <1>5, <1>6, RowWritten
<1>8. ASSUME NEW v \in Workers, v # w PROVE Job(v)'
  <2>1. SameJob(v)
    BY <1>0, <1>7, <1>8 DEF SameJob, Advance, JobsTyped
  <2> QED
    BY <1>0, <1>2, <1>7, <1>8, <2>1, JobKept DEF Sources
<1>9. Stands(w, s)'
  <2>1. \A text : Own(runs', text, run[w]) <=> Own(runs, text, run[w])
    BY <1>0, <1>a, <1>7, OwnKept
  <2>2. report'[TargetOf(s, blank[w])] # NoFile /\ Own(runs', report'[TargetOf(s, blank[w])], run[w])
    BY <1>2, <1>3, <1>b, <2>1
  <2> QED
    BY <1>0, <2>2 DEF Stands, Good
<1>10. /\ report["empty"] # NoFile => report'["empty"] # NoFile
       /\ \A f \in Report \ {Target(w)} : /\ f \in foreign => f \in foreign'
                                          /\ f \in foreign' \/ report'[f] = report[f]
  BY <1>0, <1>2
<1>11. Job(w)'
  <2>1. pc'[w] = "work"
    BY <1>0
  <2> QED
    BY <1>s, <1>0, <1>5, <1>7, <1>9, <1>10, <2>1, GoneOn
<1> QED
  BY <1>7, <1>8, <1>11 DEF Sources

(* The run of a worker ends: its row says so, its proofs stay.             *)
LEMMA RowEnds ==
  ASSUME Typed, Typed', Sources, NEW w \in Workers, pc[w] \in Pipe,
         NEW status \in {"failed", "completed", "skipped"},
         SetRun(w, [runs[run[w]] EXCEPT !.status = status]), Goto(w, "release"),
         UNCHANGED <<stage, jobVars, repairs>>,
         \A v \in Workers : v # w /\ pc[v] \in Pipe => SameReports(v)
  PROVE  Sources'
<1>0. /\ pc' = [pc EXCEPT ![w] = "release"] /\ pc \in [Workers -> Places] /\ RowsTyped'
      /\ UNCHANGED <<stage, run, parent, steps, plan, blank, repairs>>
  BY DEF Typed, Jobs, LockTyped, Goto, jobVars
<1>a. /\ run[w] \in 1..Len(runs) /\ runs[run[w]] \in Row
      /\ \A t \in Passes :
           ProofFits(runs, runs[run[w]].proof[t], t, runs[run[w]].blank, run[w])
  BY AtWork
<1> DEFINE row == [runs[run[w]] EXCEPT !.status = status]
<1>1. /\ row \in Row /\ row.parent = runs[run[w]].parent /\ row.proof = runs[run[w]].proof
      /\ row.blank = runs[run[w]].blank
  BY <1>a DEF Row
<1>2. SetRun(w, row)
  OBVIOUS
<1> HIDE DEF row
<1>3. /\ Ledger' /\ Grown
      /\ \A v \in Workers : v # w /\ run[v] # 0 => runs'[run[v]] = runs[run[v]]
  <2>1. \A t \in Passes : ProofFits(runs, row.proof[t], t, row.blank, run[w])
    BY <1>a, <1>1
  <2> QED
    BY <1>0, <1>1, <1>2, <2>1, RowWritten
<1>4. ASSUME NEW v \in Workers, v # w PROVE Job(v)'
  <2>1. SameJob(v)
    BY <1>0, <1>3, <1>4 DEF SameJob
  <2> QED
    BY <1>0, <1>3, <1>4, <2>1, JobKept DEF Sources
<1>5. Job(w)'
  <2>1. pc'[w] = "release"
    BY <1>0
  <2> QED
    BY <1>0, <1>3, <2>1, JobAway DEF Sources, Pipe
<1> QED
  BY <1>3, <1>4, <1>5 DEF Sources

LEMMA FailsKeep ==
  ASSUME Typed, Typed', Sources, NEW w \in Workers, Stop(w) \/ PassFails(w)
  PROVE  Sources'
<1>0. /\ pc[w] \in Pipe /\ UNCHANGED <<stage, jobVars, repairs>> /\ Goto(w, "release")
      /\ SetRun(w, [runs[run[w]] EXCEPT !.status = "failed"])
  BY DEF Stop, PassFails, Fails, Failed, Pipe
<1>1. ASSUME NEW v \in Workers, v # w, pc[v] \in Pipe PROVE SameReports(v)
  <2>1. CASE UNCHANGED fileVars
    BY <2>1 DEF SameReports, fileVars
  <2>2. CASE /\ pc[w] = "write" /\ Written(Target(w), Text(run[w], TRUE), w)
             /\ foreign' = IF Alone(w) THEN foreign ELSE foreign \cup {Target(w)}
    <3>1. run[w] # 0 /\ Target(w) \in Report
      BY <1>0, <2>2, AtWork, PassWrites
    <3> QED
      BY <1>1, <2>2, <3>1, Overwrites
  <2> QED
    BY <2>1, <2>2 DEF Stop, PassFails
<1> QED
  BY <1>0, <1>1, RowEnds

LEMMA RaiseKeeps ==
  ASSUME Typed, Typed', Sources, NEW w \in Workers, Raise(w)
  PROVE  Sources'
<1>0. /\ pc' = [pc EXCEPT ![w] = "release"] /\ pc \in [Workers -> Places] /\ RowsTyped'
      /\ UNCHANGED <<stage, run, parent, steps, plan, blank, fileVars, runs, repairs>>
  BY DEF Typed, Jobs, LockTyped, Goto, jobVars, Raise
<1>1. Ledger' /\ Grown
  BY <1>0, LedgerKept
<1>2. ASSUME NEW v \in Workers, v # w PROVE Job(v)'
  <2>1. SameJob(v) /\ SameReports(v)
    BY <1>0, <1>2 DEF SameJob, SameReports, fileVars
  <2> QED
    BY <1>0, <1>1, <2>1, JobKept DEF Sources
<1>3. Job(w)'
  <2>1. pc'[w] = "release"
    BY <1>0
  <2> QED
    BY <1>0, <1>1, <2>1, JobAway DEF Sources, Pipe
<1> QED
  BY <1>1, <1>2, <1>3 DEF Sources

LEMMA ValidateKeeps ==
  ASSUME Typed, Typed', Sources, NEW w \in Workers, Validate(w)
  PROVE  Sources'
<1>0. /\ pc[w] = "work" /\ pc[w] \in Pipe /\ stage[w] = "end" /\ pc \in [Workers -> Places]
      /\ UNCHANGED <<stage, jobVars, report, foreign, repairs>> /\ RowsTyped'
      /\ raced \in [Workers -> SUBSET Report]
  BY DEF Validate, Pipe, Typed, Jobs, LockTyped, FilesTyped
<1>1. CASE ~Intact(runs[run[w]])
  <2>1. Goto(w, "release") /\ SetRun(w, [runs[run[w]] EXCEPT !.status = "failed"]) /\ UNCHANGED raced
    BY <1>1 DEF Validate, Fails, Failed
  <2>2. \A v \in Workers : SameReports(v)
    BY <1>0, <2>1 DEF SameReports
  <2> QED
    BY <1>0, <2>1, <2>2, RowEnds
<1>2. CASE Intact(runs[run[w]])
  <2>0. /\ pc' = [pc EXCEPT ![w] = "commit"] /\ raced' = [raced EXCEPT ![w] = {}] /\ UNCHANGED runs
        /\ UNCHANGED <<stage, run, parent, steps, plan, blank, report, foreign, repairs>>
    BY <1>0, <1>2 DEF Validate, Goto, jobVars
  <2>1. Ledger' /\ Grown
    BY <2>0, LedgerKept
  <2>2. ASSUME NEW v \in Workers, v # w PROVE Job(v)'
    <3>1. SameJob(v) /\ SameReports(v)
      BY <1>0, <2>0, <2>2 DEF SameJob, SameReports
    <3> QED
      BY <1>0, <2>1, <3>1, JobKept DEF Sources
  <2>4. RowIsJob(w) /\ BehindIsGood(w) /\ PlanFits(w)
    BY <1>0, AtWork
  <2>5. /\ RowIsJob(w)' /\ BehindIsGood(w)' /\ PlanFits(w)' /\ pc'[w] = "commit"
        /\ stage'[w] = "end" /\ run'[w] = run[w] /\ raced'[w] = {}
    BY <1>0, <2>0, <2>4 DEF RowIsJob, BehindIsGood, HiddenStory, Good, PlanFits
  <2>6. Validated(w)'
    <3>1. \A s \in runs[run[w]].reused : \A proof \in runs[run[w]].proof[s] :
            report[proof[1]] = proof[2]
      BY <1>2 DEF Intact, Current, Proofs
    <3> QED
      BY <2>0, <2>5, <3>1 DEF Validated
  <2>7. Job(w)'
    BY <2>5, <2>6 DEF Job, RowFitsJob, ReportsFit, Pipe
  <2> QED
    BY <2>1, <2>2, <2>7 DEF Sources
<1> QED
  BY <1>1, <1>2

LEMMA FinishKeeps ==
  ASSUME Typed, Typed', Sources, NEW w \in Workers, Finish(w)
  PROVE  Sources'
<1>0. /\ pc[w] \in Pipe /\ UNCHANGED <<stage, jobVars, report, foreign, repairs>>
      /\ Goto(w, "release") /\ raced' = [raced EXCEPT ![w] = {}]
      /\ raced \in [Workers -> SUBSET Report]
  BY DEF Finish, Pipe, Typed, FilesTyped
<1>1. PICK status \in {"failed", "completed", "skipped"} :
        SetRun(w, [runs[run[w]] EXCEPT !.status = status])
  BY DEF Finish
<1>2. \A v \in Workers : v # w => SameReports(v)
  BY <1>0 DEF SameReports
<1> QED
  BY <1>0, <1>1, <1>2, RowEnds

LEMMA NextKeeps ==
  ASSUME Typed, Typed', Sources, [Next]_vars
  PROVE  Sources'
<1>1. CASE UNCHANGED vars
  <2>1. /\ UNCHANGED <<pc, stage, jobVars, runs>> /\ UNCHANGED fileVars
        /\ UNCHANGED run /\ UNCHANGED runs /\ UNCHANGED repairs
    BY <1>1 DEF vars, jobVars
  <2>2. \A v \in Workers : SameReports(v)
    BY <2>1 DEF SameReports, fileVars
  <2>3. \A v \in Workers : Job(v)'
    BY <2>1, <2>2, NobodyMoves
  <2>4. Ledger'
    BY <2>1, LedgerKept
  <2> QED
    BY <2>3, <2>4 DEF Sources
<1>2. ASSUME NEW w \in Workers, Step(w) PROVE Sources'
  <2>1. CASE Open(w) \/ Flock(w) \/ Unlock(w) \/ RunPass(w) \/ (ReadOwner(w) /\ NamesMe(w))
    BY <2>1, Moves
  <2>2. CASE Refused(w) \/ (ReadOwner(w) /\ ~ NamesMe(w)) \/ Unlink(w) \/ Answer(w)
    BY <2>2, Leaves DEF Refused, ReadOwner, Unlink
  <2>3. CASE Mark(w)
    BY <2>3, MarkKeeps
  <2>4. CASE Simple(w) \/ Reuse(w)
    BY <2>4, SimpleKeeps, ReuseKeeps
  <2>5. CASE OpenReport(w) \/ PassDone(w)
    BY <2>5, OpenKeeps, DoneKeeps
  <2>6. CASE Validate(w) \/ Finish(w)
    BY <2>6, ValidateKeeps, FinishKeeps
  <2> QED
    BY <1>2, <2>1, <2>2, <2>3, <2>4, <2>5, <2>6 DEF Step
<1>3. ASSUME NEW w \in Workers, Fault(w) PROVE Sources'
  BY <1>3, FailsKeep, RaiseKeeps, Leaves DEF Fault
<1>4. ASSUME NEW w \in Workers, Start(w) PROVE Sources'
  BY <1>4, CallsKeep
<1>5. ASSUME NEW retry \in BOOLEAN, QueueRepair(retry) PROVE Sources'
  BY <1>5, QueueKeeps
<1>6. ASSUME NEW w \in Threads, NEW i \in Queued, TakeRepair(w, i) PROVE Sources'
  BY <1>6, CallsKeep DEF Workers
<1>7. ASSUME NEW p \in Procs, Crash(p) PROVE Sources'
  BY <1>7, CrashKeeps
<1>8. CASE (\E o \in orphans : OrphanWrites(o)) \/ (\E f \in Report : Edit(f))
  BY <1>8, OthersKeep
<1> QED
  BY <1>1, <1>2, <1>3, <1>4, <1>5, <1>6, <1>7, <1>8 DEF Next

LEMMA InitSources == Init => Sources
<1> SUFFICES ASSUME Init PROVE Sources
  OBVIOUS
<1>1. Ledger
  BY DEF Init, Ledger, Runs
<1>2. ASSUME NEW w \in Workers PROVE Job(w)
  <2>1. pc[w] = "idle" /\ parent[w] = 0 /\ plan[w] = NoPlan /\ blank[w] = FALSE
    BY DEF Init
  <2> QED
    BY <2>1 DEF Job, PlanFits, HasFailed, NoPlan, RowFitsJob, ReportsFit, Pipe
<1> QED
  BY <1>1, <1>2 DEF Sources

-----------------------------------------------------------------------------
(* Only the worker of a run completes it, at the end of its stages.        *)
LEMMA OwnRow ==
  ASSUME Typed, Sources, NEW v \in Workers, NEW w \in Workers, run[w] # 0, Ended(run[w]),
         NEW row, SetRun(v, row)
  PROVE  v = w /\ row.status # "running" /\ row.status # "failed"
<1>1. run[w] \in Runs
  BY LinkedRuns DEF Typed, Jobs, JobsTyped
<1>2. run[w] = run[v] /\ runs'[run[w]] = row
  BY <1>1 DEF SetRun, Ended, Runs
<1> QED
  BY <1>2 DEF Sources, Ledger, Ended

LEMMA OnlyFinish ==
  ASSUME Typed, Sources, Next, NEW w \in Workers, run[w] # 0, Ended(run[w])
  PROVE  Finish(w)
<1>0. runs'[run[w]] # runs[run[w]] /\ runs' # runs /\ run[w] \in 1..Len(runs)
  BY LinkedRuns DEF Ended, Typed, Jobs, JobsTyped
<1>1. PICK v \in Workers : Step(v) \/ Fault(v)
  BY <1>0 DEF Next, Start, QueueRepair, TakeRepair, Call, Crash, OrphanWrites, Edit, Workers
<1>2. ~ Mark(v)
  <2>1. runs \in Seq(Row)
    BY DEF Typed, Jobs, RowsTyped
  <2>2. \A row : Append(runs, row)[run[w]] = runs[run[w]]
    BY <1>0, <2>1
  <2> QED
    BY <1>0, <2>2 DEF Mark
<1>3. ASSUME pc[v] \in Pipe, SetRun(v, Failed(v)) PROVE FALSE
  <2>1. runs[run[v]] \in Row
    BY <1>3, AtWork
  <2>2. Failed(v).status = "failed"
    BY <2>1 DEF Failed, Row
  <2> QED
    BY <1>3, <2>2, OwnRow
<1>4. ASSUME NEW row, SetRun(v, row), row.status = runs[run[v]].status PROVE FALSE
  BY <1>4, OwnRow DEF Ended
<1>5. ASSUME Simple(v) PROVE FALSE
  <2>1. PICK b \in BOOLEAN : SetRun(v, [runs[run[v]] EXCEPT !.blank = b])
    BY <1>5 DEF Simple
  <2>2. runs[run[v]] \in Row
    BY <1>5, AtWork DEF Simple, Pipe
  <2>3. [runs[run[v]] EXCEPT !.blank = b].status = runs[run[v]].status
    BY <2>2 DEF Row
  <2> QED
    BY <1>4, <2>1, <2>3
<1>6. ASSUME NEW s, NEW proofs, NEW row,
             SetRun(v, row), row.status = Committed(runs[run[v]], s, proofs).status, pc[v] \in Pipe
      PROVE  FALSE
  <2>1. runs[run[v]] \in Row
    BY <1>6, AtWork
  <2>2. Committed(runs[run[v]], s, proofs).status = runs[run[v]].status
    BY <2>1 DEF Row, Committed
  <2> QED
    BY <1>4, <1>6, <2>2
<1>7. ASSUME PassDone(v) PROVE FALSE
  <2>1. PICK s, proofs : s = stage[v] /\ proofs = Proofs(stage[v], report')
    OBVIOUS
  <2> QED
    BY <1>6, <1>7, <2>1 DEF PassDone, Pipe
<1>8. ASSUME Reuse(v) PROVE FALSE
  <2>1. PICK s, proofs : s = stage[v] /\ proofs = plan[v][stage[v]]
    OBVIOUS
  <2> DEFINE row == [Committed(runs[run[v]], s, proofs) EXCEPT !.reused = @ \cup {s}]
  <2>2. runs[run[v]] \in Row
    BY <1>8, AtWork DEF Reuse, Pipe
  <2>3. row.status = Committed(runs[run[v]], s, proofs).status
    BY <2>2 DEF Committed, Row
  <2>4. SetRun(v, row) /\ pc[v] \in Pipe
    BY <1>8, <2>1 DEF Reuse, Pipe
  <2> HIDE DEF row
  <2> QED
    BY <1>6, <2>3, <2>4
<1>9. ~ (Stop(v) \/ PassFails(v) \/ Validate(v))
  BY <1>0, <1>3 DEF Stop, PassFails, Validate, Fails, Pipe
<1>10. Finish(v)
  <2>1. ~ (Open(v) \/ Flock(v) \/ Refused(v) \/ RunPass(v) \/ OpenReport(v) \/ Unlock(v)
           \/ ReadOwner(v) \/ Unlink(v) \/ Answer(v) \/ Raise(v) \/ RepairLost(v))
    BY <1>0 DEF Open, Flock, Refused, RunPass, OpenReport, Unlock, ReadOwner, Unlink,
       Answer, Raise, RepairLost
  <2> QED
    BY <1>1, <1>2, <1>5, <1>7, <1>8, <1>9, <2>1 DEF Step, Fault
<1>11. v = w
  BY <1>10, OwnRow DEF Finish
<1> QED
  BY <1>10, <1>11

LEMMA FinishIsSound ==
  ASSUME Typed, Sources, NEW w \in Workers, Finish(w)
  PROVE  Sound(w)
<1> DEFINE row == runs[run[w]]
<1>1. /\ RowIsJob(w) /\ BehindIsGood(w) /\ Validated(w) /\ blank[w] \in BOOLEAN
      /\ run[w] \in 1..Len(runs)
  BY AtWork DEF Finish, Sources, Job, ReportsFit, Pipe
<1>2. ASSUME NEW f \in Owed(row) \ (foreign \cup Hidden(row)) PROVE Good(f, run[w])
  <2>1. PICK t \in Passes \cap steps[w] : f = TargetOf(t, blank[w]) /\ (blank[w] => t = "narrative")
    <3>1. CASE blank[w]
      <4>1. f = "empty" /\ "narrative" \in Passes \cap steps[w]
        BY <1>1, <3>1 DEF RowIsJob, Owed, Passes
      <4> QED
        BY <3>1, <4>1 DEF TargetOf
    <3>2. CASE ~blank[w] /\ f \in {"technical", "learning"}
      <4>1. f \in Passes \cap steps[w]
        BY <1>1, <3>2 DEF RowIsJob, Owed, Passes
      <4> QED
        BY <3>2, <4>1 DEF TargetOf
    <3>3. CASE ~blank[w] /\ f \notin {"technical", "learning"}
      <4>1. f = "story" /\ "narrative" \in Passes \cap steps[w]
        BY <1>1, <3>3 DEF RowIsJob, Owed, Passes
      <4> QED
        BY <3>3, <4>1 DEF TargetOf
    <3> QED
      BY <3>1, <3>2, <3>3
  <2>2. t \in Behind(steps[w], stage[w], blank[w])
    BY <1>1, <2>1 DEF Behind, Left, Validated
  <2>3. ~ HiddenStory(w, t)
    BY <1>1, <1>2, <2>1 DEF HiddenStory, Hidden, TargetOf, RowIsJob
  <2> QED
    BY <1>1, <1>2, <2>1, <2>2, <2>3 DEF BehindIsGood
<1>3. \A f : Own(runs, report[f], run[w]) => report[f].whole /\ report[f].by \in Lineage(run[w])
  BY DEF Own, LineOf, Lineage
<1>4. \A f \in Owed(row) \ (foreign \cup Hidden(row)) :
        report[f] # NoFile /\ report[f].whole /\ report[f].by \in Lineage(run[w])
  BY <1>2, <1>3 DEF Good
<1> QED
  BY <1>1, <1>4 DEF Sound, Validated

(* What a completed run leaves is sound, whatever the number of workers,   *)
(* of runs and of faults: the reports it owes are whole and of its lineage *)
(* and those it reused are, to the byte, the proved ones, those on record  *)
(* as somebody else's apart.  The argument: a pass that fails is not       *)
(* recorded, so that a row proves whole reports of its lineage only        *)
(* (append_stage); the row a retry takes them from has failed and is never *)
(* written again; a stage is skipped by reuse_stage only, and no stage of  *)
(* the selection is left out by the loop.                                  *)
THEOREM ReportsAreSound == Spec => CompletedIsSound
<1>1. Init => LockInv /\ Typed /\ Sources
  BY InitLock, InitTyped, InitSources
<1>2. LockInv /\ Typed /\ Sources /\ [Next]_vars => (LockInv /\ Typed /\ Sources)'
  BY NextLock, NextTyped, NextKeeps
<1>3. ASSUME Typed, Sources, [Next]_vars, NEW w \in Workers, run[w] # 0, Ended(run[w])
      PROVE  Sound(w)
  <2>1. Next
    <3>1. runs' # runs
      BY <1>3 DEF Ended
    <3> QED
      BY <1>3, <3>1 DEF vars
  <2> QED
    BY <1>3, <2>1, OnlyFinish, FinishIsSound
<1>4. Typed /\ Sources /\ [Next]_vars
        => [\A w \in Workers : run[w] # 0 /\ Ended(run[w]) => Sound(w)]_vars
  BY <1>3
<1> QED
  BY <1>1, <1>2, <1>4, PTL DEF Spec, CompletedIsSound

=============================================================================
