-------------------------- MODULE DailyPipelineProofs --------------------------
(***************************************************************************)
(* Theorems about the pipelines of one date: types, and the day's lock.    *)
(***************************************************************************)
EXTENDS DailyPipeline, FiniteSetTheorems, TLAPS

-----------------------------------------------------------------------------
(* The day's lock.  Whoever is past flock holds the file it has open; as   *)
(* long as no release passed its window, that file has the name.           *)
Places == {"idle", "open", "flock", "mark", "work", "pass", "write", "commit",
           "release", "read", "unlink", "answer"}
Holding == {"mark", "work", "pass", "write", "commit", "release"}

LockTyped ==
  /\ path \in Files \cup {NoFile}
  /\ locks \in [Files -> [held : Workers \cup {Nobody}, pid : Procs \cup {Nobody}]]
  /\ handle \in [Workers -> Files \cup {NoFile}]
  /\ window \subseteq Workers /\ doubled \in BOOLEAN
  /\ pc \in [Workers -> Places]

LockFits(w) ==
  /\ pc[w] \in Holding => handle[w] \in Files /\ locks[handle[w]].held = w
  /\ pc[w] = "flock" => handle[w] \in Files
  /\ pc[w] = "unlink" => w \in window

(* Every open file has the name.                                           *)
Named == doubled = FALSE => \A w \in Workers : handle[w] \in {path, NoFile}

LockInv == LockTyped /\ (\A w \in Workers : LockFits(w)) /\ Named

LEMMA Values ==
  /\ NoFile \notin Files /\ Nobody \notin Workers
  /\ \A w \in Workers : Proc(w) \in Procs
<1>1. Files \subseteq Nat
  BY FS_CardinalityType, PipelineAssumption DEF Files
<1> QED
  BY <1>1, PipelineAssumption DEF Proc, Procs, Workers

(* There are more files than workers: a new one can be created.            *)
LEMMA FreshFile ==
  ASSUME LockTyped, path = NoFile
  PROVE  \E f \in Files : f # path /\ \A v \in Workers : handle[v] # f
<1>1. IsFiniteSet(Workers) /\ Cardinality(Workers) \in Nat
  BY FS_CardinalityType, PipelineAssumption
<1>2. DEFINE used == {handle[v] : v \in Workers}
<1>3. IsFiniteSet(used) /\ Cardinality(used) <= Cardinality(Workers)
  <2>1. handle \in Surjection(Workers, used)
    BY DEF LockTyped, Surjection
  <2> QED
    BY <1>1, <2>1, FS_Surjection
<1>4. Cardinality(Files) = Cardinality(Workers) + 1
  BY <1>1, FS_Interval DEF Files
<1>5. ~ (Files \subseteq used)
  <2> SUFFICES ASSUME Files \subseteq used PROVE FALSE
    OBVIOUS
  <2>1. Cardinality(Files) <= Cardinality(used) /\ Cardinality(used) \in Nat
    BY <1>3, FS_Subset, FS_CardinalityType
  <2> QED
    BY <1>1, <1>3, <1>4, <2>1
<1> QED
  BY <1>5, Values

LEMMA InitLock == Init => LockInv
<1> SUFFICES ASSUME Init PROVE LockInv
  OBVIOUS
<1>1. LockTyped
  <2>1. locks \in [Files -> [held : Workers \cup {Nobody}, pid : Procs \cup {Nobody}]]
    BY DEF Init
  <2>2. handle \in [Workers -> Files \cup {NoFile}] /\ pc \in [Workers -> Places]
    BY DEF Init, Places
  <2> QED
    BY <2>1, <2>2 DEF Init, LockTyped
<1>2. \A w \in Workers : LockFits(w)
  BY DEF Init, LockFits, Holding
<1> QED
  BY <1>1, <1>2 DEF Init, LockInv, Named

(* Steps that leave the lock alone move between two places inside it or    *)
(* two outside.                                                            *)
LEMMA LockKept ==
  ASSUME LockInv, UNCHANGED lockVars, pc' \in [Workers -> Places],
         \A w \in Workers :
           pc'[w] # pc[w] => \/ pc'[w] \in {"idle", "open", "answer", "read"}
                             \/ pc[w] \in Holding /\ pc'[w] \in Holding
  PROVE  LockInv'
<1>1. LockTyped' /\ Named'
  BY DEF LockInv, LockTyped, Named, lockVars
<1>2. \A w \in Workers : LockFits(w)'
  BY DEF LockInv, LockFits, lockVars, Holding
<1> QED
  BY <1>1, <1>2 DEF LockInv

LEMMA NextLock ==
  ASSUME LockInv, [Next]_vars
  PROVE  LockInv'
<1> USE DEF LockInv, Goto
<1>0. /\ LockTyped /\ pc \in [Workers -> Places] /\ handle \in [Workers -> Files \cup {NoFile}]
      /\ locks \in [Files -> [held : Workers \cup {Nobody}, pid : Procs \cup {Nobody}]]
      /\ \A w \in Workers : LockFits(w)
  BY DEF LockTyped
<1>1. CASE UNCHANGED vars
  BY <1>1, LockKept, <1>0 DEF vars
<1>2. ASSUME NEW w \in Workers, Open(w) PROVE LockInv'
  <2>1. CASE path # NoFile
    <3>1. /\ UNCHANGED <<path, locks, window, doubled>> /\ pc[w] = "open"
          /\ handle' = [handle EXCEPT ![w] = path] /\ pc' = [pc EXCEPT ![w] = "flock"]
          /\ path \in Files
      BY <1>0, <1>2, <2>1 DEF Open, LockTyped
    <3>2. LockTyped'
      BY <1>0, <3>1 DEF LockTyped, Places
    <3>3. \A v \in Workers : LockFits(v)'
      BY <1>0, <3>1 DEF LockFits, Holding
    <3>4. Named'
      BY <1>0, <3>1 DEF Named
    <3> QED
      BY <3>2, <3>3, <3>4
  <2>2. CASE path = NoFile
    <3>1. PICK f \in Files :
            /\ \A v \in Workers : handle[v] # f
            /\ path' = f /\ handle' = [handle EXCEPT ![w] = f]
            /\ locks' = [locks EXCEPT ![f] = [held |-> Nobody, pid |-> Nobody]]
            /\ UNCHANGED <<window, doubled>> /\ pc' = [pc EXCEPT ![w] = "flock"]
            /\ pc[w] = "open"
      BY <1>0, <1>2, <2>2, FreshFile DEF Open
    <3>2. LockTyped'
      BY <1>0, <3>1 DEF LockTyped, Places
    <3>3. \A v \in Workers : LockFits(v)'
      BY <1>0, <3>1 DEF LockFits, Holding
    <3>4. Named'
      BY <1>0, <2>2, <3>1 DEF Named
    <3> QED
      BY <3>2, <3>3, <3>4
  <2> QED
    BY <2>1, <2>2
<1>3. ASSUME NEW w \in Workers, Flock(w) PROVE LockInv'
  <2>1. /\ locks[handle[w]].held = Nobody /\ locks' = [locks EXCEPT ![handle[w]].held = w]
        /\ pc[w] = "flock" /\ pc' = [pc EXCEPT ![w] = "mark"]
        /\ UNCHANGED <<path, handle, window, doubled>> /\ handle[w] \in Files
    BY <1>0, <1>3 DEF Flock, LockFits
  <2>2. LockTyped'
    BY <1>0, <2>1 DEF LockTyped, Places
  <2>3. \A v \in Workers : LockFits(v)'
    BY <1>0, <2>1, Values DEF LockFits, Holding
  <2> QED
    BY <2>1, <2>2, <2>3 DEF Named
<1>4. ASSUME NEW w \in Workers, Mark(w) PROVE LockInv'
  <2>1. /\ locks' = [locks EXCEPT ![handle[w]].pid = Proc(w)]
        /\ pc[w] = "mark" /\ pc' = [pc EXCEPT ![w] = "work"]
        /\ UNCHANGED <<path, handle, window, doubled>> /\ handle[w] \in Files
    BY <1>0, <1>4 DEF Mark, LockFits, Holding
  <2>2. LockTyped'
    BY <1>0, <2>1, Values DEF LockTyped, Places
  <2>3. \A f \in Files : locks'[f].held = locks[f].held
    BY <1>0, <2>1
  <2>4. \A v \in Workers : LockFits(v)'
    BY <1>0, <2>1, <2>3 DEF LockFits, Holding
  <2> QED
    BY <2>1, <2>2, <2>4 DEF Named
<1>5. ASSUME NEW w \in Workers, Refused(w) PROVE LockInv'
  <2>1. /\ handle' = [handle EXCEPT ![w] = NoFile] /\ UNCHANGED <<path, locks, window, doubled>>
        /\ \E place \in {"idle", "answer"} : pc' = [pc EXCEPT ![w] = place]
    BY <1>5 DEF Refused, Return
  <2>2. LockTyped'
    BY <1>0, <2>1 DEF LockTyped, Places
  <2>3. \A v \in Workers : LockFits(v)'
    BY <1>0, <2>1 DEF LockFits, Holding
  <2> QED
    BY <1>0, <2>1, <2>2, <2>3 DEF Named
<1>6. ASSUME NEW w \in Workers, Unlock(w) PROVE LockInv'
  <2>1. /\ locks' = [locks EXCEPT ![handle[w]].held = Nobody]
        /\ handle' = [handle EXCEPT ![w] = NoFile] /\ UNCHANGED <<path, window, doubled>>
        /\ pc[w] = "release" /\ pc' = [pc EXCEPT ![w] = "read"]
        /\ handle[w] \in Files /\ locks[handle[w]].held = w
    BY <1>0, <1>6 DEF Unlock, LockFits, Holding
  <2>2. LockTyped'
    BY <1>0, <2>1 DEF LockTyped, Places
  <2>3. \A v \in Workers : LockFits(v)'
    BY <1>0, <2>1 DEF LockFits, Holding
  <2> QED
    BY <1>0, <2>1, <2>2, <2>3 DEF Named
<1>7. ASSUME NEW w \in Workers, ReadOwner(w) PROVE LockInv'
  <2>1. /\ UNCHANGED <<path, locks, handle, doubled>> /\ pc[w] = "read"
        /\ \/ pc' = [pc EXCEPT ![w] = "unlink"] /\ window' = window \cup {w}
           \/ /\ \E place \in {"idle", "answer"} : pc' = [pc EXCEPT ![w] = place]
              /\ UNCHANGED window
    BY <1>7 DEF ReadOwner, Return, NamesMe
  <2>2. LockTyped'
    BY <1>0, <2>1 DEF LockTyped, Places
  <2>3. \A v \in Workers : LockFits(v)'
    BY <1>0, <2>1 DEF LockFits, Holding
  <2> QED
    BY <2>1, <2>2, <2>3 DEF Named
<1>8. ASSUME NEW w \in Workers, Unlink(w) PROVE LockInv'
  <2>1. /\ path' = NoFile /\ window' = window \ {w} /\ UNCHANGED <<locks, handle>>
        /\ pc[w] = "unlink" /\ w \in window
        /\ \E place \in {"idle", "answer"} : pc' = [pc EXCEPT ![w] = place]
        /\ doubled' = (doubled \/ (w \in window /\ path \in {handle[v] : v \in Workers} \ {NoFile}))
    BY <1>0, <1>8 DEF Unlink, Return, LockFits
  <2>2. LockTyped'
    BY <1>0, <2>1 DEF LockTyped, Places
  <2>3. \A v \in Workers : LockFits(v)'
    BY <1>0, <2>1 DEF LockFits, Holding
  <2>4. doubled' = FALSE =>
          doubled = FALSE /\ \A v \in Workers : handle[v] = path => handle[v] = NoFile
    BY <1>0, <2>1 DEF LockTyped
  <2> QED
    BY <2>1, <2>2, <2>3, <2>4 DEF Named
<1>9. ASSUME NEW p \in Procs, Crash(p) PROVE LockInv'
  <2> DEFINE died == Died(p)
  <2>1. /\ pc' = [w \in Workers |-> IF w \in died THEN "idle" ELSE pc[w]]
        /\ handle' = [w \in Workers |-> IF w \in died THEN NoFile ELSE handle[w]]
        /\ locks' = [f \in Files |->
             [held |-> IF locks[f].held \in died THEN Nobody ELSE locks[f].held,
              pid |-> IF locks[f].pid = p THEN Nobody ELSE locks[f].pid]]
        /\ window' = window \ died /\ UNCHANGED <<path, doubled>>
    BY <1>9 DEF Crash
  <2> HIDE DEF died
  <2>2. LockTyped'
    BY <1>0, <2>1 DEF LockTyped, Places
  <2>3. \A v \in Workers : LockFits(v)'
    BY <1>0, <2>1 DEF LockFits, Holding
  <2> QED
    BY <1>0, <2>1, <2>2, <2>3 DEF Named
<1>10. ASSUME NEW w \in Workers,
              Simple(w) \/ Reuse(w) \/ RunPass(w) \/ OpenReport(w) \/ PassDone(w)
              \/ Validate(w) \/ Finish(w) \/ Fault(w)
       PROVE  LockInv'
  <2>1. /\ UNCHANGED lockVars
        /\ \/ UNCHANGED pc
           \/ /\ pc[w] \in Holding
              /\ \E place \in Holding : pc' = [pc EXCEPT ![w] = place]
           \/ pc' = [pc EXCEPT ![w] = "idle"]
    BY <1>10 DEF Simple, Reuse, RunPass, OpenReport, PassDone, Validate, Finish, Fault,
       Stop, PassFails, Raise, RepairLost, Fails, Holding
  <2> QED
    BY <1>0, <2>1, LockKept DEF Holding, Places
<1>11. ASSUME NEW w \in Workers,
              Answer(w) \/ Start(w) \/ \E i \in Queued : TakeRepair(w, i)
       PROVE  LockInv'
  <2>1. /\ UNCHANGED lockVars
        /\ \E place \in {"idle", "open"} : pc' = [pc EXCEPT ![w] = place]
    BY <1>11 DEF Answer, Start, TakeRepair, Call
  <2> QED
    BY <1>0, <2>1, LockKept DEF Places
<1>12. CASE \/ \E retry \in BOOLEAN : QueueRepair(retry)
            \/ \E o \in orphans : OrphanWrites(o)
            \/ \E f \in Report : Edit(f)
  <2>1. UNCHANGED <<lockVars, pc>>
    BY <1>12 DEF QueueRepair, OrphanWrites, Edit
  <2> QED
    BY <1>0, <2>1, LockKept
<1> QED
  BY <1>1, <1>2, <1>3, <1>4, <1>5, <1>6, <1>7, <1>8, <1>9, <1>10, <1>11, <1>12
     DEF Next, Step, Workers

(* Two pipelines of a day never run at the same time, whatever the number  *)
(* of threads, processes, runs and kills, as long as no release unlinks a  *)
(* lock file that somebody has opened: flock alone does not promise that,  *)
(* because two files may have had the name (_acquire_daily_pipeline_lock). *)
THEOREM OnePipeline == Spec => []OneAtATime
<1>1. Init => LockInv
  BY InitLock
<1>2. LockInv /\ [Next]_vars => LockInv'
  BY NextLock
<1>3. LockInv => OneAtATime
  <2> SUFFICES ASSUME LockInv, doubled = FALSE PROVE Cardinality(InPipeline) <= 1
    BY DEF LockInv, LockTyped, OneAtATime
  <2>1. ASSUME NEW v \in InPipeline, NEW w \in InPipeline PROVE v = w
    <3>1. /\ handle[v] \in Files /\ locks[handle[v]].held = v
          /\ handle[w] \in Files /\ locks[handle[w]].held = w
      BY DEF LockInv, LockFits, InPipeline, Holding
    <3>2. handle[v] = path /\ handle[w] = path
      BY <3>1, Values DEF LockInv, Named, InPipeline
    <3> QED
      BY <3>1, <3>2
  <2>2. InPipeline = {} \/ \E w : InPipeline = {w}
    BY <2>1
  <2>3. CASE InPipeline = {}
    <3>1. Cardinality({}) = 0
      BY FS_EmptySet
    <3> QED
      BY <2>3, <3>1
  <2>4. ASSUME NEW w, InPipeline = {w} PROVE Cardinality(InPipeline) <= 1
    <3>1. Cardinality({w}) = 1
      BY FS_Singleton
    <3> QED
      BY <2>4, <3>1
  <2> QED
    BY <2>2, <2>3, <2>4
<1> QED
  BY <1>1, <1>2, <1>3, PTL DEF Spec

-----------------------------------------------------------------------------
(* Types.  A worker in its stages has a row, one in a pass is at a pass,   *)
(* one that has to answer for a repair has one; whoever may still create a *)
(* row has room for it.                                                    *)
Stages == {Order[i] : i \in DOMAIN Order}
Texts == [by : 1..(MaxRuns + MaxFaults), whole : BOOLEAN]
ProofSets == [Passes -> SUBSET (Report \X Texts)]
Row == [status : {"running", "failed", "completed", "skipped"}, parent : Nat,
        steps : SUBSET Steps, blank : BOOLEAN, proof : ProofSets, reused : SUBSET Passes]
RepairRow == [status : {"queued", "running", "completed", "failed"}, retry : BOOLEAN,
              source : Nat]

RowsTyped ==
  /\ runs \in Seq(Row) /\ \A i \in Runs : runs[i].parent < i
  /\ repairs \in Seq(RepairRow) /\ \A i \in DOMAIN repairs : repairs[i].source <= Len(runs)

JobsTyped ==
  /\ stage \in [Workers -> Stages]
  /\ run \in [Workers -> 0..Len(runs)] /\ parent \in [Workers -> 0..Len(runs)]
  /\ steps \in [Workers -> SUBSET Steps] /\ plan \in [Workers -> ProofSets]
  /\ blank \in [Workers -> BOOLEAN] /\ repair \in [Workers -> 0..Len(repairs)]

JobFits(w) ==
  /\ pc[w] \in {"work", "pass", "write", "commit"} => run[w] # 0
  /\ pc[w] \in {"pass", "write"} => stage[w] \in Passes
  /\ pc[w] = "answer" => repair[w] # 0

FilesTyped ==
  /\ report \in [Report -> Texts \cup {NoFile}]
  /\ foreign \subseteq Report /\ raced \in [Workers -> SUBSET Report]
  /\ \A o \in orphans : o.file \in Report /\ o.by \in Runs

Roomy ==
  /\ Len(runs) + Cardinality(Starting) + Cardinality(Queued) <= MaxRuns
  /\ Len(repairs) <= MaxRepairs /\ faults \in 0..MaxFaults
  /\ lost \subseteq {"run", "repair"} \X (1..(MaxRuns + MaxRepairs))

Jobs == RowsTyped /\ JobsTyped /\ (\A w \in Workers : JobFits(w))
Typed == LockTyped /\ Jobs /\ FilesTyped /\ Roomy

(* The loop over the steps always has a stage ahead, the end at least.     *)
LEMMA AfterIsStage ==
  ASSUME NEW s, s # "end", NEW chosen, NEW empty
  PROVE  After(s, chosen, empty) \in Stages
<1> DEFINE A == Ahead(s, chosen, empty)
<1>1. /\ DOMAIN Order = 1..6 /\ Order[6] = "end"
      /\ Order[1] # "end" /\ Order[2] # "end" /\ Order[3] # "end"
      /\ Order[4] # "end" /\ Order[5] # "end"
  BY DEF Order
<1>2. A \subseteq 1..6
  BY <1>1 DEF Ahead
<1>3. 6 \in A
  <2>1. \A j \in DOMAIN Order : Order[j] = s => j < 6
    BY <1>1
  <2> QED
    BY <1>1, <2>1 DEF Ahead
<1> HIDE DEF A
<1>4. \E i \in A : \A j \in A : i <= j
  <2>1. CASE 1 \in A
    BY <1>2, <2>1
  <2>2. CASE 1 \notin A /\ 2 \in A
    BY <1>2, <2>2
  <2>3. CASE 1 \notin A /\ 2 \notin A /\ 3 \in A
    BY <1>2, <2>3
  <2>4. CASE 1 \notin A /\ 2 \notin A /\ 3 \notin A /\ 4 \in A
    BY <1>2, <2>4
  <2>5. CASE 1 \notin A /\ 2 \notin A /\ 3 \notin A /\ 4 \notin A
    BY <1>2, <1>3, <2>5
  <2> QED
    BY <2>1, <2>2, <2>3, <2>4, <2>5
<1>5. (CHOOSE i \in A : \A j \in A : i <= j) \in A
  BY <1>4
<1> QED
  BY <1>1, <1>2, <1>5 DEF After, Stages, A

(* What is recorded of a stage are reports that are there.                 *)
LEMMA ProofsTyped ==
  ASSUME NEW files \in [Report -> Texts \cup {NoFile}], NEW s \in Passes
  PROVE  Proofs(s, files) \subseteq Report \X Texts
  BY DEF Proofs, Shown, Passes, Report

LEMMA ReusableTyped ==
  ASSUME RowsTyped, NEW p \in 0..Len(runs), NEW chosen
  PROVE  Reusable(p, chosen) \in ProofSets
<1>1. ASSUME p # 0 PROVE runs[p].proof \in ProofSets
  <2>1. runs[p] \in Row
    BY <1>1 DEF RowsTyped
  <2> QED
    BY <2>1 DEF Row
<1> QED
  BY <1>1 DEF Reusable, ProofSets

LEMMA Finite ==
  ASSUME RowsTyped
  PROVE  /\ IsFiniteSet(Starting) /\ Cardinality(Starting) \in Nat
         /\ IsFiniteSet(Queued) /\ Cardinality(Queued) \in Nat
         /\ Len(runs) \in Nat /\ Len(repairs) \in Nat
<1>1. Len(runs) \in Nat /\ Len(repairs) \in Nat
  BY DEF RowsTyped
<1>2. IsFiniteSet(Starting)
  BY PipelineAssumption, FS_Subset DEF Starting
<1>3. IsFiniteSet(1..Len(repairs))
  BY <1>1, FS_Interval
<1>4. Queued \subseteq 1..Len(repairs)
  BY DEF Queued, Unended, RowsTyped
<1>5. IsFiniteSet(Queued)
  BY <1>3, <1>4, FS_Subset
<1> QED
  BY <1>1, <1>2, <1>5, FS_CardinalityType

(* Room is kept by steps that create no row and let nobody start.          *)
LEMMA RoomKept ==
  ASSUME RowsTyped, RowsTyped', Roomy, Len(runs') = Len(runs), Len(repairs') = Len(repairs),
         Starting' \subseteq Starting, Queued' \subseteq Queued,
         UNCHANGED faults \/ (faults < MaxFaults /\ faults' = faults + 1),
         lost' \subseteq lost \cup {"run"} \X (1..Len(runs)) \cup {"repair"} \X (1..Len(repairs))
  PROVE  Roomy'
<1>1. /\ Cardinality(Starting') <= Cardinality(Starting) /\ Cardinality(Starting') \in Nat
      /\ Cardinality(Queued') <= Cardinality(Queued) /\ Cardinality(Queued') \in Nat
  BY Finite, FS_Subset, FS_CardinalityType
<1>2. /\ Cardinality(Starting) \in Nat /\ Cardinality(Queued) \in Nat
      /\ Len(runs) \in Nat /\ Len(repairs) \in Nat
  BY Finite
<1>3. MaxRuns \in Nat /\ MaxRepairs \in Nat /\ MaxFaults \in Nat
  BY PipelineAssumption
<1>4. Len(runs) <= MaxRuns
  BY <1>2, <1>3 DEF Roomy
<1>5. lost' \subseteq {"run", "repair"} \X (1..(MaxRuns + MaxRepairs))
  BY <1>2, <1>3, <1>4 DEF Roomy
<1> QED
  BY <1>1, <1>2, <1>3, <1>5 DEF Roomy

LEMMA TypedIsTypeOK == Typed => TypeOK
<1> SUFFICES ASSUME Typed PROVE TypeOK
  OBVIOUS
<1>1. Len(runs) <= MaxRuns
  BY Finite, PipelineAssumption DEF Typed, Jobs, Roomy
<1>2. \A i \in Runs : /\ runs[i].status \in {"running", "failed", "completed", "skipped"}
                      /\ runs[i].parent \in 0..(i - 1)
  <2>1. ASSUME NEW i \in Runs PROVE runs[i] \in Row /\ i \in Nat /\ runs[i].parent < i
    BY <2>1 DEF Typed, Jobs, RowsTyped, Runs
  <2> QED
    BY <2>1 DEF Row, Runs
<1> QED
  BY <1>1, <1>2 DEF Typed, LockTyped, Jobs, JobsTyped, FilesTyped, Roomy, Places, Stages,
     Texts, TypeOK

LEMMA InitTyped == Init => Typed
<1> SUFFICES ASSUME Init PROVE Typed
  OBVIOUS
<1>1. LockTyped
  BY InitLock DEF LockInv
<1>2. Len(runs) = 0 /\ Len(repairs) = 0 /\ runs \in Seq(Row) /\ repairs \in Seq(RepairRow)
  BY DEF Init
<1>3. RowsTyped
  BY <1>2 DEF Init, RowsTyped, Runs
<1>4. JobsTyped
  <2>1. "end" \in Stages
    BY DEF Stages, Order
  <2>2. NoPlan \in ProofSets
    BY DEF NoPlan, ProofSets
  <2> QED
    BY <1>2, <2>1, <2>2 DEF Init, JobsTyped
<1>5. \A w \in Workers : JobFits(w)
  BY DEF Init, JobFits
<1>6. FilesTyped
  BY DEF Init, FilesTyped
<1>7. Starting = {} /\ Queued = {}
  BY DEF Init, Starting, Queued, Unended
<1>8. Roomy
  BY <1>2, <1>7, FS_EmptySet, PipelineAssumption DEF Init, Roomy
<1> QED
  BY <1>1, <1>3, <1>4, <1>5, <1>6, <1>8 DEF Typed, Jobs

(* A step that queues and takes no repair, and lets nobody start.          *)
LEMMA Kept ==
  ASSUME Typed, LockTyped', RowsTyped', JobsTyped', FilesTyped',
         \A w \in Workers : JobFits(w)',
         Len(runs') = Len(runs), UNCHANGED repairs,
         \A w \in Workers : pc'[w] \in {"open", "flock", "mark"} => pc[w] \in {"open", "flock", "mark"},
         UNCHANGED faults \/ (faults < MaxFaults /\ faults' = faults + 1),
         lost \subseteq lost',
         lost' \subseteq lost \cup {"run"} \X (1..Len(runs)) \cup {"repair"} \X (1..Len(repairs))
  PROVE  Typed'
<1>1. Starting' \subseteq Starting
  BY DEF Starting
<1>2. Queued' \subseteq Queued
  BY DEF Queued, Unended
<1>3. Roomy'
  BY <1>1, <1>2, RoomKept DEF Typed, Jobs
<1> QED
  BY <1>3 DEF Typed, Jobs

LEMMA RowChanged ==
  ASSUME RowsTyped, NEW j \in Runs, NEW row \in Row, row.parent = runs[j].parent,
         runs' = [runs EXCEPT ![j] = row], UNCHANGED repairs
  PROVE  RowsTyped' /\ Len(runs') = Len(runs) /\ Runs' = Runs
<1>1. runs \in Seq(Row) /\ j \in 1..Len(runs) /\ Runs = 1..Len(runs)
  BY DEF RowsTyped, Runs
<1>2. runs' \in Seq(Row) /\ Len(runs') = Len(runs)
  BY <1>1
<1>3. Runs' = Runs
  BY <1>1, <1>2 DEF Runs
<1>4. \A i \in Runs : runs'[i].parent < i
  BY <1>1 DEF RowsTyped
<1> QED
  BY <1>2, <1>3, <1>4 DEF RowsTyped

LEMMA WrittenTyped ==
  ASSUME FilesTyped, NEW f \in Report, NEW text \in Texts, NEW by, Written(f, text, by)
  PROVE  /\ report' \in [Report -> Texts \cup {NoFile}]
         /\ raced' \in [Workers -> SUBSET Report]
  BY DEF FilesTyped, Written

(* What a pass writes: a report of its stage, under the id of its run.     *)
LEMMA PassWrites ==
  ASSUME Typed, NEW w \in Workers, pc[w] \in {"work", "pass", "write", "commit"}
  PROVE  /\ run[w] \in Runs /\ run[w] \in 1..Len(runs) /\ runs[run[w]] \in Row
         /\ Runs = 1..Len(runs)
         /\ \A whole \in BOOLEAN : Text(run[w], whole) \in Texts
         /\ pc[w] \in {"pass", "write"} => stage[w] \in Passes /\ Target(w) \in Report
<1>1. Len(runs) \in Nat /\ Runs = 1..Len(runs) /\ Len(runs) <= MaxRuns
  BY Finite, PipelineAssumption DEF Typed, Jobs, Roomy, RowsTyped, Runs
<1>2. run[w] \in 1..Len(runs)
  BY <1>1 DEF Typed, Jobs, JobsTyped, JobFits
<1>3. runs[run[w]] \in Row
  BY <1>2 DEF Typed, Jobs, RowsTyped
<1>4. run[w] \in 1..(MaxRuns + MaxFaults)
  BY <1>1, <1>2, PipelineAssumption
<1>5. pc[w] \in {"pass", "write"} => stage[w] \in Passes /\ Target(w) \in Report
  BY DEF Typed, Jobs, JobFits, Target, Passes, Report
<1> QED
  BY <1>1, <1>2, <1>3, <1>4, <1>5 DEF Text, Texts

(* The steps of the lock that neither end a job nor create a row.          *)
LEMMA LockSteps ==
  ASSUME Typed, LockTyped', NEW w \in Workers,
         Open(w) \/ Flock(w) \/ Unlock(w) \/ RunPass(w) \/ (ReadOwner(w) /\ NamesMe(w))
  PROVE  Typed'
<1>1. /\ UNCHANGED <<stage, jobVars, fileVars, runs, repairs, orphans, lost, faults>>
      /\ \/ pc[w] = "open" /\ pc' = [pc EXCEPT ![w] = "flock"]
         \/ pc[w] = "flock" /\ pc' = [pc EXCEPT ![w] = "mark"]
         \/ pc[w] = "release" /\ pc' = [pc EXCEPT ![w] = "read"]
         \/ pc[w] = "read" /\ pc' = [pc EXCEPT ![w] = "unlink"]
         \/ pc[w] = "work" /\ pc' = [pc EXCEPT ![w] = "pass"] /\ stage[w] \in Passes
  BY DEF Open, Flock, Unlock, RunPass, ReadOwner, Goto
<1>2. pc \in [Workers -> Places]
  BY DEF Typed, LockTyped
<1>3. RowsTyped' /\ JobsTyped'
  BY <1>1 DEF Typed, Jobs, RowsTyped, JobsTyped, Runs, jobVars
<1>4. FilesTyped'
  BY <1>1 DEF Typed, FilesTyped, fileVars, Runs
<1>5. \A v \in Workers : JobFits(v)'
  BY <1>1, <1>2 DEF Typed, Jobs, JobFits, jobVars
<1>6. \A v \in Workers :
        pc'[v] \in {"open", "flock", "mark"} => pc[v] \in {"open", "flock", "mark"}
  BY <1>1, <1>2
<1> QED
  BY <1>1, <1>3, <1>4, <1>5, <1>6, Kept

(* A worker that forgets its job.                                          *)
LEMMA Returns ==
  ASSUME Typed, LockTyped', NEW w \in Workers, Return(w),
         UNCHANGED <<fileVars, runs, repairs, orphans, lost, faults>>
  PROVE  Typed'
<1>0. /\ pc \in [Workers -> Places] /\ JobsTyped
      /\ "end" \in Stages /\ NoPlan \in ProofSets /\ Len(runs) \in Nat /\ Len(repairs) \in Nat
  BY Finite DEF Typed, Jobs, LockTyped, Stages, Order, NoPlan, ProofSets
<1>1. RowsTyped' /\ FilesTyped'
  BY DEF Typed, Jobs, RowsTyped, FilesTyped, fileVars, Runs
<1>2. /\ stage' \in [Workers -> Stages] /\ steps' \in [Workers -> SUBSET Steps]
      /\ plan' \in [Workers -> ProofSets] /\ blank' \in [Workers -> BOOLEAN]
      /\ parent' \in [Workers -> 0..Len(runs)]
  BY <1>0 DEF Return, Forget, JobsTyped
<1>3. run' \in [Workers -> 0..Len(runs)] /\ repair' \in [Workers -> 0..Len(repairs)]
  BY <1>0 DEF Return, JobsTyped
<1>4. JobsTyped'
  BY <1>2, <1>3 DEF JobsTyped
<1>5. /\ \A v \in Workers \ {w} : pc'[v] = pc[v] /\ run'[v] = run[v] /\ stage'[v] = stage[v]
      /\ UNCHANGED repair /\ pc'[w] \in {"idle", "answer"}
      /\ pc'[w] = "answer" => repair[w] # 0
  BY <1>0 DEF Return, Forget, Goto, JobsTyped
<1>6. \A v \in Workers : JobFits(v)'
  BY <1>5 DEF Typed, Jobs, JobFits
<1>7. \A v \in Workers :
        pc'[v] \in {"open", "flock", "mark"} => pc[v] \in {"open", "flock", "mark"}
  BY <1>5
<1> QED
  BY <1>1, <1>4, <1>6, <1>7, Kept

(* A row is created: the worker that starts leaves its room to it.         *)
LEMMA Marks ==
  ASSUME Typed, LockTyped', NEW w \in Workers, Mark(w)
  PROVE  Typed'
<1>0. /\ pc \in [Workers -> Places] /\ JobsTyped /\ RowsTyped /\ pc[w] = "mark"
      /\ Len(runs) \in Nat /\ Len(repairs) \in Nat /\ runs \in Seq(Row)
  BY Finite DEF Typed, Jobs, LockTyped, Mark, RowsTyped
<1>1. NewRun(w) \in Row /\ NewRun(w).parent = parent[w]
  BY <1>0 DEF NewRun, Row, JobsTyped, ProofSets
<1>2. /\ runs' = Append(runs, NewRun(w)) /\ run' = [run EXCEPT ![w] = Len(runs) + 1]
      /\ stage' = [stage EXCEPT ![w] = After("none", steps[w], FALSE)]
      /\ pc' = [pc EXCEPT ![w] = "work"]
      /\ UNCHANGED <<parent, steps, plan, blank, repair, fileVars, repairs, orphans, lost, faults>>
  BY DEF Mark, Goto
<1>3. /\ runs' \in Seq(Row) /\ Len(runs') = Len(runs) + 1 /\ runs'[Len(runs) + 1] = NewRun(w)
      /\ \A i \in 1..Len(runs) : runs'[i] = runs[i]
      /\ Runs = 1..Len(runs) /\ Runs' = 1..Len(runs')
  BY <1>0, <1>1, <1>2 DEF Runs
<1>4. RowsTyped'
  <2>1. ASSUME NEW i \in Runs' PROVE runs'[i].parent < i
    <3>1. CASE i \in 1..Len(runs)
      BY <1>0, <1>3, <3>1 DEF RowsTyped
    <3>2. CASE i = Len(runs) + 1
      <4>1. parent[w] \in 0..Len(runs)
        BY <1>0 DEF JobsTyped
      <4> QED
        BY <1>0, <1>1, <1>3, <3>2, <4>1
    <3> QED
      BY <1>0, <1>3, <2>1, <3>1, <3>2
  <2>2. ASSUME NEW i \in DOMAIN repairs PROVE repairs[i].source <= Len(runs')
    <3>1. repairs[i].source \in Nat /\ repairs[i].source <= Len(runs)
      <4>1. repairs[i] \in RepairRow
        BY <1>0 DEF RowsTyped
      <4> QED
        BY <1>0, <4>1 DEF RowsTyped, RepairRow
    <3> QED
      BY <1>0, <1>3, <3>1
  <2> QED
    BY <1>0, <1>2, <1>3, <2>1, <2>2 DEF RowsTyped
<1>5. JobsTyped'
  <2>1. stage' \in [Workers -> Stages]
    <3>1. After("none", steps[w], FALSE) \in Stages
      BY AfterIsStage
    <3> QED
      BY <1>0, <1>2, <3>1 DEF JobsTyped
  <2>2. run' \in [Workers -> 0..Len(runs')] /\ parent' \in [Workers -> 0..Len(runs')]
    BY <1>0, <1>2, <1>3 DEF JobsTyped
  <2> QED
    BY <1>0, <1>2, <2>1, <2>2 DEF JobsTyped
<1>6. \A v \in Workers : JobFits(v)'
  BY <1>0, <1>2 DEF Typed, Jobs, JobFits, JobsTyped
<1>7. FilesTyped'
  BY <1>2, <1>3, <1>0 DEF Typed, FilesTyped, fileVars
<1>8. Roomy'
  <2>1. Starting' = Starting \ {w} /\ w \in Starting
    BY <1>0, <1>2 DEF Starting
  <2>2. Cardinality(Starting') = Cardinality(Starting) - 1
    BY <1>0, <2>1, Finite, FS_RemoveElement
  <2>3. Queued' = Queued
    BY <1>2 DEF Queued, Unended
  <2> QED
    BY <1>0, <1>2, <1>3, <2>2, <2>3, Finite, PipelineAssumption DEF Typed, Roomy
<1> QED
  BY <1>4, <1>5, <1>6, <1>7, <1>8 DEF Typed, Jobs

(* The loop goes on to the next stage.                                     *)
LEMMA Advances ==
  ASSUME JobsTyped, NEW w \in Workers, stage[w] # "end", NEW empty, Advance(w, empty)
  PROVE  stage' \in [Workers -> Stages] /\ \A v \in Workers \ {w} : stage'[v] = stage[v]
<1>1. After(stage[w], steps[w], empty) \in Stages
  BY AfterIsStage
<1> QED
  BY <1>1 DEF Advance, JobsTyped

(* A stage that writes nothing: it succeeds, or is reused.                 *)
LEMMA QuietStages ==
  ASSUME Typed, LockTyped', NEW w \in Workers, Simple(w) \/ Reuse(w)
  PROVE  Typed'
<1>0. /\ pc \in [Workers -> Places] /\ JobsTyped /\ RowsTyped /\ pc[w] = "work"
      /\ run[w] \in Runs /\ runs[run[w]] \in Row
      /\ UNCHANGED <<pc, run, parent, steps, plan, repair, fileVars, repairs, orphans, lost, faults>>
  BY PassWrites DEF Typed, Jobs, LockTyped, Simple, Reuse, jobVars
<1>1. /\ \E row \in Row : row.parent = runs[run[w]].parent /\ SetRun(w, row)
      /\ blank' \in [Workers -> BOOLEAN]
      /\ stage' \in [Workers -> Stages] /\ \A v \in Workers \ {w} : stage'[v] = stage[v]
  <2>1. ASSUME Simple(w) PROVE <1>1!:
    <3>1. PICK b \in BOOLEAN :
            /\ blank' = [blank EXCEPT ![w] = b] /\ Advance(w, b)
            /\ SetRun(w, [runs[run[w]] EXCEPT !.blank = b])
      BY <2>1 DEF Simple
    <3>2. /\ [runs[run[w]] EXCEPT !.blank = b] \in Row
          /\ [runs[run[w]] EXCEPT !.blank = b].parent = runs[run[w]].parent
      BY <1>0 DEF Row
    <3>3. stage[w] # "end"
      BY <2>1 DEF Simple
    <3> QED
      BY <1>0, <3>1, <3>2, <3>3, Advances DEF JobsTyped
  <2>2. ASSUME Reuse(w) PROVE <1>1!:
    <3> DEFINE row == [Committed(runs[run[w]], stage[w], plan[w][stage[w]])
                         EXCEPT !.reused = @ \cup {stage[w]}]
    <3>1. SetRun(w, row) /\ Advance(w, blank[w]) /\ UNCHANGED blank /\ stage[w] \in Passes
      BY <2>2 DEF Reuse, jobVars
    <3>2. plan[w][stage[w]] \in SUBSET (Report \X Texts)
      BY <1>0, <3>1 DEF JobsTyped, ProofSets
    <3>3. [runs[run[w]].proof EXCEPT ![stage[w]] = plan[w][stage[w]]] \in ProofSets
      BY <1>0, <3>1, <3>2 DEF Row, ProofSets
    <3>4. row \in Row /\ row.parent = runs[run[w]].parent
      BY <1>0, <3>1, <3>3 DEF Committed, Row
    <3>5. stage[w] # "end"
      BY <3>1 DEF Passes
    <3> QED
      BY <1>0, <3>1, <3>4, <3>5, Advances DEF JobsTyped
  <2> QED
    BY <2>1, <2>2
<1>2. RowsTyped' /\ Len(runs') = Len(runs) /\ Runs' = Runs
  BY <1>0, <1>1, RowChanged DEF SetRun
<1>3. JobsTyped'
  BY <1>0, <1>1, <1>2 DEF JobsTyped
<1>4. \A v \in Workers : JobFits(v)'
  BY <1>0, <1>1 DEF Typed, Jobs, JobFits
<1>5. FilesTyped'
  BY <1>0, <1>2 DEF Typed, FilesTyped, fileVars
<1> QED
  BY <1>0, <1>2, <1>3, <1>4, <1>5, Kept

(* A pass opens its report, and has written it.                            *)
LEMMA Passing ==
  ASSUME Typed, LockTyped', NEW w \in Workers, OpenReport(w) \/ PassDone(w)
  PROVE  Typed'
<1>0. /\ pc \in [Workers -> Places] /\ JobsTyped /\ RowsTyped /\ FilesTyped
      /\ run[w] \in Runs /\ runs[run[w]] \in Row
      /\ stage[w] \in Passes /\ Target(w) \in Report
      /\ \A whole \in BOOLEAN : Text(run[w], whole) \in Texts
      /\ UNCHANGED <<run, parent, steps, plan, blank, repair, repairs, orphans, lost, faults>>
  BY PassWrites DEF Typed, Jobs, LockTyped, OpenReport, PassDone, jobVars
<1>1. /\ report' \in [Report -> Texts \cup {NoFile}]
      /\ raced' \in [Workers -> SUBSET Report] /\ foreign' \subseteq Report
  <2>1. \E whole \in BOOLEAN : Written(Target(w), Text(run[w], whole), w)
    BY DEF OpenReport, PassDone
  <2>2. foreign' \subseteq Report
    BY <1>0 DEF OpenReport, PassDone, FilesTyped
  <2> QED
    BY <1>0, <2>1, <2>2, WrittenTyped
<1>2. CASE OpenReport(w)
  <2>1. /\ UNCHANGED <<stage, runs>> /\ pc[w] = "pass" /\ pc' = [pc EXCEPT ![w] = "write"]
    BY <1>2 DEF OpenReport, Goto
  <2>2. RowsTyped' /\ JobsTyped'
    BY <1>0, <2>1 DEF RowsTyped, JobsTyped, Runs
  <2>3. \A v \in Workers : JobFits(v)'
    BY <1>0, <2>1 DEF Typed, Jobs, JobFits
  <2>4. FilesTyped'
    BY <1>0, <1>1, <2>1 DEF FilesTyped, Runs
  <2> QED
    BY <1>0, <2>1, <2>2, <2>3, <2>4, Kept
<1>3. CASE PassDone(w)
  <2> DEFINE row == Committed(runs[run[w]], stage[w], Proofs(stage[w], report'))
  <2>1. /\ pc' = [pc EXCEPT ![w] = "work"] /\ pc[w] = "write"
        /\ SetRun(w, row) /\ Advance(w, blank[w])
    BY <1>3 DEF PassDone, Goto
  <2>2. row \in Row /\ row.parent = runs[run[w]].parent
    <3>1. Proofs(stage[w], report') \in SUBSET (Report \X Texts)
      BY <1>0, <1>1, ProofsTyped
    <3>2. [runs[run[w]].proof EXCEPT ![stage[w]] = Proofs(stage[w], report')] \in ProofSets
      BY <1>0, <3>1 DEF Row, ProofSets
    <3> QED
      BY <1>0, <3>2 DEF Committed, Row
  <2>3. RowsTyped' /\ Len(runs') = Len(runs) /\ Runs' = Runs
    BY <1>0, <2>1, <2>2, RowChanged DEF SetRun
  <2>4. stage' \in [Workers -> Stages] /\ \A v \in Workers \ {w} : stage'[v] = stage[v]
    <3>1. stage[w] # "end"
      BY <1>0 DEF Passes
    <3> QED
      BY <1>0, <2>1, <3>1, Advances
  <2>5. JobsTyped'
    BY <1>0, <2>3, <2>4 DEF JobsTyped
  <2>6. \A v \in Workers : JobFits(v)'
    BY <1>0, <2>1, <2>4 DEF Typed, Jobs, JobFits
  <2>7. FilesTyped'
    BY <1>0, <1>1, <2>3 DEF FilesTyped
  <2> QED
    BY <1>0, <2>1, <2>3, <2>5, <2>6, <2>7, Kept
<1> QED
  BY <1>2, <1>3

(* A run ends: its row says how, or an exception leaves it running.        *)
LEMMA Ends ==
  ASSUME Typed, LockTyped', NEW w \in Workers,
         Stop(w) \/ PassFails(w) \/ Raise(w) \/ Validate(w) \/ Finish(w)
  PROVE  Typed'
<1>0. /\ pc \in [Workers -> Places] /\ JobsTyped /\ RowsTyped /\ FilesTyped
      /\ Len(runs) \in Nat /\ Len(repairs) \in Nat
      /\ UNCHANGED <<stage, run, parent, steps, plan, blank, repair, repairs, orphans>>
      /\ UNCHANGED faults \/ (faults < MaxFaults /\ faults' = faults + 1)
  BY Finite DEF Typed, Jobs, LockTyped, Stop, PassFails, Raise, Validate, Finish, jobVars
<1>1. /\ pc[w] \in {"mark", "work", "pass", "write", "commit"}
      /\ \/ pc' = [pc EXCEPT ![w] = "release"]
         \/ pc[w] = "work" /\ pc' = [pc EXCEPT ![w] = "commit"]
  BY DEF Stop, PassFails, Raise, Validate, Finish, Fails, Goto
<1>2. RowsTyped' /\ Len(runs') = Len(runs) /\ Runs' = Runs
  <2>1. CASE UNCHANGED runs
    BY <1>0, <2>1 DEF RowsTyped, Runs
  <2>2. CASE ~ UNCHANGED runs
    <3>1. /\ pc[w] \in {"work", "pass", "write", "commit"}
          /\ \E status \in {"failed", "skipped", "completed"} :
               SetRun(w, [runs[run[w]] EXCEPT !.status = status])
      BY <2>2 DEF Stop, PassFails, Raise, Validate, Finish, Fails, Failed
    <3>2. run[w] \in Runs /\ runs[run[w]] \in Row
      BY <3>1, PassWrites
    <3>3. PICK status \in {"failed", "skipped", "completed"} :
            SetRun(w, [runs[run[w]] EXCEPT !.status = status])
      BY <3>1
    <3>4. /\ [runs[run[w]] EXCEPT !.status = status] \in Row
          /\ [runs[run[w]] EXCEPT !.status = status].parent = runs[run[w]].parent
      BY <3>2, <3>3 DEF Row
    <3> QED
      BY <1>0, <3>2, <3>3, <3>4, RowChanged DEF SetRun
  <2> QED
    BY <2>1, <2>2
<1>3. /\ report' \in [Report -> Texts \cup {NoFile}]
      /\ raced' \in [Workers -> SUBSET Report] /\ foreign' \subseteq Report
  <2>1. CASE UNCHANGED <<report, foreign>> /\ raced' \in {raced, [raced EXCEPT ![w] = {}]}
    BY <1>0, <2>1 DEF FilesTyped
  <2>2. CASE /\ pc[w] = "write" /\ Written(Target(w), Text(run[w], TRUE), w)
             /\ foreign' = IF Alone(w) THEN foreign ELSE foreign \cup {Target(w)}
    <3>1. Target(w) \in Report /\ Text(run[w], TRUE) \in Texts
      BY <2>2, PassWrites
    <3> QED
      BY <1>0, <2>2, <3>1, WrittenTyped DEF FilesTyped
  <2> QED
    BY <2>1, <2>2 DEF Stop, PassFails, Raise, Validate, Finish, fileVars
<1>4. /\ lost \subseteq lost'
      /\ lost' \subseteq lost \cup {"run"} \X (1..Len(runs)) \cup {"repair"} \X (1..Len(repairs))
  <2>1. UNCHANGED lost \/ (run[w] # 0 /\ lost' = lost \cup {<<"run", run[w]>>})
    BY DEF Stop, PassFails, Raise, Validate, Finish
  <2>2. run[w] \in 0..Len(runs)
    BY <1>0 DEF JobsTyped
  <2>3. run[w] # 0 => <<"run", run[w]>> \in {"run"} \X (1..Len(runs))
    BY <1>0, <2>2
  <2> QED
    BY <2>1, <2>3
<1>5. JobsTyped'
  BY <1>0, <1>2 DEF JobsTyped
<1>6. \A v \in Workers : JobFits(v)'
  BY <1>0, <1>1 DEF Typed, Jobs, JobFits
<1>7. FilesTyped'
  BY <1>0, <1>2, <1>3 DEF FilesTyped
<1> QED
  BY <1>0, <1>1, <1>2, <1>4, <1>5, <1>6, <1>7, Kept

(* The end of a repair run, answered or not.                               *)
LEMMA RepairEnds ==
  ASSUME Typed, LockTyped', NEW w \in Workers, Answer(w) \/ RepairLost(w)
  PROVE  Typed'
<1>0. /\ pc \in [Workers -> Places] /\ JobsTyped /\ RowsTyped /\ Roomy
      /\ repairs \in Seq(RepairRow) /\ Len(runs) \in Nat /\ Len(repairs) \in Nat
      /\ pc[w] = "answer" /\ pc' = [pc EXCEPT ![w] = "idle"]
      /\ run' = [run EXCEPT ![w] = 0] /\ repair' = [repair EXCEPT ![w] = 0]
      /\ UNCHANGED <<stage, parent, steps, plan, blank, fileVars, runs, orphans>>
      /\ UNCHANGED faults \/ (faults < MaxFaults /\ faults' = faults + 1)
  BY Finite DEF Typed, Jobs, LockTyped, RowsTyped, Answer, RepairLost, Goto
<1>1. repair[w] \in 1..Len(repairs)
  BY <1>0 DEF Typed, Jobs, JobFits, JobsTyped
<1>2. /\ repairs' \in Seq(RepairRow) /\ Len(repairs') = Len(repairs)
      /\ \A i \in DOMAIN repairs' : repairs'[i].source <= Len(runs)
      /\ Queued' \subseteq Queued
  <2>1. CASE UNCHANGED repairs /\ lost \subseteq lost'
    BY <1>0, <2>1 DEF RowsTyped, Queued, Unended
  <2>2. ASSUME NEW status \in {"completed", "failed"}, UNCHANGED lost,
               repairs' = [repairs EXCEPT ![repair[w]].status = status]
        PROVE  <1>2!:
    <3>1. repairs[repair[w]] \in RepairRow
      BY <1>0, <1>1
    <3>2. [repairs[repair[w]] EXCEPT !.status = status] \in RepairRow
      BY <3>1 DEF RepairRow
    <3>3. /\ repairs' \in Seq(RepairRow) /\ Len(repairs') = Len(repairs)
          /\ \A i \in DOMAIN repairs' : /\ i \in DOMAIN repairs
                                        /\ i # repair[w] => repairs'[i] = repairs[i]
          /\ repairs'[repair[w]] = [repairs[repair[w]] EXCEPT !.status = status]
      BY <1>0, <1>1, <2>2, <3>2
    <3>4. /\ repairs'[repair[w]].source = repairs[repair[w]].source
          /\ repairs'[repair[w]].status = status
      BY <3>1, <3>3 DEF RepairRow
    <3>5. \A i \in DOMAIN repairs' : repairs'[i].source <= Len(runs)
      BY <1>0, <3>3, <3>4 DEF RowsTyped
    <3>6. Queued' \subseteq Queued
      BY <2>2, <3>3, <3>4 DEF Queued, Unended
    <3> QED
      BY <3>3, <3>5, <3>6
  <2> QED
    BY <2>1, <2>2 DEF Answer, RepairLost
<1>3. RowsTyped'
  BY <1>0, <1>2 DEF RowsTyped, Runs
<1>4. JobsTyped'
  BY <1>0, <1>2 DEF JobsTyped
<1>5. \A v \in Workers : JobFits(v)'
  BY <1>0 DEF Typed, Jobs, JobFits, JobsTyped
<1>6. FilesTyped'
  BY <1>0 DEF Typed, FilesTyped, fileVars, Runs
<1>7. lost' \subseteq lost \cup {"run"} \X (1..Len(runs)) \cup {"repair"} \X (1..Len(repairs))
  <2>1. lost' \subseteq lost \cup {<<"repair", repair[w]>>}
    BY DEF Answer, RepairLost
  <2>2. <<"repair", repair[w]>> \in {"repair"} \X (1..Len(repairs))
    BY <1>1
  <2> QED
    BY <2>1, <2>2
<1>8. Starting' \subseteq Starting
  BY <1>0 DEF Starting
<1>9. Roomy'
  BY <1>0, <1>2, <1>3, <1>7, <1>8, RoomKept
<1> QED
  BY <1>3, <1>4, <1>5, <1>6, <1>9 DEF Typed, Jobs

(* A worker is called: its job is new, its room is there.                  *)
LEMMA Calls ==
  ASSUME Typed, NEW w \in Workers, NEW p \in 0..Len(runs), NEW chosen \in SUBSET Steps,
         NEW i \in 0..Len(repairs), Call(w, p, chosen, i), Len(repairs') = Len(repairs)
  PROVE  /\ JobsTyped' /\ (\A v \in Workers : JobFits(v)') /\ FilesTyped'
         /\ Cardinality(Starting') = Cardinality(Starting) + 1
<1>0. /\ pc \in [Workers -> Places] /\ JobsTyped /\ RowsTyped
      /\ pc[w] = "idle" /\ pc' = [pc EXCEPT ![w] = "open"]
      /\ parent' = [parent EXCEPT ![w] = p] /\ steps' = [steps EXCEPT ![w] = chosen]
      /\ plan' = [plan EXCEPT ![w] = Reusable(p, chosen)]
      /\ repair' = [repair EXCEPT ![w] = i]
      /\ UNCHANGED <<stage, run, blank, fileVars, runs, orphans>>
  BY DEF Typed, Jobs, LockTyped, Call, Goto
<1>1. JobsTyped'
  <2>1. Reusable(p, chosen) \in ProofSets
    BY <1>0, ReusableTyped
  <2> QED
    BY <1>0, <2>1 DEF JobsTyped
<1>2. \A v \in Workers : JobFits(v)'
  BY <1>0 DEF Typed, Jobs, JobFits, JobsTyped
<1>3. FilesTyped'
  BY <1>0 DEF Typed, FilesTyped, fileVars, Runs
<1>4. Starting' = Starting \cup {w} /\ w \notin Starting
  BY <1>0 DEF Starting
<1>5. Cardinality(Starting') = Cardinality(Starting) + 1
  BY <1>0, <1>4, Finite, FS_AddElement
<1> QED
  BY <1>1, <1>2, <1>3, <1>5

LEMMA Starts ==
  ASSUME Typed, LockTyped', NEW w \in Workers, Start(w)
  PROVE  Typed'
<1>0. /\ RowsTyped /\ Roomy /\ Len(runs) \in Nat /\ Len(repairs) \in Nat
      /\ Room /\ UNCHANGED <<runs, repairs, lost, faults>>
  BY Finite DEF Typed, Jobs, Start, Call
<1>1. \E chosen \in SUBSET Steps : Call(w, 0, chosen, 0)
  BY PipelineAssumption DEF Start
<1>2. /\ JobsTyped' /\ (\A v \in Workers : JobFits(v)') /\ FilesTyped'
      /\ Cardinality(Starting') = Cardinality(Starting) + 1
  BY <1>0, <1>1, Calls
<1>3. RowsTyped' /\ Queued' = Queued
  BY <1>0 DEF RowsTyped, Runs, Queued, Unended
<1>4. Roomy'
  BY <1>0, <1>2, <1>3, Finite, PipelineAssumption DEF Roomy, Room
<1> QED
  BY <1>2, <1>3, <1>4 DEF Typed, Jobs

LEMMA Queues ==
  ASSUME Typed, LockTyped', NEW retry \in BOOLEAN, QueueRepair(retry)
  PROVE  Typed'
<1>0. /\ RowsTyped /\ Roomy /\ Len(runs) \in Nat /\ Len(repairs) \in Nat
      /\ repairs \in Seq(RepairRow) /\ runs \in Seq(Row)
      /\ Room /\ Len(repairs) < MaxRepairs
      /\ UNCHANGED <<pc, stage, jobVars, fileVars, runs, orphans, lost, faults>>
  BY Finite DEF Typed, Jobs, RowsTyped, QueueRepair
<1>1. PICK latest \in {0, Len(runs)} :
        repairs' = Append(repairs, [status |-> "queued", retry |-> retry, source |-> latest])
  BY DEF QueueRepair
<1>2. [status |-> "queued", retry |-> retry, source |-> latest] \in RepairRow
  BY <1>0 DEF RepairRow
<1>3. /\ repairs' \in Seq(RepairRow) /\ Len(repairs') = Len(repairs) + 1
      /\ \A i \in 1..Len(repairs) : repairs'[i] = repairs[i]
      /\ repairs'[Len(repairs) + 1].source = latest
      /\ DOMAIN repairs = 1..Len(repairs) /\ DOMAIN repairs' = 1..(Len(repairs) + 1)
  BY <1>0, <1>1, <1>2
<1>4. RowsTyped'
  <2>1. ASSUME NEW i \in DOMAIN repairs' PROVE repairs'[i].source <= Len(runs)
    <3>1. CASE i \in 1..Len(repairs)
      BY <1>0, <1>3, <3>1 DEF RowsTyped
    <3>2. CASE i = Len(repairs) + 1
      BY <1>0, <1>3, <3>2
    <3> QED
      BY <1>0, <1>3, <3>1, <3>2
  <2> QED
    BY <1>0, <1>3, <2>1 DEF RowsTyped, Runs
<1>5. JobsTyped'
  <2>1. repair \in [Workers -> 0..Len(repairs')]
    BY <1>0, <1>3 DEF Typed, Jobs, JobsTyped
  <2> QED
    BY <1>0, <2>1 DEF Typed, Jobs, JobsTyped, jobVars
<1>6. (\A v \in Workers : JobFits(v)') /\ FilesTyped'
  BY <1>0 DEF Typed, Jobs, JobFits, FilesTyped, jobVars, fileVars, Runs
<1>7. Roomy'
  <2>1. Starting' = Starting
    BY <1>0 DEF Starting
  <2>2. Queued' \subseteq Queued \cup {Len(repairs) + 1}
    BY <1>0, <1>3 DEF Queued, Unended
  <2>3. /\ IsFiniteSet(Queued \cup {Len(repairs) + 1})
        /\ Cardinality(Queued \cup {Len(repairs) + 1}) <= Cardinality(Queued) + 1
        /\ Cardinality(Queued \cup {Len(repairs) + 1}) \in Nat
    <3>1. IsFiniteSet(Queued) /\ Cardinality(Queued) \in Nat
      BY <1>0, Finite
    <3>2. /\ IsFiniteSet(Queued \cup {Len(repairs) + 1})
          /\ \/ Cardinality(Queued \cup {Len(repairs) + 1}) = Cardinality(Queued)
             \/ Cardinality(Queued \cup {Len(repairs) + 1}) = Cardinality(Queued) + 1
      BY <3>1, FS_AddElement
    <3> QED
      BY <3>1, <3>2
  <2>4. Cardinality(Queued') <= Cardinality(Queued) + 1 /\ Cardinality(Queued') \in Nat
    <3>1. /\ Cardinality(Queued') <= Cardinality(Queued \cup {Len(repairs) + 1})
          /\ IsFiniteSet(Queued')
      BY <2>2, <2>3, FS_Subset
    <3>2. Cardinality(Queued') \in Nat
      BY <3>1, FS_CardinalityType
    <3> QED
      BY <1>0, <2>3, <3>1, <3>2, Finite
  <2> QED
    BY <1>0, <1>3, <2>1, <2>4, Finite, PipelineAssumption DEF Roomy, Room
<1> QED
  BY <1>4, <1>5, <1>6, <1>7 DEF Typed, Jobs

(* A repair that is taken was queued: its room goes to the worker.         *)
LEMMA Takes ==
  ASSUME Typed, LockTyped', NEW w \in Workers, NEW i \in Queued, TakeRepair(w, i)
  PROVE  Typed'
<1>0. /\ RowsTyped /\ Roomy /\ Len(runs) \in Nat /\ Len(repairs) \in Nat
      /\ repairs \in Seq(RepairRow) /\ UNCHANGED <<runs, lost, faults>>
      /\ repairs' = [repairs EXCEPT ![i].status = "running"]
      /\ Call(w, repairs[i].source, Production, i)
  BY Finite DEF Typed, Jobs, RowsTyped, TakeRepair, Call
<1>1. i \in 1..Len(repairs) /\ repairs[i] \in RepairRow
  BY <1>0 DEF Queued, Unended
<1>2. repairs[i].source \in 0..Len(runs)
  BY <1>0, <1>1 DEF RepairRow, RowsTyped
<1>3. [repairs[i] EXCEPT !.status = "running"] \in RepairRow
  BY <1>1 DEF RepairRow
<1>4. /\ repairs' \in Seq(RepairRow) /\ Len(repairs') = Len(repairs)
      /\ DOMAIN repairs' = DOMAIN repairs
      /\ \A j \in DOMAIN repairs : j # i => repairs'[j] = repairs[j]
      /\ repairs'[i] = [repairs[i] EXCEPT !.status = "running"]
  BY <1>0, <1>1, <1>3
<1>5. repairs'[i].source = repairs[i].source /\ repairs'[i].status = "running"
  BY <1>1, <1>4 DEF RepairRow
<1>6. RowsTyped'
  <2>1. \A j \in DOMAIN repairs' : repairs'[j].source <= Len(runs)
    BY <1>0, <1>4, <1>5 DEF RowsTyped
  <2> QED
    BY <1>0, <1>4, <2>1 DEF RowsTyped, Runs
<1>7. /\ JobsTyped' /\ (\A v \in Workers : JobFits(v)') /\ FilesTyped'
      /\ Cardinality(Starting') = Cardinality(Starting) + 1
  BY <1>0, <1>1, <1>2, <1>4, Calls, PipelineAssumption
<1>8. Queued' = Queued \ {i}
  BY <1>0, <1>4, <1>5 DEF Queued, Unended
<1>9. Cardinality(Queued') = Cardinality(Queued) - 1
  BY <1>8, Finite, FS_RemoveElement DEF Typed, Jobs
<1>10. Roomy'
  BY <1>0, <1>4, <1>7, <1>9, Finite, PipelineAssumption DEF Roomy
<1> QED
  BY <1>6, <1>7, <1>10 DEF Typed, Jobs

(* Reports written by nobody that is in a pipeline.                        *)
LEMMA Others ==
  ASSUME Typed, LockTyped', (\E o \in orphans : OrphanWrites(o)) \/ (\E f \in Report : Edit(f))
  PROVE  Typed'
<1>a. /\ RowsTyped /\ FilesTyped /\ Roomy /\ Len(runs) \in Nat /\ Runs = 1..Len(runs)
  BY Finite DEF Typed, Jobs, RowsTyped, Runs
<1>b. /\ UNCHANGED <<pc, stage, jobVars, runs, repairs, lost>> /\ orphans' \subseteq orphans
      /\ UNCHANGED faults \/ (faults < MaxFaults /\ faults' = faults + 1)
  BY DEF OrphanWrites, Edit
<1>1. \E f \in Report, text \in Texts :
        Written(f, text, Nobody) /\ foreign' = foreign \cup {f}
  <2>1. ASSUME NEW o \in orphans, OrphanWrites(o) PROVE \E f \in Report, text \in Texts :
                                                   Written(f, text, Nobody) /\ foreign' = foreign \cup {f}
    <3>1. PICK whole \in BOOLEAN :
            Written(o.file, Text(o.by, whole), Nobody) /\ foreign' = foreign \cup {o.file}
      BY <2>1 DEF OrphanWrites
    <3>2. o.file \in Report /\ o.by \in Runs
      BY <1>a, <1>b DEF FilesTyped
    <3>3. o.by \in 1..(MaxRuns + MaxFaults)
      <4>1. Len(runs) <= MaxRuns
        BY <1>a, <1>b, Finite, PipelineAssumption DEF Roomy
      <4> QED
        BY <1>a, <1>b, <3>2, <4>1, PipelineAssumption
    <3>4. Text(o.by, whole) \in Texts
      BY <3>1, <3>3 DEF Text, Texts
    <3> QED
      BY <3>1, <3>2, <3>4
  <2>2. ASSUME NEW g \in Report, Edit(g)
        PROVE \E f \in Report, text \in Texts : Written(f, text, Nobody) /\ foreign' = foreign \cup {f}
    <3>1. Written(g, Text(ByHand(faults'), TRUE), Nobody) /\ foreign' = foreign \cup {g}
          /\ faults < MaxFaults /\ faults' = faults + 1
      BY <2>2 DEF Edit
    <3>2. ByHand(faults') \in 1..(MaxRuns + MaxFaults)
      BY <1>a, <1>b, <3>1, PipelineAssumption DEF ByHand, Roomy
    <3>3. Text(ByHand(faults'), TRUE) \in Texts
      BY <3>2 DEF Text, Texts
    <3> QED
      BY <3>1, <3>3
  <2> QED
    BY <2>1, <2>2
<1>4. PICK f \in Report, text \in Texts :
        Written(f, text, Nobody) /\ foreign' = foreign \cup {f}
  BY <1>1
<1>2. FilesTyped'
  BY <1>a, <1>b, <1>4, WrittenTyped DEF FilesTyped, Runs
<1>3. RowsTyped' /\ JobsTyped' /\ \A v \in Workers : JobFits(v)'
  BY <1>a, <1>b DEF Typed, Jobs, RowsTyped, JobsTyped, JobFits, jobVars, Runs
<1> QED
  BY <1>a, <1>b, <1>2, <1>3, Kept

(* A kill: every worker of the process forgets its job.                    *)
LEMMA Crashes ==
  ASSUME Typed, LockTyped', NEW p \in Procs, Crash(p)
  PROVE  Typed'
<1> DEFINE died == Died(p)
<1>0. /\ JobsTyped /\ RowsTyped /\ FilesTyped /\ Len(runs) \in Nat /\ Len(repairs) \in Nat
      /\ Runs = 1..Len(runs) /\ DOMAIN repairs = 1..Len(repairs)
      /\ "end" \in Stages /\ NoPlan \in ProofSets
  BY Finite DEF Typed, Jobs, RowsTyped, Runs, Stages, Order, NoPlan, ProofSets
<1>1. /\ stage' = [w \in Workers |-> IF w \in died THEN "end" ELSE stage[w]]
      /\ run' = [w \in Workers |-> IF w \in died THEN 0 ELSE run[w]]
      /\ parent' = [w \in Workers |-> IF w \in died THEN 0 ELSE parent[w]]
      /\ steps' = [w \in Workers |-> IF w \in died THEN {} ELSE steps[w]]
      /\ plan' = [w \in Workers |-> IF w \in died THEN NoPlan ELSE plan[w]]
      /\ blank' = [w \in Workers |-> blank[w] /\ w \notin died]
      /\ repair' = [w \in Workers |-> IF w \in died THEN 0 ELSE repair[w]]
      /\ pc' = [w \in Workers |-> IF w \in died THEN "idle" ELSE pc[w]]
      /\ raced' = [w \in Workers |-> IF w \in died THEN {} ELSE raced[w]]
      /\ UNCHANGED <<report, foreign, runs, repairs>>
      /\ faults < MaxFaults /\ faults' = faults + 1
      /\ lost' = lost \cup {<<"run", run[w]>> : w \in {v \in died : run[v] # 0}}
                      \cup {<<"repair", i>> : i \in IF p = "dashboard" THEN Unended ELSE {}}
      /\ \E left \in SUBSET Children(p) : orphans' = orphans \cup left
  BY DEF Crash
<1>2. died \subseteq Workers
  BY DEF Died
<1>3. \A o \in Children(p) : o.file \in Report /\ o.by \in Runs
  <2> SUFFICES ASSUME NEW w \in died, pc[w] \in {"pass", "write"}
               PROVE  Target(w) \in Report /\ run[w] \in Runs
    BY DEF Children
  <2> QED
    BY <1>2, PassWrites
<1> HIDE DEF died
<1>4. RowsTyped'
  BY <1>0, <1>1 DEF RowsTyped, Runs
<1>5. /\ stage' \in [Workers -> Stages] /\ run' \in [Workers -> 0..Len(runs)]
      /\ parent' \in [Workers -> 0..Len(runs)] /\ repair' \in [Workers -> 0..Len(repairs)]
  BY <1>0, <1>1 DEF JobsTyped
<1>6. /\ steps' \in [Workers -> SUBSET Steps] /\ plan' \in [Workers -> ProofSets]
      /\ blank' \in [Workers -> BOOLEAN]
  BY <1>0, <1>1 DEF JobsTyped
<1>7. JobsTyped'
  BY <1>1, <1>5, <1>6 DEF JobsTyped
<1>8. \A w \in Workers : JobFits(w)'
  BY <1>1 DEF Typed, Jobs, JobFits
<1>9. FilesTyped'
  BY <1>0, <1>1, <1>3 DEF FilesTyped, Runs
<1>10. /\ lost \subseteq lost'
       /\ lost' \subseteq lost \cup {"run"} \X (1..Len(runs)) \cup {"repair"} \X (1..Len(repairs))
  <2> DEFINE R == {"run"} \X (1..Len(runs))
             S == {"repair"} \X (1..Len(repairs))
  <2>1. {<<"run", run[w]>> : w \in {v \in died : run[v] # 0}} \subseteq R
    BY <1>0, <1>2 DEF JobsTyped
  <2>2. {<<"repair", i>> : i \in IF p = "dashboard" THEN Unended ELSE {}} \subseteq S
    BY <1>0 DEF Unended
  <2> HIDE DEF R, S
  <2>3. lost \subseteq lost' /\ lost' \subseteq lost \cup R \cup S
    BY <1>1, <2>1, <2>2
  <2> QED
    BY <2>3 DEF R, S
<1>11. \A w \in Workers : pc'[w] \in {"open", "flock", "mark"} => pc[w] \in {"open", "flock", "mark"}
  BY <1>1
<1> QED
  BY <1>1, <1>4, <1>7, <1>8, <1>9, <1>10, <1>11, Kept

LEMMA NextTyped ==
  ASSUME LockInv, Typed, [Next]_vars
  PROVE  Typed'
<1>0. LockTyped'
  BY NextLock DEF LockInv
<1>1. CASE UNCHANGED vars
  BY <1>0, <1>1 DEF vars, jobVars, fileVars, lockVars, Typed, Jobs, RowsTyped, JobsTyped,
     JobFits, FilesTyped, Roomy, Runs, Starting, Queued, Unended
<1>2. ASSUME NEW w \in Workers, Step(w) PROVE Typed'
  <2>1. CASE Open(w) \/ Flock(w) \/ Unlock(w) \/ RunPass(w)
    BY <1>0, <2>1, LockSteps
  <2>2. CASE ReadOwner(w) /\ NamesMe(w)
    BY <1>0, <2>2, LockSteps
  <2>3. CASE Refused(w) \/ (ReadOwner(w) /\ ~ NamesMe(w)) \/ Unlink(w)
    BY <1>0, <2>3, Returns DEF Refused, ReadOwner, Unlink
  <2>4. CASE Mark(w)
    BY <1>0, <2>4, Marks
  <2>5. CASE Simple(w) \/ Reuse(w)
    BY <1>0, <2>5, QuietStages
  <2>6. CASE OpenReport(w) \/ PassDone(w)
    BY <1>0, <2>6, Passing
  <2>7. CASE Validate(w) \/ Finish(w)
    BY <1>0, <2>7, Ends
  <2>8. CASE Answer(w)
    BY <1>0, <2>8, RepairEnds
  <2> QED
    BY <1>2, <2>1, <2>2, <2>3, <2>4, <2>5, <2>6, <2>7, <2>8 DEF Step
<1>3. ASSUME NEW w \in Workers, Fault(w) PROVE Typed'
  BY <1>0, <1>3, Ends, RepairEnds DEF Fault
<1>4. ASSUME NEW w \in Workers, Start(w) PROVE Typed'
  BY <1>0, <1>4, Starts
<1>5. ASSUME NEW retry \in BOOLEAN, QueueRepair(retry) PROVE Typed'
  BY <1>0, <1>5, Queues
<1>6. ASSUME NEW w \in Threads, NEW i \in Queued, TakeRepair(w, i) PROVE Typed'
  BY <1>0, <1>6, Takes DEF Workers
<1>7. ASSUME NEW p \in Procs, Crash(p) PROVE Typed'
  BY <1>0, <1>7, Crashes
<1>8. CASE (\E o \in orphans : OrphanWrites(o)) \/ (\E f \in Report : Edit(f))
  BY <1>0, <1>8, Others
<1> QED
  BY <1>1, <1>2, <1>3, <1>4, <1>5, <1>6, <1>7, <1>8 DEF Next

(* Every reachable state is well typed.  What that takes is that a stage   *)
(* always belongs to a worker whose run has a row (_execute_daily_pipeline *)
(* runs them with the id that create_run returned), that a report is never *)
(* credited to a run without a row, and that a run never retries a run     *)
(* that was started after it.                                              *)
THEOREM TypeCorrect == Spec => []TypeOK
<1>1. Init => LockInv /\ Typed
  BY InitLock, InitTyped
<1>2. (LockInv /\ Typed) /\ [Next]_vars => (LockInv /\ Typed)'
  BY NextLock, NextTyped
<1> QED
  BY <1>1, <1>2, TypedIsTypeOK, PTL DEF Spec

=============================================================================
