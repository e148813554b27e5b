-------------------------- MODULE JobPipelineProofs --------------------------
(***************************************************************************)
(* Theorems about JobPipeline.  The step lemmas speak of PipelineNext and  *)
(* not of PipelineSpec, so that the proofs of the composed system use them *)
(* as well.                                                                *)
(***************************************************************************)
EXTENDS JobPipeline, SequenceTheorems, FiniteSetTheorems, TLAPS

(***************************************************************************)
(* What the queue and the workers refer to are accepted jobs.              *)
(***************************************************************************)
RefersToJobs ==
    /\ enqueuing \subseteq DOMAIN jobs
    /\ \A j \in JobIds : queue[j] # "absent" => j \in DOMAIN jobs
    /\ \A w \in Workers : exec[w].job # 0 => exec[w].job \in DOMAIN jobs

Shape == PipelineTypeOK /\ RefersToJobs

(***************************************************************************)
(* Setting the status of one job keeps everything else about the rows.     *)
(***************************************************************************)
LEMMA StatusUpdate ==
    ASSUME NEW rows \in Seq(JobRows), NEW j \in DOMAIN rows,
           NEW status \in JobStatuses,
           NEW rowsNew, rowsNew = [rows EXCEPT ![j].status = status]
    PROVE  /\ rowsNew \in Seq(JobRows)
           /\ Len(rowsNew) = Len(rows)
           /\ DOMAIN rowsNew = DOMAIN rows
           /\ \A i \in DOMAIN rows :
                 /\ rowsNew[i].kind = rows[i].kind
                 /\ rowsNew[i].pre = rows[i].pre
                 /\ rowsNew[i].key = rows[i].key
                 /\ rowsNew[i].status = IF i = j THEN status ELSE rows[i].status
<1>1. rows[j] \in JobRows /\ j \in 1..Len(rows)
  BY ElementOfSeq
<1> DEFINE e == [rows[j] EXCEPT !.status = status]
<1>2. e \in JobRows
  BY <1>1 DEF JobRows, JobStatuses
<1>3. rowsNew = [rows EXCEPT ![j] = e]
  OBVIOUS
<1>4. /\ rowsNew \in Seq(JobRows)
      /\ Len(rowsNew) = Len(rows)
      /\ \A i \in 1..Len(rows) : rowsNew[i] = IF i = j THEN e ELSE rows[i]
  <2> HIDE DEF e
  <2> QED
    BY <1>1, <1>2, <1>3, ExceptSeq
<1>5. /\ e.kind = rows[j].kind /\ e.pre = rows[j].pre /\ e.key = rows[j].key
      /\ e.status = status
  BY <1>1 DEF JobRows
<1>6. DOMAIN rowsNew = DOMAIN rows /\ DOMAIN rows = 1..Len(rows)
  BY <1>4
<1> QED
  <2> HIDE DEF e
  <2> QED
    BY <1>4, <1>5, <1>6

(***************************************************************************)
(* Accepting a job adds one row and leaves the others alone.               *)
(***************************************************************************)
LEMMA RowAppended ==
    ASSUME NEW rows \in Seq(JobRows), NEW row \in JobRows,
           NEW rowsNew, rowsNew = Append(rows, row)
    PROVE  /\ rowsNew \in Seq(JobRows)
           /\ Len(rowsNew) = Len(rows) + 1
           /\ DOMAIN rowsNew = DOMAIN rows \cup {Len(rows) + 1}
           /\ Len(rows) + 1 \notin DOMAIN rows
           /\ rowsNew[Len(rows) + 1] = row
           /\ \A i \in DOMAIN rows : rowsNew[i] = rows[i]
<1>1. Len(rows) \in Nat /\ DOMAIN rows = 1..Len(rows)
  OBVIOUS
<1>2. /\ rowsNew \in Seq(JobRows)
      /\ Len(rowsNew) = Len(rows) + 1
      /\ \A i \in 1..Len(rows) : rowsNew[i] = rows[i]
      /\ rowsNew[Len(rows) + 1] = row
  BY AppendProperties
<1>3. DOMAIN rowsNew = 1..(Len(rows) + 1)
  BY <1>2
<1> QED
  BY <1>1, <1>2, <1>3

-----------------------------------------------------------------------------
(* Every step of the pipeline keeps the shape *)

(***************************************************************************)
(* Both services accept rows of the right form.                            *)
(***************************************************************************)
LEMMA AcceptedRow ==
    ASSUME StoryTypeOK, Shape,
           \/ \E k \in Keys : StartResearch(k)
           \/ \E k \in Keys, mode \in AssemblyModes : StartAssembly(k, mode)
    PROVE  \E row \in JobRows :
              /\ Accept(row, BusyState(row.kind))
              /\ row.status = "pending"
              /\ row.pre = workflowState
              /\ row.kind = "assembly" => draftExists
              /\ row.source \in {0, newestResearch}
              /\ ActiveJobs = {} /\ JobsOfKey(row.kind, row.key) = {}
              /\ Len(jobs) < MaxJobs
<1>1. ASSUME NEW k \in Keys, StartResearch(k)
      PROVE  \E row \in JobRows :
              /\ Accept(row, BusyState(row.kind))
              /\ row.status = "pending"
              /\ row.pre = workflowState
              /\ row.kind = "assembly" => draftExists
              /\ row.source \in {0, newestResearch}
              /\ ActiveJobs = {} /\ JobsOfKey(row.kind, row.key) = {}
              /\ Len(jobs) < MaxJobs
  <2> DEFINE row == [kind |-> "research", mode |-> "none", key |-> k,
                     status |-> "pending", pre |-> workflowState,
                     source |-> 0, target |-> NoTarget]
  <2>1. row \in JobRows
    BY <1>1 DEF StartResearch, JobRows, JobStatuses, ALLOWED_PRE_RESEARCH,
                ALLOWED_ASSEMBLE, Targets, NoTarget
  <2>2. /\ Accept(row, BusyState(row.kind)) /\ Len(jobs) < MaxJobs
        /\ ActiveJobs = {} /\ JobsOfKey(row.kind, row.key) = {}
    BY <1>1 DEF StartResearch, BusyState
  <2> QED
    BY <2>1, <2>2
<1>2. ASSUME NEW k \in Keys, NEW mode \in AssemblyModes, StartAssembly(k, mode)
      PROVE  \E row \in JobRows :
              /\ Accept(row, BusyState(row.kind))
              /\ row.status = "pending"
              /\ row.pre = workflowState
              /\ row.kind = "assembly" => draftExists
              /\ row.source \in {0, newestResearch}
              /\ ActiveJobs = {} /\ JobsOfKey(row.kind, row.key) = {}
              /\ Len(jobs) < MaxJobs
  <2> DEFINE src == IF mode = "scoped_section_regeneration" THEN 0 ELSE SourceResearch
             row(t) == [kind |-> "assembly", mode |-> mode, key |-> k,
                        status |-> "pending", pre |-> workflowState,
                        source |-> src, target |-> t]
  <2>1. PICK t \in EventTargets(mode) : Accept(row(t), "assembling_draft")
    BY <1>2 DEF StartAssembly
  <2>2. t \in Targets
    <3>1. regenerations \in Nat
      BY DEF Shape, PipelineTypeOK
    <3>2. CASE mode = "scoped_event_regeneration"
      BY <3>1, <3>2 DEF EventTargets, Targets
    <3>3. CASE mode # "scoped_event_regeneration"
      <4>1. EventTargets(mode) = {NoTarget}
        BY <3>3 DEF EventTargets
      <4>2. NoTarget \in Targets
        BY DEF NoTarget, Targets
      <4> QED
        BY <4>1, <4>2
    <3> QED
      BY <3>2, <3>3
  <2>3. src \in Nat /\ src \in {0, newestResearch}
    BY DEF SourceResearch, Shape, PipelineTypeOK
  <2>4. workflowState \in ALLOWED_ASSEMBLE /\ draftExists
    BY <1>2 DEF StartAssembly
  <2>5. row(t) \in JobRows
    BY <2>2, <2>3, <2>4 DEF JobRows, JobStatuses
  <2>6. Accept(row(t), BusyState(row(t).kind))
    BY <2>1 DEF BusyState
  <2>7. /\ ActiveJobs = {} /\ Len(jobs) < MaxJobs
        /\ JobsOfKey(row(t).kind, row(t).key) = {}
    BY <1>2 DEF StartAssembly
  <2> HIDE DEF src
  <2> QED
    BY <2>3, <2>4, <2>5, <2>6, <2>7
<1> QED
  BY <1>1, <1>2

LEMMA AcceptKeepsShape ==
    ASSUME StoryTypeOK, Shape, NEW row \in JobRows,
           Len(jobs) < MaxJobs, Accept(row, BusyState(row.kind))
    PROVE  StoryTypeOK' /\ Shape'
<1> USE DEF Shape
<1>1. /\ jobs' \in Seq(JobRows)
      /\ Len(jobs') = Len(jobs) + 1
      /\ DOMAIN jobs' = DOMAIN jobs \cup {Len(jobs) + 1}
  BY RowAppended DEF Accept, PipelineTypeOK
<1>2. Len(jobs) \in Nat /\ Len(jobs) + 1 \in JobIds /\ Len(jobs') <= MaxJobs
  BY <1>1, PipelineAssumption DEF PipelineTypeOK, JobIds
<1>3. PipelineTypeOK'
  BY <1>1, <1>2 DEF PipelineTypeOK, Accept
<1>4. RefersToJobs'
  BY <1>1 DEF RefersToJobs, Accept
<1>5. BusyState(row.kind) \in WorkflowStates
  BY DEF BusyState, WorkflowStates
<1>6. StoryTypeOK'
  BY <1>5 DEF StoryTypeOK, Accept, MoveStory
<1> QED
  BY <1>3, <1>4, <1>6

LEMMA ReleaseKeepsShape ==
    ASSUME StoryTypeOK, Shape, NEW w \in Workers, exec[w].job # 0, Release(w)
    PROVE  /\ exec' \in [Workers -> [job : Nat, wfDuring : WorkflowStates \cup {"none"}]]
           /\ exec' = [exec EXCEPT ![w] = Idle]
           /\ queue' \in [JobIds -> {"absent", "waiting", "done"} \cup Workers]
           /\ \A j \in JobIds : queue'[j] # "absent" => j \in DOMAIN jobs
           /\ \A v \in Workers : exec'[v].job # 0 => exec'[v].job \in DOMAIN jobs
<1>1. Idle \in [job : Nat, wfDuring : WorkflowStates \cup {"none"}] /\ Idle.job = 0
  BY DEF Idle
<1>2. /\ exec' \in [Workers -> [job : Nat, wfDuring : WorkflowStates \cup {"none"}]]
      /\ \A v \in Workers : exec'[v] = IF v = w THEN Idle ELSE exec[v]
  BY <1>1 DEF Release, Shape, PipelineTypeOK
<1>3. \A v \in Workers : exec'[v].job # 0 => exec'[v].job \in DOMAIN jobs
  BY <1>1, <1>2 DEF Shape, RefersToJobs
<1>4. queue' \in [JobIds -> {"absent", "waiting", "done"} \cup Workers]
  BY DEF Release, Shape, PipelineTypeOK
<1>5. ASSUME NEW j \in JobIds, queue'[j] # "absent"
      PROVE  j \in DOMAIN jobs
  <2>1. queue'[j] = IF j = exec[w].job /\ queue[j] = w THEN "done" ELSE queue[j]
    BY <1>5 DEF Release
  <2>2. CASE j = exec[w].job
    BY <2>2 DEF Shape, RefersToJobs
  <2>3. CASE j # exec[w].job
    BY <2>1, <2>3, <1>5 DEF Shape, RefersToJobs
  <2> QED
    BY <2>2, <2>3
<1> QED
  BY <1>2, <1>3, <1>4, <1>5 DEF Release

LEMMA FaultCounted ==
    ASSUME NEW f \in [api : Nat, throw : Nat, crash : Nat, lapse : Nat]
    PROVE  /\ [f EXCEPT !.api = @ + 1] \in [api : Nat, throw : Nat, crash : Nat, lapse : Nat]
           /\ [f EXCEPT !.throw = @ + 1] \in [api : Nat, throw : Nat, crash : Nat, lapse : Nat]
           /\ [f EXCEPT !.crash = @ + 1] \in [api : Nat, throw : Nat, crash : Nat, lapse : Nat]
           /\ [f EXCEPT !.lapse = @ + 1] \in [api : Nat, throw : Nat, crash : Nat, lapse : Nat]
  OBVIOUS

(***************************************************************************)
(* The three ways a job ends differ in what they write.                    *)
(***************************************************************************)
LEMMA JobEnds ==
    ASSUME StoryTypeOK, Shape, NEW w \in Workers,
           FinishResearch(w) \/ FinishAssembly(w) \/ FailAssembly(w)
    PROVE  /\ exec[w].job \in DOMAIN jobs
           /\ \E status \in {"succeeded", "failed"},
                 to \in {jobs[exec[w].job].pre, "ready_for_edit"} :
                 /\ FinishJob(w, status, to)
                 /\ to # jobs[exec[w].job].pre => draftExists
                 /\ newestResearch' \in {newestResearch, exec[w].job}
           /\ regenerations' \in {regenerations, regenerations + 1}
           /\ verdict' \in Verdicts
           /\ jobs[exec[w].job].pre \in ALLOWED_ASSEMBLE
<1>1. exec[w].job \in DOMAIN jobs
  BY DEF FinishResearch, FinishAssembly, FailAssembly, Shape, RefersToJobs
<1>2. jobs[exec[w].job] \in JobRows
  BY <1>1, ElementOfSeq DEF Shape, PipelineTypeOK
<1>3. jobs[exec[w].job].pre \in ALLOWED_ASSEMBLE
  BY <1>2 DEF JobRows
<1>4. verdict \in Verdicts /\ {"warn", "block"} \subseteq Verdicts
  BY DEF StoryTypeOK, Verdicts
<1>5. CASE FinishResearch(w)
  BY <1>1, <1>3, <1>4, <1>5 DEF FinishResearch
<1>6. CASE FinishAssembly(w)
  BY <1>1, <1>3, <1>4, <1>6 DEF FinishAssembly, CanAssemble
<1>7. CASE FailAssembly(w)
  BY <1>1, <1>3, <1>4, <1>7 DEF FailAssembly
<1> QED
  BY <1>5, <1>6, <1>7

LEMMA FinishKeepsShape ==
    ASSUME StoryTypeOK, Shape, NEW w \in Workers,
           FinishResearch(w) \/ FinishAssembly(w) \/ FailAssembly(w)
    PROVE  StoryTypeOK' /\ Shape'
<1>1. exec[w].job \in DOMAIN jobs
  BY JobEnds
<1>2. PICK status \in {"succeeded", "failed"},
           to \in {jobs[exec[w].job].pre, "ready_for_edit"} :
              /\ FinishJob(w, status, to)
              /\ newestResearch' \in {newestResearch, exec[w].job}
  BY JobEnds
<1>3. /\ jobs' \in Seq(JobRows)
      /\ Len(jobs') = Len(jobs)
      /\ DOMAIN jobs' = DOMAIN jobs
  <2>1. jobs \in Seq(JobRows)
    BY DEF Shape, PipelineTypeOK
  <2>2. jobs' = [jobs EXCEPT ![exec[w].job].status = status]
    BY <1>2 DEF FinishJob
  <2>3. status \in JobStatuses
    BY DEF JobStatuses
  <2> QED
    BY <1>1, <2>1, <2>2, <2>3, StatusUpdate
<1>4. /\ exec' \in [Workers -> [job : Nat, wfDuring : WorkflowStates \cup {"none"}]]
      /\ queue' \in [JobIds -> {"absent", "waiting", "done"} \cup Workers]
      /\ \A j \in JobIds : queue'[j] # "absent" => j \in DOMAIN jobs
      /\ \A v \in Workers : exec'[v].job # 0 => exec'[v].job \in DOMAIN jobs
  <2>1. exec[w].job # 0
    BY DEF FinishResearch, FinishAssembly, FailAssembly
  <2> QED
    BY <1>2, <2>1, ReleaseKeepsShape DEF FinishJob
<1>5. newestResearch' \in Nat /\ regenerations' \in Nat
  BY <1>1, <1>2, JobEnds DEF Shape, PipelineTypeOK
<1>6. PipelineTypeOK'
  BY <1>2, <1>3, <1>4, <1>5 DEF FinishJob, Shape, PipelineTypeOK
<1>7. RefersToJobs'
  BY <1>2, <1>3, <1>4 DEF FinishJob, Shape, RefersToJobs
<1>8. to \in WorkflowStates /\ exec[w].wfDuring \in WorkflowStates \cup {"none"}
  BY <1>2, JobEnds DEF WorkflowStates, ALLOWED_ASSEMBLE, Shape, PipelineTypeOK
<1>9. StoryTypeOK'
  BY <1>2, <1>8, JobEnds DEF StoryTypeOK, FinishJob, MoveStory
<1> QED
  BY <1>6, <1>7, <1>9 DEF Shape

LEMMA StartKeepsShape ==
    ASSUME StoryTypeOK, Shape, NEW w \in Workers, NEW j \in JobIds, WorkerStart(w, j)
    PROVE  StoryTypeOK' /\ Shape'
<1>1. StoryTypeOK'
  BY DEF WorkerStart, StoryTypeOK, storyVars
<1>2. j \in DOMAIN jobs /\ j \in Nat
  BY DEF WorkerStart, Shape, RefersToJobs, JobIds
<1>3. CASE Active(j)
  <2>1. [job |-> j, wfDuring |-> workflowState]
            \in [job : Nat, wfDuring : WorkflowStates \cup {"none"}]
    BY <1>2 DEF StoryTypeOK
  <2>2. /\ queue' = [queue EXCEPT ![j] = w]
        /\ exec' = [exec EXCEPT ![w] = [job |-> j, wfDuring |-> workflowState]]
    BY <1>3 DEF WorkerStart
  <2>3. PipelineTypeOK'
    BY <2>1, <2>2 DEF WorkerStart, Shape, PipelineTypeOK
  <2>4. RefersToJobs'
    BY <1>2, <2>2 DEF WorkerStart, Shape, PipelineTypeOK, RefersToJobs
  <2> QED
    BY <1>1, <2>3, <2>4 DEF Shape
<1>4. CASE ~Active(j)
  <2>1. queue' = [queue EXCEPT ![j] = "done"] /\ exec' = exec
    BY <1>4 DEF WorkerStart
  <2>2. PipelineTypeOK'
    BY <2>1 DEF WorkerStart, Shape, PipelineTypeOK
  <2>3. RefersToJobs'
    BY <1>2, <2>1 DEF WorkerStart, Shape, PipelineTypeOK, RefersToJobs
  <2> QED
    BY <1>1, <2>2, <2>3 DEF Shape
<1> QED
  BY <1>3, <1>4

LEMMA FaultKeepsShape ==
    ASSUME StoryTypeOK, Shape, NEW w \in Workers, WorkerThrow(w) \/ WorkerCrash(w)
    PROVE  StoryTypeOK' /\ Shape'
<1>1. StoryTypeOK'
  BY DEF WorkerThrow, WorkerCrash, StoryTypeOK, storyVars
<1>2. CASE WorkerThrow(w)
  <2>1. faults' \in [api : Nat, throw : Nat, crash : Nat, lapse : Nat]
    BY <1>2, FaultCounted DEF WorkerThrow, Shape, PipelineTypeOK
  <2>2. CASE exec[w].job = 0
    <3>1. /\ exec' = [exec EXCEPT ![w] = Idle]
          /\ \A v \in Workers : exec'[v].job # 0 => exec[v].job # 0 /\ exec'[v] = exec[v]
      BY <1>2 DEF WorkerThrow, Release, Shape, PipelineTypeOK, Idle
    <3>2. queue' = queue
      <4>1. \A q \in JobIds : q # 0
        BY DEF JobIds
      <4> QED
        BY <1>2, <2>2, <4>1 DEF WorkerThrow, Release, Shape, PipelineTypeOK
    <3>3. Idle \in [job : Nat, wfDuring : WorkflowStates \cup {"none"}]
      BY DEF Idle
    <3> QED
      BY <1>1, <1>2, <2>1, <3>1, <3>2, <3>3
      DEF WorkerThrow, Shape, PipelineTypeOK, RefersToJobs
  <2>3. CASE exec[w].job # 0
    BY <1>1, <1>2, <2>1, <2>3, ReleaseKeepsShape
    DEF WorkerThrow, Shape, PipelineTypeOK, RefersToJobs
  <2> QED
    BY <2>2, <2>3
<1>3. CASE WorkerCrash(w)
  <2>1. faults' \in [api : Nat, throw : Nat, crash : Nat, lapse : Nat]
    BY <1>3, FaultCounted DEF WorkerCrash, Shape, PipelineTypeOK
  <2>2. Idle \in [job : Nat, wfDuring : WorkflowStates \cup {"none"}] /\ Idle.job = 0
    BY DEF Idle
  <2> QED
    BY <1>1, <1>3, <2>1, <2>2 DEF WorkerCrash, Shape, PipelineTypeOK, RefersToJobs
<1> QED
  BY <1>2, <1>3

LEMMA QueueKeepsShape ==
    ASSUME StoryTypeOK, Shape, NEW j \in JobIds,
           Enqueue(j) \/ CrashBeforeEnqueue(j) \/ StalledCheck(j) \/ LockLapse(j)
    PROVE  StoryTypeOK' /\ Shape'
<1>1. StoryTypeOK'
  BY DEF Enqueue, CrashBeforeEnqueue, StalledCheck, LockLapse, Redeliver,
         StoryTypeOK, storyVars
<1>2. CASE Enqueue(j)
  BY <1>1, <1>2 DEF Enqueue, Shape, PipelineTypeOK, RefersToJobs
<1>3. CASE CrashBeforeEnqueue(j)
  <2>1. faults' \in [api : Nat, throw : Nat, crash : Nat, lapse : Nat]
    BY <1>3, FaultCounted DEF CrashBeforeEnqueue, Shape, PipelineTypeOK
  <2> QED
    BY <1>1, <1>3, <2>1 DEF CrashBeforeEnqueue, Shape, PipelineTypeOK, RefersToJobs
<1>4. ASSUME Redeliver(j), queue[j] \in Workers,
             faults' \in [api : Nat, throw : Nat, crash : Nat, lapse : Nat]
      PROVE  Shape'
  <2>1. queue[j] # "absent"
    BY <1>4, PipelineAssumption
  <2>2. j \in DOMAIN jobs
    BY <2>1 DEF Shape, RefersToJobs
  <2>3. PipelineTypeOK'
    BY <1>4 DEF Redeliver, Shape, PipelineTypeOK
  <2>4. RefersToJobs'
    BY <1>4, <2>2 DEF Redeliver, Shape, PipelineTypeOK, RefersToJobs
  <2> QED
    BY <2>3, <2>4 DEF Shape
<1>5. CASE StalledCheck(j)
  BY <1>1, <1>4, <1>5 DEF StalledCheck, Shape, PipelineTypeOK
<1>6. CASE LockLapse(j)
  <2>1. faults' \in [api : Nat, throw : Nat, crash : Nat, lapse : Nat]
    BY <1>6, FaultCounted DEF LockLapse, Shape, PipelineTypeOK
  <2> QED
    BY <1>1, <1>4, <1>6, <2>1 DEF LockLapse
<1> QED
  BY <1>2, <1>3, <1>5, <1>6

LEMMA StepKeepsShape ==
    ASSUME StoryTypeOK, Shape, PipelineNext
    PROVE  StoryTypeOK' /\ Shape'
<1>1. CASE \/ \E k \in Keys : StartResearch(k)
           \/ \E k \in Keys, mode \in AssemblyModes : StartAssembly(k, mode)
  BY <1>1, AcceptedRow, AcceptKeepsShape
<1>2. CASE \E j \in JobIds : \/ Enqueue(j) \/ CrashBeforeEnqueue(j)
                             \/ StalledCheck(j) \/ LockLapse(j)
  BY <1>2, QueueKeepsShape
<1>3. CASE \E w \in Workers, j \in JobIds : WorkerStart(w, j)
  BY <1>3, StartKeepsShape
<1>4. CASE \E w \in Workers : FinishResearch(w) \/ FinishAssembly(w) \/ FailAssembly(w)
  BY <1>4, FinishKeepsShape
<1>5. CASE \E w \in Workers : WorkerThrow(w) \/ WorkerCrash(w)
  BY <1>5, FaultKeepsShape
<1> QED
  BY <1>1, <1>2, <1>3, <1>4, <1>5 DEF PipelineNext

LEMMA IdleHasShape == PipelineIdle => Shape
<1> SUFFICES ASSUME PipelineIdle PROVE Shape
  OBVIOUS
<1>1. jobs \in Seq(JobRows) /\ Len(jobs) = 0 /\ DOMAIN jobs = {}
  BY DEF PipelineIdle
<1>2. Idle \in [job : Nat, wfDuring : WorkflowStates \cup {"none"}] /\ Idle.job = 0
  BY DEF Idle
<1>3. PipelineTypeOK
  BY <1>1, <1>2, PipelineAssumption DEF PipelineIdle, PipelineTypeOK
<1>4. RefersToJobs
  BY <1>1, <1>2 DEF PipelineIdle, RefersToJobs
<1> QED
  BY <1>3, <1>4 DEF Shape

LEMMA AlwaysShaped == PipelineSpec => [](StoryTypeOK /\ Shape)
<1>1. PipelineInit => StoryTypeOK /\ Shape
  <2> SUFFICES ASSUME PipelineInit PROVE StoryTypeOK /\ Shape
    OBVIOUS
  <2>1. /\ workflowState \in WorkflowStates
        /\ transition \in [from : WorkflowStates \cup {"none"}, to : WorkflowStates]
    BY DEF PipelineInit, WorkflowStates
  <2>2. StoryTypeOK
    BY <2>1 DEF PipelineInit, StoryTypeOK, StoryStatuses, Verdicts
  <2>3. Shape
    BY IdleHasShape DEF PipelineInit
  <2> QED
    BY <2>2, <2>3
<1>2. StoryTypeOK /\ Shape /\ [PipelineNext]_<<storyVars, pipelineVars>>
        => StoryTypeOK' /\ Shape'
  <2> SUFFICES ASSUME StoryTypeOK, Shape, [PipelineNext]_<<storyVars, pipelineVars>>
               PROVE  StoryTypeOK' /\ Shape'
    OBVIOUS
  <2>1. CASE PipelineNext
    BY <2>1, StepKeepsShape
  <2>2. CASE UNCHANGED <<storyVars, pipelineVars>>
    BY <2>2 DEF storyVars, pipelineVars, StoryTypeOK, Shape, PipelineTypeOK, RefersToJobs
  <2> QED
    BY <2>1, <2>2
<1> QED
  BY <1>1, <1>2, PTL DEF PipelineSpec

(***************************************************************************)
(* The rows, the queue and the workers keep their types, and the queue and *)
(* the workers only ever refer to jobs that were accepted.                 *)
(***************************************************************************)
THEOREM TypeCorrect == PipelineSpec => [](PipelineTypeOK /\ RefersToJobs)
<1>1. StoryTypeOK /\ Shape => PipelineTypeOK /\ RefersToJobs
  BY DEF Shape
<1> QED
  BY <1>1, AlwaysShaped, PTL

-----------------------------------------------------------------------------
(* A pending job holds the story, while no queue lock lapses *)

(***************************************************************************)
(* The queue's entry of a job tells which worker executes it, so no other  *)
(* one does; and an executed job has not ended.                            *)
(***************************************************************************)
HolderRuns ==
    /\ \A j \in enqueuing : queue[j] = "absent"
    /\ \A w \in Workers :
          exec[w].job # 0 => queue[exec[w].job] = w /\ exec[w].job \in ActiveJobs

ActiveHoldsStory ==
    /\ \A i, j \in ActiveJobs : i = j
    /\ \A j \in ActiveJobs : workflowState = BusyState(jobs[j].kind)

LEMMA ActiveIsJobId ==
    ASSUME Shape, NEW j \in ActiveJobs
    PROVE  j \in JobIds
<1>1. j \in 1..Len(jobs) /\ Len(jobs) \in Nat /\ Len(jobs) <= MaxJobs
  BY DEF ActiveJobs, Shape, PipelineTypeOK
<1> QED
  BY <1>1, PipelineAssumption DEF JobIds

LEMMA AcceptHolds ==
    ASSUME StoryTypeOK, Shape, HolderRuns, ActiveHoldsStory,
           NEW row \in JobRows, Len(jobs) < MaxJobs, ActiveJobs = {},
           row.status = "pending", Accept(row, BusyState(row.kind))
    PROVE  HolderRuns' /\ ActiveHoldsStory'
<1> DEFINE n == Len(jobs) + 1
<1>1. /\ DOMAIN jobs' = DOMAIN jobs \cup {n}
      /\ n \notin DOMAIN jobs
      /\ jobs'[n] = row
      /\ \A i \in DOMAIN jobs : jobs'[i] = jobs[i]
  BY RowAppended DEF Accept, Shape, PipelineTypeOK
<1>2. n \in JobIds
  BY PipelineAssumption DEF JobIds, Shape, PipelineTypeOK
<1> HIDE DEF n
<1>3. ActiveJobs' = {n}
  BY <1>1 DEF ActiveJobs, Active
<1>4. ActiveHoldsStory'
  BY <1>1, <1>3 DEF ActiveHoldsStory, Accept, MoveStory
<1>5. \A w \in Workers : exec'[w].job = 0
  BY DEF HolderRuns, Accept
<1>6. queue[n] = "absent"
  BY <1>1, <1>2 DEF Shape, RefersToJobs
<1>7. enqueuing' = enqueuing \cup {n} /\ queue' = queue
  BY DEF Accept, n
<1>8. HolderRuns'
  BY <1>5, <1>6, <1>7 DEF HolderRuns
<1> QED
  BY <1>4, <1>8

LEMMA FinishHolds ==
    ASSUME StoryTypeOK, Shape, HolderRuns, ActiveHoldsStory, NEW w \in Workers,
           FinishResearch(w) \/ FinishAssembly(w) \/ FailAssembly(w)
    PROVE  HolderRuns' /\ ActiveHoldsStory'
<1> DEFINE j == exec[w].job
<1>1. j \in DOMAIN jobs /\ j # 0 /\ j \in JobIds
  <2>1. j \in DOMAIN jobs
    BY JobEnds
  <2>2. j \in 1..Len(jobs) /\ Len(jobs) \in Nat /\ Len(jobs) <= MaxJobs
    BY <2>1 DEF Shape, PipelineTypeOK
  <2> HIDE DEF j
  <2> QED
    BY <2>1, <2>2, PipelineAssumption DEF JobIds
<1>2. PICK status \in {"succeeded", "failed"},
           to \in {jobs[j].pre, "ready_for_edit"} : FinishJob(w, status, to)
  BY JobEnds
<1>3. /\ DOMAIN jobs' = DOMAIN jobs
      /\ \A i \in DOMAIN jobs : jobs'[i].status = IF i = j THEN status ELSE jobs[i].status
  BY <1>1, <1>2, StatusUpdate DEF FinishJob, Shape, PipelineTypeOK, JobStatuses
<1>4. ActiveJobs' = ActiveJobs \ {j}
  BY <1>1, <1>2, <1>3 DEF ActiveJobs, Active
<1>5. j \in ActiveJobs /\ queue[j] = w
  BY <1>1 DEF HolderRuns
<1>6. ActiveJobs' = {}
  BY <1>4, <1>5 DEF ActiveHoldsStory
<1>7. ASSUME NEW v \in Workers PROVE exec'[v].job = 0
  <2>1. exec' = [exec EXCEPT ![w] = Idle]
    BY <1>2 DEF FinishJob, Release
  <2>2. CASE v = w
    BY <2>1, <2>2 DEF Shape, PipelineTypeOK, Idle
  <2>3. CASE v # w
    <3>1. exec'[v] = exec[v]
      BY <2>1, <2>3 DEF Shape, PipelineTypeOK
    <3>2. exec[v].job # 0 => exec[v].job = j
      BY <1>5 DEF HolderRuns, ActiveHoldsStory
    <3> QED
      BY <1>5, <2>3, <3>1, <3>2 DEF HolderRuns
  <2> QED
    BY <2>2, <2>3
<1>8. ASSUME NEW i \in enqueuing' PROVE queue'[i] = "absent"
  <2>1. i \in enqueuing /\ i \in JobIds
    BY <1>2, <1>8 DEF FinishJob, Shape, PipelineTypeOK
  <2>2. queue[i] = "absent"
    BY <2>1 DEF HolderRuns
  <2>3. queue[i] # w
    BY <2>2, PipelineAssumption
  <2> QED
    BY <1>2, <2>1, <2>2, <2>3 DEF FinishJob, Release
<1>9. HolderRuns'
  BY <1>7, <1>8 DEF HolderRuns
<1>10. ActiveHoldsStory'
  BY <1>6 DEF ActiveHoldsStory
<1> QED
  BY <1>9, <1>10

LEMMA StartHolds ==
    ASSUME StoryTypeOK, Shape, HolderRuns, ActiveHoldsStory,
           NEW w \in Workers, NEW j \in JobIds, WorkerStart(w, j)
    PROVE  HolderRuns' /\ ActiveHoldsStory'
<1>1. jobs' = jobs /\ ActiveJobs' = ActiveJobs /\ workflowState' = workflowState
  BY DEF WorkerStart, storyVars, ActiveJobs, Active
<1>2. ActiveHoldsStory'
  BY <1>1 DEF ActiveHoldsStory
<1>3. queue[j] = "waiting" /\ enqueuing' = enqueuing
  BY DEF WorkerStart
<1>4. \A v \in Workers : exec[v].job # 0 => exec[v].job # j /\ exec[v].job \in JobIds
  BY <1>3, PipelineAssumption DEF HolderRuns, Shape, RefersToJobs, PipelineTypeOK, JobIds
<1>5. \A i \in enqueuing : i # j /\ i \in JobIds
  BY <1>3 DEF HolderRuns, Shape, PipelineTypeOK
<1>6. CASE Active(j)
  <2>1. /\ queue' = [queue EXCEPT ![j] = w]
        /\ exec' = [exec EXCEPT ![w] = [job |-> j, wfDuring |-> workflowState]]
    BY <1>6 DEF WorkerStart
  <2>2. j \in ActiveJobs
    BY <1>3, <1>6 DEF ActiveJobs, Shape, RefersToJobs
  <2>3. ASSUME NEW v \in Workers, exec'[v].job # 0
        PROVE  queue'[exec'[v].job] = v /\ exec'[v].job \in ActiveJobs
    <3>1. CASE v = w
      BY <2>1, <2>2, <3>1 DEF Shape, PipelineTypeOK
    <3>2. CASE v # w
      BY <1>4, <2>1, <2>3, <3>2 DEF HolderRuns, Shape, PipelineTypeOK
    <3> QED
      BY <3>1, <3>2
  <2>4. \A i \in enqueuing : queue'[i] = "absent"
    BY <1>5, <2>1 DEF HolderRuns, Shape, PipelineTypeOK
  <2> QED
    BY <1>1, <1>2, <1>3, <2>3, <2>4 DEF HolderRuns
<1>7. CASE ~Active(j)
  <2>1. queue' = [queue EXCEPT ![j] = "done"] /\ exec' = exec
    BY <1>7 DEF WorkerStart
  <2>2. HolderRuns'
    BY <1>1, <1>3, <1>4, <1>5, <2>1 DEF HolderRuns, Shape, PipelineTypeOK
  <2> QED
    BY <1>2, <2>2
<1> QED
  BY <1>6, <1>7

LEMMA FaultHolds ==
    ASSUME StoryTypeOK, Shape, HolderRuns, ActiveHoldsStory, NEW w \in Workers,
           WorkerThrow(w) \/ WorkerCrash(w)
    PROVE  HolderRuns' /\ ActiveHoldsStory'
<1>1. /\ jobs' = jobs /\ ActiveJobs' = ActiveJobs
      /\ workflowState' = workflowState /\ enqueuing' = enqueuing
      /\ exec' = [exec EXCEPT ![w] = Idle]
  BY DEF WorkerThrow, WorkerCrash, Release, storyVars, ActiveJobs, Active
<1>2. ActiveHoldsStory'
  BY <1>1 DEF ActiveHoldsStory
<1>3. \A v \in Workers : exec'[v].job # 0 => v # w /\ exec'[v] = exec[v]
  BY <1>1 DEF Shape, PipelineTypeOK, Idle
<1>4. \A i \in JobIds : queue[i] # w => queue'[i] = queue[i]
  BY DEF WorkerThrow, WorkerCrash, Release
<1>5. ASSUME NEW v \in Workers, exec'[v].job # 0
      PROVE  queue'[exec'[v].job] = v /\ exec'[v].job \in ActiveJobs
  <2>1. exec[v].job # 0 /\ v # w /\ exec'[v] = exec[v]
    BY <1>3, <1>5
  <2>2. queue[exec[v].job] = v /\ exec[v].job \in ActiveJobs
    BY <2>1 DEF HolderRuns
  <2>3. exec[v].job \in JobIds
    BY <2>2, ActiveIsJobId
  <2> QED
    BY <1>4, <2>1, <2>2, <2>3
<1>6. ASSUME NEW i \in enqueuing PROVE queue'[i] = "absent"
  <2>1. queue[i] = "absent" /\ i \in JobIds
    BY DEF HolderRuns, Shape, PipelineTypeOK
  <2>2. queue[i] # w
    BY <2>1, PipelineAssumption
  <2> QED
    BY <1>4, <2>1, <2>2
<1> QED
  BY <1>1, <1>2, <1>5, <1>6 DEF HolderRuns

(***************************************************************************)
(* A stalled entry has no worker executing its job, so handing it out      *)
(* again makes no second one.  This is where a lapsed lock would differ.   *)
(***************************************************************************)
LEMMA QueueHolds ==
    ASSUME StoryTypeOK, Shape, HolderRuns, ActiveHoldsStory, NEW j \in JobIds,
           Enqueue(j) \/ CrashBeforeEnqueue(j) \/ StalledCheck(j)
    PROVE  HolderRuns' /\ ActiveHoldsStory'
<1>1. /\ jobs' = jobs /\ ActiveJobs' = ActiveJobs
      /\ workflowState' = workflowState /\ exec' = exec
  BY DEF Enqueue, CrashBeforeEnqueue, StalledCheck, Redeliver, storyVars,
         ActiveJobs, Active
<1>2. ActiveHoldsStory'
  BY <1>1 DEF ActiveHoldsStory
<1>3. \A i \in enqueuing : queue[i] = "absent" /\ i \in JobIds
  BY DEF HolderRuns, Shape, PipelineTypeOK
<1>4. ASSUME NEW w \in Workers, exec[w].job # 0
      PROVE  /\ queue[exec[w].job] = w
             /\ exec[w].job \in JobIds /\ exec[w].job \in ActiveJobs
             /\ queue[exec[w].job] # "absent"
  BY <1>4, ActiveIsJobId, PipelineAssumption DEF HolderRuns
<1>5. CASE Enqueue(j)
  <2>1. queue' = [queue EXCEPT ![j] = "waiting"] /\ enqueuing' = enqueuing \ {j}
    BY <1>5 DEF Enqueue
  <2>2. queue[j] = "absent"
    BY <1>3, <1>5 DEF Enqueue
  <2> QED
    BY <1>1, <1>2, <1>3, <1>4, <2>1, <2>2 DEF HolderRuns, Shape, PipelineTypeOK
<1>6. CASE CrashBeforeEnqueue(j)
  BY <1>1, <1>2, <1>3, <1>4, <1>6 DEF CrashBeforeEnqueue, HolderRuns
<1>7. CASE StalledCheck(j)
  <2>1. /\ enqueuing' = enqueuing
        /\ \A i \in JobIds : i # j => queue'[i] = queue[i]
    BY <1>7 DEF StalledCheck, Redeliver, Shape, PipelineTypeOK
  <2>2. queue[j] \in Workers /\ exec[queue[j]].job # j
    BY <1>7 DEF StalledCheck
  <2>3. \A w \in Workers : exec[w].job # 0 => exec[w].job # j
    BY <1>4, <2>2
  <2>4. j \notin enqueuing
    BY <1>3, <2>2, PipelineAssumption
  <2> QED
    BY <1>1, <1>2, <1>3, <1>4, <2>1, <2>3, <2>4 DEF HolderRuns
<1> QED
  BY <1>5, <1>6, <1>7

LEMMA StepHolds ==
    ASSUME MaxLapses = 0, StoryTypeOK, Shape, HolderRuns, ActiveHoldsStory, PipelineNext
    PROVE  HolderRuns' /\ ActiveHoldsStory'
<1>1. CASE \/ \E k \in Keys : StartResearch(k)
           \/ \E k \in Keys, mode \in AssemblyModes : StartAssembly(k, mode)
  BY <1>1, AcceptedRow, AcceptHolds
<1>2. CASE \E j \in JobIds : Enqueue(j) \/ CrashBeforeEnqueue(j) \/ StalledCheck(j)
  BY <1>2, QueueHolds
<1>3. CASE \E j \in JobIds : LockLapse(j)
  BY <1>3 DEF LockLapse, Shape, PipelineTypeOK
<1>4. CASE \E w \in Workers, j \in JobIds : WorkerStart(w, j)
  BY <1>4, StartHolds
<1>5. CASE \E w \in Workers : FinishResearch(w) \/ FinishAssembly(w) \/ FailAssembly(w)
  BY <1>5, FinishHolds
<1>6. CASE \E w \in Workers : WorkerThrow(w) \/ WorkerCrash(w)
  BY <1>6, FaultHolds
<1> QED
  BY <1>1, <1>2, <1>3, <1>4, <1>5, <1>6 DEF PipelineNext

LEMMA HoldsInvariant ==
    ASSUME MaxLapses = 0
    PROVE  PipelineSpec => [](HolderRuns /\ ActiveHoldsStory)
<1>1. PipelineInit => HolderRuns /\ ActiveHoldsStory
  BY DEF PipelineInit, PipelineIdle, HolderRuns, ActiveHoldsStory, ActiveJobs, Idle
<1>2. StoryTypeOK /\ Shape /\ HolderRuns /\ ActiveHoldsStory
        /\ [PipelineNext]_<<storyVars, pipelineVars>> => HolderRuns' /\ ActiveHoldsStory'
  <2> SUFFICES ASSUME StoryTypeOK, Shape, HolderRuns, ActiveHoldsStory,
                      [PipelineNext]_<<storyVars, pipelineVars>>
               PROVE  HolderRuns' /\ ActiveHoldsStory'
    OBVIOUS
  <2>1. CASE PipelineNext
    BY <2>1, StepHolds
  <2>2. CASE UNCHANGED <<storyVars, pipelineVars>>
    BY <2>2 DEF storyVars, pipelineVars, HolderRuns, ActiveHoldsStory, ActiveJobs, Active
  <2> QED
    BY <2>1, <2>2
<1> QED
  BY <1>1, <1>2, AlwaysShaped, PTL DEF PipelineSpec

(***************************************************************************)
(* Through API crashes, aborted transactions and dead workers, in any      *)
(* number, a job that has not ended is alone and keeps the story in its    *)
(* busy state, as long as no running worker loses its queue lock.          *)
(***************************************************************************)
THEOREM PendingJobHoldsStory ==
    ASSUME MaxLapses = 0
    PROVE  PipelineSpec => []JobHoldsStory
<1>1. ActiveHoldsStory => JobHoldsStory
  <2> SUFFICES ASSUME ActiveHoldsStory PROVE JobHoldsStory
    OBVIOUS
  <2>1. Cardinality(ActiveJobs) <= 1
    <3>1. CASE ActiveJobs = {}
      BY <3>1, FS_EmptySet
    <3>2. CASE ActiveJobs # {}
      <4>1. PICK j \in ActiveJobs : ActiveJobs = {j}
        BY <3>2 DEF ActiveHoldsStory
      <4>2. Cardinality({j}) = 1
        BY FS_Singleton
      <4>3. Cardinality(ActiveJobs) = 1
        BY <4>1, <4>2
      <4> QED
        BY <4>3
    <3> QED
      BY <3>1, <3>2
  <2> QED
    BY <2>1 DEF JobHoldsStory, ActiveHoldsStory
<1> QED
  BY <1>1, HoldsInvariant, PTL

-----------------------------------------------------------------------------
(* What a job that holds the story may rely on *)

LEMMA AcceptedAlone ==
    ASSUME Shape, NEW row \in JobRows, ActiveJobs = {}, Accept(row, BusyState(row.kind))
    PROVE  /\ \A j \in ActiveJobs' : jobs'[j] = row
           /\ \A i \in DOMAIN jobs : i \in DOMAIN jobs' /\ jobs'[i] = jobs[i]
<1>1. /\ DOMAIN jobs' = DOMAIN jobs \cup {Len(jobs) + 1}
      /\ jobs'[Len(jobs) + 1] = row
      /\ \A i \in DOMAIN jobs : jobs'[i] = jobs[i]
  BY RowAppended DEF Accept, Shape, PipelineTypeOK
<1> QED
  BY <1>1 DEF ActiveJobs, Active

LEMMA NoneAfterFinish ==
    ASSUME StoryTypeOK, Shape, HolderRuns, ActiveHoldsStory, NEW w \in Workers,
           FinishResearch(w) \/ FinishAssembly(w) \/ FailAssembly(w)
    PROVE  /\ ActiveJobs' = {}
           /\ DOMAIN jobs' = DOMAIN jobs
           /\ \A i \in DOMAIN jobs : jobs'[i].kind = jobs[i].kind
<1> DEFINE j == exec[w].job
<1>1. j \in DOMAIN jobs /\ j # 0
  BY JobEnds DEF FinishResearch, FinishAssembly, FailAssembly
<1>2. PICK status \in {"succeeded", "failed"},
           to \in {jobs[j].pre, "ready_for_edit"} : FinishJob(w, status, to)
  BY JobEnds
<1>3. /\ DOMAIN jobs' = DOMAIN jobs
      /\ \A i \in DOMAIN jobs :
            /\ jobs'[i].status = IF i = j THEN status ELSE jobs[i].status
            /\ jobs'[i].kind = jobs[i].kind
  BY <1>1, <1>2, StatusUpdate DEF FinishJob, Shape, PipelineTypeOK, JobStatuses
<1>4. j \in ActiveJobs
  BY <1>1 DEF HolderRuns
<1>5. ActiveJobs' = ActiveJobs \ {j}
  BY <1>1, <1>2, <1>3 DEF ActiveJobs, Active
<1> QED
  BY <1>3, <1>4, <1>5 DEF ActiveHoldsStory

(***************************************************************************)
(* While no running worker loses its lock, no research can finish under a  *)
(* pending assembly, so it is built from the newest research, in any       *)
(* number of jobs and of the other faults.                                 *)
(***************************************************************************)
THEOREM AssemblyIsUpToDate ==
    ASSUME MaxLapses = 0
    PROVE  PipelineSpec => []AssemblyUsesNewestResearch
<1>1. PipelineInit => AssemblyUsesNewestResearch
  BY DEF PipelineInit, PipelineIdle, AssemblyUsesNewestResearch, ActiveJobs
<1>2. StoryTypeOK /\ Shape /\ HolderRuns /\ ActiveHoldsStory
        /\ AssemblyUsesNewestResearch /\ [PipelineNext]_<<storyVars, pipelineVars>>
        => AssemblyUsesNewestResearch'
  <2> SUFFICES ASSUME StoryTypeOK, Shape, HolderRuns, ActiveHoldsStory,
                      AssemblyUsesNewestResearch,
                      [PipelineNext]_<<storyVars, pipelineVars>>
               PROVE  AssemblyUsesNewestResearch'
    OBVIOUS
  <2>1. CASE \/ \E k \in Keys : StartResearch(k)
             \/ \E k \in Keys, mode \in AssemblyModes : StartAssembly(k, mode)
    <3>1. PICK row \in JobRows :
             /\ Accept(row, BusyState(row.kind))
             /\ row.source \in {0, newestResearch} /\ ActiveJobs = {}
      BY <2>1, AcceptedRow
    <3>2. newestResearch' = newestResearch /\ \A j \in ActiveJobs' : jobs'[j] = row
      BY <3>1, AcceptedAlone DEF Accept
    <3> QED
      BY <3>1, <3>2 DEF AssemblyUsesNewestResearch
  <2>2. CASE \E w \in Workers : FinishResearch(w) \/ FinishAssembly(w) \/ FailAssembly(w)
    <3>1. ActiveJobs' = {}
      BY <2>2, NoneAfterFinish
    <3> QED
      BY <3>1 DEF AssemblyUsesNewestResearch
  <2>3. CASE UNCHANGED <<jobs, newestResearch>>
    BY <2>3 DEF AssemblyUsesNewestResearch, ActiveJobs, Active
  <2> QED
    BY <2>1, <2>2, <2>3
       DEF PipelineNext, pipelineVars, Enqueue, CrashBeforeEnqueue, StalledCheck, LockLapse,
           Redeliver, WorkerStart, WorkerThrow, WorkerCrash
<1> QED
  BY <1>1, <1>2, AlwaysShaped, HoldsInvariant, PTL DEF PipelineSpec

(***************************************************************************)
(* What a worker will log as the state before its move is the story's      *)
(* state, and the log ends in it.                                          *)
(***************************************************************************)
LogFollows ==
    /\ transition.to = workflowState
    /\ \A w \in Workers :
          exec[w].job # 0 => exec[w].wfDuring = BusyState(jobs[exec[w].job].kind)

LEMMA StepKeepsLog ==
    ASSUME StoryTypeOK, Shape, HolderRuns, ActiveHoldsStory, LogFollows, PipelineNext
    PROVE  /\ LogFollows'
           /\ transition' # transition => transition'.from = transition.to
<1>1. ASSUME NEW row \in JobRows, Accept(row, BusyState(row.kind)), ActiveJobs = {}
      PROVE  /\ LogFollows'
             /\ transition' # transition => transition'.from = transition.to
  <2>1. \A i \in DOMAIN jobs : i \in DOMAIN jobs' /\ jobs'[i] = jobs[i]
    BY <1>1, AcceptedAlone
  <2>2. exec' = exec /\ MoveStory(workflowState, BusyState(row.kind))
    BY <1>1 DEF Accept
  <2> QED
    BY <2>1, <2>2 DEF LogFollows, MoveStory, Shape, RefersToJobs
<1>2. ASSUME NEW w \in Workers, FinishResearch(w) \/ FinishAssembly(w) \/ FailAssembly(w)
      PROVE  /\ LogFollows'
             /\ transition' # transition => transition'.from = transition.to
  <2>1. PICK status \in {"succeeded", "failed"},
             to \in {jobs[exec[w].job].pre, "ready_for_edit"} : FinishJob(w, status, to)
    BY <1>2, JobEnds
  <2>2. \A i \in DOMAIN jobs : jobs'[i].kind = jobs[i].kind
    BY <1>2, NoneAfterFinish
  <2>3. exec[w].job # 0
    BY <1>2 DEF FinishResearch, FinishAssembly, FailAssembly
  <2>4. exec[w].wfDuring = workflowState
    BY <2>3 DEF LogFollows, HolderRuns, ActiveHoldsStory
  <2>5. \A v \in Workers : exec'[v].job # 0 => exec'[v] = exec[v]
    BY <2>1 DEF FinishJob, Release, Shape, PipelineTypeOK, Idle
  <2>6. MoveStory(workflowState, to)
    BY <2>1, <2>4 DEF FinishJob
  <2> QED
    BY <2>2, <2>5, <2>6 DEF LogFollows, MoveStory, Shape, RefersToJobs
<1>3. ASSUME NEW w \in Workers, NEW j \in JobIds, WorkerStart(w, j)
      PROVE  LogFollows' /\ transition' = transition
  <2>1. UNCHANGED <<jobs, transition, workflowState>> /\ j \in DOMAIN jobs
    BY <1>3 DEF WorkerStart, storyVars, Shape, RefersToJobs
  <2>2. CASE Active(j)
    <3>1. workflowState = BusyState(jobs[j].kind)
      BY <2>1, <2>2 DEF ActiveHoldsStory, ActiveJobs
    <3>2. \A v \in Workers : exec'[v] = IF v = w THEN [job |-> j, wfDuring |-> workflowState]
                                                 ELSE exec[v]
      BY <1>3, <2>2 DEF WorkerStart, Shape, PipelineTypeOK
    <3> QED
      BY <2>1, <3>1, <3>2 DEF LogFollows
  <2>3. CASE ~Active(j)
    BY <1>3, <2>1, <2>3 DEF WorkerStart, LogFollows
  <2> QED
    BY <2>2, <2>3
<1>4. ASSUME NEW w \in Workers, WorkerThrow(w) \/ WorkerCrash(w)
      PROVE  LogFollows' /\ transition' = transition
  <2>1. \A v \in Workers : exec'[v].job # 0 => exec'[v] = exec[v]
    BY <1>4 DEF WorkerThrow, WorkerCrash, Release, Shape, PipelineTypeOK, Idle
  <2> QED
    BY <1>4, <2>1 DEF WorkerThrow, WorkerCrash, storyVars, LogFollows
<1>5. ASSUME NEW j \in JobIds,
             Enqueue(j) \/ CrashBeforeEnqueue(j) \/ StalledCheck(j) \/ LockLapse(j)
      PROVE  LogFollows' /\ transition' = transition
  BY <1>5 DEF Enqueue, CrashBeforeEnqueue, StalledCheck, LockLapse, Redeliver, storyVars,
              LogFollows
<1> QED
  BY <1>1, <1>2, <1>3, <1>4, <1>5, AcceptedRow DEF PipelineNext

(***************************************************************************)
(* While no running worker loses its lock, the transition log is a path,   *)
(* although every row is written from a state that was read before.        *)
(***************************************************************************)
THEOREM TransitionsFormAPath ==
    ASSUME MaxLapses = 0
    PROVE  PipelineSpec => LogIsPath
<1>1. PipelineInit => LogFollows
  BY DEF PipelineInit, PipelineIdle, LogFollows, Idle
<1>2. StoryTypeOK /\ Shape /\ HolderRuns /\ ActiveHoldsStory /\ LogFollows
        /\ [PipelineNext]_<<storyVars, pipelineVars>>
        => LogFollows' /\ [transition' # transition
                             => transition'.from = transition.to]_transition
  <2> SUFFICES ASSUME StoryTypeOK, Shape, HolderRuns, ActiveHoldsStory, LogFollows,
                      [PipelineNext]_<<storyVars, pipelineVars>>
               PROVE  LogFollows' /\ [transition' # transition
                                        => transition'.from = transition.to]_transition
    OBVIOUS
  <2>1. CASE PipelineNext
    BY <2>1, StepKeepsLog
  <2>2. CASE UNCHANGED <<storyVars, pipelineVars>>
    BY <2>2 DEF storyVars, pipelineVars, LogFollows
  <2> QED
    BY <2>1, <2>2
<1> QED
  BY <1>1, <1>2, AlwaysShaped, HoldsInvariant, PTL DEF PipelineSpec, LogIsPath

-----------------------------------------------------------------------------
(* A key stands for one job *)

LEMMA AcceptKeepsKeys ==
    ASSUME Shape, OneJobPerKey, NEW row \in JobRows,
           JobsOfKey(row.kind, row.key) = {}, Accept(row, BusyState(row.kind))
    PROVE  OneJobPerKey'
<1>1. /\ DOMAIN jobs' = DOMAIN jobs \cup {Len(jobs) + 1}
      /\ jobs'[Len(jobs) + 1] = row
      /\ \A i \in DOMAIN jobs : jobs'[i] = jobs[i]
  BY RowAppended DEF Accept, Shape, PipelineTypeOK
<1>2. \A i \in DOMAIN jobs : ~(jobs[i].kind = row.kind /\ jobs[i].key = row.key)
  BY DEF JobsOfKey
<1> QED
  BY <1>1, <1>2 DEF OneJobPerKey

LEMMA FinishKeepsKeys ==
    ASSUME StoryTypeOK, Shape, OneJobPerKey, NEW w \in Workers,
           FinishResearch(w) \/ FinishAssembly(w) \/ FailAssembly(w)
    PROVE  OneJobPerKey'
<1>1. PICK status \in {"succeeded", "failed"},
           to \in {jobs[exec[w].job].pre, "ready_for_edit"} : FinishJob(w, status, to)
  BY JobEnds
<1>2. /\ DOMAIN jobs' = DOMAIN jobs
      /\ \A i \in DOMAIN jobs : jobs'[i].kind = jobs[i].kind /\ jobs'[i].key = jobs[i].key
  BY <1>1, JobEnds, StatusUpdate DEF FinishJob, Shape, PipelineTypeOK, JobStatuses
<1> QED
  BY <1>2 DEF OneJobPerKey

LEMMA StepKeepsKeys ==
    ASSUME StoryTypeOK, Shape, OneJobPerKey, PipelineNext
    PROVE  OneJobPerKey'
<1>1. CASE \/ \E k \in Keys : StartResearch(k)
           \/ \E k \in Keys, mode \in AssemblyModes : StartAssembly(k, mode)
  BY <1>1, AcceptedRow, AcceptKeepsKeys
<1>2. CASE \E w \in Workers : FinishResearch(w) \/ FinishAssembly(w) \/ FailAssembly(w)
  BY <1>2, FinishKeepsKeys
<1>3. CASE jobs' = jobs
  BY <1>3 DEF OneJobPerKey
<1> QED
  BY <1>1, <1>2, <1>3
     DEF PipelineNext, Enqueue, CrashBeforeEnqueue, StalledCheck, LockLapse,
         Redeliver, WorkerStart, WorkerThrow, WorkerCrash

(***************************************************************************)
(* However often a request is repeated, and however many jobs, workers and *)
(* faults there are, a key stands for one job of a kind.                   *)
(***************************************************************************)
THEOREM AKeyIsOneJob == PipelineSpec => []OneJobPerKey
<1>1. PipelineInit => OneJobPerKey
  BY DEF PipelineInit, PipelineIdle, OneJobPerKey
<1>2. StoryTypeOK /\ Shape /\ OneJobPerKey /\ [PipelineNext]_<<storyVars, pipelineVars>>
        => OneJobPerKey'
  BY StepKeepsKeys DEF pipelineVars, OneJobPerKey
<1> QED
  BY <1>1, <1>2, AlwaysShaped, PTL DEF PipelineSpec

-----------------------------------------------------------------------------
(* A pending job is not forgotten, however many locks lapse *)

ExecutorsOf(j) == {w \in Workers : exec[w].job = j}

Held(j) == IF queue[j] \in Workers THEN 1 ELSE 0

(***************************************************************************)
(* An entry is handed out once for each stall, and once more if it is held *)
(* now; each of these workers is still executing the job or has crashed.   *)
(* An entry given up has stalled twice, so where at most one worker has    *)
(* crashed another one is still at it.                                     *)
(***************************************************************************)
StallsAccounted ==
    /\ faults.crash <= MaxWorkerCrashes
    /\ \A j \in JobIds : queue[j] = "absent" => stalls[j] = 0
    /\ \A j \in ActiveJobs :
          /\ IsFiniteSet(ExecutorsOf(j))
          /\ stalls[j] + Held(j) <= Cardinality(ExecutorsOf(j)) + faults.crash
          /\ queue[j] = "absent" => j \in enqueuing
          /\ queue[j] = "done" => stalls[j] >= 2

LEMMA ExecutorLeaves ==
    ASSUME Shape, NEW w \in Workers, exec' = [exec EXCEPT ![w] = Idle], NEW j \in JobIds
    PROVE  ExecutorsOf(j)' = ExecutorsOf(j) \ {w}
<1>1. j # 0 /\ Idle.job = 0
  BY DEF JobIds, Idle
<1>2. \A v \in Workers : exec'[v] = IF v = w THEN Idle ELSE exec[v]
  BY DEF Shape, PipelineTypeOK
<1> QED
  BY <1>1, <1>2 DEF ExecutorsOf

LEMMA AcceptAccounts ==
    ASSUME StoryTypeOK, Shape, StallsAccounted, NEW row \in JobRows,
           Len(jobs) < MaxJobs, ActiveJobs = {}, Accept(row, BusyState(row.kind))
    PROVE  StallsAccounted'
<1>0. PICK n \in JobIds : n = Len(jobs) + 1
  BY PipelineAssumption DEF JobIds, Shape, PipelineTypeOK
<1>1. /\ DOMAIN jobs' = DOMAIN jobs \cup {n}
      /\ n \notin DOMAIN jobs
      /\ \A i \in DOMAIN jobs : jobs'[i] = jobs[i]
  BY <1>0, RowAppended DEF Accept, Shape, PipelineTypeOK
<1>2. n # 0
  BY DEF JobIds
<1>3. ActiveJobs' \subseteq {n}
  BY <1>1 DEF ActiveJobs, Active
<1>4. UNCHANGED <<queue, stalls, exec, faults>> /\ n \in enqueuing'
  BY <1>0 DEF Accept
<1>5. queue[n] = "absent" /\ stalls[n] = 0
  BY <1>1 DEF Shape, RefersToJobs, StallsAccounted
<1>6. ExecutorsOf(n)' = {}
  BY <1>1, <1>2, <1>4 DEF ExecutorsOf, Shape, RefersToJobs
<1>7. IsFiniteSet(ExecutorsOf(n)') /\ Cardinality(ExecutorsOf(n)') = 0
  BY <1>6, FS_EmptySet
<1>8. Held(n)' = 0 /\ faults.crash \in Nat
  BY <1>4, <1>5, PipelineAssumption DEF Held, Shape, PipelineTypeOK
<1>9. stalls'[n] + Held(n)' <= Cardinality(ExecutorsOf(n)') + faults'.crash
  BY <1>4, <1>5, <1>7, <1>8
<1> QED
  BY <1>3, <1>4, <1>5, <1>7, <1>9 DEF StallsAccounted

LEMMA QueueAccounts ==
    ASSUME StoryTypeOK, Shape, StallsAccounted, MaxApiCrashes = 0, NEW j \in JobIds,
           Enqueue(j) \/ CrashBeforeEnqueue(j) \/ StalledCheck(j) \/ LockLapse(j)
    PROVE  StallsAccounted'
<1>1. /\ jobs' = jobs /\ ActiveJobs' = ActiveJobs /\ exec' = exec
      /\ \A i \in JobIds : ExecutorsOf(i)' = ExecutorsOf(i)
  BY DEF Enqueue, CrashBeforeEnqueue, StalledCheck, LockLapse, Redeliver, storyVars,
         ActiveJobs, Active, ExecutorsOf
<1>2. ~CrashBeforeEnqueue(j)
  BY DEF CrashBeforeEnqueue, Shape, PipelineTypeOK
<1>3. CASE Enqueue(j)
  <2>1. /\ stalls' = stalls /\ faults' = faults /\ enqueuing' = enqueuing \ {j}
        /\ queue'[j] = "waiting" /\ \A i \in JobIds : i # j => queue'[i] = queue[i]
    BY <1>3 DEF Enqueue, Shape, PipelineTypeOK
  <2>2. ASSUME NEW i \in JobIds
        PROVE  Held(i)' <= Held(i) /\ Held(i)' \in Nat /\ Held(i) \in Nat
    BY <2>1, PipelineAssumption DEF Held
  <2>3. ASSUME NEW i \in ActiveJobs
        PROVE  stalls'[i] + Held(i)' <= Cardinality(ExecutorsOf(i)') + faults'.crash
    <3>1. i \in JobIds /\ stalls[i] \in Nat /\ faults.crash \in Nat
      BY ActiveIsJobId DEF Shape, PipelineTypeOK
    <3>2. /\ Cardinality(ExecutorsOf(i)) \in Nat
          /\ stalls[i] + Held(i) <= Cardinality(ExecutorsOf(i)) + faults.crash
      BY FS_CardinalityType DEF StallsAccounted
    <3> QED
      BY <1>1, <2>1, <2>2, <3>1, <3>2
  <2> QED
    BY <1>1, <2>1, <2>3, ActiveIsJobId DEF StallsAccounted
<1>4. CASE StalledCheck(j) \/ LockLapse(j)
  <2>1. /\ Redeliver(j) /\ queue[j] \in Workers /\ enqueuing' = enqueuing
        /\ faults'.crash = faults.crash
    BY <1>4 DEF StalledCheck, LockLapse, Redeliver, Shape, PipelineTypeOK
  <2>2. /\ queue'[j] = IF stalls[j] < 1 THEN "waiting" ELSE "done"
        /\ stalls'[j] = stalls[j] + 1
        /\ \A i \in JobIds : i # j => queue'[i] = queue[i] /\ stalls'[i] = stalls[i]
    BY <2>1 DEF Redeliver, MaxStalledCount, Shape, PipelineTypeOK
  <2>3. Held(j) = 1 /\ Held(j)' = 0
    BY <2>1, <2>2, PipelineAssumption DEF Held
  <2>4. ASSUME NEW i \in ActiveJobs
        PROVE  /\ stalls'[i] + Held(i)' <= Cardinality(ExecutorsOf(i)') + faults'.crash
               /\ queue'[i] = "done" => stalls'[i] >= 2
    <3>1. i \in JobIds /\ stalls[i] \in Nat
      BY ActiveIsJobId DEF Shape, PipelineTypeOK
    <3>2. CASE i = j
      BY <1>1, <2>1, <2>2, <2>3, <3>1, <3>2 DEF StallsAccounted
    <3>3. CASE i # j
      <4>1. Held(i)' = Held(i)
        BY <2>2, <3>1, <3>3 DEF Held
      <4> QED
        BY <1>1, <2>1, <2>2, <3>1, <3>3, <4>1 DEF StallsAccounted
    <3> QED
      BY <3>2, <3>3
  <2>5. \A i \in JobIds : queue'[i] = "absent" => stalls'[i] = 0 /\ queue[i] = "absent"
    BY <2>2 DEF StallsAccounted
  <2> QED
    BY <1>1, <2>1, <2>4, <2>5, ActiveIsJobId DEF StallsAccounted
<1> QED
  BY <1>2, <1>3, <1>4

LEMMA StartAccounts ==
    ASSUME StoryTypeOK, Shape, StallsAccounted, NEW w \in Workers, NEW j \in JobIds,
           WorkerStart(w, j)
    PROVE  StallsAccounted'
<1>1. /\ jobs' = jobs /\ ActiveJobs' = ActiveJobs /\ stalls' = stalls
      /\ faults' = faults /\ enqueuing' = enqueuing /\ queue[j] = "waiting" /\ exec[w] = Idle
  BY DEF WorkerStart, ActiveJobs, Active
<1>2. Held(j) = 0
  BY <1>1, PipelineAssumption DEF Held
<1>3. CASE Active(j)
  <2>1. /\ queue'[j] = w /\ \A i \in JobIds : i # j => queue'[i] = queue[i]
        /\ \A v \in Workers : exec'[v] = IF v = w THEN [job |-> j, wfDuring |-> workflowState]
                                                  ELSE exec[v]
    BY <1>3 DEF WorkerStart, Shape, PipelineTypeOK
  <2>2. /\ ExecutorsOf(j)' = ExecutorsOf(j) \cup {w} /\ w \notin ExecutorsOf(j)
        /\ \A i \in JobIds : i # j => ExecutorsOf(i)' = ExecutorsOf(i)
    BY <1>1, <2>1 DEF ExecutorsOf, Idle, JobIds
  <2>3. Held(j)' = 1 /\ \A i \in JobIds : i # j => Held(i)' = Held(i)
    BY <2>1 DEF Held
  <2>4. ASSUME NEW i \in ActiveJobs
        PROVE  /\ IsFiniteSet(ExecutorsOf(i)')
               /\ stalls'[i] + Held(i)' <= Cardinality(ExecutorsOf(i)') + faults'.crash
    <3>1. /\ i \in JobIds /\ stalls[i] \in Nat /\ faults.crash \in Nat
          /\ IsFiniteSet(ExecutorsOf(i)) /\ Cardinality(ExecutorsOf(i)) \in Nat
          /\ stalls[i] + Held(i) <= Cardinality(ExecutorsOf(i)) + faults.crash
      BY ActiveIsJobId, FS_CardinalityType DEF Shape, PipelineTypeOK, StallsAccounted
    <3>2. CASE i = j
      <4>1. /\ IsFiniteSet(ExecutorsOf(j)')
            /\ Cardinality(ExecutorsOf(j)') = Cardinality(ExecutorsOf(j)) + 1
        BY <2>2, <3>1, <3>2, FS_AddElement
      <4> QED
        BY <1>1, <1>2, <2>3, <3>1, <3>2, <4>1
    <3>3. CASE i # j
      BY <1>1, <2>2, <2>3, <3>1, <3>3
    <3> QED
      BY <3>2, <3>3
  <2>5. \A i \in JobIds : queue'[i] \in {"absent", "done"} => queue[i] = queue'[i]
    BY <2>1, PipelineAssumption
  <2> QED
    BY <1>1, <2>4, <2>5, ActiveIsJobId DEF StallsAccounted
<1>4. CASE ~Active(j)
  <2>1. /\ queue'[j] = "done" /\ \A i \in JobIds : i # j => queue'[i] = queue[i]
        /\ exec' = exec /\ j \notin ActiveJobs
    BY <1>4 DEF WorkerStart, Shape, PipelineTypeOK, ActiveJobs
  <2>2. \A i \in JobIds : i # j => Held(i)' = Held(i) /\ ExecutorsOf(i)' = ExecutorsOf(i)
    BY <2>1 DEF Held, ExecutorsOf
  <2> QED
    BY <1>1, <2>1, <2>2, ActiveIsJobId DEF StallsAccounted
<1> QED
  BY <1>3, <1>4

LEMMA FinishAccounts ==
    ASSUME StoryTypeOK, Shape, StallsAccounted, NEW w \in Workers,
           FinishResearch(w) \/ FinishAssembly(w) \/ FailAssembly(w)
    PROVE  StallsAccounted'
<1> DEFINE j == exec[w].job
<1>1. j \in DOMAIN jobs
  BY JobEnds
<1>2. PICK status \in {"succeeded", "failed"},
           to \in {jobs[j].pre, "ready_for_edit"} : FinishJob(w, status, to)
  BY JobEnds
<1>3. /\ DOMAIN jobs' = DOMAIN jobs
      /\ \A i \in DOMAIN jobs : jobs'[i].status = IF i = j THEN status ELSE jobs[i].status
  BY <1>1, <1>2, StatusUpdate DEF FinishJob, Shape, PipelineTypeOK, JobStatuses
<1>4. ActiveJobs' = ActiveJobs \ {j}
  BY <1>1, <1>2, <1>3 DEF ActiveJobs, Active
<1>5. /\ exec' = [exec EXCEPT ![w] = Idle]
      /\ UNCHANGED <<enqueuing, stalls, faults>>
      /\ \A i \in JobIds :
            queue'[i] = IF i = j /\ queue[i] = w THEN "done" ELSE queue[i]
  BY <1>2 DEF FinishJob, Release
<1> HIDE DEF j
<1>6. ASSUME NEW i \in ActiveJobs'
      PROVE  /\ i \in ActiveJobs /\ i \in JobIds /\ queue'[i] = queue[i]
             /\ ExecutorsOf(i)' = ExecutorsOf(i) /\ Held(i)' = Held(i)
  <2>1. i \in ActiveJobs /\ i # j /\ i \in JobIds
    BY <1>4, ActiveIsJobId
  <2>2. w \notin ExecutorsOf(i)
    BY <2>1 DEF ExecutorsOf, j
  <2>3. ExecutorsOf(i)' = ExecutorsOf(i)
    <3>1. ExecutorsOf(i)' = ExecutorsOf(i) \ {w}
      BY <1>5, <2>1, ExecutorLeaves
    <3> QED
      BY <2>2, <3>1
  <2> QED
    BY <1>5, <2>1, <2>3 DEF Held
<1>7. \A i \in JobIds : queue'[i] = "absent" => queue[i] = "absent"
  BY <1>5
<1> QED
  BY <1>5, <1>6, <1>7 DEF StallsAccounted

LEMMA CrashAccounts ==
    ASSUME StoryTypeOK, Shape, StallsAccounted, NEW w \in Workers, WorkerCrash(w)
    PROVE  StallsAccounted'
<1>1. /\ jobs' = jobs /\ ActiveJobs' = ActiveJobs
      /\ UNCHANGED <<enqueuing, queue, stalls>>
      /\ exec' = [exec EXCEPT ![w] = Idle]
      /\ faults.crash \in Nat
      /\ faults'.crash = faults.crash + 1 /\ faults.crash < MaxWorkerCrashes
  BY DEF WorkerCrash, ActiveJobs, Active, Shape, PipelineTypeOK
<1>2. ASSUME NEW i \in ActiveJobs
      PROVE  /\ IsFiniteSet(ExecutorsOf(i)')
             /\ stalls'[i] + Held(i)' <= Cardinality(ExecutorsOf(i)') + faults'.crash
  <2>1. /\ i \in JobIds /\ stalls[i] \in Nat
        /\ IsFiniteSet(ExecutorsOf(i)) /\ Cardinality(ExecutorsOf(i)) \in Nat
        /\ stalls[i] + Held(i) <= Cardinality(ExecutorsOf(i)) + faults.crash
    BY ActiveIsJobId, FS_CardinalityType DEF Shape, PipelineTypeOK, StallsAccounted
  <2>2. ExecutorsOf(i)' = ExecutorsOf(i) \ {w}
    BY <1>1, <2>1, ExecutorLeaves
  <2>3. /\ IsFiniteSet(ExecutorsOf(i)')
        /\ Cardinality(ExecutorsOf(i)') + 1 >= Cardinality(ExecutorsOf(i))
        /\ Cardinality(ExecutorsOf(i)') \in Nat
    <3>1. /\ IsFiniteSet(ExecutorsOf(i) \ {w})
          /\ Cardinality(ExecutorsOf(i) \ {w}) =
                IF w \in ExecutorsOf(i) THEN Cardinality(ExecutorsOf(i)) - 1
                                       ELSE Cardinality(ExecutorsOf(i))
      BY <2>1, FS_RemoveElement
    <3>2. Cardinality(ExecutorsOf(i) \ {w}) \in Nat
      BY <3>1, FS_CardinalityType
    <3> QED
      BY <2>1, <2>2, <3>1, <3>2
  <2>4. Held(i)' = Held(i) /\ Held(i) \in Nat
    BY <1>1 DEF Held
  <2> QED
    BY <1>1, <2>1, <2>3, <2>4
<1>3. MaxWorkerCrashes \in Nat
  BY PipelineAssumption
<1> QED
  BY <1>1, <1>2, <1>3 DEF StallsAccounted

(***************************************************************************)
(* As long as the API calls queue.add, no worker transaction is aborted    *)
(* and at most one worker process dies, a pending job is about to be       *)
(* queued, in the queue or being executed, although running workers lose   *)
(* their locks any number of times and the queue gives an entry up when it *)
(* has stalled twice.                                                      *)
(***************************************************************************)
THEOREM NoPendingJobIsForgotten ==
    ASSUME MaxApiCrashes = 0, MaxThrows = 0, MaxWorkerCrashes <= 1
    PROVE  PipelineSpec => []NoJobForgotten
<1>1. PipelineInit => StallsAccounted
  BY PipelineAssumption DEF PipelineInit, PipelineIdle, StallsAccounted, ActiveJobs
<1>2. StoryTypeOK /\ Shape /\ StallsAccounted
        /\ [PipelineNext]_<<storyVars, pipelineVars>> => StallsAccounted'
  <2> SUFFICES ASSUME StoryTypeOK, Shape, StallsAccounted,
                      [PipelineNext]_<<storyVars, pipelineVars>>
               PROVE  StallsAccounted'
    OBVIOUS
  <2>1. CASE \/ \E k \in Keys : StartResearch(k)
             \/ \E k \in Keys, mode \in AssemblyModes : StartAssembly(k, mode)
    BY <2>1, AcceptedRow, AcceptAccounts
  <2>2. CASE \E j \in JobIds : \/ Enqueue(j) \/ CrashBeforeEnqueue(j)
                               \/ StalledCheck(j) \/ LockLapse(j)
    BY <2>2, QueueAccounts
  <2>3. CASE \E w \in Workers, j \in JobIds : WorkerStart(w, j)
    BY <2>3, StartAccounts
  <2>4. CASE \E w \in Workers : FinishResearch(w) \/ FinishAssembly(w) \/ FailAssembly(w)
    BY <2>4, FinishAccounts
  <2>5. CASE \E w \in Workers : WorkerThrow(w)
    BY <2>5 DEF WorkerThrow, Shape, PipelineTypeOK
  <2>6. CASE \E w \in Workers : WorkerCrash(w)
    BY <2>6, CrashAccounts
  <2>7. CASE UNCHANGED <<storyVars, pipelineVars>>
    BY <2>7 DEF storyVars, pipelineVars, StallsAccounted, ActiveJobs, Active,
                ExecutorsOf, Held
  <2> QED
    BY <2>1, <2>2, <2>3, <2>4, <2>5, <2>6, <2>7 DEF PipelineNext
<1>3. StoryTypeOK /\ Shape /\ StallsAccounted => NoJobForgotten
  <2> SUFFICES ASSUME Shape, StallsAccounted, NEW j \in ActiveJobs,
                      j \notin enqueuing, queue[j] \notin {"waiting"} \cup Workers
               PROVE  Executing(j)
    BY DEF NoJobForgotten
  <2>1. j \in JobIds
    BY ActiveIsJobId
  <2>2. queue[j] = "done" /\ stalls[j] >= 2 /\ stalls[j] \in Nat /\ faults.crash \in Nat
    BY <2>1 DEF StallsAccounted, Shape, PipelineTypeOK
  <2>3. Held(j) = 0 \/ Held(j) = 1
    BY DEF Held
  <2>4. IsFiniteSet(ExecutorsOf(j)) /\ Cardinality(ExecutorsOf(j)) \in Nat
    BY FS_CardinalityType DEF StallsAccounted
  <2>5. stalls[j] + Held(j) <= Cardinality(ExecutorsOf(j)) + faults.crash /\ faults.crash <= 1
    BY <2>2, PipelineAssumption DEF StallsAccounted
  <2>6. Cardinality(ExecutorsOf(j)) # 0
    BY <2>2, <2>3, <2>4, <2>5
  <2>7. ExecutorsOf(j) # {}
    BY <2>6, FS_EmptySet
  <2> QED
    BY <2>7 DEF ExecutorsOf, Executing
<1> QED
  BY <1>1, <1>2, <1>3, AlwaysShaped, PTL DEF PipelineSpec

=============================================================================
