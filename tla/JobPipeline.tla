----------------------------- MODULE JobPipeline -----------------------------
(***************************************************************************)
(* Research passes and draft assembly: the two services that accept jobs,  *)
(* the Redis queue between the API and the worker, and the worker.         *)
(*                                                                         *)
(* A job is accepted by one transaction that holds the story row lock; the *)
(* queue entry is added only after that transaction has committed.  The    *)
(* worker runs a job in one transaction of its own that locks nothing it   *)
(* decides on: it reads the job and the story, works, and writes both.     *)
(* Delivery is at least once: an entry whose worker stops renewing its     *)
(* lock is handed out again, whether that worker died or is merely slow.   *)
(***************************************************************************)
EXTENDS StoryRecord

CONSTANTS
    Workers,            \* worker processes, each running one job at a time
    Keys,               \* Idempotency-Key values the creator's clients use
    MaxJobs,            \* bound: jobs ever accepted
    MaxApiCrashes,      \* bound: API crashes between commit and queue.add
    MaxThrows,          \* bound: worker transactions that abort
    MaxWorkerCrashes,   \* bound: worker processes that die in mid-job
    MaxLapses           \* bound: queue locks lost by a worker still running

ASSUME PipelineAssumption ==
    /\ Workers \cap {"absent", "waiting", "done"} = {}
    /\ MaxJobs \in Nat
    /\ MaxApiCrashes \in Nat /\ MaxThrows \in Nat
    /\ MaxWorkerCrashes \in Nat /\ MaxLapses \in Nat

VARIABLES
    jobs,           \* research_job and draft_assembly_job rows, oldest first
    newestResearch, \* the research job with the greatest finished_at, 0 if none
    regenerations,  \* full assemblies that replaced the draft's events
    enqueuing,      \* accepted jobs whose request has not yet called queue.add
    queue,          \* BullMQ's entry per job: absent, waiting, its holder, done
    stalls,         \* BullMQ's stalled counter per job
    exec,           \* what each worker process is executing
    faults          \* how much of each fault bound is used up

pipelineVars == <<jobs, newestResearch, regenerations, enqueuing, queue, stalls,
                  exec, faults>>

JobIds == 1..MaxJobs

AssemblyModes == {"full_regeneration", "scoped_event_regeneration",
                  "scoped_section_regeneration"}

JobStatuses == {"pending", "succeeded", "failed"}

\* States from which a research pass, and an assembly, may start.
ALLOWED_PRE_RESEARCH == {"awaiting_framing_choice", "ready_for_edit"}

ALLOWED_ASSEMBLE == {"awaiting_framing_choice", "ready_for_edit", "blocked"}

\* A scoped event request names an event: the batch of events it belongs to
\* and whether the researched chronology has an event at its position.
Targets == [batch : Nat, covered : BOOLEAN]

NoTarget == [batch |-> 0, covered |-> FALSE]

JobRows == [kind : {"research", "assembly"}, mode : AssemblyModes \cup {"none"},
            key : Keys, status : JobStatuses, pre : ALLOWED_ASSEMBLE,
            source : Nat, target : Targets]

Idle == [job |-> 0, wfDuring |-> "none"]

PipelineTypeOK ==
    /\ jobs \in Seq(JobRows) /\ Len(jobs) <= MaxJobs
    /\ newestResearch \in Nat
    /\ regenerations \in Nat
    /\ enqueuing \subseteq JobIds
    /\ queue \in [JobIds -> {"absent", "waiting", "done"} \cup Workers]
    /\ stalls \in [JobIds -> Nat]
    /\ exec \in [Workers -> [job : Nat, wfDuring : WorkflowStates \cup {"none"}]]
    /\ faults \in [api : Nat, throw : Nat, crash : Nat, lapse : Nat]

PipelineIdle ==
    /\ jobs = <<>>
    /\ newestResearch = 0
    /\ regenerations = 0
    /\ enqueuing = {}
    /\ queue = [j \in JobIds |-> "absent"]
    /\ stalls = [j \in JobIds |-> 0]
    /\ exec = [w \in Workers |-> Idle]
    /\ faults = [api |-> 0, throw |-> 0, crash |-> 0, lapse |-> 0]

-----------------------------------------------------------------------------
(* The API: accepting a job *)

Active(j) == jobs[j].status = "pending"

ActiveJobs == {j \in DOMAIN jobs : Active(j)}

\* Mutant: a key is forgotten when its job has ended.
ActiveJobsOfKey(kind, k) ==
    {j \in ActiveJobs : jobs[j].kind = kind /\ jobs[j].key = k}

\* The job an Idempotency-Key already stands for, if any.
JobsOfKey(kind, k) == {j \in DOMAIN jobs : jobs[j].kind = kind /\ jobs[j].key = k}

\* Mutant: the job is accepted without moving the story.
AcceptWithoutMove(row, to) ==
    /\ jobs' = Append(jobs, row)
    /\ enqueuing' = enqueuing \cup {Len(jobs) + 1}
    /\ UNCHANGED <<storyVars, newestResearch, regenerations, queue, stalls,
                   exec, faults>>

\* The job row, the idempotency row and the move of the story, in one
\* transaction; the caller still has to add the queue entry.
Accept(row, to) ==
    /\ jobs' = Append(jobs, row)
    /\ enqueuing' = enqueuing \cup {Len(jobs) + 1}
    /\ MoveStory(workflowState, to)
    /\ UNCHANGED <<storyStatus, draftExists, verdict, storyLock,
                   newestResearch, regenerations, queue, stalls, exec, faults>>

\* startResearchPass with a key not used before.  (With a used key it replays
\* the stored answer, or rejects another payload, and changes nothing.)
StartResearch(k) ==
    /\ RowFree
    /\ Len(jobs) < MaxJobs
    /\ JobsOfKey("research", k) = {}
    /\ ActiveJobs = {}
    /\ workflowState \in ALLOWED_PRE_RESEARCH
    /\ Accept([kind |-> "research", mode |-> "none", key |-> k,
               status |-> "pending", pre |-> workflowState,
               source |-> 0, target |-> NoTarget],
              "researching")

\* Research passes that have succeeded; none does so without a chronology.
SucceededResearch ==
    {j \in DOMAIN jobs : jobs[j].kind = "research" /\ jobs[j].status = "succeeded"}

\* Mutant: the researches are ordered the wrong way round.
OldestResearch ==
    IF SucceededResearch = {} THEN 0
    ELSE CHOOSE r \in SucceededResearch : \A q \in SucceededResearch : r <= q

\* The research an assembly is built from: the latest to have finished.
SourceResearch == newestResearch

\* The events a request may name: of the present batch (a scoped request for
\* an event that is not in the draft is answered 404).
EventTargets(mode) ==
    IF mode = "scoped_event_regeneration"
    THEN {[batch |-> regenerations, covered |-> c] : c \in BOOLEAN}
    ELSE {NoTarget}

\* startDraftAssembly with a key not used before.  A section is regenerated
\* from the selected frame, anything else from the latest research.
StartAssembly(k, mode) ==
    /\ RowFree
    /\ Len(jobs) < MaxJobs
    /\ JobsOfKey("assembly", k) = {}
    /\ ActiveJobs = {}
    /\ workflowState \in ALLOWED_ASSEMBLE
    /\ draftExists
    /\ mode # "scoped_section_regeneration" => SourceResearch # 0
    /\ \E t \in EventTargets(mode) :
          Accept([kind |-> "assembly", mode |-> mode, key |-> k,
                  status |-> "pending", pre |-> workflowState,
                  source |-> IF mode = "scoped_section_regeneration"
                             THEN 0 ELSE SourceResearch,
                  target |-> t],
                 "assembling_draft")

\* queue.add, after the accepting transaction has committed.
Enqueue(j) ==
    /\ j \in enqueuing
    /\ enqueuing' = enqueuing \ {j}
    /\ queue' = [queue EXCEPT ![j] = "waiting"]
    /\ UNCHANGED <<storyVars, jobs, newestResearch, regenerations, stalls, exec, faults>>

\* The API process dies, or Redis refuses, before queue.add has taken effect.
CrashBeforeEnqueue(j) ==
    /\ j \in enqueuing
    /\ faults.api < MaxApiCrashes
    /\ enqueuing' = enqueuing \ {j}
    /\ faults' = [faults EXCEPT !.api = @ + 1]
    /\ UNCHANGED <<storyVars, jobs, newestResearch, regenerations, queue, stalls, exec>>

-----------------------------------------------------------------------------
(* The worker: one delivery is a read of the job and story, then a commit *)

\* The queue hands a waiting entry to an idle worker, whose transaction reads
\* the job: a terminal one is acknowledged and left alone.
WorkerStart(w, j) ==
    /\ queue[j] = "waiting"
    /\ exec[w] = Idle
    /\ IF Active(j)
       THEN /\ queue' = [queue EXCEPT ![j] = w]
            /\ exec' = [exec EXCEPT ![w] = [job |-> j, wfDuring |-> workflowState]]
       ELSE /\ queue' = [queue EXCEPT ![j] = "done"]
            /\ UNCHANGED exec
    /\ UNCHANGED <<storyVars, jobs, newestResearch, regenerations, enqueuing, stalls, faults>>

\* The worker is free again; the queue entry ends if it is still the worker's.
Release(w) ==
    /\ exec' = [exec EXCEPT ![w] = Idle]
    /\ queue' = [q \in JobIds |->
                    IF q = exec[w].job /\ queue[q] = w THEN "done" ELSE queue[q]]

\* Mutant: the transition is logged from the state before the job.
FinishJobLogsPre(w, status, to) ==
    /\ RowFree
    /\ jobs' = [jobs EXCEPT ![exec[w].job].status = status]
    /\ MoveStory(jobs[exec[w].job].pre, to)
    /\ Release(w)
    /\ UNCHANGED <<storyStatus, draftExists, storyLock,
                   enqueuing, stalls, faults>>

\* The job and the story are written whatever they hold by now.
FinishJob(w, status, to) ==
    /\ RowFree
    /\ jobs' = [jobs EXCEPT ![exec[w].job].status = status]
    /\ MoveStory(exec[w].wfDuring, to)
    /\ Release(w)
    /\ UNCHANGED <<storyStatus, draftExists, storyLock,
                   enqueuing, stalls, faults>>

\* Mutant: the story becomes editable, whatever it was before the pass.
FinishResearchToEdit(w) ==
    LET j == exec[w].job
    IN  /\ j # 0
        /\ jobs[j].kind = "research"
        /\ FinishJob(w, "succeeded", "ready_for_edit")
        /\ newestResearch' = j
        /\ UNCHANGED <<verdict, regenerations>>

\* research.run: artifact, chronology and links are written once per job; the
\* story goes back to the state it had before the pass.
FinishResearch(w) ==
    LET j == exec[w].job
    IN  /\ j # 0
        /\ jobs[j].kind = "research"
        /\ FinishJob(w, "succeeded", jobs[j].pre)
        /\ newestResearch' = j
        /\ UNCHANGED <<verdict, regenerations>>

\* What makes runDraftAssemblyJob succeed.  No code ever fills in the section
\* candidates of a frame, so a section has none to be regenerated from.
CanAssemble(row) ==
    /\ draftExists
    /\ row.mode # "scoped_section_regeneration"
    /\ row.source \in SucceededResearch
    /\ row.mode = "scoped_event_regeneration" =>
          row.target.batch = regenerations /\ row.target.covered

\* draft.assemble, success: the events are replaced (full) or one is
\* rewritten (scoped).  Rebuilt events carry only sources in draft status, so
\* the content validates with a warning at best.
FinishAssembly(w) ==
    LET j == exec[w].job
    IN  /\ j # 0
        /\ jobs[j].kind = "assembly"
        /\ CanAssemble(jobs[j])
        /\ FinishJob(w, "succeeded", "ready_for_edit")
        /\ regenerations' = IF jobs[j].mode = "full_regeneration"
                            THEN regenerations + 1 ELSE regenerations
        /\ verdict' \in {"warn", "block"}
        /\ UNCHANGED newestResearch

\* Mutant: the job fails and the story is not restored.
FailAssemblyUnrestored(w) ==
    LET j == exec[w].job
    IN  /\ j # 0
        /\ jobs[j].kind = "assembly"
        /\ ~CanAssemble(jobs[j])
        /\ FinishJob(w, "failed", "assembling_draft")
        /\ UNCHANGED <<newestResearch, regenerations, verdict>>

\* failJob: the story goes back to the state it had before the assembly.
FailAssembly(w) ==
    LET j == exec[w].job
    IN  /\ j # 0
        /\ jobs[j].kind = "assembly"
        /\ ~CanAssemble(jobs[j])
        /\ FinishJob(w, "failed", jobs[j].pre)
        /\ UNCHANGED <<newestResearch, regenerations, verdict>>

\* The handler throws: its transaction is rolled back and, the entry having a
\* single attempt, the queue marks it failed.
WorkerThrow(w) ==
    /\ exec[w] # Idle
    /\ faults.throw < MaxThrows
    /\ Release(w)
    /\ faults' = [faults EXCEPT !.throw = @ + 1]
    /\ UNCHANGED <<storyVars, jobs, newestResearch, regenerations, enqueuing, stalls>>

\* The worker process dies: rolled back too, but the queue entry stays its own.
WorkerCrash(w) ==
    /\ exec[w] # Idle
    /\ faults.crash < MaxWorkerCrashes
    /\ exec' = [exec EXCEPT ![w] = Idle]
    /\ faults' = [faults EXCEPT !.crash = @ + 1]
    /\ UNCHANGED <<storyVars, jobs, newestResearch, regenerations, enqueuing, queue, stalls>>

\* BullMQ hands a stalled entry out once more, and gives it up the second time.
MaxStalledCount == 1

\* Mutants: a stalled entry is given up at once; stalls are counted down.
GiveUp(j) ==
    /\ queue' = [queue EXCEPT ![j] = "done"]
    /\ stalls' = [stalls EXCEPT ![j] = @ + 1]
    /\ UNCHANGED <<storyVars, jobs, newestResearch, regenerations, enqueuing, exec>>

RedeliverCountingDown(j) ==
    /\ queue' = [queue EXCEPT ![j] = "waiting"]
    /\ stalls' = [stalls EXCEPT ![j] = @ - 1]
    /\ UNCHANGED <<storyVars, jobs, newestResearch, regenerations, enqueuing, exec>>

Redeliver(j) ==
    /\ queue' = [queue EXCEPT ![j] = IF stalls[j] < MaxStalledCount
                                     THEN "waiting" ELSE "done"]
    /\ stalls' = [stalls EXCEPT ![j] = @ + 1]
    /\ UNCHANGED <<storyVars, jobs, newestResearch, regenerations, enqueuing, exec>>

\* The holder of the entry is gone: its lock expires.
StalledCheck(j) ==
    /\ queue[j] \in Workers
    /\ exec[queue[j]].job # j
    /\ Redeliver(j)
    /\ UNCHANGED faults

\* The holder is still running but has stopped renewing its lock.
LockLapse(j) ==
    /\ queue[j] \in Workers
    /\ exec[queue[j]].job = j
    /\ faults.lapse < MaxLapses
    /\ Redeliver(j)
    /\ faults' = [faults EXCEPT !.lapse = @ + 1]

-----------------------------------------------------------------------------

PipelineNext ==
    \/ \E k \in Keys : StartResearch(k)
    \/ \E k \in Keys, mode \in AssemblyModes : StartAssembly(k, mode)
    \/ \E j \in JobIds : Enqueue(j) \/ CrashBeforeEnqueue(j)
    \/ \E j \in JobIds : StalledCheck(j) \/ LockLapse(j)
    \/ \E w \in Workers, j \in JobIds : WorkerStart(w, j)
    \/ \E w \in Workers : FinishResearch(w) \/ FinishAssembly(w) \/ FailAssembly(w)
    \/ \E w \in Workers : WorkerThrow(w) \/ WorkerCrash(w)

(***************************************************************************)
(* The pipeline on its own: a story whose framing options exist, whose     *)
(* frame has been selected, or whose validation found blockers, and a      *)
(* creator who only runs jobs.                                             *)
(***************************************************************************)
PipelineInit ==
    /\ \/ /\ workflowState = "awaiting_framing_choice"
          /\ transition = [from |-> "drafting_brief", to |-> workflowState]
          /\ draftExists = FALSE /\ verdict = "block"
       \/ /\ workflowState = "ready_for_edit"
          /\ transition = [from |-> "awaiting_framing_choice", to |-> workflowState]
          /\ draftExists = TRUE /\ verdict = "warn"
       \/ /\ workflowState = "blocked"
          /\ transition = [from |-> "ready_for_edit", to |-> workflowState]
          /\ draftExists = TRUE /\ verdict = "block"
    /\ storyStatus = "draft"
    /\ storyLock = Unlocked
    /\ PipelineIdle

PipelineSpec == PipelineInit /\ [][PipelineNext]_<<storyVars, pipelineVars>>

(***************************************************************************)
(* The API goes on to call queue.add, idle workers take waiting entries    *)
(* and finish what they execute, and the queue's stalled check runs on a   *)
(* timer.  Nothing obliges the creator to start anything.                  *)
(***************************************************************************)
PipelineFairness ==
    /\ \A j \in JobIds : WF_<<storyVars, pipelineVars>>(Enqueue(j))
    /\ \A j \in JobIds : WF_<<storyVars, pipelineVars>>(StalledCheck(j))
    /\ \A w \in Workers :
          /\ WF_<<storyVars, pipelineVars>>(\E j \in JobIds : WorkerStart(w, j))
          /\ WF_<<storyVars, pipelineVars>>(
                FinishResearch(w) \/ FinishAssembly(w) \/ FailAssembly(w))

FairPipelineSpec == PipelineSpec /\ PipelineFairness

-----------------------------------------------------------------------------
(* Properties *)

BusyState(kind) == IF kind = "research" THEN "researching" ELSE "assembling_draft"

(***************************************************************************)
(* An accepted job that has not ended keeps the story in its busy state,   *)
(* so no other service may act on the story, and it is the only one.  The  *)
(* accepting transactions establish it and only the job's own end may      *)
(* break it.                                                               *)
(***************************************************************************)
JobHoldsStory ==
    /\ Cardinality(ActiveJobs) <= 1
    /\ \A j \in ActiveJobs : workflowState = BusyState(jobs[j].kind)

(***************************************************************************)
(* A busy story has a job row a client can poll: no path leaves the story  *)
(* busy after its job has ended, not even one that ran the job twice.      *)
(***************************************************************************)
BusyStoryHasJob ==
    \A kind \in {"research", "assembly"} :
        workflowState = BusyState(kind) => \E j \in ActiveJobs : jobs[j].kind = kind

(***************************************************************************)
(* While an assembly is pending no research can finish, so the chronology  *)
(* it will be built from is still the newest one when the worker gets to   *)
(* it, however long it waited in the queue.                                *)
(***************************************************************************)
AssemblyUsesNewestResearch ==
    \A j \in ActiveJobs :
        jobs[j].kind = "assembly" /\ jobs[j].source # 0
            => jobs[j].source = newestResearch

(***************************************************************************)
(* The transition log is a path: each row starts in the state in which     *)
(* the row before it ended, although the worker logs a state it read       *)
(* before it worked.                                                       *)
(***************************************************************************)
LogIsPath ==
    [][transition' # transition => transition'.from = transition.to]_transition

Executing(j) == \E w \in Workers : exec[w].job = j

(***************************************************************************)
(* A pending job is never forgotten: its request is about to queue it, the *)
(* queue still has it, or a worker is executing it, even one that has lost *)
(* its lock on the entry.                                                  *)
(***************************************************************************)
NoJobForgotten ==
    \A j \in ActiveJobs :
        \/ j \in enqueuing
        \/ queue[j] \in {"waiting"} \cup Workers
        \/ Executing(j)

(***************************************************************************)
(* A key stands for at most one job of a kind, whatever was retried.       *)
(***************************************************************************)
OneJobPerKey ==
    \A i, j \in DOMAIN jobs :
        jobs[i].kind = jobs[j].kind /\ jobs[i].key = jobs[j].key => i = j

(***************************************************************************)
(* Every accepted job ends: the poll of the job status page terminates.    *)
(***************************************************************************)
JobsEnd ==
    \A j \in JobIds : (j \in ActiveJobs) ~> (j \in DOMAIN jobs \ ActiveJobs)

(***************************************************************************)
(* An assembly takes the story from assembling_draft back to an editable   *)
(* or previous state; it never stays there for good.                       *)
(***************************************************************************)
AssemblyIsTransient ==
    (workflowState = "assembling_draft") ~> (workflowState # "assembling_draft")

=============================================================================
