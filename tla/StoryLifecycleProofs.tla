------------------------ MODULE StoryLifecycleProofs ------------------------
(***************************************************************************)
(* Theorems about StoryLifecycle: what one service may rely on although    *)
(* the others act on the story at the same time.  They hold for every      *)
(* number of requests, workers, jobs and faults, lapses of queue locks     *)
(* included.                                                               *)
(***************************************************************************)
EXTENDS StoryLifecycle, JobPipelineProofs, FramingProofs

(***************************************************************************)
(* Why WorkableMeansDraft is inductive: a job restores the state it read   *)
(* when it was accepted, possibly twice, and in every such state but       *)
(* awaiting_framing_choice there was a draft already.                      *)
(***************************************************************************)
RestoredMeansDraft ==
    \A j \in DOMAIN jobs : jobs[j].pre # "awaiting_framing_choice" => draftExists

JobsFitStory == BusyStoryHasJob /\ WorkableMeansDraft /\ RestoredMeansDraft

LifecycleInv == FramingInv /\ Shape /\ JobsFitStory

\* What no service but publication does: to publish, to make ready, to report.
LeavesGateAlone ==
    /\ storyStatus' = storyStatus
    /\ workflowState' \in {workflowState} \cup (WorkflowStates \ {"ready_to_publish"})
    /\ report' = report

-----------------------------------------------------------------------------
(* Jobs *)

LEMMA AcceptFits ==
    ASSUME StoryTypeOK, Shape, JobsFitStory, NEW row \in JobRows,
           row.status = "pending", row.pre = workflowState,
           row.kind = "assembly" => draftExists,
           Accept(row, BusyState(row.kind))
    PROVE  /\ JobsFitStory'
           /\ UNCHANGED <<storyStatus, storyLock, draftExists>>
           /\ workflowState' \in {"researching", "assembling_draft"}
<1> DEFINE n == Len(jobs) + 1
<1>1. /\ DOMAIN jobs' = DOMAIN jobs \cup {n}
      /\ n \notin DOMAIN jobs
      /\ jobs'[n] = row
      /\ \A i \in DOMAIN jobs : jobs'[i] = jobs[i]
  BY RowAppended DEF Accept, Shape, PipelineTypeOK
<1> HIDE DEF n
<1>2. /\ row.kind \in {"research", "assembly"}
      /\ row.pre \in {"awaiting_framing_choice", "ready_for_edit", "blocked"}
  BY DEF JobRows, ALLOWED_ASSEMBLE
<1>3. /\ workflowState' = BusyState(row.kind)
      /\ UNCHANGED <<storyStatus, storyLock, draftExists>>
  BY DEF Accept, MoveStory
<1>4. n \in ActiveJobs'
  BY <1>1 DEF ActiveJobs, Active
<1>5. BusyStoryHasJob'
  BY <1>1, <1>2, <1>3, <1>4 DEF BusyStoryHasJob, BusyState
<1>6. WorkableMeansDraft'
  BY <1>2, <1>3 DEF WorkableMeansDraft, DraftStates, BusyState
<1>7. RestoredMeansDraft'
  <2>1. row.pre # "awaiting_framing_choice" => draftExists
    BY <1>2 DEF JobsFitStory, WorkableMeansDraft, DraftStates
  <2> QED
    BY <1>1, <1>3, <2>1 DEF JobsFitStory, RestoredMeansDraft
<1> QED
  BY <1>2, <1>3, <1>5, <1>6, <1>7 DEF JobsFitStory, BusyState

LEMMA FinishFits ==
    ASSUME StoryTypeOK, Shape, JobsFitStory, NEW w \in Workers,
           FinishResearch(w) \/ FinishAssembly(w) \/ FailAssembly(w)
    PROVE  /\ JobsFitStory'
           /\ UNCHANGED <<storyStatus, storyLock, draftExists>>
           /\ workflowState' \in ALLOWED_ASSEMBLE
<1> DEFINE j == exec[w].job
<1>1. j \in DOMAIN jobs /\ jobs[j].pre \in ALLOWED_ASSEMBLE
  BY JobEnds
<1>2. PICK status \in {"succeeded", "failed"}, to \in {jobs[j].pre, "ready_for_edit"} :
          /\ FinishJob(w, status, to)
          /\ to # jobs[j].pre => draftExists
  BY JobEnds
<1>3. /\ DOMAIN jobs' = DOMAIN jobs
      /\ \A i \in DOMAIN jobs : jobs'[i].pre = jobs[i].pre
  BY <1>1, <1>2, StatusUpdate DEF FinishJob, Shape, PipelineTypeOK, JobStatuses
<1> HIDE DEF j
<1>4. /\ workflowState' = to /\ to \in ALLOWED_ASSEMBLE
      /\ UNCHANGED <<storyStatus, storyLock, draftExists>>
  BY <1>1, <1>2 DEF FinishJob, MoveStory, ALLOWED_ASSEMBLE
<1>5. BusyStoryHasJob'
  BY <1>4 DEF BusyStoryHasJob, BusyState, ALLOWED_ASSEMBLE
<1>6. WorkableMeansDraft'
  BY <1>1, <1>2, <1>4 DEF JobsFitStory, RestoredMeansDraft, WorkableMeansDraft,
                          DraftStates, ALLOWED_ASSEMBLE
<1>7. RestoredMeansDraft'
  BY <1>3, <1>4 DEF JobsFitStory, RestoredMeansDraft
<1> QED
  BY <1>4, <1>5, <1>6, <1>7 DEF JobsFitStory

LEMMA PipelineFits ==
    ASSUME StoryTypeOK, Shape, JobsFitStory, PipelineNext
    PROVE  /\ JobsFitStory'
           /\ UNCHANGED <<storyStatus, storyLock, draftExists>>
           /\ workflowState' \in {workflowState, "researching", "assembling_draft"}
                                 \cup ALLOWED_ASSEMBLE
<1>1. CASE \/ \E k \in Keys : StartResearch(k)
           \/ \E k \in Keys, mode \in AssemblyModes : StartAssembly(k, mode)
  BY <1>1, AcceptedRow, AcceptFits
<1>2. CASE \E w \in Workers : FinishResearch(w) \/ FinishAssembly(w) \/ FailAssembly(w)
  BY <1>2, FinishFits
<1>3. CASE \/ \E j \in JobIds : \/ Enqueue(j) \/ CrashBeforeEnqueue(j)
                                \/ StalledCheck(j) \/ LockLapse(j)
           \/ \E w \in Workers, j \in JobIds : WorkerStart(w, j)
           \/ \E w \in Workers : WorkerThrow(w) \/ WorkerCrash(w)
  <2>1. jobs' = jobs /\ UNCHANGED storyVars
    BY <1>3 DEF Enqueue, CrashBeforeEnqueue, StalledCheck, LockLapse, Redeliver,
                WorkerStart, WorkerThrow, WorkerCrash
  <2> QED
    BY <2>1 DEF storyVars, JobsFitStory, BusyStoryHasJob, WorkableMeansDraft,
                RestoredMeansDraft, ActiveJobs, Active
<1> QED
  BY <1>1, <1>2, <1>3 DEF PipelineNext

LEMMA PipelineStepKeepsInv ==
    ASSUME LifecycleInv, PipelineStep
    PROVE  LifecycleInv' /\ LeavesGateAlone
<1>1. StoryTypeOK /\ Shape /\ JobsFitStory /\ PipelineNext
  BY DEF LifecycleInv, FramingInv, PipelineStep
<1>2. StoryTypeOK' /\ Shape'
  BY <1>1, StepKeepsShape
<1>3. /\ JobsFitStory'
      /\ UNCHANGED <<storyStatus, storyLock, draftExists>>
      /\ workflowState' \in {workflowState, "researching", "assembling_draft"}
                            \cup ALLOWED_ASSEMBLE
  BY <1>1, PipelineFits
<1>4. FramingInv'
  BY <1>2, <1>3, ElsewhereKeepsFramingInv DEF LifecycleInv, PipelineStep
<1>5. LeavesGateAlone
  BY <1>3 DEF LeavesGateAlone, PipelineStep, publishVars, ALLOWED_ASSEMBLE, WorkflowStates
<1> QED
  BY <1>2, <1>3, <1>4, <1>5 DEF LifecycleInv

-----------------------------------------------------------------------------
(* Framing *)

\* Another service leaves the pipeline's own tables alone.
LEMMA ElsewhereKeepsShape ==
    ASSUME Shape, UNCHANGED pipelineVars
    PROVE  Shape'
  BY DEF pipelineVars, Shape, PipelineTypeOK, RefersToJobs

LEMMA FramingFits ==
    ASSUME FramingNext
    PROVE  /\ storyStatus' = storyStatus
           /\ \/ UNCHANGED <<workflowState, draftExists>>
              \/ workflowState' = "awaiting_framing_choice" /\ draftExists' = draftExists
              \/ workflowState' = "ready_for_edit" /\ draftExists' = TRUE
  BY DEF FramingNext, GenerateRead, GenerateReuse, GenerateFrames, GenerateSupersede,
         GenerateCommit, SelectBegin, SelectCommit, AbortGenerate, AbortSelect,
         PatchBriefRead, PatchBriefCommit, MoveStory, storyVars

LEMMA FramingStepKeepsInv ==
    ASSUME LifecycleInv, FramingStep
    PROVE  LifecycleInv' /\ LeavesGateAlone
<1>1. FramingInv'
  BY StepKeepsFramingInv DEF LifecycleInv, FramingStep
<1>2. Shape'
  BY ElsewhereKeepsShape DEF LifecycleInv, FramingStep
<1>3. /\ storyStatus' = storyStatus
      /\ \/ UNCHANGED <<workflowState, draftExists>>
         \/ workflowState' = "awaiting_framing_choice" /\ draftExists' = draftExists
         \/ workflowState' = "ready_for_edit" /\ draftExists' = TRUE
  BY FramingFits DEF FramingStep
<1>4. jobs' = jobs /\ ActiveJobs' = ActiveJobs /\ report' = report
  BY DEF FramingStep, pipelineVars, publishVars, ActiveJobs, Active
<1>5. JobsFitStory'
  <2>1. BusyStoryHasJob'
    BY <1>3, <1>4 DEF LifecycleInv, JobsFitStory, BusyStoryHasJob, BusyState
  <2>2. WorkableMeansDraft'
    BY <1>3 DEF LifecycleInv, JobsFitStory, WorkableMeansDraft, DraftStates
  <2>3. RestoredMeansDraft'
    BY <1>3, <1>4 DEF LifecycleInv, JobsFitStory, RestoredMeansDraft
  <2> QED
    BY <2>1, <2>2, <2>3 DEF JobsFitStory
<1>6. LeavesGateAlone
  BY <1>3, <1>4 DEF LeavesGateAlone, WorkflowStates
<1> QED
  BY <1>1, <1>2, <1>5, <1>6 DEF LifecycleInv

-----------------------------------------------------------------------------
(* Publishing *)

\* What a step of publishing does to the gate.
LEMMA PublishingMoves ==
    ASSUME StoryTypeOK, PublishingNext
    PROVE  /\ draftExists' = draftExists /\ storyLock' = storyLock
           /\ StoryTypeOK'
           /\ \/ UNCHANGED <<workflowState, storyStatus, report>>
              \/ /\ \E result \in OverallResults :
                       /\ report' = result
                       /\ workflowState' = IF result = "block" THEN "blocked"
                                                               ELSE "ready_to_publish"
                 /\ storyStatus' = storyStatus /\ draftExists
              \/ /\ workflowState = "ready_to_publish" /\ storyStatus # "published"
                 /\ workflowState' = "published" /\ storyStatus' = "published"
                 /\ report' = report
<1>1. CASE \E e \in Editors, restore \in BOOLEAN : EditBegin(e, restore)
  BY <1>1 DEF EditBegin, storyVars, StoryTypeOK
<1>2. CASE \E e \in Editors : EditCommit(e)
  BY <1>2 DEF EditCommit, StoryTypeOK
<1>3. CASE \E result \in OverallResults : RunValidation(result)
  <2>1. PICK result \in OverallResults : RunValidation(result)
    BY <1>3
  <2>2. StoryTypeOK'
    BY <2>1 DEF RunValidation, MoveStory, StoryTypeOK, WorkflowStates
  <2> QED
    BY <2>1, <2>2 DEF RunValidation, MoveStory
<1>4. CASE \E p \in Publishers, k \in PublishKeys, ack \in BOOLEAN : PublishRead(p, k, ack)
  BY <1>4 DEF PublishRead, storyVars, StoryTypeOK
<1>5. CASE \E p \in Publishers : PublishCommit(p)
  <2>1. StoryTypeOK'
    BY <1>5 DEF PublishCommit, MoveStory, StoryTypeOK, WorkflowStates, StoryStatuses
  <2> QED
    BY <1>5, <2>1 DEF PublishCommit, MoveStory, Publishable
<1>6. CASE \E p \in Publishers : PublishConflict(p)
  BY <1>6 DEF PublishConflict, storyVars, StoryTypeOK
<1> QED
  BY <1>1, <1>2, <1>3, <1>4, <1>5, <1>6 DEF PublishingNext

LEMMA PublishingStepKeepsInv ==
    ASSUME LifecycleInv, PublishingStep
    PROVE  LifecycleInv'
<1>1. StoryTypeOK /\ PublishingNext
  BY DEF LifecycleInv, FramingInv, PublishingStep
<1>2. /\ draftExists' = draftExists /\ storyLock' = storyLock /\ StoryTypeOK'
      /\ \/ workflowState' = workflowState
         \/ workflowState' \in {"blocked", "ready_to_publish"} /\ draftExists
         \/ workflowState = "ready_to_publish" /\ workflowState' = "published"
  BY <1>1, PublishingMoves
<1>3. FramingInv' /\ Shape'
  BY <1>2, ElsewhereKeepsFramingInv, ElsewhereKeepsShape DEF LifecycleInv, PublishingStep
<1>4. jobs' = jobs /\ ActiveJobs' = ActiveJobs
  BY DEF PublishingStep, pipelineVars, ActiveJobs, Active
<1>5. BusyStoryHasJob'
  BY <1>2, <1>4 DEF LifecycleInv, JobsFitStory, BusyStoryHasJob, BusyState
<1>6. WorkableMeansDraft'
  BY <1>2 DEF LifecycleInv, JobsFitStory, WorkableMeansDraft, DraftStates
<1>7. RestoredMeansDraft'
  BY <1>2, <1>4 DEF LifecycleInv, JobsFitStory, RestoredMeansDraft
<1> QED
  BY <1>3, <1>5, <1>6, <1>7 DEF LifecycleInv, JobsFitStory

-----------------------------------------------------------------------------

LEMMA StutterKeepsInv ==
    ASSUME LifecycleInv, UNCHANGED vars
    PROVE  LifecycleInv'
<1>1. UNCHANGED <<storyVars, framingVars, pipelineVars>>
  BY DEF vars
<1>2. StoryTypeOK' /\ UNCHANGED <<framingVars, storyLock, draftExists>>
  BY <1>1 DEF LifecycleInv, FramingInv, StoryTypeOK, storyVars
<1>3. FramingInv' /\ Shape'
  BY <1>1, <1>2, ElsewhereKeepsFramingInv, ElsewhereKeepsShape DEF LifecycleInv
<1>4. JobsFitStory'
  BY <1>1 DEF LifecycleInv, JobsFitStory, BusyStoryHasJob, WorkableMeansDraft,
              RestoredMeansDraft, ActiveJobs, Active, storyVars, pipelineVars
<1> QED
  BY <1>3, <1>4 DEF LifecycleInv

LEMMA InitHasInv == Init => LifecycleInv
<1> SUFFICES ASSUME Init PROVE LifecycleInv
  OBVIOUS
<1>1. FramingInv
  BY IdleFramingInv DEF Init
<1>2. Shape
  BY IdleHasShape DEF Init
<1>3. workflowState = "drafting_brief" /\ DOMAIN jobs = {}
  BY DEF Init, StoryCreated, PipelineIdle
<1>4. JobsFitStory
  BY <1>3 DEF JobsFitStory, BusyStoryHasJob, BusyState, WorkableMeansDraft, DraftStates,
              RestoredMeansDraft
<1> QED
  BY <1>1, <1>2, <1>4 DEF LifecycleInv

LEMMA AlwaysLifecycleInv == Spec => []LifecycleInv
<1>1. LifecycleInv /\ [Next]_vars => LifecycleInv'
  BY FramingStepKeepsInv, PipelineStepKeepsInv, PublishingStepKeepsInv, StutterKeepsInv
     DEF Next
<1> QED
  BY <1>1, InitHasInv, PTL DEF Spec

(***************************************************************************)
(* Whatever the other services do and however often the queue delivers a   *)
(* job, a story in a busy state has a job of that kind which is pending.   *)
(***************************************************************************)
THEOREM BusyStoryIsPolled == Spec => []BusyStoryHasJob
<1>1. LifecycleInv => BusyStoryHasJob
  BY DEF LifecycleInv, JobsFitStory
<1> QED
  BY <1>1, AlwaysLifecycleInv, PTL

(***************************************************************************)
(* A story that is edited, assembled, validated or published has a draft,  *)
(* and that draft keeps the one frame it was made from.                    *)
(***************************************************************************)
THEOREM WorkableHasDraft == Spec => [](WorkableMeansDraft /\ DraftKeepsItsFrame)
<1>1. LifecycleInv => WorkableMeansDraft /\ DraftKeepsItsFrame
  BY DEF LifecycleInv, JobsFitStory, FramingInv
<1> QED
  BY <1>1, AlwaysLifecycleInv, PTL

(***************************************************************************)
(* The story implements the publication gate: only a validation makes it   *)
(* ready, only a ready story is published, every other step withdraws it   *)
(* or leaves it alone.                                                     *)
(***************************************************************************)
THEOREM StoryImplementsGate == Spec => ImplementsGate
<1>1. Init => Gate!Init
  BY DEF Init, StoryCreated, PublishingIdle, Gate!Init
<1>2. LifecycleInv /\ [Next]_vars => [Gate!Next]_Gate!gateVars
  <2> SUFFICES ASSUME LifecycleInv, [Next]_vars
               PROVE  [Gate!Next]_Gate!gateVars
    OBVIOUS
  <2> USE DEF Gate!gateVars
  <2>1. ASSUME LeavesGateAlone PROVE [Gate!Next]_Gate!gateVars
    BY <2>1 DEF LeavesGateAlone, Gate!Next, Gate!Withdraw
  <2>2. CASE PublishingStep
    <3>1. StoryTypeOK /\ PublishingNext
      BY <2>2 DEF LifecycleInv, FramingInv, PublishingStep
    <3>2. CASE UNCHANGED <<workflowState, storyStatus, report>>
      BY <3>2
    <3>3. CASE /\ \E result \in OverallResults :
                     /\ report' = result
                     /\ workflowState' = IF result = "block" THEN "blocked"
                                                             ELSE "ready_to_publish"
               /\ storyStatus' = storyStatus
      BY <3>3 DEF OverallResults, Gate!Next, Gate!Review
    <3>4. CASE /\ workflowState = "ready_to_publish" /\ storyStatus # "published"
               /\ workflowState' = "published" /\ storyStatus' = "published"
               /\ report' = report
      BY <3>4 DEF Gate!Next, Gate!Publish
    <3> QED
      BY <3>1, <3>2, <3>3, <3>4, PublishingMoves
  <2>3. CASE UNCHANGED vars
    BY <2>3 DEF vars, storyVars, publishVars
  <2> QED
    BY <2>1, <2>2, <2>3, FramingStepKeepsInv, PipelineStepKeepsInv DEF Next
<1> QED
  BY <1>1, <1>2, AlwaysLifecycleInv, PTL DEF Spec, ImplementsGate, Gate!Spec

(***************************************************************************)
(* In the whole system, as in Publishing alone, a story is ready only      *)
(* while its latest report has no blockers: a consequence of the gate.     *)
(***************************************************************************)
THEOREM ReadyIsValidated == Spec => []ReadyMeansValidated
<1>1. Gate!Init => ReadyMeansValidated
  BY DEF Gate!Init, ReadyMeansValidated
<1>2. ReadyMeansValidated /\ [Gate!Next]_Gate!gateVars => ReadyMeansValidated'
  BY DEF ReadyMeansValidated, Gate!Next, Gate!gateVars, Gate!Review, Gate!Withdraw,
         Gate!Publish
<1>3. Gate!Spec => []ReadyMeansValidated
  BY <1>1, <1>2, PTL DEF Gate!Spec
<1> QED
  BY <1>3, StoryImplementsGate, PTL DEF ImplementsGate

-----------------------------------------------------------------------------
(* Promises of the single services, kept in the company of the others *)

\* PublishedOnce, without counting.
OneKeyWhenPublished ==
    IF storyStatus = "published" THEN \E k : publishRows = {k} ELSE publishRows = {}

(***************************************************************************)
(* Why SomethingToChoose survives the jobs: one of them may take the story *)
(* back to awaiting_framing_choice long after it was accepted, so there    *)
(* must be a candidate in every state that comes after the brief.          *)
(***************************************************************************)
OffersRemain ==
    /\ DOMAIN jobs # {} => workflowState # "drafting_brief"
    /\ workflowState # "drafting_brief" /\ ~draftExists => Proposed # {}

PromisesInv ==
    /\ PublishingTypeOK /\ OneKeyWhenPublished
    /\ OneJobPerKey
    /\ ChoiceInv /\ OffersRemain

LEMMA OffersAreChoices ==
    ASSUME OffersRemain
    PROVE  SomethingToChoose
  BY DEF OffersRemain, SomethingToChoose

LEMMA FramingKeepsPromises ==
    ASSUME LifecycleInv, PromisesInv, FramingStep
    PROVE  PromisesInv'
<1>1. FramingInv /\ FramingNext /\ UNCHANGED <<pipelineVars, publishVars>>
  BY DEF LifecycleInv, FramingStep
<1>2. ChoiceInv'
  BY <1>1, StepKeepsChoiceInv DEF PromisesInv
<1>3. /\ storyStatus' = storyStatus
      /\ \/ UNCHANGED <<workflowState, draftExists>>
         \/ workflowState' = "awaiting_framing_choice" /\ draftExists' = draftExists
         \/ workflowState' = "ready_for_edit" /\ draftExists' = TRUE
  BY <1>1, FramingFits
<1>4. PublishingTypeOK' /\ OneKeyWhenPublished' /\ OneJobPerKey'
  BY <1>1, <1>3 DEF PromisesInv, PublishingTypeOK, OneKeyWhenPublished, OneJobPerKey,
                    pipelineVars, publishVars
<1>5. OffersRemain'
  <2>1. DOMAIN jobs' # {} => workflowState' # "drafting_brief"
    BY <1>1, <1>3 DEF PromisesInv, OffersRemain, pipelineVars
  <2>2. CASE \E g \in Generators : GenerateCommit(g)
    BY <1>1, <2>1, <2>2, GenerateCommitOffers DEF OffersRemain
  <2>3. CASE \E s \in Selectors : SelectCommit(s)
    BY <2>1, <2>3 DEF SelectCommit, OffersRemain
  <2>4. CASE UNCHANGED <<workflowState, draftExists, frames>>
    BY <2>1, <2>4 DEF PromisesInv, OffersRemain, Proposed, WithStatus
  <2> QED
    BY <1>1, <2>2, <2>3, <2>4
       DEF FramingNext, GenerateRead, GenerateReuse, GenerateFrames, GenerateSupersede,
           SelectBegin, AbortGenerate, AbortSelect, PatchBriefRead, PatchBriefCommit,
           storyVars
<1> QED
  BY <1>2, <1>4, <1>5 DEF PromisesInv

LEMMA PipelineKeepsPromises ==
    ASSUME LifecycleInv, PromisesInv, PipelineStep
    PROVE  PromisesInv'
<1>1. /\ StoryTypeOK /\ Shape /\ JobsFitStory /\ PipelineNext
      /\ UNCHANGED <<framingVars, publishVars>>
  BY DEF LifecycleInv, FramingInv, PipelineStep
<1>2. OneJobPerKey'
  BY <1>1, StepKeepsKeys DEF PromisesInv
<1>3. /\ UNCHANGED <<storyStatus, storyLock, draftExists>>
      /\ workflowState' \in {workflowState, "researching", "assembling_draft"}
                            \cup ALLOWED_ASSEMBLE
  BY <1>1, PipelineFits
<1>4. PublishingTypeOK' /\ OneKeyWhenPublished'
  BY <1>1, <1>3 DEF PromisesInv, PublishingTypeOK, OneKeyWhenPublished, publishVars
<1>5. OffersRemain'
  <2>1. CASE \/ \E k \in Keys : StartResearch(k)
             \/ \E k \in Keys, mode \in AssemblyModes : StartAssembly(k, mode)
    <3>1. workflowState # "drafting_brief" /\ workflowState' # "drafting_brief"
      <4>1. PICK row \in JobRows : /\ row.status = "pending" /\ row.pre = workflowState
                                   /\ row.kind = "assembly" => draftExists
                                   /\ Accept(row, BusyState(row.kind))
        BY <1>1, <2>1, AcceptedRow
      <4>2. row.pre # "drafting_brief"
        BY DEF JobRows, ALLOWED_ASSEMBLE
      <4>3. workflowState' \in {"researching", "assembling_draft"}
        BY <1>1, <4>1, AcceptFits
      <4> QED
        BY <4>1, <4>2, <4>3
    <3> QED
      BY <1>1, <1>3, <3>1 DEF PromisesInv, OffersRemain, Proposed, WithStatus, framingVars
  <2>2. CASE \E w \in Workers : FinishResearch(w) \/ FinishAssembly(w) \/ FailAssembly(w)
    <3>1. workflowState # "drafting_brief"
      BY <1>1, <2>2, JobEnds DEF PromisesInv, OffersRemain
    <3>2. workflowState' # "drafting_brief"
      BY <1>1, <2>2, FinishFits DEF ALLOWED_ASSEMBLE
    <3> QED
      BY <1>1, <1>3, <3>1, <3>2
         DEF PromisesInv, OffersRemain, Proposed, WithStatus, framingVars
  <2>3. CASE UNCHANGED <<jobs, storyVars>>
    BY <1>1, <2>3 DEF PromisesInv, OffersRemain, Proposed, WithStatus, framingVars,
                      storyVars
  <2> QED
    BY <1>1, <2>1, <2>2, <2>3
       DEF PipelineNext, Enqueue, CrashBeforeEnqueue, StalledCheck, LockLapse,
           Redeliver, WorkerStart, WorkerThrow, WorkerCrash
<1>6. ReplayIsConsistent' /\ RecordedMeansDraft'
  BY <1>1, <1>3 DEF PromisesInv, ChoiceInv, ReplayIsConsistent, RecordedMeansDraft,
                    framingVars
<1> QED
  BY <1>2, <1>4, <1>5, <1>6, OffersAreChoices DEF PromisesInv, ChoiceInv, OffersRemain,
     SomethingToChoose

LEMMA PublishingKeepsPromises ==
    ASSUME LifecycleInv, PromisesInv, PublishingStep
    PROVE  PromisesInv'
<1>1. StoryTypeOK /\ PublishingNext /\ UNCHANGED <<framingVars, pipelineVars>>
  BY DEF LifecycleInv, FramingInv, PublishingStep
<1>2. /\ draftExists' = draftExists
      /\ \/ workflowState' = workflowState
         \/ workflowState' \in {"blocked", "ready_to_publish"} /\ draftExists
         \/ workflowState = "ready_to_publish" /\ workflowState' = "published"
  BY <1>1, PublishingMoves
<1>3. OneJobPerKey'
  BY <1>1 DEF PromisesInv, OneJobPerKey, pipelineVars
<1>4. ReplayIsConsistent' /\ RecordedMeansDraft'
  BY <1>1, <1>2 DEF PromisesInv, ChoiceInv, ReplayIsConsistent, RecordedMeansDraft,
                    framingVars
<1>5. OffersRemain' /\ SomethingToChoose'
  BY <1>1, <1>2 DEF PromisesInv, OffersRemain, SomethingToChoose, Proposed, WithStatus,
                    framingVars, pipelineVars
<1>6. PublishingTypeOK' /\ OneKeyWhenPublished'
  <2>1. ASSUME NEW p \in Publishers, PublishCommit(p)
        PROVE  PublishingTypeOK' /\ OneKeyWhenPublished'
    <3>1. publishing[p].key \in PublishKeys
      BY <2>1 DEF PublishCommit, PromisesInv, PublishingTypeOK, Requests
    <3>2. OneKeyWhenPublished'
      BY <2>1 DEF PublishCommit, Publishable, PromisesInv, OneKeyWhenPublished
    <3> QED
      BY <2>1, <3>1, <3>2 DEF PublishCommit, PromisesInv, PublishingTypeOK
  <2>2. ASSUME NEW p \in Publishers, NEW k \in PublishKeys, NEW ack \in BOOLEAN,
               PublishRead(p, k, ack)
        PROVE  PublishingTypeOK' /\ OneKeyWhenPublished'
    BY <2>2 DEF PublishRead, PromisesInv, PublishingTypeOK, OneKeyWhenPublished, Requests,
                storyVars
  <2>3. ASSUME NEW p \in Publishers, PublishConflict(p)
        PROVE  PublishingTypeOK' /\ OneKeyWhenPublished'
    BY <2>3 DEF PublishConflict, PromisesInv, PublishingTypeOK, OneKeyWhenPublished,
                storyVars
  <2>4. CASE \/ \E e \in Editors, restore \in BOOLEAN : EditBegin(e, restore)
             \/ \E e \in Editors : EditCommit(e)
             \/ \E result \in OverallResults : RunValidation(result)
    BY <2>4 DEF EditBegin, EditCommit, RunValidation, PromisesInv, PublishingTypeOK,
                OneKeyWhenPublished, storyVars
  <2> QED
    BY <1>1, <2>1, <2>2, <2>3, <2>4 DEF PublishingNext
<1> QED
  BY <1>3, <1>4, <1>5, <1>6 DEF PromisesInv, ChoiceInv

LEMMA AlwaysPromises == Spec => []PromisesInv
<1>1. Init => PromisesInv
  BY DEF Init, StoryCreated, FramingIdle, PipelineIdle, PublishingIdle, PromisesInv,
         PublishingTypeOK, OneKeyWhenPublished, OneJobPerKey, ChoiceInv, OffersRemain,
         SomethingToChoose, ReplayIsConsistent, RecordedMeansDraft
<1>2. ASSUME PromisesInv, UNCHANGED vars PROVE PromisesInv'
  BY <1>2 DEF vars, storyVars, framingVars, pipelineVars, publishVars, PromisesInv,
              PublishingTypeOK, OneKeyWhenPublished, OneJobPerKey, ChoiceInv, OffersRemain,
              SomethingToChoose, ReplayIsConsistent, RecordedMeansDraft, Proposed, WithStatus
<1>3. LifecycleInv /\ PromisesInv /\ [Next]_vars => PromisesInv'
  BY <1>2, FramingKeepsPromises, PipelineKeepsPromises, PublishingKeepsPromises DEF Next
<1> QED
  BY <1>1, <1>3, AlwaysLifecycleInv, PTL DEF Spec

(***************************************************************************)
(* Retried and racing requests do in the whole system what they do in each *)
(* service: a key of a job stands for one job, a replayed selection        *)
(* answers with the draft's frame, and the story is published by one       *)
(* request, whatever moves the other services make in between.             *)
(***************************************************************************)
THEOREM KeysKeepTheirMeaning ==
    Spec => [](OneJobPerKey /\ ReplayIsConsistent /\ PublishedOnce)
<1>1. OneKeyWhenPublished => PublishedOnce
  <2>1. Cardinality({}) = 0 /\ \A k : Cardinality({k}) = 1
    BY FS_EmptySet, FS_Singleton
  <2> QED
    BY <2>1 DEF OneKeyWhenPublished, PublishedOnce
<1>2. PromisesInv => OneJobPerKey /\ ReplayIsConsistent /\ PublishedOnce
  BY <1>1 DEF PromisesInv, ChoiceInv
<1> QED
  BY <1>2, AlwaysPromises, PTL

(***************************************************************************)
(* A creator who is asked to choose a frame has a candidate, also when it  *)
(* is a job, finishing or failing late, that puts the story back there.    *)
(***************************************************************************)
THEOREM AChoiceRemains == Spec => []SomethingToChoose
<1>1. PromisesInv => SomethingToChoose
  BY OffersAreChoices DEF PromisesInv
<1> QED
  BY <1>1, AlwaysPromises, PTL

(***************************************************************************)
(* Every service keeps the types of its own part and of the shared record. *)
(***************************************************************************)
THEOREM LifecycleTypeCorrect == Spec => []LifecycleTypeOK
<1>1. LifecycleInv /\ PromisesInv => LifecycleTypeOK
  BY DEF LifecycleInv, FramingInv, Shape, PromisesInv, LifecycleTypeOK
<1> QED
  BY <1>1, AlwaysLifecycleInv, AlwaysPromises, PTL

=============================================================================
