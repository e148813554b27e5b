--------------------------- MODULE StoryLifecycle ---------------------------
(***************************************************************************)
(* One story from its creation to its publication: framing, research and   *)
(* assembly jobs, editing, validation and publication act on the shared    *)
(* record at the same time.  Each service keeps the others out by the      *)
(* workflow state alone, so what one service may rely on depends on every  *)
(* state the others write, on however old a reading they decided.          *)
(***************************************************************************)
EXTENDS Framing, JobPipeline, Publishing

vars == <<storyVars, framingVars, pipelineVars, publishVars>>

Init == StoryCreated /\ FramingIdle /\ PipelineIdle /\ PublishingIdle

FramingStep == FramingNext /\ UNCHANGED <<pipelineVars, publishVars>>

PipelineStep == PipelineNext /\ UNCHANGED <<framingVars, publishVars>>

PublishingStep == PublishingNext /\ UNCHANGED <<framingVars, pipelineVars>>

Next == FramingStep \/ PipelineStep \/ PublishingStep

Spec == Init /\ [][Next]_vars

LifecycleTypeOK == StoryTypeOK /\ FramingTypeOK /\ PipelineTypeOK /\ PublishingTypeOK

-----------------------------------------------------------------------------
(* Properties *)

(***************************************************************************)
(* Whoever finds the story in a state in which its draft is edited,        *)
(* assembled, validated or published finds a draft.  Only a selection      *)
(* creates one, and the state before a job is restored long after it was   *)
(* read.                                                                   *)
(***************************************************************************)
DraftStates == {"assembling_draft", "ready_for_edit", "blocked",
                "ready_to_publish", "published"}

WorkableMeansDraft == workflowState \in DraftStates => draftExists

(***************************************************************************)
(* Publication keeps its promise in the company of every other service and *)
(* under every fault: a worker or a generation that moves the story on an  *)
(* old reading can withdraw it, but it is ready only over a latest report  *)
(* without blockers, and it is published once, from ready.                 *)
(***************************************************************************)
Gate == INSTANCE PublicationGate
            WITH ready <- workflowState = "ready_to_publish",
                 published <- storyStatus = "published",
                 report <- report

ImplementsGate == Gate!Spec

=============================================================================
