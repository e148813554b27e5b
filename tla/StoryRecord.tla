----------------------------- MODULE StoryRecord -----------------------------
(***************************************************************************)
(* The shared record of one story workspace: the row of table `stories`,   *)
(* the fact that its `story_draft` row exists, what the draft's content    *)
(* would score in validation, and the tail of the append-only table        *)
(* `story_workflow_transitions`.  Every service and the background worker  *)
(* of the application read and write this record; the modules that model   *)
(* them extend this one.                                                   *)
(*                                                                         *)
(* The database runs READ COMMITTED transactions.  A service that locks    *)
(* the story row first (SELECT ... FOR UPDATE) and decides afterwards is   *)
(* one atomic step; a service that reads first and writes later is a read  *)
(* step and a commit step, and any other step may come between them.       *)
(***************************************************************************)
EXTENDS Naturals, Sequences, FiniteSets

VARIABLES
    workflowState,  \* stories.workflow_state
    storyStatus,    \* stories.story_status
    draftExists,    \* the story has a story_draft row
    verdict,        \* what a validation of the draft's present content returns
    transition,     \* last row of story_workflow_transitions: [from, to]
    storyLock       \* the transaction that holds the row lock across steps

storyVars == <<workflowState, storyStatus, draftExists, verdict,
               transition, storyLock>>

WorkflowStates ==
    {"drafting_brief", "awaiting_framing_choice", "researching",
     "assembling_draft", "ready_for_edit", "needs_validation", "blocked",
     "ready_to_publish", "published"}

\* States in which the draft's header, sections, events and sources are edited.
EditStates == {"ready_for_edit", "blocked", "ready_to_publish", "published"}

\* What the validation engines find in a draft: nothing, only the missing
\* synthesis that some run types do not look for, other warnings, or blockers.
Verdicts == {"pass", "synthesis", "warn", "block"}

StoryStatuses == {"draft", "published"}

Unlocked == "unlocked"

(***************************************************************************)
(* createStoryWorkspace: a new story is a draft in drafting_brief,         *)
(* and its creation is the first row of the transition log.  It has no     *)
(* story_draft, so nothing to validate yet.                                *)
(***************************************************************************)
StoryCreated ==
    /\ workflowState = "drafting_brief"
    /\ storyStatus = "draft"
    /\ draftExists = FALSE
    /\ verdict = "block"
    /\ transition = [from |-> "none", to |-> "drafting_brief"]
    /\ storyLock = Unlocked

RowFree == storyLock = Unlocked

(***************************************************************************)
(* An update of stories.workflow_state together with appendIfChanged.      *)
(* `from` is the state the caller read earlier, which need not be the      *)
(* state the update overwrites.                                            *)
(***************************************************************************)
MoveStory(from, to) ==
    /\ workflowState' = to
    /\ transition' = IF from = to THEN transition
                                  ELSE [from |-> from, to |-> to]

StoryTypeOK ==
    /\ workflowState \in WorkflowStates
    /\ storyStatus \in StoryStatuses
    /\ draftExists \in BOOLEAN
    /\ verdict \in Verdicts
    /\ transition \in [from : WorkflowStates \cup {"none"}, to : WorkflowStates]

=============================================================================
