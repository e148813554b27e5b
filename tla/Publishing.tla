----------------------------- MODULE Publishing -----------------------------
(***************************************************************************)
(* Editing, validation and publication of a draft.                         *)
(*                                                                         *)
(* A validation locks the story row and is one atomic step.  Edits and     *)
(* publication do not lock it: an edit checks the workflow state and later *)
(* writes the object it edits, under that object's own version, and        *)
(* publication reads the state and the latest report, and later writes the *)
(* story where its state is still the one it read.                         *)
(***************************************************************************)
EXTENDS StoryRecord

CONSTANTS
    Editors,        \* API requests that edit the draft's content
    Publishers,     \* API requests executing POST publish
    PublishKeys     \* Idempotency-Key values used for publication

VARIABLES
    report,         \* overall result of the latest validation report
    editing,        \* edits that have passed their checks
    publishing,     \* publish requests that have passed their checks
    publishRows     \* creator_story_publish_idempotency: the keys

publishVars == <<report, editing, publishing, publishRows>>

OverallResults == {"pass", "warn", "block"}

ALLOWED_VALIDATION_STATES ==
    {"ready_for_edit", "needs_validation", "blocked", "ready_to_publish"}

\* A publish request: its key, and whether it acknowledges warnings.
Requests == [key : PublishKeys, ack : BOOLEAN]

NoRequest == [key |-> "none"]

PublishingTypeOK ==
    /\ report \in OverallResults \cup {"none"}
    /\ editing \subseteq Editors
    /\ publishing \in [Publishers -> Requests \cup {NoRequest}]
    /\ publishRows \subseteq PublishKeys

PublishingIdle ==
    /\ report = "none"
    /\ editing = {}
    /\ publishing = [p \in Publishers |-> NoRequest]
    /\ publishRows = {}

-----------------------------------------------------------------------------
(* Edits: the draft's header, its sections, events and sources *)

\* The workflow state is checked; restoring a revision does not check it.
EditBegin(e, restore) ==
    /\ e \notin editing
    /\ draftExists
    /\ restore \/ workflowState \in EditStates
    /\ editing' = editing \cup {e}
    /\ UNCHANGED <<storyVars, report, publishing, publishRows>>

\* The object is written under its own version, or the edit is a conflict.
\* Neither the workflow state nor the latest report is looked at or changed.
EditCommit(e) ==
    /\ e \in editing
    /\ verdict' \in Verdicts
    /\ editing' = editing \ {e}
    /\ UNCHANGED <<workflowState, storyStatus, draftExists,
                   transition, storyLock, report, publishing, publishRows>>

-----------------------------------------------------------------------------
(* runValidation, with a key not used before *)

\* What the engines return, by run type: where only the synthesis is missing,
\* the run types that look for it warn and the others find nothing.
Results == IF verdict = "synthesis" THEN {"warn", "pass"} ELSE {verdict}

RunValidation(result) ==
    /\ RowFree
    /\ draftExists
    /\ workflowState \in ALLOWED_VALIDATION_STATES
    /\ result \in Results
    /\ report' = result
    /\ MoveStory(workflowState,
                 IF result = "block" THEN "blocked" ELSE "ready_to_publish")
    /\ UNCHANGED <<storyStatus, draftExists, verdict, storyLock,
                   editing, publishing, publishRows>>

-----------------------------------------------------------------------------
(* publishStory *)

Publishable == workflowState = "ready_to_publish" /\ storyStatus # "published"

\* Every check of the handler, on one reading of the story and its report.
PublishRead(p, k, ack) ==
    /\ publishing[p] = NoRequest
    /\ k \notin publishRows
    /\ draftExists
    /\ Publishable
    /\ report \in {"pass", "warn"}
    /\ report = "warn" => ack
    /\ publishing' = [publishing EXCEPT ![p] = [key |-> k, ack |-> ack]]
    /\ UNCHANGED <<storyVars, report, editing, publishRows>>

\* Mutants: the update is unconditional; the request is reset before its key
\* is recorded.
PublishCommitBlind(p) ==
    /\ publishing[p] # NoRequest
    /\ RowFree
    /\ storyStatus' = "published"
    /\ MoveStory("ready_to_publish", "published")
    /\ publishRows' = publishRows \cup {publishing[p].key}
    /\ publishing' = [publishing EXCEPT ![p] = NoRequest]
    /\ UNCHANGED <<draftExists, verdict, storyLock, report, editing>>

PublishCommitResetFirst(p) ==
    /\ publishing[p] # NoRequest
    /\ RowFree
    /\ Publishable
    /\ storyStatus' = "published"
    /\ MoveStory("ready_to_publish", "published")
    /\ publishing' = [publishing EXCEPT ![p] = NoRequest]
    /\ publishRows' = publishRows \cup {publishing'[p].key}
    /\ UNCHANGED <<draftExists, verdict, storyLock, report, editing>>

\* The conditional update of the story row.
PublishCommit(p) ==
    /\ publishing[p] # NoRequest
    /\ RowFree
    /\ Publishable
    /\ storyStatus' = "published"
    /\ MoveStory("ready_to_publish", "published")
    /\ publishRows' = publishRows \cup {publishing[p].key}
    /\ publishing' = [publishing EXCEPT ![p] = NoRequest]
    /\ UNCHANGED <<draftExists, verdict, storyLock, report, editing>>

\* The update matches no row: publish_conflict.
PublishConflict(p) ==
    /\ publishing[p] # NoRequest
    /\ RowFree
    /\ ~Publishable
    /\ publishing' = [publishing EXCEPT ![p] = NoRequest]
    /\ UNCHANGED <<storyVars, report, editing, publishRows>>

-----------------------------------------------------------------------------

PublishingNext ==
    \/ \E e \in Editors, restore \in BOOLEAN : EditBegin(e, restore)
    \/ \E e \in Editors : EditCommit(e)
    \/ \E result \in OverallResults : RunValidation(result)
    \/ \E p \in Publishers, k \in PublishKeys, ack \in BOOLEAN : PublishRead(p, k, ack)
    \/ \E p \in Publishers : PublishCommit(p) \/ PublishConflict(p)

-----------------------------------------------------------------------------
(* Properties *)

(***************************************************************************)
(* A story is ready to publish only while its latest validation report has *)
(* no blockers: every other service that moves the story, on whatever      *)
(* stale reading, moves it elsewhere, and only a validation writes both.   *)
(***************************************************************************)
ReadyMeansValidated ==
    workflowState = "ready_to_publish" => report \in {"pass", "warn"}

(***************************************************************************)
(* However many requests race, with whatever keys, one of them publishes:  *)
(* there is one idempotency row exactly when the story is published.       *)
(***************************************************************************)
PublishedOnce ==
    Cardinality(publishRows) = IF storyStatus = "published" THEN 1 ELSE 0

(***************************************************************************)
(* Publish cannot succeed when blockers remain in the draft.               *)
(***************************************************************************)
NoBlockersPublished ==
    [][storyStatus' # storyStatus => verdict # "block"]_storyStatus

=============================================================================
