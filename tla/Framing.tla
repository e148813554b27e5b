------------------------------- MODULE Framing -------------------------------
(***************************************************************************)
(* Framing: candidates are generated from the brief, and selecting one     *)
(* creates the story draft.                                                *)
(*                                                                         *)
(* selectFrame locks the story row, decides, and then writes the candidate *)
(* rows.  generateFramingOptions locks nothing it decides on: it reads the *)
(* story, reads the candidates (locking those it supersedes), and writes   *)
(* the story row last.  The two take the same row locks in opposite order; *)
(* the database breaks the deadlock by aborting one of them.               *)
(***************************************************************************)
EXTENDS StoryRecord

CONSTANTS
    Generators,     \* API requests executing POST frames/generate
    Selectors,      \* API requests executing POST frames/select
    BriefEditors,   \* API requests executing PATCH brief
    SelectKeys,     \* Idempotency-Key values used for selections
    MaxFrames,      \* bound: candidate rows ever created
    MaxBrief        \* bound: versions of the brief

ASSUME FramingAssumption ==
    /\ Unlocked \notin Selectors
    /\ MaxFrames \in Nat /\ MaxBrief \in Nat \ {0}

VARIABLES
    frames,         \* story_frame_draft rows in order of creation
    selectedFrame,  \* story_draft.selected_frame_id, 0 without a draft
    selectRows,     \* creator_frame_select_idempotency: key -> frame or 0
    gen,            \* transactions of the generate requests
    sel,            \* transactions of the select requests
    brief,          \* version of the story_brief row
    patch           \* brief version each PATCH request has read, 0 if none

framingVars == <<frames, selectedFrame, selectRows, gen, sel, brief, patch>>

\* Candidates made by one generation.
OPTION_COUNT == 3

ALLOWED_WORKFLOW_FOR_GENERATE == {"drafting_brief", "awaiting_framing_choice"}

BriefEditStates == {"drafting_brief", "awaiting_framing_choice", "ready_for_edit"}

FrameStatuses == {"proposed", "selected", "discarded", "superseded"}

FrameRows == [status : FrameStatuses, brief : Nat]

NoGen == [phase |-> "idle", replace |-> FALSE, wf |-> "drafting_brief",
          brief |-> 0, rows |-> {}]

NoSel == [frame |-> 0, key |-> "none"]

FramingTypeOK ==
    /\ frames \in Seq(FrameRows)
    /\ selectedFrame \in Nat
    /\ selectRows \in [SelectKeys -> Nat]
    /\ gen \in [Generators ->
                  [phase : {"idle", "story", "frames", "superseded"},
                   replace : BOOLEAN, wf : WorkflowStates, brief : Nat,
                   rows : SUBSET Nat]]
    /\ sel \in [Selectors -> [frame : Nat, key : SelectKeys \cup {"none"}]]
    /\ brief \in 1..MaxBrief
    /\ patch \in [BriefEditors -> 0..(MaxBrief - 1)]
    /\ storyLock \in {Unlocked} \cup Selectors

FramingIdle ==
    /\ frames = <<>>
    /\ selectedFrame = 0
    /\ selectRows = [k \in SelectKeys |-> 0]
    /\ gen = [g \in Generators |-> NoGen]
    /\ sel = [s \in Selectors |-> NoSel]
    /\ brief = 1
    /\ patch = [e \in BriefEditors |-> 0]

-----------------------------------------------------------------------------
(* Candidate rows *)

WithStatus(status) == {f \in DOMAIN frames : frames[f].status = status}

Proposed == WithStatus("proposed")

\* Candidate rows some generation has updated but not committed.
LockedBy(g) == IF gen[g].phase = "superseded" THEN gen[g].rows ELSE {}

LockedRows == UNION {LockedBy(g) : g \in Generators}

Reset(rows, status) ==
    [f \in DOMAIN frames |->
        IF f \in rows THEN [frames[f] EXCEPT !.status = status] ELSE frames[f]]

-----------------------------------------------------------------------------
(* generateFramingOptions *)

Generating == {g \in Generators : gen[g].phase # "idle"}

\* The story and its brief are read, and the workflow state is checked.
GenerateRead(g, replace) ==
    /\ gen[g].phase = "idle"
    /\ Len(frames) + OPTION_COUNT * (Cardinality(Generating) + 1) <= MaxFrames
    /\ workflowState \in ALLOWED_WORKFLOW_FOR_GENERATE
    /\ gen' = [gen EXCEPT ![g] = [NoGen EXCEPT !.phase = "story",
                                               !.replace = replace,
                                               !.wf = workflowState,
                                               !.brief = brief]]
    /\ UNCHANGED <<storyVars, frames, selectedFrame, selectRows, sel, brief, patch>>

\* Mutant: a request that finds candidates starts over.
GenerateReuseLoops(g) ==
    /\ gen[g].phase = "story"
    /\ ~gen[g].replace
    /\ Proposed # {}
    /\ UNCHANGED <<storyVars, framingVars>>

\* The open candidates are read: without `replace` they are returned as they
\* are, with it they are the ones to supersede.
GenerateReuse(g) ==
    /\ gen[g].phase = "story"
    /\ ~gen[g].replace
    /\ Proposed # {}
    /\ gen' = [gen EXCEPT ![g] = NoGen]
    /\ UNCHANGED <<storyVars, frames, selectedFrame, selectRows, sel, brief, patch>>

GenerateFrames(g) ==
    /\ gen[g].phase = "story"
    /\ gen[g].replace \/ Proposed = {}
    /\ gen' = [gen EXCEPT ![g].phase = "frames", ![g].rows = Proposed]
    /\ UNCHANGED <<storyVars, frames, selectedFrame, selectRows, sel, brief, patch>>

\* Mutant: candidates that are no longer proposed are superseded as well.
GenerateSupersedeBlind(g) ==
    /\ gen[g].phase = "frames"
    /\ gen[g].rows \cap LockedRows = {}
    /\ gen' = [gen EXCEPT ![g].phase = "superseded"]
    /\ UNCHANGED <<storyVars, frames, selectedFrame, selectRows, sel, brief, patch>>

\* The update that supersedes waits for rows another generation has updated
\* and then skips those no longer proposed.
GenerateSupersede(g) ==
    /\ gen[g].phase = "frames"
    /\ gen[g].rows \cap LockedRows = {}
    /\ gen' = [gen EXCEPT ![g].phase = "superseded",
                          ![g].rows = @ \cap Proposed]
    /\ UNCHANGED <<storyVars, frames, selectedFrame, selectRows, sel, brief, patch>>

\* The new candidates, and the story row, overwritten whatever it holds now.
GenerateCommit(g) ==
    /\ gen[g].phase = "superseded"
    /\ RowFree
    /\ frames' = Reset(gen[g].rows, "superseded") \o
                 [i \in 1..OPTION_COUNT |-> [status |-> "proposed",
                                             brief |-> gen[g].brief]]
    /\ MoveStory(gen[g].wf, "awaiting_framing_choice")
    /\ gen' = [gen EXCEPT ![g] = NoGen]
    /\ UNCHANGED <<storyStatus, draftExists, verdict, storyLock,
                   selectedFrame, selectRows, sel, brief, patch>>

-----------------------------------------------------------------------------
(* selectFrame *)

\* Mutant: a story that has a draft may select again.
SelectBeginAgain(s, k, f) ==
    /\ RowFree
    /\ sel[s] = NoSel
    /\ selectRows[k] = 0
    /\ workflowState = "awaiting_framing_choice"
    /\ f \in Proposed
    /\ storyLock' = s
    /\ sel' = [sel EXCEPT ![s] = [frame |-> f, key |-> k]]
    /\ UNCHANGED <<workflowState, storyStatus, draftExists, verdict,
                   transition, frames, selectedFrame, selectRows, gen, brief, patch>>

\* The story row is locked and the choice checked; a key used before replays
\* and changes nothing.
SelectBegin(s, k, f) ==
    /\ RowFree
    /\ sel[s] = NoSel
    /\ selectRows[k] = 0
    /\ workflowState = "awaiting_framing_choice"
    /\ ~draftExists
    /\ f \in Proposed
    /\ storyLock' = s
    /\ sel' = [sel EXCEPT ![s] = [frame |-> f, key |-> k]]
    /\ UNCHANGED <<workflowState, storyStatus, draftExists, verdict,
                   transition, frames, selectedFrame, selectRows, gen, brief, patch>>

\* The candidate rows a selection still has to write.
RowsToWrite(s) == Proposed \cup {sel[s].frame}

\* The other candidates are discarded, the draft is created from the chosen
\* one and the story becomes editable.  The draft has its header but no
\* timeline yet, so it would validate with a warning.
SelectCommit(s) ==
    /\ sel[s] # NoSel
    /\ RowsToWrite(s) \cap LockedRows = {}
    /\ frames' = [Reset(Proposed \ {sel[s].frame}, "discarded")
                    EXCEPT ![sel[s].frame].status = "selected"]
    /\ selectedFrame' = sel[s].frame
    /\ selectRows' = [selectRows EXCEPT ![sel[s].key] = sel[s].frame]
    /\ draftExists' = TRUE
    /\ verdict' = "warn"
    /\ MoveStory("awaiting_framing_choice", "ready_for_edit")
    /\ storyLock' = Unlocked
    /\ sel' = [sel EXCEPT ![s] = NoSel]
    /\ UNCHANGED <<storyStatus, gen, brief, patch>>

-----------------------------------------------------------------------------
(* The lock cycle, and the database's way out of it *)

Deadlocked(g, s) ==
    /\ sel[s] # NoSel
    /\ gen[g].phase = "superseded"
    /\ RowsToWrite(s) \cap gen[g].rows # {}

\* Mutant: the superseded candidates stay superseded.
AbortGenerateHalfway(g, s) ==
    /\ Deadlocked(g, s)
    /\ frames' = Reset(gen[g].rows, "superseded")
    /\ gen' = [gen EXCEPT ![g] = NoGen]
    /\ UNCHANGED <<storyVars, selectedFrame, selectRows, sel, brief, patch>>

AbortGenerate(g, s) ==
    /\ Deadlocked(g, s)
    /\ gen' = [gen EXCEPT ![g] = NoGen]
    /\ UNCHANGED <<storyVars, frames, selectedFrame, selectRows, sel, brief, patch>>

AbortSelect(g, s) ==
    /\ Deadlocked(g, s)
    /\ sel' = [sel EXCEPT ![s] = NoSel]
    /\ storyLock' = Unlocked
    /\ UNCHANGED <<workflowState, storyStatus, draftExists, verdict,
                   transition, frames, selectedFrame, selectRows, gen, brief, patch>>

-----------------------------------------------------------------------------
(* patchStoryBrief *)

PatchBriefRead(e) ==
    /\ patch[e] = 0
    /\ brief < MaxBrief
    /\ workflowState \in BriefEditStates
    /\ patch' = [patch EXCEPT ![e] = brief]
    /\ UNCHANGED <<storyVars, frames, selectedFrame, selectRows, gen, sel, brief>>

\* Mutant: the version read is not compared again.
PatchBriefBlind(e) ==
    /\ patch[e] # 0
    /\ brief' = brief + 1
    /\ patch' = [patch EXCEPT ![e] = 0]
    /\ UNCHANGED <<storyVars, frames, selectedFrame, selectRows, gen, sel>>

\* The version read is compared again by the update; otherwise it is a 409.
\* The candidates made from the older brief are not touched.
PatchBriefCommit(e) ==
    /\ patch[e] # 0
    /\ brief' = IF brief = patch[e] THEN brief + 1 ELSE brief
    /\ patch' = [patch EXCEPT ![e] = 0]
    /\ UNCHANGED <<storyVars, frames, selectedFrame, selectRows, gen, sel>>

-----------------------------------------------------------------------------

FramingNext ==
    \/ \E g \in Generators, replace \in BOOLEAN : GenerateRead(g, replace)
    \/ \E g \in Generators : \/ GenerateReuse(g) \/ GenerateFrames(g)
                             \/ GenerateSupersede(g) \/ GenerateCommit(g)
    \/ \E s \in Selectors, k \in SelectKeys, f \in Proposed : SelectBegin(s, k, f)
    \/ \E s \in Selectors : SelectCommit(s)
    \/ \E g \in Generators, s \in Selectors : AbortGenerate(g, s) \/ AbortSelect(g, s)
    \/ \E e \in BriefEditors : PatchBriefRead(e) \/ PatchBriefCommit(e)

FramingInit == StoryCreated /\ FramingIdle

FramingSpec == FramingInit /\ [][FramingNext]_<<storyVars, framingVars>>

\* A request under way runs to its end, and the database's deadlock detector
\* runs on a timer.  The three updates that wait for row locks wait in the
\* lock's queue, which is served in turn: requests that come later do not
\* overtake them for ever.  Nobody is obliged to make a request.
FramingFairness ==
    /\ \A g \in Generators :
          /\ WF_<<storyVars, framingVars>>(GenerateReuse(g) \/ GenerateFrames(g))
          /\ SF_<<storyVars, framingVars>>(GenerateSupersede(g))
          /\ SF_<<storyVars, framingVars>>(GenerateCommit(g))
    /\ \A s \in Selectors : SF_<<storyVars, framingVars>>(SelectCommit(s))
    /\ WF_<<storyVars, framingVars>>(
          \E g \in Generators, s \in Selectors : AbortGenerate(g, s) \/ AbortSelect(g, s))

FairFramingSpec == FramingSpec /\ FramingFairness

-----------------------------------------------------------------------------
(* Properties *)

(***************************************************************************)
(* A draft is based on exactly one selected candidate, and no generation   *)
(* that was under way when it was chosen supersedes it.                    *)
(***************************************************************************)
DraftKeepsItsFrame ==
    WithStatus("selected") = IF draftExists THEN {selectedFrame} ELSE {}

(***************************************************************************)
(* A creator who still has to choose finds something to choose from,       *)
(* although candidates are superseded and created all the time.            *)
(***************************************************************************)
SomethingToChoose ==
    workflowState = "awaiting_framing_choice" /\ ~draftExists => Proposed # {}

(***************************************************************************)
(* Every recorded selection is the one the draft was made from, so a       *)
(* replay never answers idempotency_replay_inconsistent.                   *)
(***************************************************************************)
ReplayIsConsistent ==
    \A k \in SelectKeys : selectRows[k] # 0 => selectRows[k] = selectedFrame

(***************************************************************************)
(* No request hangs: a generation and a selection that wait for each       *)
(* other's rows, or several generations, all come to an end.               *)
(***************************************************************************)
RequestsComplete ==
    /\ \A g \in Generators : (gen[g] # NoGen) ~> (gen[g] = NoGen)
    /\ \A s \in Selectors : (sel[s] # NoSel) ~> (sel[s] = NoSel)

(***************************************************************************)
(* In awaiting_framing_choice the creator may select a frame.              *)
(***************************************************************************)
AwaitingMeansSelectable ==
    workflowState = "awaiting_framing_choice" => ~draftExists

=============================================================================
