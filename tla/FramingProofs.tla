---------------------------- MODULE FramingProofs ----------------------------
(***************************************************************************)
(* Theorems about Framing.  As in JobPipelineProofs the step lemmas speak  *)
(* of FramingNext, for the composed system to use.                         *)
(***************************************************************************)
EXTENDS Framing, SequenceTheorems, TLAPS

(***************************************************************************)
(* A generation that has superseded rows still finds them proposed when it *)
(* commits, and no two generations hold the same row.                      *)
(***************************************************************************)
LockedStayProposed ==
    /\ \A g \in Generators : LockedBy(g) \subseteq Proposed
    /\ \A g, h \in Generators : g # h => LockedBy(g) \cap LockedBy(h) = {}

(***************************************************************************)
(* A selection under way holds the story row, and nobody else has touched  *)
(* the frame it chose or created the draft in the meantime.                *)
(***************************************************************************)
SelectionHolds ==
    \A s \in Selectors :
        sel[s] # NoSel => storyLock = s /\ sel[s].frame \in Proposed /\ ~draftExists

FramingInv ==
    StoryTypeOK /\ FramingTypeOK /\ LockedStayProposed /\ SelectionHolds /\ DraftKeepsItsFrame

-----------------------------------------------------------------------------
(* Candidate rows *)

LEMMA ResetRows ==
    ASSUME FramingTypeOK, NEW rows, NEW status \in FrameStatuses
    PROVE  /\ Reset(rows, status) \in Seq(FrameRows)
           /\ DOMAIN Reset(rows, status) = DOMAIN frames
           /\ Len(Reset(rows, status)) = Len(frames)
           /\ \A f \in DOMAIN frames :
                 Reset(rows, status)[f].status =
                     IF f \in rows THEN status ELSE frames[f].status
<1>1. Len(frames) \in Nat /\ DOMAIN frames = 1..Len(frames)
  BY DEF FramingTypeOK
<1>2. \A f \in DOMAIN frames : frames[f] \in FrameRows
  BY ElementOfSeq DEF FramingTypeOK
<1>3. \A f \in DOMAIN frames : [frames[f] EXCEPT !.status = status] \in FrameRows
  BY <1>2 DEF FrameRows
<1>4. Reset(rows, status) \in [1..Len(frames) -> FrameRows]
  BY <1>1, <1>2, <1>3 DEF Reset
<1>5. Reset(rows, status) \in Seq(FrameRows) /\ Len(Reset(rows, status)) = Len(frames)
  BY <1>1, <1>4
<1>6. ASSUME NEW f \in DOMAIN frames
      PROVE  Reset(rows, status)[f].status = IF f \in rows THEN status ELSE frames[f].status
  BY <1>2, <1>6 DEF Reset, FrameRows
<1> QED
  BY <1>1, <1>5, <1>6 DEF Reset

LEMMA NewRows ==
    ASSUME FramingTypeOK, NEW g \in Generators
    PROVE  [i \in 1..OPTION_COUNT |-> [status |-> "proposed", brief |-> gen[g].brief]]
               \in Seq(FrameRows)
<1>1. gen[g].brief \in Nat
  BY DEF FramingTypeOK
<1>2. [status |-> "proposed", brief |-> gen[g].brief] \in FrameRows
  BY <1>1 DEF FrameRows, FrameStatuses
<1> DEFINE row == [status |-> "proposed", brief |-> gen[g].brief]
<1> HIDE DEF row
<1>3. OPTION_COUNT \in Nat
  BY DEF OPTION_COUNT
<1>4. row \in FrameRows
  BY <1>2 DEF row
<1>5. [i \in 1..OPTION_COUNT |-> row] \in Seq(FrameRows)
  BY <1>3, <1>4
<1> QED
  BY <1>5 DEF row

-----------------------------------------------------------------------------
(* Every step of framing keeps the invariant *)

LEMMA NoGenIsIdle ==
    /\ NoGen \in [phase : {"idle", "story", "frames", "superseded"},
                  replace : BOOLEAN, wf : WorkflowStates, brief : Nat,
                  rows : SUBSET Nat]
    /\ NoGen.phase = "idle"
  BY DEF NoGen, WorkflowStates

LEMMA NoSelIsIdle ==
    NoSel \in [frame : Nat, key : SelectKeys \cup {"none"}]
  BY DEF NoSel

\* Nobody selects while the story row is free.
LEMMA FreeRowNoSelection ==
    ASSUME FramingInv, RowFree
    PROVE  \A s \in Selectors : sel[s] = NoSel
  BY FramingAssumption DEF FramingInv, SelectionHolds, RowFree

(***************************************************************************)
(* A generation that has not superseded anything yet, or no longer, locks  *)
(* no row; moving between such phases disturbs nobody.                     *)
(***************************************************************************)
LEMMA QuietGeneration ==
    ASSUME FramingInv, NEW g \in Generators,
           NEW x \in [phase : {"idle", "story", "frames", "superseded"},
                     replace : BOOLEAN, wf : WorkflowStates, brief : Nat,
                     rows : SUBSET Nat],
           x.phase # "superseded",
           gen' = [gen EXCEPT ![g] = x],
           UNCHANGED <<storyVars, frames, selectedFrame, selectRows, sel, brief, patch>>
    PROVE  FramingInv'
<1>1. FramingTypeOK /\ StoryTypeOK
  BY DEF FramingInv
<1>2. gen'[g] = x /\ \A h \in Generators : h # g => gen'[h] = gen[h]
  BY <1>1 DEF FramingTypeOK
<1>3. Proposed' = Proposed
  BY DEF Proposed, WithStatus
<1>4. \A h \in Generators : LockedBy(h)' = IF h = g THEN {} ELSE LockedBy(h)
  BY <1>2 DEF LockedBy
<1>5. LockedStayProposed'
  BY <1>3, <1>4 DEF FramingInv, LockedStayProposed
<1>6. SelectionHolds'
  BY <1>3 DEF FramingInv, SelectionHolds, storyVars
<1>7. DraftKeepsItsFrame'
  BY DEF FramingInv, DraftKeepsItsFrame, WithStatus, storyVars
<1>8. FramingTypeOK' /\ StoryTypeOK'
  BY <1>1 DEF FramingTypeOK, StoryTypeOK, storyVars
<1> QED
  BY <1>5, <1>6, <1>7, <1>8 DEF FramingInv

LEMMA GenerateKeepsInv ==
    ASSUME FramingInv, NEW g \in Generators,
           \/ \E replace \in BOOLEAN : GenerateRead(g, replace)
           \/ GenerateReuse(g) \/ GenerateFrames(g)
           \/ \E s \in Selectors : AbortGenerate(g, s)
    PROVE  FramingInv'
<1> DEFINE Gen == [phase : {"idle", "story", "frames", "superseded"},
                   replace : BOOLEAN, wf : WorkflowStates, brief : Nat,
                   rows : SUBSET Nat]
<1>1. gen[g] \in Gen
  BY DEF FramingInv, FramingTypeOK
<1>2. CASE \E replace \in BOOLEAN : GenerateRead(g, replace)
  <2>1. PICK replace \in BOOLEAN : GenerateRead(g, replace)
    BY <1>2
  <2> DEFINE x == [NoGen EXCEPT !.phase = "story", !.replace = replace,
                                !.wf = workflowState, !.brief = brief]
  <2>2. workflowState \in WorkflowStates /\ brief \in Nat
    BY DEF FramingInv, FramingTypeOK, StoryTypeOK
  <2>3. x \in Gen /\ x.phase # "superseded"
    BY <2>2, NoGenIsIdle DEF NoGen
  <2>4. gen' = [gen EXCEPT ![g] = x]
    BY <2>1 DEF GenerateRead
  <2> HIDE DEF x
  <2> QED
    BY <2>1, <2>3, <2>4, QuietGeneration DEF GenerateRead
<1>3. CASE GenerateReuse(g) \/ \E s \in Selectors : AbortGenerate(g, s)
  BY <1>3, NoGenIsIdle, QuietGeneration DEF GenerateReuse, AbortGenerate
<1>4. CASE GenerateFrames(g)
  <2> DEFINE x == [gen[g] EXCEPT !.phase = "frames", !.rows = Proposed]
  <2>1. Proposed \subseteq Nat
    BY DEF Proposed, WithStatus, FramingInv, FramingTypeOK
  <2>2. x \in Gen /\ x.phase # "superseded"
    BY <1>1, <2>1
  <2>3. gen' = [gen EXCEPT ![g] = x]
    BY <1>4 DEF GenerateFrames, FramingInv, FramingTypeOK
  <2> HIDE DEF x
  <2> QED
    BY <1>4, <2>2, <2>3, QuietGeneration DEF GenerateFrames
<1> QED
  BY <1>2, <1>3, <1>4

LEMMA SupersedeKeepsInv ==
    ASSUME FramingInv, NEW g \in Generators, GenerateSupersede(g)
    PROVE  FramingInv'
<1>1. FramingTypeOK /\ StoryTypeOK
  BY DEF FramingInv
<1> DEFINE x == [gen[g] EXCEPT !.phase = "superseded", !.rows = @ \cap Proposed]
<1>2. /\ x \in [phase : {"idle", "story", "frames", "superseded"},
                replace : BOOLEAN, wf : WorkflowStates, brief : Nat,
                rows : SUBSET Nat]
      /\ x.rows = gen[g].rows \cap Proposed
      /\ x.phase = "superseded"
  BY <1>1 DEF FramingTypeOK
<1>3. gen' = [gen EXCEPT ![g] = x]
  BY <1>1 DEF GenerateSupersede, FramingTypeOK
<1> HIDE DEF x
<1>4. gen'[g] = x /\ \A h \in Generators : h # g => gen'[h] = gen[h]
  BY <1>1, <1>3 DEF FramingTypeOK
<1>5. \A h \in Generators :
          LockedBy(h)' = IF h = g THEN gen[g].rows \cap Proposed ELSE LockedBy(h)
  BY <1>2, <1>4 DEF LockedBy
<1>6. Proposed' = Proposed
  BY DEF GenerateSupersede, Proposed, WithStatus
<1>7. \A h \in Generators : LockedBy(h) \cap gen[g].rows = {}
  BY DEF GenerateSupersede, LockedRows
<1>8. LockedStayProposed'
  BY <1>5, <1>6, <1>7 DEF FramingInv, LockedStayProposed
<1>9. SelectionHolds'
  BY <1>6 DEF GenerateSupersede, FramingInv, SelectionHolds, storyVars
<1>10. DraftKeepsItsFrame'
  BY DEF GenerateSupersede, FramingInv, DraftKeepsItsFrame, WithStatus, storyVars
<1>11. FramingTypeOK' /\ StoryTypeOK'
  BY <1>1, <1>2, <1>3 DEF GenerateSupersede, FramingTypeOK, StoryTypeOK, storyVars
<1> QED
  BY <1>8, <1>9, <1>10, <1>11 DEF FramingInv

(***************************************************************************)
(* The commit of a generation: what it supersedes is still proposed, so it *)
(* takes neither the selected frame nor the rows of another generation.    *)
(***************************************************************************)
LEMMA CommitKeepsInv ==
    ASSUME FramingInv, NEW g \in Generators, GenerateCommit(g)
    PROVE  FramingInv'
<1>1. FramingTypeOK /\ StoryTypeOK
  BY DEF FramingInv
<1> DEFINE n == Len(frames)
           old == Reset(gen[g].rows, "superseded")
           new == [i \in 1..OPTION_COUNT |-> [status |-> "proposed",
                                             brief |-> gen[g].brief]]
<1>2. /\ old \in Seq(FrameRows) /\ Len(old) = n /\ DOMAIN frames = 1..n /\ n \in Nat
      /\ \A f \in 1..n :
            old[f].status = IF f \in gen[g].rows THEN "superseded" ELSE frames[f].status
  BY <1>1, ResetRows DEF FramingTypeOK, FrameStatuses
<1>3. /\ new \in Seq(FrameRows) /\ Len(new) = 3
      /\ \A i \in 1..3 : new[i].status = "proposed"
  BY <1>1, NewRows DEF OPTION_COUNT
<1>4. frames' = old \o new
  BY DEF GenerateCommit
<1> HIDE DEF old, new
<1>5. /\ frames' \in Seq(FrameRows) /\ DOMAIN frames' = 1..(n + 3)
      /\ \A f \in 1..n : frames'[f] = old[f]
      /\ \A f \in (n + 1)..(n + 3) : frames'[f].status = "proposed"
  <2>1. /\ frames' \in Seq(FrameRows) /\ Len(frames') = n + 3
        /\ \A f \in 1..(n + 3) : frames'[f] = IF f <= n THEN old[f] ELSE new[f - n]
    <3>1. /\ old \o new \in Seq(FrameRows)
          /\ Len(old \o new) = Len(old) + Len(new)
          /\ \A f \in 1..(Len(old) + Len(new)) :
                (old \o new)[f] = IF f <= Len(old) THEN old[f] ELSE new[f - Len(old)]
      BY <1>2, <1>3, ConcatProperties, Zenon
    <3> HIDE DEF n
    <3> QED
      BY <1>2, <1>3, <1>4, <3>1
  <2>2. \A f \in (n + 1)..(n + 3) : f - n \in 1..3 /\ f \in 1..(n + 3) /\ ~(f <= n)
    BY <1>2
  <2>3. \A f \in 1..n : f \in 1..(n + 3) /\ f <= n
    BY <1>2
  <2> QED
    BY <1>2, <1>3, <2>1, <2>2, <2>3
<1>6. gen[g].rows \subseteq Proposed
  BY DEF GenerateCommit, LockedBy, FramingInv, LockedStayProposed
<1>7. \A f \in 1..n : f \in DOMAIN frames /\ f \in 1..(n + 3)
  BY <1>2
<1>8. Proposed \ gen[g].rows \subseteq Proposed'
  BY <1>2, <1>5, <1>7 DEF Proposed, WithStatus
<1>9. WithStatus("selected")' = WithStatus("selected")
  <2>1. ASSUME NEW f \in WithStatus("selected") PROVE f \in WithStatus("selected")'
    <3>1. f \in 1..n /\ f \notin gen[g].rows
      BY <1>2, <1>6 DEF WithStatus, Proposed
    <3> QED
      BY <1>2, <1>5, <1>7, <3>1 DEF WithStatus
  <2>2. ASSUME NEW f \in WithStatus("selected")' PROVE f \in WithStatus("selected")
    <3>1. f \in 1..(n + 3) /\ frames'[f].status = "selected"
      BY <1>5 DEF WithStatus
    <3>2. f \in 1..n
      BY <1>2, <1>5, <3>1
    <3> QED
      BY <1>2, <1>5, <3>1, <3>2 DEF WithStatus
  <2> QED
    BY <2>1, <2>2
<1>10. \A h \in Generators : LockedBy(h)' = IF h = g THEN {} ELSE LockedBy(h)
  BY <1>1, NoGenIsIdle DEF GenerateCommit, FramingTypeOK, LockedBy
<1>11. LockedStayProposed'
  <2>1. LockedBy(g) = gen[g].rows
    BY DEF GenerateCommit, LockedBy
  <2> QED
    BY <1>8, <1>10, <2>1 DEF FramingInv, LockedStayProposed
<1>12. SelectionHolds'
  BY FreeRowNoSelection DEF GenerateCommit, SelectionHolds
<1>13. DraftKeepsItsFrame'
  BY <1>9 DEF GenerateCommit, FramingInv, DraftKeepsItsFrame
<1>14. FramingTypeOK'
  BY <1>1, <1>5, NoGenIsIdle DEF GenerateCommit, FramingTypeOK
<1>15. StoryTypeOK'
  <2>1. gen[g].wf \in WorkflowStates /\ "awaiting_framing_choice" \in WorkflowStates
    BY <1>1 DEF FramingTypeOK, WorkflowStates
  <2> QED
    BY <1>1, <2>1 DEF GenerateCommit, StoryTypeOK, MoveStory
<1> QED
  BY <1>11, <1>12, <1>13, <1>14, <1>15 DEF FramingInv

LEMMA SelectBeginKeepsInv ==
    ASSUME FramingInv, NEW s \in Selectors, NEW k \in SelectKeys, NEW f \in Proposed,
           SelectBegin(s, k, f)
    PROVE  FramingInv'
<1>1. FramingTypeOK /\ StoryTypeOK
  BY DEF FramingInv
<1>2. \A t \in Selectors : sel[t] = NoSel
  BY FreeRowNoSelection DEF SelectBegin
<1>3. f \in Nat
  BY <1>1 DEF FramingTypeOK, Proposed, WithStatus
<1>4. sel' = [sel EXCEPT ![s] = [frame |-> f, key |-> k]]
  BY DEF SelectBegin
<1>5. /\ sel'[s].frame = f
      /\ \A t \in Selectors : sel'[t] # NoSel => t = s
  BY <1>1, <1>2, <1>4 DEF FramingTypeOK
<1>6. Proposed' = Proposed
  BY DEF SelectBegin, Proposed, WithStatus
<1>7. SelectionHolds'
  BY <1>5, <1>6 DEF SelectBegin, SelectionHolds
<1>8. LockedStayProposed'
  BY <1>6 DEF SelectBegin, FramingInv, LockedStayProposed, LockedBy
<1>9. DraftKeepsItsFrame'
  BY DEF SelectBegin, FramingInv, DraftKeepsItsFrame, WithStatus
<1>10. FramingTypeOK' /\ StoryTypeOK'
  BY <1>1, <1>3 DEF SelectBegin, FramingTypeOK, StoryTypeOK
<1> QED
  BY <1>7, <1>8, <1>9, <1>10 DEF FramingInv

(***************************************************************************)
(* The commit of a selection: no generation holds a row it writes, and     *)
(* before it no frame was selected.                                        *)
(***************************************************************************)
LEMMA SelectCommitKeepsInv ==
    ASSUME FramingInv, NEW s \in Selectors, SelectCommit(s)
    PROVE  FramingInv'
<1>1. FramingTypeOK /\ StoryTypeOK
  BY DEF FramingInv
<1> DEFINE f0 == sel[s].frame
           old == Reset(Proposed \ {f0}, "discarded")
<1>2. storyLock = s /\ f0 \in Proposed /\ ~draftExists /\ f0 \in Nat
  BY <1>1 DEF SelectCommit, FramingInv, SelectionHolds, FramingTypeOK
<1>3. f0 \in DOMAIN frames
  BY <1>2 DEF Proposed, WithStatus
<1>4. /\ old \in Seq(FrameRows) /\ DOMAIN old = DOMAIN frames
      /\ \A f \in DOMAIN frames :
            old[f].status = IF f \in Proposed \ {f0} THEN "discarded" ELSE frames[f].status
  BY <1>1, ResetRows DEF FrameStatuses
<1>5. frames' = [old EXCEPT ![f0].status = "selected"]
  BY DEF SelectCommit
<1> HIDE DEF f0, old
<1>6. /\ frames' \in Seq(FrameRows) /\ DOMAIN frames' = DOMAIN frames
      /\ \A f \in DOMAIN frames :
            frames'[f].status = IF f = f0 THEN "selected" ELSE old[f].status
  <2> DEFINE e == [old[f0] EXCEPT !.status = "selected"]
  <2>1. f0 \in 1..Len(old) /\ old[f0] \in FrameRows /\ DOMAIN old = 1..Len(old)
    BY <1>3, <1>4, ElementOfSeq
  <2>2. e \in FrameRows /\ e.status = "selected"
    BY <2>1 DEF FrameRows, FrameStatuses
  <2>3. frames' = [old EXCEPT ![f0] = e]
    BY <1>5
  <2> HIDE DEF e
  <2>4. /\ frames' \in Seq(FrameRows) /\ Len(frames') = Len(old)
        /\ \A f \in 1..Len(old) : frames'[f] = IF f = f0 THEN e ELSE old[f]
    BY <1>4, <2>1, <2>2, <2>3, ExceptSeq
  <2> QED
    BY <1>4, <2>1, <2>2, <2>4
<1>7. WithStatus("selected") = {}
  BY <1>2 DEF FramingInv, DraftKeepsItsFrame
<1>8. WithStatus("selected")' = {f0}
  <2>1. \A f \in DOMAIN frames : f # f0 => frames'[f].status # "selected"
    BY <1>4, <1>6, <1>7 DEF WithStatus
  <2> QED
    BY <1>3, <1>6, <2>1 DEF WithStatus
<1>9. DraftKeepsItsFrame'
  BY <1>8 DEF SelectCommit, DraftKeepsItsFrame, f0
<1>10. \A h \in Generators : LockedBy(h)' = {}
  <2>1. \A h \in Generators : LockedBy(h) \subseteq LockedRows /\ LockedBy(h) \subseteq Proposed
    BY DEF LockedRows, FramingInv, LockedStayProposed
  <2>2. Proposed \cap LockedRows = {}
    BY DEF SelectCommit, RowsToWrite
  <2>3. \A h \in Generators : LockedBy(h)' = LockedBy(h)
    BY DEF SelectCommit, LockedBy
  <2> QED
    BY <2>1, <2>2, <2>3
<1>11. LockedStayProposed'
  BY <1>10 DEF LockedStayProposed
<1>12. \A t \in Selectors : sel'[t] = NoSel
  <2>1. \A t \in Selectors : t # s => sel[t] = NoSel
    BY <1>2 DEF FramingInv, SelectionHolds
  <2> QED
    BY <1>1, <2>1 DEF SelectCommit, FramingTypeOK
<1>13. SelectionHolds'
  BY <1>12 DEF SelectionHolds
<1>14. FramingTypeOK'
  <2>1. sel' \in [Selectors -> [frame : Nat, key : SelectKeys \cup {"none"}]]
    BY <1>1, NoSelIsIdle DEF SelectCommit, FramingTypeOK
  <2>2. selectedFrame' \in Nat /\ selectRows' \in [SelectKeys -> Nat]
    BY <1>1, <1>2 DEF SelectCommit, FramingTypeOK, f0
  <2> QED
    BY <1>1, <1>6, <2>1, <2>2 DEF SelectCommit, FramingTypeOK
<1>15. StoryTypeOK'
  BY <1>1 DEF SelectCommit, StoryTypeOK, MoveStory, WorkflowStates, Verdicts
<1> QED
  BY <1>9, <1>11, <1>13, <1>14, <1>15 DEF FramingInv

LEMMA AbortSelectKeepsInv ==
    ASSUME FramingInv, NEW s \in Selectors, NEW g \in Generators, AbortSelect(g, s)
    PROVE  FramingInv'
<1>1. FramingTypeOK /\ StoryTypeOK
  BY DEF FramingInv
<1>2. storyLock = s
  BY DEF AbortSelect, Deadlocked, FramingInv, SelectionHolds
<1>3. \A t \in Selectors : sel'[t] = NoSel
  <2>1. \A t \in Selectors : t # s => sel[t] = NoSel
    BY <1>2 DEF FramingInv, SelectionHolds
  <2> QED
    BY <1>1, <2>1 DEF AbortSelect, FramingTypeOK
<1>4. SelectionHolds'
  BY <1>3 DEF SelectionHolds
<1>5. LockedStayProposed' /\ DraftKeepsItsFrame'
  BY DEF AbortSelect, FramingInv, LockedStayProposed, LockedBy, Proposed,
         WithStatus, DraftKeepsItsFrame
<1>6. sel' \in [Selectors -> [frame : Nat, key : SelectKeys \cup {"none"}]]
  BY <1>1, NoSelIsIdle DEF AbortSelect, FramingTypeOK
<1>7. FramingTypeOK' /\ StoryTypeOK'
  BY <1>1, <1>6 DEF AbortSelect, FramingTypeOK, StoryTypeOK
<1> QED
  BY <1>4, <1>5, <1>7 DEF FramingInv

LEMMA PatchKeepsInv ==
    ASSUME FramingInv, NEW e \in BriefEditors, PatchBriefRead(e) \/ PatchBriefCommit(e)
    PROVE  FramingInv'
<1>1. FramingTypeOK /\ StoryTypeOK /\ storyVars' = storyVars
  BY DEF FramingInv, PatchBriefRead, PatchBriefCommit
<1>2. /\ frames' = frames /\ selectedFrame' = selectedFrame /\ selectRows' = selectRows
      /\ gen' = gen /\ sel' = sel
  BY DEF PatchBriefRead, PatchBriefCommit
<1>3. LockedStayProposed' /\ SelectionHolds' /\ DraftKeepsItsFrame'
  BY <1>1, <1>2 DEF FramingInv, LockedStayProposed, LockedBy, Proposed, WithStatus,
                    SelectionHolds, DraftKeepsItsFrame, storyVars
<1>4. brief' \in 1..MaxBrief /\ patch' \in [BriefEditors -> 0..(MaxBrief - 1)]
  <2>1. CASE PatchBriefRead(e)
    <3>1. brief' = brief /\ brief \in 0..(MaxBrief - 1)
      BY <1>1, <2>1, FramingAssumption DEF PatchBriefRead, FramingTypeOK
    <3> QED
      BY <1>1, <2>1, <3>1 DEF PatchBriefRead, FramingTypeOK
  <2>2. CASE PatchBriefCommit(e)
    <3>1. brief' \in 1..MaxBrief
      <4>1. patch[e] < MaxBrief
        BY <1>1, FramingAssumption DEF FramingTypeOK
      <4> QED
        BY <1>1, <2>2, <4>1, FramingAssumption DEF PatchBriefCommit, FramingTypeOK
    <3>2. patch' \in [BriefEditors -> 0..(MaxBrief - 1)]
      BY <1>1, <2>2, FramingAssumption DEF PatchBriefCommit, FramingTypeOK
    <3> QED
      BY <3>1, <3>2
  <2> QED
    BY <2>1, <2>2
<1>5. FramingTypeOK' /\ StoryTypeOK'
  BY <1>1, <1>2, <1>4 DEF FramingTypeOK, StoryTypeOK, storyVars
<1> QED
  BY <1>3, <1>5 DEF FramingInv

LEMMA StepKeepsFramingInv ==
    ASSUME FramingInv, FramingNext
    PROVE  FramingInv'
<1>1. CASE \E g \in Generators :
             \/ \E replace \in BOOLEAN : GenerateRead(g, replace)
             \/ GenerateReuse(g) \/ GenerateFrames(g)
             \/ \E s \in Selectors : AbortGenerate(g, s)
  BY <1>1, GenerateKeepsInv
<1>2. CASE \E g \in Generators : GenerateSupersede(g)
  BY <1>2, SupersedeKeepsInv
<1>3. CASE \E g \in Generators : GenerateCommit(g)
  BY <1>3, CommitKeepsInv
<1>4. CASE \E s \in Selectors, k \in SelectKeys, f \in Proposed : SelectBegin(s, k, f)
  BY <1>4, SelectBeginKeepsInv
<1>5. CASE \E s \in Selectors : SelectCommit(s)
  BY <1>5, SelectCommitKeepsInv
<1>6. CASE \E g \in Generators, s \in Selectors : AbortSelect(g, s)
  BY <1>6, AbortSelectKeepsInv
<1>7. CASE \E e \in BriefEditors : PatchBriefRead(e) \/ PatchBriefCommit(e)
  BY <1>7, PatchKeepsInv
<1> QED
  BY <1>1, <1>2, <1>3, <1>4, <1>5, <1>6, <1>7 DEF FramingNext

\* A step of another service: it leaves framing's own tables, the story lock
\* and the draft alone.
LEMMA ElsewhereKeepsFramingInv ==
    ASSUME FramingInv, StoryTypeOK',
           UNCHANGED <<framingVars, storyLock, draftExists>>
    PROVE  FramingInv'
<1> USE DEF framingVars
<1>1. FramingTypeOK'
  BY DEF FramingInv, FramingTypeOK
<1>2. LockedStayProposed' /\ SelectionHolds' /\ DraftKeepsItsFrame'
  BY DEF FramingInv, LockedStayProposed, LockedBy, Proposed, WithStatus,
         SelectionHolds, DraftKeepsItsFrame
<1> QED
  BY <1>1, <1>2 DEF FramingInv

LEMMA IdleFramingInv ==
    ASSUME StoryCreated, FramingIdle
    PROVE  FramingInv
<1>1. StoryTypeOK
  BY DEF StoryCreated, StoryTypeOK, WorkflowStates, StoryStatuses, Verdicts
<1>2. /\ frames = <<>> /\ gen = [g \in Generators |-> NoGen]
      /\ sel = [s \in Selectors |-> NoSel]
  BY DEF FramingIdle
<1>3. frames \in Seq(FrameRows)
  BY <1>2, EmptySeq
<1>4. FramingTypeOK
  BY <1>2, <1>3, NoGenIsIdle, NoSelIsIdle, FramingAssumption
     DEF FramingIdle, FramingTypeOK, StoryCreated
<1>5. \A g \in Generators : LockedBy(g) = {}
  BY <1>2, NoGenIsIdle DEF LockedBy
<1>6. LockedStayProposed /\ SelectionHolds
  BY <1>2, <1>5 DEF LockedStayProposed, SelectionHolds
<1>7. DraftKeepsItsFrame
  <2>1. DOMAIN frames = {}
    BY <1>2
  <2> QED
    BY <2>1 DEF StoryCreated, DraftKeepsItsFrame, WithStatus
<1> QED
  BY <1>1, <1>4, <1>6, <1>7 DEF FramingInv

LEMMA FramingInvariant == FramingSpec => []FramingInv
<1>1. FramingInit => FramingInv
  BY IdleFramingInv DEF FramingInit
<1>2. FramingInv /\ [FramingNext]_<<storyVars, framingVars>> => FramingInv'
  <2>1. ASSUME FramingInv, UNCHANGED <<storyVars, framingVars>> PROVE FramingInv'
    <3>1. StoryTypeOK' /\ UNCHANGED <<framingVars, storyLock, draftExists>>
      BY <2>1 DEF FramingInv, StoryTypeOK, storyVars
    <3> QED
      BY <2>1, <3>1, ElsewhereKeepsFramingInv
  <2> QED
    BY <2>1, StepKeepsFramingInv
<1> QED
  BY <1>1, <1>2, PTL DEF FramingSpec

(***************************************************************************)
(* Candidates, transactions and the brief's version keep their type; two   *)
(* edits that have read the same version make one new version between      *)
(* them, so the brief's version never passes its bound.                    *)
(***************************************************************************)
THEOREM FramingTypeCorrect == FramingSpec => []FramingTypeOK
<1>1. FramingInv => FramingTypeOK
  BY DEF FramingInv
<1> QED
  BY <1>1, FramingInvariant, PTL

(***************************************************************************)
(* For any number of requests and candidates, a draft is based on exactly  *)
(* one selected candidate, although a generation locks no story row and    *)
(* supersedes what it read earlier.                                        *)
(***************************************************************************)
THEOREM DraftFrameIsKept == FramingSpec => []DraftKeepsItsFrame
<1>1. FramingInv => DraftKeepsItsFrame
  BY DEF FramingInv
<1> QED
  BY <1>1, FramingInvariant, PTL

-----------------------------------------------------------------------------
(* Choosing, and choosing again *)

\* A selection is recorded only together with the draft.
RecordedMeansDraft == \A k \in SelectKeys : selectRows[k] # 0 => draftExists

ChoiceInv == SomethingToChoose /\ ReplayIsConsistent /\ RecordedMeansDraft

LEMMA GenerateCommitOffers ==
    ASSUME FramingInv, NEW g \in Generators, GenerateCommit(g)
    PROVE  Proposed' # {}
<1> DEFINE new == [i \in 1..OPTION_COUNT |-> [status |-> "proposed", brief |-> gen[g].brief]]
           old == Reset(gen[g].rows, "superseded")
<1>1. old \in Seq(FrameRows) /\ new \in Seq(FrameRows)
  BY ResetRows, NewRows DEF FramingInv, FrameStatuses
<1>2. Len(new) = 3 /\ new[1].status = "proposed"
  BY DEF OPTION_COUNT
<1>3. frames' = old \o new
  BY DEF GenerateCommit
<1> HIDE DEF old, new
<1>4. /\ Len(old) + 1 \in DOMAIN frames'
      /\ frames'[Len(old) + 1] = new[1]
  <2>1. /\ Len(old) \in Nat
        /\ Len(old \o new) = Len(old) + Len(new)
        /\ \A i \in 1 .. Len(old) + Len(new) :
              (old \o new)[i] = IF i <= Len(old) THEN old[i] ELSE new[i - Len(old)]
        /\ DOMAIN (old \o new) = 1 .. Len(old \o new)
    BY <1>1, ConcatProperties
  <2>2. Len(old) + 1 \in 1 .. Len(old) + Len(new) /\ (Len(old) + 1) - Len(old) = 1
    BY <1>2, <2>1
  <2> QED
    BY <1>2, <1>3, <2>1, <2>2
<1> QED
  BY <1>2, <1>4 DEF Proposed, WithStatus

LEMMA StepKeepsChoiceInv ==
    ASSUME FramingInv, ChoiceInv, FramingNext
    PROVE  ChoiceInv'
<1>1. ASSUME UNCHANGED <<workflowState, draftExists, frames, selectedFrame, selectRows>>
      PROVE  ChoiceInv'
  BY <1>1 DEF ChoiceInv, SomethingToChoose, ReplayIsConsistent, RecordedMeansDraft,
              Proposed, WithStatus
<1>2. ASSUME NEW g \in Generators, GenerateCommit(g)
      PROVE  ChoiceInv'
  <2>1. Proposed' # {}
    BY <1>2, GenerateCommitOffers
  <2>2. UNCHANGED <<draftExists, selectedFrame, selectRows>>
    BY <1>2 DEF GenerateCommit
  <2> QED
    BY <2>1, <2>2 DEF ChoiceInv, SomethingToChoose, ReplayIsConsistent, RecordedMeansDraft
<1>3. ASSUME NEW s \in Selectors, SelectCommit(s)
      PROVE  ChoiceInv'
  <2>1. ~draftExists
    BY <1>3 DEF FramingInv, SelectionHolds, SelectCommit
  <2>2. \A k \in SelectKeys : selectRows[k] = 0
    BY <2>1 DEF ChoiceInv, RecordedMeansDraft
  <2>3. /\ draftExists'
        /\ selectedFrame' = sel[s].frame
        /\ \A k \in SelectKeys : selectRows'[k] \in {0, sel[s].frame}
    BY <1>3, <2>2 DEF SelectCommit, FramingInv, FramingTypeOK
  <2> QED
    BY <2>3 DEF ChoiceInv, SomethingToChoose, ReplayIsConsistent, RecordedMeansDraft
<1> QED
  BY <1>1, <1>2, <1>3
     DEF FramingNext, GenerateRead, GenerateReuse, GenerateFrames, GenerateSupersede,
         SelectBegin, AbortGenerate, AbortSelect, PatchBriefRead, PatchBriefCommit, storyVars

LEMMA ChoiceInvariant == FramingSpec => []ChoiceInv
<1>1. FramingInit => ChoiceInv
  BY DEF FramingInit, StoryCreated, FramingIdle, ChoiceInv, SomethingToChoose,
         ReplayIsConsistent, RecordedMeansDraft
<1>2. FramingInv /\ ChoiceInv /\ [FramingNext]_<<storyVars, framingVars>> => ChoiceInv'
  <2>1. ASSUME ChoiceInv, UNCHANGED <<storyVars, framingVars>> PROVE ChoiceInv'
    BY <2>1 DEF ChoiceInv, SomethingToChoose, ReplayIsConsistent, RecordedMeansDraft,
                Proposed, WithStatus, storyVars, framingVars
  <2> QED
    BY <2>1, StepKeepsChoiceInv
<1> QED
  BY <1>1, <1>2, FramingInvariant, PTL DEF FramingSpec

(***************************************************************************)
(* A creator who still has to choose always has a candidate to choose,     *)
(* however many generations supersede candidates and are aborted.          *)
(***************************************************************************)
THEOREM AChoiceIsOffered == FramingSpec => []SomethingToChoose
<1>1. ChoiceInv => SomethingToChoose
  BY DEF ChoiceInv
<1> QED
  BY <1>1, ChoiceInvariant, PTL

(***************************************************************************)
(* A replayed selection answers with the draft's own frame, for any number *)
(* of keys: only the selection that creates the draft is recorded.         *)
(***************************************************************************)
THEOREM ReplaysAgree == FramingSpec => []ReplayIsConsistent
<1>1. ChoiceInv => ReplayIsConsistent
  BY DEF ChoiceInv
<1> QED
  BY <1>1, ChoiceInvariant, PTL

=============================================================================
