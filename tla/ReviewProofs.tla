---------------------------- MODULE ReviewProofs ----------------------------
(***************************************************************************)
(* Theorems about Review: a draft with its content, and the validations    *)
(* that the engines of Evidence make of it.                                *)
(***************************************************************************)
EXTENDS Review, SequenceTheorems, FiniteSetTheorems, TLAPS

-----------------------------------------------------------------------------
(* What the engines find, and what Publishing says they may find *)

LEMMA ResultIsOverall ==
    ASSUME NEW found
    PROVE  OverallResult(found) \in OverallResults
  BY DEF OverallResult, OverallResults

(***************************************************************************)
(* The run types differ in one rule, the missing synthesis, and that is a  *)
(* warning.                                                                *)
(***************************************************************************)
LEMMA RunTypesDifferInSynthesis ==
    ASSUME NEW d, NEW t \in RunTypes
    PROVE  /\ DraftIssues(d, t) \in {DraftIssues(d, "full"), DraftIssues(d, "structure")}
           /\ DraftIssues(d, "structure") \subseteq DraftIssues(d, "full")
           /\ \A i \in DraftIssues(d, "full") :
                 i \in DraftIssues(d, "structure") \/ i.effect = "warn"
<1> DEFINE synthesis == Issue("missing_synthesis", Story, "warn")
           missing == d.events # <<>> /\ ~d.conclusion
           before == When(~d.header, Issue("header", Story, "block"))
                     \cup When(d.sections = 0 /\ d.events = <<>>,
                               Issue("timeline_gap", Story, "warn"))
           after == When(Len(d.events) >= 3 /\ Cardinality(SourcesOf(d)) = 1,
                         Issue("thin_breadth", Story, "warn"))
           ofEvents == UNION {EventIssues(n, d.events[n]) : n \in DOMAIN d.events}
           found(looks) == ((before \cup When(looks /\ missing, synthesis)) \cup after)
                           \cup ofEvents
<1>1. \A u \in RunTypes :
         DraftIssues(d, u) = found(u \in {"publish_readiness", "full", "trust"})
  BY DEF DraftIssues, StoryIssues, When
<1>2. synthesis.effect = "warn"
  BY DEF Issue
<1>3. found(FALSE) \subseteq found(TRUE)
      /\ \A i \in found(TRUE) : i \in found(FALSE) \/ i = synthesis
  BY DEF When
<1>4. /\ DraftIssues(d, "full") = found(TRUE)
      /\ DraftIssues(d, "structure") = found(FALSE)
      /\ DraftIssues(d, t) = found(TRUE) \/ DraftIssues(d, t) = found(FALSE)
  <2> HIDE DEF found
  <2>1. /\ "full" \in RunTypes /\ "structure" \in RunTypes
        /\ ("full" \in {"publish_readiness", "full", "trust"}) = TRUE
        /\ ("structure" \in {"publish_readiness", "full", "trust"}) = FALSE
        /\ \/ (t \in {"publish_readiness", "full", "trust"}) = TRUE
           \/ (t \in {"publish_readiness", "full", "trust"}) = FALSE
    BY DEF RunTypes
  <2> QED
    BY <1>1, <2>1
<1> HIDE DEF found, synthesis
<1> QED
  BY <1>2, <1>3, <1>4

(***************************************************************************)
(* The verdict that stands for a draft in Publishing leaves open just the  *)
(* results that its validations can have.                                  *)
(***************************************************************************)
LEMMA ResultIsAllowed ==
    ASSUME NEW t \in RunTypes, verdict = VerdictOf(draft)
    PROVE  OverallResult(DraftIssues(draft, t)) \in Results
<1> DEFINE full == DraftIssues(draft, "full")
           structure == DraftIssues(draft, "structure")
<1>1. /\ DraftIssues(draft, t) \in {full, structure}
      /\ structure \subseteq full
      /\ \A i \in full : i \in structure \/ i.effect = "warn"
  BY RunTypesDifferInSynthesis
<1>2. verdict = IF OverallResult(full) # OverallResult(structure)
                THEN "synthesis" ELSE OverallResult(full)
  BY DEF VerdictOf
<1> HIDE DEF full, structure
<1>3. OverallResult(full) \in OverallResults /\ OverallResult(structure) \in OverallResults
  BY ResultIsOverall
<1>4. CASE OverallResult(full) = OverallResult(structure)
  BY <1>1, <1>2, <1>3, <1>4 DEF Results, OverallResults
<1>5. CASE OverallResult(full) # OverallResult(structure)
  <2>1. \A i \in full \cup structure : i.effect # "block"
    BY <1>1, <1>5 DEF OverallResult
  <2>2. OverallResult(full) \in {"warn", "pass"} /\ OverallResult(structure) \in {"warn", "pass"}
    BY <2>1 DEF OverallResult
  <2> QED
    BY <1>1, <1>2, <1>5, <2>2 DEF Results
<1> QED
  BY <1>4, <1>5

LEMMA VerdictIsVerdict ==
    ASSUME NEW d
    PROVE  VerdictOf(d) \in Verdicts
  BY ResultIsOverall DEF VerdictOf, Verdicts, OverallResults

-----------------------------------------------------------------------------
(* Review implements Publishing *)

\* The verdict is that of the rows that are there.
VerdictIsCurrent == verdict = VerdictOf(draft)

LEMMA ValidateIsRunValidation ==
    ASSUME VerdictIsCurrent, NEW t \in RunTypes, Validate(t)
    PROVE  \E result \in OverallResults : RunValidation(result)
<1> DEFINE result == OverallResult(DraftIssues(draft, t))
<1>1. result \in OverallResults /\ result \in Results
  BY ResultIsOverall, ResultIsAllowed DEF VerdictIsCurrent
<1>2. RunValidation(result)
  BY <1>1 DEF Validate, StoreReport, RunValidation, contentVars
<1> QED
  BY <1>1, <1>2

LEMMA StepImplementsPublishing ==
    ASSUME VerdictIsCurrent, ReviewNext
    PROVE  /\ \/ PublishingNext \/ AssemblyStep
              \/ UNCHANGED <<storyVars, publishVars>>
           /\ VerdictIsCurrent'
<1>1. CASE PublishStep
  <2>1. PublishingNext
    BY <1>1 DEF PublishStep, PublishingNext
  <2>2. draft' = draft /\ verdict' = verdict
    BY <1>1 DEF PublishStep, contentVars, EditBegin, PublishRead, PublishCommit,
                PublishConflict, storyVars
  <2> QED
    BY <2>1, <2>2 DEF VerdictIsCurrent
<1>2. CASE \E e \in Editors : EditDraft(e)
  BY <1>2 DEF EditDraft, PublishingNext, VerdictIsCurrent
<1>3. CASE AssemblyStep
  <2>1. VerdictIsCurrent'
    BY <1>3 DEF AssemblyStep, AssemblyBegin, AssembleAll, AssembleEvent, AssemblyFails,
                AssemblyEnd, VerdictIsCurrent
  <2> QED
    BY <1>3, <2>1
<1>4. CASE \E t \in RunTypes : Validate(t)
  <2>1. PublishingNext
    BY <1>4, ValidateIsRunValidation DEF PublishingNext
  <2>2. draft' = draft /\ verdict' = verdict
    BY <1>4 DEF Validate, contentVars
  <2> QED
    BY <2>1, <2>2 DEF VerdictIsCurrent
<1>5. CASE \/ \E r \in Resolvers, i \in DOMAIN issues, k \in ResolveKeys,
                 status \in ResolutionStatuses : ResolveRead(r, i, k, status)
           \/ \E r \in Resolvers : ResolveCommit(r) \/ ResolveUndone(r)
  <2>1. UNCHANGED <<storyVars, publishVars, contentVars>>
    BY <1>5 DEF ResolveRead, ResolveCommit, ResolveUndone
  <2> QED
    BY <2>1 DEF VerdictIsCurrent, storyVars, contentVars
<1> QED
  BY <1>1, <1>2, <1>3, <1>4, <1>5 DEF ReviewNext

LEMMA VerdictStaysCurrent == ReviewSpec => []VerdictIsCurrent
<1>1. ReviewInit => VerdictIsCurrent
  BY DEF ReviewInit, VerdictIsCurrent
<1>2. VerdictIsCurrent /\ [ReviewNext]_reviewVars => VerdictIsCurrent'
  <2>1. ASSUME VerdictIsCurrent, UNCHANGED reviewVars PROVE VerdictIsCurrent'
    BY <2>1 DEF reviewVars, storyVars, contentVars, VerdictIsCurrent
  <2> QED
    BY <2>1, StepImplementsPublishing
<1> QED
  BY <1>1, <1>2, PTL DEF ReviewSpec

(***************************************************************************)
(* Whatever the draft's rows, and whatever research package they were made *)
(* from, each step of Review is one that Publishing allows, or the start   *)
(* or end of an assembly: the verdict stands for the engines.              *)
(***************************************************************************)
THEOREM ReviewImplementsPublishing == ReviewSpec => ImplementsPublishing
<1>1. VerdictIsCurrent /\ [ReviewNext]_reviewVars
        => [PublishingNext \/ AssemblyStep]_<<storyVars, publishVars>>
  <2>1. ASSUME UNCHANGED reviewVars PROVE UNCHANGED <<storyVars, publishVars>>
    BY <2>1 DEF reviewVars
  <2> QED
    BY <2>1, StepImplementsPublishing
<1> QED
  BY <1>1, VerdictStaysCurrent, PTL DEF ReviewSpec, ImplementsPublishing

-----------------------------------------------------------------------------
(* What a draft can hold *)

\* The rows that requests and assemblies make: their sources are in review.
RowsInReview ==
    [isPublic : BOOLEAN, isPrimary : BOOLEAN, status : {"draft"}]

EventsInReview ==
    [eventType : {"standard", "turning_point", "chatter"},
     significance : {"standard", "major", "critical"},
     density : {"none", "low", "medium", "high"},
     confidence : {"emerging", "mostly_verified"},
     risk : {"low", "medium", "high"},
     sources : Seq(RowsInReview)]

DraftsInReview ==
    [header : BOOLEAN, conclusion : BOOLEAN, sections : {0, 1},
     events : Seq(EventsInReview)]

LEMMA SourceRowInReview ==
    ASSUME NEW isPublic \in BOOLEAN, NEW isPrimary \in BOOLEAN
    PROVE  SourceRow(isPublic, isPrimary) \in RowsInReview
  BY DEF SourceRow, RowsInReview

LEMMA AssembledEventInReview ==
    ASSUME NEW pkg \in ResearchPackages, NEW i \in Nat
    PROVE  AssembledEvent(pkg, i) \in EventsInReview
<1> DEFINE picked == PickSources(pkg, i)
           distinct == Distinct(picked)
<1>1. Len(pkg.candidates) \in Nat
  BY DEF ResearchPackages
<1>2. PickSources(pkg, i) \in Seq(Nat)
  <2> DEFINE m == Len(pkg.candidates)
  <2>1. CASE m = 0
    BY <2>1 DEF PickSources
  <2>2. CASE m = 1
    BY <2>2 DEF PickSources
  <2>3. CASE m \notin {0, 1}
    <3>1. m \in Nat /\ m > 0
      BY <1>1, <2>3
    <3>2. (i % m) + 1 \in Nat /\ ((i + 1) % m) + 1 \in Nat
      <4> HIDE DEF m
      <4> QED
        BY <3>1
    <3>3. PickSources(pkg, i) = <<(i % m) + 1, ((i + 1) % m) + 1>>
      BY <2>3 DEF PickSources
    <3>4. \A a, b \in Nat : <<a, b>> \in Seq(Nat)
      OBVIOUS
    <3> QED
      BY ONLY <3>2, <3>3, <3>4
  <2> QED
    BY <2>1, <2>2, <2>3
<1>3. Len(distinct) \in Nat
  BY <1>2 DEF Distinct
<1>4. RecreatedSources(pkg, i) \in Seq(RowsInReview)
  <2>1. Len(Links(pkg, picked)) = Len(distinct)
    BY <1>3 DEF Links
  <2>2. RecreatedSources(pkg, i) \in [1 .. Len(distinct) -> RowsInReview]
    BY <2>1, SourceRowInReview DEF RecreatedSources
  <2> QED
    BY <1>3, <2>2
<1>5. SourceDensity(picked) \in {"none", "low", "medium", "high"}
  BY DEF SourceDensity
<1>6. /\ EventKind(EventCount(pkg), i) \in {"standard", "turning_point", "chatter"}
      /\ Significance(EventCount(pkg), i) \in {"standard", "major", "critical"}
      /\ Confidence(pkg, picked) \in {"emerging", "mostly_verified"}
      /\ ClaimRisk(pkg, picked) \in {"low", "medium", "high"}
  BY DEF EventKind, Significance, Confidence, ClaimRisk
<1> QED
  BY <1>4, <1>5, <1>6 DEF AssembledEvent, EventsInReview

LEMMA EventCountIsANumber ==
    ASSUME NEW pkg \in ResearchPackages
    PROVE  EventCount(pkg) \in Nat
  BY DEF ResearchPackages, EventCount, MAX_HINTS

LEMMA ManualEventInReview == ManualEvent \in EventsInReview
<1>1. <<>> \in Seq(RowsInReview)
  OBVIOUS
<1> QED
  BY <1>1 DEF ManualEvent, EventsInReview

LEMMA EditInReview ==
    ASSUME NEW d \in DraftsInReview,
           NEW edited \in HeaderEdits(d) \cup TimelineEdits(d) \cup SourceEdits(d)
    PROVE  edited \in DraftsInReview
<1>0. d.events \in Seq(EventsInReview)
  BY DEF DraftsInReview
<1>1. CASE edited \in HeaderEdits(d)
  BY <1>1 DEF HeaderEdits, DraftsInReview
<1>2. CASE edited \in TimelineEdits(d)
  <2>1. Append(d.events, ManualEvent) \in Seq(EventsInReview)
    BY <1>0, ManualEventInReview, AppendProperties
  <2>2. \/ edited = [d EXCEPT !.sections = 1]
        \/ edited = [d EXCEPT !.events = Append(@, ManualEvent)]
    BY <1>2 DEF TimelineEdits
  <2> QED
    BY <2>1, <2>2 DEF DraftsInReview
<1>3. CASE edited \in SourceEdits(d)
  <2>1. \A n \in DOMAIN d.events : d.events[n] \in EventsInReview /\ n \in 1 .. Len(d.events)
    BY <1>0
  <2>2. ASSUME NEW n \in DOMAIN d.events, NEW sources \in Seq(RowsInReview),
               edited = [d EXCEPT !.events[n].sources = sources]
        PROVE  edited \in DraftsInReview
    <3> DEFINE e == d.events[n]
    <3>1. [e EXCEPT !.sources = sources] \in EventsInReview
      BY <2>1, <2>2 DEF EventsInReview
    <3>2. [d.events EXCEPT ![n] = [e EXCEPT !.sources = sources]] \in Seq(EventsInReview)
      BY <1>0, <2>1, <3>1, ExceptSeq
    <3>3. edited = [d EXCEPT !.events = [d.events EXCEPT ![n] = [e EXCEPT !.sources = sources]]]
      BY <2>2
    <3> QED
      BY <3>2, <3>3 DEF DraftsInReview
  <2>3. \A n \in DOMAIN d.events : d.events[n].sources \in Seq(RowsInReview)
    <3>1. \A e \in EventsInReview : e.sources \in Seq(RowsInReview)
      BY DEF EventsInReview
    <3> QED
      BY <2>1, <3>1
  <2>4. ASSUME NEW n \in DOMAIN d.events, NEW isPublic \in BOOLEAN,
               edited = [d EXCEPT !.events[n].sources = Append(@, SourceRow(isPublic, FALSE))]
        PROVE  edited \in DraftsInReview
    <3> DEFINE e == d.events[n]
    <3>1. Append(e.sources, SourceRow(isPublic, FALSE)) \in Seq(RowsInReview)
      BY <2>3, SourceRowInReview, AppendProperties
    <3>2. edited = [d EXCEPT !.events[n].sources =
                              Append(e.sources, SourceRow(isPublic, FALSE))]
      BY <2>4
    <3> QED
      BY <2>2, <3>1, <3>2
  <2>5. ASSUME NEW n \in DOMAIN d.events, NEW k \in DOMAIN d.events[n].sources,
               edited = [d EXCEPT !.events[n].sources[k].isPublic = ~@]
        PROVE  edited \in DraftsInReview
    <3> DEFINE e == d.events[n]
               row == [e.sources[k] EXCEPT !.isPublic = ~@]
    <3>1. e.sources[k] \in RowsInReview /\ k \in 1 .. Len(e.sources)
      BY <2>3, <2>5
    <3>2. row \in RowsInReview
      BY <3>1 DEF RowsInReview
    <3>3. [e.sources EXCEPT ![k] = row] \in Seq(RowsInReview)
      BY <2>3, <3>1, <3>2, ExceptSeq
    <3>4. edited = [d EXCEPT !.events[n].sources = [e.sources EXCEPT ![k] = row]]
      BY <2>5
    <3> QED
      BY <2>2, <3>3, <3>4
  <2>6. \/ \E n \in DOMAIN d.events : \E isPublic \in BOOLEAN :
              edited = [d EXCEPT !.events[n].sources = Append(@, SourceRow(isPublic, FALSE))]
        \/ \E n \in DOMAIN d.events : \E k \in DOMAIN d.events[n].sources :
              edited = [d EXCEPT !.events[n].sources[k].isPublic = ~@]
    BY <1>3 DEF SourceEdits
  <2> QED
    BY <2>4, <2>5, <2>6
<1> QED
  BY <1>1, <1>2, <1>3

\* The inductive invariant of the content.
ContentInv ==
    /\ package \in Packages
    /\ draft \in DraftsInReview
    /\ VerdictIsCurrent

LEMMA AssemblyInReview ==
    ASSUME ContentInv, NEW events \in Seq(EventsInReview), NEW restored,
           AssemblyEnd(events, restored)
    PROVE  ContentInv'
  BY DEF ContentInv, AssemblyEnd, DraftsInReview, VerdictIsCurrent

LEMMA ContentInvariant == ReviewSpec => []ContentInv
<1>1. ReviewInit => ContentInv
  <2>1. <<>> \in Seq(EventsInReview)
    OBVIOUS
  <2> QED
    BY <2>1 DEF ReviewInit, ContentInv, VerdictIsCurrent, DraftsInReview
<1>2. ASSUME ContentInv, [ReviewNext]_reviewVars PROVE ContentInv'
  <2>1. package \in ResearchPackages /\ draft.events \in Seq(EventsInReview)
    BY <1>2, PackagesAssumption DEF ContentInv, DraftsInReview
  <2>2. CASE UNCHANGED contentVars /\ verdict' = verdict
    BY <1>2, <2>2 DEF contentVars, ContentInv, VerdictIsCurrent
  <2>3. CASE UNCHANGED reviewVars
    BY <2>2, <2>3 DEF reviewVars, storyVars
  <2>4. CASE PublishStep
    BY <2>2, <2>4 DEF PublishStep, EditBegin, PublishRead, PublishCommit,
                      PublishConflict, storyVars
  <2>5. CASE \E e \in Editors : EditDraft(e)
    BY <1>2, <2>5, EditInReview DEF EditDraft, ContentInv, VerdictIsCurrent
  <2>6. CASE AssemblyBegin
    BY <1>2, <2>6 DEF AssemblyBegin, ContentInv, VerdictIsCurrent
  <2>7. CASE AssembleAll
    <3>1. \A n \in 1 .. EventCount(package) :
             AssembledEvent(package, n - 1) \in EventsInReview
      BY <2>1, AssembledEventInReview, EventCountIsANumber
    <3>2. AssembledEvents(package) \in Seq(EventsInReview)
      BY <2>1, <3>1, EventCountIsANumber DEF AssembledEvents
    <3> QED
      BY <1>2, <2>7, <3>2, AssemblyInReview DEF AssembleAll
  <2>8. ASSUME NEW n \in 1 .. MaxEvents, AssembleEvent(n) PROVE ContentInv'
    <3>1. n \in DOMAIN draft.events /\ n - 1 \in Nat
      BY <2>1, <2>8 DEF AssembleEvent
    <3>2. AssembledEvent(package, n - 1) \in EventsInReview
      BY <2>1, <3>1, AssembledEventInReview
    <3>3. [draft.events EXCEPT ![n] = AssembledEvent(package, n - 1)] \in Seq(EventsInReview)
      BY <2>1, <3>1, <3>2, ExceptSeq
    <3> QED
      BY <1>2, <2>8, <3>3, AssemblyInReview DEF AssembleEvent
  <2>9. CASE AssemblyFails
    BY <1>2, <2>1, <2>9, AssemblyInReview DEF AssemblyFails
  <2>10. CASE \E t \in RunTypes : Validate(t)
    BY <2>2, <2>10 DEF Validate
  <2>11. CASE \/ \E r \in Resolvers, i \in DOMAIN issues, k \in ResolveKeys,
                    status \in ResolutionStatuses : ResolveRead(r, i, k, status)
              \/ \E r \in Resolvers : ResolveCommit(r) \/ ResolveUndone(r)
    BY <2>2, <2>11 DEF ResolveRead, ResolveCommit, ResolveUndone, storyVars
  <2> QED
    BY <1>2, <2>3, <2>4, <2>5, <2>6, <2>7, <2>8, <2>9, <2>10, <2>11
       DEF ReviewNext, AssemblyStep
<1> QED
  BY <1>1, <1>2, PTL DEF ReviewSpec

\* An event whose sources are all in review always gives a validation something
\* to say.
LEMMA EventIsNeverFaultless ==
    ASSUME NEW n, NEW e \in EventsInReview
    PROVE  EventIssues(n, e) # {}
<1> DEFINE rows == {e.sources[k] : k \in DOMAIN e.sources}
<1>1. \A r \in rows : r \in RowsInReview
  BY DEF EventsInReview
<1>2. \A r \in rows : r.status = "draft"
  BY <1>1 DEF RowsInReview
<1> HIDE DEF rows
<1>3. CASE rows = {}
  BY <1>3 DEF EventIssues, rows
<1>4. CASE rows # {} /\ \A r \in rows : ~r.isPublic
  BY <1>4 DEF EventIssues, rows
<1>5. CASE rows # {} /\ \E r \in rows : r.isPublic
  <2>1. ~\A r \in rows : r.status = "rejected"
    BY <1>2, <1>5
  <2>2. Issue("all_draft", n, "warn") \in EventIssues(n, e)
    BY <1>2, <1>5, <2>1 DEF EventIssues, rows, When
  <2> QED
    BY <2>2
<1> QED
  BY <1>3, <1>4, <1>5

(***************************************************************************)
(* For any research package, any number of edits and any order of them and *)
(* of assemblies, a validation passes over the sections of a draft, never  *)
(* over its events: nothing in the API reviews a source.                   *)
(***************************************************************************)
THEOREM EventlessDraftsPass == ReviewSpec => []OnlyEventlessDraftsPass
<1>1. ContentInv => OnlyEventlessDraftsPass
  <2> SUFFICES ASSUME ContentInv, verdict \in {"pass", "synthesis"}
               PROVE  draft.header /\ draft.sections > 0 /\ draft.events = <<>>
    BY DEF OnlyEventlessDraftsPass
  <2> DEFINE full == DraftIssues(draft, "full")
             structure == DraftIssues(draft, "structure")
  <2>1. structure \subseteq full /\ \A i \in full : i \in structure \/ i.effect = "warn"
    BY RunTypesDifferInSynthesis DEF RunTypes
  <2>2. verdict = IF OverallResult(full) # OverallResult(structure)
                  THEN "synthesis" ELSE OverallResult(full)
    BY DEF ContentInv, VerdictIsCurrent, VerdictOf
  <2>3. structure = {}
    <3> HIDE DEF full, structure
    <3> QED
      BY <2>1, <2>2 DEF OverallResult
  <2>4. draft \in DraftsInReview
    BY DEF ContentInv
  <2>5. \A n \in DOMAIN draft.events : EventIssues(n, draft.events[n]) = {}
    BY <2>3 DEF DraftIssues
  <2>6. DOMAIN draft.events = {}
    BY <2>4, <2>5, EventIsNeverFaultless DEF DraftsInReview
  <2>7. draft.events = <<>>
    BY <2>4, <2>6, EmptySeq DEF DraftsInReview
  <2>8. StoryIssues(draft, "structure") = {}
    BY <2>3 DEF DraftIssues
  <2>9. draft.header /\ draft.sections # 0
    BY <2>7, <2>8 DEF StoryIssues, When
  <2> QED
    BY <2>4, <2>7, <2>9 DEF DraftsInReview
<1> QED
  BY <1>1, ContentInvariant, PTL

-----------------------------------------------------------------------------
(* Publication and resolution *)

\* PublishedOnce, without counting.
OneRowWhenPublished ==
    IF storyStatus = "published" THEN \E k : publishRows = {k} ELSE publishRows = {}

LEMMA OneRowCounts ==
    ASSUME OneRowWhenPublished
    PROVE  PublishedOnce
<1>1. Cardinality({}) = 0
  BY FS_EmptySet
<1>2. \A k : Cardinality({k}) = 1
  BY FS_Singleton
<1> QED
  BY <1>1, <1>2 DEF OneRowWhenPublished, PublishedOnce

(***************************************************************************)
(* For any number of publishers and keys, and whatever edits, assemblies   *)
(* and validations come in between, a story is published by one request.   *)
(***************************************************************************)
THEOREM OneRequestPublishes == ReviewSpec => []PublishedOnce
<1>1. ReviewInit => OneRowWhenPublished
  BY DEF ReviewInit, PublishingIdle, OneRowWhenPublished
<1>2. ASSUME OneRowWhenPublished, [ReviewNext]_reviewVars PROVE OneRowWhenPublished'
  <2>1. CASE storyStatus' = storyStatus /\ publishRows' = publishRows
    BY <1>2, <2>1 DEF OneRowWhenPublished
  <2>2. CASE UNCHANGED reviewVars
    BY <2>1, <2>2 DEF reviewVars, storyVars, publishVars
  <2>3. CASE PublishStep
    <3>1. ASSUME NEW p \in Publishers, PublishCommit(p) PROVE OneRowWhenPublished'
      BY <1>2, <3>1 DEF OneRowWhenPublished, PublishCommit, Publishable
    <3> QED
      BY <2>1, <2>3, <3>1 DEF PublishStep, EditBegin, PublishRead, PublishConflict,
                              storyVars
  <2>4. CASE \E e \in Editors : EditDraft(e)
    BY <2>1, <2>4 DEF EditDraft, EditCommit
  <2>5. CASE AssemblyStep
    BY <2>1, <2>5 DEF AssemblyStep, AssemblyBegin, AssembleAll, AssembleEvent,
                      AssemblyFails, AssemblyEnd, publishVars
  <2>6. CASE \E t \in RunTypes : Validate(t)
    BY <2>1, <2>6 DEF Validate
  <2>7. CASE \/ \E r \in Resolvers, i \in DOMAIN issues, k \in ResolveKeys,
                   status \in ResolutionStatuses : ResolveRead(r, i, k, status)
             \/ \E r \in Resolvers : ResolveCommit(r) \/ ResolveUndone(r)
    BY <2>1, <2>7 DEF ResolveRead, ResolveCommit, ResolveUndone, storyVars, publishVars
  <2> QED
    BY <1>2, <2>2, <2>3, <2>4, <2>5, <2>6, <2>7 DEF ReviewNext
<1> QED
  BY <1>1, <1>2, OneRowCounts, PTL DEF ReviewSpec

(***************************************************************************)
(* For any number of requests and keys, a resolution that shows was asked  *)
(* for, of this issue of this report.                                      *)
(***************************************************************************)
THEOREM ResolutionsAreAskedFor == ReviewSpec => []ResolvedByRequest
<1>1. ReviewInit => ResolvedByRequest
  BY DEF ReviewInit, ResolvedByRequest
<1>2. ASSUME ResolvedByRequest, [ReviewNext]_reviewVars PROVE ResolvedByRequest'
  <2>1. CASE UNCHANGED <<reportVars, resolveRows>>
    BY <1>2, <2>1 DEF reportVars, ResolvedByRequest
  <2>2. CASE UNCHANGED reviewVars
    BY <2>1, <2>2 DEF reviewVars, resolveVars
  <2>3. CASE PublishStep \/ AssemblyStep \/ \E e \in Editors : EditDraft(e)
    BY <2>1, <2>3 DEF PublishStep, EditDraft, AssemblyStep, AssemblyBegin, AssembleAll,
                      AssembleEvent, AssemblyFails, AssemblyEnd, resolveVars
  <2>4. CASE \E t \in RunTypes : Validate(t)
    BY <2>4 DEF Validate, StoreReport, ResolvedByRequest
  <2>5. ASSUME NEW r \in Resolvers, ResolveCommit(r) PROVE ResolvedByRequest'
    <3>1. CASE resolving[r].report = reports
      BY <1>2, <2>5, <3>1 DEF ResolveCommit, contentVars, ResolvedByRequest
    <3>2. CASE resolving[r].report # reports
      BY <1>2, <2>5, <3>2 DEF ResolveCommit, ResolvedByRequest
    <3> QED
      BY <3>1, <3>2
  <2>6. CASE \/ \E r \in Resolvers, i \in DOMAIN issues, k \in ResolveKeys,
                   status \in ResolutionStatuses : ResolveRead(r, i, k, status)
             \/ \E r \in Resolvers : ResolveUndone(r)
    BY <2>1, <2>6 DEF ResolveRead, ResolveUndone
  <2> QED
    BY <1>2, <2>2, <2>3, <2>4, <2>5, <2>6 DEF ReviewNext
<1> QED
  BY <1>1, <1>2, PTL DEF ReviewSpec

-----------------------------------------------------------------------------
(* Types *)

LEMMA DraftsInReviewAreDrafts == DraftsInReview \subseteq Drafts
<1>1. RowsInReview \subseteq SourceRows
  BY DEF RowsInReview, SourceRows
<1>2. \A rows \in Seq(RowsInReview) : rows \in Seq(SourceRows)
  BY <1>1
<1>3. EventsInReview \subseteq EventRows
  BY <1>2 DEF EventsInReview, EventRows
<1>4. \A events \in Seq(EventsInReview) : events \in Seq(EventRows)
  BY <1>3
<1> QED
  BY <1>4 DEF DraftsInReview, Drafts

\* A story is assembled while its assembly runs.
AssemblyHoldsStory ==
    /\ assembly \in {NoAssembly, "ready_for_edit", "blocked"}
    /\ assembly # NoAssembly => workflowState = "assembling_draft"

\* A request under way is for a report that there has been.
ResolutionsFit ==
    /\ reports \in Nat
    /\ \A i \in DOMAIN issues : issues[i] \in ResolutionStatuses
    /\ resolving = [r \in Resolvers |-> resolving[r]]
    /\ \A r \in Resolvers : resolving[r] # NoResolution =>
          /\ resolving[r].report \in 1 .. reports
          /\ resolving[r].status \in ResolutionStatuses

RecordsInv ==
    StoryTypeOK /\ PublishingTypeOK /\ AssemblyHoldsStory /\ ResolutionsFit

LEMMA RecordsInvariant == ReviewSpec => []RecordsInv
<1> USE DEF RecordsInv
<1>1. ReviewInit => RecordsInv
  <2> SUFFICES ASSUME ReviewInit PROVE RecordsInv
    OBVIOUS
  <2>1. StoryTypeOK
    BY VerdictIsVerdict DEF ReviewInit, StoryTypeOK, WorkflowStates, StoryStatuses
  <2>2. PublishingTypeOK
    BY DEF ReviewInit, PublishingIdle, PublishingTypeOK
  <2>3. AssemblyHoldsStory /\ ResolutionsFit
    BY DEF ReviewInit, AssemblyHoldsStory, ResolutionsFit
  <2> QED
    BY <2>1, <2>2, <2>3
<1>2. ASSUME RecordsInv, ContentInv, [ReviewNext]_reviewVars PROVE RecordsInv'
  <2>1. CASE UNCHANGED reviewVars
    BY <1>2, <2>1 DEF reviewVars, storyVars, publishVars, contentVars, reportVars,
        resolveVars, StoryTypeOK, PublishingTypeOK, AssemblyHoldsStory, ResolutionsFit
  <2>2. CASE PublishStep
    <3>1. ResolutionsFit'
      BY <1>2, <2>2 DEF PublishStep, reportVars, resolveVars, ResolutionsFit
    <3>2. ASSUME NEW e \in Editors, NEW restore \in BOOLEAN, EditBegin(e, restore),
                 UNCHANGED contentVars
          PROVE  StoryTypeOK' /\ PublishingTypeOK' /\ AssemblyHoldsStory'
      BY <1>2, <3>2 DEF EditBegin, storyVars, contentVars, StoryTypeOK,
                        PublishingTypeOK, AssemblyHoldsStory
    <3>3. ASSUME NEW p \in Publishers, NEW k \in PublishKeys, NEW ack \in BOOLEAN,
                 PublishRead(p, k, ack), UNCHANGED contentVars
          PROVE  StoryTypeOK' /\ PublishingTypeOK' /\ AssemblyHoldsStory'
      BY <1>2, <3>3 DEF PublishRead, storyVars, contentVars, StoryTypeOK,
                        PublishingTypeOK, AssemblyHoldsStory, Requests
    <3>4. ASSUME NEW p \in Publishers, PublishCommit(p), UNCHANGED contentVars
          PROVE  StoryTypeOK' /\ PublishingTypeOK' /\ AssemblyHoldsStory'
      <4>1. publishing[p].key \in PublishKeys
        BY <1>2, <3>4 DEF PublishCommit, PublishingTypeOK, Requests
      <4>2. PublishingTypeOK'
        BY <1>2, <3>4, <4>1 DEF PublishCommit, PublishingTypeOK
      <4>3. StoryTypeOK'
        BY <1>2, <3>4 DEF PublishCommit, MoveStory, StoryTypeOK, WorkflowStates,
                          StoryStatuses
      <4>4. AssemblyHoldsStory'
        BY <1>2, <3>4 DEF PublishCommit, Publishable, contentVars, AssemblyHoldsStory
      <4> QED
        BY <4>2, <4>3, <4>4
    <3>5. ASSUME NEW p \in Publishers, PublishConflict(p), UNCHANGED contentVars
          PROVE  StoryTypeOK' /\ PublishingTypeOK' /\ AssemblyHoldsStory'
      BY <1>2, <3>5 DEF PublishConflict, storyVars, contentVars, StoryTypeOK,
                        PublishingTypeOK, AssemblyHoldsStory
    <3> QED
      BY <2>2, <3>1, <3>2, <3>3, <3>4, <3>5 DEF PublishStep
  <2>3. ASSUME NEW e \in Editors, EditDraft(e) PROVE RecordsInv'
    <3>1. ResolutionsFit' /\ AssemblyHoldsStory'
      BY <1>2, <2>3 DEF EditDraft, EditCommit, reportVars, resolveVars, ResolutionsFit,
                        AssemblyHoldsStory
    <3>2. StoryTypeOK' /\ PublishingTypeOK'
      BY <1>2, <2>3 DEF EditDraft, EditCommit, StoryTypeOK, PublishingTypeOK
    <3> QED
      BY <3>1, <3>2
  <2>4. CASE AssemblyBegin
    <3>1. ResolutionsFit' /\ PublishingTypeOK'
      BY <1>2, <2>4 DEF AssemblyBegin, reportVars, resolveVars, publishVars,
                        ResolutionsFit, PublishingTypeOK
    <3>2. AssemblyHoldsStory'
      BY <2>4 DEF AssemblyBegin, MoveStory, AssemblyHoldsStory
    <3>3. StoryTypeOK'
      BY <1>2, <2>4 DEF AssemblyBegin, MoveStory, StoryTypeOK, WorkflowStates
    <3> QED
      BY <3>1, <3>2, <3>3
  <2>5. ASSUME NEW events, NEW restored \in WorkflowStates, AssemblyEnd(events, restored)
        PROVE  RecordsInv'
    <3>1. ResolutionsFit' /\ PublishingTypeOK'
      BY <1>2, <2>5 DEF AssemblyEnd, reportVars, resolveVars, publishVars,
                        ResolutionsFit, PublishingTypeOK
    <3>2. AssemblyHoldsStory'
      BY <2>5 DEF AssemblyEnd, AssemblyHoldsStory
    <3>3. StoryTypeOK'
      BY <1>2, <2>5, VerdictIsVerdict DEF AssemblyEnd, MoveStory, StoryTypeOK,
                                          WorkflowStates
    <3> QED
      BY <3>1, <3>2, <3>3
  <2>6. CASE AssembleAll \/ (\E n \in 1 .. MaxEvents : AssembleEvent(n)) \/ AssemblyFails
    <3>1. "ready_for_edit" \in WorkflowStates
      BY DEF WorkflowStates
    <3>2. AssemblyFails => assembly \in WorkflowStates
      BY <1>2 DEF AssemblyFails, AssemblyEnd, AssemblyHoldsStory, WorkflowStates
    <3> QED
      BY <2>5, <2>6, <3>1, <3>2 DEF AssembleAll, AssembleEvent, AssemblyFails
  <2>7. ASSUME NEW t \in RunTypes, Validate(t) PROVE RecordsInv'
    <3>1. ResolutionsFit'
      BY <1>2, <2>7 DEF Validate, StoreReport, resolveVars, ResolutionsFit,
                        ResolutionStatuses
    <3>2. PublishingTypeOK'
      BY <1>2, <2>7, ResultIsOverall DEF Validate, StoreReport, PublishingTypeOK
    <3>3. AssemblyHoldsStory'
      BY <1>2, <2>7 DEF Validate, ALLOWED_VALIDATION_STATES, contentVars,
                        AssemblyHoldsStory
    <3>4. StoryTypeOK'
      BY <1>2, <2>7 DEF Validate, MoveStory, StoryTypeOK, WorkflowStates
    <3> QED
      BY <3>1, <3>2, <3>3, <3>4
  <2>8. ASSUME NEW r \in Resolvers,
               \/ \E i \in DOMAIN issues, k \in ResolveKeys, status \in ResolutionStatuses :
                     ResolveRead(r, i, k, status)
               \/ ResolveCommit(r) \/ ResolveUndone(r)
        PROVE  RecordsInv'
    <3>1. UNCHANGED <<storyVars, publishVars, contentVars>>
      BY <2>8 DEF ResolveRead, ResolveCommit, ResolveUndone
    <3>2. StoryTypeOK' /\ PublishingTypeOK' /\ AssemblyHoldsStory'
      BY <1>2, <3>1 DEF storyVars, publishVars, contentVars, StoryTypeOK,
                        PublishingTypeOK, AssemblyHoldsStory
    <3>3. ResolutionsFit'
      <4>1. ASSUME NEW i \in DOMAIN issues, NEW k \in ResolveKeys,
                   NEW status \in ResolutionStatuses, ResolveRead(r, i, k, status)
            PROVE  ResolutionsFit'
        BY <1>2, <4>1 DEF ResolveRead, reportVars, ResolutionsFit
      <4>2. CASE ResolveCommit(r)
        BY <1>2, <4>2 DEF ResolveCommit, ResolutionsFit
      <4>3. CASE ResolveUndone(r)
        BY <1>2, <4>3 DEF ResolveUndone, reportVars, ResolutionsFit
      <4> QED
        BY <2>8, <4>1, <4>2, <4>3
    <3> QED
      BY <3>2, <3>3
  <2> QED
    BY <1>2, <2>1, <2>2, <2>3, <2>4, <2>6, <2>7, <2>8 DEF ReviewNext, AssemblyStep
<1> QED
  BY <1>1, <1>2, ContentInvariant, PTL DEF ReviewSpec

(***************************************************************************)
(* The types of Review, with the two references between its parts: a story *)
(* is assembled while its assembly runs, and a resolution in progress is   *)
(* for a report that there has been.                                       *)
(***************************************************************************)
THEOREM ReviewTypeCorrect == ReviewSpec => []ReviewTypeOK
<1>1. ContentInv /\ RecordsInv => ReviewTypeOK
  BY DraftsInReviewAreDrafts
     DEF ContentInv, RecordsInv, AssemblyHoldsStory, ResolutionsFit, ReviewTypeOK
<1> QED
  BY <1>1, ContentInvariant, RecordsInvariant, PTL

-----------------------------------------------------------------------------
(* What supports an assembled event *)

LEMMA DivisionWithRemainder ==
    ASSUME NEW n \in Nat, NEW m \in Nat, m > 0
    PROVE  /\ n \div m \in Int /\ n % m \in Nat
           /\ n = m * (n \div m) + (n % m)
  OBVIOUS

\* Neighbours in a ring of two or more candidates are different ones.
LEMMA NeighboursDiffer ==
    ASSUME NEW i \in Nat, NEW m \in Nat, m > 1
    PROVE  i % m # (i + 1) % m
<1>1. PICK q \in Int, p \in Int : i = m * q + (i % m) /\ i + 1 = m * p + ((i + 1) % m)
  <2>1. m > 0 /\ i + 1 \in Nat
    OBVIOUS
  <2>2. i \div m \in Int /\ i = m * (i \div m) + (i % m)
    BY ONLY <2>1, i \in Nat, m \in Nat, DivisionWithRemainder
  <2>3. (i + 1) \div m \in Int /\ i + 1 = m * ((i + 1) \div m) + ((i + 1) % m)
    BY ONLY <2>1, m \in Nat, DivisionWithRemainder
  <2> QED
    BY <2>2, <2>3
<1>2. SUFFICES ASSUME i % m = (i + 1) % m
               PROVE  FALSE
  OBVIOUS
<1>3. i % m \in Nat
  OBVIOUS
<1>4. m * p = m * q + 1
  BY <1>1, <1>2, <1>3
<1>5. PICK d \in Int : d = p - q /\ m * d = 1
  BY <1>4
<1>6. d <= 0 \/ d >= 1
  OBVIOUS
<1> QED
  BY <1>5, <1>6

\* With two or more candidates an event gets two rows, the first one primary.
LEMMA AssembledSources ==
    ASSUME NEW pkg \in ResearchPackages, Len(pkg.candidates) > 1, NEW i \in Nat
    PROVE  /\ Len(PickSources(pkg, i)) = 2
           /\ RecreatedSources(pkg, i) = [k \in 1 .. 2 |-> SourceRow(TRUE, k = 1)]
<1> DEFINE m == Len(pkg.candidates)
           picked == PickSources(pkg, i)
<1>1. m \in Nat /\ m # 0 /\ m # 1 /\ m > 1 /\ m > 0
  <2>1. m \in Nat /\ m > 1
    BY DEF ResearchPackages
  <2> HIDE DEF m
  <2> QED
    BY <2>1
<1>2. picked = <<(i % m) + 1, ((i + 1) % m) + 1>>
  BY <1>1 DEF PickSources
<1>3. i % m \in Nat /\ (i + 1) % m \in Nat /\ i % m # (i + 1) % m
  <2> HIDE DEF m
  <2>1. i % m \in Nat /\ (i + 1) % m \in Nat
    BY <1>1
  <2> QED
    BY <1>1, <2>1, NeighboursDiffer
<1>4. Len(picked) = 2 /\ picked[1] # picked[2]
  <2> HIDE DEF m
  <2> QED
    BY <1>2, <1>3
<1> HIDE DEF m, picked
<1>5. Len(Links(pkg, picked)) = 2
  <2>1. Distinct(picked) = picked
    BY <1>4 DEF Distinct
  <2> QED
    BY <1>4, <2>1 DEF Links
<1>6. RecreatedSources(pkg, i) = [k \in 1 .. 2 |-> SourceRow(TRUE, k = 1)]
  BY <1>5 DEF RecreatedSources, picked
<1> QED
  BY <1>4, <1>6 DEF picked

\* Such an event is dense as its rows say, and no validation blocks it.
LEMMA AssembledEventIsSupported ==
    ASSUME NEW pkg \in ResearchPackages, Len(pkg.candidates) > 1, NEW i \in Nat,
           NEW e, e = AssembledEvent(pkg, i)
    PROVE  /\ e.density = SourceDensity(e.sources)
           /\ Cardinality({k \in DOMAIN e.sources : e.sources[k].isPrimary}) = 1
           /\ \A n : \A issue \in EventIssues(n, e) : issue.effect # "block"
<1>1. /\ e.density = SourceDensity(PickSources(pkg, i))
      /\ e.sources = RecreatedSources(pkg, i)
  BY DEF AssembledEvent
<1>2. PICK s : s = e.sources
  OBVIOUS
<1>3. /\ Len(PickSources(pkg, i)) = 2
      /\ s = [k \in 1 .. 2 |-> SourceRow(TRUE, k = 1)]
  BY <1>1, <1>2, AssembledSources
<1>4. /\ Len(s) = 2 /\ DOMAIN s = {1, 2}
      /\ s[1] = [isPublic |-> TRUE, isPrimary |-> TRUE, status |-> "draft"]
      /\ s[2] = [isPublic |-> TRUE, isPrimary |-> FALSE, status |-> "draft"]
  <2>1. Len(s) = 2
    BY <1>3
  <2>2. DOMAIN s = 1 .. 2 /\ 1 .. 2 = {1, 2}
    BY <1>3
  <2>3. s[1] = SourceRow(TRUE, TRUE) /\ s[2] = SourceRow(TRUE, FALSE)
    <3>1. (1 = 1) = TRUE /\ (2 = 1) = FALSE
      OBVIOUS
    <3>2. s[1] = SourceRow(TRUE, 1 = 1) /\ s[2] = SourceRow(TRUE, 2 = 1)
      BY <1>3
    <3> QED
      BY <3>1, <3>2
  <2> QED
    BY <2>1, <2>2, <2>3 DEF SourceRow
<1>5. e.density = SourceDensity(e.sources)
  BY <1>1, <1>2, <1>3, <1>4 DEF SourceDensity
<1>6. Cardinality({k \in DOMAIN e.sources : e.sources[k].isPrimary}) = 1
  <2>1. {k \in DOMAIN s : s[k].isPrimary} = {1}
    BY <1>4
  <2>2. Cardinality({1}) = 1
    BY FS_Singleton
  <2> QED
    BY <1>2, <2>1, <2>2
<1>7. ASSUME NEW n, NEW issue \in EventIssues(n, e)
      PROVE  issue.effect # "block"
  <2> DEFINE rows == {e.sources[k] : k \in DOMAIN e.sources}
  <2>1. s[1] \in rows /\ \A r \in rows : r.isPublic /\ r.status = "draft"
    BY <1>2, <1>4
  <2>2. Len(e.sources) # 1
    BY <1>2, <1>4
  <2> HIDE DEF rows
  <2>3. /\ rows # {} /\ ~(\A r \in rows : ~r.isPublic)
        /\ ~(\A r \in rows : r.status = "rejected")
    BY <2>1
  <2>4. EventIssues(n, e) = {Issue("all_draft", n, "warn")}
    BY <2>1, <2>2, <2>3 DEF EventIssues, When, rows
  <2> QED
    BY <1>7, <2>4 DEF Issue
<1> QED
  BY <1>5, <1>6, <1>7

(***************************************************************************)
(* For any research package with two or more candidate sources: when an    *)
(* assembly ends, each event is supported by as many rows as its density   *)
(* says, one of them primary, and only a header that the creator blanked   *)
(* blocks the draft.                                                       *)
(***************************************************************************)
THEOREM AssembliesAreSupported == ReviewSpec => AssembledEventsAreSupported
<1> DEFINE Supported ==
             /\ \A n \in DOMAIN draft'.events :
                   LET e == draft'.events[n]
                   IN  /\ e.density = SourceDensity(e.sources)
                       /\ Cardinality({k \in DOMAIN e.sources : e.sources[k].isPrimary}) = 1
             /\ verdict' = "block" => ~draft'.header
           Assembled == /\ assembly # NoAssembly /\ assembly' = NoAssembly
                        /\ Len(package.candidates) > 1
                        /\ draft'.events = AssembledEvents(package)
<1>1. ContentInv /\ ContentInv' /\ Assembled => Supported
  <2> SUFFICES ASSUME ContentInv, ContentInv', Assembled
               PROVE  Supported
    OBVIOUS
  <2>1. package \in ResearchPackages
    BY PackagesAssumption DEF ContentInv
  <2>2. PICK d : d = draft'
    OBVIOUS
  <2>3. /\ d.events = AssembledEvents(package) /\ verdict' = VerdictOf(d)
    BY <2>2 DEF ContentInv, VerdictIsCurrent
  <2>4. ASSUME NEW n \in DOMAIN d.events
        PROVE  /\ d.events[n].density = SourceDensity(d.events[n].sources)
               /\ Cardinality({k \in DOMAIN d.events[n].sources :
                                  d.events[n].sources[k].isPrimary}) = 1
               /\ \A issue \in EventIssues(n, d.events[n]) : issue.effect # "block"
    <3>1. /\ n - 1 \in Nat
          /\ d.events[n] = AssembledEvent(package, n - 1)
      BY <2>1, <2>3, <2>4, EventCountIsANumber DEF AssembledEvents
    <3> QED
      BY <2>1, <3>1, AssembledEventIsSupported
  <2>5. ASSUME d.header, NEW t \in RunTypes, NEW issue \in DraftIssues(d, t)
        PROVE  issue.effect # "block"
    <3>1. CASE issue \in StoryIssues(d, t)
      BY <2>5, <3>1 DEF StoryIssues, When, Issue
    <3>2. CASE issue \notin StoryIssues(d, t)
      BY <2>4, <2>5, <3>2 DEF DraftIssues
    <3> QED
      BY <3>1, <3>2
  <2>6. d.header => VerdictOf(d) # "block"
    <3>1. "full" \in RunTypes
      BY DEF RunTypes
    <3>2. d.header => OverallResult(DraftIssues(d, "full")) # "block"
      BY <2>5, <3>1 DEF OverallResult
    <3> QED
      BY <3>2 DEF VerdictOf
  <2> QED
    BY <2>2, <2>3, <2>4, <2>6
<1>2. ContentInv /\ ContentInv' => [Assembled => Supported]_draft
  BY <1>1
<1> QED
  BY <1>2, ContentInvariant, PTL DEF AssembledEventsAreSupported

=============================================================================
