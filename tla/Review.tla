------------------------------- MODULE Review -------------------------------
(***************************************************************************)
(* A draft between its assembly and its publication, with its content: the *)
(* creator edits it, the worker assembles it again, validations report on  *)
(* it, the issues of the latest report are resolved, the story is          *)
(* published.  Publishing.tla leaves the verdict of a validation open;     *)
(* here it is what the engines of Evidence.tla find in the rows that are   *)
(* there, so each validation and each edit is one of Publishing's.         *)
(***************************************************************************)
EXTENDS Publishing, Evidence

CONSTANTS
    Packages,       \* research packages the newest research may have left
    Resolvers,      \* API requests executing PATCH validation/issues/:id
    ResolveKeys,    \* Idempotency-Key values used for resolutions
    ResolvedRules,  \* bound: rules whose issues are resolved
    MaxEvents,      \* bound: events of the draft
    MaxEdits,       \* bound: edits of the draft
    MaxReports,     \* bound: validation reports
    MaxAssemblies,  \* bound: assembly jobs
    MaxResolutions  \* bound: resolutions accepted and in progress

ASSUME PackagesAssumption == Packages \subseteq ResearchPackages

VARIABLES
    package,        \* the newest research: its evidence package
    draft,          \* what the validation reads of the draft
    edits,          \* number of edits so far
    assembly,       \* the running assembly: the state to go back to
    assemblies,     \* number of assembly jobs so far
    reports,        \* number of validation reports so far
    issues,         \* the latest report's issues and their resolution status
    resolving,      \* resolution requests that have passed their checks
    resolveRows     \* creator_validation_issue_resolution_idempotency

contentVars == <<package, draft, edits, assembly, assemblies>>
reportVars == <<reports, issues>>
resolveVars == <<resolving, resolveRows>>
reviewVars == <<storyVars, publishVars, contentVars, reportVars, resolveVars>>

NoAssembly == "none"

ResolutionStatuses == {"open", "resolved"}

NoResolution == [report |-> 0]

Drafts == [header : BOOLEAN, conclusion : BOOLEAN, sections : {0, 1},
           events : Seq(EventRows)]

ReviewTypeOK ==
    /\ StoryTypeOK
    /\ PublishingTypeOK
    /\ package \in Packages
    /\ draft \in Drafts
    /\ assembly \in {NoAssembly, "ready_for_edit", "blocked"}
    /\ assembly # NoAssembly => workflowState = "assembling_draft"
    /\ \A i \in DOMAIN issues : issues[i] \in ResolutionStatuses
    /\ \A r \in Resolvers :
          resolving[r] = NoResolution \/ resolving[r].report \in 1 .. reports

\* The draft that a selected frame leaves: its header filled in, nothing else.
ReviewInit ==
    /\ workflowState = "ready_for_edit"
    /\ storyStatus = "draft"
    /\ draftExists = TRUE
    /\ transition = [from |-> "awaiting_framing_choice", to |-> "ready_for_edit"]
    /\ storyLock = Unlocked
    /\ PublishingIdle
    /\ package \in Packages
    /\ draft = [header |-> TRUE, conclusion |-> FALSE, sections |-> 0, events |-> <<>>]
    /\ verdict = VerdictOf(draft)
    /\ edits = 0
    /\ assembly = NoAssembly /\ assemblies = 0
    /\ reports = 0 /\ issues = <<>>
    /\ resolving = [r \in Resolvers |-> NoResolution]
    /\ resolveRows = {}

-----------------------------------------------------------------------------
(* Edits of the content *)

\* A field of the header blanked or filled in, the conclusion likewise.
HeaderEdits(d) == {[d EXCEPT !.header = ~@], [d EXCEPT !.conclusion = ~@]}

\* A section or an event added; neither is ever removed by the creator.
TimelineEdits(d) ==
    {[d EXCEPT !.sections = 1]} \cup
    {[d EXCEPT !.events = Append(@, ManualEvent)] : n \in Len(d.events) + 1 .. MaxEvents}

\* A source added to an event, public or not, or its visibility changed.  Its
\* review status is not in the request: no request changes it.
SourceEdits(d) ==
    (UNION {{[d EXCEPT !.events[n].sources = Append(@, SourceRow(isPublic, FALSE))] :
                isPublic \in BOOLEAN} :
            n \in {m \in DOMAIN d.events : Len(d.events[m].sources) < 2}})
    \cup
    (UNION {{[d EXCEPT !.events[n].sources[k].isPublic = ~@] :
                k \in DOMAIN d.events[n].sources} : n \in DOMAIN d.events})

EditDraft(e) ==
    /\ edits < MaxEdits
    /\ edits' = edits + 1
    /\ draft' \in HeaderEdits(draft) \cup TimelineEdits(draft) \cup SourceEdits(draft)
    /\ verdict' = VerdictOf(draft')
    /\ EditCommit(e)
    /\ UNCHANGED <<package, assembly, assemblies, reportVars, resolveVars>>

-----------------------------------------------------------------------------
(* Assembly jobs, as the draft sees them *)

AssemblyBegin ==
    /\ RowFree
    /\ draftExists
    /\ workflowState \in {"ready_for_edit", "blocked"}
    /\ assemblies < MaxAssemblies
    /\ assemblies' = assemblies + 1
    /\ assembly' = workflowState
    /\ MoveStory(workflowState, "assembling_draft")
    /\ UNCHANGED <<storyStatus, draftExists, verdict, storyLock, publishVars,
                   package, draft, edits, reportVars, resolveVars>>

AssemblyEnd(events, restored) ==
    /\ assembly # NoAssembly
    /\ RowFree
    /\ draft' = [draft EXCEPT !.events = events]
    /\ verdict' = VerdictOf(draft')
    /\ assembly' = NoAssembly
    /\ MoveStory("assembling_draft", restored)
    /\ UNCHANGED <<storyStatus, draftExists, storyLock, publishVars,
                   package, edits, assemblies, reportVars, resolveVars>>

\* A full regeneration replaces every event.
AssembleAll == AssemblyEnd(AssembledEvents(package), "ready_for_edit")

\* A scoped one rewrites the event at a position the chronology has, whoever
\* wrote that event, and its sources.
AssembleEvent(n) ==
    /\ n \in DOMAIN draft.events
    /\ n <= EventCount(package)
    /\ AssemblyEnd([draft.events EXCEPT ![n] = AssembledEvent(package, n - 1)],
                   "ready_for_edit")

\* A job that fails gives the story back the state it had.
AssemblyFails == AssemblyEnd(draft.events, assembly)

-----------------------------------------------------------------------------
(* runValidation *)

\* Mutant: the report is not made the latest one.
StoreReportUnlinked(found) ==
    /\ reports' = reports + 1
    /\ issues' = [i \in found |-> "open"]
    /\ UNCHANGED report

\* The report and its issues become the draft's latest; every issue is open,
\* also one that the report before had resolved.
StoreReport(found) ==
    /\ reports' = reports + 1
    /\ issues' = [i \in found |-> "open"]
    /\ report' = OverallResult(found)

\* Mutant: warnings block.
ValidateStrict(runType) ==
    LET found == DraftIssues(draft, runType)
    IN  /\ RowFree
        /\ draftExists
        /\ workflowState \in ALLOWED_VALIDATION_STATES
        /\ reports < MaxReports
        /\ StoreReport(found)
        /\ MoveStory(workflowState,
                     IF OverallResult(found) # "pass" THEN "blocked" ELSE "ready_to_publish")
        /\ UNCHANGED <<storyStatus, draftExists, verdict, storyLock, editing,
                       publishing, publishRows, contentVars, resolveVars>>

Validate(runType) ==
    LET found == DraftIssues(draft, runType)
    IN  /\ RowFree
        /\ draftExists
        /\ workflowState \in ALLOWED_VALIDATION_STATES
        /\ reports < MaxReports
        /\ StoreReport(found)
        /\ MoveStory(workflowState,
                     IF OverallResult(found) = "block" THEN "blocked" ELSE "ready_to_publish")
        /\ UNCHANGED <<storyStatus, draftExists, verdict, storyLock, editing,
                       publishing, publishRows, contentVars, resolveVars>>

-----------------------------------------------------------------------------
(* patchIssueResolution: no lock is taken and no report is recomputed *)

RowsOf(n, i, k) ==
    {row \in resolveRows : row.report = n /\ row.issue = i /\ row.key = k}

\* The issue is one of the latest report.  A key used for it before is a replay
\* or a mismatch, and changes nothing.
ResolveRead(r, i, k, status) ==
    /\ resolving[r] = NoResolution
    /\ reports > 0
    /\ i \in DOMAIN issues
    /\ i.rule \in ResolvedRules
    /\ Cardinality(resolveRows)
          + Cardinality({q \in Resolvers : resolving[q] # NoResolution}) < MaxResolutions
    /\ RowsOf(reports, i, k) = {}
    /\ resolving' = [resolving EXCEPT ![r] =
                        [report |-> reports, issue |-> i, key |-> k, status |-> status]]
    /\ UNCHANGED <<storyVars, publishVars, contentVars, reportVars, resolveRows>>

\* Mutant: the status is stored whatever happens to the row.
ResolveCommitUnkeyed(r) ==
    LET request == resolving[r]
    IN  /\ request # NoResolution
        /\ issues' = IF request.report = reports
                     THEN [issues EXCEPT ![request.issue] = request.status] ELSE issues
        /\ resolveRows' = IF RowsOf(request.report, request.issue, request.key) = {}
                          THEN resolveRows \cup {request} ELSE resolveRows
        /\ resolving' = [resolving EXCEPT ![r] = NoResolution]
        /\ UNCHANGED <<storyVars, publishVars, contentVars, reports>>

\* The issue it found is updated, in the latest report or in one that has been
\* replaced meanwhile; the key's row is unique, or the transaction is undone.
ResolveCommit(r) ==
    LET request == resolving[r]
    IN  /\ request # NoResolution
        /\ RowsOf(request.report, request.issue, request.key) = {}
        /\ issues' = IF request.report = reports
                     THEN [issues EXCEPT ![request.issue] = request.status] ELSE issues
        /\ resolveRows' = resolveRows \cup {request}
        /\ resolving' = [resolving EXCEPT ![r] = NoResolution]
        /\ UNCHANGED <<storyVars, publishVars, contentVars, reports>>

ResolveUndone(r) ==
    LET request == resolving[r]
    IN  /\ request # NoResolution
        /\ RowsOf(request.report, request.issue, request.key) # {}
        /\ resolving' = [resolving EXCEPT ![r] = NoResolution]
        /\ UNCHANGED <<storyVars, publishVars, contentVars, reportVars, resolveRows>>

-----------------------------------------------------------------------------

\* The steps of Publishing that leave the content alone.
PublishStep ==
    /\ \/ \E e \in Editors, restore \in BOOLEAN : EditBegin(e, restore)
       \/ \E p \in Publishers, k \in PublishKeys, ack \in BOOLEAN : PublishRead(p, k, ack)
       \/ \E p \in Publishers : PublishCommit(p) \/ PublishConflict(p)
    /\ UNCHANGED <<contentVars, reportVars, resolveVars>>

AssemblyStep ==
    \/ AssemblyBegin
    \/ AssembleAll
    \/ \E n \in 1 .. MaxEvents : AssembleEvent(n)
    \/ AssemblyFails

ReviewNext ==
    \/ PublishStep
    \/ \E e \in Editors : EditDraft(e)
    \/ AssemblyStep
    \/ \E t \in RunTypes : Validate(t)
    \/ \E r \in Resolvers, i \in DOMAIN issues, k \in ResolveKeys,
          status \in ResolutionStatuses : ResolveRead(r, i, k, status)
    \/ \E r \in Resolvers : ResolveCommit(r) \/ ResolveUndone(r)

ReviewSpec == ReviewInit /\ [][ReviewNext]_reviewVars

-----------------------------------------------------------------------------
(* Properties *)

(***************************************************************************)
(* Whatever the content, an edit or a validation of it is one that         *)
(* Publishing allows: its abstraction of the engines to one verdict, with  *)
(* two outcomes where only the synthesis is missing, loses no result that  *)
(* they have.                                                              *)
(***************************************************************************)
ImplementsPublishing == [][PublishingNext \/ AssemblyStep]_<<storyVars, publishVars>>

(***************************************************************************)
(* No draft with an event validates without an issue, whatever its creator *)
(* does, because no request of the API takes a source out of review: the   *)
(* only report that passes is that of a timeline of sections alone.        *)
(***************************************************************************)
OnlyEventlessDraftsPass ==
    verdict \in {"pass", "synthesis"} =>
        /\ draft.header
        /\ draft.sections > 0
        /\ draft.events = <<>>

(***************************************************************************)
(* The events of a draft assembled from two or more candidate sources are  *)
(* supported by two rows each, one of them primary, as their density says: *)
(* no turning point is blocked for want of corroboration, and until the    *)
(* creator edits it the draft is not blocked.                              *)
(***************************************************************************)
AssembledEventsAreSupported ==
    [][/\ assembly # NoAssembly /\ assembly' = NoAssembly
       /\ Len(package.candidates) > 1
       /\ draft'.events = AssembledEvents(package)
       => /\ \A n \in DOMAIN draft'.events :
                LET e == draft'.events[n]
                IN  /\ e.density = SourceDensity(e.sources)
                    /\ Cardinality({k \in DOMAIN e.sources : e.sources[k].isPrimary}) = 1
          /\ verdict' = "block" => ~draft'.header]_draft

(***************************************************************************)
(* An issue shows as resolved only if a request that was accepted for this *)
(* issue of this report resolved it: requests that race, that reuse a key, *)
(* or that come late for a report already replaced leave no other trace,   *)
(* and no resolution outlives its report.                                  *)
(***************************************************************************)
ResolvedByRequest ==
    \A i \in DOMAIN issues : issues[i] = "resolved" =>
        \E row \in resolveRows :
            row.report = reports /\ row.issue = i /\ row.status = "resolved"

=============================================================================
