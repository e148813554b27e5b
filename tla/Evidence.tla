------------------------------ MODULE Evidence ------------------------------
(***************************************************************************)
(* From a research package to a draft, and from a draft to its validation. *)
(*                                                                         *)
(* The first half is packages/shared: how the worker turns the hints and   *)
(* candidate sources of a research job into chronology events and evidence *)
(* links, and what a draft assembly makes of them.  The second half is the *)
(* two validation engines: the issues they find in a draft.  Everything is *)
(* a function of its arguments; Review.tla runs it.                        *)
(***************************************************************************)
EXTENDS Naturals, Sequences, FiniteSets

ReliabilityTiers == {"high", "medium", "low", "unrated"}

MAX_HINTS == 8

\* A candidate source: its tier, and whether its note signals a dispute.
Candidates == [tier : ReliabilityTiers, disputes : BOOLEAN]

\* What a research job leaves: the number of usable hints, whether a risk flag
\* is high, and the candidate sources in their order.
ResearchPackages ==
    [hints : Nat, highRisk : BOOLEAN, candidates : Seq(Candidates)]

\* The package the worker writes today, whatever the brief says.
StubPackage ==
    [hints |-> 2, highRisk |-> FALSE,
     candidates |-> <<[tier |-> "unrated", disputes |-> FALSE],
                      [tier |-> "medium", disputes |-> FALSE]>>]

-----------------------------------------------------------------------------
(* buildChronologyEventsFromResearchPackage *)

\* One event per hint, at most eight; two made from the summary without hints.
EventCount(pkg) ==
    IF pkg.hints = 0 THEN 2 ELSE IF pkg.hints > MAX_HINTS THEN MAX_HINTS ELSE pkg.hints

\* Mutant: the second pick is the first one again.
PickSameSource(pkg, i) ==
    LET m == Len(pkg.candidates)
    IN  CASE m = 0 -> <<>>
          [] m = 1 -> <<1>>
          [] OTHER -> <<(i % m) + 1, (i % m) + 1>>

\* The candidates that support the event at position i (from 0): neighbours
\* in the ring of candidates.
PickSources(pkg, i) ==
    LET m == Len(pkg.candidates)
    IN  CASE m = 0 -> <<>>
          [] m = 1 -> <<1>>
          [] OTHER -> <<(i % m) + 1, ((i + 1) % m) + 1>>

EventKind(count, i) ==
    IF count >= 3 /\ i = count \div 2 THEN "turning_point" ELSE "standard"

Significance(count, i) == IF i \in {0, count - 1} THEN "major" ELSE "standard"

SourceDensity(picked) ==
    CASE Len(picked) = 0 -> "none"
      [] Len(picked) = 1 -> "low"
      [] Len(picked) = 2 -> "medium"
      [] OTHER           -> "high"

Confidence(pkg, picked) ==
    IF picked = <<>> \/ \E k \in DOMAIN picked :
                           pkg.candidates[picked[k]].tier \in {"low", "unrated"}
    THEN "emerging" ELSE "mostly_verified"

ClaimRisk(pkg, picked) == IF pkg.highRisk \/ picked = <<>> THEN "high" ELSE "medium"

-----------------------------------------------------------------------------
(* buildChronologyEventSourceLinkRows *)

\* A candidate named twice is linked once.
Distinct(picked) ==
    IF Len(picked) = 2 /\ picked[1] = picked[2] THEN <<picked[1]>> ELSE picked

Strong(candidate) == candidate.tier \in {"high", "medium"}

Relation(candidate, orderingIndex) ==
    CASE candidate.disputes -> "disputes"
      [] ~candidate.disputes /\ orderingIndex = 0 ->
            IF Strong(candidate) THEN "documents"
            ELSE IF candidate.tier = "low" THEN "contextualizes" ELSE "corroborates"
      [] ~candidate.disputes /\ orderingIndex = 1 -> "corroborates"
      [] OTHER -> IF Strong(candidate) THEN "corroborates" ELSE "incidental"

\* Only a low-tier first link counts although its source is weak.
CountsTowardSufficiency(candidate, orderingIndex) ==
    /\ ~candidate.disputes
    /\ \/ Strong(candidate)
       \/ candidate.tier = "low" /\ orderingIndex = 0

Links(pkg, picked) ==
    [k \in 1 .. Len(Distinct(picked)) |->
        LET candidate == pkg.candidates[Distinct(picked)[k]]
        IN  [source   |-> Distinct(picked)[k],
             relation |-> Relation(candidate, k - 1),
             counts   |-> CountsTowardSufficiency(candidate, k - 1)]]

-----------------------------------------------------------------------------
(* The rows a draft assembly creates *)

\* A source row as the validation reads it, and whether it is the primary one.
SourceRow(isPublic, isPrimary) ==
    [isPublic |-> isPublic, isPrimary |-> isPrimary, status |-> "draft"]

RecreatedSources(pkg, i) ==
    [k \in 1 .. Len(Links(pkg, PickSources(pkg, i))) |-> SourceRow(TRUE, k = 1)]

\* The event_draft row, with its source_record rows, of chronology event i.
AssembledEvent(pkg, i) ==
    LET picked == PickSources(pkg, i)
    IN  [eventType    |-> EventKind(EventCount(pkg), i),
         significance |-> Significance(EventCount(pkg), i),
         density      |-> SourceDensity(picked),
         confidence   |-> Confidence(pkg, picked),
         risk         |-> ClaimRisk(pkg, picked),
         sources      |-> RecreatedSources(pkg, i)]

AssembledEvents(pkg) ==
    [n \in 1 .. EventCount(pkg) |-> AssembledEvent(pkg, n - 1)]

SourceRows == [isPublic : BOOLEAN, isPrimary : BOOLEAN,
               status : {"draft", "approved", "rejected"}]

EventRows ==
    [eventType : {"standard", "turning_point", "chatter"},
     significance : {"standard", "major", "critical"},
     density : {"none", "low", "medium", "high"},
     confidence : {"emerging", "mostly_verified"},
     risk : {"low", "medium", "high"},
     sources : Seq(SourceRows)]

\* An event the creator adds by hand.
ManualEvent ==
    [eventType |-> "standard", significance |-> "standard", density |-> "none",
     confidence |-> "mostly_verified", risk |-> "low", sources |-> <<>>]

-----------------------------------------------------------------------------
(* collectSkeletonValidationIssues, collectSourceSufficiencyAndReferenceIssues *)

RunTypes == {"structure", "trust", "style", "publish_readiness", "full"}

Issue(rule, object, effect) == [rule |-> rule, object |-> object, effect |-> effect]

Story == 0      \* the object of an issue about the whole story; events are 1, 2, ...

When(condition, issue) == IF condition THEN {issue} ELSE {}

\* A source row belongs to one event, so the rows are the distinct sources.
SourcesOf(d) ==
    UNION {{n} \X DOMAIN d.events[n].sources : n \in DOMAIN d.events}

\* What is wrong with the draft as a whole: its header (title, summary, lens),
\* an empty timeline, a missing conclusion, one source for everything.
StoryIssues(d, runType) ==
    When(~d.header, Issue("header", Story, "block"))
    \cup When(d.sections = 0 /\ d.events = <<>>, Issue("timeline_gap", Story, "warn"))
    \cup When(/\ runType \in {"publish_readiness", "full", "trust"}
              /\ d.events # <<>> /\ ~d.conclusion,
              Issue("missing_synthesis", Story, "warn"))
    \cup When(Len(d.events) >= 3 /\ Cardinality(SourcesOf(d)) = 1,
              Issue("thin_breadth", Story, "warn"))

\* Mutant: sources in review are not warned about.
EventIssuesIgnoringDrafts(n, e) ==
    LET rows   == {e.sources[k] : k \in DOMAIN e.sources}
        single == Len(e.sources) = 1
    IN  CASE rows = {} -> {Issue("missing_source", n, "warn")}
          [] rows # {} /\ (\A r \in rows : ~r.isPublic) ->
                {Issue("no_visible_source", n, "block")}
          [] (\E r \in rows : r.isPublic) /\ (\A r \in rows : r.status = "rejected") ->
                {Issue("all_rejected", n, "block")}
          [] OTHER ->
                When(single /\ e.eventType = "turning_point",
                     Issue("turning_point", n, "block"))

\* What is wrong with the sources of event n.  An event whose sources are all
\* hidden, or all rejected, is not looked at further.
EventIssues(n, e) ==
    LET rows   == {e.sources[k] : k \in DOMAIN e.sources}
        single == Len(e.sources) = 1
    IN  CASE rows = {} -> {Issue("missing_source", n, "warn")}
          [] rows # {} /\ (\A r \in rows : ~r.isPublic) ->
                {Issue("no_visible_source", n, "block")}
          [] (\E r \in rows : r.isPublic) /\ (\A r \in rows : r.status = "rejected") ->
                {Issue("all_rejected", n, "block")}
          [] OTHER ->
                When(\A r \in rows : r.status = "draft", Issue("all_draft", n, "warn"))
                \cup When(single /\ e.eventType = "turning_point",
                          Issue("turning_point", n, "block"))
                \cup When(/\ single /\ e.significance \in {"major", "critical"}
                          /\ e.eventType \notin {"turning_point", "chatter"},
                          Issue("significance", n, "warn"))

DraftIssues(d, runType) ==
    StoryIssues(d, runType) \cup UNION {EventIssues(n, d.events[n]) : n \in DOMAIN d.events}

\* deriveOverallResult
OverallResult(issues) ==
    IF \E i \in issues : i.effect = "block" THEN "block"
    ELSE IF issues # {} THEN "warn" ELSE "pass"

\* The verdict of StoryRecord: what the run types find between them.
VerdictOf(d) ==
    LET full      == OverallResult(DraftIssues(d, "full"))
        structure == OverallResult(DraftIssues(d, "structure"))
    IN  IF full # structure THEN "synthesis" ELSE full

=============================================================================
