--------------------------- MODULE CreatorSession ---------------------------
(***************************************************************************)
(* One browser tab in which a creator writes the brief of a story, chooses *)
(* a framing, and starts and watches generations (EditBriefPage.tsx,       *)
(* FramingChoosePage.tsx, JobStatusPage.tsx), and what they need of the    *)
(* API.  A page that is left does not cancel the requests it has sent;     *)
(* their answers still do what the code does after the await.  What        *)
(* outlives a page is the cached brief and the remembered job.             *)
(*                                                                         *)
(* Texts are numbers as in EditorPage, the brief being one text.           *)
(***************************************************************************)
EXTENDS Naturals, Sequences, FiniteSets, SequencesExt

CONSTANTS
    MaxTexts,       \* bound: texts typed or written by another tab
    MaxJobs,        \* bound: generations of the story
    MaxCalls,       \* bound: calls in flight
    MaxMoves,       \* bound: what other tabs do
    MaxVisits,      \* bound: pages opened by links and by a selection
    MaxLost         \* bound: calls that fail

ASSUME BoundsAssumption == MaxTexts \in Nat \ {0} /\ MaxCalls \in Nat \ {0}

VARIABLES
    briefs,         \* the texts of the story_brief's versions, in order
    workflow,       \* the story's workflow state
    jobs,           \* the story's jobs, in order
    selectedKey,    \* the idempotency key of the selection that was accepted, or 0
    page,           \* the page that is open, and its job
    baseline,       \* brief page: the version and text that a save starts from
    form,           \* brief page: the text in the form
    armed,          \* brief page: the autosave timer is running
    shownState,     \* brief page: the workflow state it shows
    starting,       \* brief page: a start is on its way (genBusy)
    watch,          \* job page: polling has stopped, the error, the end it shows
                    \* and the job it learnt that of
    cache,          \* local storage: the brief and the workflow state
    activeJob,      \* session storage: the job that was remembered last
    calls,          \* requests sent and not yet answered to the tab
    failed,         \* the texts whose save failed (history variable)
    counts          \* texts, moves, visits and lost calls so far

serverVars == <<briefs, workflow, jobs, selectedKey>>
briefVars == <<baseline, form, armed, shownState, starting>>
sessionVars == <<serverVars, page, briefVars, watch, cache, activeJob, calls, failed, counts>>

FirstText == 1

Pages == {"brief", "framing", "draft", "job"}

\* Where a story's generations begin, and where they are.  (In drafting_brief
\* the page offers nothing but the brief, which is edited in Restful too.)
Restful == {"awaiting_framing_choice", "ready_for_edit"}
Busy == {"researching", "assembling_draft"}
States == Restful \cup Busy \cup {"published"}

BusyState == [research |-> "researching", assembly |-> "assembling_draft"]

FirstBrief == [version |-> 1, text |-> FirstText]

Brief == [version |-> Len(briefs), text |-> Last(briefs)]

Unwatched == [stopped |-> FALSE, error |-> FALSE, end |-> "none", of |-> 0]

SessionTypeOK ==
    /\ briefs \in Seq(FirstText .. MaxTexts) /\ workflow \in States
    /\ selectedKey \in Nat
    /\ \A j \in DOMAIN jobs :
          jobs[j] \in [kind : {"research", "assembly"}, pre : Restful,
                       status : {"running", "succeeded", "failed"}]
    /\ page.at \in Pages /\ page.job \in 0 .. Len(jobs)
    /\ page.at = "job" <=> page.job # 0
    /\ armed => page.at = "brief"
    /\ form \in FirstText .. MaxTexts /\ shownState \in States
    /\ watch \in [stopped : BOOLEAN, error : BOOLEAN,
                  end : {"none", "failed", "research_done", "mismatch"},
                  of : 0 .. Len(jobs)]
    /\ activeJob \in 0 .. Len(jobs)
    /\ Cardinality({c.id : c \in calls}) = Cardinality(calls)

\* The brief page is open, and is as the server has it.
SessionInit ==
    /\ briefs = <<FirstText>>
    /\ workflow \in Restful
    /\ jobs = <<>>
    /\ selectedKey = 0
    /\ page = [at |-> "brief", job |-> 0]
    /\ baseline = FirstBrief
    /\ form = FirstText
    /\ armed = FALSE
    /\ shownState = workflow
    /\ starting = FALSE
    /\ watch = Unwatched
    /\ cache = [brief |-> baseline, state |-> workflow]
    /\ activeJob = 0
    /\ calls = {}
    /\ failed = {}
    /\ counts = [texts |-> FirstText, moves |-> 0, visits |-> 0, lost |-> 0]

Count(what) == counts' = [counts EXCEPT ![what] = @ + 1]

-----------------------------------------------------------------------------
(* Calls *)

Room == Cardinality(calls) < MaxCalls

NewId == CHOOSE i \in 1 .. MaxCalls : \A c \in calls : c.id # i

\* A call and, besides, the fields that only calls of its kind have.
With(call, fields) ==
    [x \in DOMAIN call \cup DOMAIN fields |-> IF x \in DOMAIN call THEN call[x] ELSE fields[x]]

Request(id, kind, args) ==
    With([id |-> id, kind |-> kind, here |-> TRUE, status |-> "sent"], args)

NoArgs == [x \in {} |-> x]

Send(kind, args) ==
    /\ Room
    /\ calls' = calls \cup {Request(NewId, kind, args)}

AnsweredCall(c, status, answer) == With([c EXCEPT !.status = status], [answer |-> answer])

Answered(c, status, answer) ==
    calls' = (calls \ {c}) \cup {AnsweredCall(c, status, answer)}

Done(c) == calls' = calls \ {c}

\* The calls of a page that is left are no longer that page's.  The answers of
\* those that only it would have shown do nothing.
Left(cs) == {[c EXCEPT !.here = FALSE] : c \in {d \in cs : d.kind \notin {"state", "retry"}}}

-----------------------------------------------------------------------------
(* The API *)

\* patchStoryBrief: the workflow state, and then the version.
ServePatch(c) ==
    LET result == [brief |-> [version |-> Len(briefs'), text |-> Last(briefs')],
                   state |-> workflow]
    IN
    /\ c.kind = "patch" /\ c.status = "sent"
    /\ CASE workflow \notin Restful ->
                UNCHANGED briefs /\ Answered(c, "error", result)
         [] workflow \in Restful /\ c.version = Len(briefs) ->
                briefs' = Append(briefs, c.text) /\ Answered(c, "ok", result)
         [] workflow \in Restful /\ c.version # Len(briefs) ->
                UNCHANGED briefs /\ Answered(c, "conflict", result)
    /\ UNCHANGED <<workflow, jobs, selectedKey, page, briefVars, watch, cache, activeJob,
                   failed, counts>>

\* runResearchPass, assembleDraft: accepted in a state that allows it (and, the
\* jobs being bounded, while there is room); each click has its own key.
Startable(generation) ==
    /\ Len(jobs) < MaxJobs
    /\ workflow \in Restful
    /\ generation = "assembly" => workflow = "ready_for_edit"

NewJob(generation) ==
    /\ jobs' = Append(jobs, [kind |-> generation, pre |-> workflow, status |-> "running"])
    /\ workflow' = BusyState[generation]

ServeStart(c) ==
    /\ c.kind = "start" /\ c.status = "sent"
    /\ IF Startable(c.generation)
       THEN NewJob(c.generation) /\ Answered(c, "ok", Len(jobs'))
       ELSE UNCHANGED <<workflow, jobs>> /\ Answered(c, "error", 0)
    /\ UNCHANGED <<briefs, selectedKey, page, briefVars, watch, cache, activeJob, failed,
                   counts>>

\* selectFrame: a key that was accepted is answered with the present state again,
\* and refused if it now comes with another frame; any other key is accepted only
\* where a framing is awaited, in which state no draft exists.
ServeSelect(c) ==
    /\ c.kind = "select" /\ c.status = "sent"
    /\ \/ /\ c.key = selectedKey
          /\ UNCHANGED <<workflow, selectedKey>>
          /\ \E status \in {"ok", "error"} : Answered(c, status, workflow)
       \/ /\ c.key # selectedKey
          /\ IF workflow = "awaiting_framing_choice"
             THEN /\ workflow' = "ready_for_edit" /\ selectedKey' = c.key
                  /\ Answered(c, "ok", workflow')
             ELSE /\ UNCHANGED <<workflow, selectedKey>>
                  /\ Answered(c, "error", workflow)
    /\ UNCHANGED <<briefs, jobs, page, briefVars, watch, cache, activeJob, failed, counts>>

\* pollJob, and the workflow state that listFrames returns with the frames.
ServeRead(c) ==
    /\ c.status = "sent"
    /\ \/ c.kind \in {"poll", "retry"} /\ Answered(c, "ok", jobs[c.job].status)
       \/ c.kind \in {"state", "finish"} /\ Answered(c, "ok", workflow)
    /\ UNCHANGED <<serverVars, page, briefVars, watch, cache, activeJob, failed, counts>>

\* A call, or its answer, is lost.
CallFails(c) ==
    /\ c.status \in {"sent", "ok"}
    /\ counts.lost < MaxLost
    /\ Count("lost")
    /\ calls' = (calls \ {c}) \cup {[c EXCEPT !.status = "error"]}
    /\ UNCHANGED <<serverVars, page, briefVars, watch, cache, activeJob, failed>>

\* Mutant: the job ends before the story's state is changed.
JobEndsFirst(j, status) ==
    /\ jobs[j].status = "running"
    /\ jobs' = [jobs EXCEPT ![j].status = status]
    /\ UNCHANGED <<briefs, workflow, selectedKey, page, briefVars, watch, cache, activeJob,
                   calls, failed, counts>>

\* The worker ends the job, and its story's state changes with it.
JobEnds(j, status) ==
    /\ jobs[j].status = "running"
    /\ jobs' = [jobs EXCEPT ![j].status = status]
    /\ workflow' = IF jobs[j].kind = "assembly" /\ status = "succeeded"
                   THEN "ready_for_edit" ELSE jobs[j].pre
    /\ UNCHANGED <<briefs, selectedKey, page, briefVars, watch, cache, activeJob, calls,
                   failed, counts>>

\* Another tab, or another client of the API, saves the brief, publishes, or
\* starts a generation.
Elsewhere ==
    /\ counts.moves < MaxMoves
    /\ \/ /\ workflow \in Restful /\ counts.texts < MaxTexts
          /\ briefs' = Append(briefs, counts.texts + 1)
          /\ counts' = [counts EXCEPT !.moves = @ + 1, !.texts = @ + 1]
          /\ UNCHANGED <<workflow, jobs>>
       \/ /\ workflow = "ready_for_edit" /\ workflow' = "published"
          /\ Count("moves")
          /\ UNCHANGED <<briefs, jobs>>
       \/ \E generation \in {"research", "assembly"} :
             /\ Startable(generation) /\ NewJob(generation)
             /\ Count("moves")
             /\ UNCHANGED briefs
    /\ UNCHANGED <<selectedKey, page, briefVars, watch, cache, activeJob, calls, failed>>

-----------------------------------------------------------------------------
(* Going from page to page *)

\* A brief page takes its brief from the cache and asks for the story's state.
ShowBrief(brief, state) ==
    /\ page' = [at |-> "brief", job |-> 0]
    /\ baseline' = brief
    /\ form' = brief.text
    /\ armed' = FALSE
    /\ shownState' = state
    /\ starting' = FALSE
    /\ watch' = Unwatched

\* Mutant: the effect of the brief page has no cleanup.
BriefGoneTimerRunning ==
    /\ UNCHANGED <<baseline, form, armed>>
    /\ shownState' = "awaiting_framing_choice"
    /\ starting' = FALSE

\* The brief page is left, and what was typed into it with it.
BriefGone ==
    /\ baseline' = FirstBrief
    /\ form' = FirstText
    /\ armed' = FALSE
    /\ shownState' = "awaiting_framing_choice"
    /\ starting' = FALSE

\* A job page remembers its job and polls at once.  From one job's page to
\* another's it is the same page that goes on, with what it shows.
ShowJob(j) ==
    /\ page' = [at |-> "job", job |-> j]
    /\ activeJob' = j
    /\ watch' = IF page.at = "job" THEN [watch EXCEPT !.stopped = FALSE] ELSE Unwatched
    /\ BriefGone

ShowPage(at) ==
    /\ page' = [at |-> at, job |-> 0]
    /\ watch' = Unwatched
    /\ BriefGone

LeaveWith(cs, kind, args) ==
    calls' = (IF page.at = "job" /\ kind = "poll" THEN cs ELSE Left(cs)) \cup
             {Request(CHOOSE i \in 1 .. MaxCalls : \A c \in cs : c.id # i, kind, args)}

Visit == counts.visits < MaxVisits /\ Count("visits")

OpenBrief ==
    /\ page.at # "brief"
    /\ Visit
    /\ Room
    /\ ShowBrief(cache.brief, cache.state)
    /\ LeaveWith(calls, "state", NoArgs)
    /\ UNCHANGED <<serverVars, cache, activeJob, failed>>

\* The link to the remembered job, shown while a generation is in progress.
OpenActiveJob ==
    /\ page.at = "brief" /\ shownState \in Busy /\ activeJob # 0
    /\ Visit
    /\ Room
    /\ ShowJob(activeJob)
    /\ LeaveWith(calls, "poll", [job |-> activeJob])
    /\ UNCHANGED <<serverVars, cache, failed>>

\* The link from the brief page, or from the research that is complete.
OpenFraming ==
    /\ \/ page.at = "brief" /\ shownState = "awaiting_framing_choice"
       \/ page.at = "job" /\ watch.end = "research_done"
    /\ Visit
    /\ Room
    /\ ShowPage("framing")
    /\ LeaveWith(calls, "state", NoArgs)
    /\ UNCHANGED <<serverVars, cache, activeJob, failed>>

-----------------------------------------------------------------------------
(* The brief page and the framing page *)

Dirty == form # baseline.text

Type ==
    /\ page.at = "brief"
    /\ counts.texts < MaxTexts
    /\ Count("texts")
    /\ form' = counts.texts + 1
    /\ armed' = TRUE
    /\ UNCHANGED <<serverVars, page, baseline, shownState, starting, watch, cache,
                   activeJob, calls, failed>>

\* Mutant: one save at a time; the timer that finds one on its way does nothing.
FireAlone ==
    /\ armed
    /\ armed' = FALSE
    /\ IF Dirty /\ \A c \in calls : c.kind # "patch"
       THEN Send("patch", [version |-> baseline.version, text |-> form])
       ELSE UNCHANGED calls
    /\ UNCHANGED <<serverVars, page, baseline, form, shownState, starting, watch, cache,
                   activeJob, failed, counts>>

\* The timer: what differs from the baseline is sent.
Fire ==
    /\ armed
    /\ armed' = FALSE
    /\ IF Dirty THEN Send("patch", [version |-> baseline.version, text |-> form])
                ELSE UNCHANGED calls
    /\ UNCHANGED <<serverVars, page, baseline, form, shownState, starting, watch, cache,
                   activeJob, failed, counts>>

\* Mutant: after a conflict the page saves its text over the new version.
SaveAnsweredKeepingText(c) ==
    /\ c.kind = "patch" /\ c.status \in {"ok", "conflict"}
    /\ baseline' = IF c.here THEN [baseline EXCEPT !.version = c.answer.brief.version]
                             ELSE baseline
    /\ cache' = [brief |-> c.answer.brief, state |-> c.answer.state]
    /\ Done(c)
    /\ UNCHANGED <<serverVars, page, form, armed, shownState, starting, watch,
                   activeJob, failed, counts>>

\* The answer, or the conflict's newest brief, replaces the form on the page
\* that sent the save; the cache is written wherever the creator is by then.
SaveAnswered(c) ==
    /\ c.kind = "patch" /\ c.status \in {"ok", "conflict"}
    /\ IF c.here
       THEN /\ baseline' = c.answer.brief
            /\ form' = c.answer.brief.text
            /\ armed' = FALSE
       ELSE UNCHANGED <<baseline, form, armed>>
    /\ shownState' = IF c.here /\ c.status = "ok" THEN c.answer.state ELSE shownState
    /\ cache' = [brief |-> c.answer.brief,
                 state |-> IF c.status = "ok" THEN c.answer.state ELSE cache.state]
    /\ Done(c)
    /\ UNCHANGED <<serverVars, page, starting, watch, activeJob, failed, counts>>

SaveFails(c) ==
    /\ c.kind = "patch" /\ c.status = "error"
    /\ failed' = IF c.here THEN failed \cup {c.text} ELSE failed
    /\ Done(c)
    /\ UNCHANGED <<serverVars, page, briefVars, watch, cache, activeJob, counts>>

\* What the brief page and the framing page ask for when they are opened.
StateArrives(c) ==
    /\ c.kind = "state" /\ c.status \in {"ok", "error"}
    /\ IF c.here /\ c.status = "ok"
       THEN /\ cache' = [cache EXCEPT !.state = c.answer]
            /\ shownState' = c.answer
       ELSE UNCHANGED <<cache, shownState>>
    /\ Done(c)
    /\ UNCHANGED <<serverVars, page, baseline, form, armed, starting, watch, activeJob,
                   failed, counts>>

\* Run research pass, and Assemble full draft; from the draft, a regeneration.
StartGeneration(generation) ==
    /\ ~starting
    /\ CASE page.at = "brief" -> \/ shownState = "ready_for_edit"
                                 \/ /\ shownState = "awaiting_framing_choice"
                                    /\ generation = "research"
         [] page.at = "draft" -> generation = "assembly"
         [] OTHER             -> FALSE
    /\ Len(jobs) < MaxJobs
    /\ starting' = TRUE
    /\ Send("start", [generation |-> generation])
    /\ UNCHANGED <<serverVars, page, baseline, form, armed, shownState, watch, cache,
                   activeJob, failed, counts>>

\* The job that was accepted is remembered and watched, from wherever the
\* creator is by then.
Started(c) ==
    /\ c.kind = "start" /\ c.status = "ok"
    /\ ShowJob(c.answer)
    /\ LeaveWith(calls \ {c}, "poll", [job |-> c.answer])
    /\ UNCHANGED <<serverVars, cache, failed, counts>>

StartRefused(c) ==
    /\ c.kind = "start" /\ c.status = "error"
    /\ starting' = (starting /\ ~c.here)
    /\ Done(c)
    /\ UNCHANGED <<serverVars, page, baseline, form, armed, shownState, watch, cache,
                   activeJob, failed, counts>>

\* The page has one key for its visit, which a second try repeats.
SelectFrame ==
    /\ page.at = "framing" /\ ~starting
    /\ counts.visits < MaxVisits
    /\ starting' = TRUE
    /\ Send("select", [key |-> counts.visits])
    /\ UNCHANGED <<serverVars, page, baseline, form, armed, shownState, watch, cache,
                   activeJob, failed, counts>>

\* To the brief page, unless it has been opened meanwhile.
FrameSelected(c) ==
    /\ c.kind = "select" /\ c.status = "ok"
    /\ cache' = [cache EXCEPT !.state = c.answer]
    /\ IF page.at = "brief"
       THEN Done(c) /\ UNCHANGED <<page, briefVars, watch, counts>>
       ELSE /\ Count("visits")
            /\ ShowBrief(cache.brief, c.answer)
            /\ LeaveWith(calls \ {c}, "state", NoArgs)
    /\ UNCHANGED <<serverVars, activeJob, failed>>

SelectionFails(c) ==
    /\ c.kind = "select" /\ c.status = "error"
    /\ starting' = (starting /\ ~c.here)
    /\ Done(c)
    /\ UNCHANGED <<serverVars, page, baseline, form, armed, shownState, watch, cache,
                   activeJob, failed, counts>>

-----------------------------------------------------------------------------
(* The job page *)

Tick ==
    /\ page.at = "job" /\ ~watch.stopped
    /\ watch' = [watch EXCEPT !.error = FALSE]
    /\ Send("poll", [job |-> page.job])
    /\ UNCHANGED <<serverVars, page, briefVars, cache, activeJob, failed, counts>>

\* Mutant: the retry reads the job once.
RetryOnce ==
    /\ page.at = "job" /\ watch.error
    /\ watch' = [watch EXCEPT !.error = FALSE]
    /\ Send("retry", [job |-> page.job])
    /\ UNCHANGED <<serverVars, page, briefVars, cache, activeJob, failed, counts>>

\* Retry starts the polling again, with a read of its own.
Retry ==
    /\ page.at = "job" /\ watch.error
    /\ watch' = [watch EXCEPT !.error = FALSE, !.stopped = FALSE]
    /\ Send("retry", [job |-> page.job])
    /\ UNCHANGED <<serverVars, page, briefVars, cache, activeJob, failed, counts>>

\* setState of a page that is gone does nothing; the rest is done all the same.
Here(c, change) == watch' = IF c.here THEN change ELSE watch

PollArrives(c) ==
    /\ c.kind = "poll" /\ c.status = "ok"
    /\ CASE c.answer = "running" ->
                UNCHANGED watch /\ Done(c)
         [] c.answer = "failed" ->
                /\ Here(c, [watch EXCEPT !.stopped = TRUE, !.end = "failed",
                                               !.of = c.job])
                /\ Done(c)
         [] c.answer = "succeeded" ->
                /\ Here(c, [watch EXCEPT !.stopped = TRUE])
                /\ calls' = (calls \ {c}) \cup
                      {[Request(c.id, "finish", [job |-> c.job]) EXCEPT !.here = c.here]}
    /\ UNCHANGED <<serverVars, page, briefVars, cache, activeJob, failed, counts>>

PollFails(c) ==
    /\ c.kind = "poll" /\ c.status = "error"
    /\ Here(c, IF watch.stopped THEN watch ELSE [watch EXCEPT !.error = TRUE])
    /\ Done(c)
    /\ UNCHANGED <<serverVars, page, briefVars, cache, activeJob, failed, counts>>

\* What a retry reads is only shown; its failure is, too, and so is that of
\* the read that finishes a job.
ReadEnds(c) ==
    /\ \/ c.kind = "retry" /\ c.status \in {"ok", "error"}
       \/ c.kind = "finish" /\ c.status = "error"
    /\ Here(c, [watch EXCEPT !.error = (watch.error \/ c.status = "error")])
    /\ Done(c)
    /\ UNCHANGED <<serverVars, page, briefVars, cache, activeJob, failed, counts>>

\* finishSucceeded: the remembered job is forgotten; a draft that is ready is
\* opened, whatever page the tab shows by then.
Finish(c) ==
    /\ c.kind = "finish" /\ c.status = "ok"
    /\ activeJob' = 0
    /\ IF jobs[c.job].kind = "assembly" /\ c.answer = "ready_for_edit"
       THEN /\ ShowPage("draft")
            /\ calls' = Left(calls \ {c})
       ELSE /\ Here(c, [watch EXCEPT !.of = c.job,
                                     !.end = IF jobs[c.job].kind = "assembly"
                                             THEN "mismatch" ELSE "research_done"])
            /\ Done(c)
            /\ UNCHANGED <<page, briefVars>>
    /\ UNCHANGED <<serverVars, cache, failed, counts>>

-----------------------------------------------------------------------------

Serve(c) == ServePatch(c) \/ ServeStart(c) \/ ServeSelect(c) \/ ServeRead(c) \/ CallFails(c)

Deliver(c) ==
    \/ SaveAnswered(c) \/ SaveFails(c) \/ StateArrives(c)
    \/ Started(c) \/ StartRefused(c) \/ FrameSelected(c) \/ SelectionFails(c)
    \/ PollArrives(c) \/ PollFails(c) \/ ReadEnds(c) \/ Finish(c)

Network(id) == \E c \in calls : c.id = id /\ (Serve(c) \/ Deliver(c))

SessionNext ==
    \/ Type \/ Fire \/ Tick \/ Retry
    \/ OpenBrief \/ OpenActiveJob \/ OpenFraming \/ SelectFrame
    \/ \E generation \in {"research", "assembly"} : StartGeneration(generation)
    \/ \E id \in 1 .. MaxCalls : Network(id)
    \/ \E j \in DOMAIN jobs, status \in {"succeeded", "failed"} : JobEnds(j, status)
    \/ Elsewhere

\* Timers and intervals fire, and each call is answered or fails.
SessionFairness ==
    /\ WF_sessionVars(Fire)
    /\ WF_sessionVars(Tick)
    /\ \A id \in 1 .. MaxCalls : WF_sessionVars(Network(id))

SessionSpec == SessionInit /\ [][SessionNext]_sessionVars /\ SessionFairness

-----------------------------------------------------------------------------
(* Properties *)

(***************************************************************************)
(* What the page saves against, and what the cache will bring back, is a   *)
(* version of the brief with that version's text, whichever of several     *)
(* answers came last and whichever page was open then.                     *)
(***************************************************************************)
BriefIsAVersion ==
    \A b \in {baseline, cache.brief} :
        b.version \in DOMAIN briefs /\ b.text = briefs[b.version]

(***************************************************************************)
(* A brief that is typed and stays on its page is saved, or gives way to   *)
(* the server's, or its save has failed and the page has said so.          *)
(***************************************************************************)
BriefSettles ==
    (page.at = "brief" /\ Dirty) ~> (page.at # "brief" \/ ~Dirty \/ form \in failed)

(***************************************************************************)
(* What the job page says of the end of a job is true of the job that it   *)
(* learnt it of, however the polls and reads of the page overtake each     *)
(* other; it reports that an assembled draft's story is in another state   *)
(* only when somebody else moved the story, or the creator started anew.   *)
(***************************************************************************)
ShownEndIsTrue ==
    LET job == jobs[watch.of]
    IN  CASE watch.end = "failed"        -> job.status = "failed"
          [] watch.end = "research_done" -> job.status = "succeeded" /\ job.kind = "research"
          [] watch.end = "mismatch"      ->
                 /\ job.status = "succeeded" /\ job.kind = "assembly"
                 /\ counts.moves > 0 \/ Len(jobs) > watch.of
          [] watch.end = "none"          -> TRUE

(***************************************************************************)
(* A job that ends while its page is open is not watched for ever: the     *)
(* page shows an end, or it waits for Retry because it could not read the  *)
(* story's state.  After Retry the same holds again.                       *)
(***************************************************************************)
EndIsShown ==
    \A j \in 1 .. MaxJobs :
        (page = [at |-> "job", job |-> j] /\ jobs[j].status # "running")
            ~> \/ page # [at |-> "job", job |-> j]
               \/ watch.end # "none"
               \/ watch.stopped /\ watch.error

=============================================================================
