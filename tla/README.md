# Storywall: a TLA+ model of the creator side

Storywall lets a creator turn a brief into a published, sourced timeline. The
creator's web application talks to a NestJS API (`src/apps/api`) over a
PostgreSQL database; long work (research, draft assembly) is done by a
background worker (`src/apps/worker`) that takes jobs from BullMQ queues in
Redis; published stories are read through a public API. Everything revolves
around one row per story, whose `workflow_state` says which service may act on
it next.

What makes the system hard is that the services do not share one discipline.
Four handlers lock the story row and decide afterwards (`selectFrame`,
`startResearchPass`, `startDraftAssembly`, `runValidation`); all others, and the
worker, read first and write later, some with a condition on what they read and
some without. The modules here model exactly that difference, and ask what the
workflow state is still worth.

- [Inventory](#inventory)
- [Modules](#modules)
- [Runs](#runs)
- [Fairness](#fairness)
- [What is proved](#what-is-proved)
- [Divergences](#divergences)
- [What is abstracted, and what is not modelled](#what-is-abstracted-and-what-is-not-modelled)
- [Plan](#plan)

Run a check with `tlc -config <cfg> <module>`, a proof with `tlapm <module>`.

## Inventory

| Component | State it keeps | Operations | Interacts through |
|---|---|---|---|
| Story record (`schema.prisma`, `workflow-transition.service.ts`) | `stories` row (workflow state, status), append-only `story_workflow_transition` | `appendIfChanged`, called by every service that moves the story | shared row, row lock |
| Story creation and brief (`stories.service.ts`) | `story_brief` and its version | create workspace, PATCH brief | version in If-Match |
| Framing (`frames.service.ts`) | `story_frame_draft` rows, the selected frame, idempotency rows | generate (with or without replace), select | row locks in opposite orders |
| Research passes (`research.service.ts`, worker) | `research_job`, artifact, chronology, links | start a pass; the worker runs it and restores the state | queue `research.run` |
| Draft assembly (`draft-assembly.service.ts`, `m2-t05-draft-assemble.ts`) | `draft_assembly_job`, events and sources of the draft | start in one of three modes; the worker runs it, succeeds or fails it | queue `draft.assemble` |
| Worker and queue (`index.ts`, BullMQ) | queue entries, their locks and stalled counters | deliver, finish, throw, die, redeliver | Redis, database |
| Validation (`validation/*.ts`) | immutable reports, issues, the latest report of the draft | run, resolve an issue | row lock, workflow state |
| Publication (`publishStory`) | status, `published_at`, idempotency rows | publish | conditional update |
| Draft objects (`events`, `sections`, `sources`, `stories` services) | header, sections, events, sources, each with `updated_at` | load, create, autosave | version in If-Match |
| Revision history (`revision/*.ts`) | `revision_entry` with recovery snapshots | record, list, restore | version in If-Match |
| Chronology extraction and links (`packages/shared`) | none | pure functions over the research output | called by the worker |
| Public reading, job polling | none | read | database |
| Editor page (`DraftReadyPage.tsx`) | a copy and a form of every object, autosave timers, calls in flight | autosave, reload after a conflict, add, restore | HTTP, versions in If-Match |
| Brief, framing and job pages (`EditBriefPage.tsx`, `FramingChoosePage.tsx`, `JobStatusPage.tsx`) | the form, poll timers, the cached brief, the remembered job | autosave, start a generation, select, poll, retry | HTTP, browser storage |
| Authentication, ownership | none | check in front of every handler | HTTP |

Behaviours that are hard, and where they are listed with their lines, are the
`hazards` of `PROJECT.json`; in short: a generation that overwrites the workflow
state it read without a lock; two transactions that lock the same rows in
opposite order; the gap between a committed job and its queue entry; a job
executed by two workers at once after a lock lapses; a publication that decides
on a report it read earlier; autosaves, restores and regenerations of the same
object; idempotent retries of all of these.

What makes each component correct:

- *Framing*: a draft is based on exactly one selected candidate; whoever has to
  choose has something to choose; a retried selection is answered with the frame
  the draft was made from; requests that wait for each other's locks end.
- *Jobs*: a pending job holds the story, alone; it is never forgotten; it ends;
  a key stands for one job; an assembly is built from the newest research; the
  transition log is a path that ends in the present state.
- *Publication*: a story is ready only over a latest report without blockers,
  also at the very moment it is published, and it is published once.
- *History*: an autosave never replaces a text its author had not loaded, and
  costs the draft no text; what restores and regenerations cost it is bounded by
  how many there were. (Only part of a row can be brought back at all; see
  [Divergences](#divergences).)
- *Timeline*: positions keep the order of creation of whoever waits for answers;
  a source count counts; requests end although they share a pool of connections.
- *Validation*: what is stored is what the engines find in the rows there are;
  a resolution belongs to an issue of a report and was asked for.
- *Pages*: a save is sent over the version it was made from; what is typed is
  saved or its failure is shown; the end of a job that a page shows is true, and
  no page watches an ended job for ever.
- *All together*: whoever finds the story in a state that needs a draft finds
  one; a busy story has a job that can be polled.

## Modules

| Module | Models | Lines of the code |
|---|---|---|
| `StoryRecord` | the shared row, its draft, the tail of the transition log, the row lock | `schema.prisma`, `workflow-transition.service.ts`, `createStoryWorkspace` |
| `Framing` | generate, select and PATCH brief with their row locks and the database's deadlock detection | `frames.service.ts`, `stories.service.ts` |
| `JobPipeline` | accepting and queueing jobs, at-least-once delivery, the worker, its faults | `research.service.ts`, `draft-assembly.service.ts`, `index.ts`, `m2-t05-draft-assemble.ts` |
| `Publishing` | edits (as far as validation sees them), validation, publication | `validation.service.ts`, `stories.service.ts` |
| `Evidence` | from a research package to chronology events, links and rows, and from rows to validation issues: functions | `packages/shared`, `validation-skeleton.engine.ts`, `validation-source-sufficiency.engine.ts` |
| `Review` | `Publishing` with its draft's content: edits of single fields, assemblies, validation reports, resolutions of issues | `validation.service.ts`, `sources`, `events`, `sections` services |
| `PublicationGate` | abstract: what publication promises | specification only |
| `DraftHistory` | the draft's objects, their versions, autosave, creation, restore, regeneration, the revision history | `events`, `sections`, `sources`, `revisions` services, `revision-recorder.ts`, `m2-t05-draft-assemble.ts` |
| `DraftTimeline` | concurrent creation of events and sources, regeneration beside it, the pool of database connections | `events`, `sections`, `sources` services, `m2-t05-draft-assemble.ts` |
| `EditorPage` | the draft page of one tab, the calls it has in flight, and the versions the API keeps | `DraftReadyPage.tsx`, `creatorClient.ts` |
| `CreatorSession` | one tab that goes between the brief, the framing, a job and the draft | `EditBriefPage.tsx`, `FramingChoosePage.tsx`, `JobStatusPage.tsx`, `activeJobStorage.ts`, `briefCache.ts`, `creator-jobs.service.ts` |
| `StoryLifecycle` | `Framing`, `JobPipeline` and `Publishing` acting on one story; it implements `PublicationGate` | |
| `MC...` | instances for TLC: symmetry, constant functions | |
| `...Proofs` | the theorems | |

How a handler becomes actions. A handler that takes the story lock first and
commits before anything else can be seen is one action (`StartResearch`,
`StartAssembly`, `RunValidation`). `selectFrame` also takes the story lock
first, but then waits for candidate rows, so it is `SelectBegin` (lock and
checks) and `SelectCommit` (writes), with `storyLock` held in between. A
handler that reads and writes later is a read action and a commit action, and
every other step may come between: `PublishRead`/`PublishCommit`,
`EditBegin`/`EditCommit`, `PatchRead`/`PatchCommit`, `WorkerStart`/`Finish...`;
`generateFramingOptions` has four steps, one per statement that sees or locks
something. A conditional update that matches no row is an action of its own
(`PublishConflict`, `PatchConflict`), or a branch of the commit.

The state mirrors the tables: `frames` is `story_frame_draft` in order of
creation, `jobs` both job tables in order of acceptance (with `pre`, the state
to restore, and `source`, the research an assembly names), `selectRows`,
`publishRows` and the `key` of a job are the idempotency rows, `report` is the
overall result of the latest validation report. `queue`, `stalls` and `exec`
are BullMQ's entry, its stalled counter and what each worker process is doing.
`enqueuing` is the code between the committed transaction and `queue.add`. The
content of a draft is two things: what a validation of it would find (`verdict`,
in `StoryRecord`) and, in `DraftHistory`, the number of the text each object
holds, texts being numbered in the order they were written. The text of an object
is there exactly the part of its row that a recovery snapshot holds
(`revision-recorder.ts:104-168`): what a restore writes back, and no more. The
rest of the row is not in that module. A PATCH of the header or of a source may
write nothing but the rest; then the object keeps its text and still gets a new
version and a revision (`Patched`).

`Publishing` leaves open what a validation finds: `verdict` is set by an edit to
anything. `Review` has the rows instead (which header fields, events and sources
there are, with what visibility and status), computes the issues with the rules
of `Evidence`, and is shown to take only steps that `Publishing` allows. So the
composition, which is built on `Publishing`, speaks of the real engines. The run
types of a validation differ in one rule (the missing synthesis), which is why
`verdict` has a value of its own for a draft where only that is missing.

`DraftTimeline` splits a request at every point where another transaction can be
seen: `Call`, `Check` (the state, on the pool), `Begin` (a connection is taken),
`ReadMax`, `InsertEvent` or `InsertSource`, `CountSource`, `ReadContext` (a second
connection), `CommitPatch`; `TimeOut` is Prisma's limit on waiting and on
transactions. The worker has its own pool and is `UpdateEvent`,
`RecreateSources`, `DeleteEvents`, `RecreateEvents`.

The pages are modelled as what they do around each `await`. A call is sent,
served (or lost) and delivered in three steps, and any number of other steps
come between; `Serve...` is the API, which both page modules reduce to the
versions of an object and the story's state; `Deliver` is the code after the
`await`, which runs also when the page has been left. React's effects that follow
from a state change (the timer that is armed because a form differs from its copy,
and cleared when it does not) are part of the action that changes the state.

`StoryLifecycle` does not add to the services it composes: each step is a step
of one of them and leaves the others' variables alone. They meet in the story
record only.

## Runs

Every run sets CHECK_DEADLOCK FALSE: nobody is obliged to send a request, so a
story may stop in any state; and the bounds stop every model in the end.

| Run | Asks | Bounds |
|---|---|---|
| `pipeline_safety` | Does a pending job hold the story, alone; does it build from the newest research; is the log a path? With API crashes, worker crashes and aborted transactions, as long as no running worker loses its queue lock. | 2 workers, 2 keys, 4 jobs, one fault of each kind |
| `pipeline_live` | With a worker crash and a lock that lapses under a running worker (a job executed twice at once): is no job forgotten, does a key stand for one job, does every job end, does `assembling_draft` end? | 2 workers, 2 keys, 3 jobs, 1 crash, 1 lapse |
| `framing_races` | Two generations, two selections and two brief edits at once: does the draft keep its frame, is there something to choose, are replays consistent, does every request end? | 2 of each, 2 keys, 6 candidates, 2 brief versions |
| `publishing_safety` | A draft with its content under an editor, two publishers, two resolutions and an assembly: is a ready story validated, is it published once, which drafts pass, are resolutions asked for, is what is assembled supported as its density says, is every step one of `Publishing`? | 3 research packages, 3 events, 2 edits, 2 reports, 1 assembly, 2 resolutions |
| `history_edits` | Two clients that edit, create and restore while regenerations run: does an autosave record the text it replaces, are no more texts lost than restores and regenerations account for, does no source outlive its event? | 2 clients, header, 2 events, 1 source, 3 texts each, 3 revisions |
| `timeline` | Two events and a source created, an event and a source patched, a regeneration, at once: who shares a position, are sources counted, who can exhaust the pool, is every request answered? | pool of 2 connections, 1 researched event, 1 assembly |
| `editor_autosave` | The header and a row, typed, saved, read again, restored, written elsewhere, with calls answered in any order or lost: is a copy a version, is no newer text overwritten, does every edit settle? | 4 texts, 2 calls in flight, 1 reload or addition or restore, 1 lost call |
| `creator_session` | A tab between the brief, framing, job and draft pages with saves, starts and polls under way: is a brief saved over a version it was made from, does what is typed settle, is the shown end true, does it come? | 3 texts, 1 job, 2 calls in flight, 2 visits, 1 lost call, 1 act of another tab |
| `lifecycle_safety` | All services on one story: has a busy story a job, has a workable story a draft, is the publication gate implemented? | 1 generation, 1 selection, 2 workers, 2 jobs, 1 publisher; 1 aborted transaction, 1 worker crash, 1 lapse |
| `pipeline_lost_enqueue`, `framing_awaiting`, `publish_blockers` | Three statements of the documents that the code does not keep; see [Divergences](#divergences). | as small as shows it |

Why the bounds are enough for what is asked. Two of each kind of actor let each
race its own kind and the others; a third adds only another copy of one of the
two. Three jobs let a research, an assembly and one more follow each other, so
that a job is accepted after another has been executed twice; four let two
researches precede an assembly that has to choose the newest, and one come
after. Six candidates are two generations of three. Three texts let an autosave
race an autosave that is itself recorded; with two the second autosave could not
happen, and the mutant that drops the version from the update survives. One
lapse and one crash together use up the two deliveries BullMQ grants an entry.
Two faults of the same kind add nothing that the proofs, which bound none of
them, do not cover.

`publishing_safety` has packages with one and with two candidate sources, of two
and three events, so that a turning point occurs (it takes three), supported by
one source (it blocks) and by two; two edits hide a source and show it again, or
blank the header after a report; two reports let a resolution arrive for the
older one. Larger packages repeat the ring of candidates, and the theorems are
for all of them. `timeline` has as many patches as the pool has connections,
which is what it takes to exhaust it, and two creations, which is what it takes
to share a position. In `editor_autosave` four texts let a text be typed while
the one before is in flight and a third is written elsewhere; there are fewer
touches than calls, so that a call slot is never what keeps a creator from
restoring; every edit settles with one lost call, the second would only fail
another save. In `creator_session` one job is enough for a poll of it to be
overtaken by a visit, a retry or another poll; an instance with two jobs and no
lost calls (642 000 states) passes too but takes too long beside the others. It
begins where generations can be started; in `drafting_brief` the page offers only
the brief, which is edited in the other states as well.

`lifecycle_safety` has no editors and no API crash: an edit changes `verdict`
alone, which none of its properties reads, and a lost queue entry only takes
steps away from that story. Both are in the runs of their own modules, and in
the theorems about the composition, which bound neither.

Bounds are named in the modules (`MaxFrames`, `MaxBrief`, `MaxJobs`,
`MaxApiCrashes`, `MaxThrows`, `MaxWorkerCrashes`, `MaxLapses`, `MaxContents`,
`MaxRevisions`, `MaxEvents`, `MaxEdits`, `MaxReports`, `MaxResolutions`,
`MaxAssemblies`, `MaxTexts`, `MaxCalls`, `MaxTouches`, `MaxMoves`, `MaxVisits`,
`MaxLost`) and appear in the guards only.

Each property of a passing run has a mutant: a form of one action with a
plausible bug (a dropped guard, a lost version check, a missing restore), defined
next to that action and marked "Mutant", under which TLC finds the property
violated.

## Fairness

Safety runs assume none. `PipelineFairness` is what the API process and BullMQ
do by themselves: the handler goes on to `queue.add` once its transaction has
committed, an idle worker takes a waiting entry, a running job comes to its end,
and the stalled check runs on a timer; all weak fairness. It promises nothing
about creators, and `CrashBeforeEnqueue`, `WorkerThrow` and `WorkerCrash` stay
possible within their bounds.

`FramingFairness` is what PostgreSQL does: a request under way goes on (weak
fairness), and the three updates that wait for row locks get them if the locks
become free again and again (strong fairness), because waiting transactions
queue for a lock and later ones do not overtake them for ever. The deadlock
detector runs on a timer (weak fairness on the two aborts). Liveness is checked
without symmetry.

`TimelineFairness` lets each request take its next step if it stays possible,
and time out if it stays stuck, which is what Prisma's limits on waiting for a
connection and on a transaction do; the worker's transaction likewise. Nobody
has to make a request. `EditorFairness` and `SessionFairness` are what the
browser does: a timer that stays armed fires, the job page's interval ticks, and
each call in flight is answered or fails (`CallFails`, within `MaxLost`, also
when it was served). They promise nothing about what the creator types, opens or
retries, nor about jobs: `EndIsShown` speaks of a job that has ended.

## What is proved

All proofs are checked by TLAPS for every value of the constants, under the
assumptions named in the modules (`FramingAssumption`, `PipelineAssumption`,
`HistoryAssumption`, `PackagesAssumption`, `PoolSizeAssumption`,
`ResearchedAssumption`, `RequestsAssumption`, `MaxTextsAssumption`,
`BoundsAssumption`: markers differ from process names, bounds are numbers, a
source belongs to an event, packages are packages, the requests that overlap are
finitely many) and the bounds on faults that a theorem states. Every invariant
and every action property of the passing runs is a theorem.

| Theorem | States | Argument |
|---|---|---|
| `TypeCorrect` (`JobPipelineProofs`) | types; queue entries, pending requests and workers refer only to jobs that were accepted | `StoryTypeOK /\ Shape` is inductive; `Shape` adds the references, without which `jobs[exec[w].job]` means nothing |
| `PendingJobHoldsStory` (`JobPipelineProofs`) | `JobHoldsStory`, if no lock lapses | not inductive: a worker that finishes a job moves the story, so the job must still be the pending one. `HolderRuns` says a worker executes only a job whose entry it holds, so no job has two executors, and `ActiveHoldsStory` says what is executed is pending and what is pending holds the story |
| `AKeyIsOneJob` (`JobPipelineProofs`) | `OneJobPerKey`, under all faults | a job is accepted only for a key that has none, in the step that records it, and no later step touches kind or key |
| `AssemblyIsUpToDate` (`JobPipelineProofs`) | `AssemblyUsesNewestResearch`, if no lock lapses | the only step that changes the newest research ends a pending job, and with `ActiveHoldsStory` no assembly is pending beside it |
| `TransitionsFormAPath` (`JobPipelineProofs`) | `LogIsPath`, if no lock lapses | `LogFollows`: the log ends where the story is, and a worker at work has read the state the story still has |
| `NoPendingJobIsForgotten` (`JobPipelineProofs`) | `NoJobForgotten`, if the API does not crash, no transaction is aborted and at most one worker dies, for any number of lapses | an entry is given up at its second stall. `StallsAccounted` counts them: a stall is a crash or a worker that lost its lock and is still executing, so whoever takes the last delivery away leaves somebody at work |
| `FramingTypeCorrect`, `AChoiceIsOffered`, `ReplaysAgree` (`FramingProofs`) | `FramingTypeOK`, `SomethingToChoose`, `ReplayIsConsistent` | the invariant of `DraftFrameIsKept`; a generation that supersedes candidates adds three in the same commit; a key's row and the draft are written together |
| `DraftFrameIsKept` (`FramingProofs`) | `DraftKeepsItsFrame` | a generation commits long after it read. `LockedStayProposed`: rows it has superseded but not committed stay proposed, because whoever would write them waits; `SelectionHolds`: while a selection is under way the lock is its own and there is no draft |
| `BusyStoryIsPolled` (`StoryLifecycleProofs`) | `BusyStoryHasJob`, with any number of lapses | `JobsFitStory` relates the state a job would restore to what the story has: a job never restores a busy state, and one that restores a state needing a draft has one |
| `WorkableHasDraft` (`StoryLifecycleProofs`) | `WorkableMeansDraft` and `DraftKeepsItsFrame` in the composed system | the same invariant, `LifecycleInv == FramingInv /\ Shape /\ JobsFitStory`; one lemma per service, and that the others leave its part alone |
| `StoryImplementsGate` (`StoryLifecycleProofs`) | the composition implements `PublicationGate` | every step of framing and jobs leaves the gate alone or withdraws it (`LeavesGateAlone`), validation is `Review`, `PublishCommit` is `Publish` |
| `ReadyIsValidated` (`StoryLifecycleProofs`) | `ReadyMeansValidated` in the composed system | follows from the gate alone |
| `KeysKeepTheirMeaning`, `AChoiceRemains`, `LifecycleTypeCorrect` (`StoryLifecycleProofs`) | `OneJobPerKey`, `ReplayIsConsistent` and `PublishedOnce`; `SomethingToChoose`; the type invariants of all services: in the composed system | `PromisesInv`. `OffersRemain` says more than `SomethingToChoose`: from the first generation on, and as long as there is no draft, there is a candidate, because a job may restore `awaiting_framing_choice` long after that state was left; `OneKeyWhenPublished` ties the one idempotency row to the status that other services do not write |
| `AutosavesAreRecoverable` (`DraftHistoryProofs`) | `AutosaveKeepsPrior` | `ReadingsHold`: a request that knows an object's version knows its text, because (`VersionsTellTexts`) no step changes a text and keeps the version |
| `LossesAreOnRecord` (`DraftHistoryProofs`) | `LossesAreAccountedFor` | a step forgets at most the text that an object showed (`AtMostTheShownText`), and none if that is still shown, was none, or is recorded: an autosave records it (`ReadingsHold`), a restore or a regeneration may not, but is then on record itself (`LossesAreCounted`, with the cardinalities of both sets). What an assembly deletes and recreates, and a second text read under the same version, are the cases to fear |
| `HistoryTypeCorrect` (`DraftHistoryProofs`) | `HistoryTypeOK` | `TextsInv`: whatever is shown, snapshotted or about to be restored was written (`TextsAreWritten`); no source outlives its event (`SourcesHaveEvents`): a creation checked its event before it commits, but the foreign key is checked again, and whoever deletes events deletes their sources |
| `ReviewImplementsPublishing` (`ReviewProofs`) | `ImplementsPublishing`: each step of `Review` is a step `Publishing` allows, or of an assembly | the run types differ in one rule, whose issue is a warning (`RunTypesDifferInSynthesis`), so the verdict leaves open just the results a validation can have (`ResultIsAllowed`); `VerdictIsCurrent` is kept by every step |
| `EventlessDraftsPass` (`ReviewProofs`) | `OnlyEventlessDraftsPass` | `ContentInv`: every source row that requests and assemblies make stays in review, for any package; an event with such sources always yields an issue (`EventIsNeverFaultless`) |
| `AssembliesAreSupported` (`ReviewProofs`) | `AssembledEventsAreSupported` | links are taken from a ring of candidates: with two or more of them the neighbours a chronology event gets differ (`NeighboursDiffer`, from division with remainder), so an assembled event has two rows, the first of them primary (`AssembledSources`), and no rule of the engines blocks it (`AssembledEventIsSupported`) |
| `OneRequestPublishes`, `ResolutionsAreAskedFor`, `ReviewTypeCorrect` (`ReviewProofs`) | `PublishedOnce`, `ResolvedByRequest`, `ReviewTypeOK` | the one idempotency row is written in the step that publishes; a report resets every resolution, and a late one for an older report does not reach it; a story is assembled while its assembly runs |
| `PositionsFollowCreation`, `TimelineTypeCorrect` (`DraftTimelineProofs`) | `SamePositionMeansSameTime`, `TimelineTypeOK` | `PositionsGrow`: a request that has read the last position carries one beyond every row it saw (`NextPositionIsBeyond`; that a finite set of numbers has a maximum is `FiniteSetHasMax`), and so does its row, while others insert, rewrite and delete |
| `CountsAreSources` (`DraftTimelineProofs`) | `SourcesAreCounted` | inductive with the types: whoever adds a row counts it in the same transaction, and the worker rewrites both |
| `OnlyPatchesExhaustThePool`, `FewPatchesLeaveThePoolMoving` (`DraftTimelineProofs`) | `ExhaustionTakesPatches`; with fewer concurrent patches than connections, a connection is free or somebody who holds one needs no other | `PoolIsKept`: no more connections are held than there are; who holds one and waits for another is a patch, so if all wait all are patches |
| `CopiesAreVersions`, `EditorTypeCorrect` (`EditorPageProofs`) | `CopyIsAVersion`, `EditorTypeOK` | `EditorInv`: every answer on its way carries a version with its text (`AnswerIsTrue`), and remains true because versions are only added (`ServerGrows`), so the order in which answers come does not matter |
| `AutosavesKeepOrder` (`EditorPageProofs`) | `NewerTextsStay` | `SaveIsNewer`: a save names a version whose text is not newer than what was typed over it; the API accepts it only if that version is the last |
| `BriefsAreVersions`, `SessionTypeCorrect` (`CreatorSessionProofs`) | `BriefIsAVersion`, `SessionTypeOK` | `SessionInv`: calls in flight have different ids and, once answered, true answers, on whatever page they arrive; what a page, the cache or the remembered job keeps of an answer says no more than the answer |
| `ShownEndsAreTrue` (`CreatorSessionProofs`) | `ShownEndIsTrue` | a job that has ended keeps its end; `AssembledIsReady`: after an assembly the story is ready, or somebody else or a later job has moved it, and that remains so |

Only model-checked are the liveness properties, which this prover does not reach:
`JobsEnd`, `AssemblyIsTransient`, `RequestsComplete`, `RequestsAnswered`,
`EditsSettle`, `BriefSettles` and `EndIsShown`. `Evidence` has no recursion, so its
operators can be proved about; the theorems of `ReviewProofs` rest on lemmas about
them.

`JobHoldsStory` and `LogIsPath` are claimed only without lapses. With one, the
second worker may commit after the first has, when the story has moved on; TLC
finds that at once. What survives it (`BusyStoryHasJob`, `WorkableMeansDraft`,
`ImplementsGate`, `OneJobPerKey`) is proved with it.

Not every property of a service survives the company of the others. In
`StoryLifecycle` a generation that commits late may take the story away from a
pending job, so `JobHoldsStory` is not a property of the composition even without
lapses; nor is `NoJobForgotten`, which is proved of `JobPipeline` under bounds on
its faults. What `StoryLifecycleProofs` states is what remains.

## Divergences

With a run, and described in `PROJECT.json`:

- `pipeline_lost_enqueue`: a committed job whose `queue.add` never happened stays
  pending and its story stays in `assembling_draft`; a retry replays the answer.
- `framing_awaiting`: a generation that overlaps a selection puts the story back
  to `awaiting_framing_choice`, in which no frame can be selected any more.
- `publish_blockers`: an edit leaves a ready story ready, so a draft with
  blockers is published on an older report.

Without a run, on jobs, framing and publication:

- A worker transaction that throws, or exceeds Prisma's limit, is rolled back and
  the queue fails the entry for good: nothing restores the story, where
  `schema.prisma:686` says the former state is kept "(restored on failure". That
  is why `pipeline_live` sets `MaxThrows` to 0; with 1, `JobsEnd` fails.
- Candidates made from an older brief stay on offer, where
  `docs/storywall_editor_cms_input_model.md:186` says "Existing frame candidates are marked
  stale or superseded".
- A request may publish over warnings found after it read the report, without the
  acknowledgement that `docs/storywall_creator_side_mutation_api_contracts.md:651`
  asks for. The page keeps its acknowledgement across later validations.
- The same overlap of generation and selection writes no row to the transition
  log when the state it read was `awaiting_framing_choice`
  (`workflow-transition.service.ts:12`), and two overlapping generations leave
  six candidates where the contract wants up to four.
- The overwrite at `frames.service.ts:444` is unconditional, so it hits a
  published story too if its transaction is that slow.
- Publication leaves `visibility` private (`stories.service.ts:584`) and no
  other code changes it, while the public reader asks for public or unlisted
  (`public-stories.service.ts`). It copies nothing of the draft either: the reader
  serves the live draft, so edits after publication show at once, and the title
  of the story row is not the draft's.

On drafts and their validation:

- A restore compares the version and then updates without naming it
  (`revisions.service.ts:186`): an autosave in between is overwritten, and the
  restore records no snapshot (`:142`), so that text is lost. It checks no
  workflow state either, and so can commit between the worker's reading of an
  event and its rewriting, whose snapshot then misses it. A full regeneration
  records no snapshot at all. `LossesAreAccountedFor` says how much that can
  cost: each restore at most one text of the restored object, each regeneration
  at most one of every event and source it wrote or deleted, and nothing else
  costs any.
- A snapshot holds part of a row. A PATCH of the header also writes the
  categories, `lead_priority`, `discovery_mode`, the `time_*` fields,
  `visibility_target` and the review flags (`stories.service.ts:650-682`), which
  `revision-recorder.ts:104-117` does not keep; a PATCH of a source also writes
  `reliability_tier`, `verification_status`, `is_primary` and `is_public`
  (`sources.service.ts:253-268`), which `:147-166` does not; and a scoped
  regeneration rewrites an event's type, dates and sources beside the four fields
  that `:132-145` keeps. Former values of these are gone even if the draft was
  only edited, and a restore, which writes back what the snapshot has
  (`revisions.service.ts:193-203`), leaves a row with old texts beside newer values
  of the rest. `schema.prisma:978` calls this a narrow restore. What
  `AutosaveKeepsPrior` and `LossesAreAccountedFor` say is about the part that
  snapshots hold.
- A scoped regeneration rewrites whatever event stands at the position, one that
  the creator has added by hand included (`Review!AssembleEvent`).
- No request sets the review status of a source, so every draft with events is
  published over warnings at best (`OnlyEventlessDraftsPass`).
- `counts_toward_sufficiency`, `source_density` and `confidence` are computed at
  assembly; no validation consults them and no edit of sources updates them.
- A resolution retried with its key after a newer validation is answered 404: the
  issue is looked up in the latest report before the key is.
- No code fills in the section candidates of a frame, so a scoped section
  regeneration always fails (`CanAssemble`).
- Two PATCH requests exhaust a pool of two: each holds a connection and waits for
  a second one. Prisma's limit ends them (`TimeOut`), as failures.

On the pages:

- Every revision renews `story_draft.last_edited_at`, so an autosave of an event
  makes the next autosave of the header a conflict although nobody touched the
  header; the header's typed text is then replaced by the server's.
- Text typed while a save is in flight is replaced by the save's response, or
  after a conflict by the server's version; the contract
  (`docs/storywall_creator_side_mutation_api_contracts.md:706`) wants local text
  kept. `EditsSettle` and `BriefSettles` allow it by name.
- A save that failed is not sent again until its text changes, and the banner that
  said so goes away with the next successful save of another object.
- A save of the header makes the page read its lists, and the answer may carry an
  older copy of a row than the page has; the row's next save is then a conflict
  (`CopyIsAVersion` holds all the same: old version, old text).
- What is typed less than 0.9 s before the brief page is left is not sent, and Run
  research starts from the saved brief.
- A poll of an earlier job page whose answer comes late forgets the remembered
  job although a newer one is remembered, and takes the tab to the draft from
  whatever page it shows. A start answered late on another job's page leaves that
  page's shown end (`ShownEndIsTrue` is about the job it was learnt of).

## What is abstracted, and what is not modelled

- One story, one creator. Slugs, ownership and authentication are left out.
- The database is READ COMMITTED with row locks. A Prisma query with nested
  includes is several SELECTs and is modelled as one reading (`PublishRead`,
  `WorkerStart`, `GenerateRead`). A second delivery of a job blocks on the job
  row and then commits; it is modelled as a reading and a later commit.
- `updated_at` is a counter. Two updates within one millisecond would carry the
  same version; the model does not have them.
- A version conflict, a replayed key and a refused request change nothing and are
  not steps, except where a request under way must end.
- Texts of candidates, artifacts, chronologies, events and sources are
  abstracted to what the checks tell apart: the brief version a candidate was
  made from, whether the chronology covers an event, what a validation would
  find; in `Review` the rows as the engines read them, in the page modules a
  number per text, in `DraftHistory` a number for all that a snapshot holds. Chronologies are not empty, since a pass does not succeed
  with an empty one.
- BullMQ is modelled from how the worker configures it: one attempt, a stalled
  entry delivered once more. Redis keeps its data.
- `needs_validation` is in the workflow states and allowed by validation; no code
  sets it.
- `DraftHistory` has one assembly at a time and no double delivery; that is
  `JobPipeline`'s subject. Its assembly starts from `ready_for_edit`, the only
  state in which its story is. `Review` and `DraftTimeline` have an assembly as the
  draft sees it, its queueing left out.
- In the page modules the API is its versions and states; identical calls in
  flight at the same time are one; a field is one text, and a PATCH carries the
  changed object. A tab has one page at a time; other tabs are `WrittenElsewhere`
  and `Elsewhere`. A selection carries the key of the visit to the framing page
  (`selectedKey` is the one that was accepted): repeated, it is answered with the
  story's present state again, or refused for naming another frame.
- Positions are numbers from 0 as the code has them; sections take theirs as
  events do, so `Creates` stands for either.

Not modelled, with the reason for each in `PROJECT.json`: public reading (it only
reads, and finds nothing, see above), authentication and ownership (stateless, in
front of every handler), the controllers' checks of single fields, slugs (two
stories with one subject; the models have one story), titles, dates and wording
taken from texts by the extraction, rendering and starter texts of the pages,
styling, migrations and scripts.

## Plan

Written in this order, because everything stands on the workflow state:
`StoryRecord`, `JobPipeline`, `Framing`, `Publishing` with `PublicationGate`,
their composition `StoryLifecycle`, then `DraftHistory`; then `Evidence` and
`Review` beneath `Publishing`, `DraftTimeline`, `EditorPage` and
`CreatorSession`. What is left:

1. `WorkflowContract`: the contract's table of permitted transitions as an
   abstract specification, and what `StoryLifecycle` implements of it.
2. `StoryCreation`: two stories created at the same time over one table, for the
   slug that both find free.
