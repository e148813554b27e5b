----------------------------- MODULE DraftHistory -----------------------------
(***************************************************************************)
(* The objects of a draft (header, sections, events and their sources),    *)
(* their versions, and the history from which a creator restores them.     *)
(*                                                                         *)
(* A client sends the version it loaded back in If-Match.  An autosave     *)
(* compares it, and its update names it once more; a restore compares it   *)
(* and then updates whatever is there.  Both record a revision, and only   *)
(* the autosave's holds the text it replaced.  Regeneration by the worker  *)
(* compares no versions: it relies on the story being in assembling_draft, *)
(* which an autosave checks before it starts and a restore never does.     *)
(*                                                                         *)
(* An object's text is the part of its row that a snapshot holds: title,   *)
(* subtitle, summary, lens and conclusion of the header, label and summary *)
(* of a section, headline, summary, dek and note of an event, a source's   *)
(* link, title, publisher, relevance, excerpt and date.  The rest of a row *)
(* is not in the model.  Nothing brings former values of the rest back: an *)
(* autosave records none of them and a restore leaves what is there.       *)
(***************************************************************************)
EXTENDS StoryRecord

CONSTANTS
    Clients,        \* API requests, each loading one object and changing it
    Header,         \* the story_draft row itself
    Sections,       \* ids of section_draft rows
    Events,         \* ids of event_draft rows
    Sources,        \* ids of source_record rows
    EventOf,        \* the event a source belongs to
    MaxContents,    \* bound: texts an object ever has
    MaxRevisions    \* bound: revisions recorded

Objects == {Header} \cup Sections \cup Events \cup Sources

ASSUME HistoryAssumption ==
    /\ EventOf \in [Sources -> Events]
    /\ Header \notin Sections \cup Events \cup Sources
    /\ Sections \cap Events = {}
    /\ (Sections \cup Events) \cap Sources = {}
    /\ MaxContents \in Nat /\ MaxRevisions \in Nat

VARIABLES
    content,        \* each object's present text (what a snapshot of it would
                    \* hold), 0 when it has no row
    written,        \* texts each object has had: they are numbered as written
    version,        \* updated_at (of the header: last_edited_at)
    history,        \* revision_entry rows, oldest first
    request,        \* what each client has loaded and is about to do
    regeneration    \* the assembly under way

historyVars == <<content, written, version, history, request, regeneration>>

\* `prior` is the text in the recovery snapshot, 0 without a snapshot.
Revisions == [object : Objects, kind : {"autosave", "restore", "regeneration"},
              prior : Nat]

ClientRequests == [op : {"none", "load", "patch", "restore", "create"},
                   object : Objects, version : Nat, content : Nat]

NoRequest == [op |-> "none", object |-> Header, version |-> 0, content |-> 0]

NoRegeneration == [phase |-> "none", target |-> Header, prior |-> 0]

Live(o) == content[o] # 0

HistoryShape ==
    /\ content \in [Objects -> Nat] /\ written \in [Objects -> Nat]
    /\ version \in [Objects -> Nat]
    /\ history \in Seq(Revisions)
    /\ request \in [Clients -> ClientRequests]
    /\ regeneration \in [phase : {"none", "accepted", "read"},
                         target : {Header} \cup Events, prior : Nat]

\* Only texts that were written are shown, and no source outlives its event.
HistoryTypeOK ==
    /\ HistoryShape
    /\ \A o \in Objects : content[o] <= written[o]
    /\ \A s \in Sources : Live(s) => Live(EventOf[s])

\* A draft just made from its frame has its header and nothing else.
HistoryInit ==
    /\ workflowState = "ready_for_edit"
    /\ transition = [from |-> "awaiting_framing_choice", to |-> workflowState]
    /\ storyStatus = "draft"
    /\ draftExists = TRUE /\ verdict = "warn"
    /\ storyLock = Unlocked
    /\ content = [o \in Objects |-> IF o = Header THEN 1 ELSE 0]
    /\ written = content
    /\ version = content
    /\ history = <<>>
    /\ request = [c \in Clients |-> NoRequest]
    /\ regeneration = NoRegeneration

-----------------------------------------------------------------------------
(* Writing rows *)

\* Rows that do not exist yet and may be created now.
Unused(ids) == {o \in ids : written[o] = 0}

LiveSourcesOf(events) == {s \in Sources : Live(s) /\ EventOf[s] \in events}

\* Every update renews a row's version; recording a revision counts it in the
\* header, and so renews the header's version too.
Touch(rows) == version' = [o \in Objects |-> IF o \in rows THEN version[o] + 1
                                                           ELSE version[o]]

insertRevisionEntry(o, kind, prior) ==
    history' = Append(history, [object |-> o, kind |-> kind, prior |-> prior])

\* Rows get a new text, rows lose theirs with the row itself.
Rewrite(rows, removed) ==
    /\ written' = [o \in Objects |-> IF o \in rows THEN written[o] + 1 ELSE written[o]]
    /\ content' = [o \in Objects |-> IF o \in rows THEN written'[o]
                                     ELSE IF o \in removed THEN 0 ELSE content[o]]

\* The rows whose text a PATCH of an object writes: of the header and of a source
\* it may write only fields that no snapshot holds.
Patched(o) == IF o \in {Header} \cup Sources THEN {{}, {o}} ELSE {{o}}

HasRoom(rows) ==
    Len(history) < MaxRevisions /\ \A o \in rows : written[o] < MaxContents

Answer(c) == request' = [request EXCEPT ![c] = NoRequest]

-----------------------------------------------------------------------------
(* Clients *)

\* The client reads an object and its version, now or long before it writes.
Load(c, o) ==
    /\ request[c] = NoRequest
    /\ Live(o)
    /\ request' = [request EXCEPT ![c] = [op |-> "load", object |-> o,
                                          version |-> version[o],
                                          content |-> content[o]]]
    /\ UNCHANGED <<storyVars, content, written, version, history, regeneration>>

VersionMatches(c) ==
    Live(request[c].object) /\ version[request[c].object] = request[c].version

\* The client leaves the page, or the service refuses the request.
Drop(c) ==
    /\ request[c].op = "load"
    /\ Answer(c)
    /\ UNCHANGED <<storyVars, content, written, version, history, regeneration>>

\* patchStoryDraft, patchSection, patchEvent, patchSource: the workflow state
\* and the version are checked, and the row is kept for the snapshot.
PatchRead(c) ==
    /\ request[c].op = "load"
    /\ workflowState \in EditStates
    /\ VersionMatches(c)
    /\ request' = [request EXCEPT ![c] =
                      [@ EXCEPT !.op = "patch",
                                !.content = content[request[c].object]]]
    /\ UNCHANGED <<storyVars, content, written, version, history, regeneration>>

\* Mutants: the update does not name the version; the snapshot is taken from
\* the row after the update.
PatchCommitBlind(c) ==
    LET o == request[c].object
    IN  /\ request[c].op = "patch"
        /\ Live(o)
        /\ \E rows \in Patched(o) : HasRoom(rows) /\ Rewrite(rows, {})
        /\ Touch({o, Header})
        /\ insertRevisionEntry(o, "autosave", request[c].content)
        /\ Answer(c)
        /\ UNCHANGED <<storyVars, regeneration>>

PatchCommitSnapshotsNew(c) ==
    LET o == request[c].object
    IN  /\ request[c].op = "patch"
        /\ VersionMatches(c)
        /\ \E rows \in Patched(o) : HasRoom(rows) /\ Rewrite(rows, {})
        /\ Touch({o, Header})
        /\ insertRevisionEntry(o, "autosave", written'[o])
        /\ Answer(c)
        /\ UNCHANGED <<storyVars, regeneration>>

PatchCommit(c) ==
    LET o == request[c].object
    IN  /\ request[c].op = "patch"
        /\ VersionMatches(c)
        /\ \E rows \in Patched(o) : HasRoom(rows) /\ Rewrite(rows, {})
        /\ Touch({o, Header})
        /\ insertRevisionEntry(o, "autosave", request[c].content)
        /\ Answer(c)
        /\ UNCHANGED <<storyVars, regeneration>>

\* The update matches no row: 409, with the latest row if there is one.
PatchConflict(c) ==
    /\ request[c].op = "patch"
    /\ ~VersionMatches(c)
    /\ Answer(c)
    /\ UNCHANGED <<storyVars, content, written, version, history, regeneration>>

\* restoreRevision: the version is compared, the workflow state is not.  From
\* here on `content` is the text to bring back.
RestoreRead(c, i) ==
    /\ request[c].op = "load"
    /\ history[i].prior # 0
    /\ history[i].object = request[c].object
    /\ VersionMatches(c)
    /\ request' = [request EXCEPT ![c] =
                      [@ EXCEPT !.op = "restore", !.content = history[i].prior]]
    /\ UNCHANGED <<storyVars, content, written, version, history, regeneration>>

\* The update names only the row, and of its fields those of the snapshot;
\* without a row it throws and is rolled back.  The revision of a restore has no
\* snapshot.
RestoreCommit(c) ==
    LET o == request[c].object
    IN  /\ request[c].op = "restore"
        /\ IF Live(o)
           THEN /\ HasRoom({})
                /\ content' = [content EXCEPT ![o] = request[c].content]
                /\ Touch({o, Header})
                /\ insertRevisionEntry(o, "restore", 0)
           ELSE UNCHANGED <<content, version, history>>
        /\ Answer(c)
        /\ UNCHANGED <<storyVars, written, regeneration>>

\* createSection, createEvent, createSource: the workflow state (and the
\* source's event) are checked before the transaction begins.
CreateRead(c, o) ==
    /\ request[c] = NoRequest
    /\ workflowState \in EditStates
    /\ o \in Unused(Sections \cup Events \cup Sources)
    /\ o \in Sources => Live(EventOf[o])
    /\ request' = [request EXCEPT ![c] = [NoRequest EXCEPT !.op = "create",
                                                           !.object = o]]
    /\ UNCHANGED <<storyVars, content, written, version, history, regeneration>>

\* A source is counted in its event, which renews the event's version; if the
\* event is gone the foreign key rejects the source.  No revision is recorded.
CreateCommit(c) ==
    LET o == request[c].object
        counted == IF o \in Sources THEN {EventOf[o]} ELSE {}
    IN  /\ request[c].op = "create"
        /\ IF o \in Unused(Objects) /\ \A e \in counted : Live(e)
           THEN Rewrite({o}, {}) /\ Touch({o} \cup counted)
           ELSE UNCHANGED <<content, written, version>>
        /\ Answer(c)
        /\ UNCHANGED <<storyVars, history, regeneration>>

-----------------------------------------------------------------------------
(* Regeneration of the whole timeline (target Header) or of one event *)

\* startDraftAssembly: the story is held, the worker comes later.
BeginAssembly(target) ==
    /\ regeneration = NoRegeneration
    /\ workflowState = "ready_for_edit"
    /\ Live(target)
    /\ regeneration' = [NoRegeneration EXCEPT !.phase = "accepted", !.target = target]
    /\ MoveStory(workflowState, "assembling_draft")
    /\ UNCHANGED <<storyStatus, draftExists, verdict, storyLock,
                   content, written, version, history, request>>

\* The worker reads the event it will rewrite, for the snapshot.
RegenerateRead ==
    /\ regeneration.phase = "accepted"
    /\ regeneration' = [regeneration EXCEPT !.phase = "read",
                                            !.prior = content[regeneration.target]]
    /\ UNCHANGED <<storyVars, content, written, version, history, request>>

EndAssembly ==
    /\ regeneration' = NoRegeneration
    /\ MoveStory("assembling_draft", "ready_for_edit")
    /\ UNCHANGED <<storyStatus, draftExists, verdict, storyLock, request>>

\* failJob, for instance because the chronology has no event at its position.
RegenerateFail ==
    /\ regeneration.phase = "read"
    /\ EndAssembly
    /\ UNCHANGED <<content, written, version, history>>

\* The event is rewritten and its sources are replaced by the chronology's.
RegenerateEvent(new) ==
    LET e == regeneration.target
    IN  /\ regeneration.phase = "read"
        /\ e \in Events
        /\ new \subseteq Unused({s \in Sources : EventOf[s] = e})
        /\ HasRoom({e})
        /\ Rewrite({e} \cup new, LiveSourcesOf({e}))
        /\ Touch({e, Header} \cup new)
        /\ insertRevisionEntry(e, "regeneration", regeneration.prior)
        /\ EndAssembly

\* Mutant: the deleted events leave their sources behind.
RegenerateAllKeepsSources(new) ==
    /\ regeneration.phase = "read"
    /\ regeneration.target = Header
    /\ new \subseteq Unused(Events \cup Sources)
    /\ new \cap Events # {}
    /\ \A s \in new \cap Sources : EventOf[s] \in new
    /\ HasRoom({})
    /\ Rewrite(new, {e \in Events : Live(e)})
    /\ Touch({Header} \cup new)
    /\ insertRevisionEntry(Header, "regeneration", 0)
    /\ EndAssembly

\* All events go, with their sources, and the chronology's come in their
\* place; what is recorded has no snapshot.
RegenerateAll(new) ==
    /\ regeneration.phase = "read"
    /\ regeneration.target = Header
    /\ new \subseteq Unused(Events \cup Sources)
    /\ new \cap Events # {}
    /\ \A s \in new \cap Sources : EventOf[s] \in new
    /\ HasRoom({})
    /\ Rewrite(new, {e \in Events : Live(e)} \cup LiveSourcesOf(Events))
    /\ Touch({Header} \cup new)
    /\ insertRevisionEntry(Header, "regeneration", 0)
    /\ EndAssembly

-----------------------------------------------------------------------------

HistoryNext ==
    \/ \E c \in Clients, o \in Objects : Load(c, o) \/ CreateRead(c, o)
    \/ \E c \in Clients : \/ Drop(c) \/ PatchRead(c) \/ PatchCommit(c)
                          \/ PatchConflict(c) \/ RestoreCommit(c) \/ CreateCommit(c)
    \/ \E c \in Clients, i \in DOMAIN history : RestoreRead(c, i)
    \/ \E target \in {Header} \cup Events : BeginAssembly(target)
    \/ RegenerateRead \/ RegenerateFail
    \/ \E new \in SUBSET Sources : RegenerateEvent(new)
    \/ \E new \in SUBSET (Events \cup Sources) : RegenerateAll(new)

HistorySpec == HistoryInit /\ [][HistoryNext]_<<storyVars, historyVars>>

-----------------------------------------------------------------------------
(* Properties *)

(***************************************************************************)
(* An autosave never replaces a text its client had not loaded: what its   *)
(* revision records as the text before is the text it overwrites, whatever *)
(* restores, regenerations and other autosaves came in between.            *)
(***************************************************************************)
AutosaveKeepsPrior ==
    [][LET latest == history'[Len(history')]
       IN  history' # history /\ latest.kind = "autosave"
              => latest.prior = content[latest.object]]_history

\* Texts of an object that are neither in the draft nor in a snapshot.
Forgotten(o) ==
    {n \in 1..written[o] :
        /\ n # content[o]
        /\ \A i \in DOMAIN history :
              history[i].object = o => history[i].prior # n}

\* Revisions that may have replaced an object's text without a snapshot of it.
MayLose(revision, o) ==
    \/ revision.kind = "restore" /\ revision.object = o
    \/ /\ revision.kind = "regeneration"
       /\ \/ o \in Events /\ revision.object \in {Header, o}
          \/ o \in Sources /\ revision.object \in {Header, EventOf[o]}

Losses(o) == {i \in DOMAIN history : MayLose(history[i], o)}

(***************************************************************************)
(* An autosave costs a draft no text, and whatever else commits between    *)
(* its reading and its writing, a restore costs the restored object at     *)
(* most one, a regeneration each event and source it rewrites or deletes   *)
(* at most one.  So the part of an only edited draft that snapshots hold   *)
(* can be brought back, text by text; of the header and of sections also   *)
(* through regenerations.                                                  *)
(***************************************************************************)
LossesAreAccountedFor ==
    \A o \in Objects : Cardinality(Forgotten(o)) <= Cardinality(Losses(o))

=============================================================================
