-------------------------- MODULE DraftHistoryProofs --------------------------
(***************************************************************************)
(* Proof that an autosave records exactly the text it replaces.  A version *)
(* is never used twice for different texts of an object, so what a request *)
(* has read is still the object's text whenever its version is.  From it   *)
(* follows that edits forget no text and that whatever forgets one is on   *)
(* record, and beside it that what is shown was written and that no source *)
(* outlives its event.                                                     *)
(***************************************************************************)
EXTENDS DraftHistory, FiniteSetTheorems, TLAPS

\* A request that knows an object's version knows its text.
ReadingsHold ==
    \A c \in Clients :
        LET o == request[c].object
        IN  request[c].op \in {"load", "patch"} =>
                /\ request[c].version <= version[o]
                /\ VersionMatches(c) => content[o] = request[c].content

HistoryInv == HistoryShape /\ ReadingsHold

\* Versions only grow, and a text is replaced only under a new version.
VersionsTellTexts ==
    \A o \in Objects :
        /\ version[o] <= version'[o]
        /\ version'[o] = version[o] => content'[o] \in {content[o], 0}

\* No request but perhaps c's changes, and c's is answered.
OnlyAnswers == \A c \in Clients : request'[c] \in {request[c], NoRequest}

-----------------------------------------------------------------------------
(* Writing rows *)

LEMMA HeaderIsObject == Header \in Objects
BY DEF Objects

LEMMA TouchedRows ==
    ASSUME HistoryShape, NEW rows, Touch(rows)
    PROVE  /\ version' \in [Objects -> Nat]
           /\ \A o \in Objects : /\ version[o] <= version'[o]
                                 /\ o \in rows => version'[o] # version[o]
BY DEF HistoryShape, Touch

LEMMA RewrittenRows ==
    ASSUME HistoryShape, NEW rows, NEW removed, Rewrite(rows, removed)
    PROVE  /\ written' \in [Objects -> Nat]
           /\ content' \in [Objects -> Nat]
           /\ \A o \in Objects \ rows : content'[o] \in {content[o], 0}
BY DEF HistoryShape, Rewrite

LEMMA RecordedRevision ==
    ASSUME HistoryShape, NEW o \in Objects,
           NEW kind \in {"autosave", "restore", "regeneration"},
           NEW prior \in Nat, insertRevisionEntry(o, kind, prior)
    PROVE  /\ history' \in Seq(Revisions)
           /\ history'[Len(history')] = [object |-> o, kind |-> kind, prior |-> prior]
BY DEF HistoryShape, insertRevisionEntry, Revisions

LEMMA AnsweredRequest ==
    ASSUME HistoryShape, NEW c \in Clients, Answer(c)
    PROVE  /\ OnlyAnswers
           /\ request' \in [Clients -> ClientRequests]
BY HeaderIsObject DEF HistoryShape, ClientRequests, Answer, OnlyAnswers, NoRequest

LEMMA UnchangedRows ==
    ASSUME HistoryShape, UNCHANGED <<content, version>>
    PROVE  VersionsTellTexts
BY DEF HistoryShape, VersionsTellTexts

\* A step that only answers requests keeps what the others have read.
LEMMA AnswersKeepReadings ==
    ASSUME HistoryInv, VersionsTellTexts, OnlyAnswers, HistoryShape'
    PROVE  ReadingsHold'
<1> SUFFICES ASSUME NEW c \in Clients, request'[c].op \in {"load", "patch"}
             PROVE  LET o == request'[c].object
                    IN  /\ request'[c].version <= version'[o]
                        /\ VersionMatches(c)' => content'[o] = request'[c].content
  BY DEF ReadingsHold
<1>1. request'[c] = request[c]
  BY DEF OnlyAnswers, NoRequest
<1>2. request[c].object \in Objects /\ request[c].version \in Nat
  BY DEF HistoryInv, HistoryShape, ClientRequests
<1>3. version[request[c].object] \in Nat /\ version'[request[c].object] \in Nat
  BY <1>2 DEF HistoryInv, HistoryShape
<1>4. request[c].version <= version[request[c].object]
      /\ (VersionMatches(c) => content[request[c].object] = request[c].content)
  BY <1>1 DEF HistoryInv, ReadingsHold
<1>5. version[request[c].object] <= version'[request[c].object]
      /\ (version'[request[c].object] = version[request[c].object]
            => content'[request[c].object] \in {content[request[c].object], 0})
  BY <1>2 DEF VersionsTellTexts
<1> QED
  BY <1>1, <1>2, <1>3, <1>4, <1>5 DEF VersionMatches, Live

-----------------------------------------------------------------------------
(* Steps *)

LEMMA ClientWrites ==
    ASSUME HistoryInv, NEW c \in Clients,
           PatchCommit(c) \/ RestoreCommit(c) \/ CreateCommit(c)
    PROVE  HistoryShape' /\ VersionsTellTexts /\ OnlyAnswers
<1> DEFINE o == request[c].object
<1>0. HistoryShape /\ o \in Objects /\ request[c].content \in Nat
  BY DEF HistoryInv, HistoryShape, ClientRequests
<1>1. Answer(c) => OnlyAnswers /\ request' \in [Clients -> ClientRequests]
  BY <1>0, AnsweredRequest
<1>2. CASE PatchCommit(c)
  <2>1. PICK rows \in Patched(o) : Rewrite(rows, {})
    BY <1>2 DEF PatchCommit
  <2>5. Touch({o, Header}) /\ Answer(c)
        /\ insertRevisionEntry(o, "autosave", request[c].content)
        /\ regeneration' = regeneration
    BY <1>2 DEF PatchCommit
  <2>6. \A p \in Objects \ {o} : p \notin rows
    BY DEF Patched
  <2>2. history' \in Seq(Revisions)
    BY <1>0, <2>5, RecordedRevision
  <2>3. HistoryShape'
    BY <1>0, <1>1, <2>1, <2>2, <2>5, TouchedRows, RewrittenRows DEF HistoryShape
  <2>4. VersionsTellTexts
    <3>1. \A p \in Objects \ {o} : content'[p] \in {content[p], 0}
      BY <1>0, <2>1, <2>6, RewrittenRows
    <3> QED BY <1>0, <2>5, <3>1, TouchedRows DEF VersionsTellTexts
  <2> QED
    BY <1>1, <2>3, <2>4, <2>5
<1>3. CASE RestoreCommit(c)
  <2>1. Answer(c) /\ written' = written /\ regeneration' = regeneration
    BY <1>3 DEF RestoreCommit
  <2>2. CASE Live(o)
    <3>1. /\ content' = [content EXCEPT ![o] = request[c].content]
          /\ Touch({o, Header})
          /\ insertRevisionEntry(o, "restore", 0)
      BY <1>3, <2>2 DEF RestoreCommit
    <3>2. history' \in Seq(Revisions)
      BY <1>0, <3>1, RecordedRevision
    <3>3. HistoryShape'
      BY <1>0, <1>1, <2>1, <3>1, <3>2, TouchedRows DEF HistoryShape
    <3>4. VersionsTellTexts
      BY <1>0, <3>1, TouchedRows DEF VersionsTellTexts, HistoryShape
    <3> QED
      BY <1>1, <2>1, <3>3, <3>4
  <2>3. CASE ~Live(o)
    <3>1. UNCHANGED <<content, version, history>>
      BY <1>3, <2>3 DEF RestoreCommit
    <3> QED
      BY <1>0, <1>1, <2>1, <3>1, UnchangedRows DEF HistoryShape
  <2> QED
    BY <2>2, <2>3
<1>4. CASE CreateCommit(c)
  <2> DEFINE counted == IF o \in Sources THEN {EventOf[o]} ELSE {}
  <2>1. Answer(c) /\ UNCHANGED <<history, regeneration>>
    BY <1>4 DEF CreateCommit
  <2>2. \/ Rewrite({o}, {}) /\ Touch({o} \cup counted)
        \/ UNCHANGED <<content, written, version>>
    BY <1>4 DEF CreateCommit
  <2>3. HistoryShape'
    BY <1>0, <1>1, <2>1, <2>2, TouchedRows, RewrittenRows DEF HistoryShape
  <2>4. VersionsTellTexts
    <3>1. CASE Rewrite({o}, {}) /\ Touch({o} \cup counted)
      BY <1>0, <3>1, TouchedRows, RewrittenRows DEF VersionsTellTexts
    <3> QED
      BY <1>0, <2>2, <3>1, UnchangedRows
  <2> QED
    BY <1>1, <2>1, <2>3, <2>4
<1> QED
  BY <1>2, <1>3, <1>4

\* What the two regenerations have in common.
LEMMA RegeneratedRows ==
    ASSUME HistoryInv, NEW rewritten, NEW removed,
           NEW o \in Objects, NEW prior \in Nat,
           Rewrite(rewritten, removed), Touch({Header} \cup rewritten),
           insertRevisionEntry(o, "regeneration", prior), EndAssembly
    PROVE  HistoryShape' /\ VersionsTellTexts /\ OnlyAnswers
<1>0. HistoryShape
  BY DEF HistoryInv
<1>1. request' = request /\ regeneration' = NoRegeneration
  BY DEF EndAssembly
<1>2. history' \in Seq(Revisions)
  BY <1>0, RecordedRevision
<1>3. HistoryShape'
  BY <1>0, <1>1, <1>2, TouchedRows, RewrittenRows DEF HistoryShape, NoRegeneration
<1>4. VersionsTellTexts
  BY <1>0, TouchedRows, RewrittenRows DEF VersionsTellTexts
<1> QED
  BY <1>1, <1>3, <1>4 DEF OnlyAnswers

LEMMA WorkerWrites ==
    ASSUME HistoryInv, NEW new, RegenerateEvent(new) \/ RegenerateAll(new)
    PROVE  HistoryShape' /\ VersionsTellTexts /\ OnlyAnswers
<1>1. CASE RegenerateEvent(new)
  <2> DEFINE e == regeneration.target
  <2>1. e \in Objects /\ regeneration.prior \in Nat
    BY <1>1 DEF RegenerateEvent, HistoryInv, HistoryShape, Objects
  <2>2. {e, Header} \cup new = {Header} \cup ({e} \cup new)
    OBVIOUS
  <2>3. /\ Rewrite({e} \cup new, LiveSourcesOf({e}))
        /\ Touch({Header} \cup ({e} \cup new))
        /\ insertRevisionEntry(e, "regeneration", regeneration.prior)
        /\ EndAssembly
    BY <1>1, <2>2 DEF RegenerateEvent
  <2> QED
    BY <2>1, <2>3, RegeneratedRows
<1>2. CASE RegenerateAll(new)
  <2>1. /\ Rewrite(new, {e \in Events : Live(e)} \cup LiveSourcesOf(Events))
        /\ Touch({Header} \cup new)
        /\ insertRevisionEntry(Header, "regeneration", 0)
        /\ EndAssembly
    BY <1>2 DEF RegenerateAll
  <2> QED
    BY <2>1, HeaderIsObject, RegeneratedRows
<1> QED
  BY <1>1, <1>2

LEMMA NewReadings ==
    ASSUME HistoryInv, NEW c \in Clients,
           \/ \E o \in Objects : Load(c, o) \/ CreateRead(c, o)
           \/ PatchRead(c)
           \/ \E i \in DOMAIN history : RestoreRead(c, i)
    PROVE  HistoryShape' /\ ReadingsHold'
<1> DEFINE Readings == request' \in [Clients -> ClientRequests]
           Others == \A d \in Clients \ {c} : request'[d] = request[d]
           Own == LET o == request'[c].object
                  IN  request'[c].op \in {"load", "patch"} =>
                         request'[c].version = version[o]
                            /\ request'[c].content = content[o]
<1>0. /\ HistoryShape
      /\ request[c] \in ClientRequests /\ request[c].object \in Objects
  BY DEF HistoryInv, HistoryShape, ClientRequests
<1>1. ASSUME NEW o \in Objects, Load(c, o)
      PROVE  Readings /\ Others /\ Own
  BY <1>0, <1>1 DEF Load, HistoryShape, ClientRequests
<1>2. ASSUME NEW o \in Objects, CreateRead(c, o)
      PROVE  Readings /\ Others /\ Own
  BY <1>0, <1>2 DEF CreateRead, HistoryShape, ClientRequests, NoRequest
<1>3. ASSUME PatchRead(c)
      PROVE  Readings /\ Others /\ Own
  <2> DEFINE r == [request[c] EXCEPT !.op = "patch",
                                     !.content = content[request[c].object]]
  <2>1. content[request[c].object] \in Nat /\ version[request[c].object] = request[c].version
    BY <1>0, <1>3 DEF PatchRead, HistoryShape, VersionMatches
  <2>2. /\ r \in ClientRequests
        /\ r.object = request[c].object /\ r.version = request[c].version
        /\ r.content = content[request[c].object]
    BY <1>0, <2>1 DEF ClientRequests
  <2>3. request' = [request EXCEPT ![c] = r]
    BY <1>3 DEF PatchRead
  <2> HIDE DEF r
  <2> QED
    BY <1>0, <2>1, <2>2, <2>3 DEF HistoryShape
<1>4. ASSUME NEW i \in DOMAIN history, RestoreRead(c, i)
      PROVE  Readings /\ Others /\ Own
  <2> DEFINE r == [request[c] EXCEPT !.op = "restore", !.content = history[i].prior]
  <2>1. history[i].prior \in Nat
    <3>1. history[i] \in Revisions
      BY <1>0 DEF HistoryShape
    <3> QED
      BY <3>1 DEF Revisions
  <2>2. r \in ClientRequests /\ r.op = "restore"
    BY <1>0, <2>1 DEF ClientRequests
  <2>3. request' = [request EXCEPT ![c] = r]
    BY <1>4 DEF RestoreRead
  <2> HIDE DEF r
  <2> QED
    BY <1>0, <2>2, <2>3 DEF HistoryShape
<1>5. Readings /\ Others /\ Own
  BY <1>1, <1>2, <1>3, <1>4
<1>6. UNCHANGED <<content, written, version, history, regeneration>>
  BY DEF Load, CreateRead, PatchRead, RestoreRead
<1>7. HistoryShape'
  BY <1>0, <1>5, <1>6 DEF HistoryShape
<1>8. ASSUME NEW d \in Clients, request'[d].op \in {"load", "patch"}
      PROVE  LET o == request'[d].object
             IN  /\ request'[d].version <= version'[o]
                 /\ VersionMatches(d)' => content'[o] = request'[d].content
  <2>1. CASE d = c
    <3>1. version[request'[c].object] \in Nat
      BY <1>0, <1>5 DEF HistoryShape, ClientRequests
    <3> QED
      BY <1>5, <1>6, <1>8, <2>1, <3>1
  <2>2. CASE d # c
    BY <1>5, <1>6, <1>8, <2>2 DEF HistoryInv, ReadingsHold, VersionMatches, Live
  <2> QED
    BY <2>1, <2>2
<1> QED
  BY <1>7, <1>8 DEF ReadingsHold

LEMMA AssemblyMoves ==
    ASSUME HistoryInv,
           \/ \E target \in {Header} \cup Events : BeginAssembly(target)
           \/ RegenerateRead \/ RegenerateFail
    PROVE  HistoryShape' /\ VersionsTellTexts /\ OnlyAnswers
<1>0. HistoryShape
  BY DEF HistoryInv
<1>1. UNCHANGED <<content, written, version, history, request>>
  BY DEF BeginAssembly, RegenerateRead, RegenerateFail, EndAssembly
<1>2. regeneration' \in [phase : {"none", "accepted", "read"},
                         target : {Header} \cup Events, prior : Nat]
  <2>1. content[regeneration.target] \in Nat
    BY <1>0 DEF HistoryShape, Objects
  <2>2. NoRegeneration \in [phase : {"none", "accepted", "read"},
                            target : {Header} \cup Events, prior : Nat]
    BY DEF NoRegeneration
  <2>3. ASSUME NEW target \in {Header} \cup Events, BeginAssembly(target)
        PROVE  regeneration' = [phase |-> "accepted", target |-> target, prior |-> 0]
    BY <2>3 DEF BeginAssembly, NoRegeneration
  <2>4. CASE RegenerateRead
    BY <1>0, <2>1, <2>4 DEF RegenerateRead, HistoryShape
  <2>5. CASE RegenerateFail
    BY <2>2, <2>5 DEF RegenerateFail, EndAssembly
  <2> QED
    BY <2>3, <2>4, <2>5
<1>3. HistoryShape'
  BY <1>0, <1>1, <1>2 DEF HistoryShape
<1> QED
  BY <1>0, <1>1, <1>3, UnchangedRows DEF OnlyAnswers

LEMMA StepKeepsInv ==
    ASSUME HistoryInv, [HistoryNext]_<<storyVars, historyVars>>
    PROVE  HistoryInv'
<1>0. HistoryShape
  BY DEF HistoryInv
<1>1. ASSUME HistoryShape', VersionsTellTexts, OnlyAnswers
      PROVE  HistoryInv'
  BY <1>1, AnswersKeepReadings DEF HistoryInv
<1>2. CASE UNCHANGED <<storyVars, historyVars>>
  BY <1>2 DEF HistoryInv, HistoryShape, ReadingsHold, VersionMatches, Live, historyVars
<1>3. ASSUME NEW c \in Clients,
             \/ \E o \in Objects : Load(c, o) \/ CreateRead(c, o)
             \/ PatchRead(c)
             \/ \E i \in DOMAIN history : RestoreRead(c, i)
      PROVE  HistoryInv'
  BY <1>3, NewReadings DEF HistoryInv
<1>4. ASSUME NEW c \in Clients, PatchCommit(c) \/ RestoreCommit(c) \/ CreateCommit(c)
      PROVE  HistoryInv'
  BY <1>1, <1>4, ClientWrites
<1>5. ASSUME NEW c \in Clients, Drop(c) \/ PatchConflict(c)
      PROVE  HistoryInv'
  <2>1. Answer(c) /\ UNCHANGED <<content, written, version, history, regeneration>>
    BY <1>5 DEF Drop, PatchConflict
  <2>2. HistoryShape' /\ OnlyAnswers
    BY <1>0, <2>1, AnsweredRequest DEF HistoryShape
  <2> QED
    BY <1>0, <1>1, <2>1, <2>2, UnchangedRows
<1>6. ASSUME \/ \E target \in {Header} \cup Events : BeginAssembly(target)
             \/ RegenerateRead \/ RegenerateFail
      PROVE  HistoryInv'
  BY <1>1, <1>6, AssemblyMoves
<1>7. ASSUME NEW new, RegenerateEvent(new) \/ RegenerateAll(new)
      PROVE  HistoryInv'
  BY <1>1, <1>7, WorkerWrites
<1> QED
  BY <1>2, <1>3, <1>4, <1>5, <1>6, <1>7 DEF HistoryNext

LEMMA AlwaysHistoryInv == HistorySpec => []HistoryInv
<1>1. HistoryInit => HistoryInv
  BY HeaderIsObject DEF HistoryInit, HistoryInv, HistoryShape, ReadingsHold,
                        ClientRequests, NoRequest, NoRegeneration
<1> QED
  BY <1>1, StepKeepsInv, PTL DEF HistorySpec

(***************************************************************************)
(* For any number of clients and objects, and whatever restores and        *)
(* regenerations come in between, the revision of an autosave records the  *)
(* very text it replaces.                                                  *)
(***************************************************************************)
THEOREM AutosavesAreRecoverable == HistorySpec => AutosaveKeepsPrior
<1> DEFINE Latest == history'[Len(history')]
           Kept == history' # history /\ Latest.kind = "autosave"
                      => Latest.prior = content[Latest.object]
<1>1. HistoryInv /\ [HistoryNext]_<<storyVars, historyVars>> => Kept
  <2> SUFFICES ASSUME HistoryInv, [HistoryNext]_<<storyVars, historyVars>>,
                      history' # history
               PROVE  Latest.kind = "autosave" => Latest.prior = content[Latest.object]
    OBVIOUS
  <2>0. HistoryShape
    BY DEF HistoryInv
  <2>1. ASSUME NEW c \in Clients, PatchCommit(c)
        PROVE  Latest.prior = content[Latest.object]
    <3>1. request[c].object \in Objects /\ request[c].content \in Nat
      BY <2>0 DEF HistoryShape, ClientRequests
    <3>2. insertRevisionEntry(request[c].object, "autosave", request[c].content)
      BY <2>1 DEF PatchCommit
    <3>3. Latest = [object |-> request[c].object, kind |-> "autosave",
                    prior |-> request[c].content]
      BY <2>0, <3>1, <3>2, RecordedRevision
    <3>4. content[request[c].object] = request[c].content
      BY <2>1 DEF PatchCommit, HistoryInv, ReadingsHold
    <3> QED
      BY <3>3, <3>4
  <2>2. ASSUME NEW c \in Clients, RestoreCommit(c)
        PROVE  Latest.kind = "restore"
    <3>1. request[c].object \in Objects
      BY <2>0 DEF HistoryShape, ClientRequests
    <3>2. insertRevisionEntry(request[c].object, "restore", 0)
      BY <2>2 DEF RestoreCommit
    <3>3. Latest = [object |-> request[c].object, kind |-> "restore", prior |-> 0]
      BY <2>0, <3>1, <3>2, RecordedRevision
    <3> QED
      BY <3>3
  <2>3. ASSUME NEW new, RegenerateEvent(new)
        PROVE  Latest.kind = "regeneration"
    <3>1. regeneration.target \in Objects /\ regeneration.prior \in Nat
      BY <2>0 DEF HistoryShape, Objects
    <3>2. insertRevisionEntry(regeneration.target, "regeneration", regeneration.prior)
      BY <2>3 DEF RegenerateEvent
    <3>3. Latest = [object |-> regeneration.target, kind |-> "regeneration",
                    prior |-> regeneration.prior]
      BY <2>0, <3>1, <3>2, RecordedRevision
    <3> QED
      BY <3>3
  <2>4. ASSUME NEW new, RegenerateAll(new)
        PROVE  Latest.kind = "regeneration"
    <3>1. insertRevisionEntry(Header, "regeneration", 0)
      BY <2>4 DEF RegenerateAll
    <3>3. Latest = [object |-> Header, kind |-> "regeneration", prior |-> 0]
      BY <2>0, <3>1, HeaderIsObject, RecordedRevision
    <3> QED
      BY <3>3
  <2>5. \/ \E c \in Clients : PatchCommit(c) \/ RestoreCommit(c)
        \/ \E new : RegenerateEvent(new) \/ RegenerateAll(new)
    BY DEF HistoryNext, historyVars, Load, CreateRead, Drop, PatchRead, PatchConflict,
           CreateCommit, RestoreRead, BeginAssembly, RegenerateRead, RegenerateFail
  <2> QED
    BY <2>1, <2>2, <2>3, <2>4, <2>5
<1>2. Kept => [Kept]_history
  OBVIOUS
<1> QED
  BY <1>1, AlwaysHistoryInv, PTL DEF HistorySpec, AutosaveKeepsPrior

-----------------------------------------------------------------------------
(* Texts, the snapshots that hold them and the sources' events *)

\* Whatever is shown, kept in a snapshot, or about to be brought back or
\* recorded is a text that was written.
TextsAreWritten ==
    /\ \A o \in Objects : content[o] <= written[o]
    /\ \A i \in DOMAIN history : history[i].prior <= written[history[i].object]
    /\ \A c \in Clients : /\ request[c].content <= written[request[c].object]
                          /\ request[c].op = "restore" => request[c].content # 0
    /\ regeneration.prior <= written[regeneration.target]

SourcesHaveEvents == \A s \in Sources : Live(s) => Live(EventOf[s])

TextsInv == HistoryInv /\ TextsAreWritten /\ SourcesHaveEvents /\ LossesAreAccountedFor

LEMMA RowsAreNumbered ==
    ASSUME HistoryShape, NEW rows, NEW removed, Rewrite(rows, removed), NEW o \in Objects
    PROVE  /\ written[o] \in Nat /\ content[o] \in Nat
           /\ o \in rows => written'[o] = written[o] + 1 /\ content'[o] = written[o] + 1
           /\ o \notin rows => /\ written'[o] = written[o]
                               /\ o \in removed => content'[o] = 0
                               /\ o \notin removed => content'[o] = content[o]
BY DEF HistoryShape, Rewrite

\* A revision is added behind the ones there are.
LEMMA HistoryGrows ==
    ASSUME HistoryShape, NEW o \in Objects,
           NEW kind \in {"autosave", "restore", "regeneration"},
           NEW prior \in Nat, insertRevisionEntry(o, kind, prior)
    PROVE  /\ Len(history) \in Nat
           /\ DOMAIN history = 1 .. Len(history)
           /\ DOMAIN history' = 1 .. Len(history) + 1
           /\ \A i \in DOMAIN history : history'[i] = history[i]
           /\ history'[Len(history) + 1] = [object |-> o, kind |-> kind, prior |-> prior]
BY DEF HistoryShape, insertRevisionEntry, Revisions

\* Texts stay written when more are, and a new snapshot of a written text is one more.
LEMMA WrittenStaysWritten ==
    ASSUME HistoryShape, HistoryShape', TextsAreWritten, OnlyAnswers,
           \A o \in Objects : written[o] <= written'[o] /\ content'[o] <= written'[o],
           regeneration' \in {regeneration, NoRegeneration},
           \/ history' = history
           \/ \E o \in Objects, prior \in Nat,
                 kind \in {"autosave", "restore", "regeneration"} :
                 /\ insertRevisionEntry(o, kind, prior)
                 /\ prior <= written[o]
    PROVE  TextsAreWritten'
<1>1. ASSUME NEW i \in DOMAIN history
      PROVE  history[i].object \in Objects /\ history[i].prior \in Nat
  <2>1. history[i] \in Revisions
    BY <1>1 DEF HistoryShape
  <2> QED BY <2>1 DEF Revisions
<1>2. \A o \in Objects : written[o] \in Nat /\ written'[o] \in Nat
  BY DEF HistoryShape
<1>3. ASSUME NEW i \in DOMAIN history'
      PROVE  history'[i].prior <= written'[history'[i].object]
  <2>1. CASE history' = history
    BY <1>1, <1>2, <1>3, <2>1 DEF TextsAreWritten
  <2>2. CASE history' # history
    <3>1. PICK o \in Objects, prior \in Nat,
               kind \in {"autosave", "restore", "regeneration"} :
               insertRevisionEntry(o, kind, prior) /\ prior <= written[o]
      BY <2>2
    <3>2. CASE i \in DOMAIN history
      <4>1. history'[i] = history[i]
        BY <3>1, <3>2, HistoryGrows
      <4> QED BY <1>1, <1>2, <3>2, <4>1 DEF TextsAreWritten
    <3>3. CASE i \notin DOMAIN history
      <4>1. /\ Len(history) \in Nat /\ DOMAIN history = 1 .. Len(history)
            /\ DOMAIN history' = 1 .. Len(history) + 1
            /\ history'[Len(history) + 1]
                  = [object |-> o, kind |-> kind, prior |-> prior]
        BY <3>1, HistoryGrows
      <4>2. history'[i] = [object |-> o, kind |-> kind, prior |-> prior]
        BY <1>3, <3>3, <4>1
      <4> QED BY <1>2, <3>1, <4>2
    <3> QED BY <3>2, <3>3
  <2> QED BY <2>1, <2>2
<1>4. ASSUME NEW c \in Clients
      PROVE  /\ request'[c].content <= written'[request'[c].object]
             /\ request'[c].op = "restore" => request'[c].content # 0
  <2>1. /\ request[c].object \in Objects /\ request[c].content \in Nat
        /\ request'[c] \in {request[c], NoRequest}
    BY DEF HistoryShape, ClientRequests, OnlyAnswers
  <2>2. CASE request'[c] = request[c]
    BY <1>2, <2>1, <2>2 DEF TextsAreWritten
  <2>3. CASE request'[c] = NoRequest
    BY <1>2, <2>3, HeaderIsObject DEF NoRequest
  <2> QED BY <2>1, <2>2, <2>3
<1>5. regeneration'.prior <= written'[regeneration'.target]
  <2>1. regeneration.target \in Objects /\ regeneration.prior \in Nat
    BY DEF HistoryShape, Objects
  <2>2. CASE regeneration' = regeneration
    BY <1>2, <2>1, <2>2 DEF TextsAreWritten
  <2>3. CASE regeneration' = NoRegeneration
    BY <1>2, <2>3, HeaderIsObject DEF NoRegeneration
  <2> QED BY <2>2, <2>3
<1> QED BY <1>3, <1>4, <1>5 DEF TextsAreWritten

\* The facts about rows and revisions stay when no row and no revision changes.
LEMMA RowsAsTheyWere ==
    ASSUME TextsInv, UNCHANGED <<content, written, history>>
    PROVE  SourcesHaveEvents' /\ LossesAreAccountedFor'
BY DEF TextsInv, SourcesHaveEvents, LossesAreAccountedFor, Forgotten, Losses, Live

-----------------------------------------------------------------------------
(* Counting what is forgotten *)

\* A step writes an object a new text at most, and forgets of it at most the one
\* that it showed: nothing if that is still shown, was none, or is recorded.
LEMMA AtMostTheShownText ==
    ASSUME HistoryShape, NEW o \in Objects,
           NEW kind \in {"autosave", "restore", "regeneration"},
           NEW prior \in Nat, insertRevisionEntry(o, kind, prior),
           NEW p \in Objects,
           \/ written'[p] = written[p]
           \/ written'[p] = written[p] + 1 /\ content'[p] = written[p] + 1
    PROVE  /\ Forgotten(p)' \subseteq Forgotten(p) \cup {content[p]}
           /\ \/ content'[p] = content[p]
              \/ content[p] = 0
              \/ o = p /\ prior = content[p]
              => Forgotten(p)' \subseteq Forgotten(p)
<1>1. PICK last : last = Len(history) + 1
  OBVIOUS
<1>2. /\ DOMAIN history = 1 .. Len(history) /\ Len(history) \in Nat
      /\ DOMAIN history' = 1 .. last
      /\ \A i \in DOMAIN history : history'[i] = history[i]
      /\ history'[last].object = o /\ history'[last].prior = prior
  <2>1. /\ DOMAIN history = 1 .. Len(history) /\ Len(history) \in Nat
        /\ DOMAIN history' = 1 .. last
        /\ \A i \in 1 .. Len(history) : history'[i] = history[i]
        /\ history'[last] = [object |-> o, kind |-> kind, prior |-> prior]
    BY <1>1, HistoryGrows
  <2> QED BY ONLY <2>1
<1>3. /\ \A i \in DOMAIN history : i \in DOMAIN history' /\ history'[i] = history[i]
      /\ last \in DOMAIN history'
  BY <1>1, <1>2
<1>4. ASSUME NEW n \in 1 .. written'[p], n # content'[p], n # content[p],
             \A i \in DOMAIN history' : history'[i].object = p => history'[i].prior # n
      PROVE  n \in Forgotten(p)
  <2>1. written[p] \in Nat
    BY DEF HistoryShape
  <2>2. n \in 1 .. written[p]
    BY <1>4, <2>1
  <2> QED BY <1>3, <1>4, <2>2 DEF Forgotten
<1>5. Forgotten(p)' = {n \in 1 .. written'[p] :
                          /\ n # content'[p]
                          /\ \A i \in DOMAIN history' :
                                history'[i].object = p => history'[i].prior # n}
  BY DEF Forgotten
<1>6. ASSUME \/ content'[p] = content[p]
             \/ content[p] = 0
             \/ o = p /\ prior = content[p]
      PROVE  content[p] \notin Forgotten(p)'
  BY <1>2, <1>3, <1>5, <1>6
<1> QED BY <1>4, <1>5, <1>6

\* The revision of a step that may lose a text counts for it.
LEMMA LossesAreCounted ==
    ASSUME HistoryShape, HistoryShape', LossesAreAccountedFor,
           NEW o \in Objects,
           NEW kind \in {"autosave", "restore", "regeneration"},
           NEW prior \in Nat, insertRevisionEntry(o, kind, prior),
           \A p \in Objects :
              \/ written'[p] = written[p]
              \/ written'[p] = written[p] + 1 /\ content'[p] = written[p] + 1,
           \A p \in Objects :
              \/ content'[p] = content[p]
              \/ content[p] = 0
              \/ o = p /\ prior = content[p]
              \/ MayLose([object |-> o, kind |-> kind, prior |-> prior], p)
    PROVE  LossesAreAccountedFor'
<1> SUFFICES ASSUME NEW p \in Objects
             PROVE  Cardinality(Forgotten(p)') <= Cardinality(Losses(p)')
  BY DEF LossesAreAccountedFor
<1> DEFINE row == [object |-> o, kind |-> kind, prior |-> prior]
<1>1. PICK last : last = Len(history) + 1
  OBVIOUS
<1>2. /\ DOMAIN history = 1 .. Len(history) /\ Len(history) \in Nat
      /\ DOMAIN history' = 1 .. last
      /\ \A i \in DOMAIN history : history'[i] = history[i]
      /\ history'[last] = row
  BY <1>1, HistoryGrows
<1>3. PICK before, after : before = Losses(p) /\ after = Losses(p)'
  OBVIOUS
<1>4. PICK had, has : had = Forgotten(p) /\ has = Forgotten(p)'
  OBVIOUS
<1>5. /\ before \subseteq 1 .. Len(history) /\ after \subseteq 1 .. last
      /\ before \subseteq after /\ last \notin before /\ last \in Nat
      /\ MayLose(row, p) => last \in after
  BY <1>1, <1>2, <1>3 DEF Losses
<1>6. /\ written[p] \in Nat /\ written'[p] \in Nat
      /\ had \subseteq 1 .. written[p] /\ has \subseteq 1 .. written'[p]
  BY <1>4 DEF Forgotten, HistoryShape
<1>7. /\ has \subseteq had \cup {content[p]}
      /\ has \subseteq had \/ MayLose(row, p)
  BY <1>4, AtMostTheShownText
<1>8. Cardinality(had) <= Cardinality(before)
  BY <1>3, <1>4 DEF LossesAreAccountedFor
<1> HIDE DEF row
<1>9. IsFiniteSet(had) /\ IsFiniteSet(has) /\ IsFiniteSet(before) /\ IsFiniteSet(after)
  <2>1. /\ IsFiniteSet(1 .. written[p]) /\ IsFiniteSet(1 .. written'[p])
        /\ IsFiniteSet(1 .. Len(history)) /\ IsFiniteSet(1 .. last)
    <3>1. /\ 1 \in Int /\ last \in Int /\ Len(history) \in Int
          /\ written[p] \in Int /\ written'[p] \in Int
      BY <1>2, <1>5, <1>6
    <3> QED BY ONLY <3>1, FS_Interval
  <2> QED BY ONLY <1>5, <1>6, <2>1, FS_Subset
<1>10. /\ Cardinality(had) \in Nat /\ Cardinality(has) \in Nat
       /\ Cardinality(before) \in Nat /\ Cardinality(after) \in Nat
  BY ONLY <1>9, FS_CardinalityType
<1>11. CASE has \subseteq had
  <2>1. Cardinality(has) <= Cardinality(had) /\ Cardinality(before) <= Cardinality(after)
    BY ONLY <1>5, <1>9, <1>11, FS_Subset
  <2> QED BY <1>3, <1>4, <1>8, <1>10, <2>1
<1>12. CASE ~(has \subseteq had)
  <2>1. before \cup {last} \subseteq after
    BY <1>5, <1>7, <1>12
  <2>2. /\ IsFiniteSet(before \cup {last})
        /\ Cardinality(before \cup {last}) = Cardinality(before) + 1
    BY ONLY <1>5, <1>9, FS_AddElement
  <2>3. /\ IsFiniteSet(had \cup {content[p]})
        /\ Cardinality(had \cup {content[p]}) \in {Cardinality(had), Cardinality(had) + 1}
    BY ONLY <1>9, FS_AddElement
  <2>4. /\ Cardinality(has) <= Cardinality(had \cup {content[p]})
        /\ Cardinality(before \cup {last}) <= Cardinality(after)
    BY ONLY <1>7, <1>9, <2>1, <2>2, <2>3, FS_Subset
  <2>5. Cardinality(has) <= Cardinality(after)
    BY ONLY <1>8, <1>10, <2>2, <2>3, <2>4
  <2> QED BY <1>3, <1>4, <2>5
<1> QED BY <1>11, <1>12

-----------------------------------------------------------------------------
(* The steps keep them *)

LEMMA PatchKeepsTexts ==
    ASSUME TextsInv, HistoryInv', NEW c \in Clients, PatchCommit(c)
    PROVE  TextsInv'
<1> DEFINE o == request[c].object
           prior == request[c].content
<1>1. /\ HistoryShape /\ HistoryShape' /\ TextsAreWritten
      /\ o \in Objects /\ prior \in Nat
  BY DEF TextsInv, HistoryInv, HistoryShape, ClientRequests
<1>2. /\ Answer(c) /\ regeneration' = regeneration
      /\ insertRevisionEntry(o, "autosave", prior) /\ Live(o)
  BY DEF PatchCommit, VersionMatches
<1>3. PICK rows : rows \subseteq {o} /\ Rewrite(rows, {})
  BY DEF PatchCommit, Patched
<1>4. prior = content[o]
  BY DEF PatchCommit, TextsInv, HistoryInv, ReadingsHold
<1> HIDE DEF o, prior
<1>5. \A p \in Objects :
         /\ written[p] \in Nat /\ content[p] \in Nat /\ content[p] <= written[p]
         /\ \/ written'[p] = written[p] /\ content'[p] = content[p]
            \/ p = o /\ written'[p] = written[p] + 1 /\ content'[p] = written[p] + 1
  BY <1>1, <1>3, RowsAreNumbered DEF TextsAreWritten
<1>6. TextsAreWritten'
  <2>1. OnlyAnswers
    BY <1>1, <1>2, AnsweredRequest
  <2>2. \A p \in Objects : written[p] <= written'[p] /\ content'[p] <= written'[p]
    BY <1>5
  <2>3. prior <= written[o]
    BY <1>1, <1>4, <1>5
  <2> QED BY <1>1, <1>2, <2>1, <2>2, <2>3, WrittenStaysWritten
<1>7. SourcesHaveEvents'
  <2>1. \A p \in Objects : content'[p] # 0 <=> content[p] # 0
    BY <1>2, <1>5 DEF Live
  <2>2. \A s \in Sources : s \in Objects /\ EventOf[s] \in Objects
    BY HistoryAssumption DEF Objects
  <2> QED BY <2>1, <2>2 DEF TextsInv, SourcesHaveEvents, Live
<1>8. LossesAreAccountedFor'
  <2>1. LossesAreAccountedFor
    BY DEF TextsInv
  <2> QED BY <1>1, <1>2, <1>4, <1>5, <2>1, LossesAreCounted
<1> QED BY <1>6, <1>7, <1>8 DEF TextsInv

LEMMA RestoreKeepsTexts ==
    ASSUME TextsInv, HistoryInv', NEW c \in Clients, RestoreCommit(c)
    PROVE  TextsInv'
<1> DEFINE o == request[c].object
           text == request[c].content
<1>1. /\ HistoryShape /\ HistoryShape' /\ TextsAreWritten
      /\ o \in Objects /\ text \in Nat
      /\ \A p \in Objects : content[p] \in Nat /\ written[p] \in Nat
  BY DEF TextsInv, HistoryInv, HistoryShape, ClientRequests
<1>2. Answer(c) /\ UNCHANGED <<written, regeneration>> /\ text # 0 /\ text <= written[o]
  BY DEF RestoreCommit, TextsInv, TextsAreWritten
<1>3. OnlyAnswers
  BY <1>1, <1>2, AnsweredRequest
<1>4. CASE Live(o)
  <2>1. /\ content' = [content EXCEPT ![o] = text]
        /\ insertRevisionEntry(o, "restore", 0)
    BY <1>4 DEF RestoreCommit
  <2> HIDE DEF o, text
  <2>2. \A p \in Objects : content'[p] = IF p = o THEN text ELSE content[p]
    BY <1>1, <2>1 DEF HistoryShape
  <2>3. \A p \in Objects : written[p] <= written'[p] /\ content'[p] <= written'[p]
    BY <1>1, <1>2, <2>2 DEF TextsAreWritten
  <2>4. TextsAreWritten'
    <3>1. insertRevisionEntry(o, "restore", 0) /\ 0 <= written[o]
      BY <1>1, <2>1
    <3> QED BY <1>1, <1>2, <1>3, <2>3, <3>1, WrittenStaysWritten
  <2>5. SourcesHaveEvents'
    BY <1>2, <1>4, <2>2, HistoryAssumption
       DEF TextsInv, SourcesHaveEvents, Live, Objects
  <2>6. LossesAreAccountedFor'
    <3>1. \A p \in Objects : p = o => MayLose([object |-> o, kind |-> "restore",
                                             prior |-> 0], p)
      BY DEF MayLose
    <3>2. LossesAreAccountedFor
      BY DEF TextsInv
    <3> QED BY <1>1, <1>2, <2>1, <2>2, <3>1, <3>2, LossesAreCounted
  <2> QED BY <2>4, <2>5, <2>6 DEF TextsInv
<1>5. CASE ~Live(o)
  <2>1. UNCHANGED <<content, history>>
    BY <1>5 DEF RestoreCommit
  <2>2. \A p \in Objects : written[p] <= written'[p] /\ content'[p] <= written'[p]
    BY <1>1, <1>2, <2>1 DEF TextsAreWritten
  <2>3. TextsAreWritten'
    BY <1>1, <1>2, <1>3, <2>1, <2>2, WrittenStaysWritten
  <2> QED BY <1>2, <2>1, <2>3, RowsAsTheyWere DEF TextsInv
<1> QED BY <1>4, <1>5

LEMMA CreateKeepsTexts ==
    ASSUME TextsInv, HistoryInv', NEW c \in Clients, CreateCommit(c)
    PROVE  TextsInv'
<1> DEFINE o == request[c].object
           counted == IF o \in Sources THEN {EventOf[o]} ELSE {}
<1>1. /\ HistoryShape /\ HistoryShape' /\ TextsAreWritten /\ o \in Objects
      /\ \A p \in Objects : content[p] \in Nat /\ written[p] \in Nat
  BY DEF TextsInv, HistoryInv, HistoryShape, ClientRequests
<1>2. Answer(c) /\ UNCHANGED <<history, regeneration>>
  BY DEF CreateCommit
<1>3. OnlyAnswers
  BY <1>1, <1>2, AnsweredRequest
<1>4. CASE o \in Unused(Objects) /\ \A e \in counted : Live(e)
  <2>1. Rewrite({o}, {}) /\ written[o] = 0
    BY <1>4 DEF CreateCommit, Unused
  <2>2. o \in Sources => Live(EventOf[o])
    BY <1>4
  <2> HIDE DEF o, counted
  <2>3. \A p \in Objects :
           /\ p = o => written'[p] = 1 /\ content'[p] = 1
           /\ p # o => written'[p] = written[p] /\ content'[p] = content[p]
    BY <1>1, <2>1, RowsAreNumbered
  <2>4. \A p \in Objects : written[p] <= written'[p] /\ content'[p] <= written'[p]
    BY <1>1, <2>1, <2>3 DEF TextsAreWritten
  <2>5. TextsAreWritten'
    BY <1>1, <1>2, <1>3, <2>4, WrittenStaysWritten
  <2>6. SourcesHaveEvents'
    BY <2>2, <2>3, HistoryAssumption DEF TextsInv, SourcesHaveEvents, Live, Objects
  <2>7. LossesAreAccountedFor'
    <3>1. \A p \in Objects : Forgotten(p)' = Forgotten(p) /\ Losses(p)' = Losses(p)
      <4>1. ASSUME NEW p \in Objects, p # o
            PROVE  Forgotten(p)' = Forgotten(p)
        <5>1. written'[p] = written[p] /\ content'[p] = content[p]
          BY <2>3, <4>1
        <5> QED BY <1>2, <5>1 DEF Forgotten
      <4>2. ASSUME NEW p \in Objects, p = o
            PROVE  Forgotten(p)' = Forgotten(p)
        <5>1. 1 .. written[p] = {}
          BY <2>1, <4>2
        <5>2. content'[p] = 1 /\ written'[p] = 1
          BY <2>3, <4>2
        <5>3. \A n \in 1 .. written'[p] : n = content'[p]
          BY <5>2
        <5>4. Forgotten(p) = {}
          BY <5>1 DEF Forgotten
        <5>5. Forgotten(p)' = {}
          BY <5>3 DEF Forgotten
        <5> QED BY <5>4, <5>5
      <4>3. \A p \in Objects : Losses(p)' = Losses(p)
        BY <1>2 DEF Losses
      <4> QED BY <4>1, <4>2, <4>3
    <3> QED BY <3>1 DEF TextsInv, LossesAreAccountedFor
  <2> QED BY <2>5, <2>6, <2>7 DEF TextsInv
<1>5. CASE ~(o \in Unused(Objects) /\ \A e \in counted : Live(e))
  <2>1. UNCHANGED <<content, written>>
    BY <1>5 DEF CreateCommit
  <2>2. \A p \in Objects : written[p] <= written'[p] /\ content'[p] <= written'[p]
    BY <1>1, <2>1 DEF TextsAreWritten
  <2>3. TextsAreWritten'
    BY <1>1, <1>2, <1>3, <2>2, WrittenStaysWritten
  <2> QED BY <1>2, <2>1, <2>3, RowsAsTheyWere DEF TextsInv
<1> QED BY <1>4, <1>5

\* What the two regenerations do to the texts, and that no event that keeps or
\* gets a source is without a row.
LEMMA RegenerationKeepsTexts ==
    ASSUME TextsInv, HistoryInv',
           NEW rewritten \in SUBSET Objects, NEW removed,
           NEW o \in Objects, NEW prior \in Nat, prior <= written[o],
           Rewrite(rewritten, removed), EndAssembly,
           insertRevisionEntry(o, "regeneration", prior),
           \A s \in Sources :
              \/ s \in rewritten /\ EventOf[s] \in rewritten
              \/ s \notin rewritten /\ s \in removed
              \/ s \notin rewritten /\ ~Live(s)
              \/ /\ s \notin rewritten
                 /\ EventOf[s] \in rewritten \/ EventOf[s] \notin removed,
           \A p \in rewritten \cup removed :
              MayLose([object |-> o, kind |-> "regeneration", prior |-> prior], p)
    PROVE  TextsInv'
<1>1. HistoryShape /\ HistoryShape' /\ TextsAreWritten
  BY DEF TextsInv, HistoryInv
<1>2. OnlyAnswers /\ regeneration' = NoRegeneration
  BY DEF EndAssembly, OnlyAnswers
<1>3. \A p \in Objects :
         /\ written[p] \in Nat /\ content[p] \in Nat /\ content[p] <= written[p]
         /\ p \in rewritten => written'[p] = written[p] + 1 /\ content'[p] = written[p] + 1
         /\ p \notin rewritten => /\ written'[p] = written[p]
                                  /\ p \in removed => content'[p] = 0
                                  /\ p \notin removed => content'[p] = content[p]
  BY <1>1, RowsAreNumbered DEF TextsAreWritten
<1>4. \A p \in Objects : written[p] <= written'[p] /\ content'[p] <= written'[p]
  BY <1>3
<1>5. TextsAreWritten'
  BY <1>1, <1>2, <1>4, WrittenStaysWritten
<1>6. ASSUME NEW s \in Sources, content'[s] # 0
      PROVE  content'[EventOf[s]] # 0
  <2>1. s \in Objects /\ EventOf[s] \in Objects
    BY HistoryAssumption DEF Objects
  <2>2. content[s] # 0 => content[EventOf[s]] # 0
    BY DEF TextsInv, SourcesHaveEvents, Live
  <2>3. CASE EventOf[s] \in rewritten
    BY <1>3, <2>1, <2>3
  <2>4. CASE EventOf[s] \notin rewritten
    <3>1. s \notin rewritten /\ s \notin removed /\ content[s] # 0
      BY <1>3, <1>6, <2>1, <2>4 DEF Live
    <3>2. EventOf[s] \notin removed
      BY <2>4, <3>1 DEF Live
    <3> QED BY <1>3, <2>1, <2>2, <2>4, <3>1, <3>2
  <2> QED BY <2>3, <2>4
<1>7. SourcesHaveEvents'
  BY <1>6 DEF SourcesHaveEvents, Live
<1>8. LossesAreAccountedFor'
  <2>1. insertRevisionEntry(o, "regeneration", prior) /\ LossesAreAccountedFor
    BY DEF TextsInv
  <2> QED BY <1>1, <1>3, <2>1, LossesAreCounted
<1> QED BY <1>5, <1>7, <1>8 DEF TextsInv

LEMMA WorkerKeepsTexts ==
    ASSUME TextsInv, HistoryInv',
           \/ \E new \in SUBSET Sources : RegenerateEvent(new)
           \/ \E new \in SUBSET (Events \cup Sources) : RegenerateAll(new)
    PROVE  TextsInv'
<1>1. ASSUME NEW new \in SUBSET Sources, RegenerateEvent(new)
      PROVE  TextsInv'
  <2> DEFINE e == regeneration.target
             prior == regeneration.prior
             removed == LiveSourcesOf({e})
  <2>1. /\ e \in Events /\ e \in Objects /\ prior \in Nat /\ prior <= written[e]
        /\ Rewrite({e} \cup new, removed) /\ EndAssembly
        /\ insertRevisionEntry(e, "regeneration", prior)
        /\ new \subseteq Sources /\ \A s \in new : EventOf[s] = e
    BY <1>1 DEF RegenerateEvent, Unused, TextsInv, HistoryInv, HistoryShape,
                TextsAreWritten, Objects
  <2>2. /\ removed \subseteq Sources
        /\ \A s \in Sources : s \in removed <=> Live(s) /\ EventOf[s] = e
    BY DEF LiveSourcesOf
  <2> HIDE DEF e, prior, removed
  <2>3. {e} \cup new \in SUBSET Objects
    BY <2>1 DEF Objects
  <2>4. ASSUME NEW s \in Sources
        PROVE  \/ s \in {e} \cup new /\ EventOf[s] \in {e} \cup new
               \/ s \notin {e} \cup new /\ s \in removed
               \/ s \notin {e} \cup new /\ ~Live(s)
               \/ /\ s \notin {e} \cup new
                  /\ EventOf[s] \in {e} \cup new \/ EventOf[s] \notin removed
    <3>1. s # e /\ (EventOf[s] = e \/ EventOf[s] \notin removed)
      BY <2>1, <2>2, HistoryAssumption
    <3> QED BY <2>1, <2>2, <3>1
  <2>5. ASSUME NEW p \in ({e} \cup new) \cup removed
        PROVE  MayLose([object |-> e, kind |-> "regeneration", prior |-> prior], p)
    <3>1. p = e \/ (p \in Sources /\ EventOf[p] = e)
      BY <2>1, <2>2
    <3> QED BY <2>1, <3>1 DEF MayLose
  <2> QED BY <2>1, <2>3, <2>4, <2>5, RegenerationKeepsTexts
<1>2. ASSUME NEW new \in SUBSET (Events \cup Sources), RegenerateAll(new)
      PROVE  TextsInv'
  <2> DEFINE removed == {e \in Events : Live(e)} \cup LiveSourcesOf(Events)
  <2>1. /\ Rewrite(new, removed) /\ EndAssembly
        /\ insertRevisionEntry(Header, "regeneration", 0)
        /\ \A s \in new \cap Sources : EventOf[s] \in new
    BY <1>2 DEF RegenerateAll
  <2>2. /\ removed \subseteq Events \cup Sources
        /\ \A s \in Sources : Live(s) => s \in removed
    BY HistoryAssumption DEF LiveSourcesOf
  <2> HIDE DEF removed
  <2>3. new \in SUBSET Objects
    BY DEF Objects
  <2>4. 0 <= written[Header]
    BY HeaderIsObject DEF TextsInv, HistoryInv, HistoryShape
  <2>5. \A s \in Sources :
           \/ s \in new /\ EventOf[s] \in new
           \/ s \notin new /\ s \in removed
           \/ s \notin new /\ ~Live(s)
           \/ s \notin new /\ (EventOf[s] \in new \/ EventOf[s] \notin removed)
    BY <2>1, <2>2
  <2>6. \A p \in new \cup removed :
           MayLose([object |-> Header, kind |-> "regeneration", prior |-> 0], p)
    BY <2>2 DEF MayLose
  <2> QED BY <2>1, <2>3, <2>4, <2>5, <2>6, HeaderIsObject, RegenerationKeepsTexts
<1> QED BY <1>1, <1>2

LEMMA ReadingsKeepTexts ==
    ASSUME TextsInv, HistoryInv', NEW c \in Clients,
           \/ \E o \in Objects : Load(c, o) \/ CreateRead(c, o)
           \/ PatchRead(c)
           \/ \E i \in DOMAIN history : RestoreRead(c, i)
    PROVE  TextsInv'
<1> DEFINE Own == /\ request'[c].content <= written[request'[c].object]
                  /\ request'[c].op = "restore" => request'[c].content # 0
           Others == \A d \in Clients \ {c} : request'[d] = request[d]
<1>1. /\ HistoryShape /\ TextsAreWritten
      /\ request[c] \in ClientRequests /\ request[c].object \in Objects
      /\ \A o \in Objects : content[o] <= written[o] /\ written[o] \in Nat
  BY DEF TextsInv, HistoryInv, HistoryShape, ClientRequests, TextsAreWritten
<1>2. ASSUME NEW o \in Objects, Load(c, o)
      PROVE  Own /\ Others
  BY <1>1, <1>2 DEF Load, HistoryShape
<1>3. ASSUME NEW o \in Objects, CreateRead(c, o)
      PROVE  Own /\ Others
  <2> DEFINE r == [NoRequest EXCEPT !.op = "create", !.object = o]
  <2>1. request' = [request EXCEPT ![c] = r]
    BY <1>3 DEF CreateRead
  <2>2. r.op = "create" /\ r.object = o /\ r.content = 0
    BY DEF NoRequest
  <2> HIDE DEF r
  <2> QED BY <1>1, <2>1, <2>2 DEF HistoryShape
<1>4. ASSUME PatchRead(c)
      PROVE  Own /\ Others
  <2> DEFINE r == [request[c] EXCEPT !.op = "patch",
                                     !.content = content[request[c].object]]
  <2>1. request' = [request EXCEPT ![c] = r]
    BY <1>4 DEF PatchRead
  <2>2. /\ r.op = "patch" /\ r.object = request[c].object
        /\ r.content = content[request[c].object]
    BY <1>1 DEF ClientRequests
  <2> HIDE DEF r
  <2> QED BY <1>1, <2>1, <2>2 DEF HistoryShape
<1>5. ASSUME NEW i \in DOMAIN history, RestoreRead(c, i)
      PROVE  Own /\ Others
  <2> DEFINE r == [request[c] EXCEPT !.op = "restore", !.content = history[i].prior]
  <2>1. request' = [request EXCEPT ![c] = r]
    BY <1>5 DEF RestoreRead
  <2>2. r.object = request[c].object /\ r.content = history[i].prior
    BY <1>1 DEF ClientRequests
  <2>3. /\ history[i].prior # 0 /\ history[i].object = request[c].object
        /\ history[i].prior <= written[request[c].object]
    BY <1>1, <1>5 DEF RestoreRead, TextsAreWritten
  <2> HIDE DEF r
  <2> QED BY <1>1, <2>1, <2>2, <2>3 DEF HistoryShape
<1>6. UNCHANGED <<content, written, history, regeneration>>
  BY DEF Load, CreateRead, PatchRead, RestoreRead
<1>7. TextsAreWritten'
  BY <1>1, <1>2, <1>3, <1>4, <1>5, <1>6 DEF TextsAreWritten
<1> QED BY <1>6, <1>7, RowsAsTheyWere DEF TextsInv

LEMMA AssemblyKeepsTexts ==
    ASSUME TextsInv, HistoryInv',
           \/ \E target \in {Header} \cup Events : BeginAssembly(target)
           \/ RegenerateRead \/ RegenerateFail
    PROVE  TextsInv'
<1>1. /\ HistoryShape /\ TextsAreWritten
      /\ \A o \in Objects : content[o] <= written[o] /\ written[o] \in Nat
  BY DEF TextsInv, HistoryInv, HistoryShape, TextsAreWritten
<1>2. UNCHANGED <<content, written, history, request>>
  BY DEF BeginAssembly, RegenerateRead, RegenerateFail, EndAssembly
<1>3. regeneration'.prior <= written[regeneration'.target]
  <2>1. ASSUME NEW target \in {Header} \cup Events, BeginAssembly(target)
        PROVE  regeneration' = [phase |-> "accepted", target |-> target, prior |-> 0]
    BY <2>1 DEF BeginAssembly, NoRegeneration
  <2>2. CASE RegenerateRead
    <3>1. regeneration.target \in Objects
      BY <1>1 DEF HistoryShape, Objects
    <3>2. regeneration'.prior = content[regeneration.target]
          /\ regeneration'.target = regeneration.target
      BY <1>1, <2>2 DEF RegenerateRead, HistoryShape
    <3> QED BY <1>1, <3>1, <3>2
  <2>3. CASE RegenerateFail
    BY <1>1, <2>3, HeaderIsObject DEF RegenerateFail, EndAssembly, NoRegeneration
  <2> QED BY <1>1, <2>1, <2>2, <2>3 DEF Objects
<1>4. TextsAreWritten'
  BY <1>1, <1>2, <1>3 DEF TextsAreWritten
<1> QED BY <1>2, <1>4, RowsAsTheyWere DEF TextsInv

LEMMA StepKeepsTexts ==
    ASSUME TextsInv, [HistoryNext]_<<storyVars, historyVars>>
    PROVE  TextsInv'
<1>1. HistoryInv'
  BY StepKeepsInv DEF TextsInv
<1>2. CASE UNCHANGED <<storyVars, historyVars>>
  <2>1. TextsAreWritten'
    BY <1>2 DEF TextsInv, TextsAreWritten, historyVars
  <2> QED BY <1>1, <1>2, <2>1, RowsAsTheyWere DEF TextsInv, historyVars
<1>3. ASSUME NEW c \in Clients,
             \/ \E o \in Objects : Load(c, o) \/ CreateRead(c, o)
             \/ PatchRead(c)
             \/ \E i \in DOMAIN history : RestoreRead(c, i)
      PROVE  TextsInv'
  BY <1>1, <1>3, ReadingsKeepTexts
<1>4. ASSUME NEW c \in Clients, Drop(c) \/ PatchConflict(c)
      PROVE  TextsInv'
  <2>1. Answer(c) /\ UNCHANGED <<content, written, history, regeneration>>
    BY <1>4 DEF Drop, PatchConflict
  <2>2. HistoryShape /\ HistoryShape' /\ TextsAreWritten /\ OnlyAnswers
    BY <1>1, <2>1, AnsweredRequest DEF TextsInv, HistoryInv
  <2>3. \A o \in Objects : written[o] <= written'[o] /\ content'[o] <= written'[o]
    BY <2>1, <2>2 DEF HistoryShape, TextsAreWritten
  <2>4. TextsAreWritten'
    BY <2>1, <2>2, <2>3, WrittenStaysWritten
  <2> QED BY <1>1, <2>1, <2>4, RowsAsTheyWere DEF TextsInv
<1>5. ASSUME NEW c \in Clients, PatchCommit(c) \/ RestoreCommit(c) \/ CreateCommit(c)
      PROVE  TextsInv'
  BY <1>1, <1>5, PatchKeepsTexts, RestoreKeepsTexts, CreateKeepsTexts
<1>6. ASSUME \/ \E target \in {Header} \cup Events : BeginAssembly(target)
             \/ RegenerateRead \/ RegenerateFail
      PROVE  TextsInv'
  BY <1>1, <1>6, AssemblyKeepsTexts
<1>7. ASSUME \/ \E new \in SUBSET Sources : RegenerateEvent(new)
             \/ \E new \in SUBSET (Events \cup Sources) : RegenerateAll(new)
      PROVE  TextsInv'
  BY <1>1, <1>7, WorkerKeepsTexts
<1> QED BY <1>2, <1>3, <1>4, <1>5, <1>6, <1>7 DEF HistoryNext

LEMMA AlwaysTextsInv == HistorySpec => []TextsInv
<1>1. ASSUME HistoryInit PROVE TextsInv
  <2>1. HistoryInv
    BY <1>1, HeaderIsObject DEF HistoryInit, HistoryInv, HistoryShape, ReadingsHold,
                                ClientRequests, NoRequest, NoRegeneration
  <2>2. /\ \A o \in Objects : written[o] = content[o] /\ content[o] \in Nat
        /\ \A o \in Objects \ {Header} : content[o] = 0
        /\ DOMAIN history = {}
        /\ \A c \in Clients : request[c] = NoRequest
        /\ regeneration = NoRegeneration /\ content[Header] = 1
    BY <1>1, HeaderIsObject DEF HistoryInit
  <2>3. TextsAreWritten
    BY <2>2, HeaderIsObject DEF TextsAreWritten, NoRequest, NoRegeneration
  <2>4. SourcesHaveEvents
    BY <2>2, HistoryAssumption DEF SourcesHaveEvents, Live, Objects
  <2>5. LossesAreAccountedFor
    <3>1. \A o \in Objects : Forgotten(o) = {} /\ Losses(o) = {}
      <4> TAKE o \in Objects
      <4>1. \A n \in 1 .. written[o] : n = content[o]
        <5>1. written[o] = content[o] /\ content[o] \in {0, 1}
          BY <2>2
        <5> QED BY <5>1
      <4>2. Forgotten(o) = {}
        BY <4>1 DEF Forgotten
      <4>3. Losses(o) = {}
        BY <2>2 DEF Losses
      <4> QED BY <4>2, <4>3
    <3> QED BY <3>1, FS_EmptySet DEF LossesAreAccountedFor
  <2> QED BY <2>1, <2>3, <2>4, <2>5 DEF TextsInv
<1> QED BY <1>1, StepKeepsTexts, PTL DEF HistorySpec

(***************************************************************************)
(* Only texts that were written are shown, and no source outlives its      *)
(* event: regeneration deletes the sources of the events it deletes, and a *)
(* source that was checked before its event went is not added after.       *)
(***************************************************************************)
THEOREM HistoryTypeCorrect == HistorySpec => []HistoryTypeOK
<1>1. TextsInv => HistoryTypeOK
  BY DEF TextsInv, HistoryInv, TextsAreWritten, SourcesHaveEvents, HistoryTypeOK
<1> QED BY <1>1, AlwaysTextsInv, PTL

(***************************************************************************)
(* For any number of clients, objects and revisions: no more texts of an   *)
(* object are neither shown nor in a snapshot than restores of it and      *)
(* regenerations that wrote or deleted it are on record.  Autosaves forget *)
(* nothing.                                                                *)
(***************************************************************************)
THEOREM LossesAreOnRecord == HistorySpec => []LossesAreAccountedFor
<1>1. TextsInv => LossesAreAccountedFor
  BY DEF TextsInv
<1> QED BY <1>1, AlwaysTextsInv, PTL

=============================================================================
