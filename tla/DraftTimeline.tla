--------------------------- MODULE DraftTimeline ---------------------------
(***************************************************************************)
(* Requests that build a draft's timeline at the same time, and the two    *)
(* resources they share.  One is the rows: a new event (or section) takes  *)
(* the position after the last one it sees, a new source is counted in its *)
(* event, and the worker's regeneration rewrites both.  The other is the   *)
(* API's pool of database connections: a transaction holds one, and the    *)
(* handlers that patch an object read the story on a second one while they *)
(* hold the first.                                                         *)
(*                                                                         *)
(* Transactions are READ COMMITTED: a row is seen once its transaction has *)
(* committed, an UPDATE waits for the row's uncommitted writer, and a new  *)
(* source_record holds a share lock on its event that a DELETE waits for.  *)
(***************************************************************************)
EXTENDS Naturals, FiniteSets, FiniteSetsExt

CONSTANTS
    Creates,        \* requests POST events, or POST sections
    Adds,           \* requests POST events/:id/sources
    Patches,        \* requests PATCH of a section or an event
    SourcePatches,  \* requests PATCH of a source
    PoolSize,       \* connections of the API's Prisma pool
    Researched,     \* events of the research chronology
    MaxAssemblies   \* bound: assembly jobs

ASSUME PoolSizeAssumption == PoolSize \in Nat \ {0}

ASSUME ResearchedAssumption == Researched \in Nat

\* Of the requests that are made, those that overlap are finitely many.
ASSUME RequestsAssumption ==
    /\ IsFiniteSet(Creates) /\ IsFiniteSet(Adds)
    /\ IsFiniteSet(Patches) /\ IsFiniteSet(SourcePatches)

VARIABLES
    rows,           \* event_draft: the committed rows, by id
    lastId,         \* the last id given to a row
    requests,       \* what each request is doing
    assembly,       \* what the worker's assembly transaction has done so far
    assemblies      \* number of assemblies so far

timelineVars == <<rows, lastId, requests, assembly, assemblies>>

Patching == Patches \cup SourcePatches

Requests == Creates \cup Adds \cup Patching

\* seen: the rows committed when the position was chosen (history variable).
Rows == [position : Nat, seen : SUBSET (1 .. lastId), sources : Nat, sourceCount : Nat]

NoAssembly == [phase |-> "none", event |-> 0, deleting |-> {}]

\* A request has not been made, is outside its transaction, holds the
\* transaction's connection, or has been answered.
Outside == {"called", "checked"}
InTransaction == {"begun", "numbered", "inserted", "context"}
Answered == {"done", "failed"}

Fresh == [phase |-> "none", event |-> 0, position |-> 0, seen |-> {}, reads |-> 0]

Holding == {r \in Requests : requests[r].phase \in InTransaction}

TimelineTypeOK ==
    /\ lastId \in Nat
    /\ DOMAIN rows \subseteq 1 .. lastId
    /\ \A i \in DOMAIN rows : rows[i] \in Rows
    /\ \A r \in Requests :
          requests[r].phase \in {"none"} \cup Outside \cup InTransaction \cup Answered
    /\ Cardinality(Holding) <= PoolSize
    /\ assembly.phase \in {"none", "waiting", "updated", "deleted"}

\* A transaction of the API holds one connection of the pool.
Free == Cardinality(Holding) < PoolSize

\* Mutant: the creation handlers, too, read the story inside the transaction.
NeedsConnectionAlways(r) ==
    \/ requests[r].phase \in Outside
    \/ requests[r].phase = "begun" /\ r \in Patching \cup Creates

\* The next thing a request does takes a connection: it is outside of its
\* transaction, or it reads its context on the pool and not on the transaction.
NeedsConnection(r) ==
    \/ requests[r].phase \in Outside
    \/ requests[r].phase = "begun" /\ r \in Patching

\* The worker has written the event, or deleted it, and not yet committed.
LockedByWorker(i) ==
    \/ assembly.phase = "updated" /\ i = assembly.event
    \/ assembly.phase = "deleted" /\ i \in assembly.deleting

TimelineInit ==
    /\ rows = [i \in {1} |-> [position |-> 0, seen |-> {}, sources |-> 1, sourceCount |-> 1]]
    /\ lastId = 1
    /\ requests = [r \in Requests |-> Fresh]
    /\ assembly = NoAssembly
    /\ assemblies = 0

Goes(r, phase) ==
    /\ requests' = [requests EXCEPT ![r].phase = phase]
    /\ UNCHANGED <<rows, lastId, assembly, assemblies>>

\* The edit states exclude assembling_draft.
Editable == assembly.phase = "none"

-----------------------------------------------------------------------------
(* Calls, and the checks that the creation handlers make first *)

Call(r) ==
    /\ requests[r].phase = "none"
    /\ Goes(r, IF r \in Patching THEN "checked" ELSE "called")

\* getStoryDraftContext and, for a source, assertEventInDraft.
Check(r) ==
    /\ requests[r].phase = "called"
    /\ Free
    /\ Editable
    /\ \E i \in IF r \in Adds THEN DOMAIN rows ELSE {0} :
          requests' = [requests EXCEPT ![r].phase = "checked", ![r].event = i]
    /\ UNCHANGED <<rows, lastId, assembly, assemblies>>

CheckFails(r) ==
    /\ requests[r].phase = "called"
    /\ Free
    /\ ~Editable
    /\ Goes(r, "failed")

\* Mutant: a transaction does not wait for a connection.
BeginUnpooled(r) ==
    /\ requests[r].phase = "checked"
    /\ Goes(r, "begun")

Begin(r) ==
    /\ requests[r].phase = "checked"
    /\ Free
    /\ Goes(r, "begun")

-----------------------------------------------------------------------------
(* createEvent, createSection *)

\* Mutant: the new position is the last one.
LastPosition == Max({rows[i].position : i \in DOMAIN rows} \cup {0})

\* The aggregate _max of the rows that can be seen, and one more.
NextPosition == Max({rows[i].position + 1 : i \in DOMAIN rows} \cup {0})

ReadMax(r) ==
    /\ r \in Creates
    /\ requests[r].phase = "begun"
    /\ NeedsConnection(r) => Free
    /\ requests' = [requests EXCEPT ![r].phase = "numbered", ![r].position = NextPosition,
                                    ![r].seen = DOMAIN rows]
    /\ UNCHANGED <<rows, lastId, assembly, assemblies>>

InsertEvent(r) ==
    /\ requests[r].phase = "numbered"
    /\ lastId' = lastId + 1
    /\ rows' = [i \in DOMAIN rows \cup {lastId'} |->
                   IF i # lastId' THEN rows[i]
                   ELSE [position |-> requests[r].position, seen |-> requests[r].seen,
                         sources |-> 0, sourceCount |-> 0]]
    /\ requests' = [requests EXCEPT ![r].phase = "done"]
    /\ UNCHANGED <<assembly, assemblies>>

-----------------------------------------------------------------------------
(* createSource *)

\* The row's foreign key takes a share lock on the event, if it is there.
InsertSource(r) ==
    /\ r \in Adds
    /\ requests[r].phase = "begun"
    /\ ~(assembly.phase = "deleted" /\ LockedByWorker(requests[r].event))
    /\ Goes(r, IF requests[r].event \in DOMAIN rows THEN "inserted" ELSE "failed")

\* The event's source_count is incremented, and both are committed.
CountSource(r) ==
    LET i == requests[r].event
    IN  /\ requests[r].phase = "inserted"
        /\ ~LockedByWorker(i)
        /\ rows' = [rows EXCEPT ![i].sources = @ + 1, ![i].sourceCount = @ + 1]
        /\ requests' = [requests EXCEPT ![r].phase = "done"]
        /\ UNCHANGED <<lastId, assembly, assemblies>>

-----------------------------------------------------------------------------
(* patchSection, patchEvent, patchSource *)

\* Each read of the context or the event takes a second connection.
ReadContext(r) ==
    /\ r \in Patching
    /\ requests[r].phase = "begun"
    /\ Free
    /\ Editable
    /\ requests' = [requests EXCEPT
                       ![r].reads = @ + 1,
                       ![r].phase = IF r \in SourcePatches /\ requests[r].reads = 0
                                    THEN "begun" ELSE "context"]
    /\ UNCHANGED <<rows, lastId, assembly, assemblies>>

ContextFails(r) ==
    /\ r \in Patching
    /\ requests[r].phase = "begun"
    /\ Free
    /\ ~Editable
    /\ Goes(r, "failed")

\* The object is written, or is a conflict; DraftHistory.tla says what becomes
\* of it.
CommitPatch(r) ==
    /\ requests[r].phase = "context"
    /\ Goes(r, "done")

-----------------------------------------------------------------------------
(* Timeouts *)

\* A request that waits for a connection, or for a row the worker has written.
Waiting(r) ==
    \/ NeedsConnection(r) /\ ~Free
    \/ /\ r \in Adds /\ requests[r].phase \in {"begun", "inserted"}
       /\ LockedByWorker(requests[r].event)

\* Mutant: transactions and waits for the pool have no time limit.
NoTimeOut(r) == FALSE /\ Goes(r, "failed")

\* Prisma gives up: the wait for the pool, or the transaction, which is rolled
\* back and gives its connection back, takes too long.
TimeOut(r) ==
    /\ Waiting(r)
    /\ Goes(r, "failed")

-----------------------------------------------------------------------------
(* The worker's assembly transaction, on the worker's own pool *)

AssemblyAccepted ==
    /\ Editable
    /\ assemblies < MaxAssemblies
    /\ assemblies' = assemblies + 1
    /\ assembly' = [assembly EXCEPT !.phase = "waiting"]
    /\ UNCHANGED <<rows, lastId, requests>>

\* Scoped: the event at a researched position is updated first, ...
UpdateEvent(i) ==
    /\ assembly.phase = "waiting"
    /\ rows[i].position < Researched
    /\ assembly' = [assembly EXCEPT !.phase = "updated", !.event = i]
    /\ UNCHANGED <<rows, lastId, requests, assemblies>>

\* Mutant: the count is left as it was.
RecreateSourcesUncounted ==
    /\ assembly.phase = "updated"
    /\ rows' = [rows EXCEPT ![assembly.event].sources = 2]
    /\ assembly' = NoAssembly
    /\ UNCHANGED <<lastId, requests, assemblies>>

\* ... then its sources are deleted, made again from the links and counted.
RecreateSources ==
    /\ assembly.phase = "updated"
    /\ rows' = [rows EXCEPT ![assembly.event].sources = 2, ![assembly.event].sourceCount = 2]
    /\ assembly' = NoAssembly
    /\ UNCHANGED <<lastId, requests, assemblies>>

\* Full: every event that can be seen is deleted, once no source is being
\* added to it, ...
DeleteEvents ==
    /\ assembly.phase = "waiting"
    /\ \A r \in Adds : requests[r].phase # "inserted"
    /\ assembly' = [assembly EXCEPT !.phase = "deleted", !.deleting = DOMAIN rows]
    /\ UNCHANGED <<rows, lastId, requests, assemblies>>

\* ... and the chronology takes the first positions.
RecreateEvents ==
    /\ assembly.phase = "deleted"
    /\ lastId' = lastId + Researched
    /\ rows' = [i \in (DOMAIN rows \ assembly.deleting) \cup (lastId + 1 .. lastId') |->
                   IF i <= lastId THEN rows[i]
                   ELSE [position |-> i - lastId - 1, seen |-> {},
                         sources |-> 2, sourceCount |-> 2]]
    /\ assembly' = NoAssembly
    /\ UNCHANGED <<requests, assemblies>>

\* The job fails, and its transaction leaves nothing.
AssemblyFails ==
    /\ assembly.phase = "waiting"
    /\ assembly' = NoAssembly
    /\ UNCHANGED <<rows, lastId, requests, assemblies>>

-----------------------------------------------------------------------------

Progress(r) ==
    \/ Check(r) \/ CheckFails(r) \/ Begin(r)
    \/ ReadMax(r) \/ InsertEvent(r)
    \/ InsertSource(r) \/ CountSource(r)
    \/ ReadContext(r) \/ ContextFails(r) \/ CommitPatch(r)

Assemble ==
    \/ \E i \in DOMAIN rows : UpdateEvent(i)
    \/ RecreateSources \/ DeleteEvents \/ RecreateEvents \/ AssemblyFails

TimelineNext ==
    \/ \E r \in Requests : Call(r) \/ Progress(r) \/ TimeOut(r)
    \/ AssemblyAccepted
    \/ Assemble

\* The database and the pool serve every request and the worker, or give up.
TimelineFairness ==
    /\ \A r \in Requests : WF_timelineVars(Progress(r)) /\ WF_timelineVars(TimeOut(r))
    /\ WF_timelineVars(Assemble)

TimelineSpec == TimelineInit /\ [][TimelineNext]_timelineVars /\ TimelineFairness

-----------------------------------------------------------------------------
(* Properties *)

(***************************************************************************)
(* Two events stand at one position only if they were created at the same  *)
(* time, neither having seen the other, and so in neither's past: a        *)
(* creator who waits for each answer gets events in the order of their     *)
(* creation, also beside a regeneration.                                   *)
(***************************************************************************)
SamePositionMeansSameTime ==
    \A i, j \in DOMAIN rows :
        i # j /\ rows[i].position = rows[j].position =>
            i \notin rows[j].seen /\ j \notin rows[i].seen

(***************************************************************************)
(* An event's source_count is the number of its sources, however additions *)
(* and a regeneration that deletes and recreates them interleave.          *)
(***************************************************************************)
SourcesAreCounted == \A i \in DOMAIN rows : rows[i].sourceCount = rows[i].sources

(***************************************************************************)
(* Where every connection is held by a transaction that waits for another  *)
(* one, all of them are PATCH requests, as many as the pool has            *)
(* connections: fewer never block each other or anyone else.               *)
(***************************************************************************)
ExhaustionTakesPatches ==
    ~Free /\ (\A r \in Holding : NeedsConnection(r)) =>
        Cardinality(Holding \cap Patching) = PoolSize

(***************************************************************************)
(* Every request is answered, also where the pool is exhausted by requests *)
(* that wait for each other's connections.                                 *)
(***************************************************************************)
RequestsAnswered ==
    \A r \in Requests : (requests[r].phase # "none") ~> (requests[r].phase \in Answered)

=============================================================================
