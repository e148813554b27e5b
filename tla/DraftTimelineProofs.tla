------------------------- MODULE DraftTimelineProofs -------------------------
(***************************************************************************)
(* Proofs about requests that build a timeline at the same time.  The      *)
(* order of the positions rests on what a request has seen: a request that *)
(* has read the last position carries a position beyond every row that it  *)
(* has seen, and keeps it while others insert, rewrite and delete rows.    *)
(***************************************************************************)
EXTENDS DraftTimeline, FiniteSetTheorems, WellFoundedInduction, TLAPS

RequestStates ==
    [phase : {"none"} \cup Outside \cup InTransaction \cup Answered,
     event : Nat, position : Nat, seen : SUBSET (1 .. lastId), reads : Nat]

TimelineShape ==
    /\ lastId \in Nat
    /\ DOMAIN rows \subseteq 1 .. lastId
    /\ \A i \in DOMAIN rows : rows[i] \in Rows
    /\ requests \in [Requests -> RequestStates]
    /\ assembly \in [phase : {"none", "waiting", "updated", "deleted"}, event : Nat,
                     deleting : SUBSET (1 .. lastId)]

\* A position is beyond those of the rows that were seen and are still there.
Beyond(seen, position) == \A i \in seen \cap DOMAIN rows : rows[i].position < position

\* Every row stands beyond the rows that its creator has seen, and so will the
\* row of a request that has chosen a position.
PositionsGrow ==
    /\ \A j \in DOMAIN rows : Beyond(rows[j].seen, rows[j].position)
    /\ \A r \in Requests :
          requests[r].phase = "numbered" => Beyond(requests[r].seen, requests[r].position)

PoolIsKept == Cardinality(Holding) <= PoolSize

TimelineInv == TimelineShape /\ PoolIsKept /\ PositionsGrow /\ SourcesAreCounted

-----------------------------------------------------------------------------
(* The last position *)

LEMMA FiniteSetHasMax ==
    ASSUME NEW S, S \subseteq Nat, IsFiniteSet(S), S # {}
    PROVE  Max(S) \in S /\ \A y \in S : y <= Max(S)
<1> DEFINE HasMax(U) == \E m \in U : \A y \in U : y <= m
           Without == {U \in FiniteSubsetsOf(S) : U # {} /\ ~HasMax(U)}
<1>1. Without = {}
    <2> SUFFICES ASSUME Without # {} PROVE FALSE
        OBVIOUS
    <2>1. PICK U \in Without : \A V \in Without : <<V, U>> \notin StrictSubsetOrdering(S)
        <3>1. Without \subseteq FiniteSubsetsOf(S)
            OBVIOUS
        <3> HIDE DEF Without
        <3> QED BY <3>1, FS_StrictSubsetOrderingWellFounded, WFMin
    <2>2. U \in SUBSET S /\ IsFiniteSet(U) /\ U # {} /\ ~HasMax(U)
        BY DEF FiniteSubsetsOf
    <2>3. PICK x \in U : TRUE
        BY <2>2
    <2> DEFINE V == U \ {x}
    <2>4. V \in FiniteSubsetsOf(S)
        BY <2>2, FS_RemoveElement DEF FiniteSubsetsOf
    <2>5. <<V, U>> \in StrictSubsetOrdering(S)
        BY <2>2, <2>3 DEF StrictSubsetOrdering
    <2>6. V = {} \/ HasMax(V)
        BY <2>1, <2>4, <2>5
    <2>7. HasMax(U)
        <3>1. CASE V = {}
            <4>1. \A y \in U : y = x
                BY <3>1
            <4> QED BY <4>1, <2>2, <2>3
        <3>2. CASE HasMax(V)
            <4>1. PICK m \in V : \A y \in V : y <= m
                BY <3>2
            <4>2. x \in Nat /\ m \in Nat /\ U \subseteq Nat
                BY <4>1, <2>2, <2>3
            <4>3. \A y \in U : y = x \/ y <= m
                BY <4>1
            <4>4. CASE x <= m
                BY <4>1, <4>3, <4>4
            <4>5. CASE m <= x
                <5>1. \A y \in U : y <= x
                    BY <4>2, <4>3, <4>5
                <5> QED BY <5>1, <2>3
            <4> QED BY <4>2, <4>4, <4>5
        <3> QED BY <2>6, <3>1, <3>2
    <2> QED BY <2>2, <2>7
<1>2. S \in FiniteSubsetsOf(S)
    BY DEF FiniteSubsetsOf
<1>3. PICK m \in S : \A y \in S : y <= m
    BY <1>1, <1>2
<1>4. m \in S /\ \A y \in S : m >= y
    BY <1>3
<1>5. Max(S) \in S /\ \A y \in S : Max(S) >= y
    BY <1>4 DEF Max
<1> QED BY <1>5

LEMMA RowsAreFinite ==
    ASSUME TimelineShape
    PROVE  IsFiniteSet(DOMAIN rows)
<1>1. lastId \in Int /\ DOMAIN rows \in SUBSET (1 .. lastId)
    BY DEF TimelineShape
<1>2. IsFiniteSet(1 .. lastId)
    BY <1>1, FS_Interval
<1> QED BY ONLY <1>1, <1>2, FS_Subset

LEMMA NextPositionIsBeyond ==
    ASSUME TimelineShape
    PROVE  NextPosition \in Nat /\ Beyond(DOMAIN rows, NextPosition)
<1> DEFINE After(i) == rows[i].position + 1
           Nexts == {After(i) : i \in DOMAIN rows}
<1>1. Nexts \subseteq Nat
    BY DEF TimelineShape, Rows
<1>2. IsFiniteSet(Nexts \cup {0})
    <2>1. IsFiniteSet(DOMAIN rows)
        BY RowsAreFinite
    <2> DEFINE f == [i \in DOMAIN rows |-> After(i)]
    <2>2. f \in Surjection(DOMAIN rows, Nexts)
        BY DEF Surjection
    <2>3. IsFiniteSet(Nexts)
        <3> HIDE DEF f, Nexts
        <3> QED BY <2>1, <2>2, FS_Surjection
    <2> HIDE DEF Nexts
    <2> QED BY <2>3, FS_AddElement
<1>3. NextPosition = Max(Nexts \cup {0})
    BY DEF NextPosition
<1>4. /\ NextPosition \in Nexts \cup {0}
      /\ \A y \in Nexts : y <= NextPosition
    <2> DEFINE All == Nexts \cup {0}
    <2>1. All \subseteq Nat /\ IsFiniteSet(All) /\ All # {}
        BY <1>1, <1>2
    <2>2. NextPosition \in All /\ \A y \in All : y <= NextPosition
        <3>1. NextPosition = Max(All)
            BY <1>3
        <3> HIDE DEF All
        <3> QED BY <2>1, <3>1, FiniteSetHasMax
    <2> QED BY <2>2
<1>5. NextPosition \in Nat
    BY <1>1, <1>4
<1>6. ASSUME NEW i \in DOMAIN rows
      PROVE  rows[i].position < NextPosition
    <2>1. rows[i].position \in Nat
        BY DEF TimelineShape, Rows
    <2>2. rows[i].position + 1 <= NextPosition
        BY <1>4
    <2> QED BY <2>1, <2>2, <1>5
<1> QED BY <1>5, <1>6 DEF Beyond

-----------------------------------------------------------------------------
(* The requests *)

LEMMA HoldingIsFinite == IsFiniteSet(Requests) /\ IsFiniteSet(Holding)
<1>1. IsFiniteSet(Patching)
    BY RequestsAssumption, FS_Union DEF Patching
<1>2. IsFiniteSet(Adds \cup Patching)
    BY <1>1, RequestsAssumption, FS_Union
<1>3. IsFiniteSet(Creates \cup (Adds \cup Patching))
    BY <1>2, RequestsAssumption, FS_Union
<1>4. Requests = Creates \cup (Adds \cup Patching)
    BY DEF Requests
<1>5. IsFiniteSet(Requests)
    BY <1>3, <1>4
<1>6. Holding \in SUBSET Requests
    BY DEF Holding
<1> QED BY <1>5, <1>6, FS_Subset

\* A request that takes a connection takes a free one, or the one it has.
LEMMA OneConnectionAtMost ==
    ASSUME PoolIsKept, NEW r \in Requests, Holding' \subseteq Holding \cup {r},
           r \in Holding' => Free \/ r \in Holding
    PROVE  PoolIsKept'
<1>1. /\ IsFiniteSet(Holding) /\ Cardinality(Holding) \in Nat
      /\ IsFiniteSet(Holding \cup {r})
      /\ Cardinality(Holding \cup {r}) =
            IF r \in Holding THEN Cardinality(Holding) ELSE Cardinality(Holding) + 1
    BY HoldingIsFinite, FS_CardinalityType, FS_AddElement
<1>2. CASE Holding' \subseteq Holding
    <2>1. Cardinality(Holding') <= Cardinality(Holding) /\ Cardinality(Holding') \in Nat
        BY <1>1, <1>2, FS_Subset, FS_CardinalityType
    <2> QED BY <2>1, <1>1, PoolSizeAssumption DEF PoolIsKept
<1>3. CASE ~(Holding' \subseteq Holding)
    <2>1. r \in Holding' /\ r \notin Holding /\ Free
        BY <1>3
    <2>2. /\ Cardinality(Holding') <= Cardinality(Holding \cup {r})
          /\ Cardinality(Holding') \in Nat
        BY <1>1, FS_Subset, FS_CardinalityType
    <2>3. Cardinality(Holding \cup {r}) <= PoolSize
        BY <1>1, <2>1, PoolSizeAssumption DEF Free
    <2> QED BY <2>2, <2>3, <1>1, PoolSizeAssumption DEF PoolIsKept
<1> QED BY <1>2, <1>3

\* What holds of every step in which one request moves and no row changes.
LEMMA RequestMoves ==
    ASSUME TimelineInv, NEW r \in Requests, NEW s \in RequestStates,
           requests' = [requests EXCEPT ![r] = s],
           s.phase = "numbered" => Beyond(s.seen, s.position),
           s.phase \in InTransaction => Free \/ r \in Holding,
           UNCHANGED <<rows, lastId, assembly>>
    PROVE  TimelineInv'
<1>1. requests \in [Requests -> RequestStates] /\ requests' \in [Requests -> RequestStates]
    BY DEF TimelineInv, TimelineShape
<1>2. requests'[r] = s /\ \A q \in Requests : q # r => requests'[q] = requests[q]
    BY <1>1
<1>3. TimelineShape'
    BY <1>1 DEF TimelineInv, TimelineShape, Rows, RequestStates
<1>4. PoolIsKept'
    <2>1. Holding' \subseteq Holding \cup {r}
        BY <1>2 DEF Holding
    <2>2. r \in Holding' => s.phase \in InTransaction
        BY <1>2 DEF Holding
    <2> QED BY <2>1, <2>2, OneConnectionAtMost DEF TimelineInv
<1>5. PositionsGrow'
    <2>1. \A seen, position : Beyond(seen, position)' <=> Beyond(seen, position)
        BY DEF Beyond
    <2>2. \A q \in Requests :
             requests'[q].phase = "numbered" => Beyond(requests'[q].seen, requests'[q].position)
        BY <1>2 DEF TimelineInv, PositionsGrow
    <2> QED BY <2>2 DEF TimelineInv, PositionsGrow, Beyond
<1>6. SourcesAreCounted'
    BY DEF TimelineInv, SourcesAreCounted
<1> QED BY <1>3, <1>4, <1>5, <1>6 DEF TimelineInv

LEMMA RequestGoes ==
    ASSUME TimelineInv, NEW r \in Requests, NEW phase, Goes(r, phase),
           phase \in (Outside \cup InTransaction \cup Answered) \ {"numbered"},
           phase \in InTransaction => Free \/ requests[r].phase \in InTransaction
    PROVE  TimelineInv'
<1> DEFINE s == [requests[r] EXCEPT !.phase = phase]
<1>1. requests[r] \in RequestStates /\ requests \in [Requests -> RequestStates]
    BY DEF TimelineInv, TimelineShape
<1>2. s \in RequestStates /\ s.phase = phase
    BY <1>1 DEF RequestStates
<1>3. requests' = [requests EXCEPT ![r] = s] /\ UNCHANGED <<rows, lastId, assembly>>
    BY DEF Goes
<1>4. phase \in InTransaction => Free \/ r \in Holding
    BY DEF Holding
<1> HIDE DEF s
<1> QED BY <1>2, <1>3, <1>4, RequestMoves

LEMMA CheckKeepsInv ==
    ASSUME TimelineInv, NEW r \in Requests, Check(r)
    PROVE  TimelineInv'
<1>1. requests[r] \in RequestStates /\ DOMAIN rows \subseteq Nat
    BY DEF TimelineInv, TimelineShape
<1>2. PICK i \in Nat :
         requests' = [requests EXCEPT ![r].phase = "checked", ![r].event = i]
    BY <1>1 DEF Check
<1> DEFINE s == [requests[r] EXCEPT !.phase = "checked", !.event = i]
<1>3. s \in RequestStates /\ s.phase = "checked"
    BY <1>1 DEF RequestStates, Outside
<1>4. requests' = [requests EXCEPT ![r] = s] /\ UNCHANGED <<rows, lastId, assembly>>
    BY <1>1, <1>2 DEF Check, TimelineInv, TimelineShape
<1>5. s.phase # "numbered" /\ s.phase \notin InTransaction
    BY <1>3 DEF InTransaction
<1> HIDE DEF s
<1> QED BY <1>3, <1>4, <1>5, RequestMoves

LEMMA ReadMaxKeepsInv ==
    ASSUME TimelineInv, NEW r \in Requests, ReadMax(r)
    PROVE  TimelineInv'
<1>1. /\ requests[r] \in RequestStates
      /\ DOMAIN rows \in SUBSET (1 .. lastId)
      /\ NextPosition \in Nat
      /\ Beyond(DOMAIN rows, NextPosition)
    BY NextPositionIsBeyond DEF TimelineInv, TimelineShape
<1> DEFINE s == [requests[r] EXCEPT !.phase = "numbered", !.position = NextPosition,
                                    !.seen = DOMAIN rows]
<1>2. /\ s \in RequestStates /\ s.seen = DOMAIN rows /\ s.position = NextPosition
    BY <1>1 DEF RequestStates, InTransaction
<1>3. requests' = [requests EXCEPT ![r] = s] /\ UNCHANGED <<rows, lastId, assembly>>
    BY <1>1 DEF ReadMax, TimelineInv, TimelineShape
<1>4. r \in Holding
    BY DEF ReadMax, Holding, InTransaction
<1> HIDE DEF s
<1> QED BY <1>1, <1>2, <1>3, <1>4, RequestMoves

LEMMA ReadContextKeepsInv ==
    ASSUME TimelineInv, NEW r \in Requests, ReadContext(r)
    PROVE  TimelineInv'
<1>1. requests[r] \in RequestStates
    BY DEF TimelineInv, TimelineShape
<1> DEFINE phase == IF r \in SourcePatches /\ requests[r].reads = 0
                    THEN "begun" ELSE "context"
           s == [requests[r] EXCEPT !.reads = @ + 1, !.phase = phase]
<1>2. s \in RequestStates /\ s.phase # "numbered"
    <2>1. phase \in {"begun", "context"}
        OBVIOUS
    <2> HIDE DEF phase
    <2>2. s = [requests[r] EXCEPT !.reads = requests[r].reads + 1, !.phase = phase]
        BY <1>1 DEF RequestStates
    <2>3. requests[r].reads + 1 \in Nat /\ phase \in InTransaction
        BY <1>1, <2>1 DEF RequestStates, InTransaction
    <2>4. s \in RequestStates /\ s.phase = phase
        BY <1>1, <2>2, <2>3 DEF RequestStates
    <2> QED BY <2>1, <2>4
<1>3. requests' = [requests EXCEPT ![r] = s] /\ UNCHANGED <<rows, lastId, assembly>>
    BY <1>1 DEF ReadContext, TimelineInv, TimelineShape
<1>4. r \in Holding
    BY DEF ReadContext, Holding, InTransaction
<1> HIDE DEF s
<1> QED BY <1>2, <1>3, <1>4, RequestMoves

LEMMA ProgressOutsideRows ==
    ASSUME TimelineInv, NEW r \in Requests,
           \/ Call(r) \/ CheckFails(r) \/ Begin(r) \/ InsertSource(r)
           \/ ContextFails(r) \/ CommitPatch(r) \/ TimeOut(r)
    PROVE  TimelineInv'
<1>1. CASE Call(r)
    <2>1. PICK phase \in Outside : Goes(r, phase)
        BY <1>1 DEF Call, Outside
    <2> QED BY <2>1, RequestGoes DEF Outside, InTransaction
<1>2. CASE CheckFails(r) \/ ContextFails(r) \/ TimeOut(r)
    <2>1. Goes(r, "failed")
        BY <1>2 DEF CheckFails, ContextFails, TimeOut
    <2> QED BY <2>1, RequestGoes DEF Answered, InTransaction
<1>3. CASE Begin(r)
    BY <1>3, RequestGoes DEF Begin, InTransaction
<1>4. CASE InsertSource(r)
    <2>1. requests[r].phase \in InTransaction
        BY <1>4 DEF InsertSource, InTransaction
    <2>2. PICK phase \in {"inserted", "failed"} : Goes(r, phase)
        BY <1>4 DEF InsertSource
    <2> QED BY <2>1, <2>2, RequestGoes DEF Answered, InTransaction
<1>5. CASE CommitPatch(r)
    BY <1>5, RequestGoes DEF CommitPatch, Answered, InTransaction
<1> QED BY <1>1, <1>2, <1>3, <1>4, <1>5

-----------------------------------------------------------------------------
(* The rows *)

\* A row or a request that lets go of a connection leaves the others theirs.
LEMMA NoConnectionMore ==
    ASSUME PoolIsKept, Holding' \subseteq Holding
    PROVE  PoolIsKept'
<1>1. IsFiniteSet(Holding) /\ Holding' \in SUBSET Holding
    BY HoldingIsFinite
<1>2. Cardinality(Holding') <= Cardinality(Holding) /\ IsFiniteSet(Holding')
    BY ONLY <1>1, FS_Subset
<1>3. Cardinality(Holding') \in Nat /\ Cardinality(Holding) \in Nat
    BY ONLY <1>1, <1>2, FS_CardinalityType
<1> QED BY <1>2, <1>3, PoolSizeAssumption DEF PoolIsKept

\* A step that leaves the surviving rows' positions and pasts alone, and gives
\* the new ones ids that nobody has seen, keeps the order: the new rows must
\* stand beyond their own past.
LEMMA RowsKeepTheirOrder ==
    ASSUME TimelineShape, PositionsGrow, lastId' \in Nat, lastId <= lastId',
           \A i \in DOMAIN rows' :
              \/ /\ i \in DOMAIN rows
                 /\ rows'[i].position = rows[i].position
                 /\ rows'[i].seen = rows[i].seen
              \/ /\ i \in lastId + 1 .. lastId'
                 /\ rows'[i].seen \subseteq 1 .. lastId
                 /\ Beyond(rows'[i].seen, rows'[i].position),
           \A r \in Requests :
              requests'[r].phase = "numbered" => requests'[r] = requests[r]
    PROVE  PositionsGrow'
<1>1. lastId \in Nat /\ DOMAIN rows \subseteq 1 .. lastId
    BY DEF TimelineShape
<1>2. ASSUME NEW seen \in SUBSET (1 .. lastId), NEW position \in Nat, Beyond(seen, position)
      PROVE  \A i \in seen \cap DOMAIN rows' : rows'[i].position < position
    BY <1>1, <1>2 DEF Beyond
<1>3. ASSUME NEW j \in DOMAIN rows'
      PROVE  \A i \in rows'[j].seen \cap DOMAIN rows' : rows'[i].position < rows'[j].position
    <2>1. CASE /\ j \in DOMAIN rows
               /\ rows'[j].position = rows[j].position
               /\ rows'[j].seen = rows[j].seen
        <3>1. rows[j].seen \in SUBSET (1 .. lastId) /\ rows[j].position \in Nat
            BY <2>1 DEF TimelineShape, Rows
        <3>2. Beyond(rows[j].seen, rows[j].position)
            BY <2>1 DEF PositionsGrow
        <3>3. \A i \in rows[j].seen \cap DOMAIN rows' : rows'[i].position < rows[j].position
            BY ONLY <3>1, <3>2, <1>2
        <3> QED BY <3>3, <2>1
    <2>2. CASE /\ j \in lastId + 1 .. lastId'
               /\ rows'[j].seen \subseteq 1 .. lastId
               /\ Beyond(rows'[j].seen, rows'[j].position)
        BY <2>2, <1>1 DEF Beyond
    <2> QED BY <2>1, <2>2
<1>4. ASSUME NEW r \in Requests, requests'[r].phase = "numbered"
      PROVE  \A i \in requests'[r].seen \cap DOMAIN rows' :
                rows'[i].position < requests'[r].position
    <2>1. requests[r] \in RequestStates /\ requests'[r] = requests[r]
        BY <1>4 DEF TimelineShape
    <2>2. requests[r].seen \in SUBSET (1 .. lastId) /\ requests[r].position \in Nat
        BY <2>1 DEF RequestStates
    <2>3. Beyond(requests[r].seen, requests[r].position)
        BY <2>1, <1>4 DEF PositionsGrow
    <2>4. \A i \in requests[r].seen \cap DOMAIN rows' :
             rows'[i].position < requests[r].position
        BY ONLY <2>2, <2>3, <1>2
    <2> QED BY <2>1, <2>4
<1> QED BY <1>3, <1>4 DEF PositionsGrow, Beyond

LEMMA InsertEventKeepsInv ==
    ASSUME TimelineInv, NEW r \in Requests, InsertEvent(r)
    PROVE  TimelineInv'
<1>1. /\ lastId \in Nat /\ lastId' = lastId + 1
      /\ requests[r] \in RequestStates /\ requests \in [Requests -> RequestStates]
      /\ DOMAIN rows \subseteq 1 .. lastId
      /\ requests[r].phase = "numbered"
      /\ requests' = [requests EXCEPT ![r].phase = "done"]
    BY DEF TimelineInv, TimelineShape, InsertEvent
<1> DEFINE new == [position |-> requests[r].position, seen |-> requests[r].seen,
                   sources |-> 0, sourceCount |-> 0]
<1>2. /\ DOMAIN rows' = DOMAIN rows \cup {lastId'}
      /\ rows'[lastId'] = new
      /\ \A i \in DOMAIN rows : rows'[i] = rows[i]
    BY <1>1 DEF InsertEvent
<1>3. /\ requests[r].position \in Nat
      /\ requests[r].seen \in SUBSET (1 .. lastId)
      /\ Beyond(requests[r].seen, requests[r].position)
    BY <1>1 DEF RequestStates, TimelineInv, PositionsGrow
<1>4. Rows \subseteq Rows' /\ new \in Rows'
    BY <1>1, <1>3 DEF Rows
<1>5. RequestStates \subseteq RequestStates'
    BY <1>1 DEF RequestStates
<1>6. requests' \in [Requests -> RequestStates]
    BY <1>1 DEF RequestStates, Answered
<1>7. TimelineShape'
    <2>1. DOMAIN rows' \subseteq 1 .. lastId'
        BY <1>1, <1>2
    <2>2. \A i \in DOMAIN rows' : rows'[i] \in Rows'
        BY <1>2, <1>4 DEF TimelineInv, TimelineShape
    <2>3. requests' \in [Requests -> RequestStates']
        BY <1>5, <1>6
    <2>4. assembly' \in [phase : {"none", "waiting", "updated", "deleted"}, event : Nat,
                         deleting : SUBSET (1 .. lastId')]
        BY <1>1 DEF TimelineInv, TimelineShape, InsertEvent
    <2> QED BY <1>1, <2>1, <2>2, <2>3, <2>4 DEF TimelineShape
<1>8. PoolIsKept'
    <2>1. Holding' \subseteq Holding
        BY <1>1 DEF Holding, InTransaction
    <2> QED BY <2>1, NoConnectionMore DEF TimelineInv
<1>9. PositionsGrow'
    <2>1. \A q \in Requests : requests'[q].phase = "numbered" => requests'[q] = requests[q]
        BY <1>1
    <2>2. new.position = requests[r].position /\ new.seen = requests[r].seen
        OBVIOUS
    <2>3. lastId' \in lastId + 1 .. lastId' /\ lastId' \in Nat /\ lastId <= lastId'
        BY <1>1
    <2> HIDE DEF new
    <2> QED BY <1>1, <1>2, <1>3, <2>1, <2>2, <2>3, RowsKeepTheirOrder DEF TimelineInv
<1>10. SourcesAreCounted'
    BY <1>2 DEF TimelineInv, SourcesAreCounted
<1> QED BY <1>7, <1>8, <1>9, <1>10 DEF TimelineInv

\* A step that changes only the sources of rows that are there.
LEMMA CountingKeepsInv ==
    ASSUME TimelineInv, NEW i, NEW n \in Nat, lastId' = lastId,
           rows' = [rows EXCEPT ![i].sources = n, ![i].sourceCount = n],
           requests' \in [Requests -> RequestStates],
           \A q \in Requests : \/ requests'[q] = requests[q]
                               \/ requests'[q].phase = "done",
           assembly' \in {assembly, NoAssembly}
    PROVE  TimelineInv'
<1>1. /\ lastId \in Nat
      /\ DOMAIN rows \subseteq 1 .. lastId
      /\ \A j \in DOMAIN rows : rows[j] \in Rows
    BY DEF TimelineInv, TimelineShape
<1>2. DOMAIN rows' = DOMAIN rows
    OBVIOUS
<1>3. ASSUME NEW j \in DOMAIN rows
      PROVE  /\ rows'[j] \in Rows
             /\ rows'[j].position = rows[j].position
             /\ rows'[j].seen = rows[j].seen
             /\ rows'[j].sourceCount = rows'[j].sources
    <2>1. CASE j # i
        <3>1. rows'[j] = rows[j]
            BY <2>1
        <3> QED BY <3>1, <1>1 DEF TimelineInv, SourcesAreCounted
    <2>2. CASE j = i
        <3>1. rows'[j] = [rows[j] EXCEPT !.sources = n, !.sourceCount = n]
            BY <2>2
        <3> QED BY <3>1, <1>1 DEF Rows
    <2> QED BY <2>1, <2>2
<1>4. Rows' = Rows /\ RequestStates' = RequestStates
    BY DEF Rows, RequestStates
<1>5. TimelineShape'
    <2>1. \A j \in DOMAIN rows' : rows'[j] \in Rows'
        BY <1>2, <1>3, <1>4
    <2>2. assembly' \in [phase : {"none", "waiting", "updated", "deleted"}, event : Nat,
                         deleting : SUBSET (1 .. lastId)]
        BY DEF TimelineInv, TimelineShape, NoAssembly
    <2> QED BY <1>1, <1>2, <1>4, <2>1, <2>2 DEF TimelineShape
<1>6. PoolIsKept'
    <2>1. Holding' \subseteq Holding
        BY DEF Holding, InTransaction
    <2> QED BY <2>1, NoConnectionMore DEF TimelineInv
<1>7. PositionsGrow'
    BY <1>1, <1>2, <1>3, RowsKeepTheirOrder DEF TimelineInv
<1>8. SourcesAreCounted'
    BY <1>2, <1>3 DEF SourcesAreCounted
<1> QED BY <1>5, <1>6, <1>7, <1>8 DEF TimelineInv

LEMMA CountSourceKeepsInv ==
    ASSUME TimelineInv, NEW r \in Requests, CountSource(r)
    PROVE  TimelineInv'
<1> DEFINE i == requests[r].event
<1>1. requests \in [Requests -> RequestStates] /\ \A j \in DOMAIN rows : rows[j] \in Rows
    BY DEF TimelineInv, TimelineShape
<1>2. requests' = [requests EXCEPT ![r].phase = "done"]
    BY DEF CountSource
<1>3. /\ requests' \in [Requests -> RequestStates]
      /\ \A q \in Requests : requests'[q] = requests[q] \/ requests'[q].phase = "done"
    BY <1>1, <1>2 DEF RequestStates, Answered
<1>4. rows' = [rows EXCEPT ![i].sources = @ + 1, ![i].sourceCount = @ + 1]
    BY DEF CountSource
<1>5. PICK n \in Nat : rows' = [rows EXCEPT ![i].sources = n, ![i].sourceCount = n]
    <2>1. CASE i \in DOMAIN rows
        <3>1. /\ rows[i].sources \in Nat
              /\ rows[i].sourceCount = rows[i].sources
            BY <1>1, <2>1 DEF Rows, TimelineInv, SourcesAreCounted
        <3> DEFINE n == rows[i].sources + 1
        <3>2. n \in Nat /\ rows' = [rows EXCEPT ![i].sources = n, ![i].sourceCount = n]
            BY <1>4, <3>1
        <3> QED BY <3>2
    <2>2. CASE i \notin DOMAIN rows
        <3>1. rows' = [rows EXCEPT ![i].sources = 0, ![i].sourceCount = 0]
            BY <1>4, <2>2
        <3> QED BY <3>1
    <2> QED BY <2>1, <2>2
<1> QED BY <1>3, <1>5, CountingKeepsInv DEF CountSource

LEMMA RecreateSourcesKeepsInv ==
    ASSUME TimelineInv, RecreateSources
    PROVE  TimelineInv'
BY CountingKeepsInv DEF RecreateSources, TimelineInv, TimelineShape

LEMMA RecreateEventsKeepsInv ==
    ASSUME TimelineInv, RecreateEvents
    PROVE  TimelineInv'
<1>1. /\ lastId \in Nat /\ Researched \in Nat /\ lastId' = lastId + Researched
      /\ DOMAIN rows \subseteq 1 .. lastId
      /\ requests' = requests /\ requests \in [Requests -> RequestStates]
      /\ assembly' = NoAssembly
    BY ResearchedAssumption DEF TimelineInv, TimelineShape, RecreateEvents
<1>2. /\ DOMAIN rows' = (DOMAIN rows \ assembly.deleting) \cup (lastId + 1 .. lastId')
      /\ \A i \in DOMAIN rows' :
            rows'[i] = IF i <= lastId THEN rows[i]
                       ELSE [position |-> i - lastId - 1, seen |-> {},
                             sources |-> 2, sourceCount |-> 2]
    BY DEF RecreateEvents
<1>3. ASSUME NEW i \in DOMAIN rows'
      PROVE  \/ i \in DOMAIN rows /\ rows'[i] = rows[i]
             \/ /\ i \in lastId + 1 .. lastId'
                /\ rows'[i] = [position |-> i - lastId - 1, seen |-> {},
                               sources |-> 2, sourceCount |-> 2]
    BY <1>1, <1>2
<1>4. Rows \subseteq Rows' /\ RequestStates \subseteq RequestStates'
    BY <1>1 DEF Rows, RequestStates
<1>5. TimelineShape'
    <2>1. DOMAIN rows' \subseteq 1 .. lastId' /\ lastId' \in Nat
        BY <1>1, <1>2
    <2>2. ASSUME NEW i \in DOMAIN rows'
          PROVE  rows'[i] \in Rows'
        <3>1. CASE i \in DOMAIN rows /\ rows'[i] = rows[i]
            BY <3>1, <1>4 DEF TimelineInv, TimelineShape
        <3>2. CASE /\ i \in lastId + 1 .. lastId'
                   /\ rows'[i] = [position |-> i - lastId - 1, seen |-> {},
                                  sources |-> 2, sourceCount |-> 2]
            <4>1. i - lastId - 1 \in Nat
                BY <1>1, <3>2
            <4> QED BY <4>1, <3>2 DEF Rows
        <3> QED BY <1>3, <3>1, <3>2
    <2>3. assembly' \in [phase : {"none", "waiting", "updated", "deleted"}, event : Nat,
                         deleting : SUBSET (1 .. lastId')]
        BY <1>1 DEF NoAssembly
    <2> QED BY <1>1, <1>4, <2>1, <2>2, <2>3 DEF TimelineShape
<1>6. PoolIsKept'
    <2>1. Holding' \subseteq Holding
        BY <1>1 DEF Holding
    <2> QED BY <2>1, NoConnectionMore DEF TimelineInv
<1>7. PositionsGrow'
    <2>1. \A i \in DOMAIN rows' :
              \/ /\ i \in DOMAIN rows
                 /\ rows'[i].position = rows[i].position
                 /\ rows'[i].seen = rows[i].seen
              \/ /\ i \in lastId + 1 .. lastId'
                 /\ rows'[i].seen \subseteq 1 .. lastId
                 /\ Beyond(rows'[i].seen, rows'[i].position)
        BY <1>3 DEF Beyond
    <2>2. lastId' \in Nat /\ lastId <= lastId'
        BY <1>1
    <2> QED BY <1>1, <2>1, <2>2, RowsKeepTheirOrder DEF TimelineInv
<1>8. SourcesAreCounted'
    BY <1>3 DEF TimelineInv, SourcesAreCounted
<1> QED BY <1>5, <1>6, <1>7, <1>8 DEF TimelineInv

\* The worker's steps that do not change the rows.
LEMMA WorkerWithoutRows ==
    ASSUME TimelineInv, UNCHANGED <<rows, lastId, requests>>,
           assembly' \in [phase : {"none", "waiting", "updated", "deleted"}, event : Nat,
                          deleting : SUBSET (1 .. lastId)]
    PROVE  TimelineInv'
<1>1. TimelineShape'
    BY DEF TimelineInv, TimelineShape, Rows, RequestStates
<1>2. Holding' \subseteq Holding
    BY DEF Holding
<1>3. PoolIsKept'
    BY <1>2, NoConnectionMore DEF TimelineInv
<1>4. PositionsGrow' /\ SourcesAreCounted'
    BY DEF TimelineInv, PositionsGrow, Beyond, SourcesAreCounted
<1> QED BY <1>1, <1>3, <1>4 DEF TimelineInv

-----------------------------------------------------------------------------
(* Every step *)

LEMMA AssemblyKeepsInv ==
    ASSUME TimelineInv, AssemblyAccepted \/ Assemble
    PROVE  TimelineInv'
<1> DEFINE Assemblies == [phase : {"none", "waiting", "updated", "deleted"}, event : Nat,
                          deleting : SUBSET (1 .. lastId)]
<1>1. assembly \in Assemblies /\ DOMAIN rows \subseteq 1 .. lastId /\ lastId \in Nat
    BY DEF TimelineInv, TimelineShape
<1>2. CASE AssemblyAccepted
    <2>1. assembly' \in Assemblies /\ UNCHANGED <<rows, lastId, requests>>
        BY <1>1, <1>2 DEF AssemblyAccepted
    <2> QED BY <2>1, WorkerWithoutRows
<1>3. ASSUME NEW i \in DOMAIN rows, UpdateEvent(i)
      PROVE  TimelineInv'
    <2>1. i \in Nat
        BY <1>1
    <2>2. assembly' \in Assemblies /\ UNCHANGED <<rows, lastId, requests>>
        BY <1>1, <1>3, <2>1 DEF UpdateEvent
    <2> QED BY <2>2, WorkerWithoutRows
<1>4. CASE DeleteEvents
    <2>1. assembly' \in Assemblies /\ UNCHANGED <<rows, lastId, requests>>
        BY <1>1, <1>4 DEF DeleteEvents
    <2> QED BY <2>1, WorkerWithoutRows
<1>5. CASE AssemblyFails
    <2>1. assembly' \in Assemblies /\ UNCHANGED <<rows, lastId, requests>>
        BY <1>1, <1>5 DEF AssemblyFails, NoAssembly
    <2> QED BY <2>1, WorkerWithoutRows
<1> QED BY <1>2, <1>3, <1>4, <1>5, RecreateSourcesKeepsInv, RecreateEventsKeepsInv
        DEF Assemble

LEMMA InitHasInv == TimelineInit => TimelineInv
<1> SUFFICES ASSUME TimelineInit PROVE TimelineInv
    OBVIOUS
<1>1. \A r \in Requests : requests[r] = Fresh
    BY DEF TimelineInit
<1>2. TimelineShape
    <2>1. Fresh \in RequestStates
        BY DEF Fresh, RequestStates
    <2> QED BY <2>1 DEF TimelineInit, TimelineShape, Rows, NoAssembly
<1>3. PoolIsKept
    <2>1. Holding = {}
        BY <1>1 DEF Holding, Fresh, InTransaction
    <2> QED BY <2>1, FS_EmptySet, PoolSizeAssumption DEF PoolIsKept
<1>4. PositionsGrow
    BY <1>1 DEF TimelineInit, PositionsGrow, Beyond, Fresh
<1>5. SourcesAreCounted
    BY DEF TimelineInit, SourcesAreCounted
<1> QED BY <1>2, <1>3, <1>4, <1>5 DEF TimelineInv

LEMMA StepKeepsTimelineInv == TimelineInv /\ [TimelineNext]_timelineVars => TimelineInv'
<1> SUFFICES ASSUME TimelineInv, [TimelineNext]_timelineVars PROVE TimelineInv'
    OBVIOUS
<1>1. ASSUME NEW r \in Requests, Call(r) \/ Progress(r) \/ TimeOut(r)
      PROVE  TimelineInv'
    <2>1. CASE \/ Call(r) \/ CheckFails(r) \/ Begin(r) \/ InsertSource(r)
               \/ ContextFails(r) \/ CommitPatch(r) \/ TimeOut(r)
        BY <2>1, ProgressOutsideRows
    <2>2. CASE Check(r)
        BY <2>2, CheckKeepsInv
    <2>3. CASE ReadMax(r)
        BY <2>3, ReadMaxKeepsInv
    <2>4. CASE InsertEvent(r)
        BY <2>4, InsertEventKeepsInv
    <2>5. CASE CountSource(r)
        BY <2>5, CountSourceKeepsInv
    <2>6. CASE ReadContext(r)
        BY <2>6, ReadContextKeepsInv
    <2> QED BY <1>1, <2>1, <2>2, <2>3, <2>4, <2>5, <2>6 DEF Progress
<1>2. CASE UNCHANGED timelineVars
    <2>1. assembly \in [phase : {"none", "waiting", "updated", "deleted"}, event : Nat,
                        deleting : SUBSET (1 .. lastId)]
        BY DEF TimelineInv, TimelineShape
    <2> QED BY <1>2, <2>1, WorkerWithoutRows DEF timelineVars
<1> QED BY <1>1, <1>2, AssemblyKeepsInv DEF TimelineNext

LEMMA AlwaysTimelineInv == TimelineSpec => []TimelineInv
BY InitHasInv, StepKeepsTimelineInv, PTL DEF TimelineSpec

-----------------------------------------------------------------------------
(* Theorems *)

(***************************************************************************)
(* Rows, requests and the worker's transaction are what TimelineTypeOK     *)
(* says, and no more connections are held than the pool has.               *)
(***************************************************************************)
THEOREM TimelineTypeCorrect == TimelineSpec => []TimelineTypeOK
<1>1. TimelineInv => TimelineTypeOK
    BY DEF TimelineInv, TimelineShape, TimelineTypeOK, RequestStates, PoolIsKept
<1> QED BY <1>1, AlwaysTimelineInv, PTL

(***************************************************************************)
(* createEvent: of two events at one position neither was there for the    *)
(* creator of the other to see, for any number of concurrent requests,     *)
(* regenerations and researched events.                                    *)
(***************************************************************************)
THEOREM PositionsFollowCreation == TimelineSpec => []SamePositionMeansSameTime
<1>1. TimelineInv => SamePositionMeansSameTime
    <2> SUFFICES ASSUME TimelineInv,
                        NEW i \in DOMAIN rows, NEW j \in DOMAIN rows,
                        rows[i].position = rows[j].position, i \in rows[j].seen
                 PROVE  FALSE
        BY DEF SamePositionMeansSameTime
    <2>1. rows[i].position < rows[j].position
        BY DEF TimelineInv, PositionsGrow, Beyond
    <2> QED BY <2>1 DEF TimelineInv, TimelineShape, Rows
<1> QED BY <1>1, AlwaysTimelineInv, PTL

(***************************************************************************)
(* createSource and the worker's regeneration together keep source_count.  *)
(***************************************************************************)
THEOREM CountsAreSources == TimelineSpec => []SourcesAreCounted
<1>1. TimelineInv => SourcesAreCounted
    BY DEF TimelineInv
<1> QED BY <1>1, AlwaysTimelineInv, PTL

(***************************************************************************)
(* A pool is exhausted for good only by as many PATCH requests as it has   *)
(* connections, whatever the size of the pool.                             *)
(***************************************************************************)
THEOREM OnlyPatchesExhaustThePool == TimelineSpec => []ExhaustionTakesPatches
<1>1. TimelineInv => ExhaustionTakesPatches
    <2> SUFFICES ASSUME TimelineInv, ~Free, \A r \in Holding : NeedsConnection(r)
                 PROVE  Cardinality(Holding \cap Patching) = PoolSize
        BY DEF ExhaustionTakesPatches
    <2>1. Holding \cap Patching = Holding
        BY DEF Holding, NeedsConnection, InTransaction, Outside
    <2>2. Cardinality(Holding) \in Nat
        BY HoldingIsFinite, FS_CardinalityType
    <2>3. Cardinality(Holding) = PoolSize
        BY <2>2, PoolSizeAssumption DEF TimelineInv, PoolIsKept, Free
    <2> QED BY <2>1, <2>3
<1> QED BY <1>1, AlwaysTimelineInv, PTL

(***************************************************************************)
(* With more connections than concurrent PATCH requests somebody who holds *)
(* a connection can always go on with the one it has: the wait for a       *)
(* second connection inside a transaction then never blocks the pool.      *)
(***************************************************************************)
THEOREM FewPatchesLeaveThePoolMoving ==
    ASSUME Cardinality(Patching) < PoolSize
    PROVE  TimelineSpec => [](Free \/ \E r \in Holding : ~NeedsConnection(r))
<1>1. Cardinality(Holding \cap Patching) # PoolSize
    <2>1. IsFiniteSet(Patching) /\ Holding \cap Patching \in SUBSET Patching
        BY RequestsAssumption, FS_Union DEF Patching
    <2>2. /\ IsFiniteSet(Holding \cap Patching)
          /\ Cardinality(Holding \cap Patching) <= Cardinality(Patching)
        BY ONLY <2>1, FS_Subset
    <2>3. Cardinality(Patching) \in Nat /\ Cardinality(Holding \cap Patching) \in Nat
        BY ONLY <2>1, <2>2, FS_CardinalityType
    <2> QED BY <2>2, <2>3, PoolSizeAssumption
<1>2. ExhaustionTakesPatches => Free \/ \E r \in Holding : ~NeedsConnection(r)
    BY <1>1 DEF ExhaustionTakesPatches
<1> QED BY <1>2, OnlyPatchesExhaustThePool, PTL

=============================================================================
