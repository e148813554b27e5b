------------------------- MODULE CreatorSessionProofs -------------------------
(***************************************************************************)
(* Proofs about a creator's tab.  The answers that reach it, in whatever   *)
(* order and on whatever page, stay true: a version of the brief keeps its *)
(* text and a job that has ended keeps its end.  So it is enough that an   *)
(* answer was true when it was given, and that what the tab keeps of it    *)
(* says no more than the answer did.                                       *)
(***************************************************************************)
EXTENDS CreatorSession, FiniteSetTheorems, SequenceTheorems, TLAPS

Jobs == [kind : {"research", "assembly"}, pre : Restful,
         status : {"running", "succeeded", "failed"}]

Watches == [stopped : BOOLEAN, error : BOOLEAN,
            end : {"none", "failed", "research_done", "mismatch"}, of : 0 .. Len(jobs)]

Counters == [texts : FirstText .. MaxTexts, moves : Nat, visits : Nat, lost : Nat]

IsVersion(b) ==
    /\ b \in [version : Nat, text : FirstText .. MaxTexts]
    /\ b.version \in DOMAIN briefs
    /\ b.text = briefs[b.version]

ServerShape ==
    /\ briefs \in Seq(FirstText .. MaxTexts) /\ briefs # <<>> /\ briefs[1] = FirstText
    /\ workflow \in States
    /\ jobs \in Seq(Jobs)
    /\ selectedKey \in Nat
    /\ counts \in Counters

\* Only the last job runs, and the story's state says so.
OneJobRuns ==
    \A j \in DOMAIN jobs : jobs[j].status = "running" => j = Len(jobs) /\ workflow \in Busy

\* Only somebody else, or the next generation, takes the story on.
AssembledIsReady ==
    \A j \in DOMAIN jobs :
        jobs[j].kind = "assembly" /\ jobs[j].status = "succeeded" =>
            workflow = "ready_for_edit" \/ counts.moves > 0 \/ Len(jobs) > j

ServerInv == ServerShape /\ OneJobRuns /\ AssembledIsReady

-----------------------------------------------------------------------------
(* The calls *)

Kinds == {"patch", "start", "select", "state", "poll", "retry", "finish"}

\* The fields that a call has for its kind.
FieldsOf(kind) ==
    CASE kind = "patch"                        -> {"version", "text"}
      [] kind = "start"                        -> {"generation"}
      [] kind = "select"                       -> {"key"}
      [] kind \in {"poll", "retry", "finish"}  -> {"job"}
      [] OTHER                                 -> {}

CallShape(c) ==
    /\ c = [x \in DOMAIN c |-> c[x]]
    /\ {"id", "kind", "here", "status"} \subseteq DOMAIN c
    /\ c.id \in 1 .. MaxCalls /\ c.kind \in Kinds
    /\ c.status \in {"sent", "ok", "conflict", "error"}
    /\ FieldsOf(c.kind) \subseteq DOMAIN c
    /\ c.status = "sent" => "answer" \notin DOMAIN c
    /\ c.status \in {"ok", "conflict"} => "answer" \in DOMAIN c
    /\ c.kind = "patch" => c.text \in FirstText .. MaxTexts
    /\ c.kind = "start" => c.generation \in {"research", "assembly"}
    /\ c.kind = "select" => c.key \in Nat

HasEnded(j) == jobs[j].status \in {"succeeded", "failed"}

\* What an answer says is so, and stays so.
AnswerIsTrue(c) ==
    /\ c.kind \in {"poll", "retry", "finish"} => c.job \in 1 .. Len(jobs)
    /\ c.kind = "finish" => jobs[c.job].status = "succeeded"
    /\ c.kind = "patch" /\ c.status \in {"ok", "conflict"} =>
          IsVersion(c.answer.brief) /\ c.answer.state \in States
    /\ c.kind = "start" /\ c.status = "ok" => c.answer \in 1 .. Len(jobs)
    /\ c.kind \in {"select", "state"} /\ c.status = "ok" => c.answer \in States
    /\ c.kind = "poll" /\ c.status = "ok" =>
          c.answer = "running" \/ (HasEnded(c.job) /\ c.answer = jobs[c.job].status)
    /\ /\ c.kind = "finish" /\ c.status = "ok"
       /\ jobs[c.job].kind = "assembly" /\ c.answer # "ready_for_edit"
       => counts.moves > 0 \/ Len(jobs) > c.job

CallsAreTrue == \A c \in calls : CallShape(c) /\ AnswerIsTrue(c)

IdsDiffer == \A c, d \in calls : c.id = d.id => c = d

CallsInv == CallsAreTrue /\ IdsDiffer

-----------------------------------------------------------------------------
(* The tab *)

PageShape ==
    /\ page \in [at : Pages, job : 0 .. Len(jobs)]
    /\ page.at = "job" <=> page.job # 0
    /\ armed => page.at = "brief"
    /\ form \in FirstText .. MaxTexts /\ shownState \in States
    /\ activeJob \in 0 .. Len(jobs)
    /\ IsVersion(baseline)
    /\ cache = [brief |-> cache.brief, state |-> cache.state]
    /\ IsVersion(cache.brief) /\ cache.state \in States

\* The page that says how a job ended knows which one.
WatchIsTrue ==
    /\ watch \in Watches
    /\ watch.end # "none" => watch.of \in 1 .. Len(jobs)
    /\ ShownEndIsTrue

TabInv == PageShape /\ WatchIsTrue

SessionInv == ServerInv /\ CallsInv /\ TabInv

-----------------------------------------------------------------------------
(* The server: versions are added, and a job that has ended stays ended *)

ServerGrows ==
    /\ \A i \in DOMAIN briefs : i \in DOMAIN briefs' /\ briefs'[i] = briefs[i]
    /\ Len(jobs) <= Len(jobs')
    /\ \A j \in DOMAIN jobs : /\ jobs'[j].kind = jobs[j].kind
                              /\ HasEnded(j) => jobs'[j].status = jobs[j].status
    /\ counts.moves <= counts'.moves

LEMMA LastIsInTheSequence ==
    ASSUME NEW S, NEW s \in Seq(S), s # <<>>
    PROVE  /\ Len(s) \in DOMAIN s /\ Last(s) = s[Len(s)] /\ Last(s) \in S
           /\ Len(s) \in Nat
BY DEF Last

LEMMA SequencesOfTheServer ==
    ASSUME ServerShape
    PROVE  /\ Len(briefs) \in Nat \ {0} /\ DOMAIN briefs = 1 .. Len(briefs)
           /\ Last(briefs) = briefs[Len(briefs)]
           /\ \A i \in DOMAIN briefs : briefs[i] \in FirstText .. MaxTexts
           /\ Len(jobs) \in Nat /\ DOMAIN jobs = 1 .. Len(jobs)
           /\ \A j \in DOMAIN jobs : jobs[j] \in Jobs
<1>1. /\ briefs \in Seq(FirstText .. MaxTexts) /\ briefs # <<>> /\ jobs \in Seq(Jobs)
    BY DEF ServerShape
<1>2. /\ Len(briefs) \in Nat /\ DOMAIN briefs = 1 .. Len(briefs)
      /\ Len(jobs) \in Nat /\ DOMAIN jobs = 1 .. Len(jobs)
    BY <1>1
<1>3. Len(briefs) # 0
    BY <1>1, EmptySeq
<1>4. /\ \A i \in DOMAIN briefs : briefs[i] \in FirstText .. MaxTexts
      /\ \A j \in DOMAIN jobs : jobs[j] \in Jobs
    BY <1>1, <1>2, ElementOfSeq
<1> QED BY <1>2, <1>3, <1>4 DEF Last

LEMMA VersionStays ==
    ASSUME ServerGrows, NEW b, IsVersion(b)
    PROVE  IsVersion(b)'
BY DEF ServerGrows, IsVersion

LEMMA TheBriefIsAVersion ==
    ASSUME ServerShape
    PROVE  IsVersion([version |-> Len(briefs), text |-> Last(briefs)]) /\ IsVersion(FirstBrief)
<1>1. Len(briefs) \in DOMAIN briefs /\ 1 \in DOMAIN briefs /\ Len(briefs) \in Nat
    BY SequencesOfTheServer
<1>2. Last(briefs) = briefs[Len(briefs)] /\ briefs[Len(briefs)] \in FirstText .. MaxTexts
    BY <1>1, SequencesOfTheServer
<1>3. FirstText \in FirstText .. MaxTexts
    BY BoundsAssumption DEF FirstText
<1> QED BY <1>1, <1>2, <1>3 DEF IsVersion, FirstBrief, ServerShape

\* A call of the tab changes nothing of the server but the history counters.
LEMMA ServerStays ==
    ASSUME ServerInv, UNCHANGED serverVars, counts'.moves = counts.moves,
           counts' \in Counters
    PROVE  ServerInv' /\ ServerGrows
<1>1. counts.moves \in Nat
    BY DEF ServerInv, ServerShape, Counters
<1>2. Len(jobs) \in Nat
    BY SequencesOfTheServer DEF ServerInv
<1> QED BY <1>1, <1>2 DEF ServerInv, ServerShape, OneJobRuns, AssembledIsReady,
                         ServerGrows, serverVars

LEMMA BriefIsAdded ==
    ASSUME ServerInv, NEW text \in FirstText .. MaxTexts, briefs' = Append(briefs, text),
           counts' \in Counters,
           counts.moves <= counts'.moves, UNCHANGED <<jobs, workflow, selectedKey>>
    PROVE  ServerInv' /\ ServerGrows
<1>1. /\ briefs \in Seq(FirstText .. MaxTexts) /\ Len(briefs) \in Nat \ {0}
      /\ DOMAIN briefs = 1 .. Len(briefs) /\ Len(jobs) \in Nat /\ counts.moves \in Nat
      /\ briefs[1] = FirstText
    BY SequencesOfTheServer DEF ServerInv, ServerShape, Counters
<1>2. /\ briefs' \in Seq(FirstText .. MaxTexts) /\ Len(briefs') = Len(briefs) + 1
      /\ \A i \in 1 .. Len(briefs) : briefs'[i] = briefs[i]
    BY <1>1, AppendProperties
<1>3. DOMAIN briefs' = 1 .. Len(briefs) + 1 /\ briefs' # <<>>
    BY <1>1, <1>2
<1>4. ServerShape'
    BY <1>1, <1>2, <1>3 DEF ServerInv, ServerShape
<1>5. counts'.moves > 0 \/ counts.moves = 0
    BY <1>1 DEF Counters
<1>6. OneJobRuns' /\ AssembledIsReady'
    BY <1>1, <1>5 DEF ServerInv, ServerShape, OneJobRuns, AssembledIsReady
<1>7. ServerGrows
    BY <1>1, <1>2, <1>3 DEF ServerGrows
<1> QED BY <1>4, <1>6, <1>7 DEF ServerInv

LEMMA JobIsAdded ==
    ASSUME ServerInv, NEW generation \in {"research", "assembly"}, Startable(generation),
           NewJob(generation), UNCHANGED <<briefs, selectedKey>>,
           counts' \in Counters,
           counts.moves <= counts'.moves
    PROVE  ServerInv' /\ ServerGrows /\ Len(jobs') \in 1 .. Len(jobs')
<1> DEFINE job == [kind |-> generation, pre |-> workflow, status |-> "running"]
<1>1. /\ jobs \in Seq(Jobs) /\ Len(jobs) \in Nat /\ DOMAIN jobs = 1 .. Len(jobs)
      /\ counts.moves \in Nat
    BY SequencesOfTheServer DEF ServerInv, ServerShape, Counters
<1>2. job \in Jobs /\ job.status = "running"
    BY DEF Jobs, Startable
<1>3. jobs' = Append(jobs, job) /\ workflow' \in Busy
    BY DEF NewJob, BusyState, Busy
<1> HIDE DEF job
<1>4. /\ jobs' \in Seq(Jobs) /\ Len(jobs') = Len(jobs) + 1
      /\ \A j \in 1 .. Len(jobs) : jobs'[j] = jobs[j]
      /\ jobs'[Len(jobs) + 1] = job
    BY <1>1, <1>2, <1>3, AppendProperties
<1>5. DOMAIN jobs' = 1 .. Len(jobs) + 1
    BY <1>1, <1>4
<1>6. ServerShape'
    BY <1>3, <1>4 DEF ServerInv, ServerShape, States
<1>7. \A j \in 1 .. Len(jobs) : jobs[j].status # "running"
    BY <1>1 DEF ServerInv, OneJobRuns, Startable, Restful, Busy
<1>8. OneJobRuns'
    BY <1>1, <1>3, <1>4, <1>5, <1>7 DEF OneJobRuns
<1>9. AssembledIsReady'
    BY <1>1, <1>2, <1>4, <1>5 DEF AssembledIsReady
<1>10. ServerGrows
    BY <1>1, <1>4 DEF ServerGrows
<1>11. Len(jobs') \in 1 .. Len(jobs')
    BY <1>1, <1>4
<1> QED BY <1>6, <1>8, <1>9, <1>10, <1>11 DEF ServerInv

LEMMA JobEndsServer ==
    ASSUME ServerInv, NEW j \in DOMAIN jobs, NEW status \in {"succeeded", "failed"},
           JobEnds(j, status)
    PROVE  ServerInv' /\ ServerGrows
<1>1. /\ jobs \in Seq(Jobs) /\ Len(jobs) \in Nat /\ DOMAIN jobs = 1 .. Len(jobs)
      /\ counts.moves \in Nat /\ \A i \in DOMAIN jobs : jobs[i] \in Jobs
    BY SequencesOfTheServer DEF ServerInv, ServerShape, Counters
<1>2. j = Len(jobs) /\ jobs[j].status = "running" /\ workflow \in Busy
    BY DEF ServerInv, OneJobRuns, JobEnds
<1> DEFINE job == [jobs[j] EXCEPT !.status = status]
<1>3. /\ job \in Jobs /\ job.status = status /\ job.kind = jobs[j].kind
    BY <1>1 DEF Jobs
<1>4. jobs' = [jobs EXCEPT ![j] = job]
    BY <1>1 DEF JobEnds
<1> HIDE DEF job
<1>5. /\ jobs' \in Seq(Jobs) /\ Len(jobs') = Len(jobs)
      /\ jobs'[j] = job /\ \A i \in DOMAIN jobs : i # j => jobs'[i] = jobs[i]
    BY <1>1, <1>3, <1>4, ExceptSeq
<1>6. DOMAIN jobs' = 1 .. Len(jobs)
    BY <1>1, <1>5
<1>7. /\ workflow' = IF jobs[j].kind = "assembly" /\ status = "succeeded"
                     THEN "ready_for_edit" ELSE jobs[j].pre
      /\ UNCHANGED <<briefs, selectedKey, counts>>
    BY DEF JobEnds
<1>8. workflow' \in Restful
    BY <1>1, <1>7 DEF Jobs, Restful
<1>9. ServerShape'
    BY <1>5, <1>7, <1>8 DEF ServerInv, ServerShape, States
<1>10. \A i \in DOMAIN jobs' : jobs'[i].status # "running"
    <2>1. \A i \in DOMAIN jobs : i # j => jobs[i].status # "running"
        BY <1>2 DEF ServerInv, OneJobRuns
    <2> QED BY <1>1, <1>3, <1>5, <1>6, <2>1
<1>11. OneJobRuns'
    BY <1>10 DEF OneJobRuns
<1>12. AssembledIsReady'
    <2> SUFFICES ASSUME NEW i \in DOMAIN jobs', jobs'[i].kind = "assembly",
                        jobs'[i].status = "succeeded"
                 PROVE  workflow' = "ready_for_edit" \/ Len(jobs') > i
        BY DEF AssembledIsReady
    <2>1. CASE i = j
        BY <1>3, <1>5, <1>7, <2>1
    <2>2. CASE i # j
        BY <1>1, <1>2, <1>5, <1>6, <2>2
    <2> QED BY <2>1, <2>2
<1>13. ServerGrows
    BY <1>1, <1>2, <1>3, <1>5, <1>7 DEF ServerGrows, HasEnded
<1> QED BY <1>9, <1>11, <1>12, <1>13 DEF ServerInv

\* Somebody publishes, or the creator's framing is taken.
LEMMA StoryMoves ==
    ASSUME ServerInv, workflow' \in States, workflow \in Restful,
           UNCHANGED <<briefs, jobs>>, selectedKey' \in Nat,
           counts' \in Counters,
           counts.moves <= counts'.moves,
           workflow' = "ready_for_edit" \/ counts'.moves > 0
    PROVE  ServerInv' /\ ServerGrows
<1>1. Len(jobs) \in Nat /\ counts.moves \in Nat
    BY SequencesOfTheServer DEF ServerInv, ServerShape, Counters
<1>2. \A j \in DOMAIN jobs : jobs[j].status # "running"
    BY DEF ServerInv, OneJobRuns, Restful, Busy
<1> QED BY <1>1, <1>2 DEF ServerInv, ServerShape, OneJobRuns, AssembledIsReady, ServerGrows

-----------------------------------------------------------------------------
(* Calls and their ids *)

LEMMA AnswerStaysTrue ==
    ASSUME ServerShape, ServerShape', ServerGrows, NEW c, CallShape(c), AnswerIsTrue(c)
    PROVE  AnswerIsTrue(c)'
<1>1. /\ Len(jobs) \in Nat /\ DOMAIN jobs = 1 .. Len(jobs) /\ Len(jobs') \in Nat
      /\ Len(jobs) <= Len(jobs') /\ counts.moves <= counts'.moves
      /\ counts.moves \in Nat /\ counts'.moves \in Nat
    BY SequencesOfTheServer DEF ServerShape, ServerGrows, Counters
<1>2. c.kind \in {"poll", "retry", "finish"} =>
          /\ c.job \in 1 .. Len(jobs) /\ c.job \in 1 .. Len(jobs')
          /\ jobs'[c.job].kind = jobs[c.job].kind
          /\ HasEnded(c.job) => jobs'[c.job].status = jobs[c.job].status
    BY <1>1 DEF AnswerIsTrue, ServerGrows
<1>3. c.kind = "finish" => jobs'[c.job].status = "succeeded"
    BY <1>2 DEF AnswerIsTrue, HasEnded
<1>4. c.kind = "patch" /\ c.status \in {"ok", "conflict"} =>
          IsVersion(c.answer.brief)' /\ c.answer.state \in States
    BY VersionStays DEF AnswerIsTrue
<1>5. c.kind = "start" /\ c.status = "ok" => c.answer \in 1 .. Len(jobs')
    BY <1>1 DEF AnswerIsTrue
<1>6. c.kind = "poll" /\ c.status = "ok" =>
          c.answer = "running" \/ (HasEnded(c.job)' /\ c.answer = jobs'[c.job].status)
    BY <1>2 DEF AnswerIsTrue, HasEnded
<1>7. /\ c.kind = "finish" /\ c.status = "ok"
      /\ jobs'[c.job].kind = "assembly" /\ c.answer # "ready_for_edit"
      => counts'.moves > 0 \/ Len(jobs') > c.job
    BY <1>1, <1>2 DEF AnswerIsTrue
<1> QED BY <1>2, <1>3, <1>4, <1>5, <1>6, <1>7 DEF AnswerIsTrue

\* Calls in flight have as many ids as there are calls.
LEMMA CallsAreFinite ==
    ASSUME CallsInv, NEW cs \in SUBSET calls
    PROVE  /\ IsFiniteSet(cs) /\ Cardinality(cs) <= MaxCalls
           /\ Cardinality(cs) \in Nat
           /\ Cardinality({c.id : c \in cs}) = Cardinality(cs)
<1> DEFINE f == [c \in cs |-> c.id]
           ids == {c.id : c \in cs}
<1>1. \A c \in cs : c.id \in 1 .. MaxCalls
    BY DEF CallsInv, CallsAreTrue, CallShape
<1>2. f \in Injection(cs, 1 .. MaxCalls)
    BY <1>1 DEF CallsInv, IdsDiffer, Injection, IsInjective
<1>3. IsFiniteSet(1 .. MaxCalls) /\ Cardinality(1 .. MaxCalls) = MaxCalls
    BY BoundsAssumption, FS_Interval
<1>4. IsFiniteSet(cs) /\ Cardinality(cs) <= MaxCalls
    <2> HIDE DEF f
    <2> QED BY <1>2, <1>3, FS_Injection
<1>5. f \in Bijection(cs, ids)
    BY DEF CallsInv, IdsDiffer, Injection, IsInjective, Surjection, Bijection
<1>6. Cardinality(ids) = Cardinality(cs)
    <2>1. ExistsBijection(cs, ids)
        BY <1>5 DEF ExistsBijection
    <2> HIDE DEF ids
    <2> QED BY <1>4, <2>1, FS_Bijection
<1> QED BY <1>4, <1>6, FS_CardinalityType

LEMMA AnIdIsFree ==
    ASSUME CallsInv, NEW cs \in SUBSET calls, Cardinality(cs) < MaxCalls,
           NEW id, id = CHOOSE i \in 1 .. MaxCalls : \A c \in cs : c.id # i
    PROVE  id \in 1 .. MaxCalls /\ \A c \in cs : c.id # id
<1> DEFINE ids == {c.id : c \in cs}
<1>1. Cardinality(ids) = Cardinality(cs) /\ Cardinality(cs) \in Nat
    BY CallsAreFinite
<1>2. Cardinality(1 .. MaxCalls) = MaxCalls
    BY BoundsAssumption, FS_Interval
<1>3. ids \subseteq 1 .. MaxCalls
    BY DEF CallsInv, CallsAreTrue, CallShape
<1>4. ids # 1 .. MaxCalls
    <2> HIDE DEF ids
    <2> QED BY <1>1, <1>2, BoundsAssumption
<1>5. \E i \in 1 .. MaxCalls : \A c \in cs : c.id # i
    <2>1. PICK i \in 1 .. MaxCalls : i \notin ids
        BY <1>3, <1>4
    <2> QED BY <2>1
<1> QED BY <1>5

LEMMA FewerCalls ==
    ASSUME CallsInv, NEW c \in calls
    PROVE  Cardinality(calls \ {c}) < MaxCalls
<1>1. IsFiniteSet(calls) /\ Cardinality(calls) <= MaxCalls /\ Cardinality(calls) \in Nat
    BY CallsAreFinite
<1>2. Cardinality(calls \ {c}) = Cardinality(calls) - 1
    BY <1>1, FS_RemoveElement
<1> QED BY <1>1, <1>2, BoundsAssumption

-----------------------------------------------------------------------------
(* Calls that are sent, answered, lost or left behind *)

LEMMA RequestIsCall ==
    ASSUME NEW id \in 1 .. MaxCalls, NEW kind \in Kinds, NEW args,
           "answer" \notin DOMAIN args, FieldsOf(kind) \subseteq DOMAIN args,
           DOMAIN args \cap {"id", "kind", "here", "status"} = {},
           kind = "patch" => args.text \in FirstText .. MaxTexts,
           kind = "start" => args.generation \in {"research", "assembly"},
           kind = "select" => args.key \in Nat,
           NEW c, c = Request(id, kind, args)
    PROVE  /\ CallShape(c) /\ c.id = id /\ c.kind = kind /\ c.status = "sent"
           /\ \A x \in DOMAIN args : c[x] = args[x]
<1>1. /\ DOMAIN c = {"id", "kind", "here", "status"} \cup DOMAIN args
      /\ c = [x \in DOMAIN c |-> c[x]]
      /\ c.id = id /\ c.kind = kind /\ c.status = "sent"
      /\ \A x \in DOMAIN args : c[x] = args[x]
    BY DEF Request, With
<1>2. kind = "patch" => "text" \in DOMAIN args
    BY DEF FieldsOf
<1>3. /\ kind = "start" => "generation" \in DOMAIN args
      /\ kind = "select" => "key" \in DOMAIN args
    BY DEF FieldsOf
<1>4. /\ kind = "patch" => c.text = args.text
      /\ kind = "start" => c.generation = args.generation
      /\ kind = "select" => c.key = args.key
    BY <1>1, <1>2, <1>3
<1> QED BY <1>1, <1>4 DEF CallShape

LEMMA AnswerIsCall ==
    ASSUME NEW c, CallShape(c), c.status = "sent", NEW status \in {"ok", "conflict", "error"},
           NEW answer, NEW d, d = AnsweredCall(c, status, answer)
    PROVE  /\ CallShape(d) /\ d.id = c.id /\ d.kind = c.kind /\ d.status = status
           /\ d.answer = answer
           /\ \A x \in DOMAIN c : x # "status" => d[x] = c[x]
           /\ c.kind \in {"poll", "retry", "finish"} => d.job = c.job
<1>1. /\ DOMAIN d = DOMAIN c \cup {"answer"} /\ d = [x \in DOMAIN d |-> d[x]]
      /\ d.status = status
      /\ d.answer = answer
      /\ \A x \in DOMAIN c : x # "status" => d[x] = c[x]
    BY DEF AnsweredCall, With, CallShape
<1>2. d.id = c.id /\ d.kind = c.kind
    BY <1>1 DEF CallShape
<1>3. /\ c.kind = "patch" => "text" \in DOMAIN c
      /\ c.kind = "start" => "generation" \in DOMAIN c
      /\ c.kind = "select" => "key" \in DOMAIN c
      /\ c.kind \in {"poll", "retry", "finish"} => "job" \in DOMAIN c
    BY DEF CallShape, FieldsOf
<1>4. /\ c.kind = "patch" => d.text = c.text
      /\ c.kind = "start" => d.generation = c.generation
      /\ c.kind = "select" => d.key = c.key
      /\ c.kind \in {"poll", "retry", "finish"} => d.job = c.job
    BY <1>1, <1>3
<1>5. CallShape(d)
    BY <1>1, <1>2, <1>4 DEF CallShape
<1> QED BY <1>1, <1>2, <1>4, <1>5

LEMMA LostIsCall ==
    ASSUME NEW c, CallShape(c), AnswerIsTrue(c), NEW d, d = [c EXCEPT !.status = "error"]
    PROVE  CallShape(d) /\ AnswerIsTrue(d) /\ d.id = c.id
<1>1. /\ DOMAIN d = DOMAIN c /\ d = [x \in DOMAIN d |-> d[x]] /\ d.status = "error"
      /\ \A x \in DOMAIN c : x # "status" => d[x] = c[x]
    BY DEF CallShape
<1>2. d.id = c.id /\ d.kind = c.kind
    BY <1>1 DEF CallShape
<1>3. /\ c.kind = "patch" => d.text = c.text
      /\ c.kind = "start" => d.generation = c.generation
      /\ c.kind = "select" => d.key = c.key
      /\ c.kind \in {"poll", "retry", "finish"} => d.job = c.job
    BY <1>1 DEF CallShape, FieldsOf
<1>4. CallShape(d)
    BY <1>1, <1>2, <1>3 DEF CallShape
<1>5. AnswerIsTrue(d)
    BY <1>1, <1>2, <1>3 DEF AnswerIsTrue
<1> QED BY <1>2, <1>4, <1>5

LEMMA LeftIsCall ==
    ASSUME NEW c, CallShape(c), AnswerIsTrue(c), NEW d, d = [c EXCEPT !.here = FALSE]
    PROVE  CallShape(d) /\ AnswerIsTrue(d) /\ d.id = c.id
<1>1. /\ DOMAIN d = DOMAIN c /\ d = [x \in DOMAIN d |-> d[x]]
      /\ \A x \in DOMAIN c : x # "here" => d[x] = c[x]
    BY DEF CallShape
<1>2. d.id = c.id /\ d.kind = c.kind /\ d.status = c.status
    BY <1>1 DEF CallShape
<1>3. /\ c.kind = "patch" => d.text = c.text
      /\ c.kind = "start" => d.generation = c.generation
      /\ c.kind = "select" => d.key = c.key
      /\ c.kind \in {"poll", "retry", "finish"} => d.job = c.job
    BY <1>1 DEF CallShape, FieldsOf
<1>4. CallShape(d)
    BY <1>1, <1>2, <1>3 DEF CallShape
<1>5. c.status \in {"ok", "conflict"} => d.answer = c.answer
    BY <1>1 DEF CallShape
<1>6. AnswerIsTrue(d)
    BY <1>2, <1>3, <1>5 DEF AnswerIsTrue
<1> QED BY <1>2, <1>4, <1>6

\* Calls that are kept, perhaps as those of a page that has been left.
Kept(kept, cs) ==
    /\ \A e \in kept : CallShape(e) /\ AnswerIsTrue(e) /\ \E c \in cs : e.id = c.id
    /\ \A e, g \in kept : e.id = g.id => e = g

LEMMA CallsAreKept ==
    ASSUME CallsInv, NEW cs \in SUBSET calls
    PROVE  Kept(cs, cs) /\ Kept(Left(cs), cs)
<1>1. Kept(cs, cs)
    BY DEF CallsInv, CallsAreTrue, IdsDiffer, Kept
<1>2. ASSUME NEW e \in Left(cs)
      PROVE  \E c \in cs : /\ e = [c EXCEPT !.here = FALSE]
                           /\ CallShape(e) /\ AnswerIsTrue(e) /\ e.id = c.id
    <2>1. PICK c \in cs : e = [c EXCEPT !.here = FALSE]
        BY DEF Left
    <2>2. CallShape(c) /\ AnswerIsTrue(c)
        BY DEF CallsInv, CallsAreTrue
    <2>3. CallShape(e) /\ AnswerIsTrue(e) /\ e.id = c.id
        BY ONLY <2>1, <2>2, LeftIsCall
    <2> QED BY <2>1, <2>3
<1>3. ASSUME NEW e \in Left(cs), NEW g \in Left(cs), e.id = g.id
      PROVE  e = g
    <2>1. PICK c \in cs : e = [c EXCEPT !.here = FALSE] /\ e.id = c.id
        BY <1>2
    <2>2. PICK d \in cs : g = [d EXCEPT !.here = FALSE] /\ g.id = d.id
        BY <1>2
    <2>3. c = d
        BY <1>3, <2>1, <2>2 DEF CallsInv, IdsDiffer
    <2> QED BY <2>1, <2>2, <2>3
<1> QED BY <1>1, <1>2, <1>3 DEF Kept

LEMMA FewerCallsAreTrue ==
    ASSUME ServerInv, ServerInv', ServerGrows, CallsInv,
           NEW cs \in SUBSET calls, calls' \in {cs, Left(cs)}
    PROVE  CallsInv'
<1>1. Kept(calls', cs)
    BY CallsAreKept
<1>2. CallsAreTrue'
    BY <1>1, AnswerStaysTrue DEF Kept, CallsAreTrue, ServerInv, CallShape
<1> QED BY <1>1, <1>2 DEF Kept, CallsInv, IdsDiffer

\* One call is answered, lost, or goes on as another one.
LEMMA CallBecomes ==
    ASSUME ServerInv, ServerInv', ServerGrows, CallsInv,
           NEW c \in calls, NEW d, CallShape(d), AnswerIsTrue(d)', d.id = c.id,
           calls' = (calls \ {c}) \cup {d}
    PROVE  CallsInv'
<1>1. CallsAreTrue'
    <2>1. \A e \in calls : CallShape(e) /\ AnswerIsTrue(e)'
        BY AnswerStaysTrue DEF CallsInv, CallsAreTrue, ServerInv
    <2> QED BY <2>1 DEF CallsAreTrue, CallShape
<1>2. IdsDiffer'
    BY DEF CallsInv, IdsDiffer
<1> QED BY <1>1, <1>2 DEF CallsInv

LEMMA CallIsAdded ==
    ASSUME ServerInv, ServerInv', ServerGrows, CallsInv,
           NEW cs \in SUBSET calls, Cardinality(cs) < MaxCalls,
           NEW kept \in {cs, Left(cs)},
           NEW kind \in Kinds \ {"finish"}, NEW args,
           "answer" \notin DOMAIN args, FieldsOf(kind) \subseteq DOMAIN args,
           DOMAIN args \cap {"id", "kind", "here", "status"} = {},
           kind = "patch" => args.text \in FirstText .. MaxTexts,
           kind = "start" => args.generation \in {"research", "assembly"},
           kind = "select" => args.key \in Nat,
           kind \in {"poll", "retry"} => args.job \in 1 .. Len(jobs),
           calls' = kept \cup
               {Request(CHOOSE i \in 1 .. MaxCalls : \A c \in cs : c.id # i, kind, args)}
    PROVE  CallsInv'
<1>1. Kept(kept, cs)
    BY CallsAreKept
<1>2. PICK id : id = CHOOSE i \in 1 .. MaxCalls : \A c \in cs : c.id # i
    OBVIOUS
<1>3. id \in 1 .. MaxCalls /\ \A c \in cs : c.id # id
    BY <1>2, AnIdIsFree
<1>4. PICK d : d = Request(id, kind, args)
    OBVIOUS
<1>5. calls' = kept \cup {d}
    BY <1>2, <1>4
<1>6. /\ CallShape(d) /\ d.id = id /\ d.kind = kind /\ d.status = "sent"
      /\ \A x \in DOMAIN args : d[x] = args[x]
    BY <1>3, <1>4, RequestIsCall
<1>7. AnswerIsTrue(d)'
    <2>1. kind \in {"poll", "retry"} => d.job \in 1 .. Len(jobs')
        <3>1. Len(jobs) \in Nat /\ Len(jobs') \in Nat /\ Len(jobs) <= Len(jobs')
            BY SequencesOfTheServer DEF ServerInv, ServerGrows
        <3>2. kind \in {"poll", "retry"} => d.job = args.job
            BY <1>6 DEF FieldsOf
        <3> QED BY <3>1, <3>2
    <2> QED BY <1>6, <2>1 DEF AnswerIsTrue
<1>8. \A e \in kept : CallShape(e) /\ AnswerIsTrue(e)' /\ e.id # id
    <2>1. \A e \in kept : CallShape(e) /\ AnswerIsTrue(e) /\ e.id # id
        BY <1>1, <1>3 DEF Kept
    <2> QED BY <2>1, AnswerStaysTrue DEF ServerInv
<1>9. CallsAreTrue'
    BY <1>5, <1>6, <1>7, <1>8 DEF CallsAreTrue, CallShape
<1>10. IdsDiffer'
    BY <1>1, <1>5, <1>6, <1>8 DEF Kept, IdsDiffer
<1> QED BY <1>9, <1>10 DEF CallsInv

-----------------------------------------------------------------------------
(* The tab *)

LEMMA ShownEndStays ==
    ASSUME ServerInv, ServerInv', ServerGrows, WatchIsTrue, UNCHANGED watch
    PROVE  WatchIsTrue'
<1>1. /\ Len(jobs) \in Nat /\ DOMAIN jobs = 1 .. Len(jobs) /\ Len(jobs') \in Nat
      /\ Len(jobs) <= Len(jobs') /\ counts.moves <= counts'.moves
      /\ counts.moves \in Nat /\ counts'.moves \in Nat
    BY SequencesOfTheServer DEF ServerInv, ServerShape, ServerGrows, Counters
<1>2. watch' \in Watches'
    BY <1>1 DEF WatchIsTrue, Watches
<1>3. watch.end # "none" =>
          /\ watch.of \in 1 .. Len(jobs) /\ watch.of \in 1 .. Len(jobs')
          /\ jobs'[watch.of].kind = jobs[watch.of].kind
          /\ HasEnded(watch.of) => jobs'[watch.of].status = jobs[watch.of].status
    BY <1>1 DEF WatchIsTrue, ServerGrows
<1>4. ShownEndIsTrue'
    <2>1. ShownEndIsTrue /\ watch.end \in {"none", "failed", "research_done", "mismatch"}
        BY DEF WatchIsTrue, Watches
    <2>2. CASE watch.end = "failed"
        BY <1>3, <2>1, <2>2 DEF ShownEndIsTrue, HasEnded
    <2>3. CASE watch.end = "research_done"
        BY <1>3, <2>1, <2>3 DEF ShownEndIsTrue, HasEnded
    <2>4. CASE watch.end = "mismatch"
        BY <1>1, <1>3, <2>1, <2>4 DEF ShownEndIsTrue, HasEnded
    <2>5. CASE watch.end = "none"
        BY <2>5 DEF ShownEndIsTrue
    <2> QED BY <2>1, <2>2, <2>3, <2>4, <2>5
<1> QED BY <1>2, <1>3, <1>4 DEF WatchIsTrue

\* A step of the server, or of another tab.
LEMMA TabStays ==
    ASSUME ServerInv, ServerInv', ServerGrows, TabInv,
           UNCHANGED <<page, briefVars, watch, cache, activeJob>>
    PROVE  TabInv'
<1>1. Len(jobs) \in Nat /\ Len(jobs') \in Nat /\ Len(jobs) <= Len(jobs')
    BY SequencesOfTheServer DEF ServerInv, ServerGrows
<1>2. IsVersion(baseline)' /\ IsVersion(cache.brief)'
    <2>1. \A b : IsVersion(b) => IsVersion(b)'
        BY VersionStays
    <2> QED BY <2>1 DEF TabInv, PageShape, IsVersion, briefVars
<1>3. PageShape'
    BY <1>1, <1>2 DEF TabInv, PageShape, briefVars
<1>4. WatchIsTrue'
    BY ShownEndStays DEF TabInv
<1> QED BY <1>3, <1>4 DEF TabInv

-----------------------------------------------------------------------------
(* Steps of the API and of other tabs *)

LEMMA CountsAreTyped ==
    ASSUME ServerShape
    PROVE  /\ counts.moves \in Nat /\ counts.texts \in Nat
           /\ \A what \in {"visits", "lost"} :
                 Count(what) => counts' \in Counters /\ counts'.moves = counts.moves
           /\ Count("moves") => counts' \in Counters /\ counts'.moves = counts.moves + 1
           /\ counts.texts < MaxTexts =>
                 /\ counts.texts + 1 \in FirstText .. MaxTexts
                 /\ Count("texts") => counts' \in Counters /\ counts'.moves = counts.moves
<1>1. counts \in Counters /\ MaxTexts \in Nat
    BY BoundsAssumption DEF ServerShape
<1>2. ASSUME NEW what \in {"visits", "lost"}, Count(what)
      PROVE  counts' \in Counters /\ counts'.moves = counts.moves
    <2>1. CASE what = "visits"
        BY <1>1, <1>2, <2>1 DEF Count, Counters
    <2>2. CASE what = "lost"
        BY <1>1, <1>2, <2>2 DEF Count, Counters
    <2> QED BY <2>1, <2>2
<1>3. Count("moves") => counts' \in Counters /\ counts'.moves = counts.moves + 1
    BY <1>1 DEF Count, Counters
<1>4. ASSUME counts.texts < MaxTexts
      PROVE  /\ counts.texts + 1 \in FirstText .. MaxTexts
             /\ Count("texts") => counts' \in Counters /\ counts'.moves = counts.moves
    <2>1. counts.texts + 1 \in FirstText .. MaxTexts
        BY <1>1, <1>4 DEF Counters, FirstText
    <2> QED BY <1>1, <2>1 DEF Count, Counters
<1>5. counts.moves \in Nat /\ counts.texts \in Nat
    BY <1>1 DEF Counters, FirstText
<1> QED BY <1>2, <1>3, <1>4, <1>5

LEMMA ServePatchKeepsInv ==
    ASSUME SessionInv, NEW c \in calls, ServePatch(c)
    PROVE  SessionInv'
<1>1. CallShape(c) /\ AnswerIsTrue(c) /\ c.kind = "patch" /\ c.status = "sent"
    BY DEF SessionInv, CallsInv, CallsAreTrue, ServePatch
<1>2. PICK result : result = [brief |-> [version |-> Len(briefs'), text |-> Last(briefs')],
                              state |-> workflow]
    OBVIOUS
<1>3. PICK status \in {"ok", "conflict", "error"} : Answered(c, status, result)
    BY <1>2 DEF ServePatch
<1>4. ServerInv' /\ ServerGrows
    <2>1. counts \in Counters
        BY DEF SessionInv, ServerInv, ServerShape
    <2>2. UNCHANGED <<workflow, jobs, selectedKey, counts>> /\ counts.moves <= counts'.moves
        BY <2>1 DEF ServePatch, Counters
    <2>3. briefs' = briefs \/ briefs' = Append(briefs, c.text)
        BY DEF ServePatch
    <2>4. c.text \in FirstText .. MaxTexts
        BY <1>1 DEF CallShape
    <2>5. CASE briefs' = briefs
        BY <2>1, <2>2, <2>5, ServerStays DEF SessionInv, serverVars
    <2>6. CASE briefs' = Append(briefs, c.text)
        BY <2>1, <2>2, <2>4, <2>6, BriefIsAdded DEF SessionInv
    <2> QED BY <2>3, <2>5, <2>6
<1>5. IsVersion(result.brief)' /\ result.state \in States
    <2>1. IsVersion([version |-> Len(briefs), text |-> Last(briefs)])'
        <3>1. briefs' \in Seq(FirstText .. MaxTexts) /\ briefs' # <<>>
            BY <1>4 DEF ServerInv, ServerShape
        <3>2. /\ Len(briefs') \in DOMAIN briefs' /\ Len(briefs') \in Nat
              /\ Last(briefs') = briefs'[Len(briefs')] /\ Last(briefs') \in FirstText .. MaxTexts
            BY <3>1, LastIsInTheSequence
        <3> QED BY <3>2 DEF IsVersion
    <2>2. workflow \in States
        BY DEF SessionInv, ServerInv, ServerShape
    <2> QED BY <1>2, <2>1, <2>2 DEF IsVersion
<1>6. PICK d : d = AnsweredCall(c, status, result)
    OBVIOUS
<1>7. CallShape(d) /\ d.id = c.id /\ d.kind = "patch" /\ d.answer = result
    BY <1>1, <1>6, AnswerIsCall
<1>8. AnswerIsTrue(d)'
    BY <1>5, <1>7 DEF AnswerIsTrue
<1>9. CallsInv'
    BY <1>3, <1>4, <1>6, <1>7, <1>8, CallBecomes DEF SessionInv, Answered
<1>10. TabInv'
    BY <1>4, TabStays DEF SessionInv, ServePatch
<1> QED BY <1>4, <1>9, <1>10 DEF SessionInv

LEMMA ServeStartKeepsInv ==
    ASSUME SessionInv, NEW c \in calls, ServeStart(c)
    PROVE  SessionInv'
<1>1. /\ CallShape(c) /\ AnswerIsTrue(c) /\ c.kind = "start" /\ c.status = "sent"
      /\ c.generation \in {"research", "assembly"}
    BY DEF SessionInv, CallsInv, CallsAreTrue, ServeStart, CallShape
<1>2. /\ counts \in Counters
      /\ UNCHANGED <<briefs, selectedKey, counts>> /\ counts.moves <= counts'.moves
    BY DEF SessionInv, ServerInv, ServerShape, ServeStart, Counters
<1>3. PICK status, answer :
         /\ status \in {"ok", "error"}
         /\ Answered(c, status, answer)
         /\ ServerInv' /\ ServerGrows
         /\ status = "ok" => answer \in 1 .. Len(jobs')
    <2>1. CASE Startable(c.generation)
        <3>1. NewJob(c.generation) /\ Answered(c, "ok", Len(jobs'))
            BY <2>1 DEF ServeStart
        <3>2. ServerInv' /\ ServerGrows /\ Len(jobs') \in 1 .. Len(jobs')
            BY <1>1, <1>2, <2>1, <3>1, JobIsAdded DEF SessionInv
        <3> QED BY <3>1, <3>2
    <2>2. CASE ~Startable(c.generation)
        <3>1. UNCHANGED <<workflow, jobs>> /\ Answered(c, "error", 0)
            BY <2>2 DEF ServeStart
        <3>2. ServerInv' /\ ServerGrows
            BY <1>2, <3>1, ServerStays DEF SessionInv, serverVars
        <3> QED BY <3>1, <3>2
    <2> QED BY <2>1, <2>2
<1>4. PICK d : d = AnsweredCall(c, status, answer) /\ status \in {"ok", "conflict", "error"}
    BY <1>3
<1>5. CallShape(d) /\ d.id = c.id /\ d.kind = "start" /\ d.status = status /\ d.answer = answer
    BY <1>1, <1>4, AnswerIsCall
<1>6. AnswerIsTrue(d)'
    BY <1>3, <1>5 DEF AnswerIsTrue
<1>7. CallsInv'
    BY <1>3, <1>4, <1>5, <1>6, CallBecomes DEF SessionInv, Answered
<1>8. TabInv'
    BY <1>3, TabStays DEF SessionInv, ServeStart
<1> QED BY <1>3, <1>7, <1>8 DEF SessionInv

LEMMA ServeSelectKeepsInv ==
    ASSUME SessionInv, NEW c \in calls, ServeSelect(c)
    PROVE  SessionInv'
<1>1. /\ CallShape(c) /\ AnswerIsTrue(c) /\ c.kind = "select" /\ c.status = "sent"
      /\ c.key \in Nat
    BY DEF SessionInv, CallsInv, CallsAreTrue, ServeSelect, CallShape
<1>2. /\ counts \in Counters
      /\ UNCHANGED <<briefs, jobs, counts>> /\ counts.moves <= counts'.moves
      /\ workflow \in States
    BY DEF SessionInv, ServerInv, ServerShape, ServeSelect, Counters
<1>3. PICK status \in {"ok", "error"}, answer \in States : Answered(c, status, answer)
    BY <1>2 DEF ServeSelect, States, Restful
<1>4. ServerInv' /\ ServerGrows
    <2>1. CASE c.key # selectedKey /\ workflow = "awaiting_framing_choice"
        <3>1. workflow' = "ready_for_edit" /\ selectedKey' \in Nat
            BY <1>1, <2>1 DEF ServeSelect
        <3>2. workflow' \in States /\ workflow \in Restful
            BY <2>1, <3>1 DEF States, Restful
        <3> QED BY <1>2, <3>1, <3>2, StoryMoves DEF SessionInv
    <2>2. CASE c.key = selectedKey \/ workflow # "awaiting_framing_choice"
        <3>1. UNCHANGED <<workflow, selectedKey>>
            BY <2>2 DEF ServeSelect
        <3> QED BY <1>2, <3>1, ServerStays DEF SessionInv, serverVars
    <2> QED BY <2>1, <2>2
<1>5. PICK d : d = AnsweredCall(c, status, answer)
    OBVIOUS
<1>6. CallShape(d) /\ d.id = c.id /\ d.kind = "select" /\ d.answer = answer
    BY <1>1, <1>5, AnswerIsCall
<1>7. AnswerIsTrue(d)'
    BY <1>3, <1>6 DEF AnswerIsTrue
<1>8. CallsInv'
    BY <1>3, <1>4, <1>5, <1>6, <1>7, CallBecomes DEF SessionInv, Answered
<1>9. TabInv'
    BY <1>4, TabStays DEF SessionInv, ServeSelect
<1> QED BY <1>4, <1>8, <1>9 DEF SessionInv

LEMMA ServeReadKeepsInv ==
    ASSUME SessionInv, NEW c \in calls, ServeRead(c)
    PROVE  SessionInv'
<1>1. CallShape(c) /\ AnswerIsTrue(c) /\ c.status = "sent"
    BY DEF SessionInv, CallsInv, CallsAreTrue, ServeRead
<1>2. UNCHANGED <<serverVars, page, briefVars, watch, cache, activeJob, counts>>
    BY DEF ServeRead
<1>3. ServerInv' /\ ServerGrows
    BY <1>2, ServerStays DEF SessionInv, ServerInv, ServerShape
<1>4. PICK answer :
         /\ Answered(c, "ok", answer)
         /\ \/ c.kind \in {"poll", "retry"} /\ answer = jobs[c.job].status
            \/ c.kind \in {"state", "finish"} /\ answer = workflow
    BY DEF ServeRead
<1>5. PICK d : d = AnsweredCall(c, "ok", answer)
    OBVIOUS
<1>6. /\ CallShape(d) /\ d.id = c.id /\ d.kind = c.kind /\ d.status = "ok" /\ d.answer = answer
      /\ c.kind \in {"poll", "retry", "finish"} => d.job = c.job
    BY <1>1, <1>5, AnswerIsCall
<1>7. AnswerIsTrue(d)
    <2>1. CASE c.kind \in {"poll", "retry"}
        <3>1. c.job \in 1 .. Len(jobs) /\ jobs[c.job] \in Jobs
            BY <1>1, <2>1, SequencesOfTheServer DEF AnswerIsTrue, SessionInv, ServerInv
        <3>2. answer \in {"running", "succeeded", "failed"} /\ answer = jobs[c.job].status
            BY <1>4, <2>1, <3>1 DEF Jobs
        <3> QED BY <1>6, <2>1, <3>1, <3>2 DEF AnswerIsTrue, HasEnded
    <2>2. CASE c.kind = "finish"
        <3>1. c.job \in DOMAIN jobs /\ jobs[c.job].status = "succeeded"
            BY <1>1, <2>2, SequencesOfTheServer DEF AnswerIsTrue, SessionInv, ServerInv
        <3>2. jobs[c.job].kind = "assembly" /\ answer # "ready_for_edit" =>
                 counts.moves > 0 \/ Len(jobs) > c.job
            BY <1>4, <2>2, <3>1 DEF SessionInv, ServerInv, AssembledIsReady
        <3> QED BY <1>1, <1>6, <2>2, <3>1, <3>2 DEF AnswerIsTrue
    <2>3. CASE c.kind = "state"
        <3>1. answer \in States
            BY <1>4, <2>3 DEF SessionInv, ServerInv, ServerShape
        <3> QED BY <1>6, <2>3, <3>1 DEF AnswerIsTrue
    <2> QED BY <1>4, <2>1, <2>2, <2>3
<1>8. AnswerIsTrue(d)'
    BY <1>3, <1>6, <1>7, AnswerStaysTrue DEF SessionInv, ServerInv
<1>9. CallsInv'
    BY <1>3, <1>4, <1>5, <1>6, <1>8, CallBecomes DEF SessionInv, Answered
<1>10. TabInv'
    BY <1>2, <1>3, TabStays DEF SessionInv
<1> QED BY <1>3, <1>9, <1>10 DEF SessionInv

LEMMA CallFailsKeepsInv ==
    ASSUME SessionInv, NEW c \in calls, CallFails(c)
    PROVE  SessionInv'
<1>1. UNCHANGED <<serverVars, page, briefVars, watch, cache, activeJob>>
    BY DEF CallFails
<1>2. /\ counts' \in Counters
      /\ counts'.moves = counts.moves
    BY CountsAreTyped DEF SessionInv, ServerInv, CallFails, Count
<1>3. ServerInv' /\ ServerGrows
    BY <1>1, <1>2, ServerStays DEF SessionInv
<1>4. PICK d : d = [c EXCEPT !.status = "error"]
    OBVIOUS
<1>5. CallShape(c) /\ AnswerIsTrue(c)
    BY DEF SessionInv, CallsInv, CallsAreTrue
<1>6. CallShape(d) /\ AnswerIsTrue(d) /\ d.id = c.id
    BY ONLY <1>4, <1>5, LostIsCall
<1>7. AnswerIsTrue(d)'
    BY <1>3, <1>6, AnswerStaysTrue DEF SessionInv, ServerInv
<1>8. CallsInv'
    BY <1>3, <1>4, <1>6, <1>7, CallBecomes DEF SessionInv, CallFails
<1>9. TabInv'
    BY <1>1, <1>3, TabStays DEF SessionInv
<1> QED BY <1>3, <1>8, <1>9 DEF SessionInv

LEMMA OthersKeepInv ==
    ASSUME SessionInv,
           \/ \E j \in DOMAIN jobs, status \in {"succeeded", "failed"} : JobEnds(j, status)
           \/ Elsewhere
    PROVE  SessionInv'
<1>1. UNCHANGED <<page, briefVars, watch, cache, activeJob, calls>>
    BY DEF JobEnds, Elsewhere
<1>2. counts.moves \in Nat /\ counts.texts \in Nat /\ workflow \in States
      /\ selectedKey \in Nat
    BY CountsAreTyped DEF SessionInv, ServerInv, ServerShape
<1>3. ServerInv' /\ ServerGrows
    <2>1. ASSUME NEW j \in DOMAIN jobs, NEW status \in {"succeeded", "failed"},
                 JobEnds(j, status)
          PROVE  ServerInv' /\ ServerGrows
        BY <2>1, JobEndsServer DEF SessionInv
    <2>2. CASE /\ workflow \in Restful /\ counts.texts < MaxTexts
               /\ briefs' = Append(briefs, counts.texts + 1)
               /\ counts' = [counts EXCEPT !.moves = @ + 1, !.texts = @ + 1]
               /\ UNCHANGED <<workflow, jobs, selectedKey>>
        <3>1. counts.texts + 1 \in FirstText .. MaxTexts
            BY <1>2, <2>2, CountsAreTyped DEF SessionInv, ServerInv
        <3>2. /\ counts' \in Counters
              /\ counts.moves <= counts'.moves
            <4>1. counts \in Counters
                BY DEF SessionInv, ServerInv, ServerShape
            <4>2. counts' = [texts |-> counts.texts + 1, moves |-> counts.moves + 1,
                             visits |-> counts.visits, lost |-> counts.lost]
                BY <2>2, <4>1 DEF Counters
            <4> QED BY <1>2, <3>1, <4>1, <4>2 DEF Counters
        <3> QED BY <2>2, <3>1, <3>2, BriefIsAdded DEF SessionInv
    <2>3. CASE /\ workflow = "ready_for_edit" /\ workflow' = "published"
               /\ Count("moves") /\ UNCHANGED <<briefs, jobs, selectedKey>>
        <3>1. /\ counts' \in Counters
              /\ counts'.moves = counts.moves + 1
            BY <2>3, CountsAreTyped DEF SessionInv, ServerInv, Count
        <3>2. /\ counts.moves <= counts'.moves /\ counts'.moves > 0
              /\ workflow' \in States /\ workflow \in Restful
              /\ selectedKey' \in Nat
            BY <1>2, <2>3, <3>1 DEF States, Restful
        <3> QED BY <2>3, <3>1, <3>2, StoryMoves DEF SessionInv
    <2>4. ASSUME NEW generation \in {"research", "assembly"}, Startable(generation),
                 NewJob(generation), Count("moves"), UNCHANGED <<briefs, selectedKey>>
          PROVE  ServerInv' /\ ServerGrows
        <3>1. /\ counts' \in Counters
              /\ counts'.moves = counts.moves + 1
            BY <2>4, CountsAreTyped DEF SessionInv, ServerInv, Count
        <3>2. counts.moves <= counts'.moves
            BY <1>2, <3>1
        <3> QED BY <2>4, <3>1, <3>2, JobIsAdded DEF SessionInv
    <2> QED BY <2>1, <2>2, <2>3, <2>4 DEF Elsewhere
<1>4. CallsInv'
    BY <1>1, <1>3, FewerCallsAreTrue DEF SessionInv
<1>5. TabInv'
    BY <1>1, <1>3, TabStays DEF SessionInv
<1> QED BY <1>3, <1>4, <1>5 DEF SessionInv

-----------------------------------------------------------------------------
(* Steps of the tab: what it shows *)

\* The page says of the end what it said before.
LEMMA WatchSaysTheSame ==
    ASSUME WatchIsTrue, UNCHANGED jobs, counts'.moves = counts.moves,
           watch' \in Watches, watch'.end = watch.end, watch'.of = watch.of
    PROVE  WatchIsTrue'
BY DEF WatchIsTrue, Watches, ShownEndIsTrue

LEMMA WatchStartsAnew ==
    ASSUME ServerInv, UNCHANGED jobs, watch' = Unwatched
    PROVE  WatchIsTrue'
<1>1. Len(jobs) \in Nat
    BY SequencesOfTheServer DEF ServerInv
<1> QED BY <1>1 DEF WatchIsTrue, Watches, ShownEndIsTrue, Unwatched

LEMMA ShowBriefIsShape ==
    ASSUME SessionInv, UNCHANGED serverVars, NEW b, NEW state \in States, IsVersion(b),
           ShowBrief(b, state), activeJob' \in 0 .. Len(jobs),
           cache' = cache \/ \E st \in States : cache' = [cache EXCEPT !.state = st]
    PROVE  PageShape' /\ WatchIsTrue'
<1>1. Len(jobs) \in Nat
    BY SequencesOfTheServer DEF SessionInv, ServerInv
<1>2. IsVersion(b)' /\ b.text \in FirstText .. MaxTexts
    BY DEF IsVersion, serverVars
<1>3. /\ cache' = [brief |-> cache'.brief, state |-> cache'.state]
      /\ cache'.brief = cache.brief /\ cache'.state \in States
    BY DEF SessionInv, TabInv, PageShape
<1>4. IsVersion(cache.brief)'
    <2>1. IsVersion(cache.brief)
        BY DEF SessionInv, TabInv, PageShape
    <2> QED BY <1>3, <2>1 DEF IsVersion, serverVars
<1>5. PageShape'
    BY <1>1, <1>2, <1>3, <1>4 DEF PageShape, ShowBrief, Pages, serverVars, IsVersion
<1> QED BY <1>5, WatchStartsAnew DEF SessionInv, ShowBrief, serverVars

LEMMA BriefGoneIsShape ==
    ASSUME SessionInv, UNCHANGED <<serverVars, cache>>, BriefGone,
           activeJob' \in 0 .. Len(jobs),
           page' \in [at : Pages, job : 0 .. Len(jobs)], page'.at = "job" <=> page'.job # 0
    PROVE  PageShape'
<1>1. IsVersion(FirstBrief)
    BY TheBriefIsAVersion DEF SessionInv, ServerInv
<1>2. IsVersion(baseline)' /\ FirstText \in FirstText .. MaxTexts
    BY <1>1, BoundsAssumption DEF IsVersion, serverVars, BriefGone, FirstText
<1>3. IsVersion(cache.brief)'
    BY DEF SessionInv, TabInv, PageShape, IsVersion, serverVars
<1> QED BY <1>2, <1>3
        DEF SessionInv, TabInv, PageShape, BriefGone, serverVars, States, Restful

LEMMA ShowPageIsShape ==
    ASSUME SessionInv, UNCHANGED <<serverVars, cache>>, NEW at \in {"framing", "draft"},
           ShowPage(at), activeJob' \in 0 .. Len(jobs)
    PROVE  PageShape' /\ WatchIsTrue'
<1>1. Len(jobs) \in Nat
    BY SequencesOfTheServer DEF SessionInv, ServerInv
<1>2. page' \in [at : Pages, job : 0 .. Len(jobs)] /\ (page'.at = "job" <=> page'.job # 0)
    BY <1>1 DEF ShowPage, Pages
<1> QED BY <1>2, BriefGoneIsShape, WatchStartsAnew DEF SessionInv, ShowPage, serverVars

LEMMA ShowJobIsShape ==
    ASSUME SessionInv, UNCHANGED <<serverVars, cache>>, counts'.moves = counts.moves,
           NEW j \in 1 .. Len(jobs), ShowJob(j)
    PROVE  PageShape' /\ WatchIsTrue'
<1>1. Len(jobs) \in Nat
    BY SequencesOfTheServer DEF SessionInv, ServerInv
<1>2. /\ page' \in [at : Pages, job : 0 .. Len(jobs)] /\ (page'.at = "job" <=> page'.job # 0)
      /\ activeJob' \in 0 .. Len(jobs)
    BY <1>1 DEF ShowJob, Pages
<1>3. PageShape'
    BY <1>2, BriefGoneIsShape DEF ShowJob
<1>4. WatchIsTrue'
    <2>1. CASE watch' = Unwatched
        BY <2>1, WatchStartsAnew DEF SessionInv, serverVars
    <2>2. CASE watch' = [watch EXCEPT !.stopped = FALSE]
        <3>1. watch \in Watches
            BY DEF SessionInv, TabInv, WatchIsTrue
        <3>2. watch' \in Watches /\ watch'.end = watch.end /\ watch'.of = watch.of
            BY <2>2, <3>1 DEF Watches
        <3> QED BY <3>2, WatchSaysTheSame DEF SessionInv, TabInv, serverVars
    <2> QED BY <2>1, <2>2 DEF ShowJob
<1> QED BY <1>3, <1>4

\* The page stays, with what it watches.
LEMMA PageAndWatchStay ==
    ASSUME SessionInv, UNCHANGED <<serverVars, page, baseline, form, armed, watch, cache,
                                   activeJob>>,
           counts'.moves = counts.moves, shownState' \in States
    PROVE  PageShape' /\ WatchIsTrue'
<1>1. watch' \in Watches /\ watch'.end = watch.end /\ watch'.of = watch.of
    BY DEF SessionInv, TabInv, WatchIsTrue
<1>2. IsVersion(baseline)' /\ IsVersion(cache.brief)'
    BY DEF SessionInv, TabInv, PageShape, IsVersion, serverVars
<1>3. PageShape'
    BY <1>2 DEF SessionInv, TabInv, PageShape, serverVars
<1> QED BY <1>1, <1>3, WatchSaysTheSame DEF SessionInv, TabInv, serverVars

-----------------------------------------------------------------------------
(* Steps of the tab: pages, the brief and the framing *)

\* What every step of the tab leaves as it was.
LEMMA ServerAtTabSteps ==
    ASSUME SessionInv, UNCHANGED serverVars, counts' \in Counters,
           counts'.moves = counts.moves
    PROVE  ServerInv' /\ ServerGrows
BY ServerStays DEF SessionInv

LEMMA CountsStay ==
    ASSUME SessionInv
    PROVE  /\ UNCHANGED counts => counts' \in Counters /\ counts'.moves = counts.moves
           /\ Count("visits") => counts' \in Counters /\ counts'.moves = counts.moves
           /\ shownState \in States /\ activeJob \in 0 .. Len(jobs)
           /\ IsVersion(baseline) /\ IsVersion(cache.brief) /\ cache.state \in States
           /\ form \in FirstText .. MaxTexts
<1>1. counts \in Counters
    BY DEF SessionInv, ServerInv, ServerShape
<1>2. Count("visits") => counts' \in Counters /\ counts'.moves = counts.moves
    BY CountsAreTyped DEF SessionInv, ServerInv
<1> QED BY <1>1, <1>2 DEF SessionInv, TabInv, PageShape

LEMMA SendAddsCall ==
    ASSUME SessionInv, ServerInv', ServerGrows, NEW kind \in Kinds \ {"finish"}, NEW args,
           "answer" \notin DOMAIN args, FieldsOf(kind) \subseteq DOMAIN args,
           DOMAIN args \cap {"id", "kind", "here", "status"} = {},
           kind = "patch" => args.text \in FirstText .. MaxTexts,
           kind = "start" => args.generation \in {"research", "assembly"},
           kind = "select" => args.key \in Nat,
           kind \in {"poll", "retry"} => args.job \in 1 .. Len(jobs),
           Send(kind, args)
    PROVE  CallsInv'
<1>1. calls' = calls \cup
          {Request(CHOOSE i \in 1 .. MaxCalls : \A c \in calls : c.id # i, kind, args)}
    BY DEF Send, NewId
<1>2. Cardinality(calls) < MaxCalls /\ calls \in SUBSET calls
    BY DEF Send, Room
<1>3. calls \in {calls, Left(calls)}
    OBVIOUS
<1> QED BY <1>1, <1>2, <1>3, CallIsAdded DEF SessionInv

LEMMA LeaveAddsCall ==
    ASSUME SessionInv, ServerInv', ServerGrows, NEW cs \in SUBSET calls,
           Cardinality(cs) < MaxCalls,
           NEW kind \in {"state", "poll"}, NEW args,
           "answer" \notin DOMAIN args, FieldsOf(kind) \subseteq DOMAIN args,
           DOMAIN args \cap {"id", "kind", "here", "status"} = {},
           kind = "poll" => args.job \in 1 .. Len(jobs),
           LeaveWith(cs, kind, args)
    PROVE  CallsInv'
<1>1. PICK kept \in {cs, Left(cs)} :
          calls' = kept \cup
              {Request(CHOOSE i \in 1 .. MaxCalls : \A c \in cs : c.id # i, kind, args)}
    BY DEF LeaveWith
<1>2. kind \in Kinds \ {"finish"} /\ kind \notin {"patch", "start", "retry"}
    BY DEF Kinds
<1> QED BY <1>1, <1>2, CallIsAdded DEF SessionInv

LEMMA CallIsDone ==
    ASSUME SessionInv, ServerInv', ServerGrows, NEW c \in calls,
           calls' \in {calls \ {c}, Left(calls \ {c})}
    PROVE  CallsInv'
<1>1. calls \ {c} \in SUBSET calls
    OBVIOUS
<1> QED BY <1>1, FewerCallsAreTrue DEF SessionInv

LEMMA TypeAndFireKeepInv ==
    ASSUME SessionInv, Type \/ Fire
    PROVE  SessionInv'
<1>1. CASE Type
    <2>1. /\ counts' \in Counters /\ counts'.moves = counts.moves
          /\ form' \in FirstText .. MaxTexts
        BY <1>1, CountsAreTyped DEF SessionInv, ServerInv, Type
    <2>2. ServerInv' /\ ServerGrows
        BY <1>1, <2>1, ServerAtTabSteps DEF Type
    <2>3. CallsInv'
        BY <1>1, <2>2, FewerCallsAreTrue DEF SessionInv, Type
    <2>4. PageShape'
        BY <1>1, <2>1 DEF SessionInv, TabInv, PageShape, Type, IsVersion, serverVars
    <2>5. WatchIsTrue'
        BY <1>1, <2>1, WatchSaysTheSame
           DEF SessionInv, TabInv, WatchIsTrue, Type, serverVars
    <2> QED BY <2>2, <2>3, <2>4, <2>5 DEF SessionInv, TabInv
<1>2. CASE Fire
    <2>1. counts' \in Counters /\ counts'.moves = counts.moves
        BY <1>2, CountsStay DEF Fire
    <2>2. ServerInv' /\ ServerGrows
        BY <1>2, <2>1, ServerAtTabSteps DEF Fire
    <2>3. CallsInv'
        <3>1. CASE UNCHANGED calls
            BY <2>2, <3>1, FewerCallsAreTrue DEF SessionInv
        <3>2. CASE Send("patch", [version |-> baseline.version, text |-> form])
            <4>1. PICK args : args = [version |-> baseline.version, text |-> form]
                OBVIOUS
            <4>2. DOMAIN args = {"version", "text"} /\ args.text = form
                BY <4>1
            <4>3. form \in FirstText .. MaxTexts
                BY CountsStay
            <4>4. "patch" \in Kinds \ {"finish"} /\ FieldsOf("patch") = {"version", "text"}
                BY DEF Kinds, FieldsOf
            <4> QED BY <2>2, <3>2, <4>1, <4>2, <4>3, <4>4, SendAddsCall
        <3> QED BY <1>2, <3>1, <3>2 DEF Fire
    <2>4. PageShape'
        BY <1>2 DEF SessionInv, TabInv, PageShape, Fire, IsVersion, serverVars
    <2>5. WatchIsTrue'
        BY <1>2, <2>1, WatchSaysTheSame
           DEF SessionInv, TabInv, WatchIsTrue, Fire, serverVars
    <2> QED BY <2>2, <2>3, <2>4, <2>5 DEF SessionInv, TabInv
<1> QED BY <1>1, <1>2

\* The arguments of the calls that pages send when they are opened.
LEMMA PageArguments ==
    /\ DOMAIN NoArgs = {}
    /\ FieldsOf("state") = {} /\ FieldsOf("select") = {"key"}
    /\ FieldsOf("poll") = {"job"} /\ FieldsOf("retry") = {"job"}
    /\ FieldsOf("start") = {"generation"}
    /\ {"state", "select", "poll", "retry", "start"} \subseteq Kinds \ {"finish"}
BY DEF NoArgs, FieldsOf, Kinds

LEMMA OpeningKeepsInv ==
    ASSUME SessionInv, OpenBrief \/ OpenActiveJob \/ OpenFraming
    PROVE  SessionInv'
<1>1. /\ UNCHANGED <<serverVars, cache>>
      /\ counts' \in Counters /\ counts'.moves = counts.moves
      /\ Cardinality(calls) < MaxCalls /\ calls \in SUBSET calls
    BY CountsStay DEF OpenBrief, OpenActiveJob, OpenFraming, Visit, Room
<1>2. ServerInv' /\ ServerGrows
    BY <1>1, ServerAtTabSteps
<1>3. /\ activeJob \in 0 .. Len(jobs)
      /\ IsVersion(cache.brief) /\ cache.state \in States
    BY CountsStay
<1>4. CASE OpenBrief
    <2>1. PageShape' /\ WatchIsTrue'
        BY <1>1, <1>3, <1>4, ShowBriefIsShape DEF OpenBrief
    <2>2. CallsInv'
        BY <1>1, <1>2, <1>4, PageArguments, LeaveAddsCall DEF OpenBrief
    <2> QED BY <1>2, <2>1, <2>2 DEF SessionInv, TabInv
<1>5. CASE OpenActiveJob
    <2>1. activeJob \in 1 .. Len(jobs)
        BY <1>3, <1>5, SequencesOfTheServer DEF OpenActiveJob, SessionInv, ServerInv
    <2>2. PageShape' /\ WatchIsTrue'
        BY <1>1, <1>5, <2>1, ShowJobIsShape DEF OpenActiveJob
    <2>3. CallsInv'
        <3>1. PICK args : args = [job |-> activeJob]
            OBVIOUS
        <3>2. DOMAIN args = {"job"} /\ args.job = activeJob
            BY <3>1
        <3> QED BY <1>1, <1>2, <1>5, <2>1, <3>1, <3>2, PageArguments, LeaveAddsCall
                DEF OpenActiveJob
    <2> QED BY <1>2, <2>2, <2>3 DEF SessionInv, TabInv
<1>6. CASE OpenFraming
    <2>1. PageShape' /\ WatchIsTrue'
        BY <1>1, <1>3, <1>6, ShowPageIsShape DEF OpenFraming
    <2>2. CallsInv'
        BY <1>1, <1>2, <1>6, PageArguments, LeaveAddsCall DEF OpenFraming
    <2> QED BY <1>2, <2>1, <2>2 DEF SessionInv, TabInv
<1> QED BY <1>4, <1>5, <1>6

LEMMA SaveAnsweredKeepsInv ==
    ASSUME SessionInv, NEW c \in calls, SaveAnswered(c)
    PROVE  SessionInv'
<1>1. /\ UNCHANGED <<serverVars, page, watch, activeJob>> /\ calls' = calls \ {c}
      /\ counts' \in Counters /\ counts'.moves = counts.moves
    BY CountsStay DEF SaveAnswered, Done
<1>2. ServerInv' /\ ServerGrows
    BY <1>1, ServerAtTabSteps
<1>3. CallsInv'
    BY <1>1, <1>2, CallIsDone
<1>4. IsVersion(c.answer.brief) /\ c.answer.state \in States
    BY DEF SessionInv, CallsInv, CallsAreTrue, AnswerIsTrue, SaveAnswered
<1>5. IsVersion(c.answer.brief)' /\ c.answer.brief.text \in FirstText .. MaxTexts
    BY <1>1, <1>4 DEF IsVersion, serverVars
<1>6. PageShape'
    <2>1. IsVersion(baseline)'
        BY <1>1, <1>5 DEF SaveAnswered, IsVersion, SessionInv, TabInv, PageShape, serverVars
    <2>2. /\ cache' = [brief |-> cache'.brief, state |-> cache'.state]
          /\ cache'.brief = c.answer.brief /\ cache'.state \in States
        BY <1>4 DEF SaveAnswered, SessionInv, TabInv, PageShape
    <2>3. form' \in FirstText .. MaxTexts /\ shownState' \in States
        BY <1>4, <1>5 DEF SaveAnswered, SessionInv, TabInv, PageShape
    <2>4. armed' => page.at = "brief"
        BY DEF SaveAnswered, SessionInv, TabInv, PageShape
    <2>5. IsVersion(cache.brief)'
        BY <1>5, <2>2 DEF IsVersion
    <2> QED BY <1>1, <2>1, <2>2, <2>3, <2>4, <2>5
            DEF SessionInv, TabInv, PageShape, serverVars
<1>7. WatchIsTrue'
    BY <1>1, WatchSaysTheSame DEF SessionInv, TabInv, WatchIsTrue, serverVars
<1> QED BY <1>2, <1>3, <1>6, <1>7 DEF SessionInv, TabInv

LEMMA StateArrivesKeepsInv ==
    ASSUME SessionInv, NEW c \in calls, StateArrives(c)
    PROVE  SessionInv'
<1>1. /\ UNCHANGED <<serverVars, page, baseline, form, armed, watch, activeJob>>
      /\ calls' = calls \ {c}
      /\ counts' \in Counters /\ counts'.moves = counts.moves
    BY CountsStay DEF StateArrives, Done
<1>2. ServerInv' /\ ServerGrows
    BY <1>1, ServerAtTabSteps
<1>3. CallsInv'
    BY <1>1, <1>2, CallIsDone
<1>4. \/ UNCHANGED <<cache, shownState>>
      \/ /\ c.answer \in States /\ shownState' = c.answer
         /\ cache' = [cache EXCEPT !.state = c.answer]
    BY DEF SessionInv, CallsInv, CallsAreTrue, AnswerIsTrue, StateArrives
<1>5. PageShape'
    <2>1. /\ cache' = [brief |-> cache'.brief, state |-> cache'.state]
          /\ cache'.brief = cache.brief /\ cache'.state \in States /\ shownState' \in States
        BY <1>4 DEF SessionInv, TabInv, PageShape
    <2>2. IsVersion(baseline)' /\ IsVersion(cache.brief)'
        BY <1>1, <2>1 DEF SessionInv, TabInv, PageShape, IsVersion, serverVars
    <2> QED BY <1>1, <2>1, <2>2 DEF SessionInv, TabInv, PageShape, serverVars
<1>6. WatchIsTrue'
    BY <1>1, WatchSaysTheSame DEF SessionInv, TabInv, WatchIsTrue, serverVars
<1> QED BY <1>2, <1>3, <1>5, <1>6 DEF SessionInv, TabInv

\* The failures that only the page, or nobody, is told of.
LEMMA RefusalsKeepInv ==
    ASSUME SessionInv, NEW c \in calls, SaveFails(c) \/ StartRefused(c) \/ SelectionFails(c)
    PROVE  SessionInv'
<1>1. /\ UNCHANGED <<serverVars, page, baseline, form, armed, watch, cache, activeJob>>
      /\ shownState' = shownState /\ calls' = calls \ {c}
      /\ counts' \in Counters /\ counts'.moves = counts.moves
    BY CountsStay DEF SaveFails, StartRefused, SelectionFails, Done, briefVars
<1>2. ServerInv' /\ ServerGrows
    BY <1>1, ServerAtTabSteps
<1>3. CallsInv'
    BY <1>1, <1>2, CallIsDone
<1>4. PageShape' /\ WatchIsTrue'
    BY <1>1, CountsStay, PageAndWatchStay
<1> QED BY <1>2, <1>3, <1>4 DEF SessionInv, TabInv

LEMMA AskingKeepsInv ==
    ASSUME SessionInv,
           SelectFrame \/ \E generation \in {"research", "assembly"} : StartGeneration(generation)
    PROVE  SessionInv'
<1>1. /\ UNCHANGED <<serverVars, page, baseline, form, armed, watch, cache, activeJob>>
      /\ shownState' = shownState
      /\ counts' \in Counters /\ counts'.moves = counts.moves
    BY CountsStay DEF SelectFrame, StartGeneration
<1>2. ServerInv' /\ ServerGrows
    BY <1>1, ServerAtTabSteps
<1>3. CASE SelectFrame
    <2>1. PICK args : args = [key |-> counts.visits]
        OBVIOUS
    <2>2. DOMAIN args = {"key"} /\ args.key = counts.visits
        BY <2>1
    <2>3. counts.visits \in Nat
        BY DEF SessionInv, ServerInv, ServerShape, Counters
    <2>4. Send("select", args)
        BY <1>3, <2>1 DEF SelectFrame
    <2>5. CallsInv'
        BY <1>2, <2>2, <2>3, <2>4, PageArguments, SendAddsCall
    <2> QED BY <1>1, <1>2, <2>5, CountsStay, PageAndWatchStay DEF SessionInv, TabInv
<1>4. ASSUME NEW generation \in {"research", "assembly"}, StartGeneration(generation)
      PROVE  SessionInv'
    <2>1. PICK args : args = [generation |-> generation]
        OBVIOUS
    <2>2. DOMAIN args = {"generation"} /\ args.generation = generation
        BY <2>1
    <2>3. Send("start", args)
        BY <1>4, <2>1 DEF StartGeneration
    <2>4. CallsInv'
        BY <1>2, <2>2, <2>3, PageArguments, SendAddsCall
    <2> QED BY <1>1, <1>2, <2>4, CountsStay, PageAndWatchStay DEF SessionInv, TabInv
<1> QED BY <1>3, <1>4

LEMMA StartedKeepsInv ==
    ASSUME SessionInv, NEW c \in calls, Started(c)
    PROVE  SessionInv'
<1>1. /\ UNCHANGED <<serverVars, cache>>
      /\ counts' \in Counters /\ counts'.moves = counts.moves
    BY CountsStay DEF Started
<1>2. ServerInv' /\ ServerGrows
    BY <1>1, ServerAtTabSteps
<1>3. c.answer \in 1 .. Len(jobs)
    BY DEF SessionInv, CallsInv, CallsAreTrue, AnswerIsTrue, Started
<1>4. PageShape' /\ WatchIsTrue'
    BY <1>1, <1>3, ShowJobIsShape DEF Started
<1>5. CallsInv'
    <2>1. PICK args : args = [job |-> c.answer]
        OBVIOUS
    <2>2. DOMAIN args = {"job"} /\ args.job = c.answer
        BY <2>1
    <2>3. calls \ {c} \in SUBSET calls /\ Cardinality(calls \ {c}) < MaxCalls
        BY FewerCalls DEF SessionInv
    <2>4. LeaveWith(calls \ {c}, "poll", args)
        BY <2>1 DEF Started
    <2> QED BY <1>2, <1>3, <2>2, <2>3, <2>4, PageArguments, LeaveAddsCall
<1> QED BY <1>2, <1>4, <1>5 DEF SessionInv, TabInv

LEMMA FrameSelectedKeepsInv ==
    ASSUME SessionInv, NEW c \in calls, FrameSelected(c)
    PROVE  SessionInv'
<1>1. UNCHANGED <<serverVars, activeJob>> /\ cache' = [cache EXCEPT !.state = c.answer]
    BY DEF FrameSelected
<1>2. counts' \in Counters /\ counts'.moves = counts.moves
    BY CountsStay DEF FrameSelected
<1>3. ServerInv' /\ ServerGrows
    BY <1>1, <1>2, ServerAtTabSteps
<1>4. c.answer \in States /\ IsVersion(cache.brief) /\ activeJob \in 0 .. Len(jobs)
    BY CountsStay DEF SessionInv, CallsInv, CallsAreTrue, AnswerIsTrue, FrameSelected
<1>5. CASE page.at = "brief"
    <2>1. calls' = calls \ {c} /\ UNCHANGED <<page, briefVars, watch, counts>>
        BY <1>5 DEF FrameSelected, Done
    <2>2. CallsInv'
        BY <1>3, <2>1, CallIsDone
    <2>3. /\ cache' = [brief |-> cache'.brief, state |-> cache'.state]
          /\ cache'.brief = cache.brief /\ cache'.state \in States
        BY <1>1, <1>4 DEF SessionInv, TabInv, PageShape
    <2>4. IsVersion(baseline)' /\ IsVersion(cache.brief)'
        BY <1>1, <1>4, <2>1, <2>3
           DEF SessionInv, TabInv, PageShape, IsVersion, serverVars, briefVars
    <2>5. PageShape'
        BY <1>1, <2>1, <2>3, <2>4 DEF SessionInv, TabInv, PageShape, serverVars, briefVars
    <2>6. WatchIsTrue'
        BY <1>1, <2>1, WatchSaysTheSame DEF SessionInv, TabInv, WatchIsTrue, serverVars
    <2> QED BY <1>3, <2>2, <2>5, <2>6 DEF SessionInv, TabInv
<1>6. CASE page.at # "brief"
    <2>1. ShowBrief(cache.brief, c.answer) /\ LeaveWith(calls \ {c}, "state", NoArgs)
        BY <1>6 DEF FrameSelected
    <2>2. PageShape' /\ WatchIsTrue'
        BY <1>1, <1>4, <2>1, ShowBriefIsShape
    <2>3. calls \ {c} \in SUBSET calls /\ Cardinality(calls \ {c}) < MaxCalls
        BY FewerCalls DEF SessionInv
    <2>4. CallsInv'
        BY <1>3, <2>1, <2>3, PageArguments, LeaveAddsCall
    <2> QED BY <1>3, <2>2, <2>4 DEF SessionInv, TabInv
<1> QED BY <1>5, <1>6

-----------------------------------------------------------------------------
(* Steps of the tab: the job page *)

\* The page keeps its job; what it says of the end is true of the job it says.
LEMMA PageStays ==
    ASSUME SessionInv, UNCHANGED <<serverVars, page, briefVars, cache>>,
           activeJob' \in 0 .. Len(jobs)
    PROVE  PageShape'
<1>1. IsVersion(baseline)' /\ IsVersion(cache.brief)'
    BY DEF SessionInv, TabInv, PageShape, IsVersion, serverVars, briefVars
<1> QED BY <1>1 DEF SessionInv, TabInv, PageShape, serverVars, briefVars

LEMMA WatchFlagsMove ==
    ASSUME SessionInv, UNCHANGED serverVars, counts'.moves = counts.moves,
           watch' \in Watches, watch'.end = watch.end, watch'.of = watch.of
    PROVE  WatchIsTrue'
BY WatchSaysTheSame DEF SessionInv, TabInv, serverVars

LEMMA PollingKeepsInv ==
    ASSUME SessionInv, Tick \/ Retry
    PROVE  SessionInv'
<1>1. /\ UNCHANGED <<serverVars, page, briefVars, cache, activeJob>>
      /\ counts' \in Counters /\ counts'.moves = counts.moves
      /\ watch \in Watches /\ activeJob \in 0 .. Len(jobs)
    BY CountsStay DEF Tick, Retry, SessionInv, TabInv, WatchIsTrue
<1>2. ServerInv' /\ ServerGrows
    BY <1>1, ServerAtTabSteps
<1>3. watch' \in Watches /\ watch'.end = watch.end /\ watch'.of = watch.of
    BY <1>1 DEF Tick, Retry, Watches
<1>4. PageShape' /\ WatchIsTrue'
    BY <1>1, <1>3, PageStays, WatchFlagsMove
<1>5. CallsInv'
    <2>1. PICK args : args = [job |-> page.job]
        OBVIOUS
    <2>2. DOMAIN args = {"job"} /\ args.job = page.job
        BY <2>1
    <2>3. page.job \in 1 .. Len(jobs)
        BY SequencesOfTheServer
           DEF SessionInv, ServerInv, TabInv, PageShape, Tick, Retry
    <2>4. Send("poll", args) \/ Send("retry", args)
        BY <2>1 DEF Tick, Retry
    <2> QED BY <1>2, <2>2, <2>3, <2>4, PageArguments, SendAddsCall
<1> QED BY <1>2, <1>4, <1>5 DEF SessionInv, TabInv

\* The read that finishes a job has the poll's id and is the poll's page's.
LEMMA FinishIsCall ==
    ASSUME NEW c, CallShape(c), c.kind = "poll", NEW d,
           d = [Request(c.id, "finish", [job |-> c.job]) EXCEPT !.here = c.here]
    PROVE  /\ CallShape(d) /\ d.id = c.id /\ d.kind = "finish" /\ d.status = "sent"
           /\ d.job = c.job
<1>1. PICK args : args = [job |-> c.job]
    OBVIOUS
<1>2. DOMAIN args = {"job"} /\ args.job = c.job
    BY <1>1
<1>3. PICK e : e = Request(c.id, "finish", args)
    OBVIOUS
<1>4. /\ DOMAIN e = {"id", "kind", "here", "status", "job"}
      /\ e.id = c.id /\ e.kind = "finish" /\ e.status = "sent" /\ e.job = c.job
    BY <1>2, <1>3 DEF Request, With
<1>5. e = [x \in DOMAIN e |-> e[x]]
    BY <1>3 DEF Request, With
<1>6. d = [e EXCEPT !.here = c.here]
    BY <1>1, <1>3
<1>7. /\ DOMAIN d = DOMAIN e /\ d = [x \in DOMAIN d |-> d[x]]
      /\ \A x \in DOMAIN e : x # "here" => d[x] = e[x]
    BY <1>5, <1>6
<1>8. d.id = c.id /\ d.kind = "finish" /\ d.status = "sent" /\ d.job = c.job
    BY <1>4, <1>7
<1>9. CallShape(d)
    BY <1>4, <1>7, <1>8 DEF CallShape, Kinds, FieldsOf
<1> QED BY <1>8, <1>9

LEMMA PollArrivesKeepsInv ==
    ASSUME SessionInv, NEW c \in calls, PollArrives(c)
    PROVE  SessionInv'
<1>1. /\ UNCHANGED <<serverVars, page, briefVars, cache, activeJob>>
      /\ counts' \in Counters /\ counts'.moves = counts.moves
      /\ watch \in Watches /\ activeJob \in 0 .. Len(jobs)
    BY CountsStay DEF PollArrives, SessionInv, TabInv, WatchIsTrue
<1>2. ServerInv' /\ ServerGrows
    BY <1>1, ServerAtTabSteps
<1>3. PageShape'
    BY <1>1, PageStays
<1>4. CallShape(c) /\ AnswerIsTrue(c) /\ c.kind = "poll" /\ c.status = "ok"
    BY DEF SessionInv, CallsInv, CallsAreTrue, PollArrives
<1>5. /\ c.job \in 1 .. Len(jobs) /\ Len(jobs) \in Nat
      /\ c.answer = "running" \/ (HasEnded(c.job) /\ c.answer = jobs[c.job].status)
    BY <1>4, SequencesOfTheServer DEF AnswerIsTrue, SessionInv, ServerInv
<1>6. c.answer \in {"running", "succeeded", "failed"}
    BY <1>5 DEF HasEnded
<1>7. CASE c.answer = "running"
    <2>1. UNCHANGED watch /\ calls' = calls \ {c}
        BY <1>7 DEF PollArrives, Done
    <2>2. CallsInv'
        BY <1>2, <2>1, CallIsDone
    <2> QED BY <1>1, <1>2, <1>3, <2>1, <2>2, WatchFlagsMove DEF SessionInv, TabInv
<1>8. CASE c.answer = "failed"
    <2>1. /\ calls' = calls \ {c}
          /\ \/ watch' = watch
             \/ watch' = [watch EXCEPT !.stopped = TRUE, !.end = "failed", !.of = c.job]
        BY <1>8 DEF PollArrives, Done, Here
    <2>2. CallsInv'
        BY <1>2, <2>1, CallIsDone
    <2>3. WatchIsTrue'
        <3>1. CASE watch' = watch
            BY <1>1, <3>1, WatchFlagsMove
        <3>2. CASE watch' = [watch EXCEPT !.stopped = TRUE, !.end = "failed", !.of = c.job]
            <4>0. watch \in Watches /\ c.job \in 0 .. Len(jobs) /\ Len(jobs') = Len(jobs)
                BY <1>1, <1>5 DEF serverVars
            <4>1. watch' = [stopped |-> TRUE, error |-> watch.error,
                            end |-> "failed", of |-> c.job]
                BY ONLY <3>2, <4>0 DEF Watches
            <4>2. watch' \in Watches /\ watch'.end = "failed" /\ watch'.of = c.job
                BY ONLY <4>0, <4>1 DEF Watches
            <4>3. jobs[c.job].status = "failed"
                BY <1>5, <1>8
            <4> QED BY <1>1, <1>5, <4>2, <4>3
                    DEF WatchIsTrue, ShownEndIsTrue, Watches, serverVars
        <3> QED BY <2>1, <3>1, <3>2
    <2> QED BY <1>2, <1>3, <2>2, <2>3 DEF SessionInv, TabInv
<1>9. CASE c.answer = "succeeded"
    <2>1. PICK d : d = [Request(c.id, "finish", [job |-> c.job]) EXCEPT !.here = c.here]
        OBVIOUS
    <2>2. /\ CallShape(d) /\ d.id = c.id /\ d.kind = "finish" /\ d.status = "sent"
          /\ d.job = c.job
        BY ONLY <1>4, <2>1, FinishIsCall
    <2>3. AnswerIsTrue(d)
        BY <1>5, <1>9, <2>2 DEF AnswerIsTrue
    <2>4. AnswerIsTrue(d)'
        BY <1>2, <2>2, <2>3, AnswerStaysTrue DEF SessionInv, ServerInv
    <2>5. /\ calls' = (calls \ {c}) \cup {d}
          /\ watch' = watch \/ watch' = [watch EXCEPT !.stopped = TRUE]
        BY <1>9, <2>1 DEF PollArrives, Here
    <2>6. CallsInv'
        BY <1>2, <2>2, <2>4, <2>5, CallBecomes DEF SessionInv
    <2>7. watch' \in Watches /\ watch'.end = watch.end /\ watch'.of = watch.of
        BY <1>1, <2>5 DEF Watches
    <2> QED BY <1>1, <1>2, <1>3, <2>6, <2>7, WatchFlagsMove DEF SessionInv, TabInv
<1> QED BY <1>6, <1>7, <1>8, <1>9

LEMMA ReadingEndsKeepsInv ==
    ASSUME SessionInv, NEW c \in calls, PollFails(c) \/ ReadEnds(c)
    PROVE  SessionInv'
<1>1. /\ UNCHANGED <<serverVars, page, briefVars, cache, activeJob>>
      /\ counts' \in Counters /\ counts'.moves = counts.moves
      /\ watch \in Watches /\ activeJob \in 0 .. Len(jobs) /\ calls' = calls \ {c}
    BY CountsStay DEF PollFails, ReadEnds, Done, SessionInv, TabInv, WatchIsTrue
<1>2. ServerInv' /\ ServerGrows
    BY <1>1, ServerAtTabSteps
<1>3. CallsInv'
    BY <1>1, <1>2, CallIsDone
<1>4. \/ watch' = watch
      \/ \E error \in BOOLEAN : watch' = [watch EXCEPT !.error = error]
    <2>1. watch.error \in BOOLEAN
        BY <1>1 DEF Watches
    <2> QED BY <2>1 DEF PollFails, ReadEnds, Here
<1>5. watch' \in Watches /\ watch'.end = watch.end /\ watch'.of = watch.of
    BY <1>1, <1>4 DEF Watches
<1>6. PageShape' /\ WatchIsTrue'
    BY <1>1, <1>5, PageStays, WatchFlagsMove
<1> QED BY <1>2, <1>3, <1>6 DEF SessionInv, TabInv

LEMMA FinishKeepsInv ==
    ASSUME SessionInv, NEW c \in calls, Finish(c)
    PROVE  SessionInv'
<1>1. /\ UNCHANGED <<serverVars, cache>> /\ activeJob' = 0
      /\ counts' \in Counters /\ counts'.moves = counts.moves
      /\ watch \in Watches
    BY CountsStay DEF Finish, SessionInv, TabInv, WatchIsTrue
<1>2. ServerInv' /\ ServerGrows
    BY <1>1, ServerAtTabSteps
<1>3. /\ c.job \in 1 .. Len(jobs) /\ Len(jobs) \in Nat /\ jobs[c.job] \in Jobs
      /\ jobs[c.job].status = "succeeded"
      /\ jobs[c.job].kind = "assembly" /\ c.answer # "ready_for_edit" =>
            counts.moves > 0 \/ Len(jobs) > c.job
    BY SequencesOfTheServer
       DEF SessionInv, ServerInv, CallsInv, CallsAreTrue, AnswerIsTrue, Finish
<1>4. activeJob' \in 0 .. Len(jobs)
    BY <1>1, <1>3
<1>5. CASE jobs[c.job].kind = "assembly" /\ c.answer = "ready_for_edit"
    <2>1. ShowPage("draft") /\ calls' = Left(calls \ {c})
        BY <1>5 DEF Finish
    <2>2. PageShape' /\ WatchIsTrue'
        BY <1>1, <1>4, <2>1, ShowPageIsShape
    <2>3. CallsInv'
        BY <1>2, <2>1, CallIsDone
    <2> QED BY <1>2, <2>2, <2>3 DEF SessionInv, TabInv
<1>6. CASE ~(jobs[c.job].kind = "assembly" /\ c.answer = "ready_for_edit")
    <2>1. PICK end : end = IF jobs[c.job].kind = "assembly"
                           THEN "mismatch" ELSE "research_done"
        OBVIOUS
    <2>2. /\ calls' = calls \ {c} /\ UNCHANGED <<page, briefVars>>
          /\ watch' = watch \/ watch' = [watch EXCEPT !.of = c.job, !.end = end]
        BY <1>6, <2>1 DEF Finish, Done, Here
    <2>3. CallsInv'
        BY <1>2, <2>2, CallIsDone
    <2>4. PageShape'
        BY <1>1, <1>4, <2>2, PageStays
    <2>5. WatchIsTrue'
        <3>1. CASE watch' = watch
            BY <1>1, <3>1, WatchFlagsMove
        <3>2. CASE watch' = [watch EXCEPT !.of = c.job, !.end = end]
            <4>0. /\ watch \in Watches /\ c.job \in 0 .. Len(jobs)
                  /\ end \in {"mismatch", "research_done"}
                BY <1>1, <1>3, <2>1
            <4>1. watch' = [stopped |-> watch.stopped, error |-> watch.error,
                            end |-> end, of |-> c.job]
                BY ONLY <3>2, <4>0 DEF Watches
            <4>2. watch' \in Watches /\ watch'.end = end /\ watch'.of = c.job
                BY ONLY <4>0, <4>1 DEF Watches
            <4>3. CASE jobs[c.job].kind = "assembly"
                <5>1. counts'.moves > 0 \/ Len(jobs) > c.job
                    BY <1>1, <1>3, <1>6, <4>3
                <5>2. watch'.end = "mismatch"
                    BY <2>1, <4>2, <4>3
                <5>3. ShownEndIsTrue'
                    BY <1>1, <1>3, <4>2, <4>3, <5>1, <5>2 DEF ShownEndIsTrue, serverVars
                <5> QED BY <1>1, <1>3, <4>2, <5>3 DEF WatchIsTrue, Watches, serverVars
            <4>4. CASE jobs[c.job].kind # "assembly"
                <5>1. jobs[c.job].kind = "research"
                    BY <1>3, <4>4 DEF Jobs
                <5>2. watch'.end = "research_done"
                    BY <2>1, <4>2, <4>4
                <5>3. ShownEndIsTrue'
                    BY <1>1, <1>3, <4>2, <5>1, <5>2 DEF ShownEndIsTrue, serverVars
                <5> QED BY <1>1, <1>3, <4>2, <5>3 DEF WatchIsTrue, Watches, serverVars
            <4> QED BY <4>3, <4>4
        <3> QED BY <2>2, <3>1, <3>2
    <2> QED BY <1>2, <2>3, <2>4, <2>5 DEF SessionInv, TabInv
<1> QED BY <1>5, <1>6

-----------------------------------------------------------------------------
(* Every step *)

LEMMA InitHasSessionInv == SessionInit => SessionInv
<1> SUFFICES ASSUME SessionInit PROVE SessionInv
    OBVIOUS
<1>1. /\ FirstText \in FirstText .. MaxTexts /\ FirstText \in Nat
    BY BoundsAssumption DEF FirstText
<1>2. /\ briefs \in Seq(FirstText .. MaxTexts) /\ briefs # <<>> /\ briefs[1] = FirstText
      /\ Len(briefs) = 1 /\ DOMAIN briefs = 1 .. 1
    BY <1>1 DEF SessionInit
<1>3. jobs \in Seq(Jobs) /\ Len(jobs) = 0 /\ DOMAIN jobs = {}
    BY EmptySeq DEF SessionInit
<1>4. workflow \in States
    BY DEF SessionInit, States
<1>5. ServerInv
    BY <1>1, <1>2, <1>3, <1>4
       DEF SessionInit, ServerInv, ServerShape, OneJobRuns, AssembledIsReady, Counters
<1>6. CallsInv
    BY DEF SessionInit, CallsInv, CallsAreTrue, IdsDiffer
<1>7. IsVersion(baseline) /\ IsVersion(cache.brief)
    BY <1>5, TheBriefIsAVersion DEF ServerInv, SessionInit
<1>8. PageShape
    BY <1>1, <1>3, <1>4, <1>7 DEF SessionInit, PageShape, Pages
<1>9. WatchIsTrue
    BY <1>3 DEF SessionInit, WatchIsTrue, Watches, Unwatched, ShownEndIsTrue
<1> QED BY <1>5, <1>6, <1>8, <1>9 DEF SessionInv, TabInv

LEMMA NetworkKeepsInv ==
    ASSUME SessionInv, NEW c \in calls, Serve(c) \/ Deliver(c)
    PROVE  SessionInv'
<1>1. CASE Serve(c)
    BY <1>1, ServePatchKeepsInv, ServeStartKeepsInv, ServeSelectKeepsInv,
       ServeReadKeepsInv, CallFailsKeepsInv DEF Serve
<1>2. CASE Deliver(c)
    BY <1>2, SaveAnsweredKeepsInv, StateArrivesKeepsInv, RefusalsKeepInv, StartedKeepsInv,
       FrameSelectedKeepsInv, PollArrivesKeepsInv, ReadingEndsKeepsInv, FinishKeepsInv
       DEF Deliver
<1> QED BY <1>1, <1>2

LEMMA StepKeepsSessionInv == SessionInv /\ [SessionNext]_sessionVars => SessionInv'
<1> SUFFICES ASSUME SessionInv, [SessionNext]_sessionVars PROVE SessionInv'
    OBVIOUS
<1>1. CASE Type \/ Fire
    BY <1>1, TypeAndFireKeepInv
<1>2. CASE Tick \/ Retry
    BY <1>2, PollingKeepsInv
<1>3. CASE OpenBrief \/ OpenActiveJob \/ OpenFraming
    BY <1>3, OpeningKeepsInv
<1>4. CASE \/ SelectFrame
           \/ \E generation \in {"research", "assembly"} : StartGeneration(generation)
    BY <1>4, AskingKeepsInv
<1>5. CASE \E id \in 1 .. MaxCalls : Network(id)
    BY <1>5, NetworkKeepsInv DEF Network
<1>6. CASE \/ \E j \in DOMAIN jobs, status \in {"succeeded", "failed"} : JobEnds(j, status)
           \/ Elsewhere
    BY <1>6, OthersKeepInv
<1>7. CASE UNCHANGED sessionVars
    <2>1. /\ UNCHANGED <<serverVars, page, briefVars, cache, watch, activeJob, calls>>
          /\ counts' \in Counters /\ counts'.moves = counts.moves
          /\ activeJob \in 0 .. Len(jobs) /\ watch \in Watches
        BY <1>7, CountsStay DEF sessionVars, SessionInv, TabInv, WatchIsTrue
    <2>2. ServerInv' /\ ServerGrows
        BY <2>1, ServerAtTabSteps
    <2>3. CallsInv'
        BY <2>1, <2>2, FewerCallsAreTrue DEF SessionInv
    <2>4. PageShape' /\ WatchIsTrue'
        BY <2>1, PageStays, WatchFlagsMove
    <2> QED BY <2>2, <2>3, <2>4 DEF SessionInv, TabInv
<1> QED BY <1>1, <1>2, <1>3, <1>4, <1>5, <1>6, <1>7 DEF SessionNext

LEMMA AlwaysSessionInv == SessionSpec => []SessionInv
BY InitHasSessionInv, StepKeepsSessionInv, PTL DEF SessionSpec

-----------------------------------------------------------------------------
(* Theorems *)

(***************************************************************************)
(* The tab and the story are what SessionTypeOK says; the timer runs on    *)
(* the brief page only, and calls in flight are told apart by their ids.   *)
(***************************************************************************)
THEOREM SessionTypeCorrect == SessionSpec => []SessionTypeOK
<1>1. SessionInv => SessionTypeOK
    <2> SUFFICES ASSUME SessionInv PROVE SessionTypeOK
        OBVIOUS
    <2>1. \A j \in DOMAIN jobs : jobs[j] \in Jobs
        BY SequencesOfTheServer DEF SessionInv, ServerInv
    <2>2. Cardinality({c.id : c \in calls}) = Cardinality(calls)
        BY CallsAreFinite DEF SessionInv
    <2>3. /\ briefs \in Seq(FirstText .. MaxTexts) /\ workflow \in States
          /\ selectedKey \in Nat
          /\ page.at \in Pages /\ page.job \in 0 .. Len(jobs)
          /\ page.at = "job" <=> page.job # 0
          /\ armed => page.at = "brief"
          /\ form \in FirstText .. MaxTexts /\ shownState \in States
          /\ watch \in Watches
          /\ activeJob \in 0 .. Len(jobs)
        BY DEF SessionInv, ServerInv, ServerShape, TabInv, PageShape, WatchIsTrue
    <2> QED BY <2>1, <2>2, <2>3 DEF SessionTypeOK, Jobs, Watches
<1> QED BY <1>1, AlwaysSessionInv, PTL

(***************************************************************************)
(* The brief that the page saves against, and the one in local storage,    *)
(* are versions of the brief, wherever the creator was when they came.     *)
(***************************************************************************)
THEOREM BriefsAreVersions == SessionSpec => []BriefIsAVersion
<1>1. SessionInv => BriefIsAVersion
    BY DEF SessionInv, TabInv, PageShape, IsVersion, BriefIsAVersion
<1> QED BY <1>1, AlwaysSessionInv, PTL

(***************************************************************************)
(* The end that the job page shows is true of the job that it learnt it    *)
(* of, for any number of jobs, polls in flight and other tabs.             *)
(***************************************************************************)
THEOREM ShownEndsAreTrue == SessionSpec => []ShownEndIsTrue
<1>1. SessionInv => ShownEndIsTrue
    BY DEF SessionInv, TabInv, WatchIsTrue
<1> QED BY <1>1, AlwaysSessionInv, PTL

=============================================================================
