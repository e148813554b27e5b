--------------------------- MODULE EditorPageProofs ---------------------------
(***************************************************************************)
(* Proofs about the editor page.  Whatever order the answers arrive in,    *)
(* what the page has is what some version of the draft was: every answer   *)
(* on its way is, since versions are only ever added.  A save that the API *)
(* accepts was typed over the newest version, and so after it.             *)
(***************************************************************************)
EXTENDS EditorPage, SequenceTheorems, TLAPS

\* What a call brings is what the object was at that version.
IsVersion(o, was) ==
    /\ was \in Copies
    /\ was.version \in DOMAIN server[o]
    /\ was.text = server[o][was.version]

CallShape(c) ==
    /\ c.status \in {"sent", "ok", "conflict", "error"}
    /\ \/ /\ c.kind \in {"lists", "load"}
          /\ c = [kind |-> c.kind, status |-> c.status, answer |-> c.answer]
       \/ /\ c.kind = "patch" /\ c.object \in Objects
          /\ c = [kind |-> "patch", object |-> c.object, version |-> c.version,
                  base |-> c.base, text |-> c.text, status |-> c.status,
                  answer |-> c.answer]
       \/ /\ c.kind = "restore" /\ c.object \in Objects
          /\ c = [kind |-> "restore", object |-> c.object, version |-> c.version,
                  status |-> c.status, answer |-> c.answer]

AnswerIsTrue(c) ==
    c.status # "sent" =>
        /\ DOMAIN c.answer \subseteq Objects
        /\ \A o \in DOMAIN c.answer : IsVersion(o, c.answer[o])

\* A save was typed over the version that it names, or later.
SaveIsNewer(c) ==
    c.kind = "patch" =>
        /\ c.text \in FirstText .. texts
        /\ IsVersion(c.object, [version |-> c.version, text |-> c.base])
        /\ c.base <= c.text

ServerShape ==
    /\ texts \in FirstText .. MaxTexts
    /\ server \in [Objects -> Seq(FirstText .. texts)]
    /\ \A o \in Objects : server[o] # <<>>

PageShape ==
    /\ DOMAIN copy = Objects
    /\ \A o \in Objects : IsVersion(o, copy[o])
    /\ form \in [Objects -> Blank .. texts]
    /\ \A o \in Objects : form[o] = Blank \/ copy[o].text <= form[o]
    /\ armed \subseteq Objects
    /\ \A o \in armed : Savable(o)
    /\ banner \in BOOLEAN

CallsAreTrue == \A c \in calls : CallShape(c) /\ AnswerIsTrue(c) /\ SaveIsNewer(c)

EditorInv == ServerShape /\ PageShape /\ CallsAreTrue /\ NewerTextsStay

-----------------------------------------------------------------------------
(* The server: versions are added, and never changed *)

ServerGrows ==
    /\ texts <= texts'
    /\ \A o \in Objects :
          /\ Len(server[o]) <= Len(server'[o])
          /\ \A i \in DOMAIN server[o] : server'[o][i] = server[o][i]

LEMMA StoryIsObject == "story" \in Objects /\ DraftRows \subseteq Objects
BY DEF Objects

LEMMA SequenceOverMore ==
    ASSUME NEW S, NEW T, S \subseteq T, NEW s \in Seq(S)
    PROVE  s \in Seq(T)
<1>1. DOMAIN s = 1 .. Len(s) /\ Len(s) \in Nat
    OBVIOUS
<1>2. \A i \in 1 .. Len(s) : s[i] \in T
    BY ElementOfSeq
<1> QED BY <1>1, <1>2

LEMMA LastIsInTheSequence ==
    ASSUME NEW S, NEW s \in Seq(S), s # <<>>
    PROVE  /\ Len(s) \in DOMAIN s /\ Last(s) = s[Len(s)] /\ Last(s) \in S
           /\ Len(s) \in Nat \ {0}
BY DEF Last

\* A text added at the end of texts that follow an order keeps them in order.
LEMMA AppendKeepsOrder ==
    ASSUME NEW s \in Seq(Nat), s # <<>>, NEW t \in Nat, Last(s) <= t,
           \A i, j \in DOMAIN s : i < j => s[i] <= s[j]
    PROVE  /\ Append(s, t) # <<>>
           /\ Len(s) <= Len(Append(s, t))
           /\ \A i \in DOMAIN s : Append(s, t)[i] = s[i]
           /\ \A i, j \in DOMAIN Append(s, t) : i < j => Append(s, t)[i] <= Append(s, t)[j]
<1> DEFINE a == Append(s, t)
<1>1. /\ Len(s) \in Nat \ {0} /\ Len(s) \in DOMAIN s /\ Last(s) = s[Len(s)]
      /\ DOMAIN s = 1 .. Len(s) /\ \A i \in DOMAIN s : s[i] \in Nat
    BY LastIsInTheSequence
<1>2. /\ Len(a) = Len(s) + 1 /\ DOMAIN a = 1 .. Len(s) + 1
      /\ \A i \in 1 .. Len(s) : a[i] = s[i]
      /\ a[Len(s) + 1] = t /\ a # <<>>
    BY AppendProperties
<1>3. \A i \in DOMAIN s : s[i] <= t
    <2> SUFFICES ASSUME NEW i \in DOMAIN s PROVE s[i] <= t
        OBVIOUS
    <2>1. i = Len(s) \/ i < Len(s)
        BY <1>1
    <2>2. s[i] <= s[Len(s)]
        BY <1>1, <2>1
    <2> QED BY <1>1, <2>2
<1>4. ASSUME NEW i \in DOMAIN a, NEW j \in DOMAIN a, i < j
      PROVE  a[i] <= a[j]
    <2>1. i \in DOMAIN s /\ a[i] = s[i]
        BY <1>1, <1>2, <1>4
    <2>2. CASE j \in DOMAIN s
        BY <1>1, <1>2, <1>4, <2>1, <2>2
    <2>3. CASE j = Len(s) + 1
        BY <1>2, <1>3, <2>1, <2>3
    <2> QED BY <1>1, <1>2, <2>2, <2>3
<1> QED BY <1>1, <1>2, <1>4

\* What holds when of each object a text at least as new is added, or none.
LEMMA GrownServer ==
    ASSUME ServerShape, NewerTextsStay, texts' \in texts .. MaxTexts,
           DOMAIN server' = Objects, server' = [o \in Objects |-> server'[o]],
           \A o \in Objects :
              \/ server'[o] = server[o]
              \/ \E t \in FirstText .. texts' : /\ Last(server[o]) <= t
                                                /\ server'[o] = Append(server[o], t)
    PROVE  ServerShape' /\ ServerGrows /\ NewerTextsStay'
<1>1. texts \in Nat /\ texts' \in Nat /\ texts' \in FirstText .. MaxTexts /\ texts <= texts'
    BY DEF ServerShape, FirstText
<1>2. ASSUME NEW o \in Objects
      PROVE  /\ server'[o] \in Seq(FirstText .. texts') /\ server'[o] # <<>>
             /\ Len(server[o]) <= Len(server'[o])
             /\ \A i \in DOMAIN server[o] : server'[o][i] = server[o][i]
             /\ \A i, j \in DOMAIN server'[o] : i < j => server'[o][i] <= server'[o][j]
    <2>1. /\ server[o] \in Seq(FirstText .. texts') /\ server[o] \in Seq(Nat)
          /\ server[o] # <<>> /\ Len(server[o]) \in Nat
          /\ \A i, j \in DOMAIN server[o] : i < j => server[o][i] <= server[o][j]
        <3>1. server[o] \in Seq(FirstText .. texts) /\ server[o] # <<>>
            BY DEF ServerShape
        <3>2. FirstText .. texts \subseteq FirstText .. texts' /\ FirstText .. texts \subseteq Nat
            BY <1>1 DEF FirstText
        <3>3. DOMAIN server[o] = 1 .. Len(server[o]) /\ Len(server[o]) \in Nat
            BY <3>1
        <3>4. server[o] \in Seq(FirstText .. texts') /\ server[o] \in Seq(Nat)
            BY <3>1, <3>2, SequenceOverMore
        <3> QED BY <3>1, <3>3, <3>4 DEF NewerTextsStay
    <2>2. CASE server'[o] = server[o]
        BY <2>1, <2>2
    <2>3. ASSUME NEW t \in FirstText .. texts', Last(server[o]) <= t,
                 server'[o] = Append(server[o], t)
          PROVE  /\ server'[o] \in Seq(FirstText .. texts') /\ server'[o] # <<>>
                 /\ Len(server[o]) <= Len(server'[o])
                 /\ \A i \in DOMAIN server[o] : server'[o][i] = server[o][i]
                 /\ \A i, j \in DOMAIN server'[o] : i < j => server'[o][i] <= server'[o][j]
        <3>1. t \in Nat
            BY <1>1 DEF FirstText
        <3>2. server'[o] \in Seq(FirstText .. texts')
            BY <2>1, <2>3
        <3> DEFINE a == Append(server[o], t)
        <3>3. /\ a # <<>> /\ Len(server[o]) <= Len(a)
              /\ \A i \in DOMAIN server[o] : a[i] = server[o][i]
              /\ \A i, j \in DOMAIN a : i < j => a[i] <= a[j]
            BY ONLY <2>1, <2>3, <3>1, AppendKeepsOrder
        <3> HIDE DEF a
        <3>4. server'[o] = a
            BY <2>3 DEF a
        <3> QED BY <3>2, <3>3, <3>4
    <2> QED BY <2>2, <2>3
<1> QED BY <1>1, <1>2 DEF ServerShape, ServerGrows, NewerTextsStay

LEMMA VersionsStay ==
    ASSUME ServerShape, ServerShape', ServerGrows, NEW o \in Objects, NEW was,
           IsVersion(o, was)
    PROVE  IsVersion(o, was)'
<1>1. server[o] \in Seq(FirstText .. texts) /\ server'[o] \in Seq(FirstText .. texts')
    BY DEF ServerShape
<1>2. /\ DOMAIN server[o] = 1 .. Len(server[o]) /\ Len(server[o]) \in Nat
      /\ DOMAIN server'[o] = 1 .. Len(server'[o]) /\ Len(server'[o]) \in Nat
    BY <1>1
<1> QED BY <1>2 DEF IsVersion, ServerGrows

\* A written object and the story's counter are both a version more.
LEMMA WrittenIsGrowth ==
    ASSUME ServerShape, NewerTextsStay, texts' \in texts .. MaxTexts,
           NEW o \in Objects, NEW t \in FirstText .. texts', Last(server[o]) <= t,
           Written(o, t)
    PROVE  ServerShape' /\ ServerGrows /\ NewerTextsStay'
<1>1. texts \in Nat /\ texts' \in Nat /\ texts <= texts'
    BY DEF ServerShape, FirstText
<1>2. DOMAIN server' = Objects /\ server' = [x \in Objects |-> server'[x]]
    BY DEF Written
<1>3. ASSUME NEW x \in Objects
      PROVE  \/ server'[x] = server[x]
             \/ \E n \in FirstText .. texts' : /\ Last(server[x]) <= n
                                               /\ server'[x] = Append(server[x], n)
    <2>1. Last(server[x]) \in FirstText .. texts
        BY LastIsInTheSequence DEF ServerShape
    <2>2. Last(server[x]) \in FirstText .. texts' /\ Last(server[x]) <= Last(server[x])
        BY <1>1, <2>1 DEF FirstText
    <2>3. CASE x = o
        <3>1. server'[x] = Append(server[x], t)
            BY <2>3 DEF Written
        <3> QED BY <3>1, <2>3
    <2>4. CASE x # o
        <3>1. server'[x] \in {Append(server[x], Last(server[x])), server[x]}
            BY <2>4 DEF Written
        <3> QED BY <3>1, <2>2
    <2> QED BY <2>3, <2>4
<1> QED BY <1>2, <1>3, GrownServer

-----------------------------------------------------------------------------
(* The calls, and the API's answers *)

LEMMA CallStaysTrue ==
    ASSUME ServerShape, ServerShape', ServerGrows, NEW c,
           CallShape(c), AnswerIsTrue(c), SaveIsNewer(c)
    PROVE  AnswerIsTrue(c)' /\ SaveIsNewer(c)'
<1>1. AnswerIsTrue(c)'
    <2> SUFFICES ASSUME c.status # "sent"
                 PROVE  /\ DOMAIN c.answer \subseteq Objects
                        /\ \A o \in DOMAIN c.answer : IsVersion(o, c.answer[o])'
        BY DEF AnswerIsTrue
    <2>1. /\ DOMAIN c.answer \subseteq Objects
          /\ \A o \in DOMAIN c.answer : IsVersion(o, c.answer[o])
        BY DEF AnswerIsTrue
    <2> QED BY <2>1, VersionsStay
<1>2. SaveIsNewer(c)'
    <2> SUFFICES ASSUME c.kind = "patch"
                 PROVE  /\ c.text \in FirstText .. texts'
                        /\ IsVersion(c.object, [version |-> c.version, text |-> c.base])'
                        /\ c.base <= c.text
        BY DEF SaveIsNewer
    <2>1. /\ c.text \in FirstText .. texts
          /\ IsVersion(c.object, [version |-> c.version, text |-> c.base])
          /\ c.base <= c.text
        BY DEF SaveIsNewer
    <2>2. c.object \in Objects
        BY DEF CallShape
    <2>3. texts \in Nat /\ texts' \in Nat /\ texts <= texts'
        BY DEF ServerShape, ServerGrows, FirstText
    <2> QED BY <2>1, <2>2, <2>3, VersionsStay DEF FirstText
<1> QED BY <1>1, <1>2

LEMMA CallsStayTrue ==
    ASSUME ServerShape, ServerShape', ServerGrows, CallsAreTrue,
           \A c \in calls' : \/ c \in calls
                             \/ CallShape(c) /\ AnswerIsTrue(c)' /\ SaveIsNewer(c)'
    PROVE  CallsAreTrue'
BY CallStaysTrue DEF CallsAreTrue, CallShape

LEMMA AnswerKeepsCallsTrue ==
    ASSUME ServerShape, ServerShape', ServerGrows, CallsAreTrue,
           NEW c \in calls, NEW status \in {"ok", "conflict", "error"},
           Answered(c, status)
    PROVE  CallsAreTrue'
<1>1. CallShape(c) /\ SaveIsNewer(c)
    BY DEF CallsAreTrue
<1>2. Carried(c) \subseteq Objects
    BY <1>1, StoryIsObject DEF Carried, CallShape
<1>3. PICK answer : answer = [o \in Carried(c) |->
                                 [version |-> Len(server'[o]), text |-> Last(server'[o])]]
    OBVIOUS
<1>4. DOMAIN answer = Carried(c)
    BY <1>3
<1>5. ASSUME NEW o \in Carried(c)
      PROVE  IsVersion(o, answer[o])'
    <2>1. server'[o] \in Seq(FirstText .. texts') /\ server'[o] # <<>>
        BY <1>2 DEF ServerShape
    <2>2. /\ Len(server'[o]) \in DOMAIN server'[o]
          /\ Last(server'[o]) = server'[o][Len(server'[o])]
          /\ Last(server'[o]) \in FirstText .. texts' /\ Len(server'[o]) \in Nat \ {0}
        BY <2>1, LastIsInTheSequence
    <2>3. FirstText .. texts' \subseteq Nat
        BY DEF ServerShape, FirstText
    <2>4. answer[o] = [version |-> Len(server'[o]), text |-> Last(server'[o])]
        BY <1>3
    <2> QED BY <2>2, <2>3, <2>4 DEF IsVersion, Copies
<1>6. PICK d : d = [c EXCEPT !.status = status, !.answer = answer]
    OBVIOUS
<1>7. /\ CallShape(d) /\ d.answer = answer /\ d.kind = c.kind
      /\ c.kind = "patch" => /\ d.object = c.object /\ d.version = c.version
                             /\ d.base = c.base /\ d.text = c.text
    <2>1. CASE c.kind \in {"lists", "load"}
        <3>1. PICK kind, was, old : c = [kind |-> kind, status |-> was, answer |-> old]
            BY <1>1, <2>1 DEF CallShape
        <3>2. d = [kind |-> kind, status |-> status, answer |-> answer]
            BY <1>6, <3>1
        <3> QED BY <2>1, <3>1, <3>2 DEF CallShape
    <2>2. CASE c.kind = "patch"
        <3>1. PICK o, v, b, t, was, old :
                 c = [kind |-> "patch", object |-> o, version |-> v, base |-> b,
                      text |-> t, status |-> was, answer |-> old]
            BY <1>1, <2>2 DEF CallShape
        <3>2. d = [kind |-> "patch", object |-> o, version |-> v, base |-> b,
                   text |-> t, status |-> status, answer |-> answer]
            BY <1>6, <3>1
        <3>3. c.object \in Objects
            BY <1>1, <2>2 DEF CallShape
        <3> QED BY <2>2, <3>1, <3>2, <3>3 DEF CallShape
    <2>3. CASE c.kind = "restore"
        <3>1. PICK o, v, was, old :
                 c = [kind |-> "restore", object |-> o, version |-> v,
                      status |-> was, answer |-> old]
            BY <1>1, <2>3 DEF CallShape
        <3>2. d = [kind |-> "restore", object |-> o, version |-> v,
                   status |-> status, answer |-> answer]
            BY <1>6, <3>1
        <3>3. c.object \in Objects
            BY <1>1, <2>3 DEF CallShape
        <3> QED BY <2>3, <3>1, <3>2, <3>3 DEF CallShape
    <2> QED BY <1>1, <2>1, <2>2, <2>3 DEF CallShape
<1>8. calls' = (calls \ {c}) \cup {d}
    BY <1>3, <1>6 DEF Answered
<1>9. AnswerIsTrue(d)'
    <2>1. DOMAIN d.answer \subseteq Objects
        BY <1>2, <1>4, <1>7
    <2>2. \A o \in DOMAIN d.answer : IsVersion(o, d.answer[o])'
        BY <1>4, <1>5, <1>7
    <2> QED BY <2>1, <2>2 DEF AnswerIsTrue
<1>10. SaveIsNewer(d)'
    <2>1. SaveIsNewer(c)'
        BY CallStaysTrue DEF CallsAreTrue
    <2> QED BY <2>1, <1>7 DEF SaveIsNewer
<1> QED BY <1>7, <1>8, <1>9, <1>10, CallsStayTrue

\* The page does not depend on what the server gets besides.
LEMMA PageStays ==
    ASSUME ServerShape, ServerShape', ServerGrows, PageShape,
           UNCHANGED <<copy, form, armed>>, banner' \in BOOLEAN
    PROVE  PageShape'
<1>1. \A o \in Objects : IsVersion(o, copy[o])'
    <2>1. \A o \in Objects : IsVersion(o, copy[o])
        BY DEF PageShape
    <2>2. \A o \in Objects : \A was : IsVersion(o, was) => IsVersion(o, was)'
        BY VersionsStay
    <2> QED BY <2>1, <2>2 DEF IsVersion
<1>2. form' \in [Objects -> Blank .. texts']
    <2>1. texts \in Nat /\ texts' \in Nat /\ texts <= texts'
        BY DEF ServerShape, ServerGrows, FirstText
    <2>2. Blank .. texts \subseteq Blank .. texts'
        BY <2>1 DEF Blank
    <2> QED BY <2>2 DEF PageShape
<1> QED BY <1>1, <1>2 DEF PageShape, Savable, Dirty

\* A save over the newest version is at least as new as its text.
LEMMA MatchingSaveIsNewer ==
    ASSUME EditorInv, NEW c \in calls, c.kind = "patch", Matches(c)
    PROVE  /\ c.object \in Objects /\ c.text \in FirstText .. texts
           /\ Last(server[c.object]) <= c.text
<1>1. /\ c.object \in Objects /\ c.text \in FirstText .. texts /\ c.base <= c.text
      /\ IsVersion(c.object, [version |-> c.version, text |-> c.base])
    BY DEF EditorInv, CallsAreTrue, CallShape, SaveIsNewer
<1>2. c.base = server[c.object][c.version] /\ c.version = Len(server[c.object])
    BY <1>1 DEF IsVersion, Matches
<1>3. Last(server[c.object]) = c.base
    BY <1>2 DEF Last
<1> QED BY <1>1, <1>3

\* An unchanged server is one that grows by nothing.
LEMMA NothingIsGrowth ==
    ASSUME ServerShape, NewerTextsStay, texts' \in texts .. MaxTexts, UNCHANGED server
    PROVE  ServerShape' /\ ServerGrows /\ NewerTextsStay'
<1>1. DOMAIN server' = Objects /\ server' = [o \in Objects |-> server'[o]]
    BY DEF ServerShape
<1> QED BY <1>1, GrownServer

LEMMA ServeKeepsInv ==
    ASSUME EditorInv, NEW c \in calls, Serve(c)
    PROVE  EditorInv'
<1>1. texts \in Nat /\ MaxTexts \in Nat /\ texts \in texts .. MaxTexts
    BY MaxTextsAssumption DEF EditorInv, ServerShape, FirstText
<1>2. /\ ServerShape' /\ ServerGrows /\ NewerTextsStay'
      /\ \E status \in {"ok", "conflict", "error"} : Answered(c, status)
    <2>1. CASE UNCHANGED <<server, texts>>
        <3>1. \E status \in {"ok", "conflict", "error"} : Answered(c, status)
            BY DEF Serve, ServePatch, ServeRestore, ServeRead, CallFails
        <3> QED BY <1>1, <2>1, <3>1, NothingIsGrowth DEF EditorInv
    <2>2. CASE /\ c.kind = "patch" /\ Matches(c) /\ Written(c.object, c.text)
               /\ UNCHANGED texts
        <3>1. \E status \in {"ok", "conflict", "error"} : Answered(c, status)
            BY DEF Serve, ServePatch, ServeRestore, ServeRead, CallFails
        <3> QED BY <1>1, <2>2, <3>1, MatchingSaveIsNewer, WrittenIsGrowth DEF EditorInv
    <2>3. CASE /\ c.kind = "restore" /\ texts < MaxTexts /\ texts' = texts + 1
               /\ Written(c.object, texts') /\ Answered(c, "ok")
        <3>1. c.object \in Objects
            BY <2>3 DEF EditorInv, CallsAreTrue, CallShape
        <3>2. Last(server[c.object]) \in FirstText .. texts
            BY <3>1, LastIsInTheSequence DEF EditorInv, ServerShape
        <3>3. /\ texts' \in texts .. MaxTexts /\ texts' \in FirstText .. texts'
              /\ Last(server[c.object]) <= texts'
            BY <1>1, <2>3, <3>2 DEF FirstText
        <3> QED BY <2>3, <3>1, <3>3, WrittenIsGrowth DEF EditorInv
    <2> QED BY <2>1, <2>2, <2>3
            DEF Serve, ServePatch, ServeRestore, ServeRead, CallFails
<1>3. CallsAreTrue'
    BY <1>2, AnswerKeepsCallsTrue DEF EditorInv
<1>4. PageShape'
    <2>1. UNCHANGED <<copy, form, armed, banner>>
        BY DEF Serve, ServePatch, ServeRestore, ServeRead, CallFails
    <2>2. banner' \in BOOLEAN
        BY <2>1 DEF EditorInv, PageShape
    <2> QED BY <1>2, <2>1, <2>2, PageStays DEF EditorInv
<1> QED BY <1>2, <1>3, <1>4 DEF EditorInv

-----------------------------------------------------------------------------
(* Typing and the timers *)

LEMMA NumbersOfTexts ==
    ASSUME ServerShape
    PROVE  /\ texts \in Nat \ {0} /\ MaxTexts \in Nat /\ texts <= MaxTexts
           /\ \A o \in Objects : IsVersion(o, copy[o]) =>
                 /\ copy[o].text \in FirstText .. texts
                 /\ copy[o].version \in Nat
<1>1. texts \in Nat \ {0} /\ MaxTexts \in Nat /\ texts <= MaxTexts
    BY MaxTextsAssumption DEF ServerShape, FirstText
<1>2. ASSUME NEW o \in Objects, IsVersion(o, copy[o])
      PROVE  copy[o].text \in FirstText .. texts /\ copy[o].version \in Nat
    <2>1. server[o] \in Seq(FirstText .. texts)
        BY DEF ServerShape
    <2>2. copy[o].version \in 1 .. Len(server[o]) /\ copy[o].text = server[o][copy[o].version]
        BY <1>2, <2>1 DEF IsVersion
    <2>3. copy[o].text \in FirstText .. texts
        BY <2>1, <2>2, ElementOfSeq
    <2> QED BY <2>1, <2>2, <2>3
<1> QED BY <1>1, <1>2

\* No text is written, and no call changes.
LEMMA ServerAndCallsStay ==
    ASSUME ServerShape, NewerTextsStay, CallsAreTrue,
           texts' \in texts .. MaxTexts, UNCHANGED server,
           \A c \in calls' : \/ c \in calls
                             \/ CallShape(c) /\ AnswerIsTrue(c)' /\ SaveIsNewer(c)'
    PROVE  ServerShape' /\ ServerGrows /\ NewerTextsStay' /\ CallsAreTrue'
BY NothingIsGrowth, CallsStayTrue

LEMMA TypeKeepsInv ==
    ASSUME EditorInv, NEW o \in Objects, Type(o)
    PROVE  EditorInv'
<1>1. /\ texts \in Nat \ {0} /\ MaxTexts \in Nat /\ texts' = texts + 1 /\ texts < MaxTexts
      /\ copy[o].text \in Nat /\ copy[o].text <= texts
    BY NumbersOfTexts DEF EditorInv, PageShape, Type, FirstText
<1>2. texts' \in texts .. MaxTexts
    BY <1>1
<1>3. ServerShape' /\ ServerGrows /\ NewerTextsStay' /\ CallsAreTrue'
    BY <1>2, ServerAndCallsStay DEF EditorInv, Type
<1>4. PageShape'
    <2>1. /\ form \in [Objects -> Blank .. texts] /\ form' = [form EXCEPT ![o] = texts']
          /\ armed' = armed \cup {o} /\ UNCHANGED <<copy, banner, server>>
        BY DEF EditorInv, PageShape, Type
    <2>2. form' \in [Objects -> Blank .. texts']
        BY <1>1, <2>1 DEF Blank
    <2>3. \A x \in Objects : form'[x] = IF x = o THEN texts' ELSE form[x]
        BY <2>1
    <2>4. \A x \in Objects : form'[x] = Blank \/ copy[x].text <= form'[x]
        BY <1>1, <2>3 DEF EditorInv, PageShape
    <2>5. \A x \in armed' : form'[x] # copy[x].text /\ form'[x] # Blank
        BY <1>1, <2>1, <2>3 DEF EditorInv, PageShape, Savable, Dirty, Blank
    <2> QED BY <2>1, <2>2, <2>4, <2>5
            DEF EditorInv, PageShape, Savable, Dirty, IsVersion
<1> QED BY <1>3, <1>4 DEF EditorInv

LEMMA EraseKeepsInv ==
    ASSUME EditorInv, NEW o \in Objects, Erase(o)
    PROVE  EditorInv'
<1>1. texts' \in texts .. MaxTexts /\ texts \in Nat
    BY NumbersOfTexts DEF EditorInv, Erase
<1>2. ServerShape' /\ ServerGrows /\ NewerTextsStay' /\ CallsAreTrue'
    BY <1>1, ServerAndCallsStay DEF EditorInv, Erase
<1>3. /\ form \in [Objects -> Blank .. texts] /\ form' = [form EXCEPT ![o] = Blank]
      /\ armed' = armed \ {o} /\ UNCHANGED <<copy, banner, server, texts>>
    BY DEF EditorInv, PageShape, Erase
<1>4. form' \in [Objects -> Blank .. texts']
    BY <1>1, <1>3 DEF Blank
<1>5. \A x \in Objects : form'[x] = IF x = o THEN Blank ELSE form[x]
    BY <1>3
<1>6. PageShape'
    BY <1>3, <1>4, <1>5 DEF EditorInv, PageShape, Savable, Dirty, IsVersion
<1> QED BY <1>2, <1>6 DEF EditorInv

LEMMA FireKeepsInv ==
    ASSUME EditorInv, NEW o \in Objects, Fire(o)
    PROVE  EditorInv'
<1>1. texts' \in texts .. MaxTexts /\ texts \in Nat
    BY NumbersOfTexts DEF EditorInv, Fire
<1>2. PICK v, b, t : v = copy[o].version /\ b = copy[o].text /\ t = form[o]
    OBVIOUS
<1>3. PICK d : d = [kind |-> "patch", object |-> o, version |-> v, base |-> b, text |-> t,
                    status |-> "sent", answer |-> <<>>]
    OBVIOUS
<1>4. calls' = calls \cup {d}
    BY <1>2, <1>3 DEF Fire, Patch
<1>5. CallShape(d) /\ AnswerIsTrue(d)'
    BY <1>3 DEF CallShape, AnswerIsTrue
<1>6. SaveIsNewer(d)'
    <2>1. /\ IsVersion(o, copy[o]) /\ form[o] \in Blank .. texts
          /\ form[o] # Blank /\ copy[o].text <= form[o]
        BY DEF EditorInv, PageShape, Savable, Fire
    <2>2. t \in FirstText .. texts /\ b <= t
        BY <1>1, <1>2, <2>1 DEF Blank, FirstText
    <2>3. IsVersion(o, [version |-> v, text |-> b])
        BY <1>2, <2>1 DEF IsVersion, Copies
    <2> QED BY <1>3, <2>2, <2>3 DEF SaveIsNewer, IsVersion, Fire
<1>7. ServerShape' /\ ServerGrows /\ NewerTextsStay' /\ CallsAreTrue'
    BY <1>1, <1>4, <1>5, <1>6, ServerAndCallsStay DEF EditorInv, Fire
<1>8. PageShape'
    BY DEF EditorInv, PageShape, Savable, Dirty, IsVersion, Fire
<1> QED BY <1>7, <1>8 DEF EditorInv

-----------------------------------------------------------------------------
(* Answers *)

LEMMA NewReadings ==
    ASSUME NEW kind \in {"lists", "load"}
    PROVE  /\ CallShape(Reading(kind)) /\ AnswerIsTrue(Reading(kind))'
           /\ SaveIsNewer(Reading(kind))'
BY DEF Reading, CallShape, AnswerIsTrue, SaveIsNewer

\* The page takes an answer, an older one than it has included.
LEMMA AbsorbKeepsInv ==
    ASSUME EditorInv, NEW c \in calls, c.status # "sent", Absorb(c), banner' \in BOOLEAN,
           UNCHANGED <<server, texts>>
    PROVE  EditorInv'
<1>1. texts' \in texts .. MaxTexts /\ texts \in Nat
    BY NumbersOfTexts DEF EditorInv
<1>2. /\ DOMAIN c.answer \subseteq Objects
      /\ \A o \in DOMAIN c.answer : IsVersion(o, c.answer[o])
    BY DEF EditorInv, CallsAreTrue, AnswerIsTrue
<1>3. \A d \in calls' : d \in calls \/ d = Reading("lists")
    BY DEF Absorb
<1>4. ServerShape' /\ ServerGrows /\ NewerTextsStay' /\ CallsAreTrue'
    BY <1>1, <1>3, NewReadings, ServerAndCallsStay DEF EditorInv
<1>5. /\ DOMAIN copy' = Objects
      /\ \A o \in Objects : copy'[o] = IF o \in DOMAIN c.answer THEN c.answer[o] ELSE copy[o]
      /\ DOMAIN form' = Objects /\ form' = [o \in Objects |-> form'[o]]
      /\ \A o \in Objects : form'[o] = IF o \in Replaced(c.answer) THEN c.answer[o].text
                                                                  ELSE form[o]
      /\ armed' = armed \ Replaced(c.answer)
    BY DEF Absorb
<1>6. \A o \in Objects : IsVersion(o, copy[o]) /\ IsVersion(o, copy'[o])
    BY <1>2, <1>5 DEF EditorInv, PageShape
\* A form that is not replaced is over the text it was over.
<1>7. ASSUME NEW o \in Objects, o \notin Replaced(c.answer)
      PROVE  copy'[o].text = copy[o].text /\ form'[o] = form[o]
    <2>1. CASE o \notin DOMAIN c.answer
        BY <1>5, <1>7, <2>1
    <2>2. CASE o \in DOMAIN c.answer
        <3>1. copy'[o] = c.answer[o] /\ c.answer[o].version = copy[o].version
            BY <1>5, <1>7, <2>2 DEF Replaced
        <3> QED BY <1>5, <1>6, <1>7, <3>1 DEF IsVersion
    <2> QED BY <2>1, <2>2
<1>8. ASSUME NEW o \in Replaced(c.answer)
      PROVE  o \in Objects /\ form'[o] = copy'[o].text /\ form'[o] \in FirstText .. texts
    <2>1. o \in Objects /\ o \in DOMAIN c.answer
        BY <1>2 DEF Replaced
    <2>2. form'[o] = copy'[o].text
        BY <1>5, <2>1
    <2>3. server[o] \in Seq(FirstText .. texts)
        BY <2>1 DEF EditorInv, ServerShape
    <2>4. copy'[o].version \in 1 .. Len(server[o]) /\ copy'[o].text = server[o][copy'[o].version]
        BY <1>6, <2>1, <2>3 DEF IsVersion
    <2> QED BY <2>1, <2>2, <2>3, <2>4, ElementOfSeq
<1>9. PageShape'
    <2>1. \A o \in Objects : form'[o] \in Blank .. texts'
        <3>1. FirstText .. texts \subseteq Blank .. texts
            BY <1>1 DEF FirstText, Blank
        <3> QED BY <1>7, <1>8, <3>1 DEF EditorInv, PageShape
    <2>2. form' \in [Objects -> Blank .. texts']
        BY <1>5, <2>1
    <2>3. \A o \in Objects : form'[o] = Blank \/ copy'[o].text <= form'[o]
        <3> SUFFICES ASSUME NEW o \in Objects
                     PROVE  form'[o] = Blank \/ copy'[o].text <= form'[o]
            OBVIOUS
        <3>1. CASE o \in Replaced(c.answer)
            BY <1>1, <1>8, <3>1 DEF FirstText
        <3>2. CASE o \notin Replaced(c.answer)
            BY <1>7, <3>2 DEF EditorInv, PageShape
        <3> QED BY <3>1, <3>2
    <2>4. armed' \subseteq Objects /\ \A o \in armed' : form'[o] # copy'[o].text /\ form'[o] # Blank
        BY <1>5, <1>7 DEF EditorInv, PageShape, Savable, Dirty
    <2>5. \A o \in Objects : IsVersion(o, copy[o])'
        BY <1>6 DEF IsVersion
    <2> QED BY <1>5, <2>2, <2>3, <2>4, <2>5 DEF PageShape, Savable, Dirty
<1> QED BY <1>4, <1>9 DEF EditorInv

LEMMA DeliverKeepsInv ==
    ASSUME EditorInv, NEW c \in calls, Deliver(c)
    PROVE  EditorInv'
<1>1. CASE Saved(c) \/ SaveConflicts(c) \/ ReadArrives(c)
    <2>1. /\ c.status # "sent" /\ Absorb(c) /\ UNCHANGED <<server, texts>>
          /\ banner' \in BOOLEAN
        BY <1>1 DEF Saved, SaveConflicts, ReadArrives, EditorInv, PageShape
    <2> QED BY <2>1, AbsorbKeepsInv
<1>2. CASE SaveFails(c) \/ ReadFails(c) \/ Restored(c)
    <2>1. texts' \in texts .. MaxTexts /\ texts \in Nat
        BY <1>2, NumbersOfTexts DEF EditorInv, SaveFails, ReadFails, Restored
    <2>2. /\ UNCHANGED <<server, copy, form, armed>>
          /\ \A d \in calls' : d \in calls \/ d = Reading("load")
          /\ banner' \in BOOLEAN
        BY <1>2 DEF SaveFails, ReadFails, Restored, EditorInv, PageShape
    <2>3. ServerShape' /\ ServerGrows /\ NewerTextsStay' /\ CallsAreTrue'
        BY <2>1, <2>2, NewReadings, ServerAndCallsStay DEF EditorInv
    <2>4. PageShape'
        BY <2>2, <2>3, PageStays DEF EditorInv
    <2> QED BY <2>3, <2>4 DEF EditorInv
<1> QED BY <1>1, <1>2 DEF Deliver

-----------------------------------------------------------------------------
(* What else happens *)

LEMMA AddSourceKeepsInv ==
    ASSUME EditorInv, NEW o \in Objects, AddSource(o)
    PROVE  EditorInv'
<1>1. texts' \in texts .. MaxTexts /\ texts \in Nat /\ UNCHANGED texts
    BY NumbersOfTexts DEF EditorInv, AddSource
<1>2. /\ server \in [Objects -> Seq(FirstText .. texts)]
      /\ server' = [server EXCEPT ![o] = Append(@, Last(@))]
    BY DEF EditorInv, ServerShape, AddSource
<1>3. DOMAIN server' = Objects /\ server' = [x \in Objects |-> server'[x]]
    BY <1>2
<1>4. ASSUME NEW x \in Objects
      PROVE  \/ server'[x] = server[x]
             \/ \E n \in FirstText .. texts' : /\ Last(server[x]) <= n
                                               /\ server'[x] = Append(server[x], n)
    <2>1. Last(server[x]) \in FirstText .. texts'
        BY <1>1, LastIsInTheSequence DEF EditorInv, ServerShape
    <2>2. Last(server[x]) <= Last(server[x])
        BY <2>1 DEF FirstText
    <2>3. server'[x] \in {server[x], Append(server[x], Last(server[x]))}
        BY <1>2
    <2> QED BY <2>1, <2>2, <2>3
<1>5. ServerShape' /\ ServerGrows /\ NewerTextsStay'
    BY <1>1, <1>3, <1>4, GrownServer DEF EditorInv
<1>6. \A c \in calls' : c \in calls \/ c = Reading("lists")
    BY DEF AddSource, Touch
<1>7. CallsAreTrue'
    BY <1>5, <1>6, NewReadings, CallsStayTrue DEF EditorInv
<1>8. UNCHANGED <<copy, form, armed>> /\ banner' \in BOOLEAN
    BY DEF EditorInv, PageShape, AddSource
<1> QED BY <1>5, <1>7, <1>8, PageStays DEF EditorInv

LEMMA WrittenElsewhereKeepsInv ==
    ASSUME EditorInv, NEW o \in Objects, WrittenElsewhere(o)
    PROVE  EditorInv'
<1>1. /\ texts \in Nat \ {0} /\ MaxTexts \in Nat /\ texts < MaxTexts /\ texts' = texts + 1
    BY NumbersOfTexts DEF EditorInv, WrittenElsewhere
<1>2. Last(server[o]) \in FirstText .. texts
    BY LastIsInTheSequence DEF EditorInv, ServerShape
<1>3. /\ texts' \in texts .. MaxTexts /\ texts' \in FirstText .. texts'
      /\ Last(server[o]) <= texts' /\ Written(o, texts')
    BY <1>1, <1>2 DEF FirstText, WrittenElsewhere
<1>4. ServerShape' /\ ServerGrows /\ NewerTextsStay'
    BY <1>3, WrittenIsGrowth DEF EditorInv
<1>5. CallsAreTrue'
    BY <1>4, CallsStayTrue DEF EditorInv, WrittenElsewhere
<1>6. UNCHANGED <<copy, form, armed>> /\ banner' \in BOOLEAN
    BY DEF EditorInv, PageShape, WrittenElsewhere
<1> QED BY <1>4, <1>5, <1>6, PageStays DEF EditorInv

LEMMA AskingKeepsInv ==
    ASSUME EditorInv,
           Reload \/ (\E o \in Objects : RestoreRevision(o)) \/ UNCHANGED editorVars
    PROVE  EditorInv'
<1>1. UNCHANGED <<server, copy, form, armed, texts>>
    BY DEF Reload, RestoreRevision, Touch, editorVars
<1>2. texts' \in texts .. MaxTexts /\ banner' \in BOOLEAN
    <2>1. banner' \in {banner, FALSE}
        BY DEF Reload, RestoreRevision, Touch, editorVars
    <2>2. texts \in Nat /\ MaxTexts \in Nat /\ texts <= MaxTexts
        BY NumbersOfTexts DEF EditorInv
    <2>3. texts' = texts
        BY <1>1
    <2>4. texts' \in texts .. MaxTexts
        BY <2>2, <2>3
    <2>5. banner \in BOOLEAN
        BY DEF EditorInv, PageShape
    <2> QED BY <2>1, <2>4, <2>5
<1>3. ASSUME NEW o \in Objects, NEW c, c = Restore(o)
      PROVE  CallShape(c) /\ AnswerIsTrue(c)' /\ SaveIsNewer(c)'
    <2>1. c = [kind |-> "restore", object |-> o, version |-> c.version,
               status |-> "sent", answer |-> <<>>]
        BY <1>3 DEF Restore
    <2> QED BY <2>1 DEF CallShape, AnswerIsTrue, SaveIsNewer
<1>4. ServerShape' /\ ServerGrows /\ NewerTextsStay' /\ CallsAreTrue'
    <2>1. \A c \in calls' : c \in calls \/ c = Reading("load")
                              \/ \E o \in Objects : c = Restore(o)
        BY DEF Reload, RestoreRevision, Touch, editorVars
    <2>2. \A c \in calls' : \/ c \in calls
                            \/ CallShape(c) /\ AnswerIsTrue(c)' /\ SaveIsNewer(c)'
        BY <1>3, <2>1, NewReadings
    <2> QED BY <1>1, <1>2, <2>2, ServerAndCallsStay DEF EditorInv
<1> QED BY <1>1, <1>2, <1>4, PageStays DEF EditorInv

-----------------------------------------------------------------------------
(* Every step *)

LEMMA InitHasEditorInv == EditorInit => EditorInv
<1> SUFFICES ASSUME EditorInit PROVE EditorInv
    OBVIOUS
<1>1. /\ server = [o \in Objects |-> <<FirstText>>] /\ texts = FirstText
      /\ copy = [o \in Objects |-> [version |-> 1, text |-> FirstText]]
      /\ form = [o \in Objects |-> FirstText]
      /\ armed = {} /\ calls = {} /\ banner = FALSE
    BY DEF EditorInit
<1>2. \A o \in Objects : server[o] = <<FirstText>> /\ server[o] # <<>>
    BY <1>1
<1>3. FirstText \in FirstText .. texts /\ <<FirstText>> \in Seq(FirstText .. texts)
    BY <1>1 DEF FirstText
<1>4. ServerShape
    BY <1>1, <1>2, <1>3, MaxTextsAssumption DEF ServerShape, FirstText
<1>5. \A o \in Objects : IsVersion(o, copy[o])
    BY <1>1, <1>2 DEF IsVersion, Copies, FirstText
<1>6. PageShape
    <2>1. form \in [Objects -> Blank .. texts]
        BY <1>1 DEF FirstText, Blank
    <2>2. \A o \in Objects : copy[o].text <= form[o]
        BY <1>1 DEF FirstText
    <2> QED BY <1>1, <1>5, <2>1, <2>2 DEF PageShape
<1>7. NewerTextsStay
    BY <1>2 DEF NewerTextsStay
<1> QED BY <1>1, <1>4, <1>6, <1>7 DEF EditorInv, CallsAreTrue

LEMMA StepKeepsEditorInv == EditorInv /\ [EditorNext]_editorVars => EditorInv'
<1> SUFFICES ASSUME EditorInv, [EditorNext]_editorVars PROVE EditorInv'
    OBVIOUS
<1>1. ASSUME NEW o \in Objects, Type(o) \/ Erase(o) \/ Fire(o)
      PROVE  EditorInv'
    BY <1>1, TypeKeepsInv, EraseKeepsInv, FireKeepsInv
<1>2. CASE Network
    BY <1>2, ServeKeepsInv, DeliverKeepsInv DEF Network
<1>3. ASSUME NEW o \in Objects, AddSource(o) \/ RestoreRevision(o) \/ WrittenElsewhere(o)
      PROVE  EditorInv'
    BY <1>3, AddSourceKeepsInv, WrittenElsewhereKeepsInv, AskingKeepsInv
<1>4. CASE Reload \/ UNCHANGED editorVars
    BY <1>4, AskingKeepsInv
<1> QED BY <1>1, <1>2, <1>3, <1>4 DEF EditorNext

LEMMA AlwaysEditorInv == EditorSpec => []EditorInv
BY InitHasEditorInv, StepKeepsEditorInv, PTL DEF EditorSpec

-----------------------------------------------------------------------------
(* Theorems *)

(***************************************************************************)
(* The page and the server are what EditorTypeOK says; a timer runs only   *)
(* over a form that differs from its copy and is complete.                 *)
(***************************************************************************)
THEOREM EditorTypeCorrect == EditorSpec => []EditorTypeOK
<1>1. EditorInv => EditorTypeOK
    <2> SUFFICES ASSUME EditorInv PROVE EditorTypeOK
        OBVIOUS
    <2>1. /\ texts \in Nat \ {0} /\ MaxTexts \in Nat /\ texts <= MaxTexts
        BY NumbersOfTexts DEF EditorInv
    <2>2. /\ FirstText .. texts \subseteq FirstText .. MaxTexts
          /\ Blank .. texts \subseteq Blank .. MaxTexts
        BY <2>1 DEF FirstText, Blank
    <2>3. ASSUME NEW o \in Objects
          PROVE  server[o] \in Seq(FirstText .. MaxTexts) /\ server[o] # <<>>
        <3>1. server[o] \in Seq(FirstText .. texts) /\ server[o] # <<>>
            BY DEF EditorInv, ServerShape
        <3> QED BY <2>2, <3>1, SequenceOverMore
    <2>4. \A o \in Objects : copy[o] \in Copies
        BY DEF EditorInv, PageShape, IsVersion
    <2>5. form \in [Objects -> Blank .. MaxTexts]
        BY <2>2 DEF EditorInv, PageShape
    <2> QED BY <2>3, <2>4, <2>5 DEF EditorInv, PageShape, EditorTypeOK
<1> QED BY <1>1, AlwaysEditorInv, PTL

(***************************************************************************)
(* Saves, reads and restores are answered in any order, and what the page  *)
(* takes from them is always one version of the object with its own text.  *)
(***************************************************************************)
THEOREM CopiesAreVersions == EditorSpec => []CopyIsAVersion
<1>1. EditorInv => CopyIsAVersion
    BY DEF EditorInv, PageShape, IsVersion, CopyIsAVersion
<1> QED BY <1>1, AlwaysEditorInv, PTL

(***************************************************************************)
(* The If-Match of the autosaves keeps the texts in the order in which     *)
(* they were typed, for any number of saves in flight.                     *)
(***************************************************************************)
THEOREM AutosavesKeepOrder == EditorSpec => []NewerTextsStay
<1>1. EditorInv => NewerTextsStay
    BY DEF EditorInv
<1> QED BY <1>1, AlwaysEditorInv, PTL

=============================================================================
