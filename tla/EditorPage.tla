----------------------------- MODULE EditorPage -----------------------------
(***************************************************************************)
(* The editor page (DraftReadyPage.tsx) of one browser tab and the draft   *)
(* it edits.  The page holds a copy of the story's header and of each row  *)
(* (section, event, source), each with the version that the copy had, and  *)
(* a form over every copy.  A form that differs is saved after a pause in  *)
(* the typing, with the copy's version as If-Match; saves and list reads   *)
(* are in flight at the same time and are answered in any order.           *)
(*                                                                         *)
(* A text is a number, new for each change of a text; Blank is a required  *)
(* field left empty.  Identical calls in flight at the same time are one.  *)
(***************************************************************************)
EXTENDS Naturals, Sequences, FiniteSets, SequencesExt

CONSTANTS
    DraftRows,      \* the sections, events and sources of the draft
    MaxTexts,       \* bound: texts typed, written by others or restored
    MaxCalls,       \* bound: calls in flight
    MaxTouches,     \* bound: requests that make the page read the draft again
    MaxLost         \* bound: calls that fail

ASSUME MaxTextsAssumption == MaxTexts \in Nat \ {0}

VARIABLES
    server,         \* of each object: the texts of its versions, in order
    copy,           \* of each object: the version and text the page has
    form,           \* of each object: the text in the form
    armed,          \* the objects whose autosave timer is running
    calls,          \* requests sent and not yet answered to the page
    banner,         \* the page shows that a save failed or conflicted
    failed,         \* of each object: the texts whose save failed (history variable)
    texts,          \* number of the newest text
    touches,        \* number of reloads and additions so far
    lost            \* number of failed calls so far

editorVars == <<server, copy, form, armed, calls, banner, failed, texts, touches, lost>>

Objects == {"story"} \cup DraftRows

Blank == 0
FirstText == 1

Copies == [version : Nat \ {0}, text : Nat]

Current(o) == [version |-> Len(server[o]), text |-> Last(server[o])]

\* isDirtyVersusServer, and build...Patch: what there is to save, and may be.
Dirty(o) == form[o] # copy[o].text

Savable(o) == Dirty(o) /\ form[o] # Blank

EditorTypeOK ==
    /\ \A o \in Objects : server[o] \in Seq(FirstText .. MaxTexts) /\ server[o] # <<>>
    /\ \A o \in Objects : copy[o] \in Copies
    /\ form \in [Objects -> Blank .. MaxTexts]
    /\ armed \subseteq Objects
    /\ \A o \in armed : Savable(o)
    /\ banner \in BOOLEAN

\* The page has loaded the draft, and everything on it is as the server has it.
EditorInit ==
    /\ server = [o \in Objects |-> <<FirstText>>]
    /\ copy = [o \in Objects |-> [version |-> 1, text |-> FirstText]]
    /\ form = [o \in Objects |-> FirstText]
    /\ armed = {}
    /\ calls = {}
    /\ banner = FALSE
    /\ failed = [o \in Objects |-> {}]
    /\ texts = FirstText
    /\ touches = 0
    /\ lost = 0

-----------------------------------------------------------------------------
(* The calls, and the API's answers *)

Reading(kind) == [kind |-> kind, status |-> "sent", answer |-> <<>>]

\* The request saves the form over the version of the copy.
Patch(o) == [kind |-> "patch", object |-> o, version |-> copy[o].version,
             base |-> copy[o].text, text |-> form[o], status |-> "sent", answer |-> <<>>]

Restore(o) == [kind |-> "restore", object |-> o, version |-> copy[o].version,
               status |-> "sent", answer |-> <<>>]

\* The objects whose rows a call's answer carries.
Carried(c) ==
    CASE c.kind = "lists" -> DraftRows
      [] c.kind = "load"  -> {"story"}
      [] OTHER            -> {c.object}

Answered(c, status) ==
    calls' = (calls \ {c}) \cup
             {[c EXCEPT !.status = status,
                        !.answer = [o \in Carried(c) |->
                            [version |-> Len(server'[o]), text |-> Last(server'[o])]]]}

\* A save of a row is a revision, which is counted in the story's row and is
\* a new version of it.
Written(o, text) ==
    server' = [x \in Objects |->
                  CASE x = o                 -> Append(server[x], text)
                    [] x = "story" /\ x # o  -> Append(server[x], Last(server[x]))
                    [] OTHER                 -> server[x]]

\* Mutant: the version is not compared.
MatchesAnything(c) == TRUE

Matches(c) == c.version = Len(server[c.object])

ServePatch(c) ==
    /\ c.kind = "patch" /\ c.status = "sent"
    /\ IF Matches(c) THEN Written(c.object, c.text) /\ Answered(c, "ok")
                     ELSE UNCHANGED server /\ Answered(c, "conflict")
    /\ UNCHANGED <<copy, form, armed, banner, failed, texts, touches, lost>>

\* The text of an earlier revision comes back as the newest one.
ServeRestore(c) ==
    /\ c.kind = "restore" /\ c.status = "sent"
    /\ IF Matches(c)
       THEN /\ texts < MaxTexts
            /\ texts' = texts + 1
            /\ Written(c.object, texts')
            /\ Answered(c, "ok")
       ELSE UNCHANGED <<server, texts>> /\ Answered(c, "error")
    /\ UNCHANGED <<copy, form, armed, banner, failed, touches, lost>>

ServeRead(c) ==
    /\ c.kind \in {"lists", "load"} /\ c.status = "sent"
    /\ UNCHANGED server
    /\ Answered(c, "ok")
    /\ UNCHANGED <<copy, form, armed, banner, failed, texts, touches, lost>>

\* The API refuses, or its answer is lost: the save may have been made.
CallFails(c) ==
    /\ c.status = "sent"
    /\ lost < MaxLost
    /\ lost' = lost + 1
    /\ \/ UNCHANGED server
       \/ c.kind = "patch" /\ Matches(c) /\ Written(c.object, c.text)
    /\ Answered(c, "error")
    /\ UNCHANGED <<copy, form, armed, banner, failed, texts, touches>>

-----------------------------------------------------------------------------
(* Typing and the timers *)

\* Every keystroke starts the object's timer again; an empty required field
\* stops it.
Type(o) ==
    /\ texts < MaxTexts
    /\ texts' = texts + 1
    /\ form' = [form EXCEPT ![o] = texts']
    /\ armed' = armed \cup {o}
    /\ UNCHANGED <<server, copy, calls, banner, failed, touches, lost>>

\* Mutant: an empty field leaves the timer running.
EraseArmed(o) ==
    /\ form[o] # Blank
    /\ form' = [form EXCEPT ![o] = Blank]
    /\ UNCHANGED <<server, copy, armed, calls, banner, failed, texts, touches, lost>>

Erase(o) ==
    /\ form[o] # Blank
    /\ form' = [form EXCEPT ![o] = Blank]
    /\ armed' = armed \ {o}
    /\ UNCHANGED <<server, copy, calls, banner, failed, texts, touches, lost>>

\* Mutant: nothing is sent while another save of the object is on its way.
FireAlone(o) ==
    /\ o \in armed
    /\ Cardinality(calls) < MaxCalls
    /\ armed' = armed \ {o}
    /\ calls' = IF \E c \in calls : c.kind = "patch" /\ c.object = o
                THEN calls ELSE calls \cup {Patch(o)}
    /\ UNCHANGED <<server, copy, form, banner, failed, texts, touches, lost>>

Fire(o) ==
    /\ o \in armed
    /\ Cardinality(calls) < MaxCalls
    /\ armed' = armed \ {o}
    /\ calls' = calls \cup {Patch(o)}
    /\ UNCHANGED <<server, copy, form, banner, failed, texts, touches, lost>>

-----------------------------------------------------------------------------
(* Answers *)

\* The header's answer always replaces the header's form; a row's form is
\* replaced when the row comes in another version than the copy's.
Replaced(answer) ==
    {o \in DOMAIN answer : o = "story" \/ answer[o].version # copy[o].version}

\* A header that is set makes the page read the rows again.
Absorb(c) ==
    /\ copy' = [o \in Objects |-> IF o \in DOMAIN c.answer THEN c.answer[o] ELSE copy[o]]
    /\ form' = [o \in Objects |-> IF o \in Replaced(c.answer) THEN c.answer[o].text
                                                              ELSE form[o]]
    /\ armed' = armed \ Replaced(c.answer)
    /\ calls' = (calls \ {c}) \cup
                {Reading("lists") : o \in DOMAIN c.answer \cap {"story"}}

\* Mutant: a conflict brings the page the new version, and it keeps its text.
ConflictKeepingForm(c) ==
    /\ c.kind = "patch" /\ c.status = "conflict"
    /\ copy' = [copy EXCEPT ![c.object].version = c.answer[c.object].version]
    /\ armed' = IF Savable(c.object) THEN armed \cup {c.object} ELSE armed
    /\ calls' = calls \ {c}
    /\ banner' = TRUE
    /\ UNCHANGED <<server, form, failed, texts, touches, lost>>

SaveConflicts(c) ==
    /\ c.kind = "patch" /\ c.status = "conflict"
    /\ Absorb(c)
    /\ banner' = TRUE
    /\ UNCHANGED <<server, failed, texts, touches, lost>>

\* Only the header's success takes the banner away.
Saved(c) ==
    /\ c.kind = "patch" /\ c.status = "ok"
    /\ Absorb(c)
    /\ banner' = (banner /\ c.object # "story")
    /\ UNCHANGED <<server, failed, texts, touches, lost>>

\* The text stays in the form; it is not sent again unless it is changed.
SaveFails(c) ==
    /\ c.kind = "patch" /\ c.status = "error"
    /\ calls' = calls \ {c}
    /\ banner' = TRUE
    /\ failed' = [failed EXCEPT ![c.object] = @ \cup {c.text}]
    /\ UNCHANGED <<server, copy, form, armed, texts, touches, lost>>

ReadArrives(c) ==
    /\ c.kind \in {"lists", "load"} /\ c.status = "ok"
    /\ Absorb(c)
    /\ UNCHANGED <<server, banner, failed, texts, touches, lost>>

\* A read that fails leaves the copies as they are; so does a restore, whose
\* failure is shown.
ReadFails(c) ==
    /\ c.kind # "patch" /\ c.status = "error"
    /\ calls' = calls \ {c}
    /\ banner' = (banner \/ c.kind = "restore")
    /\ UNCHANGED <<server, copy, form, armed, failed, texts, touches, lost>>

\* A restored revision is seen by reading the header, and then the rows.
Restored(c) ==
    /\ c.kind = "restore" /\ c.status = "ok"
    /\ calls' = (calls \ {c}) \cup {Reading("load")}
    /\ UNCHANGED <<server, copy, form, armed, banner, failed, texts, touches, lost>>

-----------------------------------------------------------------------------
(* What else the creator does on the page, and others elsewhere *)

Touch(newCalls) ==
    /\ touches < MaxTouches
    /\ Cardinality(calls) < MaxCalls
    /\ touches' = touches + 1
    /\ calls' = calls \cup newCalls

\* createSource counts the source in the event, which is a new version of it,
\* and the page reads its rows again.
AddSource(o) ==
    /\ o \in DraftRows
    /\ Touch({Reading("lists")})
    /\ server' = [server EXCEPT ![o] = Append(@, Last(@))]
    /\ UNCHANGED <<copy, form, armed, banner, failed, texts, lost>>

\* Run checks, or Publish: no text changes, and the page loads the draft again.
Reload ==
    /\ Touch({Reading("load")})
    /\ UNCHANGED <<server, copy, form, armed, banner, failed, texts, lost>>

\* The banner goes away when a restore is asked for.
RestoreRevision(o) ==
    /\ Touch({Restore(o)})
    /\ banner' = FALSE
    /\ UNCHANGED <<server, copy, form, armed, failed, texts, lost>>

\* Another tab, or a regeneration.
WrittenElsewhere(o) ==
    /\ texts < MaxTexts
    /\ touches < MaxTouches
    /\ texts' = texts + 1
    /\ touches' = touches + 1
    /\ Written(o, texts')
    /\ UNCHANGED <<copy, form, armed, calls, banner, failed, lost>>

-----------------------------------------------------------------------------

Serve(c) == ServePatch(c) \/ ServeRestore(c) \/ ServeRead(c) \/ CallFails(c)

Deliver(c) ==
    \/ Saved(c) \/ SaveConflicts(c) \/ SaveFails(c)
    \/ ReadArrives(c) \/ ReadFails(c) \/ Restored(c)

Network == \E c \in calls : Serve(c) \/ Deliver(c)

EditorNext ==
    \/ \E o \in Objects : Type(o) \/ Erase(o) \/ Fire(o)
    \/ Network
    \/ \E o \in Objects : AddSource(o) \/ RestoreRevision(o) \/ WrittenElsewhere(o)
    \/ Reload

\* Timers fire, and every call is answered or fails.
EditorFairness ==
    /\ \A o \in Objects : WF_editorVars(Fire(o))
    /\ WF_editorVars(Network)

EditorSpec == EditorInit /\ [][EditorNext]_editorVars /\ EditorFairness

-----------------------------------------------------------------------------
(* Properties *)

(***************************************************************************)
(* What the page shows as the server's text at a version is that version's *)
(* text, whatever answers arrive in whatever order, the older after the    *)
(* newer included: the form compares with, and the If-Match stands for,    *)
(* one and the same state.                                                 *)
(***************************************************************************)
CopyIsAVersion ==
    \A o \in Objects : /\ copy[o].version \in DOMAIN server[o]
                       /\ copy[o].text = server[o][copy[o].version]

(***************************************************************************)
(* No text is overwritten by an older one.  Of two saves in flight the     *)
(* one that was typed first may arrive last; a save may arrive after       *)
(* somebody else's; the server's texts still follow the order in which     *)
(* they were written.                                                      *)
(***************************************************************************)
NewerTextsStay ==
    \A o \in Objects : \A i, j \in DOMAIN server[o] : i < j => server[o][i] <= server[o][j]

(***************************************************************************)
(* Whatever is typed is saved in the end, or replaced by the server's      *)
(* text, or is not complete, or its save has failed (and the page, which   *)
(* has shown that, sends it again only when the text changes).             *)
(***************************************************************************)
EditsSettle ==
    \A o \in Objects : Savable(o) ~> (~Savable(o) \/ form[o] \in failed[o])

=============================================================================
