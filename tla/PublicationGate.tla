--------------------------- MODULE PublicationGate ---------------------------
(***************************************************************************)
(* What publication promises, whatever the services beneath it do: a       *)
(* review decides whether the story is ready, being ready can be lost at   *)
(* any time, and only a ready story is published, once.                    *)
(***************************************************************************)
VARIABLES
    ready,          \* the story may be published
    published,      \* the story has been published
    report          \* result of the latest review, "none" before the first

gateVars == <<ready, published, report>>

\* A ready story is one the latest review has let through.
Reviewed == ready => report \in {"pass", "warn"}

Init ==
    /\ ready = FALSE
    /\ published = FALSE
    /\ report = "none"

Review ==
    /\ report' \in {"pass", "warn", "block"}
    /\ ready' = (report' # "block")
    /\ UNCHANGED published

Withdraw ==
    /\ ready' = FALSE
    /\ UNCHANGED <<published, report>>

Publish ==
    /\ ready /\ ~published
    /\ published' = TRUE
    /\ ready' = FALSE
    /\ UNCHANGED report

Next == Review \/ Withdraw \/ Publish

Spec == Init /\ [][Next]_gateVars

=============================================================================
