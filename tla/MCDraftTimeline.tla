--------------------------- MODULE MCDraftTimeline ---------------------------
(* DraftTimeline for TLC.                                                   *)
EXTENDS DraftTimeline

=============================================================================
