---------------------------- MODULE MCDraftHistory ----------------------------
(* DraftHistory for TLC: one source, of the first of two events.           *)
EXTENDS DraftHistory, TLC

CONSTANTS header, e1, e2, s1

MCEventOf == [s \in {s1} |-> e1]

Symmetry == Permutations(Clients)

=============================================================================
