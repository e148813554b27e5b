------------------------------ MODULE MCFraming ------------------------------
(* Framing for TLC: requests and keys are interchangeable.                 *)
EXTENDS Framing, TLC

Symmetry == Permutations(Generators) \cup Permutations(Selectors)
            \cup Permutations(SelectKeys)

=============================================================================
