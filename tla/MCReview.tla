------------------------------ MODULE MCReview ------------------------------
(* Review for TLC: packages with one and with two candidate sources, of two *)
(* and of three events; requests and keys are interchangeable.              *)
EXTENDS Review, TLC

Candidate(tier) == [tier |-> tier, disputes |-> FALSE]

MCPackages ==
    {[hints |-> 3, highRisk |-> FALSE, candidates |-> <<Candidate("low")>>],
     [hints |-> 3, highRisk |-> FALSE,
      candidates |-> <<Candidate("high"), Candidate("unrated")>>],
     StubPackage}

Symmetry == Permutations(Editors) \cup Permutations(Publishers)
            \cup Permutations(PublishKeys) \cup Permutations(Resolvers)

=============================================================================
