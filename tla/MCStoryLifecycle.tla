-------------------------- MODULE MCStoryLifecycle --------------------------
(* StoryLifecycle for TLC: requests, workers and keys are interchangeable. *)
EXTENDS StoryLifecycle, TLC

Symmetry == Permutations(Workers) \cup Permutations(Keys)

=============================================================================
