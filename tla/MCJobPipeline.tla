---------------------------- MODULE MCJobPipeline ----------------------------
(* JobPipeline for TLC: workers and idempotency keys are interchangeable.  *)
EXTENDS JobPipeline, TLC

Symmetry == Permutations(Workers) \cup Permutations(Keys)

=============================================================================
