-------------------------- MODULE MCCreatorSession --------------------------
(* CreatorSession for TLC.                                                  *)
EXTENDS CreatorSession

=============================================================================
