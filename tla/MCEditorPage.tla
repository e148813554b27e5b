---------------------------- MODULE MCEditorPage ----------------------------
(* EditorPage for TLC.                                                      *)
EXTENDS EditorPage

=============================================================================
