---------------------------- MODULE MCWorkbench ----------------------------
(* Small instances of PracticeWorkbench; its constants are plain sets.      *)
EXTENDS PracticeWorkbench
=============================================================================
