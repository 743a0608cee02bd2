--------------------------- MODULE MCTaskExecutor ----------------------------
(* TaskExecutor for TLC: its constants are given in the .cfg files.         *)
EXTENDS TaskExecutor
==============================================================================
