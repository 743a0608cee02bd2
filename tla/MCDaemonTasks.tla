---------------------------- MODULE MCDaemonTasks ----------------------------
(***************************************************************************)
(* DaemonTasks for TLC: two commands of one task and one of another, with  *)
(* the sequence numbers the driver would give them.                        *)
(***************************************************************************)
EXTENDS DaemonTasks, TLC

CONSTANTS c1, c2, c3, home, valve

MCCommand == {c1, c2, c3}
MCTaskIdOf == c1 :> home @@ c2 :> home @@ c3 :> valve
MCSeqOf == c1 :> 0 @@ c2 :> 1 @@ c3 :> 2
==============================================================================
