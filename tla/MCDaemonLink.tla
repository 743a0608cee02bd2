--------------------------- MODULE MCDaemonLink ---------------------------
(* DaemonLink with the numbers of MCDaemonLink.cfg. *)
EXTENDS DaemonLink
=============================================================================
