------------------------ MODULE MCTcpServerTransport ------------------------
(* TcpServerTransport with the numbers of MCTcpServerTransport.cfg. *)
EXTENDS TcpServerTransport
=============================================================================
