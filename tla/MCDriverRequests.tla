-------------------------- MODULE MCDriverRequests --------------------------
(* DriverRequests for TLC.  Three calls with one retry make up to six        *)
(* attempts: with three sequence numbers the counter comes round twice, and  *)
(* the key a failed retry leaks is drawn again.                              *)
EXTENDS DriverRequests
=============================================================================
