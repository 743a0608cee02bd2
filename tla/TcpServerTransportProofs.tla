---------------------- MODULE TcpServerTransportProofs ----------------------
(***************************************************************************)
(* TLAPS proofs about TcpServerTransport, for any number of clients: which *)
(* descriptors are open, and what the RX thread can close by mistake.      *)
(***************************************************************************)
EXTENDS TcpServerTransport, TLAPS

\* An accepted client is new, open and not yet stored.
Stored ==
    /\ client <= accepted /\ rxFd <= accepted
    /\ acc = "store" => accepted # NoConn /\ accepted \in open /\ accepted \notin {client, rxFd}

\* The threads of a run end before the next start().
Ended ==
    /\ running => phase = "up"
    /\ phase \in {"joinRx", "down"} => acc = "none"
    /\ phase = "down" => rx = "none"

\* While the transport runs, the RX thread works on a client; if the one it
\* gave to recv() is no longer the current one, that one replaced it.
Reading ==
    /\ running /\ rx \in {"call", "recv", "failed"} => client # NoConn
    /\ running /\ rx \in {"recv", "failed"} => rxFd = client \/ client \in replacing
    /\ running /\ rx = "failed" /\ rxFd = client => client \in dead

ServerInv == DescriptorsAccounted /\ Stored /\ Ended /\ Reading

\* The invariant holds initially.
LEMMA ServerInvInit == ServerInit => ServerInv
<1> SUFFICES ASSUME ServerInit PROVE ServerInv
  OBVIOUS
<1> USE DEF ServerInit, NoConn
<1>1. ServerTypeOK
  <2>1. {client, accepted, rxFd} \subseteq Conn \cup {NoConn}
    OBVIOUS
  <2>2. {open, dead, replacing, late} \subseteq SUBSET Conn
    OBVIOUS
  <2>3. QED
    BY <2>1, <2>2 DEF ServerTypeOK
<1>2. DescriptorsAccounted
  BY <1>1 DEF DescriptorsAccounted
<1>3. Stored /\ Ended /\ Reading
  BY DEF Stored, Ended, Reading
<1>4. QED
  BY <1>2, <1>3 DEF ServerInv

\* Each step preserves it.
LEMMA ServerInvStep == ServerInv /\ [ServerNext]_srvVars => ServerInv'
<1> SUFFICES ASSUME ServerInv, [ServerNext]_srvVars PROVE ServerInv'
  OBVIOUS
<1> USE ServerConstants DEF ServerConstants, ServerInv, DescriptorsAccounted, ServerTypeOK, Stored,
        Ended, Reading, Conn, NoConn, accVars, rxVars, Without
<1>1. CASE Start
  BY <1>1 DEF Start
<1>2. CASE StopFlag
  BY <1>2 DEF StopFlag, RunningStopped
<1>3. CASE StopListener
  BY <1>3 DEF StopListener
<1>4. CASE StopClient
  BY <1>4 DEF StopClient, ShutClient
<1>5. CASE StopJoinAccept
  BY <1>5 DEF StopJoinAccept
<1>6. CASE StopJoinRx
  BY <1>6 DEF StopJoinRx
<1>7. CASE AcceptCheck
  BY <1>7 DEF AcceptCheck
<1>8. CASE AcceptReturns
  <2>1. accepted' \in Conn /\ client < accepted' /\ rxFd < accepted'
    BY <1>8 DEF AcceptReturns
  <2>2. open' = open \cup {accepted'} /\ acc' = "store" /\ client' = client
    BY <1>8 DEF AcceptReturns
  <2>3. ServerTypeOK'
    BY <1>8, <2>1, <2>2 DEF AcceptReturns
  <2>4. DescriptorsAccounted' /\ Stored'
    BY <1>8, <2>1, <2>2, <2>3 DEF AcceptReturns
  <2>5. Ended' /\ Reading'
    BY <1>8 DEF AcceptReturns
  <2>6. QED
    BY <2>4, <2>5
<1>9. CASE AcceptFails
  BY <1>9 DEF AcceptFails
<1>10. CASE AcceptStore
  <2>1. client' = accepted /\ open' = open \ {client} /\ acc' = "join"
    BY <1>10 DEF AcceptStore, Replaced
  <2>2. accepted \in open' /\ open' \subseteq {accepted}
    BY <1>10, <2>1 DEF AcceptStore
  <2>3. ServerTypeOK'
    BY <1>10, <2>1 DEF AcceptStore
  <2>4. DescriptorsAccounted' /\ Stored'
    BY <1>10, <2>1, <2>2, <2>3 DEF AcceptStore
  <2>5. Ended' /\ Reading'
    BY <1>10 DEF AcceptStore
  <2>6. QED
    BY <2>4, <2>5
<1>11. CASE AcceptSpawn
  BY <1>11 DEF AcceptSpawn, NewRx
<1>12. CASE RxCheck
  BY <1>12 DEF RxCheck
<1>13. CASE RxCall
  BY <1>13 DEF RxCall
<1>14. CASE RxData
  BY <1>14 DEF RxData
<1>15. CASE RxFails
  BY <1>15 DEF RxFails
<1>16. CASE RxCloses
  BY <1>16 DEF RxCloses
<1>17. CASE DaemonCloses
  BY <1>17 DEF DaemonCloses
<1>18. CASE UNCHANGED srvVars
  BY <1>18 DEF srvVars
<1>19. QED
  BY <1>1, <1>2, <1>3, <1>4, <1>5, <1>6, <1>7, <1>8, <1>9, <1>10, <1>11, <1>12,
     <1>13, <1>14, <1>15, <1>16, <1>17, <1>18
     DEF ServerNext, Stop, AcceptThread, RxThread

\* ServerInv is an invariant of the transport.
LEMMA ServerInvariant == ServerSpec => []ServerInv
BY ServerInvInit, ServerInvStep, PTL DEF ServerSpec

\* client_fd_ is open while it is set, and no other descriptor stays open, in
\* every interleaving of accept_loop(), rx_loop(), stop() and start().
THEOREM ServerDescriptors == ServerSpec => []DescriptorsAccounted
<1>1. ServerInv => DescriptorsAccounted
  BY DEF ServerInv
<1>2. QED
  BY <1>1, ServerInvariant, PTL

\* While the transport runs, rx_loop() closes a living connection only if that
\* connection replaced another one.
THEOREM ReplacementOnly == ServerSpec => []OnlyReplacementHurts
<1>1. ServerInv => OnlyReplacementHurts
  BY DEF ServerInv, Reading, OnlyReplacementHurts
<1>2. QED
  BY <1>1, ServerInvariant, PTL
=============================================================================
