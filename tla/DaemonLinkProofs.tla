-------------------------- MODULE DaemonLinkProofs --------------------------
(***************************************************************************)
(* TLAPS proofs about DaemonLink, for any number of connections and any    *)
(* time-outs: descriptors, handshakes, and which connections are dropped.  *)
(***************************************************************************)
EXTENDS DaemonLink, TLAPS

\* A connection in use is open; a link that is down has no socket, or one on
\* which a send failed.
Socket ==
    /\ sock <= fresh
    /\ connected => sock # NoConn
    /\ ~connected => sock = NoConn \/ sock \in failed
    /\ io \in {"connect", "publish"} => ~connected
    /\ io = "publish" => fresh \in open /\ fresh # NoConn /\ fresh # sock

\* Where the loop stands with the handshake, and whom it was sent to.
Handshake ==
    /\ handshakeSent => seen
    /\ mpc \in {"greet", "drop"} => seen
    /\ mpc \in {"check", "drop", "beat"} /\ seen => handshakeSent
    /\ handshakeSent /\ connected => sock \in greeted \cup missed
    /\ beaten \subseteq greeted \cup missed

\* The last heartbeat is no older than the connection that was greeted.
Heartbeats ==
    /\ handshakeSent /\ sock # NoConn => sock \in missed \/ hb <= upFor
    /\ DropSparesFresh
    /\ wait < ReconnectAfter \/ mpc = "drop"

LinkInv == DescriptorsAccounted /\ Socket /\ Handshake /\ Heartbeats

\* The invariant holds initially.
LEMMA LinkInvInit == LinkInit => LinkInv
<1> SUFFICES ASSUME LinkInit PROVE LinkInv
  OBVIOUS
<1> USE LinkConstants DEF LinkConstants, LinkInit, NoConn, Never
<1>1. LinkTypeOK
  <2>2. /\ hb \in -1..(Timeout + 1) /\ upFor \in 0..(Timeout + 1)
        /\ wait \in 0..ReconnectAfter /\ round \in 0..(BeatEvery - 1)
    OBVIOUS
  <2>3. QED
    BY <2>2 DEF LinkTypeOK, Senders
<1>2. DescriptorsAccounted
  BY <1>1 DEF DescriptorsAccounted
<1>3. Socket /\ Handshake
  BY DEF Socket, Handshake
<1>4. Heartbeats
  BY DEF Heartbeats, DropSparesFresh
<1>5. QED
  BY <1>2, <1>3, <1>4 DEF LinkInv

\* Sending: the flag is cleared only together with a failure.
Sends == SendWorks \/ SendFails \/ NotSent \/ UNCHANGED <<connected, failed>>

LEMMA Sending ==
    ASSUME LinkInv, Sends, sock' = sock
    PROVE  /\ failed \subseteq failed' /\ failed' \subseteq Conn
           /\ connected' \in BOOLEAN /\ (connected' => connected)
           /\ ~connected' => sock = NoConn \/ sock \in failed'
<1> USE DEF LinkInv, DescriptorsAccounted, LinkTypeOK, Socket, NoConn
<1>1. CASE UNCHANGED <<connected, failed>>
  BY <1>1
<1>2. CASE SendFails
  <2>1. sock \in Conn
    BY <1>2 DEF SendFails
  <2>2. QED
    BY <1>2, <2>1 DEF SendFails
<1>3. QED
  BY <1>1, <1>2 DEF Sends, SendWorks, NotSent

\* Closing: a descriptor that stays open had a failed send, or is not
\* published yet.
LEMMA Closing ==
    ASSUME LinkInv, CloseSocket, fresh' = fresh, failed' = failed,
           io' = io \/ io = "recv"
    PROVE  /\ sock' = NoConn /\ connected' = FALSE
           /\ open' \subseteq open
           /\ \A c \in open' : c \in failed' \/ (c = fresh' /\ io' = "publish")
           /\ io = "publish" => fresh \in open'
BY DEF LinkInv, DescriptorsAccounted, LinkTypeOK, Socket, CloseSocket, NoConn

\* Each step preserves it.
LEMMA LinkInvStep == LinkInv /\ [LinkNext]_linkVars => LinkInv'
<1> SUFFICES ASSUME LinkInv, [LinkNext]_linkVars PROVE LinkInv'
  OBVIOUS
<1> USE LinkConstants DEF LinkConstants, LinkInv, DescriptorsAccounted, LinkTypeOK,
        Socket, Handshake, Heartbeats, DropSparesFresh, Conn, NoConn, Never, Senders,
        channel, loop, peer, history
<1>1. ASSUME NEW t \in Senders, Blocks(t) PROVE LinkInv'
  BY <1>1 DEF Blocks
<1>2. CASE Unblocks
  BY <1>2 DEF Unblocks
<1>3. CASE OtherSendFails
  <2>1. Sends /\ sock' = sock /\ fresh' = fresh /\ open' = open
    BY <1>3 DEF OtherSendFails, Sends
  <2>2. /\ failed \subseteq failed' /\ failed' \subseteq Conn
        /\ connected' \in BOOLEAN /\ (connected' => connected)
        /\ ~connected' => sock = NoConn \/ sock \in failed'
    BY <2>1, Sending
  <2>3. LinkTypeOK'
    BY <1>3, <2>1, <2>2 DEF OtherSendFails
  <2>4. DescriptorsAccounted' /\ Socket'
    BY <1>3, <2>1, <2>2, <2>3 DEF OtherSendFails
  <2>5. Handshake'
    BY <1>3, <2>1, <2>2 DEF OtherSendFails
  <2>6. Heartbeats'
    BY <1>3, <2>1, <2>2 DEF OtherSendFails
  <2>7. QED
    BY <2>4, <2>5, <2>6
<1>4. CASE IoCheck
  BY <1>4 DEF IoCheck, IoGoesOn
<1>5. CASE IoConnectFails
  BY <1>5 DEF IoConnectFails
<1>6. CASE IoConnects
  BY <1>6 DEF IoConnects
<1>7. CASE IoPublish
  BY <1>7 DEF IoPublish
<1>8. CASE IoHeartbeat
  BY <1>8 DEF IoHeartbeat
<1>9. CASE IoCommand
  BY <1>9 DEF IoCommand
<1>10. CASE IoReply
  <2>1. Sends /\ sock' = sock /\ fresh' = fresh /\ open' = open
    BY <1>10 DEF IoReply, Sends
  <2>2. /\ failed \subseteq failed' /\ failed' \subseteq Conn
        /\ connected' \in BOOLEAN /\ (connected' => connected)
        /\ ~connected' => sock = NoConn \/ sock \in failed'
    BY <2>1, Sending
  <2>3. LinkTypeOK'
    BY <1>10, <2>1, <2>2 DEF IoReply
  <2>4. DescriptorsAccounted' /\ Socket'
    BY <1>10, <2>1, <2>2, <2>3 DEF IoReply
  <2>5. Handshake'
    BY <1>10, <2>1, <2>2 DEF IoReply
  <2>6. Heartbeats'
    BY <1>10, <2>1, <2>2 DEF IoReply
  <2>7. QED
    BY <2>4, <2>5, <2>6
<1>11. CASE IoRecvFails
  <2>1. CloseSocket /\ fresh' = fresh /\ failed' = failed /\ (io' = io \/ io = "recv")
    BY <1>11 DEF IoRecvFails, ClosesOnError
  <2>2. /\ sock' = NoConn /\ connected' = FALSE
        /\ open' \subseteq open
        /\ \A c \in open' : c \in failed' \/ (c = fresh' /\ io' = "publish")
        /\ io = "publish" => fresh \in open'
    BY <2>1, Closing
  <2>3. LinkTypeOK'
    BY <1>11, <2>2 DEF IoRecvFails, ClosesOnError
  <2>4. DescriptorsAccounted' /\ Socket'
    BY <1>11, <2>1, <2>2, <2>3 DEF IoRecvFails, ClosesOnError
  <2>5. Handshake' /\ Heartbeats'
    BY <1>11, <2>2 DEF IoRecvFails, ClosesOnError
  <2>6. QED
    BY <2>4, <2>5
<1>12. CASE LoopWakes
  BY <1>12 DEF LoopWakes, HandshakeKept, Older
<1>13. CASE Greet
  <2>1. Sends /\ sock' = sock /\ fresh' = fresh /\ open' = open
    BY <1>13 DEF Greet, Sends
  <2>2. /\ failed \subseteq failed' /\ failed' \subseteq Conn
        /\ connected' \in BOOLEAN /\ (connected' => connected)
        /\ ~connected' => sock = NoConn \/ sock \in failed'
    BY <2>1, Sending
  <2>3. greeted \subseteq greeted' /\ greeted' \subseteq Conn /\ (connected' => sock \in greeted')
    <3>1. CASE SendWorks /\ greeted' = greeted \cup {sock}
      BY <3>1 DEF SendWorks
    <3>2. CASE SendFails /\ UNCHANGED greeted
      BY <3>2 DEF SendFails
    <3>3. CASE NotSent /\ UNCHANGED greeted
      BY <3>3 DEF NotSent
    <3>4. QED
      BY <1>13, <3>1, <3>2, <3>3 DEF Greet
  <2>4. handshakeSent' = TRUE /\ hb' = Never /\ mpc' = "check" /\ seen
    BY <1>13 DEF Greet, HeartbeatAfterReset
  <2>5. UNCHANGED <<running, io, txHolder, seen, wait, round, dead, reads, beaten, missed, upFor>>
    BY <1>13 DEF Greet
  <2>6. LinkTypeOK'
    BY <2>1, <2>2, <2>3, <2>4, <2>5
  <2>7. DescriptorsAccounted' /\ Socket'
    BY <2>1, <2>2, <2>5, <2>6
  <2>8. Handshake' /\ Heartbeats'
    BY <1>13, <2>1, <2>3, <2>4, <2>5 DEF Greet
  <2>9. QED
    BY <2>7, <2>8
<1>14. CASE CheckHealth
  BY <1>14 DEF CheckHealth, TimedOut
<1>15. CASE Reconnect
  <2>1. CloseSocket /\ fresh' = fresh /\ failed' = failed /\ (io' = io \/ io = "recv")
    BY <1>15 DEF Reconnect
  <2>2. /\ sock' = NoConn /\ connected' = FALSE
        /\ open' \subseteq open
        /\ \A c \in open' : c \in failed' \/ (c = fresh' /\ io' = "publish")
        /\ io = "publish" => fresh \in open'
    BY <2>1, Closing
  <2>3. LinkTypeOK'
    <3>1. mpc' = "beat" /\ wait' = 0
      BY <1>15 DEF Reconnect
    <3>2. UNCHANGED <<running, fresh, txHolder, seen, handshakeSent, hb, round, dead,
                      reads, failed, greeted, beaten, missed, upFor>>
      BY <1>15 DEF Reconnect
    <3>3. sock' \in Conn \cup {NoConn} /\ open' \subseteq Conn /\ connected' \in BOOLEAN
      BY <2>2
    <3>4. io' = io
      BY <1>15 DEF Reconnect
    <3>5. wait' \in 0..ReconnectAfter
      BY <3>1
    <3>6. QED
      BY <3>1, <3>2, <3>3, <3>4, <3>5
  <2>4. DescriptorsAccounted' /\ Socket'
    BY <1>15, <2>1, <2>2, <2>3 DEF Reconnect
  <2>5. Handshake' /\ Heartbeats'
    <3>1. mpc' = "beat" /\ wait' = 0
      BY <1>15 DEF Reconnect
    <3>2. UNCHANGED <<seen, handshakeSent, hb, greeted, beaten, missed, upFor>>
      BY <1>15 DEF Reconnect
    <3>3. handshakeSent
      BY <1>15 DEF Reconnect
    <3>4. QED
      BY <2>2, <3>1, <3>2, <3>3
  <2>6. QED
    BY <2>4, <2>5
<1>16. CASE Beat
  <2>1. Sends /\ sock' = sock /\ fresh' = fresh /\ open' = open
    BY <1>16 DEF Beat, Sends
  <2>2. /\ failed \subseteq failed' /\ failed' \subseteq Conn
        /\ connected' \in BOOLEAN /\ (connected' => connected)
        /\ ~connected' => sock = NoConn \/ sock \in failed'
    BY <2>1, Sending
  <2>3. beaten' = beaten \/ (seen /\ connected /\ sock \in Conn /\ beaten' = beaten \cup {sock})
    BY <1>16 DEF Beat, BeatDue, SendWorks
  <2>4. mpc = "beat" /\ mpc' = "sleep"
    BY <1>16 DEF Beat
  <2>5. UNCHANGED <<running, io, txHolder, seen, handshakeSent, hb, wait, round, dead,
                    reads, greeted, missed, upFor>>
    BY <1>16 DEF Beat
  <2>6. LinkTypeOK'
    BY <2>1, <2>2, <2>3, <2>4, <2>5
  <2>7. DescriptorsAccounted' /\ Socket'
    BY <2>1, <2>2, <2>5, <2>6
  <2>8. Handshake' /\ Heartbeats'
    BY <2>1, <2>2, <2>3, <2>4, <2>5
  <2>9. QED
    BY <2>7, <2>8
<1>17. CASE Terminate
  BY <1>17 DEF Terminate
<1>18. CASE StopCloses
  <2>1. CloseSocket /\ fresh' = fresh /\ failed' = failed /\ (io' = io \/ io = "recv")
    BY <1>18 DEF StopCloses
  <2>2. /\ sock' = NoConn /\ connected' = FALSE
        /\ open' \subseteq open
        /\ \A c \in open' : c \in failed' \/ (c = fresh' /\ io' = "publish")
        /\ io = "publish" => fresh \in open'
    BY <2>1, Closing
  <2>3. LinkTypeOK'
    BY <1>18, <2>2 DEF StopCloses
  <2>4. DescriptorsAccounted' /\ Socket'
    BY <1>18, <2>1, <2>2, <2>3 DEF StopCloses
  <2>5. Handshake' /\ Heartbeats'
    BY <1>18, <2>2 DEF StopCloses
  <2>6. QED
    BY <2>4, <2>5
<1>19. CASE StopJoins
  BY <1>19 DEF StopJoins
<1>20. CASE PeerCloses
  BY <1>20 DEF PeerCloses
<1>21. CASE PeerReads
  BY <1>21 DEF PeerReads
<1>22. CASE UNCHANGED linkVars
  BY <1>22 DEF linkVars
<1>23. QED
  BY <1>1, <1>2, <1>3, <1>4, <1>5, <1>6, <1>7, <1>8, <1>9, <1>10, <1>11, <1>12,
     <1>13, <1>14, <1>15, <1>16, <1>17, <1>18, <1>19, <1>20, <1>21, <1>22
     DEF LinkNext, IoThread, MainThread

\* LinkInv is an invariant of the link.
LEMMA LinkInvariant == LinkSpec => []LinkInv
BY LinkInvInit, LinkInvStep, PTL DEF LinkSpec

\* The descriptor senders use is open, and one leaks only after a failed send.
THEOREM LinkDescriptors == LinkSpec => []DescriptorsAccounted
<1>1. LinkInv => DescriptorsAccounted
  BY DEF LinkInv
<1>2. QED
  BY <1>1, LinkInvariant, PTL

\* Heartbeats follow a handshake on every connection the loop saw come up.
THEOREM HandshakeFirst == LinkSpec => []HeartbeatFollowsHandshake
<1>1. LinkInv => HeartbeatFollowsHandshake
  BY DEF LinkInv, Handshake, HeartbeatFollowsHandshake
<1>2. QED
  BY <1>1, LinkInvariant, PTL

\* Only a connection older than the time-out is dropped for silence.
THEOREM FreshIsSpared == LinkSpec => []DropSparesFresh
<1>1. LinkInv => DropSparesFresh
  BY DEF LinkInv, Heartbeats
<1>2. QED
  BY <1>1, LinkInvariant, PTL
=============================================================================
