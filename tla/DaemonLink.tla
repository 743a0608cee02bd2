----------------------------- MODULE DaemonLink -----------------------------
(***************************************************************************)
(* The daemon's TCP link: TcpClientChannel under SerialComm                *)
(* (serial_comm.cpp), ConnectionMonitor, and the part of main() that       *)
(* greets, watches and drops connections.  Three kinds of threads share    *)
(* the socket: the IO thread, the main loop, and any thread that sends.    *)
(* Connections are numbered in the order the peer accepts them.  Time is   *)
(* counted in rounds of the main loop (500 ms).                            *)
(***************************************************************************)
EXTENDS Integers, FiniteSets

CONSTANTS MaxConn,        \* connections the peer accepts in a run
          Timeout,        \* heartbeat_timeout_ms, in rounds
          ReconnectAfter, \* reconnect_ms, in rounds
          BeatEvery       \* HEARTBEAT_MS / LOOP_STEP_MS

ASSUME LinkConstants ==
    /\ {MaxConn, Timeout} \subseteq Nat
    /\ {ReconnectAfter, BeatEvery} \subseteq Nat \ {0}

VARIABLES running, io, sock, connected, fresh, open,         \* TcpClientChannel
          txHolder,                                          \* tx_mutex_
          mpc, seen, handshakeSent, hb, wait, round,         \* main loop, monitor
          dead, reads,                                       \* the peer
          failed, greeted, beaten, missed, upFor             \* history

channel == <<running, io, sock, connected, fresh, open, txHolder>>
loop == <<mpc, seen, handshakeSent, hb, wait, round>>
peer == <<dead, reads>>
history == <<failed, greeted, beaten, missed, upFor>>
linkVars == <<channel, loop, peer, history>>

Conn == 1..MaxConn
NoConn == 0
Never == -1
Senders == {"io", "main", "other"}
TxFree == txHolder = "none"
BeatDue == seen /\ round = 0
Older(n) == IF n > Timeout THEN n ELSE n + 1

LinkInit ==
    /\ running = TRUE /\ io = "check" /\ connected = FALSE
    /\ sock = NoConn /\ fresh = NoConn /\ open = {} /\ txHolder = "none"
    /\ mpc = "sleep" /\ seen = FALSE /\ handshakeSent = FALSE
    /\ hb = Never /\ wait = 0 /\ round = 0
    /\ dead = {} /\ reads = TRUE
    /\ failed = {} /\ greeted = {} /\ beaten = {} /\ missed = {} /\ upFor = 0

-----------------------------------------------------------------------------
(* write_raw() and close_socket(), both under tx_mutex_.  send_raw() asks   *)
(* is_connected() before it takes the mutex; here it asks when it has it.  *)
(* In between connected_ can be cleared with the socket, which write_raw() *)
(* looks at itself, or by a failed send: then the peer is gone, and a      *)
(* second failure on the same socket changes nothing.                      *)

SendWorks == connected /\ sock \in Conn /\ UNCHANGED <<connected, failed>>
SendFails ==
    /\ connected /\ sock \in dead
    /\ connected' = FALSE /\ failed' = failed \cup {sock}
NotSent == ~(connected /\ sock \in Conn) /\ UNCHANGED <<connected, failed>>

CloseSocket ==
    /\ TxFree
    /\ open' = open \ {sock}
    /\ sock' = NoConn
    /\ connected' = FALSE

\* The peer's window is full: send() blocks and keeps tx_mutex_.
Blocks(t) ==
    /\ TxFree /\ connected /\ sock \in Conn /\ ~reads
    /\ \/ t = "io" /\ io = "reply"
       \/ t = "main" /\ (mpc = "greet" \/ (mpc = "beat" /\ BeatDue))
       \/ t = "other"
    /\ txHolder' = t
    /\ UNCHANGED <<running, io, sock, connected, fresh, open, loop, peer, history>>

Unblocks ==
    /\ ~TxFree /\ (reads \/ sock \in dead)
    /\ txHolder' = "none"
    /\ UNCHANGED <<running, io, sock, connected, fresh, open, loop, peer, history>>

\* The worker, the sensor thread or the GPIO thread fails to send.
OtherSendFails ==
    /\ TxFree /\ SendFails
    /\ UNCHANGED <<running, io, sock, fresh, open, txHolder, loop, peer,
                   greeted, beaten, missed, upFor>>
-----------------------------------------------------------------------------
(* io_loop() and try_connect().                                            *)

(* Fault: the loop looks at running_ only when it is connected. *)
IoGoesOnConnecting == running \/ ~connected
IoGoesOn == running

IoCheck ==
    /\ io = "check"
    /\ io' = IF ~IoGoesOn THEN "done" ELSE IF connected THEN "recv" ELSE "connect"
    /\ UNCHANGED <<running, sock, connected, fresh, open, txHolder, loop, peer, history>>

\* No address, no socket, refused or no answer in 5 s; then reconnect_ms.
IoConnectFails ==
    /\ io = "connect"
    /\ io' = "check"
    /\ UNCHANGED <<running, sock, connected, fresh, open, txHolder, loop, peer, history>>

IoConnects ==
    /\ io = "connect" /\ fresh < MaxConn
    /\ io' = "publish"
    /\ fresh' = fresh + 1
    /\ open' = open \cup {fresh'}
    /\ UNCHANGED <<running, sock, connected, txHolder, loop, peer, history>>

IoPublish ==
    /\ io = "publish" /\ TxFree
    /\ io' = "recv"
    /\ sock' = fresh /\ connected' = TRUE
    /\ reads' = TRUE /\ upFor' = 0
    /\ missed' = IF seen THEN missed \cup {fresh} ELSE missed
    /\ UNCHANGED <<running, fresh, open, txHolder, loop, dead, failed, greeted, beaten>>

\* MSG_HEARTBEAT: on_heartbeat_received().
IoHeartbeat ==
    /\ io = "recv" /\ sock \in Conn \ dead
    /\ io' = "check"
    /\ hb' = 0
    /\ UNCHANGED <<running, sock, connected, fresh, open, txHolder,
                   mpc, seen, handshakeSent, wait, round, peer, history>>

\* MSG_HANDSHAKE_REQ or a command: its handler answers.
IoCommand ==
    /\ io = "recv" /\ sock \in Conn \ dead
    /\ io' = "reply"
    /\ UNCHANGED <<running, sock, connected, fresh, open, txHolder, loop, peer, history>>

IoReply ==
    /\ io = "reply" /\ TxFree
    /\ SendFails \/ UNCHANGED <<connected, failed>>
    /\ io' = "check"
    /\ UNCHANGED <<running, sock, fresh, open, txHolder, loop, peer,
                   greeted, beaten, missed, upFor>>

(* Fault: the error only marks the link as down, the descriptor stays. *)
OnlyDisconnects == TxFree /\ connected' = FALSE /\ UNCHANGED <<sock, open>>
\* recv() returns 0 or an error: the peer has closed or the socket is gone.
ClosesOnError == CloseSocket

IoRecvFails ==
    /\ io = "recv" /\ sock \notin Conn \ dead
    /\ ClosesOnError
    /\ io' = "check"
    /\ UNCHANGED <<running, fresh, txHolder, loop, peer, history>>

IoThread == \/ IoCheck \/ IoConnectFails \/ IoConnects \/ IoPublish
            \/ IoReply \/ IoRecvFails
-----------------------------------------------------------------------------
(* main(): the loop, with check_health() and on_reconnect_attempt().       *)

(* Fault: a lost connection does not ask for a new handshake. *)
HandshakeOnce == handshakeSent
\* handshake_sent after a look at is_connected().
HandshakeKept == handshakeSent /\ connected

LoopWakes ==
    /\ mpc = "sleep"
    /\ seen' = connected
    /\ handshakeSent' = HandshakeKept
    /\ hb' = IF hb = Never THEN Never ELSE Older(hb)
    /\ upFor' = Older(upFor)
    /\ round' = (round + 1) % BeatEvery
    /\ mpc' = IF connected /\ ~handshakeSent THEN "greet" ELSE "check"
    /\ UNCHANGED <<channel, wait, peer, failed, greeted, beaten, missed>>

(* Fault: reset() forgets the time of the last heartbeat. *)
HeartbeatSurvivesReset == hb
HeartbeatAfterReset == Never

Greet ==
    /\ mpc = "greet" /\ TxFree
    /\ \/ SendWorks /\ greeted' = greeted \cup {sock}
       \/ (SendFails \/ NotSent) /\ UNCHANGED greeted
    /\ handshakeSent' = TRUE
    /\ hb' = HeartbeatAfterReset
    /\ mpc' = "check"
    /\ UNCHANGED <<running, io, sock, fresh, open, txHolder, seen, wait, round, peer,
                   beaten, missed, upFor>>

(* Fault: a time-out is not seen. *)
NeverTimedOut == FALSE
TimedOut == hb > Timeout

CheckHealth ==
    /\ mpc = "check"
    /\ \/ /\ seen /\ TimedOut
          /\ wait' = wait + 1
          /\ mpc' = IF wait' >= ReconnectAfter THEN "drop" ELSE "beat"
       \/ /\ seen /\ ~TimedOut
          /\ wait' = 0 /\ mpc' = "beat"
       \/ /\ ~seen
          /\ mpc' = "beat" /\ UNCHANGED wait
    /\ UNCHANGED <<channel, seen, handshakeSent, hb, round, peer, history>>

Reconnect ==
    /\ mpc = "drop" /\ CloseSocket
    /\ wait' = 0 /\ mpc' = "beat"
    /\ UNCHANGED <<running, io, fresh, txHolder, seen, handshakeSent, hb, round,
                   peer, history>>

Beat ==
    /\ mpc = "beat"
    /\ \/ /\ BeatDue /\ TxFree
          /\ \/ SendWorks /\ beaten' = beaten \cup {sock}
             \/ (SendFails \/ NotSent) /\ UNCHANGED beaten
       \/ ~BeatDue /\ UNCHANGED <<connected, failed, beaten>>
    /\ mpc' = "sleep"
    /\ UNCHANGED <<running, io, sock, fresh, open, txHolder, seen, handshakeSent, hb,
                   wait, round, peer, greeted, missed, upFor>>

\* SIGTERM ends the loop; the last step of the shutdown is comm.stop().
Terminate ==
    /\ mpc = "sleep"
    /\ running' = FALSE /\ mpc' = "close"
    /\ UNCHANGED <<io, sock, connected, fresh, open, txHolder, seen, handshakeSent,
                   hb, wait, round, peer, history>>

StopCloses ==
    /\ mpc = "close" /\ CloseSocket
    /\ mpc' = "join"
    /\ UNCHANGED <<running, io, fresh, txHolder, seen, handshakeSent, hb, wait, round,
                   peer, history>>

StopJoins ==
    /\ mpc = "join" /\ io = "done"
    /\ mpc' = "exit"
    /\ UNCHANGED <<channel, seen, handshakeSent, hb, wait, round, peer, history>>

MainThread == \/ LoopWakes \/ Greet \/ CheckHealth \/ Reconnect \/ Beat
              \/ StopCloses \/ StopJoins
-----------------------------------------------------------------------------
(* The peer.  A dead connection holds no unread data.                      *)

PeerCloses ==
    /\ \E c \in open \ dead : dead' = dead \cup {c}
    /\ UNCHANGED <<channel, loop, reads, history>>

PeerReads ==
    /\ reads' = ~reads
    /\ UNCHANGED <<channel, loop, dead, history>>

LinkNext == \/ IoThread \/ IoHeartbeat \/ IoCommand
            \/ MainThread \/ Terminate
            \/ \E t \in Senders : Blocks(t)
            \/ Unblocks \/ OtherSendFails \/ PeerCloses \/ PeerReads

\* Threads run; nothing is asked of the peer, of signals or of other senders.
LinkSpec == /\ LinkInit /\ [][LinkNext]_linkVars
            /\ WF_linkVars(IoThread) /\ WF_linkVars(MainThread) /\ WF_linkVars(Unblocks)
-----------------------------------------------------------------------------
LinkTypeOK ==
    /\ running \in BOOLEAN /\ connected \in BOOLEAN /\ seen \in BOOLEAN
    /\ handshakeSent \in BOOLEAN /\ reads \in BOOLEAN
    /\ io \in {"check", "connect", "publish", "recv", "reply", "done"}
    /\ mpc \in {"sleep", "greet", "check", "drop", "beat", "close", "join", "exit"}
    /\ txHolder \in Senders \cup {"none"}
    /\ sock \in Conn \cup {NoConn} /\ fresh \in Conn \cup {NoConn}
    /\ hb \in -1..(Timeout + 1) /\ upFor \in 0..(Timeout + 1)
    /\ wait \in 0..ReconnectAfter /\ round \in 0..(BeatEvery - 1)
    /\ open \subseteq Conn /\ dead \subseteq Conn /\ failed \subseteq Conn
    /\ greeted \subseteq Conn /\ beaten \subseteq Conn /\ missed \subseteq Conn

\* The descriptor senders use is open, and a descriptor is open that neither
\* sock_ nor try_connect() holds only if a send on it had failed: write_raw()
\* clears connected_ without closing, and try_connect() overwrites sock_.
DescriptorsAccounted ==
    /\ LinkTypeOK
    /\ sock # NoConn => sock \in open
    /\ \A c \in open : \/ c = sock \/ c \in failed
                       \/ c = fresh /\ io = "publish"

\* A connection that carries the daemon's heartbeats was greeted first, unless
\* it replaced another one while the loop still took the link for connected.
HeartbeatFollowsHandshake == beaten \subseteq greeted \cup missed

\* The loop drops a connection for silence only after it lasted longer than
\* the time-out: time stamps of an earlier connection do not count, unless the
\* loop missed the change of connections.
DropSparesFresh == 
    mpc = "drop" /\ sock # NoConn => sock \in missed \/ upFor > Timeout

Ending == mpc \in {"close", "join", "exit"}

\* A connection that was greeted and heard and then falls silent is given up,
\* unless a sender sits in send() with tx_mutex_.  (A peer that never sends a
\* heartbeat is never found silent.)
SilentIsDropped ==
    \A c \in Conn :
        (sock = c /\ handshakeSent /\ hb >= 0)
            ~> (sock # c \/ ~connected \/ hb = 0 \/ ~TxFree \/ Ending)

\* stop() returns, unless send() blocks in another thread or the IO thread
\* published a connection after stop() had closed the socket.
StopReturns ==
    Ending ~> (mpc = "exit" \/ ~TxFree \/ (mpc = "join" /\ sock # NoConn))
=============================================================================
