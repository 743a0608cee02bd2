------------------------- MODULE TcpServerTransport -------------------------
(***************************************************************************)
(* The driver's default transport (tcp_server_transport.cpp): the accept   *)
(* thread, the RX thread it starts for a client, and the lifecycle         *)
(* callbacks that start and stop both.  Connections are numbered as they   *)
(* are accepted; a number stands for one descriptor and is never reused.   *)
(***************************************************************************)
EXTENDS Naturals

CONSTANT MaxConn   \* clients that connect in a run
ASSUME ServerConstants == MaxConn \in Nat

VARIABLES running, listening, client, open,   \* running_, listen_fd_, client_fd_
          acc, accepted,                      \* accept thread and its fd
          rx, rxFd,                           \* RX thread and what recv() was given
          phase,                              \* the lifecycle thread
          dead,                               \* connections the daemon closed
          replacing, late                     \* history

accVars == <<acc, accepted>>
rxVars == <<rx, rxFd>>
srvVars == <<running, listening, client, open, accVars, rxVars, phase, dead,
             replacing, late>>

Conn == 1..MaxConn
NoConn == 0
Without(c) == open \ {c}

ServerInit ==
    /\ running = FALSE /\ listening = FALSE /\ client = NoConn /\ open = {}
    /\ acc = "none" /\ accepted = NoConn /\ rx = "none" /\ rxFd = NoConn
    /\ phase = "down" /\ dead = {} /\ replacing = {} /\ late = {}
-----------------------------------------------------------------------------
(* start() and stop().                                                     *)

\* start() returns false when socket(), bind() or listen() fails: no change.
Start ==
    /\ phase = "down"
    /\ phase' = "up" /\ running' = TRUE /\ listening' = TRUE /\ acc' = "loop"
    /\ UNCHANGED <<client, open, accepted, rxVars, dead, replacing, late>>

(* Fault: stop() leaves running_ set. *)
RunningForgotten == TRUE
RunningStopped == FALSE

StopFlag ==
    /\ phase = "up"
    /\ phase' = "listener" /\ running' = RunningStopped
    /\ UNCHANGED <<listening, client, open, accVars, rxVars, dead, replacing, late>>

StopListener ==
    /\ phase = "listener"
    /\ phase' = "client" /\ listening' = FALSE
    /\ UNCHANGED <<running, client, open, accVars, rxVars, dead, replacing, late>>

(* Fault: stop() leaves the connection to the RX thread. *)
LeaveClient == UNCHANGED <<open, client>>
ShutClient == open' = Without(client) /\ client' = NoConn

StopClient ==
    /\ phase = "client"
    /\ phase' = "joinAccept" /\ ShutClient
    /\ UNCHANGED <<running, listening, accVars, rxVars, dead, replacing, late>>

StopJoinAccept ==
    /\ phase = "joinAccept" /\ acc = "exited"
    /\ phase' = "joinRx" /\ acc' = "none"
    /\ UNCHANGED <<running, listening, client, open, accepted, rxVars, dead,
                   replacing, late>>

StopJoinRx ==
    /\ phase = "joinRx" /\ rx \in {"none", "exited"}
    /\ phase' = "down" /\ rx' = "none"
    /\ UNCHANGED <<running, listening, client, open, accVars, rxFd, dead,
                   replacing, late>>

Stop == StopListener \/ StopClient \/ StopJoinAccept \/ StopJoinRx
Stopping == phase \notin {"down", "up"}
-----------------------------------------------------------------------------
(* accept_loop().                                                          *)

AcceptCheck ==
    /\ acc = "loop"
    /\ acc' = IF running THEN "accept" ELSE "exited"
    /\ UNCHANGED <<running, listening, client, open, accepted, rxVars, phase, dead,
                   replacing, late>>

AcceptReturns ==
    /\ acc = "accept" /\ listening /\ accepted < MaxConn
    /\ acc' = "store" /\ accepted' = accepted + 1
    /\ open' = open \cup {accepted'}
    /\ UNCHANGED <<running, listening, client, rxVars, phase, dead, replacing, late>>

AcceptFails ==
    /\ acc = "accept" /\ ~listening
    /\ acc' = IF running THEN "loop" ELSE "exited"
    /\ UNCHANGED <<running, listening, client, open, accepted, rxVars, phase, dead,
                   replacing, late>>

(* Fault: the old descriptor is overwritten without being closed. *)
Overwritten == open
Replaced == Without(client)

AcceptStore ==
    /\ acc = "store"
    /\ acc' = "join"
    /\ open' = Replaced /\ client' = accepted
    /\ replacing' = IF client # NoConn THEN replacing \cup {accepted} ELSE replacing
    /\ late' = IF running THEN late ELSE late \cup {accepted}
    /\ UNCHANGED <<running, listening, accepted, rxVars, phase, dead>>

(* Fault: only the first client gets an RX thread. *)
FirstRxOnly == IF rx = "none" THEN "loop" ELSE "exited"
NewRx == "loop"

AcceptSpawn ==
    /\ acc = "join" /\ rx \in {"none", "exited"}
    /\ acc' = "loop" /\ rx' = NewRx
    /\ UNCHANGED <<running, listening, client, open, accepted, rxFd, phase, dead,
                   replacing, late>>

AcceptThread == AcceptCheck \/ AcceptFails \/ AcceptStore \/ AcceptSpawn
-----------------------------------------------------------------------------
(* rx_loop().  client_fd_ is read without the mutex: once for the loop,    *)
(* once for recv(), and again, with the mutex, to close it.                *)

RxCheck ==
    /\ rx = "loop"
    /\ rx' = IF running /\ client # NoConn THEN "call" ELSE "exited"
    /\ UNCHANGED <<running, listening, client, open, accVars, rxFd, phase, dead,
                   replacing, late>>

RxCall ==
    /\ rx = "call"
    /\ rx' = "recv" /\ rxFd' = client
    /\ UNCHANGED <<running, listening, client, open, accVars, phase, dead,
                   replacing, late>>

\* Bytes arrive and go to codec_.feed().
RxData ==
    /\ rx = "recv" /\ rxFd \in open \ dead
    /\ rx' = "loop"
    /\ UNCHANGED <<running, listening, client, open, accVars, rxFd, phase, dead,
                   replacing, late>>

RxFails ==
    /\ rx = "recv" /\ rxFd \notin open \ dead
    /\ rx' = "failed"
    /\ UNCHANGED <<running, listening, client, open, accVars, rxFd, phase, dead,
                   replacing, late>>

\* It closes whatever client_fd_ is by now.
RxCloses ==
    /\ rx = "failed"
    /\ rx' = "exited"
    /\ open' = Without(client) /\ client' = NoConn
    /\ UNCHANGED <<running, listening, accVars, rxFd, phase, dead, replacing, late>>

RxThread == RxCheck \/ RxCall \/ RxFails \/ RxCloses

DaemonCloses ==
    /\ \E c \in open \ dead : dead' = dead \cup {c}
    /\ UNCHANGED <<running, listening, client, open, accVars, rxVars, phase,
                   replacing, late>>

ServerNext == Start \/ StopFlag \/ Stop \/ AcceptThread \/ AcceptReturns
              \/ RxThread \/ RxData \/ DaemonCloses

\* Threads run; no fairness for clients, data, and calls of start() and stop().
ServerSpec == /\ ServerInit /\ [][ServerNext]_srvVars
              /\ WF_srvVars(AcceptThread) /\ WF_srvVars(RxThread) /\ WF_srvVars(Stop)
-----------------------------------------------------------------------------
ServerTypeOK ==
    /\ running \in BOOLEAN /\ listening \in BOOLEAN
    /\ acc \in {"none", "loop", "accept", "store", "join", "exited"}
    /\ rx \in {"none", "loop", "call", "recv", "failed", "exited"}
    /\ phase \in {"down", "up", "listener", "client", "joinAccept", "joinRx"}
    /\ {client, accepted, rxFd} \subseteq Conn \cup {NoConn}
    /\ {open, dead, replacing, late} \subseteq SUBSET Conn

\* client_fd_ is -1 or an open descriptor, so that send() never writes to a
\* closed or reused one, and no other descriptor stays open: nothing leaks
\* when clients replace each other, however the threads interleave.
DescriptorsAccounted ==
    /\ ServerTypeOK
    /\ client # NoConn => client \in open
    /\ open \subseteq {client} \cup (IF acc = "store" THEN {accepted} ELSE {})

\* While the transport runs, the RX thread closes a connection the daemon has
\* not closed only if that connection replaced another one: the RX thread's
\* second look at client_fd_ then finds the new descriptor.
OnlyReplacementHurts ==
    running /\ rx = "failed" /\ client # NoConn /\ client \notin dead
        => client \in replacing

\* A client accepted while the transport runs gets its bytes read, or it is
\* closed or replaced.  (One accepted while stop() runs may stay in client_fd_
\* over the next start() with nobody reading it.)
ClientIsRead ==
    \A c \in Conn :
        (client = c /\ c \notin late)
            ~> ((rx = "recv" /\ rxFd = c) \/ client # c \/ Stopping)

\* stop() returns, unless a client was accepted too late for it to close:
\* then the RX thread may be left in recv() on that client.
StopReturns == Stopping ~> (phase = "down" \/ client \in late)
=============================================================================
