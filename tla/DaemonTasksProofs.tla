-------------------------- MODULE DaemonTasksProofs --------------------------
(***************************************************************************)
(* TLAPS proofs about DaemonTasks, for every set of commands, every queue  *)
(* depth and every timeout: the daemon uses the executor as TaskExecutor   *)
(* allows, what it acknowledges is queued, and what acked_seq may name.    *)
(***************************************************************************)
EXTENDS DaemonTasks, TaskExecutorProofs

-----------------------------------------------------------------------------
(* The executor inside the daemon                                          *)

\* Every step of the daemon is a step of the executor or leaves it alone.
LEMMA ExecutorStep == [Next]_vars => [ExecNext]_execVars
<1> SUFFICES ASSUME [Next]_vars PROVE [ExecNext]_execVars
  OBVIOUS
<1>1. ASSUME NEW c \in Command,
             HandleFull(c) \/ HandleAdmit(c) \/ HandleTrack(c) \/ HandleAck(c)
      PROVE  UNCHANGED execVars
  BY <1>1 DEF HandleFull, HandleAdmit, HandleTrack, HandleAck
<1>2. ASSUME NEW c \in Command, HandleEnqueue(c) PROVE ExecNext
  BY <1>2 DEF HandleEnqueue, ExecNext
<1>3. CASE WorkerThread \/ Wakeup
  BY <1>3 DEF WorkerThread, WorkerLoop, ResultCallback, Wakeup, Worker, ExecNext
<1>4. CASE Tick \/ MainSignal
  BY <1>4 DEF Tick, MainSignal
<1>5. CASE MainStart
  BY <1>5 DEF MainStart, ExecNext
<1>6. CASE MainShutdown
  BY <1>6 DEF MainShutdown, MainDrained, MainDrainTimeout, MainStopExecutor,
              MainJoined, MainStopComm, Stopper, ExecNext
<1>7. CASE UNCHANGED vars
  BY <1>7 DEF vars
<1>8. QED
  BY <1>1, <1>2, <1>3, <1>4, <1>5, <1>6, <1>7 DEF Next, IoThread

\* The daemon's threads call start(), enqueue() and stop() only as
\* TaskExecutor allows: each behaviour of the daemon is one of the executor,
\* and all that is proved of the executor holds in the daemon.
THEOREM DaemonUsesExecutor == Spec => ExecSpec
<1>1. Init => ExecInit
  BY DEF Init
<1>2. QED
  BY <1>1, ExecutorStep, PTL DEF Spec, ExecSpec

\* The executor's inductive invariant holds inside the daemon.
LEMMA ExecInvInDaemon == Spec => []ExecInv
BY DaemonUsesExecutor, ExecInvariant, PTL

\* In the daemon, too, accepted tasks are executed once and in order.
THEOREM DaemonServesInOrder == Spec => ImplementsTaskService
BY DaemonUsesExecutor, ExecutorImplementsService, PTL

-----------------------------------------------------------------------------
(* What the executor's steps do to the commands it was handed              *)

Elements(s) == {s[i] : i \in DOMAIN s}

\* Append adds its element and nothing else.
LEMMA ElementsOfAppend ==
  ASSUME NEW S, NEW s \in Seq(S), NEW e \in S
  PROVE  Elements(Append(s, e)) = Elements(s) \cup {e}
<1>1. /\ Len(Append(s, e)) = Len(s) + 1
      /\ \A i \in 1 .. Len(s) : Append(s, e)[i] = s[i]
      /\ Append(s, e)[Len(s) + 1] = e
      /\ Append(s, e) \in Seq(S) /\ Len(s) \in Nat
  OBVIOUS
<1>2. DOMAIN Append(s, e) = 1 .. Len(s) + 1 /\ DOMAIN s = 1 .. Len(s)
  BY <1>1
<1>3. 1 .. Len(s) + 1 = (1 .. Len(s)) \cup {Len(s) + 1}
  BY <1>1
<1>4. QED
  BY <1>1, <1>2, <1>3 DEF Elements

\* A nonempty sequence holds its head and what its tail holds.
LEMMA ElementsOfTail ==
  ASSUME NEW S, NEW s \in Seq(S), s # << >>
  PROVE  Elements(s) = {Head(s)} \cup Elements(Tail(s))
<1>1. /\ Len(Tail(s)) = Len(s) - 1
      /\ \A i \in 1 .. Len(s) - 1 : Tail(s)[i] = s[i + 1]
      /\ Head(s) = s[1]
      /\ Tail(s) \in Seq(S) /\ Len(s) \in Nat \ {0}
  OBVIOUS
<1>2. DOMAIN Tail(s) = 1 .. Len(s) - 1 /\ DOMAIN s = 1 .. Len(s)
  BY <1>1
<1>3. \A i \in 1 .. Len(s) : i = 1 \/ (i - 1 \in 1 .. Len(s) - 1 /\ i = (i - 1) + 1)
  BY <1>1
<1>4. ASSUME NEW i \in 1 .. Len(s)
      PROVE  s[i] \in {Head(s)} \cup Elements(Tail(s))
  <2>1. CASE i = 1
    BY <1>1, <2>1
  <2>2. CASE i - 1 \in 1 .. Len(s) - 1
    <3>1. Tail(s)[i - 1] = s[i]
      BY <1>1, <2>2
    <3>2. QED
      BY <3>1, <2>2, <1>2 DEF Elements
  <2>3. QED
    BY <1>3, <2>1, <2>2
<1>5. {Head(s)} \cup Elements(Tail(s)) \subseteq Elements(s)
  BY <1>1, <1>2 DEF Elements
<1>6. QED
  BY <1>4, <1>5, <1>2 DEF Elements

\* Handed, the commands enqueue() was given, in terms of Elements.
LEMMA HandedElements ==
  Handed = refused \cup Elements(queue) \cup Elements(reported) \cup Elements(inHand)
BY DEF Handed, Elements

\* Steps in which nobody calls enqueue().
Quiet ==
  Start \/ StopClear \/ Stopper \/ Worker \/ SpuriousWake \/ UNCHANGED execVars

\* Without a call of enqueue() no command is handed over or refused, and the
\* queue does not grow.
LEMMA QuietSteps ==
  ASSUME ExecInv, Quiet
  PROVE  /\ Handed' = Handed
         /\ refused' = refused
         /\ Len(queue') <= Len(queue)
<1>1. ASSUME UNCHANGED <<queue, inHand, reported, refused>>
      PROVE  /\ Handed' = Handed
             /\ refused' = refused
             /\ Len(queue') <= Len(queue)
  BY <1>1 DEF Handed, ExecInv, TypeOK
<1>2. CASE WorkerPop
  <2>1. queue \in Seq(Command) /\ queue # << >> /\ inHand = << >>
    BY <1>2 DEF WorkerPop, ExecInv, TypeOK
  <2>2. Len(queue') <= Len(queue)
    BY <1>2, <2>1 DEF WorkerPop
  <2>3. Elements(inHand') = {Head(queue)} /\ Elements(inHand) = {}
    BY <1>2, <2>1 DEF WorkerPop, Elements
  <2>4. Elements(queue) = {Head(queue)} \cup Elements(queue')
    BY <1>2, <2>1, ElementsOfTail DEF WorkerPop
  <2>5. Handed' = refused' \cup Elements(queue') \cup Elements(reported')
                    \cup Elements(inHand')
    BY DEF Handed, Elements
  <2>6. QED
    BY <2>2, <2>3, <2>4, <2>5, <1>2, HandedElements DEF WorkerPop
<1>3. CASE WorkerReport
  <2>1. PICK c \in Command : inHand = <<c>>
    BY <1>3 DEF WorkerReport, ExecInv
  <2>2. reported' = Append(reported, c) /\ reported \in Seq(Command)
    BY <2>1, <1>3 DEF WorkerReport, ExecInv, TypeOK
  <2>3. Elements(inHand) = {c} /\ Elements(inHand') = {}
    BY <1>3, <2>1 DEF WorkerReport, Elements
  <2>4. Elements(reported') = Elements(reported) \cup {c}
    BY <2>2, ElementsOfAppend
  <2>5. Handed' = refused' \cup Elements(queue') \cup Elements(reported')
                    \cup Elements(inHand')
    BY DEF Handed, Elements
  <2>6. UNCHANGED <<queue, refused>> /\ queue \in Seq(Command)
    BY <1>3 DEF WorkerReport, ExecInv, TypeOK
  <2>7. QED
    BY <2>3, <2>4, <2>5, <2>6, HandedElements
<1>4. QED
  BY <1>1, <1>2, <1>3
     DEF Quiet, Start, StopClear, Stopper, StopNotify, StopJoin, Worker, WorkerCheck,
         WorkerPredicate, WorkerBlock, WorkerBreak, SpuriousWake, execVars

\* An enqueue() that finds room hands over its command and refuses none.
LEMMA AcceptHands ==
  ASSUME ExecInv, NEW c \in Command, Accept(c)
  PROVE  Handed' = Handed \cup {c} /\ refused' = refused
<1>1. Elements(queue') = Elements(queue) \cup {c}
  BY ElementsOfAppend DEF Accept, ExecInv, TypeOK
<1>2. Handed' = refused' \cup Elements(queue') \cup Elements(reported')
                  \cup Elements(inHand')
  BY DEF Handed, Elements
<1>3. QED
  BY <1>1, <1>2, HandedElements DEF Accept

-----------------------------------------------------------------------------
(* What the daemon acknowledges is queued                                  *)

\* The room an admitted command saw is still there when it is enqueued, since
\* the IO thread is the only producer; a command is handed over once.
AckInv ==
  /\ io \in {<<"idle">>} \cup ({"track", "enqueue", "ack"} \X Command)
  /\ ackOf \in [Command -> {"none", "ok", "full"}]
  /\ refused = {}
  /\ \A c \in Command : io \in {<<"track", c>>, <<"enqueue", c>>} =>
       Len(queue) < MaxQueueDepth /\ c \notin Handed
  /\ \A c \in Command : io = <<"ack", c>> => c \in Handed
  /\ \A c \in Command : ackOf[c] = "ok" => c \in Handed
  /\ \A c \in Command : c \in Handed =>
       io = <<"ack", c>> \/ ackOf[c] = "ok"

\* AckInv holds initially.
LEMMA AckInvInit == Init => AckInv
BY DEF Init, ExecInit, AckInv, Handed

\* Steps of the other threads leave the handler alone and only make room.
LEMMA AckInvQuiet ==
  ASSUME ExecInv, AckInv, Quiet, UNCHANGED <<io, ackOf>>
  PROVE  AckInv'
<1>1. /\ Handed' = Handed
      /\ refused' = refused
      /\ Len(queue') <= Len(queue)
  BY QuietSteps
<1>2. Len(queue) \in Nat /\ MaxQueueDepth \in Nat
  BY DepthAssumption DEF ExecInv, TypeOK
<1>3. ExecInv'
  BY ExecInvStep DEF Quiet, ExecNext
<1>4. Len(queue') \in Nat
  BY <1>3 DEF ExecInv, TypeOK
<1>5. QED
  BY <1>1, <1>2, <1>4 DEF AckInv

\* Every step of the daemon preserves AckInv.
LEMMA AckInvStep == ExecInv /\ AckInv /\ [Next]_vars => AckInv'
<1> SUFFICES ASSUME ExecInv, AckInv, [Next]_vars PROVE AckInv'
  OBVIOUS
<1>1. ASSUME NEW c \in Command, HandleFull(c) PROVE AckInv'
  <2>1. Handed' = Handed /\ refused' = refused /\ io' = io /\ io = <<"idle">>
    BY <1>1 DEF HandleFull, Arrives, execVars, Handed
  <2>2. queue' = queue /\ ackOf' = [ackOf EXCEPT ![c] = "full"] /\ ackOf[c] = "none"
    BY <1>1 DEF HandleFull, Arrives, execVars
  <2>3. QED
    BY <2>1, <2>2 DEF AckInv
<1>2. ASSUME NEW c \in Command, HandleAdmit(c) PROVE AckInv'
  <2>1. Handed' = Handed /\ refused' = refused /\ ackOf' = ackOf /\ queue' = queue
    BY <1>2 DEF HandleAdmit, execVars, Handed
  <2>2. io = <<"idle">> /\ io' = <<"track", c>> /\ ackOf[c] = "none"
    BY <1>2 DEF HandleAdmit, Arrives
  <2>3. Len(queue) < MaxQueueDepth
    BY <1>2 DEF HandleAdmit
  <2>4. c \notin Handed
    BY <2>2 DEF AckInv
  <2>5. \A d \in Command : d \in Handed => ackOf[d] = "ok"
    BY <2>2 DEF AckInv
  <2>6. QED
    BY <2>1, <2>2, <2>3, <2>4, <2>5 DEF AckInv
<1>3. ASSUME NEW c \in Command, HandleTrack(c) PROVE AckInv'
  <2>1. Handed' = Handed /\ refused' = refused /\ ackOf' = ackOf /\ queue' = queue
    BY <1>3 DEF HandleTrack, execVars, Handed
  <2>2. io = <<"track", c>> /\ io' = <<"enqueue", c>>
    BY <1>3 DEF HandleTrack
  <2>3. QED
    BY <2>1, <2>2 DEF AckInv
<1>4. ASSUME NEW c \in Command, HandleEnqueue(c) PROVE AckInv'
  <2>1. io = <<"enqueue", c>> /\ io' = <<"ack", c>> /\ ackOf' = ackOf
    BY <1>4 DEF HandleEnqueue
  <2>2. Accept(c)
    BY <2>1, <1>4, DepthAssumption
       DEF HandleEnqueue, Enqueue, Refuse, AckInv, ExecInv, TypeOK
  <2>3. Handed' = Handed \cup {c} /\ refused' = refused
    BY <2>2, AcceptHands
  <2>4. QED
    BY <2>1, <2>3 DEF AckInv
<1>5. ASSUME NEW c \in Command, HandleAck(c) PROVE AckInv'
  <2>1. Handed' = Handed /\ refused' = refused /\ queue' = queue
    BY <1>5 DEF HandleAck, execVars, Handed
  <2>2. /\ io = <<"ack", c>> /\ io' = <<"idle">>
        /\ ackOf' = [ackOf EXCEPT ![c] = "ok"]
    BY <1>5 DEF HandleAck
  <2>3. QED
    BY <2>1, <2>2 DEF AckInv
<1>6. CASE \/ WorkerThread \/ Wakeup \/ Tick \/ MainStart \/ MainSignal
           \/ MainShutdown \/ UNCHANGED vars
  <2>1. Quiet
    BY <1>6 DEF WorkerThread, WorkerLoop, ResultCallback, Wakeup, Tick, MainStart,
                MainSignal, MainShutdown, MainDrained, MainDrainTimeout,
                MainStopExecutor, MainJoined, MainStopComm, vars, Quiet, Worker, Stopper
  <2>2. UNCHANGED <<io, ackOf>>
    BY <1>6 DEF WorkerThread, WorkerLoop, ResultCallback, Wakeup, Tick, MainStart,
                MainSignal, MainShutdown, MainDrained, MainDrainTimeout,
                MainStopExecutor, MainJoined, MainStopComm, vars, taskVars
  <2>3. QED
    BY <2>1, <2>2, AckInvQuiet
<1>7. QED
  BY <1>1, <1>2, <1>3, <1>4, <1>5, <1>6 DEF Next, IoThread

\* AckInv is an invariant of the daemon.
LEMMA AckInvariant == Spec => []AckInv
BY AckInvInit, AckInvStep, ExecInvInDaemon, PTL DEF Spec

\* A command acknowledged with status 0 was queued, although the handler
\* checks the room and enqueues under two different locks.
THEOREM AckedTasksAreQueued == Spec => []AckedOkMeansQueued
<1>1. AckInv => AckedOkMeansQueued
  BY DEF AckInv, AckedOkMeansQueued, Accepted
<1>2. QED
  BY <1>1, AckInvariant, PTL

-----------------------------------------------------------------------------
(* Types                                                                   *)

SeqNumbers == {SeqOf[c] : c \in Command}

\* The part of the type invariant that TaskExecutor and AckInv leave open.
TaskTypes ==
  /\ DOMAIN pending \subseteq SeqNumbers
  /\ \A s \in DOMAIN pending : pending[s].age \in 0 .. TaskTimeout + 1
  /\ replies \in Seq(ReplyTo)
  /\ timedOut \subseteq SeqNumbers
  /\ overlap \in BOOLEAN
  /\ mainPc \in MainPc
  /\ drainTimedOut \in BOOLEAN
  /\ owed \subseteq Command

\* What the executor accepted are commands.
LEMMA AcceptedAreCommands == ExecInv => Accepted \subseteq Command
BY DEF ExecInv, TypeOK, Accepted, Handed

\* The peer's sequence numbers are natural numbers.
LEMMA SeqNumbersAreNat == SeqNumbers \subseteq Nat
BY CommandAssumption DEF SeqNumbers

\* One reply more, of the right type; the map only loses entries.
LEMMA ReplyTypes ==
  ASSUME TaskTypes, NEW c \in Command, Reply(c)
  PROVE  /\ replies' \in Seq(ReplyTo)
         /\ DOMAIN pending' \subseteq DOMAIN pending
         /\ \A s \in DOMAIN pending' : pending'[s] = pending[s]
<1>1. CASE Reply(c)!1
  <2>1. [cmd |-> c, matched |-> FALSE, acked_seq |-> 0] \in ReplyTo
    BY DEF ReplyTo
  <2>2. QED
    BY <1>1, <2>1 DEF TaskTypes, Keep, Live
<1>2. ASSUME NEW s \in Candidates(c),
             pending' = Keep(Live \ {s}),
             replies' = Append(replies, [cmd |-> c, matched |-> TRUE, acked_seq |-> s])
      PROVE  /\ replies' \in Seq(ReplyTo)
             /\ DOMAIN pending' \subseteq DOMAIN pending
             /\ \A r \in DOMAIN pending' : pending'[r] = pending[r]
  <2>1. s \in Nat
    BY SeqNumbersAreNat DEF TaskTypes, Candidates, Live
  <2>2. [cmd |-> c, matched |-> TRUE, acked_seq |-> s] \in ReplyTo
    BY <2>1 DEF ReplyTo
  <2>3. QED
    BY <1>2, <2>2 DEF TaskTypes, Keep, Live
<1>3. QED
  BY <1>1, <1>2 DEF Reply

\* TaskTypes holds initially.
LEMMA TaskTypesInit == Init => TaskTypes
<1> SUFFICES ASSUME Init PROVE TaskTypes
  OBVIOUS
<1>1. << >> \in Seq(ReplyTo) /\ DOMAIN << >> = {}
  OBVIOUS
<1>2. QED
  BY <1>1 DEF Init, TaskTypes, MainPc

\* Every step of the daemon preserves TaskTypes.
LEMMA TaskTypesStep == ExecInv /\ TaskTypes /\ [Next]_vars => TaskTypes'
<1> SUFFICES ASSUME ExecInv, TaskTypes, [Next]_vars PROVE TaskTypes'
  OBVIOUS
<1>0. UNCHANGED <<pending, replies, timedOut, overlap, mainVars>> => TaskTypes'
  BY DEF TaskTypes, mainVars
<1>1. ASSUME NEW c \in Command,
             HandleFull(c) \/ HandleAdmit(c) \/ HandleEnqueue(c) \/ HandleAck(c)
      PROVE  TaskTypes'
  BY <1>0, <1>1 DEF HandleFull, HandleAdmit, HandleEnqueue, HandleAck
<1>2. ASSUME NEW c \in Command, HandleTrack(c) PROVE TaskTypes'
  <2>1. SeqOf[c] \in SeqNumbers
    BY DEF SeqNumbers
  <2>2. /\ DOMAIN pending' = DOMAIN pending \cup {SeqOf[c]}
        /\ pending'[SeqOf[c]] = [task_id |-> TaskIdOf[c], age |-> 0]
        /\ \A s \in DOMAIN pending : s # SeqOf[c] => pending'[s] = pending[s]
    BY <1>2 DEF HandleTrack
  <2>3. 0 \in 0 .. TaskTimeout + 1
    BY CommandAssumption
  <2>4. \A s \in DOMAIN pending' : pending'[s].age \in 0 .. TaskTimeout + 1
    BY <2>2, <2>3 DEF TaskTypes
  <2>5. overlap' \in BOOLEAN
    BY <1>2 DEF HandleTrack, TaskTypes
  <2>6. UNCHANGED <<replies, timedOut, mainPc, drainTimedOut, owed>>
    BY <1>2 DEF HandleTrack, mainVars
  <2>7. DOMAIN pending' \subseteq SeqNumbers
    BY <2>1, <2>2 DEF TaskTypes
  <2>8. QED
    BY <2>4, <2>5, <2>6, <2>7 DEF TaskTypes
<1>3. CASE ResultCallback
  <2>1. PICK c \in Command : inHand = <<c>>
    BY <1>3 DEF ResultCallback, WorkerReport, ExecInv
  <2>2. Reply(c)
    BY <2>1, <1>3 DEF ResultCallback
  <2>3. timedOut' \subseteq SeqNumbers
    BY <1>3 DEF ResultCallback, TaskTypes
  <2>4. QED
    BY <2>2, <2>3, <1>3, ReplyTypes DEF ResultCallback, mainVars, TaskTypes
<1>4. CASE WorkerLoop \/ Wakeup
  BY <1>0, <1>4 DEF WorkerLoop, Wakeup, taskVars
<1>5. CASE Tick
  <2>1. /\ DOMAIN pending' = DOMAIN pending
        /\ \A s \in DOMAIN pending : pending'[s].age =
             IF pending[s].age <= TaskTimeout THEN pending[s].age + 1 ELSE pending[s].age
    BY <1>5 DEF Tick, Older
  <2>2. \A s \in DOMAIN pending' : pending'[s].age \in 0 .. TaskTimeout + 1
    BY <2>1, CommandAssumption DEF TaskTypes
  <2>3. QED
    BY <1>5, <2>1, <2>2 DEF Tick, TaskTypes, mainVars
<1>6. CASE MainStart \/ MainSignal \/ MainShutdown
  <2>1. UNCHANGED <<pending, replies, timedOut, overlap>>
    BY <1>6 DEF MainStart, MainSignal, MainShutdown, MainDrained, MainDrainTimeout,
                MainStopExecutor, MainJoined, MainStopComm, taskVars
  <2>2. mainPc' \in MainPc /\ drainTimedOut' \in BOOLEAN /\ owed' \subseteq Command
    BY <1>6, AcceptedAreCommands
       DEF MainStart, MainSignal, MainShutdown, MainDrained, MainDrainTimeout,
           MainStopExecutor, MainJoined, MainStopComm, MainGoes, MainPc, mainVars,
           TaskTypes
  <2>3. QED
    BY <2>1, <2>2 DEF TaskTypes
<1>7. CASE UNCHANGED vars
  BY <1>0, <1>7 DEF vars, taskVars
<1>8. QED
  BY <1>1, <1>2, <1>3, <1>4, <1>5, <1>6, <1>7 DEF Next, IoThread, WorkerThread

\* TaskTypes is an invariant of the daemon.
LEMMA TaskTypesInvariant == Spec => []TaskTypes
BY TaskTypesInit, TaskTypesStep, ExecInvInDaemon, PTL DEF Spec

\* The type invariant of the daemon's task path.
THEOREM DaemonTypeCorrect == Spec => []DaemonTypeOK
<1>1. Spec => []TaskTypes
  BY TaskTypesInvariant
<1>2. ExecInv /\ AckInv /\ TaskTypes => DaemonTypeOK
  BY DEF ExecInv, AckInv, TaskTypes, DaemonTypeOK, SeqNumbers
<1>3. QED
  BY <1>1, <1>2, ExecInvInDaemon, AckInvariant, PTL

-----------------------------------------------------------------------------
(* What acked_seq names                                                    *)

\* Some command of task id came with number s and is in accepted, or the
\* handler, at h, is about to enqueue it.
Supplies(s, id, accepted, h) ==
  \E c \in Command : /\ SeqOf[c] = s
                     /\ TaskIdOf[c] = id
                     /\ c \in accepted \/ h = <<"enqueue", c>>

\* A command that backs an entry of the map goes on backing it.
LEMMA SuppliesStays ==
  ASSUME ExecInv, AckInv, AckInv', [Next]_vars
  PROVE  \A s, id : Supplies(s, id, Accepted, io) => Supplies(s, id, Accepted', io')
<1> SUFFICES ASSUME NEW s, NEW id, Supplies(s, id, Accepted, io)
             PROVE  Supplies(s, id, Accepted', io')
  OBVIOUS
<1>1. PICK c \in Command : /\ SeqOf[c] = s /\ TaskIdOf[c] = id
                           /\ c \in Accepted \/ io = <<"enqueue", c>>
  BY DEF Supplies
<1>2. c \in Accepted \/ io = <<"enqueue", c>> => (c \in Handed \/ io = <<"enqueue", c>>)
  BY DEF Accepted
<1>3. c \in Handed' \/ io' = <<"enqueue", c>>
  <2>1. ASSUME NEW d \in Command,
               HandleFull(d) \/ HandleAdmit(d) \/ HandleTrack(d) \/ HandleAck(d)
        PROVE  Handed' = Handed /\ io \in {<<"idle">>, <<"track", d>>, <<"ack", d>>}
    BY <2>1 DEF HandleFull, HandleAdmit, HandleTrack, HandleAck, Arrives, execVars, Handed
  <2>2. ASSUME NEW d \in Command, HandleEnqueue(d)
        PROVE  io = <<"enqueue", d>> /\ Handed' = Handed \cup {d}
    <3>1. io = <<"enqueue", d>>
      BY <2>2 DEF HandleEnqueue
    <3>2. Accept(d)
      BY <3>1, <2>2, DepthAssumption
         DEF HandleEnqueue, Enqueue, Refuse, AckInv, ExecInv, TypeOK
    <3>3. QED
      BY <3>1, <3>2, AcceptHands
  <2>3. CASE \/ WorkerThread \/ Wakeup \/ Tick \/ MainStart \/ MainSignal
             \/ MainShutdown \/ UNCHANGED vars
    <3>1. Quiet
      BY <2>3 DEF WorkerThread, WorkerLoop, ResultCallback, Wakeup, Tick, MainStart,
                  MainSignal, MainShutdown, MainDrained, MainDrainTimeout,
                  MainStopExecutor, MainJoined, MainStopComm, vars, Quiet, Worker,
                  Stopper
    <3>2. io' = io
      BY <2>3 DEF WorkerThread, WorkerLoop, ResultCallback, Wakeup, Tick, MainStart,
                  MainSignal, MainShutdown, MainDrained, MainDrainTimeout,
                  MainStopExecutor, MainJoined, MainStopComm, vars, taskVars
    <3>3. QED
      BY <3>1, <3>2, <1>1, <1>2, QuietSteps
  <2>4. QED
    BY <2>1, <2>2, <2>3, <1>1, <1>2 DEF Next, IoThread
<1>4. c \in Accepted' \/ io' = <<"enqueue", c>>
  BY <1>3 DEF AckInv, Accepted
<1>5. QED
  BY <1>1, <1>4 DEF Supplies

EchoInv ==
  /\ \A s \in DOMAIN pending : Supplies(s, pending[s].task_id, Accepted, io)
  /\ \A i \in DOMAIN replies : replies[i].matched =>
       Supplies(replies[i].acked_seq, TaskIdOf[replies[i].cmd], Accepted, io)

\* The reply is one more element; if matched, its number was in the map under
\* the same task_id, and is no longer.
LEMMA ReplyEffect ==
  ASSUME TaskTypes, NEW c \in Command, Reply(c)
  PROVE  \E r \in ReplyTo :
           /\ replies' = Append(replies, r)
           /\ r.cmd = c
           /\ r.matched => /\ r.acked_seq \in DOMAIN pending
                           /\ pending[r.acked_seq].task_id = TaskIdOf[c]
                           /\ r.acked_seq \notin DOMAIN pending'
<1>1. CASE Reply(c)!1
  <2>1. [cmd |-> c, matched |-> FALSE, acked_seq |-> 0] \in ReplyTo
    BY DEF ReplyTo
  <2>2. QED
    BY <1>1, <2>1
<1>2. ASSUME NEW s \in Candidates(c),
             pending' = Keep(Live \ {s}),
             replies' = Append(replies, [cmd |-> c, matched |-> TRUE, acked_seq |-> s])
      PROVE  \E r \in ReplyTo :
               /\ replies' = Append(replies, r)
               /\ r.cmd = c
               /\ r.matched => /\ r.acked_seq \in DOMAIN pending
                               /\ pending[r.acked_seq].task_id = TaskIdOf[c]
                               /\ r.acked_seq \notin DOMAIN pending'
  <2>1. s \in DOMAIN pending /\ pending[s].task_id = TaskIdOf[c]
    BY DEF Candidates, Live
  <2>2. s \in Nat
    BY <2>1, SeqNumbersAreNat DEF TaskTypes
  <2>3. [cmd |-> c, matched |-> TRUE, acked_seq |-> s] \in ReplyTo
    BY <2>2 DEF ReplyTo
  <2>4. s \notin DOMAIN pending'
    BY <1>2 DEF Keep
  <2>5. QED
    BY <1>2, <2>1, <2>3, <2>4
<1>3. QED
  BY <1>1, <1>2 DEF Reply

\* The indices and elements of a sequence one longer.
LEMMA AppendIndex ==
  ASSUME NEW S, NEW q \in Seq(S), NEW e \in S
  PROVE  /\ Len(q) \in Nat
         /\ DOMAIN q = 1 .. Len(q)
         /\ DOMAIN Append(q, e) = (DOMAIN q) \cup {Len(q) + 1}
         /\ Len(q) + 1 \notin DOMAIN q
         /\ \A i \in DOMAIN q : Append(q, e)[i] = q[i]
         /\ Append(q, e)[Len(q) + 1] = e
<1>1. Append(q, e) \in Seq(S) /\ Len(Append(q, e)) = Len(q) + 1
  OBVIOUS
<1>2. DOMAIN Append(q, e) = 1 .. Len(q) + 1 /\ DOMAIN q = 1 .. Len(q) /\ Len(q) \in Nat
  BY <1>1
<1>3. QED
  BY <1>2

\* EchoInv holds initially.
LEMMA EchoInvInit == Init => EchoInv
BY DEF Init, EchoInv

\* Every step of the daemon preserves EchoInv.
LEMMA EchoInvStep ==
  ExecInv /\ AckInv /\ AckInv' /\ TaskTypes /\ EchoInv /\ [Next]_vars => EchoInv'
<1> SUFFICES ASSUME ExecInv, AckInv, AckInv', TaskTypes, EchoInv, [Next]_vars
             PROVE  EchoInv'
  OBVIOUS
<1>1. \A s, id : Supplies(s, id, Accepted, io) => Supplies(s, id, Accepted', io')
  BY SuppliesStays
<1>2. CASE UNCHANGED <<pending, replies>>
  BY <1>1, <1>2 DEF EchoInv
<1>3. ASSUME UNCHANGED replies
      PROVE  \A i \in DOMAIN replies' : replies'[i].matched =>
               Supplies(replies'[i].acked_seq, TaskIdOf[replies'[i].cmd], Accepted', io')
  BY <1>1, <1>3 DEF EchoInv
<1>5. ASSUME NEW c \in Command, HandleTrack(c) PROVE EchoInv'
  <2>1. /\ io' = <<"enqueue", c>> /\ replies' = replies
        /\ DOMAIN pending' = DOMAIN pending \cup {SeqOf[c]}
        /\ pending'[SeqOf[c]].task_id = TaskIdOf[c]
        /\ \A s \in DOMAIN pending : s # SeqOf[c] => pending'[s] = pending[s]
    BY <1>5 DEF HandleTrack
  <2>2. Supplies(SeqOf[c], TaskIdOf[c], Accepted', io')
    BY <2>1 DEF Supplies
  <2>3. \A s \in DOMAIN pending' : Supplies(s, pending'[s].task_id, Accepted', io')
    BY <1>1, <2>1, <2>2 DEF EchoInv
  <2>4. QED
    BY <1>3, <2>1, <2>3 DEF EchoInv
<1>6. CASE ResultCallback
  <2>1. PICK c \in Command : inHand = <<c>>
    BY <1>6 DEF ResultCallback, WorkerReport, ExecInv
  <2>2. Reply(c)
    BY <2>1, <1>6 DEF ResultCallback
  <2>3. PICK r \in ReplyTo :
           /\ replies' = Append(replies, r)
           /\ r.cmd = c
           /\ r.matched => /\ r.acked_seq \in DOMAIN pending
                           /\ pending[r.acked_seq].task_id = TaskIdOf[c]
    BY <2>2, ReplyEffect
  <2>4. r.matched => Supplies(r.acked_seq, TaskIdOf[r.cmd], Accepted', io')
    BY <1>1, <2>3 DEF EchoInv
  <2>5. \A i \in DOMAIN replies' : \/ i \in DOMAIN replies /\ replies'[i] = replies[i]
                                  \/ replies'[i] = r
    BY <2>3, AppendIndex DEF TaskTypes
  <2>6. \A i \in DOMAIN replies' : replies'[i].matched =>
          Supplies(replies'[i].acked_seq, TaskIdOf[replies'[i].cmd], Accepted', io')
    BY <1>1, <2>4, <2>5 DEF EchoInv
  <2>7. \A s \in DOMAIN pending' : Supplies(s, pending'[s].task_id, Accepted', io')
    BY <1>1, <2>2, ReplyTypes DEF EchoInv
  <2>8. QED
    BY <2>6, <2>7 DEF EchoInv
<1>7. CASE Tick
  <2>1. /\ DOMAIN pending' = DOMAIN pending /\ replies' = replies
        /\ \A s \in DOMAIN pending : pending'[s].task_id = pending[s].task_id
    BY <1>7 DEF Tick, Older
  <2>2. QED
    BY <1>1, <1>3, <2>1 DEF EchoInv
<1>8. ASSUME NEW c \in Command,
             HandleFull(c) \/ HandleAdmit(c) \/ HandleEnqueue(c) \/ HandleAck(c)
      PROVE  EchoInv'
  BY <1>2, <1>8 DEF HandleFull, HandleAdmit, HandleEnqueue, HandleAck
<1>9. CASE WorkerLoop \/ Wakeup \/ MainStart \/ MainSignal \/ MainShutdown
           \/ UNCHANGED vars
  BY <1>2, <1>9 DEF WorkerLoop, Wakeup, MainStart, MainSignal, MainShutdown,
        MainDrained, MainDrainTimeout, MainStopExecutor, MainJoined, MainStopComm,
        vars, taskVars
<1>10. QED
  BY <1>5, <1>6, <1>7, <1>8, <1>9 DEF Next, IoThread, WorkerThread

\* EchoInv is an invariant of the daemon.
LEMMA EchoInvariant == Spec => []EchoInv
BY EchoInvInit, EchoInvStep, ExecInvInDaemon, AckInvariant, TaskTypesInvariant, PTL
   DEF Spec

\* A matched response names the sequence number of a command of its own
\* task_id that the daemon accepted.
THEOREM EchoIsOfSameTask == Spec => []EchoNamesSameTask
<1>1. EchoInv => EchoNamesSameTask
  BY DEF EchoInv, EchoNamesSameTask, Supplies
<1>2. QED
  BY <1>1, EchoInvariant, PTL

-----------------------------------------------------------------------------
(* No sequence number is answered twice                                    *)

\* What the peer has to do for it.
PeerNumbersDistinct ==
  \A c, d \in Command : SeqOf[c] = SeqOf[d] => c = d

OnceInv ==
  /\ NoSeqAnsweredTwice
  /\ \A i \in DOMAIN replies :
       replies[i].matched => replies[i].acked_seq \notin DOMAIN pending

\* OnceInv holds initially.
LEMMA OnceInvInit == Init => OnceInv
BY DEF Init, OnceInv, NoSeqAnsweredTwice

\* Every step preserves OnceInv when the peer's numbers are distinct.
LEMMA OnceInvStep ==
  ASSUME PeerNumbersDistinct
  PROVE  ExecInv /\ AckInv /\ TaskTypes /\ EchoInv /\ OnceInv /\ [Next]_vars => OnceInv'
<1> SUFFICES ASSUME ExecInv, AckInv, TaskTypes, EchoInv, OnceInv, [Next]_vars
             PROVE  OnceInv'
  OBVIOUS
<1>1. CASE replies' = replies /\ DOMAIN pending' = DOMAIN pending
  BY <1>1 DEF OnceInv, NoSeqAnsweredTwice
<1>2. ASSUME NEW c \in Command, HandleTrack(c) PROVE OnceInv'
  <2>1. /\ io = <<"track", c>> /\ replies' = replies
        /\ DOMAIN pending' = DOMAIN pending \cup {SeqOf[c]}
    BY <1>2 DEF HandleTrack
  <2>2. c \notin Accepted
    BY <2>1 DEF AckInv, Accepted
  <2>3. ASSUME NEW i \in DOMAIN replies, replies[i].matched
        PROVE  replies[i].acked_seq # SeqOf[c]
    <3>1. PICK d \in Command : /\ SeqOf[d] = replies[i].acked_seq
                               /\ d \in Accepted \/ io = <<"enqueue", d>>
      BY <2>3 DEF EchoInv, Supplies
    <3>2. d # c
      BY <2>1, <2>2, <3>1
    <3>3. QED
      BY <3>1, <3>2 DEF PeerNumbersDistinct
  <2>4. QED
    BY <2>1, <2>3 DEF OnceInv, NoSeqAnsweredTwice
<1>3. CASE ResultCallback
  <2>1. PICK c \in Command : inHand = <<c>>
    BY <1>3 DEF ResultCallback, WorkerReport, ExecInv
  <2>2. Reply(c)
    BY <2>1, <1>3 DEF ResultCallback
  <2>3. PICK r \in ReplyTo :
           /\ replies' = Append(replies, r)
           /\ r.matched => /\ r.acked_seq \in DOMAIN pending
                           /\ r.acked_seq \notin DOMAIN pending'
    BY <2>2, ReplyEffect
  <2>4. DOMAIN pending' \subseteq DOMAIN pending
    BY <2>2, ReplyTypes
  <2>5. \A i \in DOMAIN replies' :
          \/ i \in DOMAIN replies /\ replies'[i] = replies[i]
          \/ i = Len(replies) + 1 /\ replies'[i] = r
    BY <2>3, AppendIndex DEF TaskTypes
  <2>6. QED
    BY <2>3, <2>4, <2>5 DEF OnceInv, NoSeqAnsweredTwice
<1>4. ASSUME NEW c \in Command,
             HandleFull(c) \/ HandleAdmit(c) \/ HandleEnqueue(c) \/ HandleAck(c)
      PROVE  OnceInv'
  BY <1>1, <1>4 DEF HandleFull, HandleAdmit, HandleEnqueue, HandleAck
<1>5. CASE WorkerLoop \/ Wakeup \/ Tick \/ MainStart \/ MainSignal \/ MainShutdown
           \/ UNCHANGED vars
  BY <1>1, <1>5 DEF WorkerLoop, Wakeup, Tick, MainStart, MainSignal, MainShutdown,
        MainDrained, MainDrainTimeout, MainStopExecutor, MainJoined, MainStopComm,
        vars, taskVars
<1>6. QED
  BY <1>2, <1>3, <1>4, <1>5 DEF Next, IoThread, WorkerThread

\* If the peer never reuses a sequence number, none is answered twice.
THEOREM SeqAnsweredOnce ==
  ASSUME PeerNumbersDistinct
  PROVE  Spec => []NoSeqAnsweredTwice
<1>1. OnceInv => NoSeqAnsweredTwice
  BY DEF OnceInv
<1>2. ExecInv /\ AckInv /\ TaskTypes /\ EchoInv /\ OnceInv /\ [Next]_vars => OnceInv'
  BY OnceInvStep
<1>3. QED
  BY <1>1, <1>2, OnceInvInit, ExecInvInDaemon, AckInvariant, TaskTypesInvariant,
     EchoInvariant, PTL DEF Spec

-----------------------------------------------------------------------------
(* The drain                                                               *)

\* What the worker has taken from the queue.
Taken == Elements(inHand) \cup Elements(reported)

\* A command handed over stays so, one the worker took stays taken, and a
\* worker that has left its loop does not come back.
LEMMA ExecutorKeeps ==
  ASSUME ExecInv, [ExecNext]_execVars
  PROVE  /\ Handed \subseteq Handed'
         /\ Taken \subseteq Taken'
         /\ workerPc = "exited" => workerPc' = "exited"
<1>1. Handed \subseteq Handed'
  <2>1. ASSUME NEW c \in Command, Accept(c) PROVE Handed \subseteq Handed'
    BY <2>1, AcceptHands
  <2>2. ASSUME NEW c \in Command, Refuse(c) PROVE Handed \subseteq Handed'
    BY <2>2 DEF Refuse, Handed
  <2>3. CASE Quiet
    BY <2>3, QuietSteps
  <2>4. QED
    BY <2>1, <2>2, <2>3 DEF ExecNext, Enqueue, Quiet
<1>2. Taken \subseteq Taken'
  <2>1. CASE WorkerPop
    <3>1. Elements(inHand) = {} /\ reported' = reported
      BY <2>1 DEF WorkerPop, ExecInv, Elements
    <3>2. QED
      BY <3>1 DEF Taken, Elements
  <2>2. CASE WorkerReport
    <3>1. PICK c \in Command : inHand = <<c>>
      BY <2>2 DEF WorkerReport, ExecInv
    <3>2. reported' = Append(reported, c) /\ reported \in Seq(Command)
      BY <3>1, <2>2 DEF WorkerReport, ExecInv, TypeOK
    <3>3. Elements(reported') = Elements(reported) \cup {c}
      BY <3>2, ElementsOfAppend
    <3>4. Elements(inHand) = {c}
      BY <3>1 DEF Elements
    <3>5. Taken' = Elements(inHand') \cup Elements(reported')
      BY DEF Taken, Elements
    <3>6. QED
      BY <3>3, <3>4, <3>5 DEF Taken
  <2>3. CASE UNCHANGED <<inHand, reported>>
    BY <2>3 DEF Taken, Elements
  <2>4. QED
    BY <2>1, <2>2, <2>3
       DEF ExecNext, Enqueue, Accept, Refuse, Start, StopClear, Stopper, StopNotify,
           StopJoin, Worker, WorkerCheck, WorkerPredicate, WorkerBlock, WorkerBreak,
           SpuriousWake, execVars
<1>3. workerPc = "exited" => workerPc' = "exited"
  BY DEF ExecNext, Enqueue, Accept, Refuse, Start, StopClear, Stopper, StopNotify,
         StopJoin, Worker, WorkerCheck, WorkerPredicate, WorkerBlock, WorkerBreak,
         WorkerPop, WorkerReport, SpuriousWake, Signalled, execVars
<1>4. QED
  BY <1>1, <1>2, <1>3

\* What the worker has finished has been answered; what was owed when the
\* drain began was handed over, and is the worker's when the drain has ended;
\* the worker is gone before the link is stopped.
DrainInv ==
  /\ \A i \in DOMAIN reported :
       \E j \in DOMAIN replies : replies[j].cmd = reported[i]
  /\ owed \subseteq Handed
  /\ mainPc \in {"stop_exec", "stop_comm", "exited"} /\ ~drainTimedOut
       => owed \subseteq Taken
  /\ mainPc \in {"stop_comm", "exited"} => workerPc = "exited"

\* DrainInv holds initially.
LEMMA DrainInvInit == Init => DrainInv
BY DEF Init, ExecInit, DrainInv

\* The result callback answers each command the worker finishes.
LEMMA FinishedIsAnswered ==
  ASSUME ExecInv, TaskTypes, DrainInv, ResultCallback
  PROVE  \A i \in DOMAIN reported' :
           \E j \in DOMAIN replies' : replies'[j].cmd = reported'[i]
<1>1. PICK c \in Command : inHand = <<c>>
  BY DEF ResultCallback, WorkerReport, ExecInv
<1>2. Reply(c)
  BY <1>1 DEF ResultCallback
<1>3. PICK r \in ReplyTo : replies' = Append(replies, r) /\ r.cmd = c
  BY <1>2, ReplyEffect
<1>4. /\ \A j \in DOMAIN replies : j \in DOMAIN replies' /\ replies'[j] = replies[j]
      /\ Len(replies) + 1 \in DOMAIN replies'
      /\ replies'[Len(replies) + 1] = r
  BY <1>3, AppendIndex DEF TaskTypes
<1>5. reported' = Append(reported, c) /\ reported \in Seq(Command)
  BY <1>1 DEF ResultCallback, WorkerReport, ExecInv, TypeOK
<1>6. \A i \in DOMAIN reported' : \/ i \in DOMAIN reported /\ reported'[i] = reported[i]
                                  \/ reported'[i] = c
  BY <1>5, AppendIndex
<1>7. ASSUME NEW i \in DOMAIN reported, reported'[i] = reported[i]
      PROVE  \E j \in DOMAIN replies' : replies'[j].cmd = reported'[i]
  <2>1. PICK j \in DOMAIN replies : replies[j].cmd = reported[i]
    BY DEF DrainInv
  <2>2. QED
    BY <2>1, <1>4, <1>7
<1>8. QED
  BY <1>3, <1>4, <1>6, <1>7

\* Every step of the daemon preserves DrainInv.
LEMMA DrainInvStep ==
  ExecInv /\ AckInv /\ TaskTypes /\ DrainInv /\ [Next]_vars => DrainInv'
<1> SUFFICES ASSUME ExecInv, AckInv, TaskTypes, DrainInv, [Next]_vars PROVE DrainInv'
  OBVIOUS
<1>1. /\ Handed \subseteq Handed'
      /\ Taken \subseteq Taken'
      /\ workerPc = "exited" => workerPc' = "exited"
  BY ExecutorStep, ExecutorKeeps
<1>2. \A i \in DOMAIN reported' :
        \E j \in DOMAIN replies' : replies'[j].cmd = reported'[i]
  <2>1. CASE ResultCallback
    BY <2>1, FinishedIsAnswered
  <2>2. CASE UNCHANGED <<reported, replies>>
    BY <2>2 DEF DrainInv
  <2>3. QED
    BY <2>1, <2>2
       DEF Next, IoThread, WorkerThread, HandleFull, HandleAdmit, HandleTrack,
           HandleEnqueue, HandleAck, Enqueue, Accept, Refuse, WorkerLoop, WorkerCheck,
           WorkerPredicate, WorkerBlock, WorkerBreak, WorkerPop, Wakeup, SpuriousWake,
           Tick, MainStart, Start, MainSignal, MainShutdown, MainDrained,
           MainDrainTimeout, MainStopExecutor, StopClear, StopNotify, MainJoined,
           StopJoin, MainStopComm, execVars, taskVars, vars
<1>3. CASE UNCHANGED mainVars
  BY <1>1, <1>2, <1>3 DEF DrainInv, mainVars
<1>4. CASE MainStart
  BY <1>1, <1>2, <1>4 DEF DrainInv, MainStart, MainGoes
<1>5. CASE MainSignal
  BY <1>1, <1>2, <1>5 DEF DrainInv, MainSignal, MainGoes, Accepted
<1>6. CASE MainDrained
  <2>1. Handed = Taken
    <3>1. refused = {} /\ Elements(queue) = {}
      BY <1>6 DEF MainDrained, AckInv, Elements
    <3>2. QED
      BY <3>1, HandedElements DEF Taken
  <2>2. owed' = owed /\ drainTimedOut' = drainTimedOut /\ mainPc' = "stop_exec"
    BY <1>6 DEF MainDrained, MainGoes
  <2>3. QED
    BY <1>1, <1>2, <2>1, <2>2 DEF DrainInv
<1>7. CASE MainDrainTimeout
  BY <1>1, <1>2, <1>7 DEF DrainInv, MainDrainTimeout, MainGoes
<1>8. CASE MainJoined
  BY <1>1, <1>2, <1>8 DEF DrainInv, MainJoined, MainGoes, StopJoin
<1>9. CASE MainStopComm
  BY <1>1, <1>2, <1>9 DEF DrainInv, MainStopComm, MainGoes
<1>10. QED
  BY <1>3, <1>4, <1>5, <1>6, <1>7, <1>8, <1>9
     DEF Next, IoThread, WorkerThread, HandleFull, HandleAdmit, HandleTrack,
         HandleEnqueue, HandleAck, WorkerLoop, ResultCallback, Wakeup, Tick,
         MainShutdown, MainStopExecutor, vars

\* DrainInv is an invariant of the daemon.
LEMMA DrainInvariant == Spec => []DrainInv
BY DrainInvInit, DrainInvStep, ExecInvInDaemon, AckInvariant, TaskTypesInvariant, PTL
   DEF Spec

\* A command accepted before SIGTERM was seen is answered before the daemon
\* exits, unless the drain gives up: the worker exits with empty hands.
THEOREM DrainKeepsItsPromise == Spec => []DrainedBeforeExit
<1>1. ExecInv /\ DrainInv => DrainedBeforeExit
  <2> SUFFICES ASSUME ExecInv, DrainInv, mainPc = "exited", ~drainTimedOut,
                      NEW c \in owed
               PROVE  \E j \in DOMAIN replies : replies[j].cmd = c
    BY DEF DrainedBeforeExit
  <2>1. inHand = << >>
    BY DEF DrainInv, ExecInv
  <2>2. c \in Elements(reported)
    BY <2>1 DEF DrainInv, Taken, Elements
  <2>3. QED
    BY <2>2 DEF DrainInv, Elements
<1>2. QED
  BY <1>1, ExecInvInDaemon, DrainInvariant, PTL

-----------------------------------------------------------------------------
(* Which commands wait for their answer                                    *)

\* No command is in two places of the executor.
ServedOnceInv ==
  /\ \A i, j \in DOMAIN queue : queue[i] = queue[j] => i = j
  /\ Elements(queue) \cap (Elements(inHand) \cup Elements(reported)) = {}
  /\ Elements(inHand) \cap Elements(reported) = {}

\* No command gets into two places: enqueue() is given each one once, and the
\* worker moves it.
LEMMA ServedOnceStep == ExecInv /\ ServedOnceInv /\ [ExecNext]_execVars => ServedOnceInv'
<1> SUFFICES ASSUME ExecInv, ServedOnceInv, [ExecNext]_execVars PROVE ServedOnceInv'
  OBVIOUS
<1>1. ASSUME NEW c \in Command, c \notin Handed, Accept(c) PROVE ServedOnceInv'
  <2>1. queue \in Seq(Command) /\ queue' = Append(queue, c) /\ UNCHANGED <<inHand, reported>>
    BY <1>1 DEF Accept, ExecInv, TypeOK
  <2>2. c \notin Elements(queue) \cup Elements(inHand) \cup Elements(reported)
    BY <1>1, HandedElements
  <2>3. Elements(queue') = Elements(queue) \cup {c}
    BY <2>1, ElementsOfAppend
  <2>4. /\ DOMAIN queue' = (DOMAIN queue) \cup {Len(queue) + 1}
        /\ \A i \in DOMAIN queue : queue'[i] = queue[i]
        /\ queue'[Len(queue) + 1] = c
    BY <2>1, AppendIndex
  <2>5. \A i \in DOMAIN queue : queue[i] # c
    BY <2>2 DEF Elements
  <2>6. \A i, j \in DOMAIN queue' : queue'[i] = queue'[j] => i = j
    BY <2>4, <2>5 DEF ServedOnceInv
  <2>7. UNCHANGED <<Elements(inHand), Elements(reported)>>
    BY <2>1
  <2>8. /\ Elements(queue') \cap (Elements(inHand') \cup Elements(reported')) = {}
        /\ Elements(inHand') \cap Elements(reported') = {}
    BY <2>1, <2>2, <2>3 DEF ServedOnceInv
  <2>9. QED
    BY <2>6, <2>8 DEF ServedOnceInv, Elements
<1>2. CASE WorkerPop
  <2>1. queue \in Seq(Command) /\ queue # << >> /\ queue' = Tail(queue) /\ reported' = reported
    BY <1>2 DEF WorkerPop, ExecInv, TypeOK
  <2>2. /\ Len(queue) \in Nat /\ DOMAIN queue = 1 .. Len(queue)
        /\ DOMAIN queue' = 1 .. Len(queue) - 1
        /\ \A i \in DOMAIN queue' : queue'[i] = queue[i + 1]
        /\ Head(queue) = queue[1] /\ 1 \in DOMAIN queue
    BY <2>1
  <2>3. \A i, j \in DOMAIN queue' : queue'[i] = queue'[j] => i = j
    BY <2>2 DEF ServedOnceInv
  <2>4. \A i \in DOMAIN queue' : queue'[i] # Head(queue)
    BY <2>2 DEF ServedOnceInv
  <2>5. Elements(queue) = {Head(queue)} \cup Elements(queue')
    BY <2>1, ElementsOfTail
  <2>6. Elements(inHand') = {Head(queue)}
    BY <1>2 DEF WorkerPop, Elements
  <2>7. Head(queue) \notin Elements(queue')
    BY <2>4 DEF Elements
  <2>8. /\ Elements(queue') \cap (Elements(inHand') \cup Elements(reported')) = {}
        /\ Elements(inHand') \cap Elements(reported') = {}
    BY <2>1, <2>5, <2>6, <2>7 DEF ServedOnceInv
  <2>9. QED
    BY <2>3, <2>8 DEF ServedOnceInv, Elements
<1>3. CASE WorkerReport
  <2>1. PICK c \in Command : inHand = <<c>>
    BY <1>3 DEF WorkerReport, ExecInv
  <2>2. reported' = Append(reported, c) /\ reported \in Seq(Command) /\ queue' = queue
    BY <2>1, <1>3 DEF WorkerReport, ExecInv, TypeOK
  <2>3. Elements(inHand) = {c} /\ Elements(inHand') = {}
    BY <1>3, <2>1 DEF WorkerReport, Elements
  <2>4. Elements(reported') = Elements(reported) \cup {c}
    BY <2>2, ElementsOfAppend
  <2>5. /\ Elements(queue') \cap (Elements(inHand') \cup Elements(reported')) = {}
        /\ Elements(inHand') \cap Elements(reported') = {}
    BY <2>2, <2>3, <2>4 DEF ServedOnceInv
  <2>6. QED
    BY <2>2, <2>5 DEF ServedOnceInv, Elements
<1>4. CASE UNCHANGED <<queue, inHand, reported>>
  BY <1>4 DEF ServedOnceInv, Elements
<1>5. QED
  BY <1>1, <1>2, <1>3, <1>4
     DEF ExecNext, Enqueue, Refuse, Start, StopClear, Stopper, StopNotify, StopJoin,
         Worker, WorkerCheck, WorkerPredicate, WorkerBlock, WorkerBreak, SpuriousWake,
         execVars

\* No command is in two places of the executor, at any time.
LEMMA ServedOnceInvariant == Spec => []ServedOnceInv
<1>1. Init => ServedOnceInv
  BY DEF Init, ExecInit, ServedOnceInv, Elements
<1>2. QED
  BY <1>1, ServedOnceStep, ExecutorStep, ExecInvInDaemon, PTL DEF Spec

\* The commands the map should know: outstanding, or about to be enqueued.
Tracked == {c \in Command : Outstanding(c) \/ io = <<"enqueue", c>>}

\* Tracked in terms of what was handed over and what was finished.
LEMMA TrackedElements ==
  ASSUME ExecInv, AckInv
  PROVE  Tracked = {c \in Command : \/ c \in Handed /\ c \notin Elements(reported)
                                    \/ io = <<"enqueue", c>>}
BY DEF Tracked, Outstanding, Accepted, Answered, Elements, AckInv

\* A command is tracked from HandleTrack until its result callback.
LEMMA TrackedSteps ==
  ASSUME ExecInv, ExecInv', AckInv, AckInv', ServedOnceInv, [Next]_vars
  PROVE  \/ \E c \in Command :
              HandleTrack(c) /\ c \notin Tracked /\ Tracked' = Tracked \cup {c}
         \/ \E c \in Command :
              /\ ResultCallback /\ inHand = <<c>>
              /\ c \in Tracked /\ Tracked' = Tracked \ {c}
         \/ /\ Tracked' = Tracked
            /\ UNCHANGED <<replies, timedOut, overlap>>
            /\ Tick \/ UNCHANGED pending
<1> DEFINE Same == /\ Tracked' = Tracked
                   /\ UNCHANGED <<replies, timedOut, overlap>>
                   /\ Tick \/ UNCHANGED pending
<1>1. Tracked = {c \in Command : \/ c \in Handed /\ c \notin Elements(reported)
                                 \/ io = <<"enqueue", c>>}
  BY TrackedElements
<1>2. Tracked' = {c \in Command : \/ c \in Handed' /\ c \notin Elements(reported')
                                  \/ io' = <<"enqueue", c>>}
  BY DEF Tracked, Outstanding, Accepted, Answered, Elements, AckInv
<1>3. ASSUME NEW c \in Command, HandleFull(c) \/ HandleAdmit(c) \/ HandleAck(c)
      PROVE  Same
  <2>1. /\ Handed' = Handed /\ reported' = reported
        /\ io \in {<<"idle">>, <<"ack", c>>} /\ io' \in {<<"idle">>, <<"track", c>>}
    BY <1>3 DEF HandleFull, HandleAdmit, HandleAck, Arrives, execVars, Handed
  <2>2. Tracked' = Tracked
    BY <1>1, <1>2, <2>1
  <2>3. QED
    BY <1>3, <2>2 DEF HandleFull, HandleAdmit, HandleAck
<1>4. ASSUME NEW c \in Command, HandleTrack(c)
      PROVE  c \notin Tracked /\ Tracked' = Tracked \cup {c}
  <2>1. /\ Handed' = Handed /\ reported' = reported
        /\ io = <<"track", c>> /\ io' = <<"enqueue", c>> /\ c \notin Handed
    BY <1>4 DEF HandleTrack, AckInv, execVars, Handed
  <2>2. QED
    BY <1>1, <1>2, <2>1
<1>5. ASSUME NEW c \in Command, HandleEnqueue(c) PROVE Same
  <2>1. io = <<"enqueue", c>> /\ io' = <<"ack", c>> /\ c \notin Handed
    BY <1>5 DEF HandleEnqueue, AckInv
  <2>2. Accept(c)
    BY <2>1, <1>5, DepthAssumption
       DEF HandleEnqueue, Enqueue, Refuse, AckInv, ExecInv, TypeOK
  <2>3. Handed' = Handed \cup {c} /\ reported' = reported
    BY <2>2, AcceptHands DEF Accept
  <2>4. c \notin Elements(reported)
    BY <2>1, HandedElements
  <2>5. Tracked' = Tracked
    BY <1>1, <1>2, <2>1, <2>3, <2>4
  <2>6. QED
    BY <1>5, <2>5 DEF HandleEnqueue
<1>6. CASE ResultCallback
  <2>1. PICK c \in Command : inHand = <<c>>
    BY <1>6 DEF ResultCallback, WorkerReport, ExecInv
  <2>2. reported' = Append(reported, c) /\ reported \in Seq(Command) /\ io' = io
    BY <2>1, <1>6 DEF ResultCallback, WorkerReport, ExecInv, TypeOK
  <2>3. Elements(reported') = Elements(reported) \cup {c} /\ Elements(inHand) = {c}
    BY <2>1, <2>2, ElementsOfAppend DEF Elements
  <2>4. Handed' = Handed
    BY <1>6, QuietSteps DEF ResultCallback, Quiet, Worker
  <2>5. c \in Handed /\ c \notin Elements(reported)
    BY <2>3, HandedElements DEF ServedOnceInv
  <2>6. io # <<"enqueue", c>>
    BY <2>5 DEF AckInv
  <2>7. c \in Tracked /\ Tracked' = Tracked \ {c}
    BY <1>1, <1>2, <2>2, <2>3, <2>4, <2>5, <2>6
  <2>8. QED
    BY <1>6, <2>1, <2>7
<1>7. CASE \/ WorkerLoop \/ Wakeup \/ Tick \/ MainStart \/ MainSignal \/ MainShutdown
           \/ UNCHANGED vars
  <2>1. Quiet
    BY <1>7 DEF WorkerLoop, Wakeup, Tick, MainStart, MainSignal, MainShutdown,
       MainDrained, MainDrainTimeout, MainStopExecutor, MainJoined, MainStopComm, vars,
       Quiet, Worker, Stopper
  <2>2. UNCHANGED <<io, reported, replies, timedOut, overlap>>
    BY <1>7 DEF WorkerLoop, WorkerCheck, WorkerPredicate, WorkerBlock, WorkerBreak,
       WorkerPop, Wakeup, SpuriousWake, Tick, MainStart, Start, MainSignal, MainShutdown,
       MainDrained, MainDrainTimeout, MainStopExecutor, StopClear, StopNotify,
       MainJoined, StopJoin, MainStopComm, vars, execVars, taskVars
  <2>3. Tick \/ UNCHANGED pending
    BY <1>7 DEF WorkerLoop, Wakeup, MainStart, MainSignal, MainShutdown, MainDrained,
       MainDrainTimeout, MainStopExecutor, MainJoined, MainStopComm, vars, taskVars
  <2>4. Handed' = Handed
    BY <2>1, QuietSteps
  <2>5. Tracked' = Tracked
    BY <1>1, <1>2, <2>2, <2>4
  <2>6. QED
    BY <2>2, <2>3, <2>5
<1>8. QED
  BY <1>3, <1>4, <1>5, <1>6, <1>7 DEF Next, IoThread, WorkerThread

\* The entry that HandleTrack makes.
LEMMA TrackEffect ==
  ASSUME NEW c \in Command, HandleTrack(c)
  PROVE  /\ UNCHANGED <<replies, timedOut>>
         /\ DOMAIN pending' = DOMAIN pending \cup {SeqOf[c]}
         /\ pending'[SeqOf[c]].task_id = TaskIdOf[c]
         /\ \A s \in DOMAIN pending : s # SeqOf[c] => pending'[s] = pending[s]
BY DEF HandleTrack

\* When nothing has timed out, the reply takes one entry of the command's
\* task_id and keeps the others, or goes out without a number as there is none.
LEMMA ReplyInTime ==
  ASSUME TaskTypes, NEW c \in Command, ResultCallback, inHand = <<c>>, timedOut' = {}
  PROVE  /\ timedOut = {} /\ overlap' = overlap
         /\ \/ \A s \in DOMAIN pending : pending[s].task_id # TaskIdOf[c]
            \/ \E s \in DOMAIN pending :
                 /\ pending[s].task_id = TaskIdOf[c]
                 /\ DOMAIN pending' = DOMAIN pending \ {s}
                 /\ \A r \in DOMAIN pending \ {s} : pending'[r] = pending[r]
                 /\ \A i \in DOMAIN replies' :
                      \/ i \in DOMAIN replies /\ replies'[i] = replies[i]
                      \/ replies'[i] = [cmd |-> c, matched |-> TRUE, acked_seq |-> s]
<1>1. timedOut = {} /\ Live = DOMAIN pending /\ overlap' = overlap
  BY DEF ResultCallback, Live
<1>2. Reply(c)
  BY DEF ResultCallback
<1>3. CASE Candidates(c) = {}
  BY <1>1, <1>3 DEF Candidates
<1>4. ASSUME NEW s \in Candidates(c),
             pending' = Keep(Live \ {s}),
             replies' = Append(replies, [cmd |-> c, matched |-> TRUE, acked_seq |-> s])
      PROVE  \E r \in DOMAIN pending :
               /\ pending[r].task_id = TaskIdOf[c]
               /\ DOMAIN pending' = DOMAIN pending \ {r}
               /\ \A q \in DOMAIN pending \ {r} : pending'[q] = pending[q]
               /\ \A i \in DOMAIN replies' :
                    \/ i \in DOMAIN replies /\ replies'[i] = replies[i]
                    \/ replies'[i] = [cmd |-> c, matched |-> TRUE, acked_seq |-> r]
  <2> DEFINE answer == [cmd |-> c, matched |-> TRUE, acked_seq |-> s]
  <2>1. s \in DOMAIN pending /\ pending[s].task_id = TaskIdOf[c]
    BY <1>1 DEF Candidates
  <2>2. /\ DOMAIN pending' = DOMAIN pending \ {s}
        /\ \A q \in DOMAIN pending \ {s} : pending'[q] = pending[q]
    BY <1>1, <1>4 DEF Keep
  <2>3. answer \in ReplyTo
    BY <2>1, SeqNumbersAreNat DEF TaskTypes, ReplyTo
  <2>4. \A i \in DOMAIN replies' : \/ i \in DOMAIN replies /\ replies'[i] = replies[i]
                                  \/ replies'[i] = answer
    BY <1>4, <2>3, AppendIndex DEF TaskTypes
  <2>5. QED
    BY <2>1, <2>2, <2>4
<1>5. QED
  BY <1>1, <1>2, <1>3, <1>4 DEF Reply

\* Passing time changes no key and no task_id.
LEMMA TickEffect ==
  ASSUME Tick \/ UNCHANGED pending
  PROVE  /\ DOMAIN pending' = DOMAIN pending
         /\ \A s \in DOMAIN pending : pending'[s].task_id = pending[s].task_id
BY DEF Tick, Older

\* A number about to be tracked is not in the map.
LEMMA TrackedNumberIsNew ==
  ASSUME PeerNumbersDistinct, AckInv, EchoInv, NEW c \in Command, HandleTrack(c)
  PROVE  SeqOf[c] \notin DOMAIN pending
<1>1. io = <<"track", c>> /\ c \notin Accepted
  BY DEF HandleTrack, AckInv, Accepted
<1>2. ASSUME SeqOf[c] \in DOMAIN pending PROVE FALSE
  <2>1. PICK d \in Command : SeqOf[d] = SeqOf[c] /\ (d \in Accepted \/ io = <<"enqueue", d>>)
    BY <1>2 DEF EchoInv, Supplies
  <2>2. d = c
    BY <2>1 DEF PeerNumbersDistinct
  <2>3. QED
    BY <1>1, <2>1, <2>2
<1>3. QED
  BY <1>2

-----------------------------------------------------------------------------
(* Responses are exact until two commands of one task_id overlap           *)

\* The map holds each tracked command under its number and nothing else, and
\* no two tracked commands are of one task_id.
ExactInv ==
  ~overlap /\ timedOut = {} =>
    /\ \A c \in Tracked : /\ SeqOf[c] \in DOMAIN pending
                          /\ pending[SeqOf[c]].task_id = TaskIdOf[c]
    /\ \A s \in DOMAIN pending : \E c \in Tracked : SeqOf[c] = s
    /\ \A c, d \in Tracked : TaskIdOf[c] = TaskIdOf[d] => c = d
    /\ \A i \in DOMAIN replies : replies[i].acked_seq = SeqOf[replies[i].cmd]

\* Every step keeps the map exact when the peer's numbers are distinct.
LEMMA ExactInvStep ==
  ASSUME PeerNumbersDistinct
  PROVE  /\ ExecInv /\ ExecInv' /\ AckInv /\ AckInv' /\ TaskTypes /\ EchoInv
         /\ ServedOnceInv /\ ExactInv /\ [Next]_vars
         => ExactInv'
<1> SUFFICES ASSUME ExecInv, ExecInv', AckInv, AckInv', TaskTypes, EchoInv,
                    ServedOnceInv, ExactInv, [Next]_vars, ~overlap', timedOut' = {}
             PROVE  /\ \A c \in Tracked' : /\ SeqOf[c] \in DOMAIN pending'
                                           /\ pending'[SeqOf[c]].task_id = TaskIdOf[c]
                    /\ \A s \in DOMAIN pending' : \E c \in Tracked' : SeqOf[c] = s
                    /\ \A c, d \in Tracked' : TaskIdOf[c] = TaskIdOf[d] => c = d
                    /\ \A i \in DOMAIN replies' :
                         replies'[i].acked_seq = SeqOf[replies'[i].cmd]
  BY DEF ExactInv
<1>1. ASSUME NEW c \in Command, HandleTrack(c), c \notin Tracked, Tracked' = Tracked \cup {c}
      PROVE  /\ \A d \in Tracked' : /\ SeqOf[d] \in DOMAIN pending'
                                    /\ pending'[SeqOf[d]].task_id = TaskIdOf[d]
             /\ \A s \in DOMAIN pending' : \E d \in Tracked' : SeqOf[d] = s
             /\ \A d, e \in Tracked' : TaskIdOf[d] = TaskIdOf[e] => d = e
             /\ \A i \in DOMAIN replies' : replies'[i].acked_seq = SeqOf[replies'[i].cmd]
  <2>1. /\ ~overlap /\ io = <<"track", c>>
        /\ \A d \in Command : Outstanding(d) => TaskIdOf[d] # TaskIdOf[c]
    BY <1>1 DEF HandleTrack
  <2>2. \A d \in Tracked : TaskIdOf[d] # TaskIdOf[c]
    BY <2>1 DEF Tracked
  <2>3. SeqOf[c] \notin DOMAIN pending
    BY <1>1, TrackedNumberIsNew
  <2>4. /\ UNCHANGED <<replies, timedOut>>
        /\ DOMAIN pending' = DOMAIN pending \cup {SeqOf[c]}
        /\ pending'[SeqOf[c]].task_id = TaskIdOf[c]
        /\ \A s \in DOMAIN pending : pending'[s] = pending[s]
    BY <1>1, <2>3, TrackEffect
  <2>5. QED
    BY <1>1, <2>1, <2>2, <2>4 DEF ExactInv
<1>2. ASSUME NEW c \in Command, ResultCallback, inHand = <<c>>,
             c \in Tracked, Tracked' = Tracked \ {c}
      PROVE  /\ \A d \in Tracked' : /\ SeqOf[d] \in DOMAIN pending'
                                    /\ pending'[SeqOf[d]].task_id = TaskIdOf[d]
             /\ \A s \in DOMAIN pending' : \E d \in Tracked' : SeqOf[d] = s
             /\ \A d, e \in Tracked' : TaskIdOf[d] = TaskIdOf[e] => d = e
             /\ \A i \in DOMAIN replies' : replies'[i].acked_seq = SeqOf[replies'[i].cmd]
  <2>1. timedOut = {} /\ ~overlap
    BY <1>2, ReplyInTime
  <2>2. SeqOf[c] \in DOMAIN pending /\ pending[SeqOf[c]].task_id = TaskIdOf[c]
    BY <1>2, <2>1 DEF ExactInv
  <2>3. PICK s \in DOMAIN pending :
           /\ pending[s].task_id = TaskIdOf[c]
           /\ DOMAIN pending' = DOMAIN pending \ {s}
           /\ \A r \in DOMAIN pending \ {s} : pending'[r] = pending[r]
           /\ \A i \in DOMAIN replies' :
                \/ i \in DOMAIN replies /\ replies'[i] = replies[i]
                \/ replies'[i] = [cmd |-> c, matched |-> TRUE, acked_seq |-> s]
    BY <1>2, <2>2, ReplyInTime
  <2>4. s = SeqOf[c]
    <3>1. PICK d \in Tracked : SeqOf[d] = s
      BY <2>1, <2>3 DEF ExactInv
    <3>2. TaskIdOf[d] = TaskIdOf[c]
      BY <2>1, <2>3, <3>1 DEF ExactInv
    <3>3. d = c
      BY <1>2, <2>1, <3>1, <3>2 DEF ExactInv
    <3>4. QED
      BY <3>1, <3>3
  <2>5. \A d \in Tracked' : SeqOf[d] # s /\ d \in Tracked
    BY <1>2, <2>4 DEF PeerNumbersDistinct, Tracked
  <2>6. \A d \in Tracked' : /\ SeqOf[d] \in DOMAIN pending'
                            /\ pending'[SeqOf[d]].task_id = TaskIdOf[d]
    BY <2>1, <2>3, <2>5 DEF ExactInv
  <2>7. \A r \in DOMAIN pending' : \E d \in Tracked' : SeqOf[d] = r
    BY <1>2, <2>1, <2>3, <2>4 DEF ExactInv
  <2>8. \A d, e \in Tracked' : TaskIdOf[d] = TaskIdOf[e] => d = e
    BY <1>2, <2>1 DEF ExactInv
  <2>9. \A i \in DOMAIN replies' : replies'[i].acked_seq = SeqOf[replies'[i].cmd]
    BY <2>1, <2>3, <2>4 DEF ExactInv
  <2>10. QED
    BY <2>6, <2>7, <2>8, <2>9
<1>3. CASE /\ Tracked' = Tracked /\ UNCHANGED <<replies, timedOut, overlap>>
           /\ Tick \/ UNCHANGED pending
  BY <1>3, TickEffect DEF ExactInv
<1>4. QED
  BY <1>1, <1>2, <1>3, TrackedSteps

\* If the peer never reuses a sequence number, responses carry their own
\* command's number for as long as no two commands of one task_id are
\* unanswered together and no entry of the map times out.
THEOREM EchoIsExact ==
  ASSUME PeerNumbersDistinct
  PROVE  Spec => []EchoExactUntilOverlap
<1>1. Init => ExactInv
  BY DEF Init, ExecInit, ExactInv, Tracked, Outstanding, Accepted, Handed
<1>2. /\ ExecInv /\ ExecInv' /\ AckInv /\ AckInv' /\ TaskTypes /\ EchoInv
      /\ ServedOnceInv /\ ExactInv /\ [Next]_vars
      => ExactInv'
  BY ExactInvStep
<1>3. ExactInv => EchoExactUntilOverlap
  BY DEF ExactInv, EchoExactUntilOverlap
<1>4. QED
  BY <1>1, <1>2, <1>3, ExecInvInDaemon, AckInvariant, TaskTypesInvariant, EchoInvariant,
     ServedOnceInvariant, PTL DEF Spec

-----------------------------------------------------------------------------
(* No response goes without a number unless an entry timed out             *)

\* f gives every tracked command an entry of its own task_id.
Pairing(f) ==
  /\ f \in [Tracked -> DOMAIN pending]
  /\ \A c, d \in Tracked : f[c] = f[d] => c = d
  /\ \A c \in Tracked : pending[f[c]].task_id = TaskIdOf[c]

\* There is an entry for each tracked command, not always its own.
PairInv ==
  timedOut = {} =>
    /\ \E f : Pairing(f)
    /\ \A i \in DOMAIN replies : replies[i].matched

\* A tracked command is paired with the entry made for it.
LEMMA PairTrack ==
  ASSUME PeerNumbersDistinct, AckInv, EchoInv,
         NEW c \in Command, HandleTrack(c), c \notin Tracked, Tracked' = Tracked \cup {c},
         NEW f, Pairing(f)
  PROVE  \E g : Pairing(g)'
<1> DEFINE g == [d \in Tracked' |-> IF d = c THEN SeqOf[c] ELSE f[d]]
<1>1. SeqOf[c] \notin DOMAIN pending
  BY TrackedNumberIsNew
<1>2. /\ DOMAIN pending' = DOMAIN pending \cup {SeqOf[c]}
      /\ pending'[SeqOf[c]].task_id = TaskIdOf[c]
      /\ \A s \in DOMAIN pending : pending'[s] = pending[s]
  BY <1>1, TrackEffect
<1>3. /\ \A d \in Tracked : f[d] \in DOMAIN pending /\ pending[f[d]].task_id = TaskIdOf[d]
      /\ \A d, e \in Tracked : f[d] = f[e] => d = e
  BY DEF Pairing
<1>4. g \in [Tracked' -> DOMAIN pending']
  BY <1>2, <1>3
<1>5. /\ g[c] = SeqOf[c]
      /\ \A d \in Tracked : g[d] = f[d] /\ g[d] # SeqOf[c]
  BY <1>1, <1>3
<1> HIDE DEF g
<1>6. \A d, e \in Tracked' : g[d] = g[e] => d = e
  BY <1>3, <1>5
<1>7. \A d \in Tracked' : pending'[g[d]].task_id = TaskIdOf[d]
  BY <1>2, <1>3, <1>5
<1>8. PICK h : h = g
  OBVIOUS
<1>9. Pairing(h)'
  BY <1>4, <1>6, <1>7, <1>8 DEF Pairing
<1>10. QED
  BY <1>9

\* A reply may take the entry paired with another command, which then gets
\* the entry of the command answered.
LEMMA PairReply ==
  ASSUME NEW c \in Tracked, Tracked' = Tracked \ {c}, NEW s \in DOMAIN pending,
         pending[s].task_id = TaskIdOf[c],
         DOMAIN pending' = DOMAIN pending \ {s},
         \A r \in DOMAIN pending \ {s} : pending'[r] = pending[r],
         NEW f, Pairing(f)
  PROVE  \E g : Pairing(g)'
<1> DEFINE g == [d \in Tracked' |-> IF f[d] = s THEN f[c] ELSE f[d]]
<1>1. /\ \A d \in Tracked : f[d] \in DOMAIN pending /\ pending[f[d]].task_id = TaskIdOf[d]
      /\ \A d, e \in Tracked : f[d] = f[e] => d = e
  BY DEF Pairing
<1>2. \A d \in Tracked' : d \in Tracked /\ d # c /\ f[d] # f[c]
  BY <1>1
<1>3. \A d \in Tracked' : g[d] = IF f[d] = s THEN f[c] ELSE f[d]
  OBVIOUS
<1>4. \A d \in Tracked' : g[d] \in DOMAIN pending /\ g[d] # s
  BY <1>1, <1>2, <1>3
<1>5. g \in [Tracked' -> DOMAIN pending']
  BY <1>4
<1> HIDE DEF g
<1>6. \A d, e \in Tracked' : g[d] = g[e] => d = e
  BY <1>1, <1>2, <1>3
<1>7. \A d \in Tracked' : pending[g[d]].task_id = TaskIdOf[d]
  BY <1>1, <1>2, <1>3
<1>8. \A d \in Tracked' : pending'[g[d]].task_id = TaskIdOf[d]
  BY <1>4, <1>7
<1>9. PICK h : h = g
  OBVIOUS
<1>10. Pairing(h)'
  BY <1>5, <1>6, <1>8, <1>9 DEF Pairing
<1>11. QED
  BY <1>10

\* Every step keeps an entry for each tracked command.
LEMMA PairInvStep ==
  ASSUME PeerNumbersDistinct
  PROVE  /\ ExecInv /\ ExecInv' /\ AckInv /\ AckInv' /\ TaskTypes /\ EchoInv
         /\ ServedOnceInv /\ PairInv /\ [Next]_vars
         => PairInv'
<1> SUFFICES ASSUME ExecInv, ExecInv', AckInv, AckInv', TaskTypes, EchoInv,
                    ServedOnceInv, PairInv, [Next]_vars, timedOut' = {}
             PROVE  /\ \E g : Pairing(g)'
                    /\ \A i \in DOMAIN replies' : replies'[i].matched
  BY DEF PairInv
<1>1. ASSUME NEW c \in Command, HandleTrack(c), c \notin Tracked, Tracked' = Tracked \cup {c}
      PROVE  /\ \E g : Pairing(g)'
             /\ \A i \in DOMAIN replies' : replies'[i].matched
  <2>1. UNCHANGED <<replies, timedOut>>
    BY <1>1, TrackEffect
  <2>2. PICK f : Pairing(f)
    BY <2>1 DEF PairInv
  <2>3. \E g : Pairing(g)'
    BY <1>1, <2>2, PairTrack
  <2>4. QED
    BY <2>1, <2>3 DEF PairInv
<1>2. ASSUME NEW c \in Command, ResultCallback, inHand = <<c>>,
             c \in Tracked, Tracked' = Tracked \ {c}
      PROVE  /\ \E g : Pairing(g)'
             /\ \A i \in DOMAIN replies' : replies'[i].matched
  <2>1. timedOut = {}
    BY <1>2, ReplyInTime
  <2>2. PICK f : Pairing(f)
    BY <2>1 DEF PairInv
  <2>3. f[c] \in DOMAIN pending /\ pending[f[c]].task_id = TaskIdOf[c]
    BY <1>2, <2>2 DEF Pairing
  <2>4. PICK s \in DOMAIN pending :
           /\ pending[s].task_id = TaskIdOf[c]
           /\ DOMAIN pending' = DOMAIN pending \ {s}
           /\ \A r \in DOMAIN pending \ {s} : pending'[r] = pending[r]
           /\ \A i \in DOMAIN replies' :
                \/ i \in DOMAIN replies /\ replies'[i] = replies[i]
                \/ replies'[i] = [cmd |-> c, matched |-> TRUE, acked_seq |-> s]
    BY <1>2, <2>3, ReplyInTime
  <2>5. \E g : Pairing(g)'
    BY <1>2, <2>2, <2>4, PairReply
  <2>6. \A i \in DOMAIN replies : replies[i].matched
    BY <2>1 DEF PairInv
  <2>7. \A i \in DOMAIN replies' : replies'[i].matched
    BY <2>4, <2>6
  <2>8. QED
    BY <2>5, <2>7
<1>3. CASE /\ Tracked' = Tracked /\ UNCHANGED <<replies, timedOut, overlap>>
           /\ Tick \/ UNCHANGED pending
  <2>1. PICK f : Pairing(f)
    BY <1>3 DEF PairInv
  <2>2. Pairing(f)'
    BY <1>3, <2>1, TickEffect DEF Pairing
  <2>3. QED
    BY <1>3, <2>2 DEF PairInv
<1>4. QED
  BY <1>1, <1>2, <1>3, TrackedSteps

\* If the peer never reuses a sequence number, a response goes out without one
\* only after an entry of the map has timed out: however the searches of the
\* unordered_map swap entries, each unanswered command has one of its task_id.
THEOREM UnmatchedNeedsTimeout ==
  ASSUME PeerNumbersDistinct
  PROVE  Spec => []UnmatchedOnlyAfterTimeout
<1>1. Init => PairInv
  <2> SUFFICES ASSUME Init PROVE (\E f : Pairing(f)) /\ replies = << >>
    BY DEF PairInv
  <2>1. Tracked = {} /\ replies = << >>
    BY DEF Init, ExecInit, Tracked, Outstanding, Accepted, Handed
  <2>2. Pairing([c \in {} |-> 0])
    BY <2>1 DEF Pairing
  <2>3. QED
    BY <2>1, <2>2
<1>2. /\ ExecInv /\ ExecInv' /\ AckInv /\ AckInv' /\ TaskTypes /\ EchoInv
      /\ ServedOnceInv /\ PairInv /\ [Next]_vars
      => PairInv'
  BY PairInvStep
<1>3. PairInv => UnmatchedOnlyAfterTimeout
  BY DEF PairInv, UnmatchedOnlyAfterTimeout
<1>4. QED
  BY <1>1, <1>2, <1>3, ExecInvInDaemon, AckInvariant, TaskTypesInvariant, EchoInvariant,
     ServedOnceInvariant, PTL DEF Spec
==============================================================================
