----------------------------- MODULE DaemonTasks -----------------------------
(***************************************************************************)
(* The task path of the daemon (t113i_daemon/src/main.cpp): the handler of *)
(* MSG_TASK_COMMAND on the link's IO thread, the map pending_tasks that is *)
(* to pair each MSG_TASK_RESPONSE with the frame that asked for it, the    *)
(* result callback on the executor's worker thread, and the main thread,   *)
(* which starts the executor and at the end drains and stops it.           *)
(*                                                                         *)
(* The input callback of main.cpp, the only other caller of enqueue(),     *)
(* cannot fire: InputHandler emits no EVT_GPIO_FALLING and main() adds no  *)
(* input device.  The IO thread is thus the only producer.                 *)
(*                                                                         *)
(* Sent means handed to comm.send_payload(): neither the handler nor the   *)
(* result callback looks at its result, so a broken link changes nothing   *)
(* here.                                                                   *)
(***************************************************************************)
EXTENDS TaskExecutor

CONSTANTS
  TaskIdOf,       (* the task_id of each command                           *)
  SeqOf,          (* the sequence number of the frame that carried it      *)
  TaskTimeout     (* TASK_TIMEOUT_MS, in units of the model's clock        *)

ASSUME CommandAssumption ==
  /\ DOMAIN TaskIdOf = Command
  /\ SeqOf \in [Command -> Nat]
  /\ TaskTimeout \in Nat

VARIABLES
  pending,        (* pending_tasks: seq -> [task_id, age]                  *)
  io,             (* <<"idle">>, or where the handler is and its command   *)
  ackOf,          (* MSG_ACK sent for a command: "none", "ok" or "full"    *)
  replies,        (* MSG_TASK_RESPONSEs sent: [cmd, matched, acked_seq]    *)
  timedOut,       (* history: sequence numbers erased as timed out         *)
  overlap,        (* history: two commands of one task_id were unanswered
                     at the same time                                      *)
  mainPc,         (* where main() is                                       *)
  drainTimedOut,  (* history: the drain gave up with commands still queued *)
  owed            (* history: commands accepted before SIGTERM was seen    *)

mainVars == <<mainPc, drainTimedOut, owed>>
taskVars == <<pending, io, ackOf, replies, timedOut, overlap>>
vars == <<execVars, taskVars, mainVars>>

MainPc == {"boot", "run", "drain", "stop_exec", "stop_comm", "exited"}

Accepted == Handed \ refused

Init ==
  /\ ExecInit
  /\ pending = << >>
  /\ io = <<"idle">>
  /\ ackOf = [c \in Command |-> "none"]
  /\ replies = << >>
  /\ timedOut = {}
  /\ overlap = FALSE
  /\ mainPc = "boot"
  /\ drainTimedOut = FALSE
  /\ owed = {}

-----------------------------------------------------------------------------
(* IO thread: comm.register_handler(MSG_TASK_COMMAND, ...)                 *)

CommUp == mainPc \notin {"boot", "exited"}

\* A frame the IO thread has not handled yet.
Arrives(c) ==
  /\ CommUp
  /\ io = <<"idle">>
  /\ ackOf[c] = "none"
  /\ MutexFree        \* queue_size() takes the executor's mutex

\* Fault: a command is tracked before the queue's room is looked at.
HandleFullTracked(c) ==
  /\ Arrives(c)
  /\ Len(queue) >= MaxQueueDepth
  /\ ackOf' = [ackOf EXCEPT ![c] = "full"]
  /\ pending' = [s \in DOMAIN pending \cup {SeqOf[c]} |->
                   IF s = SeqOf[c] THEN [task_id |-> TaskIdOf[c], age |-> 0]
                   ELSE pending[s]]
  /\ UNCHANGED <<execVars, io, replies, timedOut, overlap, mainVars>>

HandleFull(c) ==
  /\ Arrives(c)
  /\ Len(queue) >= MaxQueueDepth
  /\ ackOf' = [ackOf EXCEPT ![c] = "full"]
  /\ UNCHANGED <<execVars, pending, io, replies, timedOut, overlap, mainVars>>

\* Fault: the room is looked at with > instead of >=.
HandleAdmitOneTooMany(c) ==
  /\ Arrives(c)
  /\ Len(queue) <= MaxQueueDepth
  /\ io' = <<"track", c>>
  /\ UNCHANGED <<execVars, pending, ackOf, replies, timedOut, overlap, mainVars>>

HandleAdmit(c) ==
  /\ Arrives(c)
  /\ Len(queue) < MaxQueueDepth
  /\ io' = <<"track", c>>
  /\ UNCHANGED <<execVars, pending, ackOf, replies, timedOut, overlap, mainVars>>

Answered(c) == \E i \in DOMAIN reported : reported[i] = c

\* A command is outstanding from the moment the map learns of it.
Outstanding(c) == c \in Accepted /\ ~Answered(c)

\* Fault: the map is keyed by task_id.
HandleTrackByTaskId(c) ==
  /\ io = <<"track", c>>
  /\ pending' = [k \in DOMAIN pending \cup {TaskIdOf[c]} |->
                   IF k = TaskIdOf[c] THEN [task_id |-> k, age |-> 0]
                   ELSE pending[k]]
  /\ io' = <<"enqueue", c>>
  /\ UNCHANGED <<execVars, ackOf, replies, timedOut, overlap, mainVars>>

HandleTrack(c) ==
  /\ io = <<"track", c>>
  /\ overlap' = (overlap \/ \E d \in Command :
                   TaskIdOf[d] = TaskIdOf[c] /\ Outstanding(d))
  /\ pending' = [s \in DOMAIN pending \cup {SeqOf[c]} |->
                   IF s = SeqOf[c] THEN [task_id |-> TaskIdOf[c], age |-> 0]
                   ELSE pending[s]]
  /\ io' = <<"enqueue", c>>
  /\ UNCHANGED <<execVars, ackOf, replies, timedOut, mainVars>>

\* The result of enqueue() is ignored.
HandleEnqueue(c) ==
  /\ io = <<"enqueue", c>>
  /\ Enqueue(c)
  /\ io' = <<"ack", c>>
  /\ UNCHANGED <<pending, ackOf, replies, timedOut, overlap, mainVars>>

HandleAck(c) ==
  /\ io = <<"ack", c>>
  /\ ackOf' = [ackOf EXCEPT ![c] = "ok"]
  /\ io' = <<"idle">>
  /\ UNCHANGED <<execVars, pending, replies, timedOut, overlap, mainVars>>

-----------------------------------------------------------------------------
(* Worker thread: the executor's steps, and the result callback.           *)

Live == {s \in DOMAIN pending : pending[s].age <= TaskTimeout}

\* Fault: the oldest entry is taken, whatever its task_id.
CandidatesOfAnyTask(c) == Live

Candidates(c) == {s \in Live : pending[s].task_id = TaskIdOf[c]}

Keep(seqs) == [s \in seqs |-> pending[s]]

\* Fault: the entry that supplied acked_seq stays in the map.
ReplyKeepsEntry(c) ==
  \E s \in Candidates(c) :
    /\ pending' = Keep(Live)
    /\ replies' = Append(replies, [cmd |-> c, matched |-> TRUE, acked_seq |-> s])

\* Fault: the search goes on after the match and erases every candidate.
ReplyErasesAll(c) ==
  \/ /\ Candidates(c) = {}
     /\ pending' = Keep(Live)
     /\ replies' = Append(replies, [cmd |-> c, matched |-> FALSE, acked_seq |-> 0])
  \/ \E s \in Candidates(c) :
       /\ pending' = Keep(Live \ Candidates(c))
       /\ replies' = Append(replies, [cmd |-> c, matched |-> TRUE, acked_seq |-> s])

\* The map is searched in the order of an unordered_map: any candidate may
\* come first.  acked_seq stays 0 when there is none.
Reply(c) ==
  \/ /\ Candidates(c) = {}
     /\ pending' = Keep(Live)
     /\ replies' = Append(replies, [cmd |-> c, matched |-> FALSE, acked_seq |-> 0])
  \/ \E s \in Candidates(c) :
       /\ pending' = Keep(Live \ {s})
       /\ replies' = Append(replies, [cmd |-> c, matched |-> TRUE, acked_seq |-> s])

ResultCallback ==
  /\ WorkerReport
  /\ Reply(inHand[1])
  /\ timedOut' = timedOut \cup (DOMAIN pending \ Live)
  /\ UNCHANGED <<io, ackOf, overlap, mainVars>>

WorkerLoop ==
  /\ \/ WorkerCheck
     \/ WorkerPredicate
     \/ WorkerBlock
     \/ WorkerBreak
     \/ WorkerPop
  /\ UNCHANGED <<taskVars, mainVars>>

Wakeup == SpuriousWake /\ UNCHANGED <<taskVars, mainVars>>

\* Ages stop one past the timeout, where they no longer matter.
Older(entry) ==
  [task_id |-> entry.task_id,
   age |-> IF entry.age <= TaskTimeout THEN entry.age + 1 ELSE entry.age]

\* Time passes: every tracked command gets older.
Tick ==
  /\ \E s \in DOMAIN pending : pending[s].age <= TaskTimeout
  /\ pending' = [s \in DOMAIN pending |-> Older(pending[s])]
  /\ UNCHANGED <<execVars, io, ackOf, replies, timedOut, overlap, mainVars>>

-----------------------------------------------------------------------------
(* Main thread: start, then drain_then_execute() and its steps.            *)

MainGoes(from, to) == mainPc = from /\ mainPc' = to

MainStart ==
  /\ MainGoes("boot", "run")
  /\ Start
  /\ UNCHANGED <<taskVars, drainTimedOut, owed>>

\* SIGTERM cleared g_running and the main loop has seen it.
MainSignal ==
  /\ MainGoes("run", "drain")
  /\ owed' = Accepted
  /\ UNCHANGED <<execVars, taskVars, drainTimedOut>>

\* Fault: the drain ends as soon as the worker has taken the first command.
MainDoesNotWait ==
  /\ MainGoes("drain", "stop_exec")
  /\ MutexFree
  /\ Len(queue) < MaxQueueDepth
  /\ UNCHANGED <<execVars, taskVars, drainTimedOut, owed>>

MainDrained ==
  /\ MainGoes("drain", "stop_exec")
  /\ MutexFree
  /\ queue = << >>
  /\ UNCHANGED <<execVars, taskVars, drainTimedOut, owed>>

MainDrainTimeout ==
  /\ MainGoes("drain", "stop_exec")
  /\ MutexFree
  /\ queue # << >>
  /\ drainTimedOut' = TRUE
  /\ UNCHANGED <<execVars, taskVars, owed>>

MainStopExecutor ==
  /\ mainPc = "stop_exec"
  /\ StopClear \/ StopNotify
  /\ UNCHANGED <<taskVars, mainVars>>

MainJoined ==
  /\ MainGoes("stop_exec", "stop_comm")
  /\ StopJoin
  /\ UNCHANGED <<taskVars, drainTimedOut, owed>>

\* comm.stop() joins the IO thread, which ends the handler it is in.
MainStopComm ==
  /\ MainGoes("stop_comm", "exited")
  /\ io = <<"idle">>
  /\ UNCHANGED <<execVars, taskVars, drainTimedOut, owed>>

-----------------------------------------------------------------------------
IoThread ==
  \E c \in Command : HandleTrack(c) \/ HandleEnqueue(c) \/ HandleAck(c)

WorkerThread == WorkerLoop \/ ResultCallback

MainShutdown ==
  \/ MainDrained
  \/ MainDrainTimeout
  \/ MainStopExecutor
  \/ MainJoined
  \/ MainStopComm

Next ==
  \/ \E c \in Command : HandleFull(c) \/ HandleAdmit(c)
  \/ IoThread
  \/ WorkerThread
  \/ Wakeup
  \/ Tick
  \/ MainStart
  \/ MainSignal
  \/ MainShutdown

Spec == Init /\ [][Next]_vars

(***************************************************************************)
(* The threads run: a handler that has begun goes on, the worker goes on,  *)
(* main() gets through its start.  Whether frames come, whether SIGTERM    *)
(* comes and how long the drain takes is left open.                        *)
(***************************************************************************)
FairSpec ==
  /\ Spec
  /\ WF_vars(IoThread)
  /\ WF_vars(WorkerThread)
  /\ WF_vars(MainStart)

-----------------------------------------------------------------------------
(* Properties                                                              *)

ReplyTo == [cmd : Command, matched : BOOLEAN, acked_seq : Nat]

DaemonTypeOK ==
  /\ TypeOK
  /\ DOMAIN pending \subseteq {SeqOf[c] : c \in Command}
  /\ \A s \in DOMAIN pending : pending[s].age \in 0 .. TaskTimeout + 1
  /\ io \in {<<"idle">>} \cup ({"track", "enqueue", "ack"} \X Command)
  /\ ackOf \in [Command -> {"none", "ok", "full"}]
  /\ replies \in Seq(ReplyTo)
  /\ timedOut \subseteq {SeqOf[c] : c \in Command}
  /\ overlap \in BOOLEAN
  /\ mainPc \in MainPc
  /\ drainTimedOut \in BOOLEAN
  /\ owed \subseteq Command

\* main.cpp checks the queue's room and enqueues later, under another lock,
\* and ignores the result of enqueue().  Still a command acknowledged with
\* status 0 was queued: nobody else fills the queue in between.
AckedOkMeansQueued ==
  \A c \in Command : ackOf[c] = "ok" => c \in Accepted

\* A sequence number is answered at most once, when the peer does not reuse
\* it: the entry that supplied it is erased in the same critical section.
NoSeqAnsweredTwice ==
  \A i, j \in DOMAIN replies :
    replies[i].matched /\ replies[j].matched /\ i # j
      => replies[i].acked_seq # replies[j].acked_seq

\* The acked_seq of a response is the sequence number of a command of the
\* same task_id that the daemon has acknowledged or is handling.
EchoNamesSameTask ==
  \A i \in DOMAIN replies : replies[i].matched =>
    \E c \in Command :
      /\ SeqOf[c] = replies[i].acked_seq
      /\ TaskIdOf[c] = TaskIdOf[replies[i].cmd]
      /\ c \in Accepted \/ io = <<"enqueue", c>>

\* No response goes out without a sequence number unless an entry of the map
\* timed out: wrong pairings swap entries but never use up one too many.
UnmatchedOnlyAfterTimeout ==
  (\E i \in DOMAIN replies : ~replies[i].matched) => timedOut # {}

\* Responses carry their own command's sequence number as long as the peer
\* never has two commands of one task_id unanswered and nothing times out.
\* (One overlap is enough to shift every later response of that task_id.)
EchoExactUntilOverlap ==
  ~overlap /\ timedOut = {} =>
    \A i \in DOMAIN replies : replies[i].acked_seq = SeqOf[replies[i].cmd]

\* What the drain is for: a command accepted before SIGTERM was seen is
\* executed and answered before the daemon exits, unless the drain gives up.
\* (One acknowledged later may be lost: main() drains first, and the IO thread
\* accepts commands until the last step of the shutdown.)
DrainedBeforeExit ==
  mainPc = "exited" /\ ~drainTimedOut =>
    \A c \in owed : \E i \in DOMAIN replies : replies[i].cmd = c

\* A response is sent for each command acknowledged with status 0, unless the
\* daemon is told to terminate.
AckedIsAnswered ==
  \A c \in Command :
    ackOf[c] = "ok" ~> \/ \E i \in DOMAIN replies : replies[i].cmd = c
                       \/ mainPc \notin {"boot", "run"}

\* protocol.h: acked_seq "echoes the frame seq from the original
\* TaskCommandPayload".
ResponseEchoesItsSeq ==
  \A i \in DOMAIN replies : replies[i].acked_seq = SeqOf[replies[i].cmd]
==============================================================================
