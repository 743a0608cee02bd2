--------------------------- MODULE DriverRequests ----------------------------
(***************************************************************************)
(* The outbound requests of the ROS 2 driver                               *)
(* (seeway_interface_driver/src/driver_node.cpp): send_and_wait_ack() for  *)
(* SetGpio, SetPwm and PowerControl, on_send_task() for SendTask, the two  *)
(* maps of promises they wait on, the RX thread that fulfils them, the     *)
(* connection monitor and the lifecycle transitions that clear them.       *)
(*                                                                         *)
(* The node declares no callback group, so service callbacks, timers and   *)
(* lifecycle transitions exclude one another: at most one request waits,   *)
(* and the monitor and on_deactivate() run only when none does.  The RX    *)
(* thread runs beside them.  The link is TCP: frames arrive in order, and  *)
(* a disconnection loses the answers under way and a suffix of the         *)
(* requests.                                                               *)
(*                                                                         *)
(* The peer is the daemon of main.cpp: it applies a command and answers    *)
(* with MSG_ACK and the command's seq; it refuses or queues a task with a  *)
(* MSG_ACK too, and answers it later with the seq of some unanswered task  *)
(* (DaemonTasks has the details; here the types of tasks are left out).    *)
(***************************************************************************)
EXTENDS Naturals, Sequences, FiniteSets

CONSTANTS
  SeqSpace,      (* 2^16: next_seq_ is cast to uint16_t                     *)
  AckRetries,    (* ack_retries                                             *)
  MaxFailedChecks,  (* MAX_FAILED_CHECKS                                    *)
  MaxCalls       (* bound: service calls                                    *)

ASSUME DriverAssumption ==
  /\ SeqSpace \in Nat \ {0}
  /\ AckRetries \in Nat
  /\ MaxFailedChecks \in Nat \ {0}
  /\ MaxCalls \in Nat

VARIABLES
  nextSeq,       (* next_seq_, modulo SeqSpace                              *)
  pendingAcks,   (* keys of pending_acks_                                   *)
  pendingTasks,  (* keys of pending_tasks_                                  *)
  pc,            (* where the service callback is; "crashed" when an        *)
                 (* exception left it                                       *)
  call,          (* number of the current or latest call                    *)
  kindOf,        (* what each call waits for: "ack", "task" ("none" before) *)
  seq,           (* its sequence number                                     *)
  retries,       (* attempts left                                           *)
  future,        (* what fut holds: "empty", or the status of the answer    *)
  failedChecks,  (* failed_checks_                                          *)
  active,        (* the lifecycle node is active                            *)
  connected,     (* transport_->is_connected()                              *)
  toDaemon,      (* frames under way: [call, kindOf, seq]                     *)
  toDriver,      (* frames under way: [kind, seq, status]                   *)
  daemonQueue,   (* the daemon's accepted tasks, by call, oldest first      *)
  daemonPending, (* keys of the daemon's pending_tasks                      *)
  result,        (* history: what each call returned                        *)
  applied,       (* history: how often the daemon carried out each call     *)
  leaked,        (* history: keys left behind by a failed retry             *)
  reused         (* history: calls given a number that was OnTheWay          *)

nodeVars == <<nextSeq, pendingAcks, pendingTasks, failedChecks, active, leaked, reused>>
callVars == <<pc, call, kindOf, seq, retries, future, result>>
linkVars == <<connected, toDaemon, toDriver>>
daemonVars == <<daemonQueue, daemonPending, applied>>
vars == <<nodeVars, callVars, linkVars, daemonVars>>

Seqs == 0 .. SeqSpace - 1
Calls == 1 .. MaxCalls

Init ==
  /\ nextSeq = 0
  /\ pendingAcks = {}
  /\ pendingTasks = {}
  /\ pc = "idle"
  /\ call = 0
  /\ kindOf = [c \in Calls |-> "none"]
  /\ seq = 0
  /\ retries = 0
  /\ future = "empty"
  /\ failedChecks = 0
  /\ active = TRUE
  /\ connected = FALSE
  /\ toDaemon = << >>
  /\ toDriver = << >>
  /\ daemonQueue = << >>
  /\ daemonPending = {}
  /\ result = [c \in Calls |-> "none"]
  /\ applied = [c \in Calls |-> 0]
  /\ leaked = {}
  /\ reused = {}

-----------------------------------------------------------------------------
(* The service callback                                                    *)

kind == kindOf[call]

Pending(k) == IF k = "ack" THEN pendingAcks ELSE pendingTasks

SetPending(k, keys) ==
  /\ pendingAcks' = IF k = "ack" THEN keys ELSE pendingAcks
  /\ pendingTasks' = IF k = "task" THEN keys ELSE pendingTasks

Returns(r) ==
  /\ pc' = "idle"
  /\ result' = [result EXCEPT ![call] = r]

\* A client calls a service; the handler looks at is_connected() first.
Begin(k) ==
  /\ pc = "idle"
  /\ call < MaxCalls
  /\ call' = call + 1
  /\ kindOf' = [kindOf EXCEPT ![call + 1] = k]
  /\ retries' = AckRetries
  /\ future' = "empty"
  /\ IF connected THEN pc' = "register" /\ UNCHANGED result
     ELSE pc' = "idle" /\ result' = [result EXCEPT ![call + 1] = "not_connected"]
  /\ UNCHANGED <<nodeVars, seq, linkVars, daemonVars>>

\* A request on its way to the daemon, or a MSG_ACK on its way back, bears
\* the number.
OnTheWay(s) ==
  \/ \E i \in DOMAIN toDaemon : toDaemon[i].seq = s
  \/ \E i \in DOMAIN toDriver : toDriver[i].kind = "ack" /\ toDriver[i].seq = s

\* fut = pending[seq].get_future() for a new seq: an entry somebody left
\* under that key has had its future taken, and get_future() throws; nobody
\* catches the exception, which ends the process.
TakeFuture(keys) ==
  /\ reused' = IF OnTheWay(nextSeq) THEN reused \cup {call} ELSE reused
  /\ nextSeq' = (nextSeq + 1) % SeqSpace
  /\ seq' = nextSeq
  /\ SetPending(kind, keys \cup {nextSeq})

Register ==
  /\ pc = "register"
  /\ pc' = IF nextSeq \in Pending(kind) THEN "crashed" ELSE "send"
  /\ TakeFuture(Pending(kind))
  /\ UNCHANGED <<failedChecks, active, leaked, call, kindOf, retries, future, result,
                 linkVars, daemonVars>>

SendOk ==
  /\ pc \in {"send", "resend"}
  /\ connected
  /\ toDaemon' = Append(toDaemon, [call |-> call, kind |-> kind, seq |-> seq])
  /\ pc' = "wait"
  /\ UNCHANGED <<nodeVars, call, kindOf, seq, retries, future, result, connected,
                 toDriver, daemonVars>>

SendFails ==
  /\ pc = "send"
  /\ ~connected
  /\ SetPending(kind, Pending(kind) \ {seq})
  /\ Returns("send_failed")
  /\ UNCHANGED <<nextSeq, failedChecks, active, leaked, reused, call, kindOf, seq, retries,
                 future, linkVars, daemonVars>>

\* Fault: the failed retry reports that nothing was sent.
ResendReportsSendFailed ==
  /\ pc = "resend"
  /\ ~connected
  /\ leaked' = leaked \cup {seq}
  /\ Returns("send_failed")
  /\ UNCHANGED <<nextSeq, pendingAcks, pendingTasks, failedChecks, active, reused, call,
                 kindOf, seq, retries, future, linkVars, daemonVars>>

\* The entry of the new seq is not erased on this path.
ResendFails ==
  /\ pc = "resend"
  /\ ~connected
  /\ leaked' = leaked \cup {seq}
  /\ Returns("retry_failed")
  /\ UNCHANGED <<nextSeq, pendingAcks, pendingTasks, failedChecks, active, reused, call,
                 kindOf, seq, retries, future, linkVars, daemonVars>>

\* wait_for() returned ready.
Ready ==
  /\ pc = "wait"
  /\ future # "empty"
  /\ Returns(future)
  /\ UNCHANGED <<nodeVars, call, kindOf, seq, retries, future, linkVars, daemonVars>>

\* Fault: on_send_task() waits without a timeout and counts on the monitor to
\* release it.
TimeoutOfCommands ==
  /\ pc = "wait"
  /\ kind = "ack"
  /\ future = "empty"
  /\ pc' = "expired"
  /\ UNCHANGED <<nodeVars, call, kindOf, seq, retries, future, result, linkVars,
                 daemonVars>>

\* wait_for() timed out; an answer may still come before the map is locked.
Timeout ==
  /\ pc = "wait"
  /\ future = "empty"
  /\ pc' = "expired"
  /\ UNCHANGED <<nodeVars, call, kindOf, seq, retries, future, result, linkVars,
                 daemonVars>>

\* Fault: the loop ends one attempt late.
OneAttemptTooMany == IF kind = "ack" THEN retries + 1 ELSE 0

Attempts == IF kind = "ack" THEN retries ELSE 0

Retry ==
  /\ pc = "expired"
  /\ Attempts > 0
  /\ retries' = retries - 1
  /\ pc' = IF nextSeq \in Pending(kind) \ {seq} THEN "crashed" ELSE "resend"
  /\ TakeFuture(Pending(kind) \ {seq})
  /\ future' = "empty"
  /\ UNCHANGED <<failedChecks, active, leaked, call, kindOf, result, linkVars, daemonVars>>

\* Fault: the entry stays in the map when the call gives up.
GiveUpKeepsEntry ==
  /\ pc = "expired"
  /\ Attempts = 0
  /\ Returns("timeout")
  /\ UNCHANGED <<nodeVars, call, kindOf, seq, retries, future, linkVars, daemonVars>>

GiveUp ==
  /\ pc = "expired"
  /\ Attempts = 0
  /\ SetPending(kind, Pending(kind) \ {seq})
  /\ Returns("timeout")
  /\ UNCHANGED <<nextSeq, failedChecks, active, leaked, reused, call, kindOf, seq, retries,
                 future, linkVars, daemonVars>>

-----------------------------------------------------------------------------
(* RX thread: the handlers of MSG_ACK and MSG_TASK_RESPONSE                *)

\* Fault: whoever waits gets the next answer of its kind.
DeliverToWhoeverWaits ==
  /\ toDriver # << >>
  /\ toDriver' = Tail(toDriver)
  /\ LET frame == Head(toDriver)
     IN  /\ SetPending(frame.kind, Pending(frame.kind) \ {frame.seq})
         /\ leaked' = IF frame.kind = "ack" THEN leaked \ {frame.seq} ELSE leaked
         /\ future' = IF pc = "wait" /\ frame.kind = kind THEN frame.status ELSE future
  /\ UNCHANGED <<nextSeq, failedChecks, active, reused, pc, call, kindOf, seq, retries,
                 result, connected, toDaemon, daemonVars>>

\* Fault: one map for both kinds of answer, so that the MSG_ACK of a queued
\* task fulfils the promise of its result.
DeliverBySeq ==
  /\ toDriver # << >>
  /\ toDriver' = Tail(toDriver)
  /\ LET frame == Head(toDriver)
     IN  /\ pendingAcks' = pendingAcks \ {frame.seq}
         /\ pendingTasks' = pendingTasks \ {frame.seq}
         /\ leaked' = leaked \ {frame.seq}
         /\ future' = IF /\ pc \in {"send", "wait", "expired", "resend"}
                        /\ frame.seq = seq
                     THEN frame.status ELSE future
  /\ UNCHANGED <<nextSeq, failedChecks, active, reused, pc, call, kindOf, seq, retries,
                 result, connected, toDaemon, daemonVars>>

\* The entry found belongs to the waiting call unless it was left behind.
Deliver ==
  /\ pc # "crashed"
  /\ toDriver # << >>
  /\ toDriver' = Tail(toDriver)
  /\ LET frame == Head(toDriver)
     IN  /\ SetPending(frame.kind, Pending(frame.kind) \ {frame.seq})
         /\ leaked' = IF frame.kind = "ack" THEN leaked \ {frame.seq} ELSE leaked
         /\ future' = IF /\ pc \in {"send", "wait", "expired", "resend"}
                        /\ frame.kind = kind
                        /\ frame.seq = seq
                        /\ frame.seq \in Pending(frame.kind)
                     THEN frame.status ELSE future
  /\ UNCHANGED <<nextSeq, failedChecks, active, reused, pc, call, kindOf, seq, retries,
                 result, connected, toDaemon, daemonVars>>

-----------------------------------------------------------------------------
(* Timers and lifecycle: exclusive with the service callbacks              *)

\* The connection is gone.  The daemon still reads the frames that had
\* reached it, before it connects again.
LoseLink ==
  /\ connected' = FALSE
  /\ toDriver' = << >>
  /\ \E n \in 0 .. Len(toDaemon) : toDaemon' = SubSeq(toDaemon, 1, n)

ClearPending ==
  /\ pendingAcks' = {}
  /\ pendingTasks' = {}
  /\ leaked' = {}

\* Fault: one check more than MAX_FAILED_CHECKS.
MonitorOneCheckLate ==
  /\ pc = "idle"
  /\ active
  /\ ~connected
  /\ IF failedChecks + 1 > MaxFailedChecks
     THEN failedChecks' = 0 /\ ClearPending
     ELSE failedChecks' = failedChecks + 1
          /\ UNCHANGED <<pendingAcks, pendingTasks, leaked>>
  /\ UNCHANGED <<nextSeq, active, reused, callVars, linkVars, daemonVars>>

MonitorConnection ==
  /\ pc = "idle"
  /\ active
  /\ IF connected
     THEN failedChecks' = 0 /\ UNCHANGED <<pendingAcks, pendingTasks, leaked>>
     ELSE IF failedChecks + 1 >= MaxFailedChecks
     THEN failedChecks' = 0 /\ ClearPending
     ELSE failedChecks' = failedChecks + 1
          /\ UNCHANGED <<pendingAcks, pendingTasks, leaked>>
  /\ UNCHANGED <<nextSeq, active, reused, callVars, linkVars, daemonVars>>

OnDeactivate ==
  /\ pc = "idle"
  /\ active
  /\ active' = FALSE
  /\ LoseLink
  /\ ClearPending
  /\ UNCHANGED <<nextSeq, failedChecks, reused, callVars, daemonVars>>

OnActivate ==
  /\ pc = "idle"
  /\ ~active
  /\ active' = TRUE
  /\ failedChecks' = 0
  /\ UNCHANGED <<nextSeq, pendingAcks, pendingTasks, leaked, reused, callVars, linkVars,
                 daemonVars>>

-----------------------------------------------------------------------------
(* The link and the daemon                                                 *)

Connect ==
  /\ pc # "crashed"
  /\ active
  /\ ~connected
  /\ toDaemon = << >>
  /\ connected' = TRUE
  /\ UNCHANGED <<nodeVars, callVars, toDaemon, toDriver, daemonVars>>

Disconnect ==
  /\ connected
  /\ LoseLink
  /\ UNCHANGED <<nodeVars, callVars, daemonVars>>

\* send_payload() of the daemon: nothing is sent while disconnected.
Answer(k, s, status) ==
  toDriver' = IF connected
              THEN Append(toDriver, [kind |-> k, seq |-> s, status |-> status])
              ELSE toDriver

Receives(k) ==
  /\ toDaemon # << >>
  /\ Head(toDaemon).kind = k
  /\ toDaemon' = Tail(toDaemon)

DaemonApplies ==
  /\ Receives("ack")
  /\ \E status \in {"ok", "error"} :
       /\ Answer("ack", Head(toDaemon).seq, status)
       /\ applied' = [applied EXCEPT ![Head(toDaemon).call] =
                        IF status = "ok" THEN @ + 1 ELSE @]
  /\ UNCHANGED <<nodeVars, callVars, connected, daemonQueue, daemonPending>>

DaemonRefusesTask ==
  /\ Receives("task")
  /\ Answer("ack", Head(toDaemon).seq, "error")
  /\ UNCHANGED <<nodeVars, callVars, connected, daemonVars>>

DaemonQueuesTask ==
  /\ Receives("task")
  /\ Answer("ack", Head(toDaemon).seq, "ok")
  /\ daemonQueue' = Append(daemonQueue, Head(toDaemon).call)
  /\ daemonPending' = daemonPending \cup {Head(toDaemon).seq}
  /\ UNCHANGED <<nodeVars, callVars, connected, applied>>

\* The result names an unanswered task of the same task_id (the types are left
\* out here, so any unanswered task), or 0 when none of that task_id is left.
\* An unknown task and a valve that cannot be switched are errors.
DaemonRunsTask ==
  /\ daemonQueue # << >>
  /\ daemonQueue' = Tail(daemonQueue)
  /\ \E s \in daemonPending \cup {0}, status \in {"ok", "error"} :
       /\ daemonPending' = daemonPending \ {s}
       /\ Answer("task", s, status)
       /\ applied' = [applied EXCEPT ![Head(daemonQueue)] =
                        IF status = "ok" THEN @ + 1 ELSE @]
  /\ UNCHANGED <<nodeVars, callVars, connected, toDaemon>>

\* An entry older than 30 s is dropped.
DaemonPrunes ==
  \E s \in daemonPending :
    /\ daemonPending' = daemonPending \ {s}
    /\ UNCHANGED <<nodeVars, callVars, linkVars, daemonQueue, applied>>

-----------------------------------------------------------------------------
Callback ==
  Register \/ SendOk \/ SendFails \/ ResendFails \/ Ready \/ Timeout \/ Retry \/ GiveUp

Next ==
  \/ \E k \in {"ack", "task"} : Begin(k)
  \/ Callback
  \/ Deliver
  \/ MonitorConnection
  \/ OnDeactivate
  \/ OnActivate
  \/ Connect
  \/ Disconnect
  \/ DaemonApplies
  \/ DaemonRefusesTask
  \/ DaemonQueuesTask
  \/ DaemonRunsTask
  \/ DaemonPrunes

Spec == Init /\ [][Next]_vars

\* The thread of a service callback runs, and waits no longer than its
\* timeouts.  Nothing is asked of the link or of the daemon.
FairSpec == Spec /\ WF_vars(Callback)

-----------------------------------------------------------------------------
(* Properties                                                              *)

\* Keys fit 16 bits, the maps hold keys of the right range and what a call
\* returned is a status some path of the callbacks assigns.
TypeOK ==
  /\ nextSeq \in Seqs /\ seq \in Seqs
  /\ pendingAcks \subseteq Seqs /\ pendingTasks \subseteq Seqs
  /\ leaked \subseteq Seqs /\ daemonPending \subseteq Seqs
  /\ pc \in {"idle", "register", "send", "wait", "expired", "resend", "crashed"}
  /\ call \in 0 .. MaxCalls
  /\ kindOf \in [Calls -> {"none", "ack", "task"}]
  /\ retries \in 0 .. AckRetries
  /\ future \in {"empty", "ok", "error"}
  /\ failedChecks \in 0 .. MaxFailedChecks - 1
  /\ active \in BOOLEAN /\ connected \in BOOLEAN
  /\ result \in [Calls -> {"none", "ok", "error", "not_connected", "send_failed",
                           "retry_failed", "timeout"}]
  /\ applied \in [Calls -> Nat]
  /\ reused \subseteq Calls

\* get_future() is asked twice of one promise, and the exception ends the
\* process, only when a command draws, after the counter has come round, the
\* key that a retry left behind because it could not be sent: every other exit
\* of a call, and the monitor and on_deactivate(), leave no such key.
CrashOnlyOnLeakedKey ==
  [][pc' = "crashed" /\ pc # "crashed" => kind = "ack" /\ nextSeq \in leaked]_vars

\* When a command's service reports success the daemon carried that command
\* out: answers of earlier attempts, of earlier calls and of tasks, which
\* arrive late, are not taken for it, although the counter comes round; all
\* the code relies on is that no frame with the number drawn is still under
\* way, 2^16 attempts later.  (A call that reports a timeout may have been
\* carried out all the same: its ACK was late or lost.)
OkMeansApplied ==
  \A c \in Calls \ reused :
    kindOf[c] = "ack" /\ result[c] = "ok" => applied[c] > 0

\* SendTask never reports success for more tasks than were executed, although
\* the daemon also acknowledges the queueing of each under the same seq.
Succeeded == {c \in Calls : kindOf[c] = "task" /\ result[c] = "ok"}
Executed == {c \in Calls : kindOf[c] = "task" /\ applied[c] > 0}
TaskSuccessIsBacked == Cardinality(Succeeded) <= Cardinality(Executed)

\* "Not connected" and "Failed to send" are final: the daemon does not carry
\* the command out later, so that a client may safely issue it again.
RefusedIsNeverApplied ==
  \A c \in Calls : result[c] \in {"not_connected", "send_failed"} => applied[c] = 0

\* The daemon knows no duplicates, and an answer that is late or lost makes
\* the driver send a command again: all the same a call is carried out no
\* more often than it was attempted, a task once, a refused call never.
AppliedOncePerAttempt ==
  /\ RefusedIsNeverApplied
  /\ \A c \in Calls : applied[c] <= IF kindOf[c] = "task" THEN 1 ELSE AckRetries + 1

\* Between calls the maps hold nothing but the keys of retries that could
\* not be sent.
OnlyFailedRetriesLeak ==
  pc = "idle" => pendingTasks = {} /\ pendingAcks \subseteq leaked

\* Every service call returns, although the daemon may never answer and the
\* monitor never runs while a call waits; or it ends the process, as
\* CrashOnlyOnLeakedKey says.
CallReturns == (pc # "idle") ~> (pc \in {"idle", "crashed"})
==============================================================================
