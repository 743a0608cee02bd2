---------------------------- MODULE TaskExecutor -----------------------------
(***************************************************************************)
(* class TaskExecutor of the daemon (t113i_daemon/src/task_executor.cpp):  *)
(* a bounded queue filled by the threads that call enqueue(), one worker   *)
(* thread that waits on a condition variable, and the thread that calls    *)
(* start() and stop().                                                     *)
(*                                                                         *)
(* mutex_ is held across steps by the worker alone, from the moment it     *)
(* evaluates the wait predicate until it blocks or has taken a command, so *)
(* it needs no variable: see MutexFree.  running_ is an atomic that stop() *)
(* clears, and cv_ is notified, WITHOUT the mutex.                         *)
(*                                                                         *)
(* ctx_ holds pointers set once in main(), so the worker's "Context        *)
(* invalid" branch cannot be reached once start() has returned true.       *)
(***************************************************************************)
EXTENDS Naturals, Sequences

CONSTANTS
  Command,        (* calls of enqueue(), each one a command of its own *)
  MaxQueueDepth   (* MAX_QUEUE_DEPTH, 64 in the code                   *)

ASSUME DepthAssumption == MaxQueueDepth \in Nat \ {0}

VARIABLES
  running,    (* running_                                                *)
  queue,      (* queue_                                                  *)
  workerPc,   (* where the worker thread is, see WorkerPc                *)
  inHand,     (* << >> or <<c>>: the command the worker has popped       *)
  stopPc,     (* where the thread in stop() is                           *)
  reported,   (* history: commands handed to result_cb_, in order        *)
  refused     (* history: commands for which enqueue() returned false    *)

execVars == <<running, queue, workerPc, inHand, stopPc, reported, refused>>

WorkerPc == {"none",      \* start() has not been called
             "check",     \* about to evaluate while (running_)
             "lock",      \* about to lock mutex_ and evaluate the predicate
             "block",     \* predicate was false, mutex_ held, not asleep yet
             "asleep",    \* inside cv_.wait, mutex_ released
             "take",      \* predicate was true, mutex_ held
             "execute",   \* running execute_task, mutex_ released
             "exited"}

StopPc == {"idle", "notify", "join", "returned"}

Handed == refused \cup {queue[i] : i \in DOMAIN queue}
                  \cup {reported[i] : i \in DOMAIN reported}
                  \cup {inHand[i] : i \in DOMAIN inHand}

MutexFree == workerPc \notin {"block", "take"}

ExecInit ==
  /\ running = FALSE
  /\ queue = << >>
  /\ workerPc = "none"
  /\ inHand = << >>
  /\ stopPc = "idle"
  /\ reported = << >>
  /\ refused = {}

-----------------------------------------------------------------------------
(* Callers of start(), enqueue() and stop().                               *)

Start ==
  /\ workerPc = "none"
  /\ running' = TRUE
  /\ workerPc' = "check"
  /\ UNCHANGED <<queue, inHand, stopPc, reported, refused>>

\* Fault: enqueue() and stop() do not notify cv_.
NotSignalled == workerPc

\* notify_one / notify_all: a worker that is not asleep misses the signal.
Signalled == IF workerPc = "asleep" THEN "lock" ELSE workerPc

Accept(c) ==
  /\ MutexFree
  /\ Len(queue) < MaxQueueDepth
  /\ queue' = Append(queue, c)
  /\ workerPc' = Signalled
  /\ UNCHANGED <<running, inHand, stopPc, reported, refused>>

Refuse(c) ==
  /\ MutexFree
  /\ Len(queue) >= MaxQueueDepth
  /\ refused' = refused \cup {c}
  /\ UNCHANGED <<running, queue, workerPc, inHand, stopPc, reported>>

\* bool enqueue(cmd): the lock_guard makes the whole call one step.
Enqueue(c) ==
  /\ c \notin Handed
  /\ Accept(c) \/ Refuse(c)

StopClear ==
  /\ stopPc = "idle"
  /\ workerPc # "none"
  /\ running' = FALSE
  /\ stopPc' = "notify"
  /\ UNCHANGED <<queue, workerPc, inHand, reported, refused>>

StopNotify ==
  /\ stopPc = "notify"
  /\ workerPc' = Signalled
  /\ stopPc' = "join"
  /\ UNCHANGED <<running, queue, inHand, reported, refused>>

StopJoin ==
  /\ stopPc = "join"
  /\ workerPc = "exited"
  /\ stopPc' = "returned"
  /\ UNCHANGED <<running, queue, workerPc, inHand, reported, refused>>

-----------------------------------------------------------------------------
(* worker_loop()                                                           *)

WorkerCheck ==
  /\ workerPc = "check"
  /\ workerPc' = IF running THEN "lock" ELSE "exited"
  /\ UNCHANGED <<running, queue, inHand, stopPc, reported, refused>>

\* Fault: cv_.wait() without a predicate, whatever woke the worker.
WorkerNoPredicate ==
  /\ workerPc = "lock"
  /\ workerPc' \in {"take", "block"}
  /\ UNCHANGED <<running, queue, inHand, stopPc, reported, refused>>

\* Takes mutex_ and evaluates !queue_.empty() || !running_.
WorkerPredicate ==
  /\ workerPc = "lock"
  /\ workerPc' = IF queue # << >> \/ ~running THEN "take" ELSE "block"
  /\ UNCHANGED <<running, queue, inHand, stopPc, reported, refused>>

WorkerBlock ==
  /\ workerPc = "block"
  /\ workerPc' = "asleep"
  /\ UNCHANGED <<running, queue, inHand, stopPc, reported, refused>>

\* A condition variable may wake its waiter for no reason.
SpuriousWake ==
  /\ workerPc = "asleep"
  /\ workerPc' = "lock"
  /\ UNCHANGED <<running, queue, inHand, stopPc, reported, refused>>

WorkerBreak ==
  /\ workerPc = "take"
  /\ ~running
  /\ queue = << >>
  /\ workerPc' = "exited"
  /\ UNCHANGED <<running, queue, inHand, stopPc, reported, refused>>

\* Fault: the command is copied from the front and left there.
WorkerPeek ==
  /\ workerPc = "take"
  /\ running \/ queue # << >>
  /\ inHand' = <<Head(queue)>>
  /\ workerPc' = "execute"
  /\ UNCHANGED <<running, queue, stopPc, reported, refused>>

WorkerPop ==
  /\ workerPc = "take"
  /\ running \/ queue # << >>
  /\ inHand' = <<Head(queue)>>
  /\ queue' = Tail(queue)
  /\ workerPc' = "execute"
  /\ UNCHANGED <<running, stopPc, reported, refused>>

\* execute_task() and report_result(), which copies result_cb_ under mutex_.
WorkerReport ==
  /\ workerPc = "execute"
  /\ reported' = reported \o inHand
  /\ inHand' = << >>
  /\ workerPc' = "check"
  /\ UNCHANGED <<running, queue, stopPc, refused>>

Worker ==
  \/ WorkerCheck
  \/ WorkerPredicate
  \/ WorkerBlock
  \/ WorkerBreak
  \/ WorkerPop
  \/ WorkerReport

Stopper == StopNotify \/ StopJoin

ExecNext ==
  \/ Start
  \/ \E c \in Command : Enqueue(c)
  \/ StopClear
  \/ Stopper
  \/ Worker
  \/ SpuriousWake

ExecSpec == ExecInit /\ [][ExecNext]_execVars

(***************************************************************************)
(* main() calls start() once; the worker and the thread in stop() are      *)
(* threads that run, they always get to their next step.  Nobody need call *)
(* enqueue() or stop(), and no wake-up comes unless cv_ is notified.       *)
(***************************************************************************)
FairExecSpec ==
  /\ ExecSpec
  /\ WF_execVars(Start)
  /\ WF_execVars(Worker)
  /\ WF_execVars(Stopper)

-----------------------------------------------------------------------------
(* Properties                                                              *)

TypeOK ==
  /\ running \in BOOLEAN
  /\ queue \in Seq(Command)
  /\ Len(queue) <= MaxQueueDepth
  /\ workerPc \in WorkerPc
  /\ inHand \in Seq(Command)
  /\ stopPc \in StopPc
  /\ reported \in Seq(Command)
  /\ refused \in SUBSET Command

\* queue_.front() is never called on an empty queue (undefined behaviour in
\* C++), although stop() may clear running_ between the predicate of the wait
\* and the pop, and although the wait may end spuriously.
NeverPopsEmptyQueue ==
  workerPc = "take" /\ running => queue # << >>

\* The implementation of TaskService: what waits there is the command in the
\* worker's hand and those in queue_; once running_ is cleared, the worker
\* may still pop one command unless it is about to leave its loop.
Waiting == inHand \o queue

Phase ==
  IF running \/ workerPc = "none" THEN "open"
  ELSE IF workerPc \in {"check", "exited"} THEN "halted"
  ELSE "closing"

Service == INSTANCE TaskService WITH
  Capacity <- MaxQueueDepth, waiting <- Waiting, served <- reported, phase <- Phase

\* Commands are executed in the order enqueue() accepted them, each exactly
\* once; enqueue() returns false only when the queue is full; after stop()
\* has cleared running_ the worker starts at most one command more.
ImplementsTaskService == Service!Spec

\* enqueue() and notify_one() never leave a command behind a sleeping worker:
\* a command that was accepted is executed, unless stop() is called.
AcceptedIsExecuted ==
  \A c \in Command :
    (\E i \in DOMAIN queue : queue[i] = c)
      ~> (stopPc # "idle" \/ \E i \in DOMAIN reported : reported[i] = c)

\* stop() returns once it has cleared running_ (shutdown_manager.h promises a
\* graceful shutdown whose steps run one after the other).
StopReturns == (stopPc = "notify") ~> (stopPc = "returned")
==============================================================================
