------------------------- MODULE TaskExecutorProofs --------------------------
(***************************************************************************)
(* TLAPS proofs about TaskExecutor, for every set of commands and every    *)
(* queue depth: its type, that the worker never pops an empty queue, and   *)
(* that it implements TaskService.                                         *)
(***************************************************************************)
EXTENDS TaskExecutor, TLAPS

\* The inductive invariant: the type, what the worker holds at each point of
\* its loop, and when running_ can be set.
ExecInv ==
  /\ TypeOK
  /\ workerPc # "execute" => inHand = << >>
  /\ workerPc = "execute" => \E c \in Command : inHand = <<c>>
  /\ workerPc = "take" => queue # << >> \/ ~running
  /\ running <=> stopPc = "idle" /\ workerPc # "none"
  /\ workerPc = "none" => stopPc = "idle"
  /\ workerPc = "exited" => ~running

\* The invariant holds initially and every step keeps it.
LEMMA ExecInvInit == ExecInit => ExecInv
<1> SUFFICES ASSUME ExecInit PROVE ExecInv
  OBVIOUS
<1>1. << >> \in Seq(Command) /\ Len(<< >>) = 0
  OBVIOUS
<1>2. Len(queue) <= MaxQueueDepth
  BY <1>1, DepthAssumption DEF ExecInit
<1>3. queue \in Seq(Command) /\ inHand \in Seq(Command) /\ reported \in Seq(Command)
  BY <1>1 DEF ExecInit
<1>4. TypeOK
  BY <1>2, <1>3 DEF ExecInit, TypeOK, WorkerPc, StopPc
<1>5. QED
  BY <1>4 DEF ExecInit, ExecInv

\* Every step of the executor preserves its inductive invariant.
LEMMA ExecInvStep == ExecInv /\ [ExecNext]_execVars => ExecInv'
<1> SUFFICES ASSUME ExecInv, [ExecNext]_execVars PROVE ExecInv'
  OBVIOUS
<1> USE DepthAssumption DEF ExecInv, TypeOK, WorkerPc, StopPc
<1>1. CASE Start
  BY <1>1 DEF Start
<1>2. ASSUME NEW c \in Command, Accept(c) PROVE ExecInv'
  BY <1>2 DEF Accept, MutexFree, Signalled
<1>3. ASSUME NEW c \in Command, Refuse(c) PROVE ExecInv'
  BY <1>3 DEF Refuse
<1>4. CASE StopClear
  BY <1>4 DEF StopClear
<1>5. CASE StopNotify
  BY <1>5 DEF StopNotify, Signalled
<1>6. CASE StopJoin
  BY <1>6 DEF StopJoin
<1>7. CASE WorkerCheck
  BY <1>7 DEF WorkerCheck
<1>8. CASE WorkerPredicate
  BY <1>8 DEF WorkerPredicate
<1>9. CASE WorkerBlock
  BY <1>9 DEF WorkerBlock
<1>10. CASE SpuriousWake
  BY <1>10 DEF SpuriousWake
<1>11. CASE WorkerBreak
  BY <1>11 DEF WorkerBreak
<1>12. CASE WorkerPop
  BY <1>12 DEF WorkerPop
<1>13. CASE WorkerReport
  BY <1>13 DEF WorkerReport
<1>14. CASE UNCHANGED execVars
  BY <1>14 DEF execVars
<1>15. QED
  BY <1>1, <1>2, <1>3, <1>4, <1>5, <1>6, <1>7, <1>8, <1>9, <1>10, <1>11, <1>12,
     <1>13, <1>14 DEF ExecNext, Enqueue, Worker, Stopper

\* ExecInv is an invariant of the executor.
LEMMA ExecInvariant == ExecSpec => []ExecInv
BY ExecInvInit, ExecInvStep, PTL DEF ExecSpec

\* The type invariant of the executor, for every queue depth.
THEOREM ExecTypeCorrect == ExecSpec => []TypeOK
<1>1. ExecInv => TypeOK
  BY DEF ExecInv
<1>2. QED
  BY <1>1, ExecInvariant, PTL

\* The worker never calls queue_.front() on an empty queue.
THEOREM QueueNeverUnderflows == ExecSpec => []NeverPopsEmptyQueue
<1>1. ExecInv => NeverPopsEmptyQueue
  BY DEF ExecInv, NeverPopsEmptyQueue
<1>2. QED
  BY <1>1, ExecInvariant, PTL

-----------------------------------------------------------------------------
(* Refinement of TaskService.                                              *)

\* The executor starts in an initial state of the task service.
LEMMA ServiceInit == ExecInit => Service!Init
<1> SUFFICES ASSUME ExecInit PROVE Service!Init
  OBVIOUS
<1>1. Waiting = << >> /\ Phase = "open"
  BY DEF ExecInit, Waiting, Phase
<1>2. QED
  BY <1>1 DEF ExecInit, Service!Init

\* What waits is at most one command more than queue_ holds.
LEMMA WaitingLength ==
  ASSUME ExecInv
  PROVE  /\ Waiting \in Seq(Command)
         /\ Len(queue) \in Nat
         /\ Len(Waiting) \in {Len(queue), Len(queue) + 1}
<1>1. CASE inHand = << >>
  BY <1>1 DEF ExecInv, TypeOK, Waiting
<1>2. ASSUME NEW c \in Command, inHand = <<c>>
      PROVE  /\ Waiting \in Seq(Command)
             /\ Len(queue) \in Nat
             /\ Len(Waiting) \in {Len(queue), Len(queue) + 1}
  BY <1>2 DEF ExecInv, TypeOK, Waiting
<1>3. QED
  BY <1>1, <1>2 DEF ExecInv

\* Every step of the executor is a step of the service or changes nothing
\* the service shows.
LEMMA ServiceStep ==
  ExecInv /\ [ExecNext]_execVars => [Service!Next]_Service!vars
<1> SUFFICES ASSUME ExecInv, [ExecNext]_execVars
             PROVE  [Service!Next]_Service!vars
  OBVIOUS
<1>1. ASSUME UNCHANGED <<inHand, queue, reported, refused>>, Phase' = Phase
      PROVE  UNCHANGED Service!vars
  BY <1>1 DEF Waiting, Service!vars
<1>2. CASE Start
  BY <1>1, <1>2 DEF Start, Phase, ExecInv
<1>3. ASSUME NEW c \in Command, Accept(c) PROVE Service!Accept(c)
  <2>1. Waiting' = Append(Waiting, c)
    BY <1>3 DEF Accept, Waiting, ExecInv, TypeOK
  <2>2. Len(Waiting) <= MaxQueueDepth
    BY <1>3, WaitingLength, DepthAssumption DEF Accept
  <2>3. Phase' = Phase
    BY <1>3 DEF Accept, Signalled, Phase
  <2>4. QED
    BY <2>1, <2>2, <2>3, <1>3 DEF Accept, Service!Accept
<1>4. ASSUME NEW c \in Command, Refuse(c) PROVE Service!Refuse(c)
  <2>1. Len(Waiting) >= MaxQueueDepth
    BY <1>4, WaitingLength, DepthAssumption DEF Refuse
  <2>2. Waiting' = Waiting /\ Phase' = Phase
    BY <1>4 DEF Refuse, Waiting, Phase
  <2>3. QED
    BY <2>1, <2>2, <1>4 DEF Refuse, Service!Refuse
<1>5. CASE StopClear
  <2>1. Phase = "open" /\ Phase' \in {"closing", "halted"}
    BY <1>5 DEF StopClear, ExecInv, Phase
  <2>2. QED
    BY <2>1, <1>5 DEF StopClear, Waiting, Service!Close, Service!Next
<1>6. CASE StopNotify
  BY <1>1, <1>6 DEF StopNotify, Signalled, Phase
<1>7. CASE StopJoin
  BY <1>1, <1>7 DEF StopJoin, Phase
<1>8. CASE WorkerCheck
  BY <1>1, <1>8 DEF WorkerCheck, Phase
<1>9. CASE WorkerPredicate \/ WorkerBlock \/ SpuriousWake
  BY <1>1, <1>9 DEF WorkerPredicate, WorkerBlock, SpuriousWake, Phase
<1>10. CASE WorkerBreak
  <2>1. Phase = "closing" /\ Phase' = "halted"
    BY <1>10 DEF WorkerBreak, Phase
  <2>2. QED
    BY <2>1, <1>10 DEF WorkerBreak, Waiting, Service!Halt, Service!Next
<1>11. CASE WorkerPop
  <2>1. inHand = << >> /\ queue # << >> /\ queue \in Seq(Command)
    BY <1>11 DEF WorkerPop, ExecInv, TypeOK
  <2>2. Waiting' = Waiting
    BY <2>1, <1>11 DEF WorkerPop, Waiting
  <2>3. Phase' = Phase
    BY <1>11 DEF WorkerPop, Phase
  <2>4. QED
    BY <2>2, <2>3, <1>11 DEF WorkerPop, Service!vars
<1>12. CASE WorkerReport
  <2>1. PICK c \in Command : inHand = <<c>>
    BY <1>12 DEF WorkerReport, ExecInv
  <2>2. Waiting # << >> /\ Head(Waiting) = c /\ Tail(Waiting) = queue
    BY <2>1 DEF Waiting, ExecInv, TypeOK
  <2>3. Waiting' = queue
    BY <1>12 DEF WorkerReport, Waiting, ExecInv, TypeOK
  <2>4. reported' = Append(reported, c)
    BY <2>1, <1>12 DEF WorkerReport, ExecInv, TypeOK
  <2>5. Phase # "halted" /\ Phase' = IF Phase = "open" THEN "open" ELSE "halted"
    BY <1>12 DEF WorkerReport, Phase
  <2>6. Service!Serve
    BY <2>2, <2>3, <2>4, <2>5, <1>12 DEF WorkerReport, Service!Serve
  <2>7. QED
    BY <2>6 DEF Service!Next
<1>13. CASE UNCHANGED execVars
  BY <1>1, <1>13 DEF execVars, Phase
<1>14. QED
  BY <1>2, <1>3, <1>4, <1>5, <1>6, <1>7, <1>8, <1>9, <1>10, <1>11, <1>12, <1>13
     DEF ExecNext, Enqueue, Worker, Stopper, Service!Next

\* The executor implements the task service: accepted commands are executed
\* exactly once and in order, and at most one is started after stop().
THEOREM ExecutorImplementsService == ExecSpec => ImplementsTaskService
BY ExecInvariant, ServiceInit, ServiceStep, PTL
   DEF ExecSpec, ImplementsTaskService, Service!Spec
==============================================================================
