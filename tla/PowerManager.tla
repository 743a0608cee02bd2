---------------------------- MODULE PowerManager -----------------------------
(***************************************************************************)
(* class PowerManager of the daemon (t113i_daemon/src/power_manager.cpp)   *)
(* and its two callers: the IO thread, which applies the peer's            *)
(* MSG_POWER_COMMANDs, and the worker thread, which switches all rails off *)
(* for TASK_ESTOP and TASK_SHUTDOWN_ALL.                                   *)
(*                                                                         *)
(* apply_power_command() holds mutex_ from its first line to its return,   *)
(* sleeping for a rail's sequence delay included.  A rail is driven by     *)
(* writing a sysfs file: opening it may fail ("failed"), and because the   *)
(* stream is buffered and checked before it is flushed, a write may also   *)
(* be lost while gpio_write() returns true ("lost").  The daemon may be    *)
(* restarted at any moment: the outputs keep their levels, is_on does not  *)
(* survive.                                                                *)
(***************************************************************************)
EXTENDS Integers, Sequences

CONSTANTS
  Rails,        (* rails_: a sequence of [on_cmd, off_cmd, min_on, delay]  *)
  AllOff,       (* PWR_ALL_OFF                                             *)
  PeerCmd,      (* the commands the peer sends                             *)
  Io, Worker,   (* the two calling threads                                 *)
  Outcomes,     (* how sysfs writes end: subset of "done", "lost", "failed"*)
  LongTime,     (* bound: longer than any time the code compares with      *)
  MaxCalls,     (* bound: calls of apply_power_command()                   *)
  MaxRestarts   (* bound: restarts of the daemon                           *)

Rail == DOMAIN Rails
Thread == {Io, Worker}

ASSUME PowerAssumption ==
  /\ Len(Rails) \in Nat /\ Rail = 1 .. Len(Rails)
  /\ LongTime \in Nat
  /\ \A r \in Rail : /\ Rails[r].min_on \in 0 .. LongTime - 1
                     /\ Rails[r].delay \in 0 .. LongTime - 1
  /\ Io # Worker
  /\ Outcomes \subseteq {"done", "lost", "failed"}

VARIABLES
  isOn,       (* is_on of each rail, what the manager believes             *)
  sinceOn,    (* time since turn_on_time, up to the rail's min_on          *)
  level,      (* what the output of each rail really is                    *)
  levelAge,   (* history: for how long, up to LongTime                     *)
  pc,         (* where each thread is in apply_power_command()             *)
  cmd,        (* its argument                                              *)
  todo,       (* the rails it still has to set                             *)
  slept,      (* for how long it has slept in its sequence delay           *)
  ok,         (* the value it is going to return                           *)
  failed,     (* history: rails set_rail() returned false for, this call   *)
  calls, restarts

railVars == <<isOn, sinceOn, level, levelAge>>
callVars == <<pc, cmd, todo, slept, ok, failed>>
vars == <<railVars, callVars, calls, restarts>>

Init ==
  /\ isOn = [r \in Rail |-> FALSE]
  /\ sinceOn = [r \in Rail |-> 0]
  /\ level = [r \in Rail |-> FALSE]
  /\ levelAge = [r \in Rail |-> LongTime]
  /\ pc = [t \in Thread |-> "idle"]
  /\ cmd = [t \in Thread |-> AllOff]
  /\ todo = [t \in Thread |-> << >>]
  /\ slept = [t \in Thread |-> 0]
  /\ ok = [t \in Thread |-> TRUE]
  /\ failed = [t \in Thread |-> {}]
  /\ calls = 0
  /\ restarts = 0

-----------------------------------------------------------------------------
(* apply_power_command()                                                   *)

Goes(t, from, to) == pc[t] = from /\ pc' = [pc EXCEPT ![t] = to]

\* Fault: the mutex is not released when a rail failed.
HoldsAfterFailure(t) ==
  pc[t] \in {"rail", "delay", "write", "return"} \/ failed[t] # {}

\* mutex_ is held from the lock_guard to the return.
Holds(t) == pc[t] \in {"rail", "delay", "write", "return"}

Call(t, c) ==
  /\ calls < MaxCalls
  /\ calls' = calls + 1
  /\ Goes(t, "idle", "lock")
  /\ cmd' = [cmd EXCEPT ![t] = c]
  /\ UNCHANGED <<railVars, todo, slept, ok, failed, restarts>>

\* do_estop(), do_shutdown_all(): PWR_ALL_OFF from the worker.
WorkerAllOff == Call(Worker, AllOff)

PeerCommand == \E c \in PeerCmd : Call(Io, c)

Matches(r, c) == c \in {Rails[r].on_cmd, Rails[r].off_cmd}

FirstMatch(r, c) == Matches(r, c) /\ \A q \in Rail : Matches(q, c) => r <= q

Wanted(t, r) == cmd[t] # AllOff /\ cmd[t] = Rails[r].on_cmd

\* Fault: the loop over all rails runs one past the end.
OnePastEachRail == [r \in Rail |-> r + 1]

EachRail == [r \in Rail |-> r]

Locked(t, next, rails, result) ==
  /\ \A u \in Thread : ~Holds(u)
  /\ Goes(t, "lock", next)
  /\ todo' = [todo EXCEPT ![t] = rails]
  /\ ok' = [ok EXCEPT ![t] = result]
  /\ failed' = [failed EXCEPT ![t] = {}]
  /\ UNCHANGED <<railVars, cmd, slept, calls, restarts>>

LockAllOff(t) ==
  /\ cmd[t] = AllOff
  /\ Locked(t, IF EachRail = << >> THEN "return" ELSE "rail", EachRail, TRUE)

LockOneRail(t) ==
  /\ cmd[t] # AllOff
  /\ \E r \in Rail : FirstMatch(r, cmd[t]) /\ Locked(t, "rail", <<r>>, TRUE)

LockUnknown(t) ==
  /\ cmd[t] # AllOff
  /\ \A r \in Rail : ~Matches(r, cmd[t])
  /\ Locked(t, "return", << >>, FALSE)

-----------------------------------------------------------------------------
(* set_rail(rails_[r], on) for the first rail r of todo                    *)

\* Fault: the result of the last rail is the result of the call.
LastRailDone(t, from, result) ==
  LET r == Head(todo[t])
  IN  /\ Goes(t, from, IF Len(todo[t]) = 1 THEN "return" ELSE "rail")
      /\ todo' = [todo EXCEPT ![t] = Tail(@)]
      /\ ok' = [ok EXCEPT ![t] = result]
      /\ failed' = [failed EXCEPT ![t] = IF result THEN @ ELSE @ \cup {r}]

\* Fault: PWR_ALL_OFF returns at the first rail that fails.
FirstFailureReturns(t, from, result) ==
  LET r == Head(todo[t])
  IN  /\ Goes(t, from, IF Len(todo[t]) = 1 \/ ~result THEN "return" ELSE "rail")
      /\ todo' = [todo EXCEPT ![t] = Tail(@)]
      /\ ok' = [ok EXCEPT ![t] = @ /\ result]
      /\ failed' = [failed EXCEPT ![t] = IF result THEN @ ELSE @ \cup {r}]

\* set_rail() returns result: a false one makes the whole call false, and
\* PWR_ALL_OFF goes on with the next rail all the same.
RailDone(t, from, result) ==
  LET r == Head(todo[t])
  IN  /\ Goes(t, from, IF Len(todo[t]) = 1 THEN "return" ELSE "rail")
      /\ todo' = [todo EXCEPT ![t] = Tail(@)]
      /\ ok' = [ok EXCEPT ![t] = @ /\ result]
      /\ failed' = [failed EXCEPT ![t] = IF result THEN @ ELSE @ \cup {r}]

\* Fault: the comparison lets a rail go one tick early.
TooYoungByOne(r) == isOn[r] /\ sinceOn[r] + 1 < Rails[r].min_on

TooYoung(r) == isOn[r] /\ sinceOn[r] < Rails[r].min_on

RailAlready(t) ==
  /\ pc[t] = "rail"
  /\ isOn[Head(todo[t])] = Wanted(t, Head(todo[t]))
  /\ RailDone(t, "rail", TRUE)
  /\ UNCHANGED <<railVars, cmd, slept, calls, restarts>>

RailTooYoung(t) ==
  /\ pc[t] = "rail"
  /\ ~Wanted(t, Head(todo[t]))
  /\ TooYoung(Head(todo[t]))
  /\ RailDone(t, "rail", FALSE)
  /\ UNCHANGED <<railVars, cmd, slept, calls, restarts>>

RailDelay(t) ==
  LET r == Head(todo[t])
  IN  /\ pc[t] = "rail"
      /\ isOn[r] # Wanted(t, r)
      /\ Wanted(t, r) \/ ~TooYoung(r)
      /\ Goes(t, "rail",
              IF Wanted(t, r) /\ Rails[r].delay > 0 THEN "delay" ELSE "write")
      /\ slept' = [slept EXCEPT ![t] = 0]
      /\ UNCHANGED <<railVars, cmd, todo, ok, failed, calls, restarts>>

\* Fault: a signal ends the sleep early.
DelayCutShort(t) ==
  /\ Goes(t, "delay", "write")
  /\ UNCHANGED <<railVars, cmd, todo, slept, ok, failed, calls, restarts>>

DelayOver(t) ==
  /\ Goes(t, "delay", "write")
  /\ slept[t] >= Rails[Head(todo[t])].delay
  /\ UNCHANGED <<railVars, cmd, todo, slept, ok, failed, calls, restarts>>

\* gpio_write() could not open the file.
WriteFails(t) ==
  /\ pc[t] = "write"
  /\ "failed" \in Outcomes
  /\ RailDone(t, "write", FALSE)
  /\ UNCHANGED <<railVars, cmd, slept, calls, restarts>>

\* gpio_write() returned true; the value reached the pin unless it was lost.
WriteReturns(t) ==
  LET r == Head(todo[t])
      on == Wanted(t, r)
  IN  /\ pc[t] = "write"
      /\ \E outcome \in Outcomes \ {"failed"} :
           /\ level' = [level EXCEPT ![r] = IF outcome = "done" THEN on ELSE @]
           /\ levelAge' = [levelAge EXCEPT ![r] =
                             IF level'[r] # level[r] THEN 0 ELSE @]
      /\ isOn' = [isOn EXCEPT ![r] = on]
      /\ sinceOn' = [sinceOn EXCEPT ![r] = IF on THEN 0 ELSE @]
      /\ RailDone(t, "write", TRUE)
      /\ UNCHANGED <<cmd, slept, calls, restarts>>

SetRail(t) ==
  \/ RailAlready(t)
  \/ RailTooYoung(t)
  \/ RailDelay(t)
  \/ DelayOver(t)
  \/ WriteFails(t)
  \/ WriteReturns(t)

\* The caller gets ok.  The IO thread acknowledges with it; the worker drops
\* it and reports result 0, "ESTOP executed".
Return(t) ==
  /\ Goes(t, "return", "idle")
  /\ UNCHANGED <<railVars, cmd, todo, slept, ok, failed, calls, restarts>>

-----------------------------------------------------------------------------
Tick ==
  /\ \/ \E r \in Rail : levelAge[r] < LongTime \/ TooYoung(r)
     \/ \E t \in Thread : pc[t] = "delay" /\ slept[t] < LongTime
  /\ levelAge' = [r \in Rail |-> IF levelAge[r] < LongTime THEN levelAge[r] + 1
                                 ELSE LongTime]
  /\ sinceOn' = [r \in Rail |-> IF TooYoung(r) THEN sinceOn[r] + 1 ELSE sinceOn[r]]
  /\ slept' = [t \in Thread |-> IF pc[t] = "delay" /\ slept[t] < LongTime
                                THEN slept[t] + 1 ELSE slept[t]]
  /\ UNCHANGED <<isOn, level, pc, cmd, todo, ok, failed, calls, restarts>>

\* The daemon dies, wherever its threads are, and is started again.
Restart ==
  /\ restarts < MaxRestarts
  /\ restarts' = restarts + 1
  /\ isOn' = [r \in Rail |-> FALSE]
  /\ sinceOn' = [r \in Rail |-> 0]
  /\ pc' = [t \in Thread |-> "idle"]
  /\ cmd' = [t \in Thread |-> AllOff]
  /\ todo' = [t \in Thread |-> << >>]
  /\ slept' = [t \in Thread |-> 0]
  /\ ok' = [t \in Thread |-> TRUE]
  /\ failed' = [t \in Thread |-> {}]
  /\ UNCHANGED <<level, levelAge, calls>>

Step(t) ==
  \/ LockAllOff(t)
  \/ LockOneRail(t)
  \/ LockUnknown(t)
  \/ SetRail(t)
  \/ Return(t)

Next ==
  \/ PeerCommand
  \/ WorkerAllOff
  \/ \E t \in Thread : Step(t)
  \/ Tick
  \/ Restart

Spec == Init /\ [][Next]_vars

(***************************************************************************)
(* Threads run and time passes.  Weak fairness is enough for a thread that *)
(* waits for the mutex because the peer sends finitely many commands;      *)
(* std::mutex promises no fairness against a peer that never stops.        *)
(***************************************************************************)
FairSpec ==
  /\ Spec
  /\ WF_vars(Step(Io))
  /\ WF_vars(Step(Worker))
  /\ WF_vars(Tick)

-----------------------------------------------------------------------------
(* Properties                                                              *)

TypeOK ==
  /\ isOn \in [Rail -> BOOLEAN]
  /\ sinceOn \in [Rail -> 0 .. LongTime]
  /\ level \in [Rail -> BOOLEAN]
  /\ levelAge \in [Rail -> 0 .. LongTime]
  /\ pc \in [Thread -> {"idle", "lock", "rail", "delay", "write", "return"}]
  /\ todo \in [Thread -> Seq(Rail)]
  /\ failed \in [Thread -> SUBSET Rail]
  /\ slept \in [Thread -> 0 .. LongTime]
  /\ ok \in [Thread -> BOOLEAN]

\* A rail that is really on stays on for its min_on_ms, whatever the two
\* threads ask for and however often the daemon is restarted or a write lost.
MinOnTimeRespected ==
  [][ \A r \in Rail :
        level[r] /\ ~level'[r] => levelAge[r] >= Rails[r].min_on ]_vars

\* When a rail comes on, every rail that is on already has been on for at
\* least the newcomer's sequence delay: inrush currents never coincide.
RisingEdgesSpaced ==
  [][ \A r, q \in Rail :
        r # q /\ ~level[r] /\ level'[r] /\ level[q]
          => levelAge[q] >= Rails[r].delay ]_vars

\* What PWR_ALL_OFF returns is the truth about is_on: true exactly when no
\* rail is left on, although each rail may be refused or fail on its own.
AllOffResultIsTrue ==
  \A t \in Thread :
    pc[t] = "return" /\ cmd[t] = AllOff
      => (ok[t] <=> \A r \in Rail : ~isOn[r])

\* A rail that PWR_ALL_OFF cannot switch off does not protect the others.
AllOffTriesEveryRail ==
  \A t \in Thread :
    pc[t] = "return" /\ cmd[t] = AllOff
      => \A r \in Rail : isOn[r] => r \in failed[t]

\* An emergency stop gets the mutex and returns, although the IO thread may
\* sleep with the mutex held.
EstopReturns == (pc[Worker] = "lock") ~> (pc[Worker] = "idle")

\* task_executor.cpp: ESTOP is to "Turn off all power rails immediately".
EstopCutsPower ==
  pc[Worker] = "return" => \A r \in Rail : ~level[r]
==============================================================================
