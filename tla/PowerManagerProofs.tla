-------------------------- MODULE PowerManagerProofs --------------------------
(***************************************************************************)
(* TLAPS proofs about PowerManager, for every list of rails and every      *)
(* minimum on-time and sequence delay: the two threads exclude each other, *)
(* minimum on-times are kept and rising edges spaced on the real outputs.  *)
(***************************************************************************)
EXTENDS PowerManager, TLAPS

Pc == {"idle", "lock", "rail", "delay", "write", "return"}

\* Inside set_rail(): there is a rail to set.
Setting(t) == pc[t] \in {"rail", "delay", "write"}

\* What set_rail() has established by the time it gets to gpio_write(); time
\* may have passed since, but is_on and the outputs have not changed.
ReadyToWrite(t) ==
  LET r == Head(todo[t])
  IN  /\ isOn[r] # Wanted(t, r)
      /\ ~Wanted(t, r) => sinceOn[r] >= Rails[r].min_on
      /\ Wanted(t, r) => \A q \in Rail : level[q] => levelAge[q] >= Rails[r].delay

\* While a thread sleeps in its sequence delay no rail changes.
Sleeping(t) ==
  LET r == Head(todo[t])
  IN  /\ ~isOn[r] /\ Wanted(t, r)
      /\ \A q \in Rail : level[q] => levelAge[q] >= slept[t]

PowerInv ==
  /\ TypeOK
  /\ Holds(Io) => ~Holds(Worker)
  /\ \A t \in Thread : Setting(t) => todo[t] # << >>
  /\ \A t \in Thread : pc[t] = "write" => ReadyToWrite(t)
  /\ \A t \in Thread : pc[t] = "delay" => Sleeping(t)
  /\ \A r \in Rail : level[r] /\ isOn[r] => levelAge[r] >= sinceOn[r]

-----------------------------------------------------------------------------
\* Nothing runs and every clock is in range at the start.
LEMMA PowerInvInit == Init => PowerInv
<1> SUFFICES ASSUME Init PROVE PowerInv
  OBVIOUS
<1>1. << >> \in Seq(Rail)
  OBVIOUS
<1>2. 0 \in 0 .. LongTime /\ LongTime \in 0 .. LongTime
  BY PowerAssumption
<1>3. TypeOK
  <2>1. todo \in [Thread -> Seq(Rail)] /\ failed \in [Thread -> SUBSET Rail]
    BY <1>1 DEF Init
  <2>2. QED
    BY <1>2, <2>1 DEF Init, TypeOK
<1>4. \A t \in Thread : pc[t] = "idle"
  BY DEF Init
<1>5. Io \in Thread /\ Worker \in Thread
  BY DEF Thread
<1>6. \A r \in Rail : ~level[r]
  BY DEF Init
<1>7. QED
  BY <1>3, <1>4, <1>5, <1>6 DEF PowerInv, Holds, Setting

\* All the rails are a sequence of rails.
LEMMA EachRailIsRails == EachRail \in Seq(Rail)
BY PowerAssumption DEF EachRail

\* Taking the mutex: nobody holds it, and there is a rail to set.
LEMMA LockStep ==
  ASSUME PowerInv, NEW t \in Thread, LockAllOff(t) \/ LockOneRail(t) \/ LockUnknown(t)
  PROVE  PowerInv'
<1>1. ASSUME NEW next \in {"rail", "return"}, NEW rails \in Seq(Rail), NEW result \in BOOLEAN,
             next = "rail" => rails # << >>,
             Locked(t, next, rails, result)
      PROVE  PowerInv'
  <2>1. \A u \in Thread : ~Holds(u)
    BY <1>1 DEF Locked
  <2>2. /\ pc' = [pc EXCEPT ![t] = next]
        /\ todo' = [todo EXCEPT ![t] = rails]
        /\ ok' = [ok EXCEPT ![t] = result]
        /\ failed' = [failed EXCEPT ![t] = {}]
        /\ UNCHANGED <<isOn, sinceOn, level, levelAge, cmd, slept>>
    BY <1>1 DEF Locked, Goes, railVars
  <2>3. TypeOK'
    BY <1>1, <2>2 DEF PowerInv, TypeOK
  <2>4. \A u \in Thread : pc'[u] \notin {"write", "delay"} /\ (u # t => ~Holds(u)')
    BY <1>1, <2>1, <2>2 DEF Holds, PowerInv, TypeOK
  <2>5. (Holds(Io) => ~Holds(Worker))'
    BY <2>4, PowerAssumption DEF Thread
  <2>6. \A u \in Thread : Setting(u)' => todo'[u] # << >>
    <3>1. ASSUME NEW u \in Thread, u # t PROVE ~Setting(u)'
      BY <3>1, <2>1, <2>2 DEF Holds, Setting, PowerInv, TypeOK
    <3>2. pc'[t] = next /\ todo'[t] = rails
      BY <2>2 DEF PowerInv, TypeOK
    <3>3. QED
      BY <3>1, <3>2, <1>1 DEF Setting
  <2>7. QED
    BY <2>2, <2>3, <2>4, <2>5, <2>6 DEF PowerInv
<1>2. CASE LockAllOff(t)
  <2>1. EachRail = << >> \/ EachRail # << >>
    OBVIOUS
  <2>2. QED
    BY <1>1, <1>2, <2>1, EachRailIsRails DEF LockAllOff
<1>3. CASE LockOneRail(t)
  <2>1. PICK r \in Rail : Locked(t, "rail", <<r>>, TRUE)
    BY <1>3 DEF LockOneRail
  <2>2. <<r>> \in Seq(Rail) /\ <<r>> # << >>
    OBVIOUS
  <2>3. QED
    BY <1>1, <2>1, <2>2
<1>4. CASE LockUnknown(t)
  <2>1. << >> \in Seq(Rail)
    OBVIOUS
  <2>2. QED
    BY <1>1, <1>4, <2>1 DEF LockUnknown
<1>5. QED
  BY <1>2, <1>3, <1>4

-----------------------------------------------------------------------------
\* A thread in set_rail() holds the mutex and the other does not.
LEMMA OtherDoesNotHold ==
  ASSUME PowerInv, NEW t \in Thread, Holds(t), NEW u \in Thread, u # t
  PROVE  ~Holds(u)
BY DEF PowerInv, Thread

\* A step of set_rail preserves the invariant.
LEMMA SetRailStep ==
  ASSUME PowerInv, NEW t \in Thread, SetRail(t)
  PROVE  PowerInv'
<1>1. Holds(t) /\ Setting(t) /\ todo[t] # << >> /\ todo[t] \in Seq(Rail)
  BY DEF SetRail, RailAlready, RailTooYoung, RailDelay, DelayOver, WriteFails,
         WriteReturns, Goes, Holds, Setting, PowerInv, TypeOK
<1>2. /\ Head(todo[t]) \in Rail
      /\ Tail(todo[t]) \in Seq(Rail)
      /\ Len(todo[t]) # 1 => Tail(todo[t]) # << >>
  <2>1. Head(todo[t]) \in Rail
    BY <1>1
  <2>2. Tail(todo[t]) \in Seq(Rail)
    BY <1>1
  <2>3. Len(todo[t]) \in Nat /\ Len(todo[t]) # 0 /\ Len(Tail(todo[t])) = Len(todo[t]) - 1
    BY <1>1
  <2>4. Len(todo[t]) # 1 => Tail(todo[t]) # << >>
    <3>1. Len(<< >>) = 0
      OBVIOUS
    <3>2. Len(todo[t]) # 1 => Len(Tail(todo[t])) # 0
      BY <2>3
    <3>3. QED
      BY <3>1, <3>2
  <2>5. QED
    BY <2>1, <2>2, <2>4
<1>3. \A u \in Thread : u # t => ~Holds(u)
  BY <1>1, OtherDoesNotHold
<1>4. \A u \in Thread : u # t => pc[u] \in {"idle", "lock"}
  BY <1>3 DEF Holds, PowerInv, TypeOK
\* RailDone() leaves t about to return or at the next rail.
<1>5. ASSUME NEW from, NEW result \in BOOLEAN, RailDone(t, from, result),
             isOn' \in [Rail -> BOOLEAN], sinceOn' \in [Rail -> 0 .. LongTime],
             level' \in [Rail -> BOOLEAN], levelAge' \in [Rail -> 0 .. LongTime],
             UNCHANGED slept,
             \A r \in Rail : level'[r] /\ isOn'[r] => levelAge'[r] >= sinceOn'[r]
      PROVE  PowerInv'
  <2>1. /\ pc' = [pc EXCEPT ![t] = IF Len(todo[t]) = 1 THEN "return" ELSE "rail"]
        /\ todo' = [todo EXCEPT ![t] = Tail(todo[t])]
        /\ ok' = [ok EXCEPT ![t] = ok[t] /\ result]
        /\ failed' = [failed EXCEPT ![t] = IF result THEN failed[t]
                                          ELSE failed[t] \cup {Head(todo[t])}]
    BY <1>5 DEF RailDone, Goes
  <2>2. pc' \in [Thread -> Pc]
    BY <2>1 DEF PowerInv, TypeOK, Pc
  <2>3. todo' \in [Thread -> Seq(Rail)] /\ failed' \in [Thread -> SUBSET Rail]
    BY <1>2, <2>1 DEF PowerInv, TypeOK
  <2>4. ok' \in [Thread -> BOOLEAN]
    <3>1. (ok[t] /\ result) \in BOOLEAN
      OBVIOUS
    <3>2. QED
      BY <2>1, <3>1 DEF PowerInv, TypeOK
  <2>5. TypeOK'
    BY <1>5, <2>2, <2>3, <2>4, <2>1 DEF PowerInv, TypeOK, Pc
  <2>6. \A u \in Thread : u # t => pc'[u] = pc[u]
    BY <2>1 DEF PowerInv, TypeOK
  <2>7. pc'[t] \in {"return", "rail"} /\ (pc'[t] = "rail" => todo'[t] # << >>)
    BY <1>2, <2>1 DEF PowerInv, TypeOK
  <2>8. (Holds(Io) => ~Holds(Worker))'
    BY <1>4, <2>6, PowerAssumption DEF Holds, Thread
  <2>9. \A u \in Thread : pc'[u] \notin {"write", "delay"}
    BY <1>4, <2>6, <2>7
  <2>10. \A u \in Thread : Setting(u)' => todo'[u] # << >>
    BY <1>4, <2>6, <2>7 DEF Setting
  <2>11. QED
    BY <1>5, <2>5, <2>8, <2>9, <2>10 DEF PowerInv
<1>6. CASE RailAlready(t)
  BY <1>5, <1>6 DEF RailAlready, railVars, PowerInv, TypeOK
<1>7. CASE RailTooYoung(t)
  BY <1>5, <1>7 DEF RailTooYoung, railVars, PowerInv, TypeOK
<1>8. CASE WriteFails(t)
  BY <1>5, <1>8 DEF WriteFails, railVars, PowerInv, TypeOK
<1>9. CASE WriteReturns(t)
  <2> DEFINE r == Head(todo[t])
             on == Wanted(t, r)
  <2>1. on \in BOOLEAN
    BY DEF Wanted
  <2>2. PICK outcome \in Outcomes \ {"failed"} :
          /\ level' = [level EXCEPT ![r] = IF outcome = "done" THEN on ELSE level[r]]
          /\ levelAge' = [levelAge EXCEPT ![r] =
                            IF level'[r] # level[r] THEN 0 ELSE levelAge[r]]
    BY <1>9 DEF WriteReturns
  <2>3. /\ isOn' = [isOn EXCEPT ![r] = on]
        /\ sinceOn' = [sinceOn EXCEPT ![r] = IF on THEN 0 ELSE sinceOn[r]]
        /\ RailDone(t, "write", TRUE)
        /\ UNCHANGED slept
    BY <1>9 DEF WriteReturns
  <2>4. 0 \in 0 .. LongTime
    BY PowerAssumption
  <2>5. r \in Rail
    BY <1>2
  <2>6. isOn' \in [Rail -> BOOLEAN] /\ level' \in [Rail -> BOOLEAN]
    BY <2>1, <2>2, <2>3, <2>5 DEF PowerInv, TypeOK
  <2>7. sinceOn' \in [Rail -> 0 .. LongTime] /\ levelAge' \in [Rail -> 0 .. LongTime]
    BY <2>2, <2>3, <2>4, <2>5 DEF PowerInv, TypeOK
  <2>8. ASSUME NEW q \in Rail, level'[q], isOn'[q] PROVE levelAge'[q] >= sinceOn'[q]
    <3>1. CASE q # r
      BY <2>2, <2>3, <2>8, <3>1 DEF PowerInv, TypeOK
    <3>2. CASE q = r
      <4>1. on
        BY <2>3, <2>5, <2>8, <3>2 DEF PowerInv, TypeOK
      <4>2. sinceOn'[q] = 0
        BY <2>3, <2>5, <3>2, <4>1 DEF PowerInv, TypeOK
      <4>3. levelAge'[q] \in 0 .. LongTime
        BY <2>7
      <4>4. QED
        BY <4>2, <4>3, PowerAssumption
    <3>3. QED
      BY <3>1, <3>2
  <2>9. QED
    BY <1>5, <2>3, <2>6, <2>7, <2>8
\* RailDelay() and DelayOver() only move t on inside set_rail().
<1>10. ASSUME NEW next \in {"delay", "write"},
              pc' = [pc EXCEPT ![t] = next],
              UNCHANGED <<railVars, cmd, todo, ok, failed>>,
              slept' \in [Thread -> 0 .. LongTime],
              next = "delay" => Sleeping(t)',
              next = "write" => ReadyToWrite(t)'
       PROVE  PowerInv'
  <2>1. pc' \in [Thread -> Pc]
    BY <1>10 DEF PowerInv, TypeOK, Pc
  <2>2. TypeOK'
    BY <1>10, <2>1 DEF PowerInv, TypeOK, Pc, railVars
  <2>3. pc'[t] = next /\ \A u \in Thread : u # t => pc'[u] = pc[u]
    BY <1>10 DEF PowerInv, TypeOK
  <2>4. (Holds(Io) => ~Holds(Worker))'
    BY <1>4, <2>3, PowerAssumption DEF Holds, Thread
  <2>5. \A u \in Thread : Setting(u)' => todo'[u] # << >>
    BY <1>1, <1>4, <1>10, <2>3 DEF Setting
  <2>6. \A u \in Thread : pc'[u] = "write" => ReadyToWrite(u)'
    BY <1>4, <1>10, <2>3
  <2>7. \A u \in Thread : pc'[u] = "delay" => Sleeping(u)'
    BY <1>4, <1>10, <2>3
  <2>8. \A r \in Rail : level'[r] /\ isOn'[r] => levelAge'[r] >= sinceOn'[r]
    BY <1>10 DEF PowerInv, railVars
  <2>9. QED
    BY <2>2, <2>4, <2>5, <2>6, <2>7, <2>8 DEF PowerInv
<1>11. CASE RailDelay(t)
  <2> DEFINE r == Head(todo[t])
             next == IF Wanted(t, r) /\ Rails[r].delay > 0 THEN "delay" ELSE "write"
  <2>1. /\ isOn[r] # Wanted(t, r)
        /\ Wanted(t, r) \/ ~TooYoung(r)
        /\ pc' = [pc EXCEPT ![t] = next]
        /\ slept' = [slept EXCEPT ![t] = 0]
        /\ UNCHANGED <<railVars, cmd, todo, ok, failed>>
    BY <1>11 DEF RailDelay, Goes
  <2>2. r \in Rail /\ Rails[r].delay \in 0 .. LongTime - 1
        /\ Rails[r].min_on \in 0 .. LongTime - 1 /\ LongTime \in Nat
    BY <1>2, PowerAssumption
  <2>3. \A q \in Rail : levelAge[q] \in 0 .. LongTime /\ sinceOn[q] \in 0 .. LongTime
                        /\ isOn[q] \in BOOLEAN
    BY DEF PowerInv, TypeOK
  <2>4. slept' \in [Thread -> 0 .. LongTime] /\ slept'[t] = 0
    BY <2>1, <2>2 DEF PowerInv, TypeOK
  <2>5. Wanted(t, r)' <=> Wanted(t, r)
    BY <2>1 DEF Wanted
  <2>6. next = "delay" => Sleeping(t)'
    <3>1. SUFFICES ASSUME next = "delay" PROVE Sleeping(t)'
      OBVIOUS
    <3>2. Wanted(t, r) /\ ~isOn[r]
      BY <3>1, <2>1, <2>2, <2>3
    <3>3. \A q \in Rail : levelAge[q] >= slept'[t]
      BY <2>2, <2>3, <2>4
    <3>4. QED
      BY <3>2, <3>3, <2>1 DEF Sleeping, Wanted, railVars
  <2>7. next = "write" => ReadyToWrite(t)'
    <3>1. SUFFICES ASSUME next = "write" PROVE ReadyToWrite(t)'
      OBVIOUS
    <3>2. Wanted(t, r) => Rails[r].delay = 0
      BY <3>1, <2>2
    <3>3. ~Wanted(t, r) => sinceOn[r] >= Rails[r].min_on
      BY <2>1, <2>2, <2>3 DEF TooYoung, Wanted
    <3>4. Wanted(t, r) => \A q \in Rail : levelAge[q] >= Rails[r].delay
      BY <3>2, <2>3
    <3>5. QED
      BY <3>3, <3>4, <2>1 DEF ReadyToWrite, Wanted, railVars
  <2>8. QED
    BY <1>10, <2>1, <2>4, <2>6, <2>7
<1>12. CASE DelayOver(t)
  <2> DEFINE r == Head(todo[t])
  <2>1. /\ pc[t] = "delay" /\ slept[t] >= Rails[r].delay
        /\ pc' = [pc EXCEPT ![t] = "write"]
        /\ UNCHANGED <<railVars, cmd, todo, slept, ok, failed>>
    BY <1>12 DEF DelayOver, Goes
  <2>2. Sleeping(t)
    BY <2>1 DEF PowerInv
  <2>3. /\ Rails[r].delay \in 0 .. LongTime - 1 /\ LongTime \in Nat
        /\ slept[t] \in 0 .. LongTime
        /\ \A q \in Rail : levelAge[q] \in 0 .. LongTime
    <3>1. Rails[r].delay \in 0 .. LongTime - 1 /\ LongTime \in Nat
      BY <1>2, PowerAssumption
    <3>2. QED
      BY <3>1 DEF PowerInv, TypeOK
  <2>4. \A q \in Rail : level[q] => levelAge[q] >= Rails[r].delay
    BY <2>1, <2>2, <2>3 DEF Sleeping
  <2>5. ReadyToWrite(t)'
    BY <2>1, <2>2, <2>4 DEF Sleeping, ReadyToWrite, Wanted, railVars
  <2>6. QED
    BY <1>10, <2>1, <2>5 DEF PowerInv, TypeOK
<1>13. QED
  BY <1>6, <1>7, <1>8, <1>9, <1>11, <1>12 DEF SetRail

-----------------------------------------------------------------------------
\* Calls and returns touch nothing but a thread outside set_rail().
LEMMA CallReturnStep ==
  ASSUME PowerInv, NEW t \in Thread, PeerCommand \/ WorkerAllOff \/ Return(t)
  PROVE  PowerInv'
<1>1. PICK u \in Thread, to \in {"lock", "idle"} :
        /\ pc[u] \in {"idle", "return"}
        /\ pc' = [pc EXCEPT ![u] = to]
        /\ UNCHANGED <<railVars, todo, slept, ok, failed>>
        /\ \A v \in Thread : v # u => cmd'[v] = cmd[v]
  <2>1. ASSUME NEW v \in Thread, NEW c, Call(v, c)
        PROVE  /\ pc[v] = "idle" /\ pc' = [pc EXCEPT ![v] = "lock"]
               /\ UNCHANGED <<railVars, todo, slept, ok, failed>>
               /\ \A w \in Thread : w # v => cmd'[w] = cmd[w]
    BY <2>1 DEF Call, Goes
  <2>2. CASE PeerCommand
    BY <2>1, <2>2 DEF PeerCommand, Thread
  <2>3. CASE WorkerAllOff
    BY <2>1, <2>3 DEF WorkerAllOff, Thread
  <2>4. CASE Return(t)
    BY <2>4 DEF Return, Goes
  <2>5. QED
    BY <2>2, <2>3, <2>4
<1>2. /\ pc'[u] \in {"lock", "idle"}
      /\ \A v \in Thread : v # u => pc'[v] = pc[v]
      /\ pc' \in [Thread -> Pc]
  BY <1>1 DEF PowerInv, TypeOK, Pc
<1>3. TypeOK'
  BY <1>1, <1>2 DEF PowerInv, TypeOK, railVars, Pc
<1>4. (Holds(Io) => ~Holds(Worker))'
  BY <1>2 DEF PowerInv, Holds, Thread
<1>5. \A v \in Thread : Setting(v)' => todo'[v] # << >>
  BY <1>1, <1>2 DEF PowerInv, Setting
<1>6. ASSUME NEW v \in Thread, pc'[v] = "write" PROVE ReadyToWrite(v)'
  BY <1>1, <1>2, <1>6 DEF PowerInv, ReadyToWrite, Wanted, railVars
<1>7. ASSUME NEW v \in Thread, pc'[v] = "delay" PROVE Sleeping(v)'
  BY <1>1, <1>2, <1>7 DEF PowerInv, Sleeping, Wanted, railVars
<1>8. QED
  BY <1>1, <1>3, <1>4, <1>5, <1>6, <1>7 DEF PowerInv, railVars

\* As time passes an output ages as fast as is_on and as the sleeper sleeps.
LEMMA TickStep == PowerInv /\ Tick => PowerInv'
<1> SUFFICES ASSUME PowerInv, Tick PROVE PowerInv'
  OBVIOUS
<1>1. LongTime \in Nat /\ \A r \in Rail : /\ Rails[r].min_on \in 0 .. LongTime - 1
                                          /\ Rails[r].delay \in 0 .. LongTime - 1
  BY PowerAssumption
<1>2. /\ UNCHANGED <<isOn, level, pc, cmd, todo, ok, failed>>
      /\ levelAge' = [r \in Rail |-> IF levelAge[r] < LongTime THEN levelAge[r] + 1
                                     ELSE LongTime]
      /\ sinceOn' = [r \in Rail |-> IF TooYoung(r) THEN sinceOn[r] + 1 ELSE sinceOn[r]]
      /\ slept' = [t \in Thread |-> IF pc[t] = "delay" /\ slept[t] < LongTime
                                    THEN slept[t] + 1 ELSE slept[t]]
  BY DEF Tick
<1>3. ASSUME NEW r \in Rail
      PROVE  /\ levelAge'[r] \in 0 .. LongTime /\ levelAge'[r] >= levelAge[r]
             /\ levelAge'[r] = LongTime \/ levelAge'[r] = levelAge[r] + 1
             /\ levelAge[r] \in 0 .. LongTime
  BY <1>1, <1>2 DEF PowerInv, TypeOK
<1>4. ASSUME NEW r \in Rail
      PROVE  /\ sinceOn'[r] \in 0 .. LongTime /\ sinceOn'[r] >= sinceOn[r]
             /\ sinceOn'[r] <= sinceOn[r] + 1 /\ sinceOn[r] \in 0 .. LongTime
  BY <1>1, <1>2 DEF PowerInv, TypeOK, TooYoung
<1>5. ASSUME NEW t \in Thread
      PROVE  /\ slept'[t] \in 0 .. LongTime
             /\ slept'[t] <= slept[t] + 1 /\ slept[t] \in 0 .. LongTime
  BY <1>1, <1>2 DEF PowerInv, TypeOK
<1>6. TypeOK'
  BY <1>2, <1>3, <1>4, <1>5 DEF PowerInv, TypeOK
<1>7. ASSUME NEW r \in Rail, level[r], isOn[r] PROVE levelAge'[r] >= sinceOn'[r]
  <2>1. levelAge[r] >= sinceOn[r]
    BY <1>7 DEF PowerInv
  <2>2. QED
    BY <2>1, <1>1, <1>3, <1>4
<1>8. ASSUME NEW t \in Thread, pc[t] = "delay" PROVE Sleeping(t)'
  <2>1. Sleeping(t)
    BY <1>8 DEF PowerInv
  <2>2. ASSUME NEW q \in Rail, level[q] PROVE levelAge'[q] >= slept'[t]
    <3>1. levelAge[q] >= slept[t]
      BY <2>1, <2>2 DEF Sleeping
    <3>2. QED
      BY <3>1, <1>1, <1>3, <1>5
  <2>3. QED
    BY <2>1, <2>2, <1>2 DEF Sleeping, Wanted
<1>9. ASSUME NEW t \in Thread, pc[t] = "write" PROVE ReadyToWrite(t)'
  <2> DEFINE r == Head(todo[t])
  <2>1. ReadyToWrite(t)
    BY <1>9 DEF PowerInv
  <2>2. r \in Rail
    BY <1>9 DEF PowerInv, TypeOK, Setting
  <2>3. ~Wanted(t, r) => sinceOn'[r] >= Rails[r].min_on
    BY <2>1, <2>2, <1>1, <1>4 DEF ReadyToWrite
  <2>4. Wanted(t, r) => \A q \in Rail : level[q] => levelAge'[q] >= Rails[r].delay
    BY <2>1, <2>2, <1>1, <1>3 DEF ReadyToWrite
  <2>5. QED
    BY <2>1, <2>3, <2>4, <1>2 DEF ReadyToWrite, Wanted
<1>10. QED
  BY <1>2, <1>6, <1>7, <1>8, <1>9 DEF PowerInv, Holds, Setting

\* After a restart no rail is believed to be on, so nothing is owed to it.
LEMMA RestartStep == PowerInv /\ Restart => PowerInv'
<1> SUFFICES ASSUME PowerInv, Restart PROVE PowerInv'
  OBVIOUS
<1>1. << >> \in Seq(Rail) /\ 0 \in 0 .. LongTime
  BY PowerAssumption
<1>2. TypeOK'
  BY <1>1 DEF Restart, PowerInv, TypeOK
<1>3. (\A t \in Thread : pc'[t] = "idle") /\ \A r \in Rail : ~isOn'[r]
  BY DEF Restart
<1>4. (Holds(Io) => ~Holds(Worker))'
  BY <1>3 DEF Holds, Thread
<1>5. QED
  BY <1>2, <1>3, <1>4 DEF PowerInv, Setting

\* Every step of the power manager preserves the invariant.
LEMMA PowerInvStep == PowerInv /\ [Next]_vars => PowerInv'
<1> SUFFICES ASSUME PowerInv, [Next]_vars PROVE PowerInv'
  OBVIOUS
<1>1. Io \in Thread
  BY DEF Thread
<1>2. CASE PeerCommand \/ WorkerAllOff
  BY <1>1, <1>2, CallReturnStep
<1>3. ASSUME NEW t \in Thread, Step(t) PROVE PowerInv'
  BY <1>3, LockStep, SetRailStep, CallReturnStep DEF Step
<1>4. CASE UNCHANGED vars
  BY <1>4 DEF vars, railVars, callVars, PowerInv, TypeOK, Holds, Setting, ReadyToWrite,
              Sleeping, Wanted
<1>5. QED
  BY <1>2, <1>3, <1>4, TickStep, RestartStep DEF Next

\* PowerInv is an invariant of the power manager.
LEMMA PowerInvariant == Spec => []PowerInv
BY PowerInvInit, PowerInvStep, PTL DEF Spec

\* The type invariant, for every list of rails.
THEOREM PowerTypeCorrect == Spec => []TypeOK
<1>1. PowerInv => TypeOK
  BY DEF PowerInv
<1>2. QED
  BY <1>1, PowerInvariant, PTL

-----------------------------------------------------------------------------
(* The real outputs                                                        *)

\* Only gpio_write() changes an output.
LEMMA OnlyWritesChangeOutputs ==
  ASSUME [Next]_vars, level' # level
  PROVE  \E t \in Thread : WriteReturns(t)
BY DEF Next, PeerCommand, WorkerAllOff, Call, Step, LockAllOff, LockOneRail, LockUnknown,
       Locked, SetRail, RailAlready, RailTooYoung, RailDelay, DelayOver, WriteFails, Return,
       Tick, Restart, vars, railVars

\* A step that changes a rail respects its minimum on-time and spacing.
LEMMA WriteRespectsTimes ==
  ASSUME PowerInv, NEW t \in Thread, WriteReturns(t), NEW r \in Rail
  PROVE  /\ level[r] /\ ~level'[r] => levelAge[r] >= Rails[r].min_on
         /\ \A q \in Rail : r # q /\ ~level[r] /\ level'[r] /\ level[q]
              => levelAge[q] >= Rails[r].delay
<1>1. pc[t] = "write" /\ ReadyToWrite(t) /\ Head(todo[t]) \in Rail
  <2>1. pc[t] = "write"
    BY DEF WriteReturns
  <2>2. todo[t] # << >> /\ todo[t] \in Seq(Rail)
    BY <2>1 DEF PowerInv, TypeOK, Setting
  <2>3. QED
    BY <2>1, <2>2 DEF PowerInv
<1>2. PICK outcome \in Outcomes :
        level' = [level EXCEPT ![Head(todo[t])] =
                    IF outcome = "done" THEN Wanted(t, Head(todo[t]))
                    ELSE level[Head(todo[t])]]
  BY DEF WriteReturns
<1>3. level'[r] # level[r] => r = Head(todo[t]) /\ level'[r] = Wanted(t, r)
  BY <1>2 DEF PowerInv, TypeOK
<1>4. ASSUME level[r], ~level'[r] PROVE levelAge[r] >= Rails[r].min_on
  <2>1. r = Head(todo[t]) /\ ~Wanted(t, r)
    BY <1>3, <1>4
  <2>2. isOn[r] /\ sinceOn[r] >= Rails[r].min_on
    <3>1. isOn[r] # Wanted(t, r) /\ sinceOn[r] >= Rails[r].min_on
      BY <1>1, <2>1 DEF ReadyToWrite
    <3>2. isOn[r] \in BOOLEAN /\ Wanted(t, r) = FALSE
      BY <2>1 DEF PowerInv, TypeOK, Wanted
    <3>3. QED
      BY <3>1, <3>2
  <2>3. levelAge[r] >= sinceOn[r]
    BY <1>4, <2>2 DEF PowerInv
  <2>4. /\ levelAge[r] \in 0 .. LongTime /\ sinceOn[r] \in 0 .. LongTime
        /\ Rails[r].min_on \in 0 .. LongTime - 1 /\ LongTime \in Nat
    <3>1. Rails[r].min_on \in 0 .. LongTime - 1 /\ LongTime \in Nat
      BY PowerAssumption
    <3>2. QED
      BY <3>1 DEF PowerInv, TypeOK
  <2>5. QED
    BY <2>2, <2>3, <2>4
<1>5. ASSUME NEW q \in Rail, ~level[r], level'[r], level[q]
      PROVE  levelAge[q] >= Rails[r].delay
  BY <1>1, <1>3, <1>5 DEF ReadyToWrite
<1>6. QED
  BY <1>4, <1>5

\* The minimum on-time holds of the real output of every rail.
THEOREM MinOnTimeKept == Spec => MinOnTimeRespected
<1>1. ASSUME PowerInv, [Next]_vars
      PROVE  \A r \in Rail : level[r] /\ ~level'[r] => levelAge[r] >= Rails[r].min_on
  BY <1>1, OnlyWritesChangeOutputs, WriteRespectsTimes
<1>2. PowerInv /\ [Next]_vars =>
        [\A r \in Rail : level[r] /\ ~level'[r] => levelAge[r] >= Rails[r].min_on]_vars
  BY <1>1
<1>3. QED
  BY <1>2, PowerInvariant, PTL DEF Spec, MinOnTimeRespected

\* A rail comes on only when the others have been on for its sequence delay.
THEOREM RisingEdgesKeepApart == Spec => RisingEdgesSpaced
<1>1. ASSUME PowerInv, [Next]_vars
      PROVE  \A r, q \in Rail : r # q /\ ~level[r] /\ level'[r] /\ level[q]
               => levelAge[q] >= Rails[r].delay
  BY <1>1, OnlyWritesChangeOutputs, WriteRespectsTimes
<1>2. PowerInv /\ [Next]_vars =>
        [\A r, q \in Rail : r # q /\ ~level[r] /\ level'[r] /\ level[q]
           => levelAge[q] >= Rails[r].delay]_vars
  BY <1>1
<1>3. QED
  BY <1>2, PowerInvariant, PTL DEF Spec, RisingEdgesSpaced

-----------------------------------------------------------------------------
(* PWR_ALL_OFF                                                             *)

\* t holds the mutex for PWR_ALL_OFF.
SwitchesAllOff(t) == Holds(t) /\ cmd[t] = AllOff

Done(t) == 1 .. (Len(Rails) - Len(todo[t]))

\* What is left to do are the last rails, in order; of those done exactly the
\* failed ones are on, and ok says whether there are any.
Progress(t) ==
  /\ Len(todo[t]) <= Len(Rails)
  /\ \A i \in 1 .. Len(todo[t]) : todo[t][i] = Len(Rails) - Len(todo[t]) + i
  /\ failed[t] \subseteq Done(t)
  /\ \A r \in Done(t) : isOn[r] <=> r \in failed[t]
  /\ ok[t] <=> failed[t] = {}
  /\ pc[t] = "return" => Len(todo[t]) = 0

AllOffInv == \A t \in Thread : SwitchesAllOff(t) => Progress(t)

\* Nobody holds the mutex at the start.
LEMMA AllOffInit == Init => AllOffInv
BY DEF Init, AllOffInv, SwitchesAllOff, Holds

\* Only the thread that holds the mutex can disturb what another has done,
\* so that a step which leaves is_on alone concerns its own thread.
LEMMA OthersKeep ==
  ASSUME AllOffInv, NEW t \in Thread, UNCHANGED isOn,
         pc'[t] = pc[t], cmd'[t] = cmd[t], todo'[t] = todo[t], ok'[t] = ok[t],
         failed'[t] = failed[t]
  PROVE  SwitchesAllOff(t)' => Progress(t)'
BY DEF AllOffInv, SwitchesAllOff, Holds, Progress, Done

\* One rail done: it goes from the rest to the rails done.
LEMMA OneRailDone ==
  ASSUME PowerInv, NEW t \in Thread, Progress(t), todo[t] # << >>,
         NEW from, NEW result \in BOOLEAN, RailDone(t, from, result),
         \A r \in Rail : r # Head(todo[t]) => isOn'[r] = isOn[r],
         isOn'[Head(todo[t])] <=> ~result
  PROVE  Progress(t)'
<1>1. /\ todo[t] \in Seq(Rail) /\ Len(todo[t]) \in Nat \ {0} /\ Head(todo[t]) = todo[t][1]
      /\ Tail(todo[t]) \in Seq(Rail) /\ Len(Tail(todo[t])) = Len(todo[t]) - 1
      /\ \A i \in 1 .. (Len(todo[t]) - 1) : Tail(todo[t])[i] = todo[t][i + 1]
  <2>1. todo[t] \in Seq(Rail)
    BY DEF PowerInv, TypeOK
  <2>2. Len(todo[t]) \in Nat \ {0} /\ Head(todo[t]) = todo[t][1]
    BY <2>1
  <2>3. Tail(todo[t]) \in Seq(Rail) /\ Len(Tail(todo[t])) = Len(todo[t]) - 1
    BY <2>1
  <2>4. \A i \in 1 .. (Len(todo[t]) - 1) : Tail(todo[t])[i] = todo[t][i + 1]
    BY <2>1
  <2>5. QED
    BY <2>1, <2>2, <2>3, <2>4
<1>2. /\ pc'[t] = IF Len(todo[t]) = 1 THEN "return" ELSE "rail"
      /\ todo'[t] = Tail(todo[t])
      /\ ok'[t] = (ok[t] /\ result)
      /\ failed'[t] = IF result THEN failed[t] ELSE failed[t] \cup {Head(todo[t])}
  BY DEF RailDone, Goes, PowerInv, TypeOK
<1>3. Len(Rails) \in Nat /\ Rail = 1 .. Len(Rails)
  BY PowerAssumption
<1> DEFINE N == Len(Rails)
           k == Len(todo[t])
<1>4. k \in Nat \ {0} /\ k <= N /\ Head(todo[t]) = N - k + 1 /\ N \in Nat
  <2>1. Head(todo[t]) = N - k + 1
    <3>1. 1 \in 1 .. k /\ Head(todo[t]) = todo[t][1]
      BY <1>1
    <3>2. \A i \in 1 .. k : todo[t][i] = N - k + i
      BY DEF Progress
    <3>3. QED
      BY <3>1, <3>2
  <2>2. QED
    BY <1>1, <1>3, <2>1 DEF Progress
<1>5. Len(todo'[t]) = k - 1 /\ Done(t)' = 1 .. (N - k + 1) /\ Done(t) = 1 .. (N - k)
  <2>1. Len(todo'[t]) = k - 1
    BY <1>1, <1>2
  <2>2. N - (k - 1) = N - k + 1
    BY <1>4
  <2>3. QED
    BY <2>1, <2>2 DEF Done
<1>6. Done(t)' = Done(t) \cup {Head(todo[t])} /\ Head(todo[t]) \notin Done(t)
      /\ Done(t) \subseteq Rail
  <2>1. \A m \in Nat : 1 .. (m + 1) = (1 .. m) \cup {m + 1} /\ m + 1 \notin 1 .. m
    OBVIOUS
  <2>2. N - k \in Nat /\ N - k <= N
    BY <1>4
  <2>3. 1 .. (N - k) \subseteq 1 .. N
    BY <1>4, <2>2
  <2>4. QED
    BY <1>3, <1>4, <1>5, <2>1, <2>2, <2>3
<1>7. \A i \in 1 .. Len(todo'[t]) : todo'[t][i] = N - Len(todo'[t]) + i
  <2>1. ASSUME NEW i \in 1 .. (k - 1) PROVE todo'[t][i] = N - (k - 1) + i
    <3>1. todo'[t][i] = todo[t][i + 1] /\ i + 1 \in 1 .. k
      BY <1>1, <1>2
    <3>2. todo[t][i + 1] = N - k + (i + 1)
      BY <3>1 DEF Progress
    <3>3. QED
      BY <1>4, <3>1, <3>2
  <2>2. QED
    BY <1>5, <2>1
<1>8. failed'[t] \subseteq Done(t)'
  BY <1>2, <1>6 DEF Progress
<1>9. \A r \in Done(t)' : isOn'[r] <=> r \in failed'[t]
  <2>1. ASSUME NEW r \in Done(t) PROVE isOn'[r] <=> r \in failed'[t]
    <3>1. r # Head(todo[t]) /\ r \in Rail
      BY <1>6
    <3>2. isOn'[r] = isOn[r] /\ (isOn[r] <=> r \in failed[t])
      BY <3>1 DEF Progress
    <3>3. r \in failed'[t] <=> r \in failed[t]
      BY <1>2, <3>1
    <3>4. QED
      BY <3>2, <3>3
  <2>2. isOn'[Head(todo[t])] <=> Head(todo[t]) \in failed'[t]
    <3>1. Head(todo[t]) \notin failed[t]
      BY <1>6 DEF Progress
    <3>2. QED
      BY <1>2, <3>1
  <2>3. QED
    BY <1>6, <2>1, <2>2
<1>10. ok'[t] <=> failed'[t] = {}
  BY <1>2 DEF Progress
<1>11. pc'[t] = "return" => Len(todo'[t]) = 0
  BY <1>2, <1>4, <1>5
<1>12. Len(todo'[t]) <= N
  BY <1>4, <1>5
<1>13. QED
  BY <1>7, <1>8, <1>9, <1>10, <1>11, <1>12 DEF Progress

\* A step of set_rail() during PWR_ALL_OFF keeps the account.
LEMMA SetRailProgress ==
  ASSUME PowerInv, NEW t \in Thread, cmd[t] = AllOff, Progress(t), SetRail(t)
  PROVE  Progress(t)'
<1>1. todo[t] # << >> /\ Head(todo[t]) \in Rail
  <2>1. Setting(t)
    BY DEF SetRail, RailAlready, RailTooYoung, RailDelay, DelayOver, WriteFails,
           WriteReturns, Goes, Setting
  <2>2. todo[t] # << >> /\ todo[t] \in Seq(Rail)
    BY <2>1 DEF PowerInv, TypeOK
  <2>3. QED
    BY <2>2
<1> DEFINE r == Head(todo[t])
<1>2. Wanted(t, r) = FALSE
  BY DEF Wanted
<1>3. CASE RailAlready(t)
  <2>1. isOn' = isOn /\ isOn[r] = FALSE /\ RailDone(t, "rail", TRUE)
    BY <1>2, <1>3 DEF RailAlready, railVars
  <2>2. QED
    BY <1>1, <2>1, OneRailDone
<1>4. CASE RailTooYoung(t)
  <2>1. isOn' = isOn /\ isOn[r] /\ RailDone(t, "rail", FALSE)
    BY <1>4 DEF RailTooYoung, TooYoung, railVars
  <2>2. QED
    BY <1>1, <2>1, OneRailDone
<1>5. CASE WriteFails(t)
  <2>1. isOn' = isOn /\ RailDone(t, "write", FALSE) /\ pc[t] = "write"
    BY <1>5 DEF WriteFails, railVars
  <2>2. isOn[r]
    BY <1>1, <1>2, <2>1 DEF PowerInv, ReadyToWrite, TypeOK
  <2>3. QED
    BY <1>1, <2>1, <2>2, OneRailDone
<1>6. CASE WriteReturns(t)
  <2>1. isOn' = [isOn EXCEPT ![r] = FALSE] /\ RailDone(t, "write", TRUE)
    BY <1>2, <1>6 DEF WriteReturns
  <2>2. /\ \A q \in Rail : q # r => isOn'[q] = isOn[q]
        /\ isOn'[r] = FALSE
    BY <1>1, <2>1 DEF PowerInv, TypeOK
  <2>3. QED
    BY <1>1, <2>1, <2>2, OneRailDone
<1>7. CASE RailDelay(t) \/ DelayOver(t)
  <2>1. pc'[t] \in {"delay", "write"} /\ UNCHANGED <<isOn, cmd, todo, ok, failed>>
    BY <1>7 DEF RailDelay, DelayOver, Goes, railVars, PowerInv, TypeOK
  <2>2. QED
    BY <2>1 DEF Progress, Done
<1>8. QED
  BY <1>3, <1>4, <1>5, <1>6, <1>7 DEF SetRail

\* Taking the mutex for PWR_ALL_OFF begins a new account.
LEMMA LockProgress ==
  ASSUME PowerInv, NEW t \in Thread, LockAllOff(t)
  PROVE  Progress(t)'
<1>1. /\ todo'[t] = EachRail /\ ok'[t] = TRUE /\ failed'[t] = {}
      /\ pc'[t] = IF EachRail = << >> THEN "return" ELSE "rail"
  BY DEF LockAllOff, Locked, Goes, PowerInv, TypeOK
<1>2. /\ Len(Rails) \in Nat /\ Len(EachRail) = Len(Rails)
      /\ \A i \in 1 .. Len(Rails) : EachRail[i] = i
  BY PowerAssumption DEF EachRail
<1>3. EachRail = << >> => Len(EachRail) = 0
  OBVIOUS
<1>4. Done(t)' = {}
  BY <1>1, <1>2 DEF Done
<1>5. \A i \in 1 .. Len(todo'[t]) : todo'[t][i] = Len(Rails) - Len(todo'[t]) + i
  BY <1>1, <1>2
<1>6. pc'[t] = "return" => Len(todo'[t]) = 0
  BY <1>1, <1>3
<1>7. QED
  BY <1>1, <1>2, <1>4, <1>5, <1>6 DEF Progress

\* Every step keeps the account of every PWR_ALL_OFF under way.
LEMMA AllOffStep == PowerInv /\ AllOffInv /\ [Next]_vars => AllOffInv'
<1> SUFFICES ASSUME PowerInv, AllOffInv, [Next]_vars, NEW u \in Thread,
                    SwitchesAllOff(u)'
             PROVE  Progress(u)'
  BY DEF AllOffInv
<1> USE DEF SwitchesAllOff
<1>1. ASSUME NEW t \in Thread, LockAllOff(t) \/ LockOneRail(t) \/ LockUnknown(t)
      PROVE  Progress(u)'
  <2>1. ~Holds(u) /\ cmd' = cmd
    BY <1>1 DEF LockAllOff, LockOneRail, LockUnknown, Locked
  <2>2. t # u => pc'[u] = pc[u]
    BY <1>1 DEF LockAllOff, LockOneRail, LockUnknown, Locked, Goes, PowerInv, TypeOK
  <2>3. t = u
    BY <2>1, <2>2 DEF Holds
  <2>4. LockAllOff(u)
    BY <1>1, <2>1, <2>3 DEF LockOneRail, LockUnknown
  <2>5. QED
    BY <2>4, LockProgress
<1>2. ASSUME NEW t \in Thread, SetRail(t) PROVE Progress(u)'
  <2>1. Holds(t) /\ cmd' = cmd
    BY <1>2 DEF SetRail, RailAlready, RailTooYoung, RailDelay, DelayOver, WriteFails,
           WriteReturns, Goes, Holds
  <2>2. t # u => pc'[u] = pc[u]
    BY <1>2 DEF SetRail, RailAlready, RailTooYoung, RailDelay, DelayOver, WriteFails,
           WriteReturns, RailDone, Goes, PowerInv, TypeOK
  <2>3. t = u
    BY <2>1, <2>2, OtherDoesNotHold DEF Holds
  <2>4. Progress(u)
    BY <2>1, <2>3 DEF AllOffInv
  <2>5. QED
    BY <1>2, <2>1, <2>3, <2>4, SetRailProgress
<1>3. ASSUME NEW t \in Thread, NEW c, Call(t, c) PROVE Progress(u)'
  <2>1. t # u
    BY <1>3 DEF Call, Goes, Holds, PowerInv, TypeOK
  <2>2. /\ isOn' = isOn /\ pc'[u] = pc[u] /\ cmd'[u] = cmd[u] /\ todo'[u] = todo[u]
        /\ ok'[u] = ok[u] /\ failed'[u] = failed[u]
    BY <1>3, <2>1 DEF Call, Goes, railVars, PowerInv, TypeOK
  <2>3. QED
    BY <2>2, OthersKeep
<1>4. ASSUME NEW t \in Thread, Return(t) PROVE Progress(u)'
  <2>1. t # u
    BY <1>4 DEF Return, Goes, Holds, PowerInv, TypeOK
  <2>2. /\ isOn' = isOn /\ pc'[u] = pc[u] /\ cmd'[u] = cmd[u] /\ todo'[u] = todo[u]
        /\ ok'[u] = ok[u] /\ failed'[u] = failed[u]
    BY <1>4, <2>1 DEF Return, Goes, railVars, PowerInv, TypeOK
  <2>3. QED
    BY <2>2, OthersKeep
<1>5. CASE Tick \/ UNCHANGED vars
  BY <1>5, OthersKeep DEF Tick, vars, railVars, callVars
<1>6. CASE Restart
  BY <1>6 DEF Restart, Holds
<1>7. CASE PeerCommand \/ WorkerAllOff
  BY <1>3, <1>7 DEF PeerCommand, WorkerAllOff, Thread
<1>8. QED
  BY <1>1, <1>2, <1>4, <1>5, <1>6, <1>7 DEF Next, Step

LEMMA AllOffInvariant == Spec => [](PowerInv /\ AllOffInv)
BY PowerInvInit, PowerInvStep, AllOffInit, AllOffStep, PTL DEF Spec

\* What a finished account says.
LEMMA AllOffFinished ==
  ASSUME PowerInv, AllOffInv, NEW t \in Thread, pc[t] = "return", cmd[t] = AllOff
  PROVE  /\ ok[t] <=> \A r \in Rail : ~isOn[r]
         /\ \A r \in Rail : isOn[r] => r \in failed[t]
<1>1. Progress(t) /\ Len(todo[t]) = 0
  BY DEF AllOffInv, SwitchesAllOff, Holds, Progress
<1>2. Done(t) = Rail
  BY <1>1, PowerAssumption DEF Done
<1>3. QED
  BY <1>1, <1>2 DEF Progress

\* PWR_ALL_OFF returns true exactly when it left no rail on, for any number
\* of rails and any mixture of refusals and failures.
THEOREM AllOffTellsTruth == Spec => []AllOffResultIsTrue
<1>1. PowerInv /\ AllOffInv => AllOffResultIsTrue
  BY AllOffFinished DEF AllOffResultIsTrue
<1>2. QED
  BY <1>1, AllOffInvariant, PTL

\* A rail that PWR_ALL_OFF left on was tried and refused or failed.
THEOREM AllOffIsThorough == Spec => []AllOffTriesEveryRail
<1>1. PowerInv /\ AllOffInv => AllOffTriesEveryRail
  BY AllOffFinished DEF AllOffTriesEveryRail
<1>2. QED
  BY <1>1, AllOffInvariant, PTL
==============================================================================
