--------------------------- MODULE GpioPathProofs ---------------------------
(***************************************************************************)
(* TLAPS proofs about GpioPath, for any pins, any number of commands and   *)
(* retries, and any word size: the order of commands, the PWM, the events. *)
(***************************************************************************)
EXTENDS GpioPath, TLAPS

PwmArg == [period : Periods, mil : Duties, on : BOOLEAN]
PinRequest == [kind : {"do", "valve"}, n : Nat, arg : Levels]
Request == PinRequest \cup [kind : {"pwm"}, n : Nat, arg : PwmArg]

\* What the queues hold.
Queues ==
    /\ given \in Nat
    /\ requests \in Seq(Request) /\ down \in Seq(Request) /\ waiting \in Seq(Request)
    /\ Len(waiting) <= 1

\* A command on the wire is no younger than the one whose answer is awaited,
\* and that one no younger than the requests.
Ordered ==
    /\ \A i, j \in DOMAIN down : i < j => down[i].n <= down[j].n
    /\ \A i, j \in DOMAIN requests : i < j => requests[i].n <= requests[j].n
    /\ \A i \in DOMAIN down, j \in DOMAIN waiting : down[i].n <= waiting[j].n
    /\ \A i \in DOMAIN down, j \in DOMAIN requests : down[i].n <= requests[j].n
    /\ \A i \in DOMAIN waiting, j \in DOMAIN requests : waiting[i].n <= requests[j].n
    /\ \A i \in DOMAIN down : down[i].n <= given
    /\ \A i \in DOMAIN waiting : waiting[i].n <= given
    /\ \A i \in DOMAIN requests : requests[i].n <= given

\* No command on its way to the daemon is older than number x.
Oldest(x) ==
    /\ x <= given
    /\ \A i \in DOMAIN down : x <= down[i].n
    /\ \A i \in DOMAIN waiting : x <= waiting[i].n
    /\ \A i \in DOMAIN requests : x <= requests[i].n

\* What arrived is older than what is on its way, and what the worker did
\* older than what it has to do.
Applied ==
    /\ byLink \in [Pins -> Nat] /\ byTask \in [Pins -> Nat] /\ tasks \in Seq(PinRequest)
    /\ \A p \in Pins : Oldest(byLink[p]) /\ Oldest(byTask[p])
    /\ \A i \in DOMAIN tasks : Oldest(tasks[i].n)
    /\ \A i, j \in DOMAIN tasks : i < j => tasks[i].n <= tasks[j].n
    /\ \A p \in Pins, i \in DOMAIN tasks : byTask[p] <= tasks[i].n

OrderInv == Queues /\ Ordered /\ Applied

-----------------------------------------------------------------------------
(* Sequences.                                                              *)

LEMMA AppendFacts ==
    ASSUME NEW S, NEW s \in Seq(S), NEW e \in S
    PROVE  /\ Append(s, e) \in Seq(S)
           /\ DOMAIN Append(s, e) = 1..(Len(s) + 1) /\ DOMAIN s = 1..Len(s)
           /\ Len(s) \in Nat
           /\ \A i \in 1..Len(s) : Append(s, e)[i] = s[i]
           /\ Append(s, e)[Len(s) + 1] = e
OBVIOUS

LEMMA TailFacts ==
    ASSUME NEW S, NEW s \in Seq(S), s # <<>>
    PROVE  /\ Tail(s) \in Seq(S) /\ Head(s) = s[1] /\ Head(s) \in S
           /\ Len(s) \in Nat \ {0}
           /\ DOMAIN Tail(s) = 1..(Len(s) - 1) /\ DOMAIN s = 1..Len(s)
           /\ \A i \in 1..(Len(s) - 1) : Tail(s)[i] = s[i + 1]
OBVIOUS

LEMMA OneElement ==
    ASSUME NEW S, NEW s \in Seq(S), s # <<>>, Len(s) <= 1
    PROVE  Len(s) = 1 /\ DOMAIN s = {1} /\ s[1] \in S
<1>1. Len(s) \in Nat /\ Len(s) # 0 /\ DOMAIN s = 1..Len(s)
  OBVIOUS
<1>2. Len(s) = 1 /\ DOMAIN s = {1}
  BY <1>1
<1>3. QED
  BY <1>2

LEMMA PrefixFacts ==
    ASSUME NEW S, NEW s \in Seq(S), NEW n \in 0..Len(s)
    PROVE  /\ SubSeq(s, 1, n) \in Seq(S)
           /\ DOMAIN SubSeq(s, 1, n) = 1..n /\ DOMAIN s = 1..Len(s) /\ Len(s) \in Nat
           /\ \A i \in 1..n : SubSeq(s, 1, n)[i] = s[i]
OBVIOUS

-----------------------------------------------------------------------------
(* The order of commands.                                                  *)

LEMMA OrderInit == PathInit => OrderInv
<1> SUFFICES ASSUME PathInit PROVE OrderInv
  OBVIOUS
<1> USE DEF PathInit, None
<1>1. Queues
  BY DEF Queues
<1>2. Ordered /\ Applied
  BY DEF Ordered, Applied, Oldest
<1>3. QED
  BY <1>1, <1>2 DEF OrderInv

\* Commands have numbers.
LEMMA Numbers ==
    ASSUME Queues
    PROVE  /\ \A i \in DOMAIN down : down[i] \in Request /\ down[i].n \in Nat
           /\ \A i \in DOMAIN waiting : waiting[i] \in Request /\ waiting[i].n \in Nat
           /\ \A i \in DOMAIN requests : requests[i] \in Request /\ requests[i].n \in Nat
<1>1. \A r \in Request : r.n \in Nat
  BY DEF Request, PinRequest
<1>2. QED
  BY <1>1 DEF Queues

LEMMA TaskNumbers ==
    ASSUME Applied
    PROVE  \A i \in DOMAIN tasks : tasks[i] \in PinRequest /\ tasks[i].n \in Nat
<1>1. \A r \in PinRequest : r.n \in Nat
  BY DEF PinRequest
<1>2. QED
  BY <1>1 DEF Applied

LEMMA IsRequest ==
    ASSUME NEW k \in {"do", "valve", "pwm"}, NEW n \in Nat, NEW a,
           a \in IF k = "pwm" THEN PwmArg ELSE Levels
    PROVE  /\ [kind |-> k, n |-> n, arg |-> a] \in Request
           /\ [kind |-> k, n |-> n, arg |-> a].n = n
BY DEF Request, PinRequest

\* What arrived stays older than what is on its way when a step brings
\* nothing older onto the way and lets numbers arrive that are no younger.
LEMMA ArrivedIsOldest ==
    ASSUME OrderInv, \A x \in Nat : Oldest(x) => Oldest(x)',
           NEW New \in SUBSET Nat, \A x \in New : Oldest(x)',
           \A p \in Pins : byLink'[p] = byLink[p] \/ byLink'[p] \in New,
           \A p \in Pins : \/ byTask'[p] = byTask[p]
                           \/ \E k \in DOMAIN tasks : byTask'[p] = tasks[k].n,
           \A i \in DOMAIN tasks' : \/ tasks'[i].n \in New
                                    \/ \E k \in DOMAIN tasks : tasks'[i] = tasks[k]
    PROVE  /\ \A p \in Pins : Oldest(byLink[p])' /\ Oldest(byTask[p])'
           /\ \A i \in DOMAIN tasks' : Oldest(tasks[i].n)'
<1> DEFINE Old == {x \in Nat : Oldest(x)'}
<1>1. \A x : x \in Old => x <= given' /\ (\A i \in DOMAIN down' : x <= down'[i].n)
                          /\ (\A i \in DOMAIN waiting' : x <= waiting'[i].n)
                          /\ (\A i \in DOMAIN requests' : x <= requests'[i].n)
  BY DEF Oldest
<1>2. New \subseteq Old
  OBVIOUS
<1>3. \A i \in DOMAIN tasks : tasks[i].n \in Old
  <2>1. \A i \in DOMAIN tasks : tasks[i].n \in Nat /\ Oldest(tasks[i].n)
    BY TaskNumbers DEF OrderInv, Applied
  <2>2. QED
    BY <2>1
<1>4. \A p \in Pins : byLink[p] \in Old /\ byTask[p] \in Old
  BY DEF OrderInv, Applied
<1>5. \A p \in Pins : byLink'[p] \in Old /\ byTask'[p] \in Old
  BY <1>2, <1>3, <1>4
<1>6. \A i \in DOMAIN tasks' : tasks'[i].n \in Old
  BY <1>2, <1>3
<1> HIDE DEF Old
<1>7. \A p \in Pins : Oldest(byLink[p])' /\ Oldest(byTask[p])'
  BY <1>1, <1>5 DEF Oldest
<1>8. \A i \in DOMAIN tasks' : Oldest(tasks[i].n)'
  BY <1>1, <1>6 DEF Oldest
<1>9. QED
  BY <1>7, <1>8

LEMMA ArrivedStays ==
    ASSUME OrderInv, UNCHANGED <<tasks, byLink, byTask>>,
           \A x \in Nat : Oldest(x) => Oldest(x)'
    PROVE  Applied'
<1>1. /\ \A p \in Pins : Oldest(byLink[p])' /\ Oldest(byTask[p])'
      /\ \A i \in DOMAIN tasks' : Oldest(tasks[i].n)'
  <2>1. /\ \A p \in Pins : byLink'[p] = byLink[p] /\ byTask'[p] = byTask[p]
        /\ \A i \in DOMAIN tasks' : \E k \in DOMAIN tasks : tasks'[i] = tasks[k]
    OBVIOUS
  <2>2. {} \in SUBSET Nat /\ \A x \in {} : Oldest(x)'
    OBVIOUS
  <2>3. QED
    BY <2>1, <2>2, ArrivedIsOldest
<1>2. QED
  BY <1>1 DEF OrderInv, Applied

\* A new request is younger than everything before it.
LEMMA NewRequest ==
    ASSUME OrderInv, NEW e \in Request, e.n = given + 1, given' = given + 1,
           requests' = Append(requests, e),
           UNCHANGED <<down, waiting, tasks, byLink, byTask>>
    PROVE  OrderInv'
<1> USE DEF OrderInv
<1>1. /\ requests' \in Seq(Request) /\ DOMAIN requests = 1..Len(requests)
      /\ Len(requests) \in Nat
      /\ DOMAIN requests' = 1..(Len(requests) + 1)
      /\ \A i \in 1..Len(requests) : requests'[i] = requests[i]
      /\ requests'[Len(requests) + 1] = e
  BY AppendFacts DEF Queues
<1>2. Queues'
  BY <1>1 DEF Queues
<1>3. \A i \in DOMAIN requests' : requests'[i].n = given + 1 \/
          (i \in DOMAIN requests /\ requests'[i] = requests[i])
  BY <1>1
<1>4. Ordered'
  <2>1. \A i, j \in DOMAIN requests' : i < j => i \in DOMAIN requests
    BY <1>1
  <2>2. \A i, j \in DOMAIN requests' : i < j => requests'[i].n <= requests'[j].n
    BY <1>1, <1>3, <2>1, Numbers DEF Ordered, Queues
  <2>3. /\ \A i \in DOMAIN down, j \in DOMAIN requests' : down[i].n <= requests'[j].n
        /\ \A i \in DOMAIN waiting, j \in DOMAIN requests' : waiting[i].n <= requests'[j].n
    BY <1>3, Numbers DEF Ordered, Queues
  <2>4. /\ \A i \in DOMAIN down : down[i].n <= given'
        /\ \A i \in DOMAIN waiting : waiting[i].n <= given'
        /\ \A i \in DOMAIN requests' : requests'[i].n <= given'
    BY <1>3, Numbers DEF Ordered, Queues
  <2>5. QED
    BY <2>2, <2>3, <2>4 DEF Ordered
<1>5. \A x \in Nat : Oldest(x) => Oldest(x)'
  BY <1>3 DEF Oldest, Queues
<1>6. Applied'
  BY <1>5, ArrivedStays
<1>7. QED
  BY <1>2, <1>4, <1>6

\* A served request leaves its queue; on a link that is up it is sent.
LEMMA Served ==
    ASSUME OrderInv, Serve
    PROVE  OrderInv'
<1> USE DEF OrderInv
<1>1. /\ requests' \in Seq(Request) /\ Head(requests) = requests[1]
      /\ Len(requests) \in Nat \ {0}
      /\ DOMAIN requests' = 1..(Len(requests) - 1) /\ DOMAIN requests = 1..Len(requests)
      /\ \A i \in 1..(Len(requests) - 1) : requests'[i] = requests[i + 1]
  BY TailFacts DEF Queues, Serve
<1>2. UNCHANGED <<given, tasks, byLink, byTask>> /\ waiting = <<>>
  BY DEF Serve, None, hist, pinHist, daemon
<1>3. /\ \A i \in DOMAIN requests' : i + 1 \in DOMAIN requests /\ 1 < i + 1
                                     /\ requests'[i] = requests[i + 1]
      /\ 1 \in DOMAIN requests
  BY <1>1
<1>4. /\ \A i, j \in DOMAIN requests' : i < j => requests'[i].n <= requests'[j].n
      /\ \A i \in DOMAIN requests' : requests'[i].n <= given'
      /\ \A i \in DOMAIN requests' : requests[1].n <= requests'[i].n
  BY <1>1, <1>2, <1>3 DEF Ordered
<1>5. CASE up
  <2>1. waiting' = <<requests[1]>> /\ down' = Append(down, requests[1])
    BY <1>1, <1>5 DEF Serve
  <2>2. requests[1] \in Request
    BY <1>3, Numbers
  <2>3. /\ down' \in Seq(Request) /\ DOMAIN down = 1..Len(down) /\ Len(down) \in Nat
        /\ DOMAIN down' = 1..(Len(down) + 1)
        /\ \A i \in 1..Len(down) : down'[i] = down[i]
        /\ down'[Len(down) + 1] = requests[1]
    BY <2>1, <2>2, AppendFacts DEF Queues
  <2>4. waiting' \in Seq(Request) /\ Len(waiting') = 1 /\ DOMAIN waiting' = {1}
        /\ waiting'[1] = requests[1]
    BY <2>1, <2>2
  <2>5. \A i \in DOMAIN down' : \/ i = Len(down) + 1 /\ down'[i] = requests[1]
                                \/ i \in DOMAIN down /\ down'[i] = down[i]
    BY <2>3
  <2>6. Queues'
    BY <1>1, <1>2, <2>3, <2>4 DEF Queues
  <2>7. \A i \in DOMAIN down' : down'[i].n <= requests[1].n
    BY <1>3, <2>5, Numbers DEF Ordered
  <2>8. \A i, j \in DOMAIN down' : i < j => down'[i].n <= down'[j].n
    <3>1. \A i, j \in DOMAIN down' : i < j => i \in DOMAIN down
      BY <2>3
    <3>2. QED
      BY <2>5, <2>7, <3>1 DEF Ordered
  <2>9. Ordered'
    <3>1. requests[1].n \in Nat /\ requests[1].n <= given /\ given \in Nat
      BY <1>3, Numbers DEF Ordered, Queues
    <3>2. \A i \in DOMAIN down' : down'[i].n \in Nat
      BY <2>6, Numbers, <2>5, <1>3
    <3>3. \A i \in DOMAIN requests' : requests'[i].n \in Nat
      BY <1>3, Numbers
    <3>4. QED
      BY <1>2, <1>4, <2>4, <2>7, <2>8, <3>1, <3>2, <3>3 DEF Ordered
  <2>10. \A x \in Nat : Oldest(x) => Oldest(x)'
    BY <1>2, <1>3, <2>4, <2>5 DEF Oldest
  <2>11. Applied'
    BY <1>2, <2>10, ArrivedStays
  <2>12. QED
    BY <2>6, <2>9, <2>11
<1>6. CASE ~up
  <2>1. waiting' = waiting /\ down' = down
    BY <1>6 DEF Serve
  <2>2. Queues'
    BY <1>1, <1>2, <2>1 DEF Queues
  <2>3. Ordered'
    BY <1>2, <1>3, <1>4, <2>1 DEF Ordered
  <2>4. \A x \in Nat : Oldest(x) => Oldest(x)'
    BY <1>2, <1>3, <2>1 DEF Oldest
  <2>5. Applied'
    BY <1>2, <2>4, ArrivedStays
  <2>6. QED
    BY <2>2, <2>3, <2>5
<1>7. QED
  BY <1>5, <1>6

\* A repeated command is no older than what is on the wire.
LEMMA Repeated ==
    ASSUME OrderInv, Retry
    PROVE  OrderInv'
<1> USE DEF OrderInv
<1>1. /\ Len(waiting) = 1 /\ DOMAIN waiting = {1} /\ waiting[1] \in Request
      /\ UNCHANGED <<given, tasks, byLink, byTask, requests, waiting>>
      /\ down' = Append(down, waiting[1])
  <2>1. waiting # <<>> /\ UNCHANGED <<given, tasks, byLink, byTask, requests, waiting>>
        /\ down' = Append(down, waiting[1])
    BY DEF Retry, None, hist, pinHist, daemon, Resent
  <2>2. Len(waiting) = 1 /\ DOMAIN waiting = {1} /\ waiting[1] \in Request
    BY <2>1, OneElement DEF Queues
  <2>3. QED
    BY <2>1, <2>2
<1>2. /\ down' \in Seq(Request) /\ DOMAIN down = 1..Len(down) /\ Len(down) \in Nat
      /\ DOMAIN down' = 1..(Len(down) + 1)
      /\ \A i \in 1..Len(down) : down'[i] = down[i]
      /\ down'[Len(down) + 1] = waiting[1]
  BY <1>1, AppendFacts DEF Queues
<1>3. \A i \in DOMAIN down' : \/ i = Len(down) + 1 /\ down'[i] = waiting[1]
                              \/ i \in DOMAIN down /\ down'[i] = down[i]
  BY <1>2
<1>4. Queues'
  BY <1>1, <1>2 DEF Queues
<1>5. waiting[1].n \in Nat /\ \A i \in DOMAIN down' : down'[i].n <= waiting[1].n
  BY <1>1, <1>3, Numbers DEF Ordered
<1>6. \A i, j \in DOMAIN down' : i < j => down'[i].n <= down'[j].n
  <2>1. \A i, j \in DOMAIN down' : i < j => i \in DOMAIN down
    BY <1>2
  <2>2. ASSUME NEW i \in DOMAIN down', NEW j \in DOMAIN down', i < j
        PROVE  down'[i].n <= down'[j].n
    <3>1. i \in DOMAIN down /\ down'[i] = down[i]
      BY <1>2, <2>1, <2>2
    <3>2. CASE down'[j] = waiting[1]
      BY <1>5, <3>2
    <3>3. CASE j \in DOMAIN down /\ down'[j] = down[j]
      BY <2>2, <3>1, <3>3 DEF Ordered
    <3>4. QED
      BY <1>3, <3>2, <3>3
  <2>3. QED
    BY <2>2
<1>7. Ordered'
  BY <1>1, <1>3, <1>5, <1>6 DEF Ordered
<1>8. \A x \in Nat : Oldest(x) => Oldest(x)'
  BY <1>1, <1>3 DEF Oldest
<1>9. Applied'
  BY <1>1, <1>8, ArrivedStays
<1>10. QED
  BY <1>4, <1>7, <1>9

\* Losing the end of what is on the wire keeps the order.
LEMMA Broken ==
    ASSUME OrderInv, LinkBreaks
    PROVE  OrderInv'
<1> USE DEF OrderInv
<1>1. PICK n \in 0..Len(down) : down' = SubSeq(down, 1, n)
  BY DEF LinkBreaks
<1>2. /\ down' \in Seq(Request) /\ DOMAIN down' \subseteq DOMAIN down
      /\ \A i \in DOMAIN down' : down'[i] = down[i]
  BY <1>1, PrefixFacts DEF Queues
<1>3. UNCHANGED <<given, tasks, byLink, byTask, requests, waiting>>
  BY DEF LinkBreaks, driver, hist, pinHist, daemon
<1>4. Queues' /\ Ordered'
  BY <1>2, <1>3 DEF Queues, Ordered
<1>5. \A x \in Nat : Oldest(x) => Oldest(x)'
  BY <1>2, <1>3 DEF Oldest
<1>6. Applied'
  BY <1>3, <1>5, ArrivedStays
<1>7. QED
  BY <1>4, <1>6

\* The daemon takes the oldest command from the wire: what arrived before is
\* older, all that is left on the way is younger.
LEMMA Taken ==
    ASSUME OrderInv, down # <<>>, down' = Tail(down), UNCHANGED <<given, requests, waiting>>
    PROVE  /\ Queues' /\ Ordered'
           /\ Head(down) \in Request /\ Head(down).n \in Nat
           /\ \A x \in Nat : Oldest(x) => Oldest(x)' /\ x <= Head(down).n
           /\ \A x \in {Head(down).n} : Oldest(x)'
<1> USE DEF OrderInv
<1>1. /\ down' \in Seq(Request) /\ Head(down) = down[1] /\ Len(down) \in Nat \ {0}
      /\ DOMAIN down' = 1..(Len(down) - 1) /\ DOMAIN down = 1..Len(down)
      /\ \A i \in 1..(Len(down) - 1) : down'[i] = down[i + 1]
  BY TailFacts DEF Queues
<1>2. /\ \A i \in DOMAIN down' : i + 1 \in DOMAIN down /\ 1 < i + 1 /\ down'[i] = down[i + 1]
      /\ 1 \in DOMAIN down
  BY <1>1
<1>3. Queues'
  BY <1>1 DEF Queues
<1>4. Ordered'
  BY <1>1, <1>2 DEF Ordered
<1>5. Head(down) \in Request /\ Head(down).n \in Nat
  BY <1>1, <1>2, Numbers
<1>6. \A x \in Nat : Oldest(x) => Oldest(x)' /\ x <= Head(down).n
  BY <1>1, <1>2 DEF Oldest
<1>7. ASSUME NEW x \in {Head(down).n} PROVE Oldest(x)'
  <2>1. /\ x <= given /\ \A i \in DOMAIN down' : x <= down'[i].n
        /\ \A i \in DOMAIN waiting : x <= waiting[i].n
        /\ \A i \in DOMAIN requests : x <= requests[i].n
    BY <1>1, <1>2 DEF Ordered
  <2>2. QED
    BY <2>1 DEF Oldest
<1>8. QED
  BY <1>3, <1>4, <1>5, <1>6, <1>7

\* A SetGpio that is carried out is older than nothing that arrived before.
LEMMA LinkSets ==
    ASSUME OrderInv, ApplyDo
    PROVE  /\ OrderInv' /\ UNCHANGED byTask
           /\ \A p \in Pins : \/ byLink'[p] >= byLink[p] /\ byLink'[p] >= byTask[p]
                              \/ byLink'[p] = byLink[p]
<1> DEFINE n == Head(down).n
<1>1. /\ down # <<>> /\ down' = Tail(down)
      /\ UNCHANGED <<given, requests, waiting, tasks, byTask>>
  BY DEF ApplyDo, driver
<1>2. /\ Queues' /\ Ordered' /\ n \in Nat
      /\ \A x \in Nat : Oldest(x) => Oldest(x)' /\ x <= n
      /\ \A x \in {n} : Oldest(x)'
  BY <1>1, Taken
<1>3. PICK ok : byLink' = Numbered(byLink, ok, n)
  BY DEF ApplyDo
<1>4. /\ byLink' \in [Pins -> Nat]
      /\ \A p \in Pins : byLink'[p] = byLink[p] \/ byLink'[p] = n
  BY <1>2, <1>3 DEF Numbered, OrderInv, Applied
<1> HIDE DEF n
<1>5. /\ \A p \in Pins : Oldest(byLink[p])' /\ Oldest(byTask[p])'
      /\ \A i \in DOMAIN tasks' : Oldest(tasks[i].n)'
  <2>1. {n} \in SUBSET Nat
    BY <1>2
  <2>2. /\ \A p \in Pins : byLink'[p] = byLink[p] \/ byLink'[p] \in {n}
        /\ \A p \in Pins : byTask'[p] = byTask[p]
        /\ \A i \in DOMAIN tasks' : \E k \in DOMAIN tasks : tasks'[i] = tasks[k]
    BY <1>1, <1>4
  <2>3. QED
    BY <1>2, <2>1, <2>2, ArrivedIsOldest
<1>6. Applied'
  BY <1>1, <1>4, <1>5 DEF OrderInv, Applied
<1>7. \A p \in Pins : byLink[p] <= n /\ byTask[p] <= n /\ byLink[p] \in Nat /\ byTask[p] \in Nat
  BY <1>2 DEF OrderInv, Applied
<1>8. QED
  BY <1>1, <1>2, <1>4, <1>6, <1>7 DEF OrderInv

\* A valve task that is queued is younger than those the worker did or has.
LEMMA ValveQueued ==
    ASSUME OrderInv, QueueValve
    PROVE  OrderInv' /\ UNCHANGED <<byLink, byTask>>
<1> DEFINE e == Head(down)
<1>1. /\ down # <<>> /\ e.kind = "valve" /\ down' = Tail(down)
      /\ UNCHANGED <<given, requests, waiting, byLink, byTask>>
      /\ tasks' = tasks \/ tasks' = Append(tasks, e)
  BY DEF QueueValve, driver, hist, pinHist
<1>2. /\ Queues' /\ Ordered' /\ e \in Request /\ e.n \in Nat
      /\ \A x \in Nat : Oldest(x) => Oldest(x)' /\ x <= e.n
      /\ \A x \in {e.n} : Oldest(x)'
  BY <1>1, Taken
<1>3. CASE tasks' = tasks
  <2>1. Applied'
    BY <1>1, <1>2, <1>3, ArrivedStays
  <2>2. QED
    BY <1>1, <1>2, <2>1 DEF OrderInv
<1>4. CASE tasks' = Append(tasks, e)
  <2>1. e \in PinRequest
    BY <1>1, <1>2 DEF Request
  <2> HIDE DEF e
  <2>2. tasks \in Seq(PinRequest)
    BY DEF OrderInv, Applied
  <2>3. /\ tasks' \in Seq(PinRequest) /\ Len(tasks) \in Nat
        /\ DOMAIN tasks' = 1..(Len(tasks) + 1) /\ DOMAIN tasks = 1..Len(tasks)
        /\ \A i \in 1..Len(tasks) : tasks'[i] = tasks[i]
        /\ tasks'[Len(tasks) + 1] = e
    BY <1>4, <2>1, <2>2, AppendFacts
  <2>4. \A i \in DOMAIN tasks' : \/ i = Len(tasks) + 1 /\ tasks'[i] = e
                                 \/ i \in DOMAIN tasks /\ tasks'[i] = tasks[i]
    BY <2>3
  <2>5. \A i \in DOMAIN tasks : tasks[i].n \in Nat /\ tasks[i].n <= e.n
    BY <1>2, TaskNumbers DEF OrderInv, Applied
  <2>6. \A p \in Pins : byTask[p] <= e.n
    BY <1>2 DEF OrderInv, Applied
  <2>7. /\ \A p \in Pins : Oldest(byLink[p])' /\ Oldest(byTask[p])'
        /\ \A i \in DOMAIN tasks' : Oldest(tasks[i].n)'
    <3>1. {e.n} \in SUBSET Nat
      BY <1>2
    <3>2. /\ \A p \in Pins : byLink'[p] = byLink[p] /\ byTask'[p] = byTask[p]
          /\ \A i \in DOMAIN tasks' : \/ tasks'[i].n \in {e.n}
                                      \/ \E k \in DOMAIN tasks : tasks'[i] = tasks[k]
      BY <1>1, <2>4
    <3>3. QED
      BY <1>2, <3>1, <3>2, ArrivedIsOldest
  <2>8. \A i, j \in DOMAIN tasks' : i < j => tasks'[i].n <= tasks'[j].n
    <3>1. ASSUME NEW i \in DOMAIN tasks', NEW j \in DOMAIN tasks', i < j
          PROVE  tasks'[i].n <= tasks'[j].n
      <4>1. i \in DOMAIN tasks /\ tasks'[i] = tasks[i]
        BY <2>3, <3>1
      <4>2. CASE j \in DOMAIN tasks /\ tasks'[j] = tasks[j]
        BY <3>1, <4>1, <4>2 DEF OrderInv, Applied
      <4>3. CASE tasks'[j] = e
        BY <2>5, <4>1, <4>3
      <4>4. QED
        BY <2>4, <4>2, <4>3
    <3>2. QED
      BY <3>1
  <2>9. \A p \in Pins, i \in DOMAIN tasks' : byTask'[p] <= tasks'[i].n
    BY <1>1, <2>4, <2>6 DEF OrderInv, Applied
  <2>10. Applied'
    BY <1>1, <2>3, <2>7, <2>8, <2>9 DEF OrderInv, Applied
  <2>11. QED
    BY <1>1, <1>2, <2>10 DEF OrderInv
<1>5. QED
  BY <1>1, <1>3, <1>4

\* The task the worker executes is younger than those it did before.
LEMMA ValveDone ==
    ASSUME OrderInv, DoValve
    PROVE  OrderInv' /\ UNCHANGED byLink /\ \A p \in Pins : byTask'[p] >= byTask[p]
<1> DEFINE n == Head(tasks).n
<1>1. /\ tasks # <<>> /\ tasks' = Tail(tasks)
      /\ UNCHANGED <<given, requests, waiting, down, byLink>>
  BY DEF DoValve, driver, link
<1>2. /\ tasks' \in Seq(PinRequest) /\ Head(tasks) = tasks[1] /\ Len(tasks) \in Nat \ {0}
      /\ DOMAIN tasks' = 1..(Len(tasks) - 1) /\ DOMAIN tasks = 1..Len(tasks)
      /\ \A i \in 1..(Len(tasks) - 1) : tasks'[i] = tasks[i + 1]
  BY <1>1, TailFacts DEF OrderInv, Applied
<1>3. /\ \A i \in DOMAIN tasks' : i + 1 \in DOMAIN tasks /\ 1 < i + 1 /\ tasks'[i] = tasks[i + 1]
      /\ 1 \in DOMAIN tasks /\ n = tasks[1].n
  BY <1>2
<1>4. n \in Nat
  BY <1>3, TaskNumbers DEF OrderInv, Applied
<1>5. PICK ok : byTask' = Numbered(byTask, ok, n)
  BY DEF DoValve
<1>6. /\ byTask' \in [Pins -> Nat]
      /\ \A p \in Pins : byTask'[p] = byTask[p] \/ byTask'[p] = n
  BY <1>4, <1>5 DEF Numbered, OrderInv, Applied
<1> HIDE DEF n
<1>7. \A p \in Pins : byTask[p] <= n /\ byTask[p] \in Nat
  BY <1>3 DEF OrderInv, Applied
<1>8. /\ \A p \in Pins : Oldest(byLink[p])' /\ Oldest(byTask[p])'
      /\ \A i \in DOMAIN tasks' : Oldest(tasks[i].n)'
  <2>1. \A x \in Nat : Oldest(x) => Oldest(x)'
    BY <1>1 DEF Oldest
  <2>2. \A p \in Pins : \/ byTask'[p] = byTask[p]
                        \/ \E k \in DOMAIN tasks : byTask'[p] = tasks[k].n
    BY <1>3, <1>6
  <2>3. \A i \in DOMAIN tasks' : \E k \in DOMAIN tasks : tasks'[i] = tasks[k]
    BY <1>3
  <2>4. /\ \A p \in Pins : byLink'[p] = byLink[p]
        /\ {} \in SUBSET Nat /\ \A x \in {} : Oldest(x)'
    BY <1>1
  <2>5. QED
    BY <2>1, <2>2, <2>3, <2>4, ArrivedIsOldest
<1>9. \A i, j \in DOMAIN tasks' : i < j => tasks'[i].n <= tasks'[j].n
  BY <1>2, <1>3 DEF OrderInv, Applied
<1>10. \A p \in Pins, i \in DOMAIN tasks' : byTask'[p] <= tasks'[i].n
  <2>1. \A i \in DOMAIN tasks' : n <= tasks'[i].n
    BY <1>3 DEF OrderInv, Applied
  <2>2. \A p \in Pins, i \in DOMAIN tasks' : byTask[p] <= tasks'[i].n
    BY <1>3 DEF OrderInv, Applied
  <2>3. QED
    BY <1>6, <2>1, <2>2
<1>11. Applied'
  BY <1>1, <1>2, <1>6, <1>8, <1>9, <1>10 DEF OrderInv, Applied
<1>12. Queues' /\ Ordered'
  BY <1>1 DEF OrderInv, Queues, Ordered
<1>13. \A p \in Pins : byTask'[p] >= byTask[p]
  BY <1>4, <1>6, <1>7
<1>14. QED
  BY <1>1, <1>11, <1>12, <1>13 DEF OrderInv

InOrder ==
    \A p \in Pins : /\ byLink'[p] >= byLink[p] /\ byTask'[p] >= byTask[p]
                    /\ byLink'[p] # byLink[p] => byLink'[p] >= byTask[p]

LEMMA StandStill ==
    ASSUME OrderInv, UNCHANGED <<byLink, byTask>>
    PROVE  InOrder
<1>1. \A p \in Pins : byLink[p] \in Nat /\ byTask[p] \in Nat
  BY DEF OrderInv, Applied
<1>2. QED
  BY <1>1 DEF InOrder

\* Every step keeps the order, and the order makes the property.
LEMMA OrderStep ==
    ASSUME OrderInv, [PathNext]_pathVars
    PROVE  OrderInv' /\ InOrder
<1> USE DEF daemon, hist, pinHist
<1>1. ASSUME UNCHANGED <<given, requests, down, waiting, tasks, byLink, byTask>>
      PROVE  OrderInv' /\ InOrder
  <2>1. Queues' /\ Ordered'
    BY <1>1 DEF OrderInv, Queues, Ordered
  <2>2. \A x \in Nat : Oldest(x) => Oldest(x)'
    BY <1>1 DEF Oldest
  <2>3. Applied'
    BY <1>1, <2>2, ArrivedStays
  <2>4. QED
    BY <1>1, <2>1, <2>3, StandStill DEF OrderInv
<1>2. given \in Nat
  BY DEF OrderInv, Queues
<1>3. ASSUME NEW e \in Request, e.n = given + 1, given' = given + 1,
             requests' = Append(requests, e) \/ requests' = requests,
             UNCHANGED <<down, waiting, tasks, byLink, byTask>>
      PROVE  OrderInv' /\ InOrder
  <2>1. CASE requests' = Append(requests, e)
    BY <1>3, <2>1, NewRequest, StandStill
  <2>2. CASE requests' = requests
    <3>1. Queues'
      BY <1>2, <1>3, <2>2 DEF OrderInv, Queues
    <3>2. Ordered'
      BY <1>2, <1>3, <2>2, Numbers DEF OrderInv, Ordered
    <3>3. \A x \in Nat : Oldest(x) => Oldest(x)'
      BY <1>2, <1>3, <2>2 DEF Oldest
    <3>4. Applied'
      BY <1>3, <3>3, ArrivedStays
    <3>5. QED
      BY <1>3, <3>1, <3>2, <3>4, StandStill DEF OrderInv
  <2>3. QED
    BY <1>3, <2>1, <2>2
<1>4. CASE HwWrite
  <2>1. given' = given + 1 /\ UNCHANGED <<down, waiting, tasks, byLink, byTask>>
    BY <1>4 DEF HwWrite, link
  <2>2. PICK set \in Levels :
          requests' = IF node = "unconfigured" THEN requests
                      ELSE Append(requests, [kind |-> "do", n |-> given', arg |-> set])
    BY <1>4 DEF HwWrite
  <2> DEFINE e == [kind |-> "do", n |-> given + 1, arg |-> set]
  <2>3. e \in Request /\ e.n = given + 1
    BY <1>2, IsRequest
  <2>4. requests' = Append(requests, e) \/ requests' = requests
    BY <2>1, <2>2
  <2> HIDE DEF e
  <2>5. QED
    BY <1>3, <2>1, <2>3, <2>4
<1>5. CASE CallSetPwm
  <2>1. given' = given + 1 /\ UNCHANGED <<down, waiting, tasks, byLink, byTask>>
    BY <1>5 DEF CallSetPwm, link
  <2>2. PICK per \in Periods, mil \in Duties, on \in BOOLEAN :
          requests' = Append(requests, [kind |-> "pwm", n |-> given',
                                        arg |-> [period |-> per, mil |-> mil, on |-> on]])
    BY <1>5 DEF CallSetPwm
  <2> DEFINE e == [kind |-> "pwm", n |-> given + 1,
                   arg |-> [period |-> per, mil |-> mil, on |-> on]]
  <2>3. [period |-> per, mil |-> mil, on |-> on] \in PwmArg
    BY DEF PwmArg
  <2>4. e \in Request /\ e.n = given + 1
    BY <1>2, <2>3, IsRequest
  <2>5. requests' = Append(requests, e)
    BY <2>1, <2>2
  <2> HIDE DEF e
  <2>6. QED
    BY <1>3, <2>1, <2>4, <2>5
<1>6. CASE CallValve
  <2>1. given' = given + 1 /\ UNCHANGED <<down, waiting, tasks, byLink, byTask>>
    BY <1>6 DEF CallValve, link
  <2>2. PICK s \in SUBSET Pins \ {{}}, enable \in BOOLEAN :
          requests' = Append(requests, [kind |-> "valve", n |-> given',
                                        arg |-> [p \in s |-> enable]])
    BY <1>6 DEF CallValve
  <2> DEFINE e == [kind |-> "valve", n |-> given + 1, arg |-> [p \in s |-> enable]]
  <2>3. [p \in s |-> enable] \in Levels
    BY DEF Levels
  <2>4. e \in Request /\ e.n = given + 1
    BY <1>2, <2>3, IsRequest
  <2>5. requests' = Append(requests, e)
    BY <2>1, <2>2
  <2> HIDE DEF e
  <2>6. QED
    BY <1>3, <2>1, <2>4, <2>5
<1>7. CASE OnConfigure \/ OnActivate \/ LinkUp
  BY <1>1, <1>7 DEF OnConfigure, OnActivate, LinkUp, link, driver
<1>8. CASE OnDeactivate
  BY <1>1, <1>8 DEF OnDeactivate
<1>9. CASE OnCleanup
  <2>1. requests' = <<>> /\ UNCHANGED <<given, down, waiting, tasks, byLink, byTask>>
    BY <1>9 DEF OnCleanup, link
  <2>2. requests' \in Seq(Request) /\ DOMAIN requests' = {}
    BY <2>1
  <2>3. Queues' /\ Ordered'
    BY <2>1, <2>2 DEF OrderInv, Queues, Ordered
  <2>4. \A x \in Nat : Oldest(x) => Oldest(x)'
    BY <2>1, <2>2 DEF Oldest
  <2>5. Applied'
    BY <2>1, <2>4, ArrivedStays
  <2>6. QED
    BY <2>1, <2>3, <2>5, StandStill DEF OrderInv
<1>10. CASE Serve
  <2>1. UNCHANGED <<byLink, byTask>>
    BY <1>10 DEF Serve
  <2>2. QED
    BY <1>10, <2>1, Served, StandStill
<1>11. CASE Retry
  <2>1. UNCHANGED <<byLink, byTask>>
    BY <1>11 DEF Retry
  <2>2. QED
    BY <1>11, <2>1, Repeated, StandStill
<1>12. CASE CallEnds
  <2>1. waiting' = <<>> /\ UNCHANGED <<given, down, requests, tasks, byLink, byTask>>
    BY <1>12 DEF CallEnds, link, None
  <2>2. waiting' \in Seq(Request) /\ DOMAIN waiting' = {} /\ Len(waiting') = 0
    BY <2>1
  <2>3. Queues' /\ Ordered'
    BY <2>1, <2>2 DEF OrderInv, Queues, Ordered
  <2>4. \A x \in Nat : Oldest(x) => Oldest(x)'
    BY <2>1, <2>2 DEF Oldest
  <2>5. Applied'
    BY <2>1, <2>4, ArrivedStays
  <2>6. QED
    BY <2>1, <2>3, <2>5, StandStill DEF OrderInv
<1>13. CASE LinkBreaks
  <2>1. UNCHANGED <<byLink, byTask>>
    BY <1>13 DEF LinkBreaks
  <2>2. QED
    BY <1>13, <2>1, Broken, StandStill
<1>14. CASE ApplyDo
  <2>1. \A p \in Pins : byLink[p] \in Nat /\ byTask[p] \in Nat
    BY DEF OrderInv, Applied
  <2>2. InOrder
    BY <1>14, <2>1, LinkSets DEF InOrder
  <2>3. QED
    BY <1>14, <2>2, LinkSets
<1>15. CASE QueueValve
  BY <1>15, ValveQueued, StandStill
<1>16. CASE DoValve
  <2>1. \A p \in Pins : byLink[p] \in Nat /\ byTask[p] \in Nat
    BY DEF OrderInv, Applied
  <2>2. InOrder
    BY <1>16, <2>1, ValveDone DEF InOrder
  <2>3. QED
    BY <1>16, <2>2, ValveDone
<1>17. CASE ApplyPwm
  <2>1. /\ down # <<>> /\ down' = Tail(down)
        /\ UNCHANGED <<given, requests, waiting, tasks, byLink, byTask>>
    BY <1>17 DEF ApplyPwm, driver
  <2>2. Queues' /\ Ordered' /\ \A x \in Nat : Oldest(x) => Oldest(x)'
    BY <2>1, Taken
  <2>3. Applied'
    BY <2>1, <2>2, ArrivedStays
  <2>4. QED
    BY <2>1, <2>2, <2>3, StandStill DEF OrderInv
<1>18. CASE Poll \/ PinChanges
  BY <1>1, <1>18 DEF Poll, PinChanges, driver, link
<1>19. CASE UNCHANGED pathVars
  BY <1>1, <1>19 DEF pathVars, driver, link
<1>20. QED
  BY <1>4, <1>5, <1>6, <1>7, <1>8, <1>9, <1>10, <1>11, <1>12, <1>13, <1>14,
     <1>15, <1>16, <1>17, <1>18, <1>19 DEF PathNext

\* Commands by the link keep their order, valve tasks keep theirs, and none
\* by the link follows a younger valve task on its pin, for any pins, numbers
\* of retries and broken links, and any length of the worker's queue.
THEOREM PinsKeepOrder == PathSpec => CommandsApplyInOrder
<1>1. OrderInv /\ [PathNext]_pathVars => [InOrder]_<<byLink, byTask>>
  BY OrderStep
<1>2. OrderInv /\ [PathNext]_pathVars => OrderInv'
  BY OrderStep
<1>3. QED
  BY <1>1, <1>2, OrderInit, PTL DEF PathSpec, CommandsApplyInOrder, InOrder

-----------------------------------------------------------------------------
(* The PWM and the events.                                                 *)

Setting == [period : Nat, duty : Nat, on : BOOLEAN]

\* What the kernel holds a PWM to.
Sound(q) == q \in Setting /\ q.duty <= q.period /\ (q.period = 0 => ~q.on)

\* The hardware against what the last command asked for and what is recorded.
Pulse ==
    /\ Sound(pwm) /\ channel \in Setting /\ asked \in Setting /\ lost \in SUBSET Writes
    /\ "duty" \notin lost => pwm.duty <= asked.duty
    /\ "enable" \notin lost => (pwm.on => asked.on)
    /\ lost = {} /\ channel.period > 0 /\ channel.duty <= channel.period
         => pwm.duty = channel.duty

Events ==
    /\ lastEvent \in BOOLEAN /\ touched \in BOOLEAN
    /\ ~touched => state[Input] = lastEvent

PathInv == OrderInv /\ PathTypeOK /\ Pulse /\ Events

LEMMA PathInvInit == PathInit => PathInv
<1> SUFFICES ASSUME PathInit PROVE PathInv
  OBVIOUS
<1>1. OrderInv
  BY OrderInit
<1>2. PathTypeOK
  <2>1. Retries \in Nat /\ MaxWire \in Nat /\ MaxTasks \in Nat
    BY PathConstants DEF PathConstants
  <2>2. /\ retries \in 0..Retries /\ Len(down) <= MaxWire /\ Len(tasks) <= MaxTasks
        /\ state \in [Pins -> BOOLEAN]
    BY <2>1 DEF PathInit
  <2>3. byLink \in [Pins -> 0..given] /\ byTask \in [Pins -> 0..given]
    BY DEF PathInit
  <2>4. node \in {"unconfigured", "inactive", "active"} /\ up \in BOOLEAN /\ ~up
    BY DEF PathInit
  <2>5. QED
    BY <2>2, <2>3, <2>4 DEF PathTypeOK
<1>3. Pulse
  BY DEF PathInit, Pulse, Sound, Setting, Off, Writes
<1>4. Events
  BY DEF PathInit, Events, Pins
<1>5. QED
  BY <1>1, <1>2, <1>3, <1>4 DEF PathInv

\* Division keeps the order of its dividends.
LEMMA DivKeepsOrder ==
    ASSUME NEW a \in Nat, NEW b \in Nat, a <= b, NEW f \in Nat \ {0}
    PROVE  a \div f \in Nat /\ b \div f \in Nat /\ a \div f <= b \div f
<1>1. a \div f \in Nat /\ b \div f \in Nat
  OBVIOUS
<1>2. PICK x, y \in Nat : x = a \div f /\ y = b \div f
  BY <1>1
<1>3. f * x <= a /\ b < f * y + f
  BY <1>2
<1>4. ASSUME x > y PROVE FALSE
  <2>1. PICK d \in Nat : x = y + 1 + d
    <3>1. x - y - 1 \in Nat /\ x = y + 1 + (x - y - 1)
      BY <1>4
    <3>2. QED
      BY <3>1
  <2>2. f * x = f * y + f + f * d /\ f * d \in Nat /\ f * y \in Nat
    BY <2>1
  <2>3. QED
    BY <1>3, <2>2
<1>5. QED
  BY <1>1, <1>2, <1>4

\* The 32-bit product can only make the on-time shorter.
LEMMA DutyIsShort ==
    ASSUME NEW c \in PwmArg
    PROVE  /\ c.period \in Nat \ {0} /\ c.on \in BOOLEAN
           /\ DutyNs(c) \in Nat /\ (c.period * c.mil) \div Full \in Nat
           /\ DutyNs(c) <= (c.period * c.mil) \div Full
<1>1. c.period \in Nat \ {0} /\ c.mil \in Nat /\ c.on \in BOOLEAN
      /\ Word \in Nat \ {0} /\ Full \in Nat \ {0}
  BY PathConstants DEF PathConstants, PwmArg
<1>2. c.period * c.mil \in Nat
  BY <1>1
<1>3. \A x \in Nat, w \in Nat \ {0} : x % w \in Nat /\ x % w <= x
  <2>1. ASSUME NEW x \in Nat, NEW w \in Nat \ {0} PROVE x % w \in Nat /\ x % w <= x
    <3>1. x % w \in Nat /\ x % w < w /\ x \div w \in Nat /\ x = w * (x \div w) + (x % w)
      OBVIOUS
    <3>2. w * (x \div w) \in Nat
      BY <3>1
    <3>3. QED
      BY <3>1, <3>2
  <2>2. QED
    BY <2>1
<1>4. (c.period * c.mil) % Word \in Nat /\ (c.period * c.mil) % Word <= c.period * c.mil
  BY <1>1, <1>2, <1>3
<1>5. QED
  BY <1>1, <1>2, <1>4, DivKeepsOrder DEF DutyNs

\* What one command makes of a PWM, whichever of its writes fail.
LEMMA OneCommand ==
    ASSUME Sound(pwm), NEW c \in PwmArg, NEW fail
    PROVE  LET q == Programmed(c, fail)
           IN  /\ Sound(q)
               /\ "duty" \notin fail => q.duty <= DutyNs(c)
               /\ "enable" \notin fail => (q.on => c.on)
               /\ fail = {} /\ DutyNs(c) <= c.period => q.duty = DutyNs(c)
               /\ fail = {} /\ DutyNs(c) <= c.period /\ c.period >= pwm.duty
                    => q = [period |-> c.period, duty |-> DutyNs(c), on |-> c.on]
<1> DEFINE d == DutyNs(c)
           q1 == PeriodPut(c, fail)
           q2 == DutyPut(c, fail, q1)
           q3 == EnablePut(c, fail, q2)
<1>1. c.period \in Nat \ {0} /\ c.on \in BOOLEAN /\ d \in Nat
  BY DutyIsShort
<1> HIDE DEF d
<1>2. /\ pwm \in Setting /\ pwm.period \in Nat /\ pwm.duty \in Nat /\ pwm.on \in BOOLEAN
      /\ pwm.duty <= pwm.period /\ (pwm.period = 0 => ~pwm.on)
  BY DEF Sound, Setting
<1>3. \/ q1 = pwm
      \/ c.period >= pwm.duty /\ q1 = [period |-> c.period, duty |-> pwm.duty, on |-> pwm.on]
  BY DEF PeriodPut, SetPeriod
<1>4. fail = {} => \/ c.period < pwm.duty /\ q1 = pwm
                   \/ /\ c.period >= pwm.duty
                      /\ q1 = [period |-> c.period, duty |-> pwm.duty, on |-> pwm.on]
  BY <1>1, <1>2 DEF PeriodPut, SetPeriod
<1>5. /\ q1 \in Setting /\ q1.duty = pwm.duty /\ q1.on = pwm.on
      /\ q1.duty <= q1.period /\ (q1.period = 0 => ~q1.on)
      /\ q1.period \in Nat /\ q1.duty \in Nat /\ q1.on \in BOOLEAN
      /\ fail = {} => q1.period >= c.period
      /\ fail = {} /\ c.period >= pwm.duty => q1.period = c.period
  BY <1>1, <1>2, <1>3, <1>4 DEF Setting
<1> HIDE DEF q1
<1>6. \/ q2 = q1 /\ ("duty" \in fail \/ ~(d <= q1.period))
      \/ d <= q1.period /\ q2 = [period |-> q1.period, duty |-> d, on |-> q1.on]
  BY DEF DutyPut, SetDuty, d
<1>7. /\ q2 \in Setting /\ q2.period = q1.period /\ q2.on = q1.on
      /\ q2.duty <= q2.period /\ (q2.period = 0 => ~q2.on)
      /\ q2.period \in Nat /\ q2.duty \in Nat /\ q2.on \in BOOLEAN
      /\ "duty" \notin fail => q2.duty <= d
      /\ fail = {} /\ d <= q1.period => q2.duty = d
  BY <1>1, <1>5, <1>6 DEF Setting
<1> HIDE DEF q2
<1>8. \/ q3 = q2 /\ ("enable" \in fail \/ ~(q2.period > 0))
      \/ q2.period > 0 /\ q3 = [period |-> q2.period, duty |-> q2.duty, on |-> c.on]
  BY DEF EnablePut, SetEnable
<1>9. /\ Sound(q3) /\ q3.duty = q2.duty /\ ("enable" \notin fail => (q3.on => c.on))
  BY <1>1, <1>7, <1>8 DEF Setting, Sound
<1>10. ASSUME fail = {}, d <= c.period PROVE q3.duty = d
  BY <1>1, <1>5, <1>7, <1>9, <1>10
<1>11. ASSUME fail = {}, d <= c.period, c.period >= pwm.duty
       PROVE  q3 = [period |-> c.period, duty |-> d, on |-> c.on]
  <2>1. q1.period = c.period /\ q2.duty = d /\ q2.period = c.period
    BY <1>1, <1>5, <1>7, <1>11
  <2>2. QED
    BY <1>1, <1>8, <1>11, <2>1
<1>12. Programmed(c, fail) = q3
  BY DEF Programmed, q1, q2
<1> HIDE DEF q3
<1>13. QED
  BY <1>7, <1>9, <1>10, <1>11, <1>12 DEF d

\* A PWM command on a channel that was exported.
LEMMA PwmApplied ==
    ASSUME PathInv, ApplyPwm, exported
    PROVE  Pulse' /\ (lost = {} /\ lost' = {} /\ channel' = channel /\ channel.period > 0
                      /\ channel.duty <= channel.period => pwm' = channel')
<1> USE DEF PathInv
<1>1. Head(down) \in Request /\ Head(down).kind = "pwm"
  <2>1. down # <<>> /\ Head(down).kind = "pwm"
    BY DEF ApplyPwm
  <2>2. Head(down) \in Request
    BY <2>1, TailFacts DEF OrderInv, Queues
  <2>3. QED
    BY <2>1, <2>2
<1>2. PICK c \in PwmArg : c = Head(down).arg
  BY <1>1 DEF Request, PinRequest
<1>3. PICK fail \in SUBSET Writes :
        /\ pwm' = Programmed(c, fail)
        /\ channel' = [period |-> c.period, duty |-> DutyNs(c), on |-> c.on]
        /\ asked' = [period |-> c.period, duty |-> (c.period * c.mil) \div Full, on |-> c.on]
        /\ lost' = fail
  BY <1>2 DEF ApplyPwm
<1>4. /\ c.period \in Nat \ {0} /\ c.on \in BOOLEAN
      /\ DutyNs(c) \in Nat /\ (c.period * c.mil) \div Full \in Nat
      /\ DutyNs(c) <= (c.period * c.mil) \div Full
  BY DutyIsShort
<1>5. Sound(pwm)
  BY DEF Pulse
<1>6. /\ Sound(pwm')
      /\ "duty" \notin fail => pwm'.duty <= DutyNs(c)
      /\ "enable" \notin fail => (pwm'.on => c.on)
      /\ fail = {} /\ DutyNs(c) <= c.period => pwm'.duty = DutyNs(c)
      /\ fail = {} /\ DutyNs(c) <= c.period /\ c.period >= pwm.duty
           => pwm' = [period |-> c.period, duty |-> DutyNs(c), on |-> c.on]
  BY <1>3, <1>5, OneCommand
<1>7. pwm'.duty \in Nat
  BY <1>6 DEF Sound, Setting
<1>8. channel' \in Setting /\ asked' \in Setting
  BY <1>3, <1>4 DEF Setting
<1>9. "duty" \notin fail => pwm'.duty <= asked'.duty
  BY <1>3, <1>4, <1>6, <1>7
<1>10. "enable" \notin fail => (pwm'.on => asked'.on)
  BY <1>3, <1>6
<1>11. fail = {} /\ channel'.duty <= channel'.period => pwm'.duty = channel'.duty
  BY <1>3, <1>6
<1>12. Sound(pwm)' /\ lost' \in SUBSET Writes
  BY <1>3, <1>6 DEF Sound
<1>13. Pulse'
  BY <1>3, <1>8, <1>9, <1>10, <1>11, <1>12 DEF Pulse
<1>14. ASSUME lost = {}, lost' = {}, channel' = channel, channel.period > 0,
              channel.duty <= channel.period
       PROVE  pwm' = channel'
  <2>1. pwm.duty = channel.duty
    BY <1>14 DEF Pulse
  <2>2. c.period = channel.period /\ DutyNs(c) = channel.duty
    BY <1>3, <1>14
  <2>3. DutyNs(c) <= c.period /\ c.period >= pwm.duty
    BY <1>4, <1>14, <2>1, <2>2
  <2>4. QED
    BY <1>3, <1>6, <1>14, <2>3
<1>15. QED
  BY <1>13, <1>14

LEMMA PulseStep ==
    ASSUME PathInv, [PathNext]_pathVars
    PROVE  Pulse'
<1>1. CASE ApplyPwm /\ exported
  BY <1>1, PwmApplied
<1>2. CASE UNCHANGED <<pwm, channel, asked, lost>>
  BY <1>2 DEF PathInv, Pulse, Sound
<1>3. (ApplyPwm /\ exported) \/ UNCHANGED <<pwm, channel, asked, lost>>
  BY DEF PathNext, HwWrite, OnConfigure, OnActivate, OnDeactivate, OnCleanup,
         CallSetPwm, CallValve, Serve, Retry, CallEnds, LinkUp, LinkBreaks, ApplyDo,
         QueueValve, DoValve, SetPins, ApplyPwm, Poll, PinChanges,
         pathVars, driver, link, daemon, pin, hist, pwmHist
<1>4. QED
  BY <1>1, <1>2, <1>3

\* Reports and the stored level go together.
LEMMA EventsStep ==
    ASSUME PathInv, [PathNext]_pathVars
    PROVE  Events'
<1> USE DEF PathInv
<1>1. CASE ApplyDo \/ DoValve
  <2>1. PICK ok, set : SetPins(set, ok)
    BY <1>1 DEF ApplyDo, DoValve
  <2>2. /\ state' = [p \in Pins |-> IF p \in ok THEN set[p] ELSE state[p]]
        /\ touched' = (touched \/ Input \in ok)
        /\ lastEvent' = lastEvent
    BY <2>1 DEF SetPins
  <2>3. Input \notin ok => state'[Input] = state[Input]
    BY <2>2 DEF Pins
  <2>4. QED
    BY <2>2, <2>3 DEF Events
<1>2. CASE Poll
  <2>1. /\ touched' = touched /\ lastEvent' = Sampled
        /\ state' = [state EXCEPT ![Input] = Sampled]
    BY <1>2 DEF Poll, Stored
  <2>2. Sampled \in BOOLEAN
    BY DEF Sampled
  <2>3. state'[Input] = Sampled
    BY <2>1 DEF PathTypeOK, Pins
  <2>4. QED
    BY <2>1, <2>2, <2>3 DEF Events
<1>3. CASE UNCHANGED <<state, lastEvent, touched>>
  BY <1>3 DEF Events
<1>4. ApplyDo \/ DoValve \/ Poll \/ UNCHANGED <<state, lastEvent, touched>>
  BY DEF PathNext, HwWrite, OnConfigure, OnActivate, OnDeactivate, OnCleanup,
         CallSetPwm, CallValve, Serve, Retry, CallEnds, LinkUp, LinkBreaks, QueueValve,
         ApplyPwm, PinChanges, pathVars, driver, link, daemon, pin, hist, pinHist
<1>5. QED
  BY <1>1, <1>2, <1>3, <1>4

\* The types that the order does not give already.
LEMMA PathTypesStep ==
    ASSUME PathInv, [PathNext]_pathVars, OrderInv'
    PROVE  PathTypeOK'
<1> USE DEF PathInv, PathTypeOK
<1>1. tasks' \in Seq(PinRequest) /\ tasks \in Seq(PinRequest)
  BY DEF OrderInv, Applied
<1>2. byLink' \in [Pins -> 0..given'] /\ byTask' \in [Pins -> 0..given']
  BY DEF OrderInv, Queues, Applied, Oldest
<1>3. /\ node' \in {"unconfigured", "inactive", "active"}
      /\ up' \in BOOLEAN /\ (up' => node' = "active")
  <2>1. OnConfigure \/ OnActivate \/ OnDeactivate \/ OnCleanup \/ LinkUp \/ LinkBreaks
          \/ (node' = node /\ up' = up)
    BY DEF PathNext, HwWrite, CallSetPwm, CallValve, Serve, Retry, CallEnds, ApplyDo,
           QueueValve, DoValve, ApplyPwm, Poll, PinChanges, pathVars, driver, link
  <2>2. CASE OnConfigure \/ OnActivate
    BY <2>2 DEF OnConfigure, OnActivate, link
  <2>3. CASE OnDeactivate \/ OnCleanup
    <3>1. CASE OnDeactivate
      BY <3>1 DEF OnDeactivate
    <3>2. CASE OnCleanup
      <4>1. node = "inactive" /\ node' = "unconfigured" /\ up' = up
        BY <3>2 DEF OnCleanup, link
      <4>2. QED
        BY <4>1
    <3>3. QED
      BY <2>3, <3>1, <3>2
  <2>4. CASE LinkUp \/ LinkBreaks
    BY <2>4 DEF LinkUp, LinkBreaks, driver
  <2>5. QED
    BY <2>1, <2>2, <2>3, <2>4
<1>4. retries' \in 0..Retries
  <2>1. Retries \in Nat
    BY PathConstants DEF PathConstants
  <2>2. CASE Serve
    BY <2>1, <2>2 DEF Serve
  <2>3. CASE Retry
    BY <2>1, <2>3 DEF Retry
  <2>4. Serve \/ Retry \/ retries' = retries
    BY DEF PathNext, HwWrite, OnConfigure, OnActivate, OnDeactivate, OnCleanup,
           CallSetPwm, CallValve, CallEnds, LinkUp, LinkBreaks, ApplyDo, QueueValve,
           DoValve, ApplyPwm, Poll, PinChanges, pathVars, driver
  <2>5. QED
    BY <2>1, <2>2, <2>3, <2>4
<1>5. Len(down') <= MaxWire
  <2>1. down \in Seq(Request) /\ Len(down) \in Nat /\ MaxWire \in Nat
    BY PathConstants DEF PathConstants, OrderInv, Queues
  <2>2. \/ down' = down
        \/ Len(down) < MaxWire /\ \E e : down' = Append(down, e)
        \/ down # <<>> /\ down' = Tail(down)
        \/ \E n \in 0..Len(down) : down' = SubSeq(down, 1, n)
    BY DEF PathNext, HwWrite, OnConfigure, OnActivate, OnDeactivate, OnCleanup,
           CallSetPwm, CallValve, Serve, Retry, CallEnds, LinkUp, LinkBreaks, ApplyDo, QueueValve,
           DoValve, ApplyPwm, Poll,
           PinChanges, pathVars, driver, link, Resent
  <2>3. CASE Len(down) < MaxWire /\ \E e : down' = Append(down, e)
    <3>1. Len(down') = Len(down) + 1
      BY <2>1, <2>3
    <3>2. QED
      BY <2>1, <2>3, <3>1
  <2>4. CASE down # <<>> /\ down' = Tail(down)
    <3>1. Len(down') = Len(down) - 1
      BY <2>1, <2>4
    <3>2. QED
      BY <2>1, <3>1
  <2>5. CASE \E n \in 0..Len(down) : down' = SubSeq(down, 1, n)
    <3>1. PICK n \in 0..Len(down) : down' = SubSeq(down, 1, n)
      BY <2>5
    <3>2. Len(down') = n
      BY <2>1, <3>1
    <3>3. QED
      BY <2>1, <3>2
  <2>6. QED
    BY <2>1, <2>2, <2>3, <2>4, <2>5
<1>6. state' \in [Pins -> BOOLEAN]
  <2>1. \A set \in Levels : \A p \in DOMAIN set : set[p] \in BOOLEAN
    BY DEF Levels
  <2>2. CASE ApplyDo \/ DoValve
    <3>1. PICK set \in Levels : \E ok \in SUBSET DOMAIN set : SetPins(set, ok)
      <4>1. CASE ApplyDo
        <5>1. down # <<>> /\ Head(down).kind = "do"
          BY <4>1 DEF ApplyDo
        <5>2. Head(down) \in Request
          BY <5>1, TailFacts DEF OrderInv, Queues
        <5>3. Head(down).arg \in Levels
          BY <5>1, <5>2 DEF Request, PinRequest
        <5>4. QED
          BY <4>1, <5>3 DEF ApplyDo
      <4>2. CASE DoValve
        <5>1. Head(tasks) \in PinRequest
          BY <1>1, <4>2, TailFacts DEF DoValve
        <5>2. Head(tasks).arg \in Levels
          BY <5>1 DEF PinRequest
        <5>3. QED
          BY <4>2, <5>2 DEF DoValve
      <4>3. QED
        BY <2>2, <4>1, <4>2
    <3>2. PICK ok \in SUBSET DOMAIN set :
            state' = [p \in Pins |-> IF p \in ok THEN set[p] ELSE state[p]]
      BY <3>1 DEF SetPins
    <3>3. \A p \in ok : set[p] \in BOOLEAN
      BY <2>1
    <3>4. QED
      BY <3>2, <3>3
  <2>3. CASE Poll
    <3>1. state' = [state EXCEPT ![Input] = Sampled]
      BY <2>3 DEF Poll, Stored
    <3>2. Sampled \in BOOLEAN
      BY DEF Sampled
    <3>3. QED
      BY <3>1, <3>2
  <2>4. ApplyDo \/ DoValve \/ Poll \/ state' = state
    BY DEF PathNext, HwWrite, OnConfigure, OnActivate, OnDeactivate, OnCleanup,
           CallSetPwm, CallValve, Serve, Retry, CallEnds, LinkUp, LinkBreaks, QueueValve,
           ApplyPwm, PinChanges, pathVars, daemon
  <2>5. QED
    BY <2>2, <2>3, <2>4
<1>7. Len(tasks') <= MaxTasks
  <2>1. Len(tasks) \in Nat /\ MaxTasks \in Nat
    BY <1>1, PathConstants DEF PathConstants
  <2>2. \/ tasks' = tasks
        \/ Len(tasks) < MaxTasks /\ tasks' = Append(tasks, Head(down))
        \/ tasks # <<>> /\ tasks' = Tail(tasks)
    BY DEF PathNext, HwWrite, OnConfigure, OnActivate, OnDeactivate, OnCleanup,
           CallSetPwm, CallValve, Serve, Retry, CallEnds, LinkUp, LinkBreaks, ApplyDo,
           QueueValve, DoValve, ApplyPwm, Poll, PinChanges, pathVars, daemon
  <2>3. CASE Len(tasks) < MaxTasks /\ tasks' = Append(tasks, Head(down))
    <3>1. Len(tasks') = Len(tasks) + 1
      BY <1>1, <2>3
    <3>2. QED
      BY <2>1, <2>3, <3>1
  <2>4. CASE tasks # <<>> /\ tasks' = Tail(tasks)
    <3>1. Len(tasks') = Len(tasks) - 1
      BY <1>1, <2>4
    <3>2. QED
      BY <2>1, <3>1
  <2>5. QED
    BY <2>1, <2>2, <2>3, <2>4
<1>8. QED
  BY <1>2, <1>3, <1>4, <1>5, <1>6, <1>7

LEMMA PathInvariant == PathSpec => []PathInv
<1>1. PathInv /\ [PathNext]_pathVars => PathInv'
  BY OrderStep, PathTypesStep, PulseStep, EventsStep DEF PathInv
<1>2. QED
  BY <1>1, PathInvInit, PTL DEF PathSpec

\* The PWM is never driven longer than the last command asked for, nor when it
\* was disabled, for any frequencies, shares and word size, unless that very
\* write failed.
THEOREM PwmKeepsShare == PathSpec => []PwmNeverExceeds
<1>1. PathInv => PwmNeverExceeds
  BY DEF PathInv, Pulse, PwmNeverExceeds
<1>2. QED
  BY <1>1, PathInvariant, PTL

\* A command carried out twice in a row leaves the PWM as recorded.
THEOREM RepetitionCures == PathSpec => RepeatCures
<1> DEFINE Cures == /\ ApplyPwm /\ exported
                    /\ lost = {} /\ lost' = {} /\ channel' = channel
                    /\ channel.period > 0 /\ channel.duty <= channel.period
                    => pwm' = channel'
<1>1. PathInv /\ [PathNext]_pathVars => [Cures]_down
  BY PwmApplied
<1>2. QED
  BY <1>1, PathInvariant, PTL DEF PathSpec, RepeatCures

\* A look at the input never reports what was reported last, unless a command
\* named the input.
THEOREM EventsNeverRepeat == PathSpec => []EventsAlternate
<1>1. PathInv => EventsAlternate
  BY DEF PathInv, Events, EventsAlternate
<1>2. QED
  BY <1>1, PathInvariant, PTL
=============================================================================
