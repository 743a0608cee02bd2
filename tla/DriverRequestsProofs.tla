------------------------ MODULE DriverRequestsProofs -------------------------
(***************************************************************************)
(* TLAPS proofs about DriverRequests, for any number of calls and retries: *)
(* what stays in the maps of promises, what a refused call leaves behind,  *)
(* how often a call is carried out at most, that each success of SendTask  *)
(* is backed by an executed task, that no answer is taken for another's    *)
(* and, until the sequence numbers come round, that no number is used      *)
(* twice.                                                                  *)
(***************************************************************************)
EXTENDS DriverRequests, FiniteSetTheorems, TLAPS

Kinds == {"ack", "task"}
Request == [call : Calls, kind : Kinds, seq : Seqs]
Response == [kind : Kinds, seq : Seqs, status : {"ok", "error"}]

\* The call has a sequence number and has not returned.
Waiting == pc \in {"send", "wait", "expired", "resend"}

\* The types TypeOK leaves open, and what a call in progress has set.
Frames ==
  /\ toDaemon \in Seq(Request)
  /\ toDriver \in Seq(Response)
  /\ daemonQueue \in Seq(Calls)

InCall ==
  /\ pc # "idle" => call \in Calls /\ kind \in Kinds
  /\ pc = "resend" => kind = "ack"
  /\ pc = "register" => future = "empty"

TypeInv == TypeOK /\ Frames /\ InCall

\* A key in a map is that of the waiting call or was left by a failed retry,
\* and an answered call's key is not in the map any more.
MapInv ==
  /\ pendingTasks \subseteq IF Waiting /\ kind = "task" THEN {seq} ELSE {}
  /\ pendingAcks \subseteq leaked \cup IF Waiting /\ kind = "ack" THEN {seq} ELSE {}
  /\ Waiting /\ future # "empty" => seq \notin Pending(kind)

\* Some frame of the call has reached the link.
Reached(c) ==
  \/ applied[c] > 0
  \/ \E i \in DOMAIN toDaemon : toDaemon[i].call = c
  \/ \E i \in DOMAIN daemonQueue : daemonQueue[i] = c

Refused(c) == result[c] \in {"not_connected", "send_failed"}

\* Only a call that was sent, and was not refused, has reached the link.
ReachInv ==
  \A c \in Calls : Reached(c) =>
    /\ c <= call
    /\ ~Refused(c)
    /\ ~(c = call /\ pc \in {"register", "send"})

-----------------------------------------------------------------------------
(* Numbers and sequences                                                   *)

\* The counter stays in the range of the sequence numbers.
LEMMA NextInRange ==
  ASSUME NEW n \in Seqs
  PROVE  (n + 1) % SeqSpace \in Seqs
BY DriverAssumption DEF Seqs

\* The elements of a sequence one longer.
LEMMA AppendElements ==
  ASSUME NEW S, NEW s \in Seq(S), NEW e \in S
  PROVE  /\ Append(s, e) \in Seq(S)
         /\ Len(s) \in Nat
         /\ DOMAIN s = 1 .. Len(s)
         /\ DOMAIN Append(s, e) = 1 .. Len(s) + 1
         /\ \A i \in 1 .. Len(s) : Append(s, e)[i] = s[i]
         /\ Append(s, e)[Len(s) + 1] = e
<1>1. Append(s, e) \in Seq(S) /\ Len(Append(s, e)) = Len(s) + 1 /\ Len(s) \in Nat
  OBVIOUS
<1>2. \A i \in 1 .. Len(s) : Append(s, e)[i] = s[i]
  OBVIOUS
<1>3. Append(s, e)[Len(s) + 1] = e
  OBVIOUS
<1>4. QED
  BY <1>1, <1>2, <1>3

\* The elements of a sequence without its first.
LEMMA TailElements ==
  ASSUME NEW S, NEW s \in Seq(S), s # << >>
  PROVE  /\ Tail(s) \in Seq(S)
         /\ Len(s) \in Nat \ {0}
         /\ DOMAIN s = 1 .. Len(s)
         /\ DOMAIN Tail(s) = 1 .. Len(s) - 1
         /\ \A i \in 1 .. Len(s) - 1 : Tail(s)[i] = s[i + 1]
         /\ Head(s) = s[1] /\ Head(s) \in S
<1>1. Tail(s) \in Seq(S) /\ Len(Tail(s)) = Len(s) - 1 /\ Len(s) \in Nat \ {0}
  OBVIOUS
<1>2. \A i \in 1 .. Len(s) - 1 : Tail(s)[i] = s[i + 1]
  BY <1>1
<1>3. Head(s) = s[1] /\ s[1] \in S
  BY <1>1
<1>4. QED
  BY <1>1, <1>2, <1>3

\* A prefix holds the same elements at the same places.
LEMMA PrefixElements ==
  ASSUME NEW S, NEW s \in Seq(S), NEW n \in 0 .. Len(s)
  PROVE  /\ SubSeq(s, 1, n) \in Seq(S)
         /\ DOMAIN SubSeq(s, 1, n) = 1 .. n
         /\ DOMAIN s = 1 .. Len(s)
         /\ 1 .. n \subseteq 1 .. Len(s)
         /\ \A i \in 1 .. n : SubSeq(s, 1, n)[i] = s[i]
<1>1. Len(s) \in Nat /\ n \in Nat /\ n <= Len(s)
  OBVIOUS
<1>2. SubSeq(s, 1, n) \in Seq(S) /\ Len(SubSeq(s, 1, n)) = n
  BY <1>1
<1>3. \A i \in 1 .. n : SubSeq(s, 1, n)[i] = s[i]
  BY <1>1
<1>4. QED
  BY <1>1, <1>2, <1>3

\* The places of the sequence s that hold members of A.
Places(s, A) == {i \in DOMAIN s : s[i] \in A}

\* There are finitely many places.
LEMMA PlacesFinite ==
  ASSUME NEW S, NEW s \in Seq(S), NEW A
  PROVE  IsFiniteSet(Places(s, A)) /\ Cardinality(Places(s, A)) \in Nat
<1>1. DOMAIN s = 1 .. Len(s) /\ Len(s) \in Int
  OBVIOUS
<1>2. IsFiniteSet(1 .. Len(s))
  BY <1>1, FS_Interval
<1>3. Places(s, A) \in SUBSET (1 .. Len(s))
  BY <1>1 DEF Places
<1>4. IsFiniteSet(Places(s, A))
  BY <1>2, <1>3, FS_Subset
<1>5. QED
  BY <1>4, FS_CardinalityType

\* An element appended has a place of its own if it is in A.
LEMMA PlacesAppend ==
  ASSUME NEW S, NEW s \in Seq(S), NEW e \in S, NEW A
  PROVE  Cardinality(Places(Append(s, e), A)) =
           Cardinality(Places(s, A)) + IF e \in A THEN 1 ELSE 0
<1>1. /\ DOMAIN s = 1 .. Len(s) /\ DOMAIN Append(s, e) = 1 .. Len(s) + 1 /\ Len(s) \in Nat
      /\ \A i \in 1 .. Len(s) : Append(s, e)[i] = s[i]
      /\ Append(s, e)[Len(s) + 1] = e
  BY AppendElements
<1>2. IsFiniteSet(Places(s, A)) /\ Cardinality(Places(s, A)) \in Nat
  BY PlacesFinite
<1>3. Len(s) + 1 \notin Places(s, A)
  BY <1>1 DEF Places
<1>4. CASE e \in A
  <2>1. Places(Append(s, e), A) = Places(s, A) \cup {Len(s) + 1}
    BY <1>1, <1>4 DEF Places
  <2>2. QED
    BY <1>2, <1>3, <1>4, <2>1, FS_AddElement
<1>5. CASE e \notin A
  <2>1. Places(Append(s, e), A) = Places(s, A)
    BY <1>1, <1>5 DEF Places
  <2>2. QED
    BY <1>2, <1>5, <2>1
<1>6. QED
  BY <1>4, <1>5

\* The element taken from the front loses its place.
LEMMA PlacesTail ==
  ASSUME NEW S, NEW s \in Seq(S), s # << >>, NEW A
  PROVE  Cardinality(Places(Tail(s), A)) =
           Cardinality(Places(s, A)) - IF Head(s) \in A THEN 1 ELSE 0
<1> DEFINE rest == Places(s, A) \ {1}
           shift == [i \in Places(Tail(s), A) |-> i + 1]
<1>1. /\ Len(s) \in Nat \ {0} /\ DOMAIN s = 1 .. Len(s) /\ DOMAIN Tail(s) = 1 .. Len(s) - 1
      /\ \A i \in 1 .. Len(s) - 1 : Tail(s)[i] = s[i + 1]
      /\ Head(s) = s[1] /\ Tail(s) \in Seq(S)
  BY TailElements
<1>2. \A i \in Places(Tail(s), A) : i \in 1 .. Len(s) - 1 /\ i + 1 \in rest
  BY <1>1 DEF Places
<1>3. \A j \in rest : j \in Nat /\ j - 1 \in Places(Tail(s), A) /\ j = (j - 1) + 1
  BY <1>1 DEF Places
<1>4. \A i, j \in Places(Tail(s), A) : i + 1 = j + 1 => i = j
  BY <1>2
<1>5. shift \in Bijection(Places(Tail(s), A), rest)
  <2>1. shift \in [Places(Tail(s), A) -> rest]
    BY <1>2
  <2>2. shift \in Injection(Places(Tail(s), A), rest)
    BY <2>1, <1>4 DEF Injection, IsInjective
  <2>3. \A j \in rest : \E i \in Places(Tail(s), A) : shift[i] = j
    BY <1>3
  <2>4. shift \in Surjection(Places(Tail(s), A), rest)
    BY <2>1, <2>3 DEF Surjection
  <2>5. QED
    BY <2>2, <2>4 DEF Bijection
<1>6. IsFiniteSet(Places(Tail(s), A))
  BY <1>1, PlacesFinite
<1>7. Cardinality(rest) = Cardinality(Places(Tail(s), A))
  BY <1>5, <1>6, FS_Bijection DEF ExistsBijection
<1>8. 1 \in Places(s, A) <=> Head(s) \in A
  BY <1>1 DEF Places
<1>9. IsFiniteSet(Places(s, A)) /\ Cardinality(Places(s, A)) \in Nat
  BY PlacesFinite
<1>10. Cardinality(rest) = IF 1 \in Places(s, A) THEN Cardinality(Places(s, A)) - 1
                           ELSE Cardinality(Places(s, A))
  BY <1>9, FS_RemoveElement
<1>11. QED
  BY <1>7, <1>8, <1>9, <1>10

\* A prefix has no place that the sequence has not.
LEMMA PlacesPrefix ==
  ASSUME NEW S, NEW s \in Seq(S), NEW n \in 0 .. Len(s), NEW A
  PROVE  Cardinality(Places(SubSeq(s, 1, n), A)) <= Cardinality(Places(s, A))
<1>1. Places(SubSeq(s, 1, n), A) \subseteq Places(s, A)
  BY PrefixElements DEF Places
<1>2. QED
  BY <1>1, PlacesFinite, FS_Subset

-----------------------------------------------------------------------------
(* Types                                                                   *)

\* The types hold initially.
LEMMA TypeInit == Init => TypeInv
<1> SUFFICES ASSUME Init PROVE TypeInv
  OBVIOUS
<1>1. 0 \in Seqs /\ 0 \in 0 .. MaxFailedChecks - 1 /\ 0 \in 0 .. AckRetries /\ 0 \in 0 .. MaxCalls
  BY DriverAssumption DEF Seqs
<1>2. << >> \in Seq(Request) /\ << >> \in Seq(Response) /\ << >> \in Seq(Calls)
  OBVIOUS
<1>3. TypeOK
  BY <1>1 DEF Init, TypeOK
<1>4. Frames
  BY <1>2 DEF Init, Frames
<1>5. InCall
  BY DEF Init, InCall
<1>6. QED
  BY <1>3, <1>4, <1>5 DEF TypeInv

\* Steps of the service callback keep the types.
LEMMA TypeCallback ==
  ASSUME TypeInv, Callback \/ \E k \in Kinds : Begin(k)
  PROVE  TypeInv'
<1> USE DEF TypeInv, InCall, kind, Kinds
<1>1. CASE \E k \in Kinds : Begin(k)
  <2>1. PICK k \in Kinds : Begin(k)
    BY <1>1
  <2>2. call + 1 \in Calls /\ call' = call + 1 /\ call' \in 0 .. MaxCalls
    BY <2>1, DriverAssumption DEF Begin, TypeOK, Calls
  <2>3. kindOf' \in [Calls -> {"none", "ack", "task"}] /\ kindOf'[call + 1] = k
    BY <2>1, <2>2 DEF Begin, TypeOK
  <2>4. TypeOK'
    BY <2>1, <2>2, <2>3, DriverAssumption DEF Begin, TypeOK, nodeVars, linkVars, daemonVars
  <2>5. Frames'
    BY <2>1 DEF Begin, Frames, linkVars, daemonVars
  <2>6. InCall'
    BY <2>1, <2>2, <2>3 DEF Begin
  <2>7. QED
    BY <2>4, <2>5, <2>6
<1>2. CASE Register \/ Retry
  <2>1. pc # "idle" /\ UNCHANGED <<call, kindOf>>
    BY <1>2 DEF Register, Retry
  <2>2. (nextSeq + 1) % SeqSpace \in Seqs
    BY NextInRange DEF TypeOK
  <2>3. retries' \in 0 .. AckRetries
    BY <1>2, DriverAssumption DEF Register, Retry, Attempts, TypeOK
  <2>4. pc' = "resend" => kind = "ack"
    BY <1>2 DEF Register, Retry, Attempts
  <2>5. pc' \in {"send", "resend", "crashed"}
    BY <1>2 DEF Register, Retry
  <2>6. pendingAcks' \subseteq Seqs /\ pendingTasks' \subseteq Seqs
    BY <1>2 DEF Register, Retry, TakeFuture, SetPending, Pending, TypeOK
  <2>7. reused' \subseteq Calls
    BY <1>2, <2>1 DEF Register, Retry, TakeFuture, TypeOK
  <2>8. TypeOK'
    BY <1>2, <2>2, <2>3, <2>5, <2>6, <2>7
       DEF Register, Retry, TakeFuture, TypeOK, linkVars, daemonVars
  <2>9. Frames'
    BY <1>2 DEF Register, Retry, Frames, linkVars, daemonVars
  <2>10. QED
    BY <2>1, <2>4, <2>5, <2>8, <2>9
<1>3. CASE SendOk
  <2>1. [call |-> call, kind |-> kind, seq |-> seq] \in Request
    BY <1>3 DEF SendOk, TypeOK, Request
  <2>2. toDaemon' \in Seq(Request)
    BY <1>3, <2>1, AppendElements DEF SendOk, Frames
  <2>3. QED
    BY <1>3, <2>2 DEF SendOk, TypeOK, Frames, nodeVars, daemonVars
<1>4. CASE SendFails \/ ResendFails \/ Ready \/ GiveUp
  <2>1. PICK r \in {"ok", "error", "send_failed", "retry_failed", "timeout"} : Returns(r)
    BY <1>4 DEF SendFails, ResendFails, Ready, GiveUp, TypeOK
  <2>2. result' \in [Calls -> {"none", "ok", "error", "not_connected", "send_failed",
                               "retry_failed", "timeout"}]
    BY <2>1 DEF Returns, TypeOK
  <2>3. pendingAcks' \subseteq Seqs /\ pendingTasks' \subseteq Seqs /\ leaked' \subseteq Seqs
    BY <1>4 DEF SendFails, ResendFails, Ready, GiveUp, SetPending, Pending, TypeOK, nodeVars
  <2>4. UNCHANGED <<nextSeq, failedChecks, active, reused, call, kindOf, seq, retries,
                    future, linkVars, daemonVars>>
    BY <1>4 DEF SendFails, ResendFails, Ready, GiveUp, nodeVars
  <2>5. pc' = "idle"
    BY <2>1 DEF Returns
  <2>6. QED
    BY <2>2, <2>3, <2>4, <2>5 DEF TypeOK, Frames, linkVars, daemonVars
<1>5. CASE Timeout
  BY <1>5 DEF Timeout, TypeOK, Frames, nodeVars, linkVars, daemonVars
<1>6. QED
  BY <1>1, <1>2, <1>3, <1>4, <1>5 DEF Callback

\* What the daemon sends is an answer.
LEMMA AnswerTypes ==
  ASSUME Frames, NEW k \in Kinds, NEW s \in Seqs, NEW status \in {"ok", "error"},
         Answer(k, s, status)
  PROVE  toDriver' \in Seq(Response)
<1>1. [kind |-> k, seq |-> s, status |-> status] \in Response
  BY DEF Response
<1>2. QED
  BY <1>1, AppendElements DEF Answer, Frames

\* Breaking the link keeps the types of the frames.
LEMMA LoseLinkTypes ==
  ASSUME Frames, LoseLink
  PROVE  toDaemon' \in Seq(Request) /\ toDriver' \in Seq(Response)
<1>1. PICK n \in 0 .. Len(toDaemon) : toDaemon' = SubSeq(toDaemon, 1, n)
  BY DEF LoseLink
<1>2. toDaemon' \in Seq(Request)
  BY <1>1, PrefixElements DEF Frames
<1>3. QED
  BY <1>2 DEF LoseLink

\* The frame a daemon action takes.
LEMMA ReceivesTypes ==
  ASSUME Frames, NEW k \in Kinds, Receives(k)
  PROVE  /\ toDaemon # << >> /\ Head(toDaemon) \in Request /\ Head(toDaemon).kind = k
         /\ Head(toDaemon).call \in Calls /\ Head(toDaemon).seq \in Seqs
         /\ toDaemon' = Tail(toDaemon) /\ toDaemon' \in Seq(Request)
<1>1. toDaemon # << >> /\ Head(toDaemon).kind = k /\ toDaemon' = Tail(toDaemon)
  BY DEF Receives
<1>2. Head(toDaemon) \in Request /\ Tail(toDaemon) \in Seq(Request)
  BY <1>1, TailElements DEF Frames
<1>3. QED
  BY <1>1, <1>2 DEF Request

\* The other threads and the daemon keep the types.
LEMMA TypeOthers ==
  ASSUME TypeInv,
         \/ Deliver \/ MonitorConnection \/ OnDeactivate \/ OnActivate \/ Connect
         \/ Disconnect \/ DaemonApplies \/ DaemonRefusesTask \/ DaemonQueuesTask
         \/ DaemonRunsTask \/ DaemonPrunes
  PROVE  TypeInv'
<1> USE DEF TypeInv, InCall, kind, Kinds
<1>1. CASE Deliver
  <2>1. toDriver # << >> /\ Head(toDriver) \in Response /\ Tail(toDriver) \in Seq(Response)
    BY <1>1, TailElements DEF Deliver, Frames
  <2>2. future' \in {"empty", "ok", "error"}
    BY <1>1, <2>1 DEF Deliver, TypeOK, Response
  <2>3. pendingAcks' \subseteq Seqs /\ pendingTasks' \subseteq Seqs /\ leaked' \subseteq Seqs
    BY <1>1 DEF Deliver, SetPending, Pending, TypeOK
  <2>4. pc = "register" => future' = future
    BY <1>1 DEF Deliver
  <2>5. TypeOK'
    BY <1>1, <2>2, <2>3 DEF Deliver, TypeOK, daemonVars
  <2>6. Frames'
    BY <1>1, <2>1 DEF Deliver, Frames, daemonVars
  <2>7. QED
    BY <1>1, <2>4, <2>5, <2>6 DEF Deliver
<1>2. CASE MonitorConnection
  <2>1. failedChecks' \in 0 .. MaxFailedChecks - 1
    BY <1>2, DriverAssumption DEF MonitorConnection, TypeOK
  <2>2. pendingAcks' \subseteq Seqs /\ pendingTasks' \subseteq Seqs /\ leaked' \subseteq Seqs
    BY <1>2 DEF MonitorConnection, ClearPending, TypeOK
  <2>3. QED
    BY <1>2, <2>1, <2>2
       DEF MonitorConnection, TypeOK, Frames, callVars, linkVars, daemonVars
<1>3. CASE OnDeactivate
  BY <1>3, LoseLinkTypes
     DEF OnDeactivate, LoseLink, ClearPending, TypeOK, Frames, callVars, daemonVars
<1>4. CASE OnActivate
  BY <1>4, DriverAssumption
     DEF OnActivate, TypeOK, Frames, callVars, linkVars, daemonVars
<1>5. CASE Connect
  BY <1>5 DEF Connect, TypeOK, Frames, nodeVars, callVars, daemonVars
<1>6. CASE Disconnect
  BY <1>6, LoseLinkTypes
     DEF Disconnect, LoseLink, TypeOK, Frames, nodeVars, callVars, daemonVars
<1>7. CASE DaemonApplies
  <2>1. Receives("ack")
    BY <1>7 DEF DaemonApplies
  <2>2. /\ Head(toDaemon).call \in Calls /\ Head(toDaemon).seq \in Seqs
        /\ toDaemon' \in Seq(Request)
    BY <2>1, ReceivesTypes
  <2>3. PICK status \in {"ok", "error"} :
           /\ Answer("ack", Head(toDaemon).seq, status)
           /\ applied' = [applied EXCEPT ![Head(toDaemon).call] =
                            IF status = "ok" THEN @ + 1 ELSE @]
    BY <1>7 DEF DaemonApplies
  <2>4. toDriver' \in Seq(Response)
    BY <2>2, <2>3, AnswerTypes
  <2>5. applied' \in [Calls -> Nat]
    BY <2>2, <2>3 DEF TypeOK
  <2>6. QED
    BY <1>7, <2>2, <2>4, <2>5 DEF DaemonApplies, TypeOK, Frames, nodeVars, callVars
<1>8. CASE DaemonRefusesTask
  <2>1. Receives("task") /\ Answer("ack", Head(toDaemon).seq, "error")
    BY <1>8 DEF DaemonRefusesTask
  <2>2. Head(toDaemon).seq \in Seqs /\ toDaemon' \in Seq(Request)
    BY <2>1, ReceivesTypes
  <2>3. toDriver' \in Seq(Response)
    BY <2>1, <2>2, AnswerTypes
  <2>4. QED
    BY <1>8, <2>2, <2>3 DEF DaemonRefusesTask, TypeOK, Frames, nodeVars, callVars, daemonVars
<1>9. CASE DaemonQueuesTask
  <2>1. Receives("task") /\ Answer("ack", Head(toDaemon).seq, "ok")
    BY <1>9 DEF DaemonQueuesTask
  <2>2. /\ Head(toDaemon).call \in Calls /\ Head(toDaemon).seq \in Seqs
        /\ toDaemon' \in Seq(Request)
    BY <2>1, ReceivesTypes
  <2>3. toDriver' \in Seq(Response)
    BY <2>1, <2>2, AnswerTypes
  <2>4. daemonQueue' \in Seq(Calls) /\ daemonPending' \subseteq Seqs
    BY <1>9, <2>2, AppendElements DEF DaemonQueuesTask, Frames, TypeOK
  <2>5. QED
    BY <1>9, <2>2, <2>3, <2>4 DEF DaemonQueuesTask, TypeOK, Frames, nodeVars, callVars
<1>10. CASE DaemonRunsTask
  <2>1. daemonQueue # << >> /\ Head(daemonQueue) \in Calls /\ Tail(daemonQueue) \in Seq(Calls)
    BY <1>10, TailElements DEF DaemonRunsTask, Frames
  <2>2. PICK s \in daemonPending \cup {0}, status \in {"ok", "error"} :
           /\ daemonPending' = daemonPending \ {s} /\ Answer("task", s, status)
           /\ applied' = [applied EXCEPT ![Head(daemonQueue)] =
                            IF status = "ok" THEN @ + 1 ELSE @]
    BY <1>10 DEF DaemonRunsTask
  <2>3. applied' \in [Calls -> Nat]
    BY <2>1, <2>2 DEF TypeOK
  <2>4. s \in Seqs
    BY <2>2, DriverAssumption DEF TypeOK, Seqs
  <2>5. toDriver' \in Seq(Response)
    BY <2>2, <2>4, AnswerTypes
  <2>6. daemonPending' \subseteq Seqs
    BY <2>2 DEF TypeOK
  <2>7. QED
    BY <1>10, <2>1, <2>3, <2>5, <2>6 DEF DaemonRunsTask, TypeOK, Frames, nodeVars, callVars
<1>11. CASE DaemonPrunes
  BY <1>11 DEF DaemonPrunes, TypeOK, Frames, nodeVars, callVars, linkVars
<1>12. QED
  BY <1>1, <1>2, <1>3, <1>4, <1>5, <1>6, <1>7, <1>8, <1>9, <1>10, <1>11

\* Every step keeps the types.
LEMMA TypeStep == TypeInv /\ [Next]_vars => TypeInv'
<1> SUFFICES ASSUME TypeInv, [Next]_vars PROVE TypeInv'
  OBVIOUS
<1>1. CASE UNCHANGED vars
  BY <1>1 DEF vars, nodeVars, callVars, linkVars, daemonVars, TypeInv, TypeOK, Frames,
              InCall, kind
<1>2. QED
  BY <1>1, TypeCallback, TypeOthers DEF Next, Kinds

\* The types are an invariant.
LEMMA TypeInvariant == Spec => []TypeInv
BY TypeInit, TypeStep, PTL DEF Spec

\* The type invariant of the driver's requests: keys fit the sequence
\* numbers, and what a call returned is a status of the callbacks.
THEOREM RequestTypesCorrect == Spec => []TypeOK
<1>1. TypeInv => TypeOK
  BY DEF TypeInv
<1>2. QED
  BY <1>1, TypeInvariant, PTL

-----------------------------------------------------------------------------
(* The maps of promises                                                    *)

\* The steps of the link and of the daemon see nothing of the node.
LinkStep ==
  \/ Connect \/ Disconnect \/ DaemonApplies \/ DaemonRefusesTask \/ DaemonQueuesTask
  \/ DaemonRunsTask \/ DaemonPrunes

\* The link and the daemon change no state of the node or of the call.
LEMMA LinkFrame == LinkStep => UNCHANGED <<nodeVars, callVars>>
BY DEF LinkStep, Connect, Disconnect, DaemonApplies, DaemonRefusesTask, DaemonQueuesTask,
       DaemonRunsTask, DaemonPrunes

\* Steps of the service callback keep what the maps may hold.
LEMMA MapCallback ==
  ASSUME TypeInv, MapInv, Callback \/ \E k \in Kinds : Begin(k)
  PROVE  MapInv'
<1> USE DEF MapInv, Waiting, kind, Pending, TypeInv, InCall, Kinds
<1>1. CASE \E k \in Kinds : Begin(k)
  BY <1>1 DEF Begin, nodeVars
<1>2. CASE Register
  BY <1>2 DEF Register, TakeFuture, SetPending
<1>3. CASE Retry
  <2>1. kind = "ack" /\ pc = "expired"
    BY <1>3 DEF Retry, Attempts
  <2>2. pendingTasks' = pendingTasks /\ pendingAcks' = (pendingAcks \ {seq}) \cup {nextSeq}
    BY <1>3, <2>1 DEF Retry, TakeFuture, SetPending
  <2>3. pendingAcks \ {seq} \subseteq leaked /\ pendingTasks = {}
    BY <2>1
  <2>4. QED
    BY <1>3, <2>1, <2>2, <2>3 DEF Retry, TakeFuture
<1>4. CASE SendOk
  BY <1>4 DEF SendOk, nodeVars
<1>5. CASE SendFails
  BY <1>5 DEF SendFails, Returns, SetPending
<1>6. CASE ResendFails
  BY <1>6 DEF ResendFails, Returns
<1>7. CASE Ready
  BY <1>7 DEF Ready, Returns, nodeVars
<1>8. CASE Timeout
  BY <1>8 DEF Timeout, nodeVars
<1>9. CASE GiveUp
  BY <1>9 DEF GiveUp, Returns, SetPending
<1>10. QED
  BY <1>1, <1>2, <1>3, <1>4, <1>5, <1>6, <1>7, <1>8, <1>9 DEF Callback

\* What the maps may hold is inductive.
LEMMA MapStep == TypeInv /\ MapInv /\ [Next]_vars => MapInv'
<1> SUFFICES ASSUME TypeInv, MapInv, [Next]_vars PROVE MapInv'
  OBVIOUS
<1> USE DEF MapInv, Waiting, kind, Pending
<1>1. CASE Deliver
  <2>1. Head(toDriver) \in Response
    BY <1>1, TailElements DEF Deliver, TypeInv, Frames
  <2> DEFINE frame == Head(toDriver)
  <2>2. frame.kind \in Kinds
    BY <2>1 DEF Response
  <2>3. CASE frame.kind = "ack"
    BY <1>1, <2>3 DEF Deliver, SetPending
  <2>4. CASE frame.kind = "task"
    BY <1>1, <2>4 DEF Deliver, SetPending
  <2>5. QED
    BY <2>2, <2>3, <2>4 DEF Kinds
<1>2. CASE MonitorConnection \/ OnDeactivate \/ OnActivate
  BY <1>2 DEF MonitorConnection, OnDeactivate, OnActivate, ClearPending, callVars
<1>3. CASE LinkStep \/ UNCHANGED vars
  BY <1>3, LinkFrame DEF vars, nodeVars, callVars
<1>4. QED
  BY <1>1, <1>2, <1>3, MapCallback DEF Next, Kinds, LinkStep

\* What may be left in the maps, at any time.
LEMMA MapInvariant == Spec => []MapInv
<1>1. Init => MapInv
  BY DEF Init, MapInv, Waiting
<1>2. QED
  BY <1>1, MapStep, TypeInvariant, PTL DEF Spec

\* Between service calls the two maps of promises hold nothing but the keys
\* of retries that could not be sent, for any number of calls, and also when
\* the sequence numbers have come round.
THEOREM OnlyFailedRetriesRemain == Spec => []OnlyFailedRetriesLeak
<1>1. MapInv => OnlyFailedRetriesLeak
  BY DEF MapInv, OnlyFailedRetriesLeak, Waiting
<1>2. QED
  BY <1>1, MapInvariant, PTL

\* A call that crashes on a promise whose future was taken does so in a
\* command, on the key a failed retry left: nothing else in the node makes two
\* attempts share a promise, however often the numbers come round.
THEOREM CrashNeedsLeakedKey == Spec => CrashOnlyOnLeakedKey
<1>1. TypeInv /\ MapInv /\ [Next]_vars
        => [pc' = "crashed" /\ pc # "crashed" => kind = "ack" /\ nextSeq \in leaked]_vars
  <2> SUFFICES ASSUME TypeInv, MapInv, Next, pc' = "crashed", pc # "crashed"
               PROVE  kind = "ack" /\ nextSeq \in leaked
    OBVIOUS
  <2>1. Register \/ Retry
    <3>1. ~\E k \in Kinds : Begin(k)
      BY DEF Begin
    <3>2. ~(SendOk \/ SendFails \/ ResendFails \/ Ready \/ Timeout \/ GiveUp)
      BY DEF SendOk, SendFails, ResendFails, Ready, Timeout, GiveUp, Returns
    <3>3. ~(Deliver \/ MonitorConnection \/ OnDeactivate \/ OnActivate \/ LinkStep)
      BY LinkFrame DEF Deliver, MonitorConnection, OnDeactivate, OnActivate, callVars
    <3>4. QED
      BY <3>1, <3>2, <3>3 DEF Next, Callback, Kinds, LinkStep
  <2>2. CASE Register
    BY <2>2 DEF Register, MapInv, Waiting, Pending, TypeInv, InCall, Kinds
  <2>3. CASE Retry
    BY <2>3 DEF Retry, Attempts, MapInv, Waiting, Pending
  <2>4. QED
    BY <2>1, <2>2, <2>3
<1>2. QED
  BY <1>1, TypeInvariant, MapInvariant, PTL DEF Spec, CrashOnlyOnLeakedKey

-----------------------------------------------------------------------------
(* What reaches the link                                                   *)

\* A call in progress has no result yet, and later calls have no kind either.
FreshInv ==
  /\ pc # "idle" => result[call] = "none"
  /\ \A c \in Calls : c > call => kindOf[c] = "none" /\ result[c] = "none"

\* The other actions of the driver leave the calls alone.
DriverStep == Deliver \/ MonitorConnection \/ OnDeactivate \/ OnActivate

\* Only a call in progress gets a result, once.
LEMMA FreshStep == TypeInv /\ FreshInv /\ [Next]_vars => FreshInv'
<1> SUFFICES ASSUME TypeInv, FreshInv, [Next]_vars PROVE FreshInv'
  OBVIOUS
<1> USE DEF FreshInv
<1>1. CASE \E k \in Kinds : Begin(k)
  <2>1. PICK k \in Kinds : Begin(k)
    BY <1>1
  <2>2. call \in Nat /\ call + 1 \in Calls /\ call' = call + 1
    BY <2>1, DriverAssumption DEF Begin, TypeInv, TypeOK, Calls
  <2>3. \A c \in Calls : c > call + 1 => c > call /\ c # call + 1
    BY <2>2 DEF Calls
  <2>4. \A c \in Calls \ {call + 1} : kindOf'[c] = kindOf[c] /\ result'[c] = result[c]
    BY <2>1, <2>2 DEF Begin, TypeInv, TypeOK
  <2>5. pc' # "idle" => result' = result
    BY <2>1 DEF Begin
  <2>6. call + 1 > call
    BY <2>2
  <2>7. result[call + 1] = "none"
    BY <2>2, <2>6
  <2>8. QED
    BY <2>2, <2>3, <2>4, <2>5, <2>7
<1>2. CASE SendFails \/ ResendFails \/ Ready \/ GiveUp
  <2>1. UNCHANGED <<call, kindOf>> /\ pc # "idle"
    BY <1>2 DEF SendFails, ResendFails, Ready, GiveUp
  <2>2. PICK r : Returns(r)
    BY <1>2 DEF SendFails, ResendFails, Ready, GiveUp
  <2>3. \A c \in Calls : c > call => c # call
    BY DEF TypeInv, TypeOK, Calls
  <2>4. \A c \in Calls : c > call => result'[c] = result[c]
    BY <2>2, <2>3 DEF Returns, TypeInv, TypeOK
  <2>5. QED
    BY <2>1, <2>2, <2>4 DEF Returns
<1>3. CASE Register \/ SendOk \/ Timeout \/ Retry
  BY <1>3 DEF Register, SendOk, Timeout, Retry
<1>4. CASE DriverStep \/ LinkStep \/ UNCHANGED vars
  <2>1. UNCHANGED <<pc, call, kindOf, result>>
    BY <1>4, LinkFrame DEF DriverStep, Deliver, MonitorConnection, OnDeactivate,
       OnActivate, vars, callVars
  <2>2. QED
    BY <2>1
<1>5. QED
  BY <1>1, <1>2, <1>3, <1>4 DEF Next, Callback, Kinds, DriverStep, LinkStep

\* Only a call in progress gets a result, at any time.
LEMMA FreshInvariant == Spec => []FreshInv
<1>1. Init => FreshInv
  BY DEF Init, FreshInv
<1>2. QED
  BY <1>1, FreshStep, TypeInvariant, PTL DEF Spec

\* Breaking the link brings no request to it.
LEMMA LoseLinkReaches ==
  ASSUME TypeInv, LoseLink
  PROVE  \A i \in DOMAIN toDaemon' : i \in DOMAIN toDaemon /\ toDaemon'[i] = toDaemon[i]
<1>1. PICK n \in 0 .. Len(toDaemon) : toDaemon' = SubSeq(toDaemon, 1, n)
  BY DEF LoseLink
<1>2. QED
  BY <1>1, PrefixElements DEF TypeInv, Frames

\* The frames left when the daemon has taken the first one.
LEMMA ReceivesReaches ==
  ASSUME TypeInv, NEW k \in Kinds, Receives(k)
  PROVE  /\ 1 \in DOMAIN toDaemon /\ toDaemon[1] = Head(toDaemon)
         /\ \A i \in DOMAIN toDaemon' :
               i \in Nat /\ i + 1 \in DOMAIN toDaemon /\ toDaemon'[i] = toDaemon[i + 1]
<1>1. /\ DOMAIN toDaemon = 1 .. Len(toDaemon) /\ Len(toDaemon) \in Nat \ {0}
      /\ DOMAIN toDaemon' = 1 .. Len(toDaemon) - 1 /\ Head(toDaemon) = toDaemon[1]
      /\ \A i \in 1 .. Len(toDaemon) - 1 : toDaemon'[i] = toDaemon[i + 1]
  BY TailElements DEF Receives, TypeInv, Frames
<1>2. QED
  BY <1>1

\* Nothing but the sending of its frame makes a call reach the link.
LEMMA ReachedBefore ==
  ASSUME TypeInv, DriverStep \/ LinkStep
  PROVE  \A c \in Calls : Reached(c)' => Reached(c)
<1> USE DEF Reached
<1>1. CASE OnDeactivate \/ Disconnect
  <2>1. LoseLink /\ UNCHANGED daemonVars
    BY <1>1 DEF OnDeactivate, Disconnect
  <2>2. QED
    BY <2>1, LoseLinkReaches DEF daemonVars
<1>2. CASE Deliver \/ MonitorConnection \/ OnActivate \/ Connect \/ DaemonPrunes
  BY <1>2 DEF Deliver, MonitorConnection, OnActivate, Connect, DaemonPrunes, linkVars,
              daemonVars
<1>3. CASE DaemonApplies
  <2>1. Receives("ack") /\ daemonQueue' = daemonQueue
    BY <1>3 DEF DaemonApplies
  <2>2. /\ 1 \in DOMAIN toDaemon /\ toDaemon[1] = Head(toDaemon)
        /\ \A i \in DOMAIN toDaemon' :
              i + 1 \in DOMAIN toDaemon /\ toDaemon'[i] = toDaemon[i + 1]
    BY <2>1, ReceivesReaches DEF Kinds
  <2>3. \A c \in Calls : c # Head(toDaemon).call => applied'[c] = applied[c]
    BY <1>3 DEF DaemonApplies, TypeInv, TypeOK
  <2>4. QED
    BY <2>1, <2>2, <2>3
<1>4. CASE DaemonRefusesTask
  <2>1. Receives("task") /\ UNCHANGED <<daemonQueue, applied>>
    BY <1>4 DEF DaemonRefusesTask, daemonVars
  <2>2. QED
    BY <2>1, ReceivesReaches DEF Kinds
<1>5. CASE DaemonQueuesTask
  <2>1. Receives("task") /\ UNCHANGED applied
    BY <1>5 DEF DaemonQueuesTask
  <2>2. /\ 1 \in DOMAIN toDaemon /\ toDaemon[1] = Head(toDaemon)
        /\ \A i \in DOMAIN toDaemon' :
              i + 1 \in DOMAIN toDaemon /\ toDaemon'[i] = toDaemon[i + 1]
    BY <2>1, ReceivesReaches DEF Kinds
  <2>3. Head(toDaemon).call \in Calls
    BY <2>1, ReceivesTypes DEF Kinds, TypeInv
  <2>4. \A i \in DOMAIN daemonQueue' : \/ i \in DOMAIN daemonQueue /\ daemonQueue'[i] = daemonQueue[i]
                                       \/ daemonQueue'[i] = Head(toDaemon).call
    BY <1>5, <2>3, AppendElements DEF DaemonQueuesTask, TypeInv, Frames
  <2>5. QED
    BY <2>1, <2>2, <2>4
<1>6. CASE DaemonRunsTask
  <2>1. toDaemon' = toDaemon /\ daemonQueue # << >> /\ daemonQueue' = Tail(daemonQueue)
    BY <1>6 DEF DaemonRunsTask
  <2>2. /\ 1 \in DOMAIN daemonQueue /\ daemonQueue[1] = Head(daemonQueue)
        /\ \A i \in DOMAIN daemonQueue' :
              i + 1 \in DOMAIN daemonQueue /\ daemonQueue'[i] = daemonQueue[i + 1]
    <3>1. daemonQueue \in Seq(Calls)
      BY DEF TypeInv, Frames
    <3>2. QED
      BY <2>1, <3>1, TailElements
  <2>3. \A c \in Calls : c # Head(daemonQueue) => applied'[c] = applied[c]
    BY <1>6 DEF DaemonRunsTask, TypeInv, TypeOK
  <2>4. QED
    BY <2>1, <2>2, <2>3
<1>7. QED
  BY <1>1, <1>2, <1>3, <1>4, <1>5, <1>6 DEF DriverStep, LinkStep

\* Sending a frame makes its call reach the link, and no other.
LEMMA ReachedBySending ==
  ASSUME TypeInv, SendOk
  PROVE  \A c \in Calls : Reached(c)' => Reached(c) \/ c = call
<1>1. [call |-> call, kind |-> kind, seq |-> seq] \in Request
  BY DEF SendOk, TypeInv, TypeOK, InCall, Request
<1>2. \A i \in DOMAIN toDaemon' : \/ i \in DOMAIN toDaemon /\ toDaemon'[i] = toDaemon[i]
                                  \/ toDaemon'[i].call = call
  BY <1>1, AppendElements DEF SendOk, TypeInv, Frames
<1>3. QED
  BY <1>2 DEF SendOk, Reached, daemonVars

\* Who has reached the link was sent, and was not refused.
LEMMA ReachStep == TypeInv /\ FreshInv /\ ReachInv /\ [Next]_vars => ReachInv'
<1> SUFFICES ASSUME TypeInv, FreshInv, ReachInv, [Next]_vars PROVE ReachInv'
  OBVIOUS
<1>1. CASE DriverStep \/ LinkStep
  <2>1. UNCHANGED <<pc, call, result>>
    BY <1>1, LinkFrame DEF DriverStep, Deliver, MonitorConnection, OnDeactivate,
       OnActivate, callVars
  <2>2. \A c \in Calls : Reached(c)' => Reached(c)
    BY <1>1, ReachedBefore
  <2>3. QED
    BY <2>1, <2>2 DEF ReachInv, Refused
<1>2. CASE SendOk
  <2>1. pc # "idle" /\ pc' = "wait" /\ UNCHANGED <<call, result>>
    BY <1>2 DEF SendOk
  <2>2. ~Refused(call)
    BY <2>1 DEF FreshInv, Refused
  <2>3. call <= call
    BY DEF TypeInv, TypeOK
  <2>4. QED
    BY <1>2, <2>1, <2>2, <2>3, ReachedBySending DEF ReachInv, Refused
<1>3. CASE \E k \in Kinds : Begin(k)
  <2>1. PICK k \in Kinds : Begin(k)
    BY <1>3
  <2>2. call \in Nat /\ call' = call + 1
    BY <2>1 DEF Begin, TypeInv, TypeOK
  <2>3. \A c \in Calls : c <= call => c <= call + 1 /\ c # call + 1
    BY <2>2 DEF Calls
  <2>4. \A c \in Calls : c # call + 1 => result'[c] = result[c]
    BY <2>1 DEF Begin, TypeInv, TypeOK
  <2>5. \A c \in Calls : Reached(c)' => Reached(c)
    BY <2>1 DEF Begin, Reached, linkVars, daemonVars
  <2>6. QED
    BY <2>2, <2>3, <2>4, <2>5 DEF ReachInv, Refused
<1>4. CASE Register \/ Retry \/ Timeout \/ UNCHANGED vars
  <2>1. \A c \in Calls : Reached(c)' => Reached(c)
    BY <1>4 DEF Register, Retry, Timeout, Reached, vars, linkVars, daemonVars
  <2>2. UNCHANGED <<call, result>>
    BY <1>4 DEF Register, Retry, Timeout, vars, callVars
  <2>3. pc' \in {"register", "send"} => pc \in {"register", "send"}
    BY <1>4 DEF Register, Retry, Timeout, vars, callVars
  <2>4. QED
    BY <2>1, <2>2, <2>3 DEF ReachInv, Refused
<1>5. CASE SendFails \/ ResendFails \/ Ready \/ GiveUp
  <2>1. UNCHANGED <<call, linkVars, daemonVars>>
    BY <1>5 DEF SendFails, ResendFails, Ready, GiveUp
  <2>2. \A c \in Calls : Reached(c)' => Reached(c)
    BY <2>1 DEF Reached, linkVars, daemonVars
  <2>3. PICK r : Returns(r) /\ (r = "send_failed" => pc = "send") /\ r # "not_connected"
    BY <1>5 DEF SendFails, ResendFails, Ready, GiveUp, TypeInv, TypeOK
  <2>4. \A c \in Calls : c # call => result'[c] = result[c]
    BY <2>3 DEF Returns, TypeInv, TypeOK
  <2>5. call \in Calls => result'[call] = r
    BY <2>3 DEF Returns, TypeInv, TypeOK
  <2>6. QED
    BY <2>1, <2>2, <2>3, <2>4, <2>5 DEF ReachInv, Refused, Returns
<1>6. QED
  BY <1>1, <1>2, <1>3, <1>4, <1>5 DEF Next, Callback, Kinds, DriverStep, LinkStep

\* Who has reached the link was sent, at any time.
LEMMA ReachInvariant == Spec => []ReachInv
<1>1. Init => ReachInv
  BY DEF Init, ReachInv, Reached
<1>2. QED
  BY <1>1, ReachStep, TypeInvariant, FreshInvariant, PTL DEF Spec

\* "Not connected" and "Failed to send" are final for any number of calls and
\* retries: no frame of such a call was under way, so none is carried out
\* after the client was told to issue it again.
THEOREM RefusedNeverApplied == Spec => []RefusedIsNeverApplied
<1>1. TypeInv /\ ReachInv => RefusedIsNeverApplied
  <2> SUFFICES ASSUME TypeInv, ReachInv, NEW c \in Calls, Refused(c)
               PROVE  applied[c] = 0
    BY DEF RefusedIsNeverApplied, Refused
  <2>1. ~Reached(c)
    BY DEF ReachInv
  <2>2. ~(applied[c] > 0) /\ applied[c] \in Nat
    BY <2>1 DEF Reached, TypeInv, TypeOK
  <2>3. QED
    BY <2>2
<1>2. QED
  BY <1>1, TypeInvariant, ReachInvariant, PTL

-----------------------------------------------------------------------------
(* Tasks are sent once and executed once                                   *)

\* A frame keeps its call's kind; a task has at most one frame under way or
\* one place in the daemon's queue, and is not executed before it leaves it.
OnceInv ==
  /\ \A i \in DOMAIN toDaemon : toDaemon[i].kind = kindOf[toDaemon[i].call]
  /\ \A i, j \in DOMAIN toDaemon :
       toDaemon[i].kind = "task" /\ toDaemon[i].call = toDaemon[j].call => i = j
  /\ \A i \in DOMAIN toDaemon, j \in DOMAIN daemonQueue : toDaemon[i].call # daemonQueue[j]
  /\ \A i, j \in DOMAIN daemonQueue : daemonQueue[i] = daemonQueue[j] => i = j
  /\ \A i \in DOMAIN toDaemon : toDaemon[i].kind = "task" => applied[toDaemon[i].call] = 0
  /\ \A i \in DOMAIN daemonQueue :
       applied[daemonQueue[i]] = 0 /\ kindOf[daemonQueue[i]] = "task"

\* The call of every frame is one of the calls.
LEMMA FrameCalls ==
  ASSUME TypeInv
  PROVE  /\ \A i \in DOMAIN toDaemon : toDaemon[i].call \in Calls /\ toDaemon[i].kind \in Kinds
         /\ \A i \in DOMAIN daemonQueue : daemonQueue[i] \in Calls
<1>1. \A i \in DOMAIN toDaemon : toDaemon[i] \in Request
  BY DEF TypeInv, Frames
<1>2. QED
  BY <1>1 DEF TypeInv, Frames, Request

\* Sending keeps a task in one place: a task's frame is sent once, when its
\* call has not reached the link.
LEMMA OnceSend ==
  ASSUME TypeInv, ReachInv, OnceInv, SendOk
  PROVE  OnceInv'
<1> DEFINE frame == [call |-> call, kind |-> kind, seq |-> seq]
<1>1. frame \in Request /\ call \in Calls /\ frame.kind = kindOf[call] /\ frame.call = call
  BY DEF SendOk, TypeInv, TypeOK, InCall, Request, kind
<1>2. /\ DOMAIN toDaemon' = 1 .. Len(toDaemon) + 1 /\ DOMAIN toDaemon = 1 .. Len(toDaemon)
      /\ Len(toDaemon) \in Nat
      /\ \A i \in 1 .. Len(toDaemon) : toDaemon'[i] = toDaemon[i]
      /\ toDaemon'[Len(toDaemon) + 1] = frame
  BY <1>1, AppendElements DEF SendOk, TypeInv, Frames
<1>3. UNCHANGED <<kindOf, daemonQueue, applied>>
  BY DEF SendOk, daemonVars
<1>4. \A i \in DOMAIN toDaemon' : \/ i \in DOMAIN toDaemon /\ toDaemon'[i] = toDaemon[i]
                                  \/ i = Len(toDaemon) + 1 /\ toDaemon'[i] = frame
  BY <1>2
<1> HIDE DEF frame
<1>5. CASE frame.kind = "task"
  <2>1. pc = "send"
    BY <1>1, <1>5 DEF SendOk, TypeInv, InCall, kind
  <2>2. ~Reached(call)
    BY <1>1, <2>1 DEF ReachInv
  <2>3. applied[call] = 0
    BY <1>1, <2>2 DEF Reached, TypeInv, TypeOK
  <2>4. /\ \A i \in DOMAIN toDaemon : toDaemon[i].call # call
        /\ \A i \in DOMAIN daemonQueue : daemonQueue[i] # call
    BY <2>2 DEF Reached
  <2>5. \A i, j \in DOMAIN toDaemon' :
          toDaemon'[i].kind = "task" /\ toDaemon'[i].call = toDaemon'[j].call => i = j
    BY <1>1, <1>4, <2>4 DEF OnceInv
  <2>6. \A i \in DOMAIN toDaemon', j \in DOMAIN daemonQueue' :
          toDaemon'[i].call # daemonQueue'[j]
    BY <1>1, <1>3, <1>4, <2>4 DEF OnceInv
  <2>7. \A i \in DOMAIN toDaemon' : toDaemon'[i].kind = kindOf'[toDaemon'[i].call]
    BY <1>1, <1>3, <1>4 DEF OnceInv
  <2>8. \A i \in DOMAIN toDaemon' :
          toDaemon'[i].kind = "task" => applied'[toDaemon'[i].call] = 0
    BY <1>1, <1>3, <1>4, <2>3 DEF OnceInv
  <2>9. \A i, j \in DOMAIN daemonQueue' : daemonQueue'[i] = daemonQueue'[j] => i = j
    BY <1>3 DEF OnceInv
  <2>10. \A i \in DOMAIN daemonQueue' :
           applied'[daemonQueue'[i]] = 0 /\ kindOf'[daemonQueue'[i]] = "task"
    BY <1>3 DEF OnceInv
  <2>11. QED
    BY <2>5, <2>6, <2>7, <2>8, <2>9, <2>10 DEF OnceInv
<1>6. CASE frame.kind # "task"
  BY <1>1, <1>3, <1>4, <1>6 DEF OnceInv
<1>7. QED
  BY <1>5, <1>6

\* The other steps of the callback keep tasks where they are.
LEMMA OnceCallback ==
  ASSUME TypeInv, FreshInv, ReachInv, OnceInv, Callback \/ \E k \in Kinds : Begin(k)
  PROVE  OnceInv'
<1>1. CASE \E k \in Kinds : Begin(k)
  <2>1. PICK k \in Kinds : Begin(k)
    BY <1>1
  <2>2. call \in Nat /\ UNCHANGED <<toDaemon, daemonQueue, applied>>
    BY <2>1 DEF Begin, TypeInv, TypeOK, linkVars, daemonVars
  <2>3. \A c \in Calls : c <= call => kindOf'[c] = kindOf[c]
    <3>1. \A c \in Calls : c <= call => c # call + 1
      BY <2>2 DEF Calls
    <3>2. QED
      BY <2>1, <3>1 DEF Begin, TypeInv, TypeOK
  <2>4. \A i \in DOMAIN toDaemon : kindOf'[toDaemon[i].call] = kindOf[toDaemon[i].call]
    BY <2>3, FrameCalls DEF ReachInv, Reached
  <2>5. \A i \in DOMAIN daemonQueue : kindOf'[daemonQueue[i]] = kindOf[daemonQueue[i]]
    BY <2>3, FrameCalls DEF ReachInv, Reached
  <2>6. QED
    BY <2>2, <2>4, <2>5 DEF OnceInv
<1>2. CASE SendOk
  BY <1>2, OnceSend
<1>3. CASE Register \/ SendFails \/ ResendFails \/ Ready \/ Timeout \/ Retry \/ GiveUp
  <2>1. UNCHANGED <<kindOf, toDaemon, daemonQueue, applied>>
    BY <1>3 DEF Register, SendFails, ResendFails, Ready, Timeout, Retry, GiveUp,
       linkVars, daemonVars
  <2>2. QED
    BY <2>1 DEF OnceInv
<1>4. QED
  BY <1>1, <1>2, <1>3 DEF Callback

\* The daemon moves a task from the link to its queue and executes it there.
LEMMA OnceDaemon ==
  ASSUME TypeInv, OnceInv,
         DaemonApplies \/ DaemonRefusesTask \/ DaemonQueuesTask \/ DaemonRunsTask
  PROVE  OnceInv'
<1> DEFINE first == Head(toDaemon).call
<1>1. kindOf' = kindOf
  BY LinkFrame DEF LinkStep, callVars
<1>2. ASSUME NEW k \in Kinds, Receives(k)
      PROVE  /\ 1 \in DOMAIN toDaemon /\ toDaemon[1].call = first /\ toDaemon[1].kind = k
             /\ first \in Calls /\ kindOf[first] = k
             /\ \A i \in DOMAIN toDaemon' :
                   /\ i \in Nat /\ i + 1 \in DOMAIN toDaemon /\ i + 1 # 1
                   /\ toDaemon'[i] = toDaemon[i + 1]
  <2>1. /\ 1 \in DOMAIN toDaemon /\ toDaemon[1] = Head(toDaemon)
        /\ \A i \in DOMAIN toDaemon' :
               i \in Nat /\ i + 1 \in DOMAIN toDaemon /\ toDaemon'[i] = toDaemon[i + 1]
    BY <1>2, ReceivesReaches
  <2>2. Head(toDaemon).kind = k /\ first \in Calls
    BY <1>2, ReceivesTypes DEF TypeInv
  <2>3. \A i \in Nat : i + 1 = 1 => i = 0
    OBVIOUS
  <2>4. \A i \in DOMAIN toDaemon' : i # 0
    BY <1>2, TailElements DEF Receives, TypeInv, Frames
  <2>5. QED
    BY <2>1, <2>2, <2>3, <2>4 DEF OnceInv
<1>3. ASSUME NEW i \in Nat, NEW j \in Nat, i + 1 = j + 1 PROVE i = j
  BY <1>3
<1> HIDE DEF first
<1>4. CASE DaemonApplies
  <2>1. Receives("ack") /\ daemonQueue' = daemonQueue
    BY <1>4 DEF DaemonApplies
  <2>2. \A c \in Calls : c # first => applied'[c] = applied[c]
    BY <1>4 DEF DaemonApplies, TypeInv, TypeOK, first
  <2>3. \A c \in Calls : kindOf[c] = "task" => applied'[c] = applied[c]
    BY <1>2, <2>1, <2>2 DEF Kinds
  <2>4. \A i \in DOMAIN toDaemon' :
           /\ i \in Nat /\ i + 1 \in DOMAIN toDaemon
           /\ toDaemon'[i] = toDaemon[i + 1]
    BY <1>2, <2>1 DEF Kinds
  <2>5. QED
    BY <1>1, <1>3, <2>1, <2>3, <2>4, FrameCalls DEF OnceInv
<1>5. CASE DaemonRefusesTask
  <2>1. Receives("task") /\ UNCHANGED <<daemonQueue, applied>>
    BY <1>5 DEF DaemonRefusesTask, daemonVars
  <2>2. \A i \in DOMAIN toDaemon' :
           /\ i \in Nat /\ i + 1 \in DOMAIN toDaemon
           /\ toDaemon'[i] = toDaemon[i + 1]
    BY <1>2, <2>1 DEF Kinds
  <2>3. QED
    BY <1>1, <1>3, <2>1, <2>2 DEF OnceInv
<1>6. CASE DaemonQueuesTask
  <2>1. Receives("task") /\ UNCHANGED applied
    BY <1>6 DEF DaemonQueuesTask
  <2>2. /\ 1 \in DOMAIN toDaemon /\ toDaemon[1].call = first /\ toDaemon[1].kind = "task"
        /\ first \in Calls /\ kindOf[first] = "task"
    BY <1>2, <2>1 DEF Kinds
  <2>3. \A i \in DOMAIN toDaemon' :
           /\ i \in Nat /\ i + 1 \in DOMAIN toDaemon /\ i + 1 # 1
           /\ toDaemon'[i] = toDaemon[i + 1]
    BY <1>2, <2>1 DEF Kinds
  <2>4. \A i \in DOMAIN daemonQueue' :
           \/ i \in DOMAIN daemonQueue /\ daemonQueue'[i] = daemonQueue[i]
           \/ i = Len(daemonQueue) + 1 /\ daemonQueue'[i] = first
    BY <1>6, <2>2, AppendElements DEF DaemonQueuesTask, TypeInv, Frames, first
  <2>5. \A i \in DOMAIN toDaemon' : toDaemon'[i].call # first
    BY <2>2, <2>3 DEF OnceInv
  <2>6. \A i \in DOMAIN daemonQueue : daemonQueue[i] # first
    BY <2>2 DEF OnceInv
  <2>7. applied[first] = 0
    BY <2>2 DEF OnceInv
  <2>8. QED
    BY <1>1, <1>3, <2>1, <2>2, <2>3, <2>4, <2>5, <2>6, <2>7 DEF OnceInv
<1>7. CASE DaemonRunsTask
  <2>1. toDaemon' = toDaemon /\ daemonQueue # << >> /\ daemonQueue' = Tail(daemonQueue)
    BY <1>7 DEF DaemonRunsTask
  <2>2. /\ 1 \in DOMAIN daemonQueue /\ daemonQueue[1] = Head(daemonQueue)
        /\ \A i \in DOMAIN daemonQueue' :
              i \in Nat /\ i + 1 \in DOMAIN daemonQueue /\ i + 1 # 1
              /\ daemonQueue'[i] = daemonQueue[i + 1]
    <3>1. daemonQueue \in Seq(Calls)
      BY DEF TypeInv, Frames
    <3>2. QED
      BY <2>1, <3>1, TailElements
  <2>3. \A c \in Calls : c # Head(daemonQueue) => applied'[c] = applied[c]
    BY <1>7 DEF DaemonRunsTask, TypeInv, TypeOK
  <2>4. \A i \in DOMAIN toDaemon' : applied'[toDaemon'[i].call] = applied[toDaemon[i].call]
    BY <2>1, <2>2, <2>3, FrameCalls DEF OnceInv
  <2>5. \A i \in DOMAIN daemonQueue' :
          daemonQueue'[i] # Head(daemonQueue) /\ daemonQueue'[i] \in Calls
    BY <2>2, FrameCalls DEF OnceInv
  <2>6. \A i \in DOMAIN daemonQueue' : applied'[daemonQueue'[i]] = applied[daemonQueue'[i]]
    BY <2>3, <2>5
  <2>7. QED
    BY <1>1, <1>3, <2>1, <2>2, <2>4, <2>6 DEF OnceInv
<1>8. QED
  BY <1>4, <1>5, <1>6, <1>7

\* Tasks are in one place at a time, and executed once.
LEMMA OnceStep == TypeInv /\ FreshInv /\ ReachInv /\ OnceInv /\ [Next]_vars => OnceInv'
<1> SUFFICES ASSUME TypeInv, FreshInv, ReachInv, OnceInv, [Next]_vars PROVE OnceInv'
  OBVIOUS
<1>1. CASE OnDeactivate \/ Disconnect
  <2>1. LoseLink /\ UNCHANGED daemonVars /\ kindOf' = kindOf
    BY <1>1 DEF OnDeactivate, Disconnect, callVars
  <2>2. \A i \in DOMAIN toDaemon' : i \in DOMAIN toDaemon /\ toDaemon'[i] = toDaemon[i]
    BY <2>1, LoseLinkReaches
  <2>3. QED
    BY <2>1, <2>2 DEF OnceInv, daemonVars
<1>2. CASE Deliver \/ MonitorConnection \/ OnActivate \/ Connect \/ DaemonPrunes
           \/ UNCHANGED vars
  <2>1. UNCHANGED <<kindOf, toDaemon, daemonQueue, applied>>
    BY <1>2 DEF Deliver, MonitorConnection, OnActivate, Connect, DaemonPrunes, vars,
       callVars, linkVars, daemonVars
  <2>2. QED
    BY <2>1 DEF OnceInv
<1>3. QED
  BY <1>1, <1>2, OnceCallback, OnceDaemon DEF Next, Kinds

\* Tasks are in one place at a time, at any time.
LEMMA OnceInvariant == Spec => []OnceInv
<1>1. Init => OnceInv
  BY DEF Init, OnceInv
<1>2. QED
  BY <1>1, OnceStep, TypeInvariant, FreshInvariant, ReachInvariant, PTL DEF Spec

-----------------------------------------------------------------------------
(* Each success of SendTask is backed by an executed task                  *)

\* The successes of tasks among the frames s.
TaskAnswers == {r \in Response : r.kind = "task" /\ r.status = "ok"}
TasksIn(s) == Places(s, TaskAnswers)

\* SendTask succeeded for the call, or is about to.
Granted == {c \in Calls : /\ kindOf[c] = "task"
                          /\ result[c] = "ok" \/ (c = call /\ Waiting /\ future = "ok")}

\* Successes, returned and still under way, are not more than the executed
\* tasks.
CountInv == Cardinality(Granted) + Cardinality(TasksIn(toDriver)) <= Cardinality(Executed)

\* There are finitely many answers.
LEMMA TasksInFinite ==
  ASSUME NEW s \in Seq(Response)
  PROVE  IsFiniteSet(TasksIn(s)) /\ Cardinality(TasksIn(s)) \in Nat
BY PlacesFinite DEF TasksIn

\* An answer appended counts if it is a task's success.
LEMMA TasksInAppend ==
  ASSUME NEW s \in Seq(Response), NEW e \in Response
  PROVE  Cardinality(TasksIn(Append(s, e))) =
           Cardinality(TasksIn(s)) + IF e.kind = "task" /\ e.status = "ok" THEN 1 ELSE 0
<1>1. e \in TaskAnswers <=> e.kind = "task" /\ e.status = "ok"
  BY DEF TaskAnswers
<1>2. QED
  BY <1>1, PlacesAppend DEF TasksIn

\* An answer taken from the front counts no more.
LEMMA TasksInTail ==
  ASSUME NEW s \in Seq(Response), s # << >>
  PROVE  Cardinality(TasksIn(Tail(s))) =
           Cardinality(TasksIn(s))
             - IF Head(s).kind = "task" /\ Head(s).status = "ok" THEN 1 ELSE 0
<1>1. Head(s) \in Response
  BY TailElements
<1>2. Head(s) \in TaskAnswers <=> Head(s).kind = "task" /\ Head(s).status = "ok"
  BY <1>1 DEF TaskAnswers
<1>3. QED
  BY <1>2, PlacesTail DEF TasksIn

\* There are finitely many calls.
LEMMA CallsFinite ==
  ASSUME NEW S, S \subseteq Calls
  PROVE  IsFiniteSet(S) /\ Cardinality(S) \in Nat
<1>1. IsFiniteSet(Calls)
  BY DriverAssumption, FS_Interval DEF Calls
<1>2. IsFiniteSet(S)
  BY <1>1, FS_Subset
<1>3. QED
  BY <1>2, FS_CardinalityType

\* Steps of the callback grant nothing: only an answer does.
LEMMA GrantedCallback ==
  ASSUME TypeInv, FreshInv, ReachInv, Callback \/ \E k \in Kinds : Begin(k)
  PROVE  /\ Granted' \subseteq Granted
         /\ Executed \subseteq Executed'
         /\ toDriver' = toDriver
<1>1. CASE \E k \in Kinds : Begin(k)
  <2>1. PICK k \in Kinds : Begin(k)
    BY <1>1
  <2>2. call \in Nat /\ call + 1 \in Calls /\ call + 1 > call
    BY <2>1, DriverAssumption DEF Begin, TypeInv, TypeOK, Calls
  <2>3. kindOf[call + 1] = "none" /\ result[call + 1] = "none"
    BY <2>2 DEF FreshInv
  <2>4. ~Waiting'
    BY <2>1 DEF Begin, Waiting
  <2>5. result'[call + 1] # "ok"
    BY <2>1, <2>2, <2>3 DEF Begin, TypeInv, TypeOK
  <2>6. \A c \in Calls : c # call + 1 => kindOf'[c] = kindOf[c] /\ result'[c] = result[c]
    BY <2>1 DEF Begin, TypeInv, TypeOK
  <2>7. applied' = applied /\ toDriver' = toDriver
    BY <2>1 DEF Begin, linkVars, daemonVars
  <2>8. Granted' \subseteq Granted
    BY <2>4, <2>5, <2>6 DEF Granted
  <2>9. Executed \subseteq Executed'
    BY <2>3, <2>6, <2>7 DEF Executed
  <2>10. QED
    BY <2>7, <2>8, <2>9
<1>2. CASE Register \/ SendOk \/ Timeout \/ Retry
  <2>1. UNCHANGED <<kindOf, call, result, applied, toDriver>>
    BY <1>2 DEF Register, SendOk, Timeout, Retry, linkVars, daemonVars
  <2>2. Waiting' /\ future' = "ok" => Waiting /\ future = "ok"
    BY <1>2 DEF Register, SendOk, Timeout, Retry, Waiting, TypeInv, InCall
  <2>3. QED
    BY <2>1, <2>2 DEF Granted, Executed
<1>3. CASE SendFails \/ ResendFails \/ Ready \/ GiveUp
  <2>1. UNCHANGED <<kindOf, call, applied, toDriver>>
    BY <1>3 DEF SendFails, ResendFails, Ready, GiveUp, linkVars, daemonVars
  <2>2. PICK r : Returns(r) /\ (r = "ok" => Waiting /\ future = "ok")
    BY <1>3 DEF SendFails, ResendFails, Ready, GiveUp, Waiting
  <2>3. \A c \in Calls : result'[c] = "ok" => result[c] = "ok" \/ (c = call /\ r = "ok")
    BY <2>2 DEF Returns, TypeInv, TypeOK
  <2>4. ~Waiting'
    BY <2>2 DEF Returns, Waiting
  <2>5. QED
    BY <2>1, <2>2, <2>3, <2>4 DEF Granted, Executed
<1>4. QED
  BY <1>1, <1>2, <1>3 DEF Callback

\* The bound is kept when nothing more is granted or under way.
LEMMA CountKept ==
  ASSUME TypeInv, CountInv, Granted' \subseteq Granted, Executed \subseteq Executed',
         toDriver' \in Seq(Response),
         Cardinality(TasksIn(toDriver')) <= Cardinality(TasksIn(toDriver))
  PROVE  CountInv'
<1>1. Granted \subseteq Calls /\ Executed' \subseteq Calls
  BY DEF Granted, Executed
<1>2. Cardinality(Granted') <= Cardinality(Granted)
  BY <1>1, CallsFinite, FS_Subset
<1>3. Cardinality(Executed) <= Cardinality(Executed')
  BY <1>1, CallsFinite, FS_Subset
<1>4. /\ Cardinality(Granted) \in Nat /\ Cardinality(Granted') \in Nat
      /\ Cardinality(Executed) \in Nat /\ Cardinality(Executed') \in Nat
  <2>1. Granted' \subseteq Calls /\ Executed \subseteq Calls
    BY <1>1
  <2>2. QED
    BY <1>1, <2>1, CallsFinite
<1>5. Cardinality(TasksIn(toDriver)) \in Nat /\ Cardinality(TasksIn(toDriver')) \in Nat
  BY TasksInFinite DEF TypeInv, Frames
<1>6. Cardinality(Granted') + Cardinality(TasksIn(toDriver')) <= Cardinality(Executed')
  BY <1>2, <1>3, <1>4, <1>5 DEF CountInv
<1>7. QED
  BY <1>6 DEF CountInv, TasksIn, Places

\* Delivering a task's success grants one call at most, and uses the answer
\* up; no other answer grants a task.
LEMMA CountDeliver ==
  ASSUME TypeInv, CountInv, Deliver
  PROVE  CountInv'
<1> DEFINE frame == Head(toDriver)
           success == frame.kind = "task" /\ frame.status = "ok"
<1>1. toDriver # << >> /\ toDriver \in Seq(Response) /\ toDriver' = Tail(toDriver)
  BY DEF Deliver, TypeInv, Frames
<1>2. toDriver' \in Seq(Response) /\ frame \in Response
  BY <1>1, TailElements
<1>3. Cardinality(TasksIn(toDriver')) =
        Cardinality(TasksIn(toDriver)) - IF success THEN 1 ELSE 0
  BY <1>1, TasksInTail
<1>4. UNCHANGED <<pc, call, kindOf, result, applied>>
  BY DEF Deliver, daemonVars
<1>5. Executed' = Executed
  BY <1>4 DEF Executed
<1>6. Cardinality(TasksIn(toDriver)) \in Nat
  BY <1>1, TasksInFinite
<1>7. CASE success
  <2>1. Granted' \subseteq Granted \cup {call}
    BY <1>4 DEF Granted, Waiting
  <2>2. Granted \subseteq Calls /\ Granted' \subseteq Calls
    BY DEF Granted
  <2>3. IsFiniteSet(Granted) /\ Cardinality(Granted) \in Nat /\ Cardinality(Granted') \in Nat
    BY <2>2, CallsFinite
  <2>4. /\ IsFiniteSet(Granted \cup {call})
        /\ Cardinality(Granted \cup {call}) = Cardinality(Granted)
           \/ Cardinality(Granted \cup {call}) = Cardinality(Granted) + 1
    BY <2>3, FS_AddElement
  <2>5. Cardinality(Granted') <= Cardinality(Granted \cup {call})
    BY <2>1, <2>4, FS_Subset
  <2>6. Cardinality(Executed) \in Nat
    BY CallsFinite DEF Executed
  <2>7. Cardinality(Granted') + Cardinality(TasksIn(toDriver')) <= Cardinality(Executed)
    BY <1>3, <1>6, <1>7, <2>3, <2>4, <2>5, <2>6 DEF CountInv
  <2>8. QED
    BY <1>5, <2>7 DEF CountInv, TasksIn, Places
<1>8. CASE ~success
  <2>1. kind = "task" => future' = future \/ future' # "ok"
    BY <1>8 DEF Deliver
  <2>2. Granted' \subseteq Granted
    BY <1>4, <2>1 DEF Granted, Waiting, kind
  <2>3. Cardinality(TasksIn(toDriver')) <= Cardinality(TasksIn(toDriver))
    BY <1>3, <1>6, <1>8
  <2>4. QED
    BY <1>2, <1>5, <2>2, <2>3, CountKept
<1>9. QED
  BY <1>7, <1>8

\* An answer of the daemon counts if it is a task's success, and it is sent.
LEMMA CountAnswer ==
  ASSUME TypeInv, NEW k \in Kinds, NEW s \in Seqs, NEW status \in {"ok", "error"},
         Answer(k, s, status)
  PROVE  /\ toDriver' \in Seq(Response)
         /\ Cardinality(TasksIn(toDriver')) <=
              Cardinality(TasksIn(toDriver))
                + IF k = "task" /\ status = "ok" THEN 1 ELSE 0
<1> DEFINE answer == [kind |-> k, seq |-> s, status |-> status]
<1>1. toDriver' \in Seq(Response)
  BY AnswerTypes DEF TypeInv
<1>2. /\ answer \in Response /\ answer.kind = k /\ answer.status = status
      /\ toDriver \in Seq(Response)
  BY DEF Response, TypeInv, Frames
<1>3. Cardinality(TasksIn(toDriver)) \in Nat
  BY <1>2, TasksInFinite
<1>4. CASE toDriver' = Append(toDriver, answer)
  <2>1. Cardinality(TasksIn(toDriver')) =
          Cardinality(TasksIn(toDriver))
            + IF answer.kind = "task" /\ answer.status = "ok" THEN 1 ELSE 0
    BY <1>2, <1>4, TasksInAppend
  <2>2. QED
    BY <1>1, <1>2, <1>3, <2>1
<1>5. CASE toDriver' = toDriver
  BY <1>1, <1>3, <1>5
<1>6. QED
  BY <1>4, <1>5 DEF Answer

\* The execution of a task pays for its success; a failure grants nothing.
LEMMA CountRunsTask ==
  ASSUME TypeInv, OnceInv, CountInv, DaemonRunsTask
  PROVE  CountInv'
<1> DEFINE first == Head(daemonQueue)
<1>1. first \in Calls /\ applied[first] = 0 /\ kindOf[first] = "task"
  <2>1. daemonQueue \in Seq(Calls) /\ daemonQueue # << >>
    BY DEF DaemonRunsTask, TypeInv, Frames
  <2>2. 1 \in DOMAIN daemonQueue /\ first = daemonQueue[1] /\ first \in Calls
    BY <2>1, TailElements
  <2>3. QED
    BY <2>2 DEF OnceInv
<1>2. UNCHANGED callVars
  BY DEF DaemonRunsTask
<1>3. Granted' = Granted
  BY <1>2 DEF Granted, callVars, Waiting
<1>4. PICK s \in daemonPending \cup {0}, status \in {"ok", "error"} :
         /\ Answer("task", s, status)
         /\ applied' = [applied EXCEPT ![first] = IF status = "ok" THEN @ + 1 ELSE @]
  BY DEF DaemonRunsTask
<1>5. s \in Seqs
  BY DriverAssumption DEF TypeInv, TypeOK, Seqs
<1>6. /\ toDriver' \in Seq(Response)
      /\ Cardinality(TasksIn(toDriver')) <=
           Cardinality(TasksIn(toDriver)) + IF status = "ok" THEN 1 ELSE 0
  BY <1>4, <1>5, CountAnswer DEF Kinds
<1>7. IsFiniteSet(Executed) /\ Cardinality(Executed) \in Nat
  BY CallsFinite DEF Executed
<1>8. /\ Cardinality(Granted) \in Nat
      /\ Cardinality(TasksIn(toDriver)) \in Nat /\ Cardinality(TasksIn(toDriver')) \in Nat
  BY <1>6, CallsFinite, TasksInFinite DEF Granted, TypeInv, Frames
<1>9. kindOf' = kindOf
  BY <1>2 DEF callVars
<1>10. CASE status = "ok"
  <2>1. applied'[first] > 0 /\ ~(applied[first] > 0)
    BY <1>1, <1>4, <1>10 DEF TypeInv, TypeOK
  <2>2. \A c \in Calls : c # first => applied'[c] = applied[c]
    BY <1>4 DEF TypeInv, TypeOK
  <2>3. Executed' = Executed \cup {first} /\ first \notin Executed
    BY <1>1, <1>9, <2>1, <2>2 DEF Executed
  <2>4. Cardinality(Executed') = Cardinality(Executed) + 1
    BY <1>7, <2>3, FS_AddElement
  <2>5. Cardinality(Granted) + Cardinality(TasksIn(toDriver')) <= Cardinality(Executed')
    BY <1>6, <1>7, <1>8, <1>10, <2>4 DEF CountInv
  <2>6. QED
    BY <1>3, <2>5 DEF CountInv, TasksIn, Places
<1>11. CASE status # "ok"
  <2>1. applied' = applied
    BY <1>1, <1>4, <1>11 DEF TypeInv, TypeOK
  <2>2. Executed \subseteq Executed'
    BY <1>9, <2>1 DEF Executed
  <2>3. Cardinality(TasksIn(toDriver')) <= Cardinality(TasksIn(toDriver))
    BY <1>6, <1>8, <1>11
  <2>4. Granted' \subseteq Granted
    BY <1>3
  <2>5. QED
    BY <1>6, <2>2, <2>3, <2>4, CountKept
<1>12. QED
  BY <1>10, <1>11

\* The link and the rest of the daemon grant nothing and undo nothing.
LEMMA CountLink ==
  ASSUME TypeInv, CountInv,
         \/ MonitorConnection \/ OnDeactivate \/ OnActivate \/ Connect \/ Disconnect
         \/ DaemonApplies \/ DaemonRefusesTask \/ DaemonQueuesTask \/ DaemonPrunes
         \/ UNCHANGED vars
  PROVE  CountInv'
<1>1. UNCHANGED callVars
  BY DEF MonitorConnection, OnDeactivate, OnActivate, Connect, Disconnect, DaemonApplies,
         DaemonRefusesTask, DaemonQueuesTask, DaemonPrunes, vars
<1>2. Granted' \subseteq Granted
  BY <1>1 DEF Granted, callVars, Waiting
<1>3. \A c \in Calls : applied[c] > 0 => applied'[c] > 0
  <2>1. CASE DaemonApplies
    BY <2>1 DEF DaemonApplies, TypeInv, TypeOK
  <2>2. CASE ~DaemonApplies
    BY <2>2 DEF MonitorConnection, OnDeactivate, OnActivate, Connect, Disconnect,
       DaemonRefusesTask, DaemonQueuesTask, DaemonPrunes, vars, daemonVars
  <2>3. QED
    BY <2>1, <2>2
<1>4. Executed \subseteq Executed'
  BY <1>1, <1>3 DEF Executed, callVars
<1>5. toDriver \in Seq(Response) /\ Cardinality(TasksIn(toDriver)) \in Nat
  BY TasksInFinite DEF TypeInv, Frames
<1>6. /\ toDriver' \in Seq(Response)
      /\ Cardinality(TasksIn(toDriver')) <= Cardinality(TasksIn(toDriver))
  <2>1. CASE toDriver' = toDriver
    BY <2>1, <1>5
  <2>2. CASE toDriver' = << >>
    <3>1. TasksIn(<< >>) = {}
      BY DEF TasksIn, Places
    <3>2. << >> \in Seq(Response) /\ Cardinality(TasksIn(<< >>)) = 0
      BY <3>1, FS_EmptySet
    <3>3. QED
      BY <1>5, <2>2, <3>2
  <2>3. CASE DaemonApplies
    <3>1. Receives("ack")
      BY <2>3 DEF DaemonApplies
    <3>2. Head(toDaemon).seq \in Seqs
      BY <3>1, ReceivesTypes DEF Kinds, TypeInv
    <3>3. PICK status \in {"ok", "error"} : Answer("ack", Head(toDaemon).seq, status)
      BY <2>3 DEF DaemonApplies
    <3>4. QED
      BY <1>5, <3>2, <3>3, CountAnswer DEF Kinds
  <2>4. CASE DaemonRefusesTask \/ DaemonQueuesTask
    <3>1. Receives("task")
      BY <2>4 DEF DaemonRefusesTask, DaemonQueuesTask
    <3>2. Head(toDaemon).seq \in Seqs
      BY <3>1, ReceivesTypes DEF Kinds, TypeInv
    <3>3. PICK status \in {"ok", "error"} : Answer("ack", Head(toDaemon).seq, status)
      BY <2>4 DEF DaemonRefusesTask, DaemonQueuesTask
    <3>4. QED
      BY <1>5, <3>2, <3>3, CountAnswer DEF Kinds
  <2>5. QED
    BY <2>1, <2>2, <2>3, <2>4
       DEF MonitorConnection, OnDeactivate, OnActivate, Connect, Disconnect, LoseLink,
           DaemonPrunes, vars, linkVars
<1>7. QED
  BY <1>2, <1>4, <1>6, CountKept

\* Successes stay backed by executed tasks.
LEMMA CountStep ==
  TypeInv /\ FreshInv /\ ReachInv /\ OnceInv /\ CountInv /\ [Next]_vars => CountInv'
<1> SUFFICES ASSUME TypeInv, FreshInv, ReachInv, OnceInv, CountInv, [Next]_vars
             PROVE  CountInv'
  OBVIOUS
<1>1. CASE Callback \/ \E k \in Kinds : Begin(k)
  <2>1. /\ Granted' \subseteq Granted /\ Executed \subseteq Executed'
        /\ toDriver' = toDriver
    BY <1>1, GrantedCallback
  <2>2. toDriver \in Seq(Response) /\ Cardinality(TasksIn(toDriver)) \in Nat
    BY TasksInFinite DEF TypeInv, Frames
  <2>3. QED
    BY <2>1, <2>2, CountKept
<1>2. QED
  BY <1>1, CountDeliver, CountRunsTask, CountLink DEF Next, Kinds

\* Successes are backed by executed tasks, at any time.
LEMMA CountInvariant == Spec => []CountInv
<1>1. Init => CountInv
  <2> SUFFICES ASSUME Init PROVE CountInv
    OBVIOUS
  <2>1. Granted = {} /\ TasksIn(toDriver) = {} /\ Executed = {}
    BY DEF Init, Granted, TasksIn, Places, Executed, Waiting
  <2>2. QED
    BY <2>1, FS_EmptySet DEF CountInv
<1>2. QED
  BY <1>1, CountStep, TypeInvariant, FreshInvariant, ReachInvariant, OnceInvariant, PTL
     DEF Spec

\* For any number of calls, and also when the sequence numbers have come
\* round, SendTask has not reported success more often than tasks were
\* executed: the MSG_ACK of a queued task grants nothing, and each execution
\* is answered once.
THEOREM SuccessesAreBacked == Spec => []TaskSuccessIsBacked
<1>1. TypeInv /\ CountInv => TaskSuccessIsBacked
  <2> SUFFICES ASSUME TypeInv, CountInv PROVE TaskSuccessIsBacked
    OBVIOUS
  <2>1. Succeeded \subseteq Granted /\ Succeeded \subseteq Calls
    BY DEF Succeeded, Granted
  <2>2. IsFiniteSet(Granted) /\ Cardinality(Granted) \in Nat
    BY CallsFinite DEF Granted
  <2>3. Cardinality(Succeeded) \in Nat
    BY <2>1, CallsFinite
  <2>4. Cardinality(Succeeded) <= Cardinality(Granted)
    BY <2>1, <2>2, FS_Subset
  <2>5. Cardinality(TasksIn(toDriver)) \in Nat
    BY TasksInFinite DEF TypeInv, Frames
  <2>6. Cardinality(Executed) \in Nat
    BY CallsFinite DEF Executed
  <2>7. QED
    BY <2>2, <2>3, <2>4, <2>5, <2>6 DEF CountInv, TaskSuccessIsBacked
<1>2. QED
  BY <1>1, TypeInvariant, CountInvariant, PTL

-----------------------------------------------------------------------------
(* How often a call is carried out                                         *)

\* The frames of the call on their way to the daemon.
FramesOf(c) == Places(toDaemon, {r \in Request : r.call = c})

\* The frames the call may still send.
TriesLeft(c) ==
  IF c > call THEN AckRetries + 1
  ELSE IF c < call \/ pc \in {"idle", "crashed"} THEN 0
  ELSE IF pc \in {"wait", "expired"} THEN retries ELSE retries + 1

\* A task is executed once at most.  A command's executions, its frames under
\* way and those it may still send share the attempts it is given.
AttemptInv ==
  /\ \A c \in Calls : kindOf[c] = "task" => applied[c] <= 1
  /\ \A c \in Calls : kindOf[c] # "task" =>
       applied[c] + Cardinality(FramesOf(c)) + TriesLeft(c) <= AckRetries + 1

\* The numbers the invariant adds.
LEMMA AttemptTypes ==
  ASSUME TypeInv, NEW c \in Calls
  PROVE  /\ Cardinality(FramesOf(c)) \in Nat
         /\ applied[c] \in Nat
         /\ retries \in Nat /\ AckRetries \in Nat /\ retries <= AckRetries
<1>1. Cardinality(FramesOf(c)) \in Nat
  BY PlacesFinite DEF FramesOf, TypeInv, Frames
<1>2. QED
  BY <1>1, DriverAssumption DEF TypeInv, TypeOK

\* The share of each call is kept by a step that moves none of its parts up.
LEMMA AttemptKept ==
  ASSUME TypeInv, AttemptInv, applied' = applied, kindOf' = kindOf,
         \A c \in Calls : /\ Cardinality(FramesOf(c)') \in Nat
                          /\ TriesLeft(c) \in Nat /\ TriesLeft(c)' \in Nat
                          /\ Cardinality(FramesOf(c)') + TriesLeft(c)' <=
                               Cardinality(FramesOf(c)) + TriesLeft(c)
  PROVE  AttemptInv'
<1>1. \A c \in Calls : kindOf'[c] = "task" => applied'[c] <= 1
  BY DEF AttemptInv
<1>2. ASSUME NEW c \in Calls, kindOf'[c] # "task"
      PROVE  applied'[c] + Cardinality(FramesOf(c)') + TriesLeft(c)' <= AckRetries + 1
  <2>1. applied[c] + Cardinality(FramesOf(c)) + TriesLeft(c) <= AckRetries + 1
    BY <1>2 DEF AttemptInv
  <2>2. applied[c] \in Nat /\ Cardinality(FramesOf(c)) \in Nat /\ AckRetries \in Nat
    BY AttemptTypes
  <2>3. QED
    BY <2>1, <2>2
<1>3. QED
  BY <1>1, <1>2 DEF AttemptInv, FramesOf, TriesLeft

\* The tries left are a number.
LEMMA TriesTypes ==
  ASSUME TypeInv, NEW c \in Calls
  PROVE  TriesLeft(c) \in Nat
BY AttemptTypes DEF TriesLeft

\* A call that begins, takes a number, gives up or returns uses no attempt
\* that it has not.
LEMMA AttemptCallback ==
  ASSUME TypeInv, TypeInv', FreshInv, ReachInv, AttemptInv,
         \/ \E k \in Kinds : Begin(k)
         \/ Register \/ SendFails \/ ResendFails \/ Ready \/ Timeout \/ Retry \/ GiveUp
  PROVE  AttemptInv'
<1>1. call \in Nat /\ applied' = applied /\ toDaemon' = toDaemon
  BY DEF Begin, Register, SendFails, ResendFails, Ready, Timeout, Retry, GiveUp,
         TypeInv, TypeOK, linkVars, daemonVars
<1>2. \A c \in Calls : FramesOf(c)' = FramesOf(c)
  BY <1>1 DEF FramesOf, Places, Request, Seqs, Calls
<1>3. \A c \in Calls : /\ TriesLeft(c) \in Nat /\ TriesLeft(c)' \in Nat
                       /\ Cardinality(FramesOf(c)) \in Nat
  <2>1. \A c \in Calls : TriesLeft(c) \in Nat /\ Cardinality(FramesOf(c)) \in Nat
    BY TriesTypes, AttemptTypes
  <2>2. \A c \in Calls : TriesLeft(c)' \in Nat
    <3>1. retries' \in Nat /\ call' \in Nat /\ AckRetries \in Nat
      BY DriverAssumption DEF TypeInv, TypeOK
    <3>2. ASSUME NEW c \in Calls PROVE TriesLeft(c)' \in Nat
      <4>1. \A n \in Nat : n + 1 \in Nat
        OBVIOUS
      <4>2. AckRetries + 1 \in Nat /\ retries' + 1 \in Nat
        BY <3>1, <4>1, Zenon
      <4>3. QED
        BY <3>1, <4>2 DEF TriesLeft
    <3>3. QED
      BY <3>2
  <2>3. QED
    BY <2>1, <2>2
<1>4. ASSUME NEW c \in Calls PROVE TriesLeft(c)' <= TriesLeft(c)
  <2>1. c \in Nat /\ retries \in Nat /\ AckRetries \in Nat /\ retries <= AckRetries
    BY AttemptTypes DEF Calls
  <2>2. CASE \E k \in Kinds : Begin(k)
    <3>1. pc = "idle" /\ call' = call + 1 /\ retries' = AckRetries
          /\ pc' \in {"register", "idle"}
      BY <2>2 DEF Begin
    <3>2. QED
      BY <1>1, <2>1, <3>1 DEF TriesLeft
  <2>3. CASE Register
    BY <1>1, <2>1, <2>3 DEF Register, TriesLeft
  <2>4. CASE SendFails \/ ResendFails \/ Ready \/ GiveUp
    BY <1>1, <2>1, <2>4 DEF SendFails, ResendFails, Ready, GiveUp, Returns, TriesLeft
  <2>5. CASE Timeout
    BY <1>1, <2>1, <2>5 DEF Timeout, TriesLeft
  <2>6. CASE Retry
    <3>1. /\ pc = "expired" /\ call' = call /\ retries > 0 /\ retries' = retries - 1
          /\ pc' \in {"resend", "crashed"}
      BY <2>6, <2>1 DEF Retry, Attempts
    <3>2. QED
      BY <1>1, <2>1, <3>1 DEF TriesLeft
  <2>7. QED
    BY <2>2, <2>3, <2>4, <2>5, <2>6
<1>5. \A c \in Calls : /\ Cardinality(FramesOf(c)') \in Nat
                       /\ Cardinality(FramesOf(c)') + TriesLeft(c)' <=
                            Cardinality(FramesOf(c)) + TriesLeft(c)
  <2>1. ASSUME NEW c \in Calls
        PROVE  /\ Cardinality(FramesOf(c)') \in Nat
               /\ Cardinality(FramesOf(c)') + TriesLeft(c)' <=
                    Cardinality(FramesOf(c)) + TriesLeft(c)
    <3>1. Cardinality(FramesOf(c)') = Cardinality(FramesOf(c))
      BY <1>2
    <3>2. QED
      BY <1>3, <1>4, <3>1
  <2>2. QED
    BY <2>1
<1>6. CASE kindOf' = kindOf
  BY <1>1, <1>3, <1>5, <1>6, AttemptKept
<1>7. CASE \E k \in Kinds : Begin(k)
  <2>1. PICK k \in Kinds : Begin(k)
    BY <1>7
  <2>2. \A c \in Calls : c # call + 1 => kindOf'[c] = kindOf[c]
    BY <2>1 DEF Begin, TypeInv, TypeOK
  <2>3. call + 1 \in Calls => kindOf[call + 1] = "none" /\ applied[call + 1] = 0
    <3>1. call + 1 > call /\ ~(call + 1 <= call)
      BY <1>1
    <3>2. call + 1 \in Calls => ~(applied[call + 1] > 0)
      BY <3>1 DEF ReachInv, Reached
    <3>3. QED
      BY <3>1, <3>2, AttemptTypes DEF FreshInv
  <2>4. \A c \in Calls : kindOf'[c] = "task" => applied'[c] <= 1
    BY <1>1, <2>2, <2>3 DEF AttemptInv
  <2>5. ASSUME NEW c \in Calls, kindOf'[c] # "task"
        PROVE  applied'[c] + Cardinality(FramesOf(c)') + TriesLeft(c)' <= AckRetries + 1
    <3>1. kindOf[c] # "task"
      BY <2>2, <2>3, <2>5
    <3>2. applied[c] + Cardinality(FramesOf(c)) + TriesLeft(c) <= AckRetries + 1
      BY <3>1 DEF AttemptInv
    <3>3. applied[c] \in Nat /\ AckRetries \in Nat /\ applied'[c] = applied[c]
      BY <1>1, AttemptTypes
    <3>4. QED
      BY <1>3, <1>5, <3>2, <3>3
  <2>6. QED
    BY <2>4, <2>5 DEF AttemptInv, FramesOf, TriesLeft
<1>8. QED
  BY <1>6, <1>7 DEF Register, SendFails, ResendFails, Ready, Timeout, Retry, GiveUp

\* A frame sent uses one of the attempts left.
LEMMA AttemptSend ==
  ASSUME TypeInv, AttemptInv, SendOk
  PROVE  AttemptInv'
<1> DEFINE frame == [call |-> call, kind |-> kind, seq |-> seq]
<1>1. frame \in Request /\ call \in Calls /\ frame.call = call /\ toDaemon \in Seq(Request)
  BY DEF SendOk, TypeInv, TypeOK, InCall, Request, Frames
<1>2. /\ UNCHANGED <<call, kindOf, retries, applied>> /\ toDaemon' = Append(toDaemon, frame)
      /\ pc \in {"send", "resend"} /\ pc' = "wait"
  BY DEF SendOk, daemonVars
<1> HIDE DEF frame
<1>3. ASSUME NEW c \in Calls
      PROVE  Cardinality(FramesOf(c)') = Cardinality(FramesOf(c)) + IF c = call THEN 1 ELSE 0
  <2> DEFINE A == {r \in Request : r.call = c}
  <2>1. Cardinality(Places(Append(toDaemon, frame), A)) =
          Cardinality(Places(toDaemon, A)) + IF frame \in A THEN 1 ELSE 0
    BY <1>1, PlacesAppend
  <2>2. frame \in A <=> c = call
    BY <1>1
  <2>3. FramesOf(c)' = Places(Append(toDaemon, frame), A)
    BY <1>2 DEF FramesOf, Places, Request, Seqs, Calls
  <2>4. QED
    BY <2>1, <2>2, <2>3 DEF FramesOf
<1>4. ASSUME NEW c \in Calls
      PROVE  /\ Cardinality(FramesOf(c)') \in Nat
             /\ TriesLeft(c) \in Nat /\ TriesLeft(c)' \in Nat
             /\ Cardinality(FramesOf(c)') + TriesLeft(c)' <=
                  Cardinality(FramesOf(c)) + TriesLeft(c)
  <2>1. /\ c \in Nat /\ call \in Nat /\ retries \in Nat /\ AckRetries \in Nat
        /\ Cardinality(FramesOf(c)) \in Nat /\ TriesLeft(c) \in Nat
    BY <1>1, AttemptTypes, TriesTypes DEF Calls
  <2>2. TriesLeft(c)' \in Nat /\ TriesLeft(c)' + (IF c = call THEN 1 ELSE 0) = TriesLeft(c)
    BY <1>2, <2>1 DEF TriesLeft
  <2>3. QED
    BY <1>3, <2>1, <2>2
<1>5. QED
  BY <1>2, <1>4, AttemptKept

\* A command carried out was a frame under way; a task is carried out from the
\* queue, for the first time.
LEMMA AttemptDaemon ==
  ASSUME TypeInv, OnceInv, AttemptInv,
         DaemonApplies \/ DaemonRefusesTask \/ DaemonQueuesTask \/ DaemonRunsTask
  PROVE  AttemptInv'
<1>1. UNCHANGED <<pc, call, kindOf, retries>>
  BY LinkFrame DEF LinkStep, callVars
<1>2. \A c \in Calls : TriesLeft(c)' = TriesLeft(c) /\ TriesLeft(c) \in Nat
  BY <1>1, TriesTypes DEF TriesLeft
<1>3. ASSUME NEW k \in Kinds, Receives(k), NEW c \in Calls
      PROVE  /\ Head(toDaemon).call \in Calls /\ kindOf[Head(toDaemon).call] = k
             /\ Cardinality(FramesOf(c)') =
                  Cardinality(FramesOf(c)) - IF c = Head(toDaemon).call THEN 1 ELSE 0
  <2> DEFINE A == {r \in Request : r.call = c}
  <2>1. /\ toDaemon # << >> /\ toDaemon' = Tail(toDaemon) /\ toDaemon \in Seq(Request)
        /\ Head(toDaemon).kind = k
    BY <1>3 DEF Receives, TypeInv, Frames
  <2>2. /\ 1 \in DOMAIN toDaemon /\ Head(toDaemon) = toDaemon[1]
        /\ Head(toDaemon) \in Request
    BY <2>1, TailElements
  <2>3. Cardinality(Places(Tail(toDaemon), A)) =
          Cardinality(Places(toDaemon, A)) - IF Head(toDaemon) \in A THEN 1 ELSE 0
    BY <2>1, PlacesTail
  <2>4. Head(toDaemon) \in A <=> c = Head(toDaemon).call
    BY <2>2
  <2>5. FramesOf(c)' = Places(Tail(toDaemon), A)
    BY <2>1 DEF FramesOf, Places, Request, Seqs, Calls
  <2>6. kindOf[Head(toDaemon).call] = k
    BY <2>1, <2>2 DEF OnceInv
  <2>7. Head(toDaemon).call \in Calls
    BY <2>2 DEF Request
  <2>8. Cardinality(FramesOf(c)') =
          Cardinality(FramesOf(c)) - IF c = Head(toDaemon).call THEN 1 ELSE 0
    BY <2>3, <2>4, <2>5 DEF FramesOf
  <2>9. QED
    BY <2>6, <2>7, <2>8
<1>4. CASE DaemonApplies
  <2> DEFINE first == Head(toDaemon).call
  <2>1. Receives("ack")
    BY <1>4 DEF DaemonApplies
  <2>2. ASSUME NEW c \in Calls
        PROVE  /\ applied'[c] <= applied[c] + IF c = first THEN 1 ELSE 0
               /\ applied'[c] \in Nat /\ applied[c] \in Nat
    BY <1>4, AttemptTypes DEF DaemonApplies, TypeInv, TypeOK
  <2>3. \A c \in Calls : kindOf[c] = "task" => c # first
    BY <1>3, <2>1 DEF Kinds
  <2> HIDE DEF first
  <2>4. \A c \in Calls : kindOf'[c] = "task" => applied'[c] <= 1
    <3>1. ASSUME NEW c \in Calls, kindOf'[c] = "task" PROVE applied'[c] <= 1
      <4>1. applied'[c] <= applied[c] /\ applied[c] <= 1
        BY <1>1, <2>2, <2>3, <3>1 DEF AttemptInv
      <4>2. QED
        BY <2>2, <4>1
    <3>2. QED
      BY <3>1
  <2>5. ASSUME NEW c \in Calls, kindOf'[c] # "task"
        PROVE  applied'[c] + Cardinality(FramesOf(c)') + TriesLeft(c)' <= AckRetries + 1
    <3>1. applied[c] + Cardinality(FramesOf(c)) + TriesLeft(c) <= AckRetries + 1
      BY <1>1, <2>5 DEF AttemptInv
    <3>2. Cardinality(FramesOf(c)') =
            Cardinality(FramesOf(c)) - IF c = first THEN 1 ELSE 0
      BY <1>3, <2>1 DEF Kinds, first
    <3>3. /\ Cardinality(FramesOf(c)) \in Nat /\ AckRetries \in Nat /\ TriesLeft(c) \in Nat
          /\ TriesLeft(c)' = TriesLeft(c)
      BY <1>2, AttemptTypes
    <3>4. QED
      BY <2>2, <3>1, <3>2, <3>3
  <2>6. QED
    BY <2>4, <2>5 DEF AttemptInv, FramesOf, TriesLeft
<1>5. CASE DaemonRefusesTask \/ DaemonQueuesTask
  <2>1. Receives("task") /\ applied' = applied
    BY <1>5 DEF DaemonRefusesTask, DaemonQueuesTask, daemonVars
  <2>2. ASSUME NEW c \in Calls
        PROVE  /\ Cardinality(FramesOf(c)') \in Nat
               /\ TriesLeft(c) \in Nat /\ TriesLeft(c)' \in Nat
               /\ Cardinality(FramesOf(c)') + TriesLeft(c)' <=
                    Cardinality(FramesOf(c)) + TriesLeft(c)
    <3>1. Cardinality(FramesOf(c)') =
            Cardinality(FramesOf(c)) - IF c = Head(toDaemon).call THEN 1 ELSE 0
      BY <1>3, <2>1 DEF Kinds
    <3>2. Cardinality(FramesOf(c)) \in Nat
      BY AttemptTypes
    <3>3. Cardinality(FramesOf(c)') \in Nat
      <4>1. Tail(toDaemon) \in Seq(Request) /\ toDaemon' = Tail(toDaemon)
        BY <2>1, TailElements DEF Receives, TypeInv, Frames
      <4>2. FramesOf(c)' = Places(Tail(toDaemon), {r \in Request : r.call = c})
        BY <4>1 DEF FramesOf, Places, Request, Seqs, Calls
      <4>3. QED
        BY <4>1, <4>2, PlacesFinite
    <3>4. QED
      BY <1>2, <3>1, <3>2, <3>3
  <2>3. QED
    BY <1>1, <2>1, <2>2, AttemptKept
<1>6. CASE DaemonRunsTask
  <2> DEFINE first == Head(daemonQueue)
  <2>1. first \in Calls /\ applied[first] = 0 /\ kindOf[first] = "task"
    <3>1. daemonQueue \in Seq(Calls) /\ daemonQueue # << >>
      BY <1>6 DEF DaemonRunsTask, TypeInv, Frames
    <3>2. 1 \in DOMAIN daemonQueue /\ first = daemonQueue[1] /\ first \in Calls
      BY <3>1, TailElements
    <3>3. QED
      BY <3>2 DEF OnceInv
  <2>2. /\ applied'[first] \in {0, 1}
        /\ \A c \in Calls : c # first => applied'[c] = applied[c]
    BY <1>6, <2>1 DEF DaemonRunsTask, TypeInv, TypeOK
  <2>3. \A c \in Calls : FramesOf(c)' = FramesOf(c)
    BY <1>6 DEF DaemonRunsTask, FramesOf, Places, Request, Seqs, Calls
  <2> HIDE DEF first
  <2>4. \A c \in Calls : kindOf'[c] = "task" => applied'[c] <= 1
    BY <1>1, <2>2 DEF AttemptInv
  <2>5. ASSUME NEW c \in Calls, kindOf'[c] # "task"
        PROVE  applied'[c] + Cardinality(FramesOf(c)') + TriesLeft(c)' <= AckRetries + 1
    BY <1>1, <1>2, <2>1, <2>2, <2>3, <2>5 DEF AttemptInv
  <2>6. QED
    BY <2>4, <2>5 DEF AttemptInv, FramesOf, TriesLeft
<1>7. QED
  BY <1>4, <1>5, <1>6

\* Each call keeps to its attempts.
LEMMA AttemptStep ==
  /\ TypeInv /\ TypeInv' /\ FreshInv /\ ReachInv /\ OnceInv /\ AttemptInv
  /\ [Next]_vars
  => AttemptInv'
<1> SUFFICES ASSUME TypeInv, TypeInv', FreshInv, ReachInv, OnceInv, AttemptInv, [Next]_vars
             PROVE  AttemptInv'
  OBVIOUS
<1>1. CASE Deliver \/ MonitorConnection \/ OnActivate \/ Connect \/ DaemonPrunes
           \/ UNCHANGED vars
  <2>1. UNCHANGED <<pc, call, kindOf, retries, toDaemon, applied>>
    BY <1>1 DEF Deliver, MonitorConnection, OnActivate, Connect, DaemonPrunes, vars,
       callVars, linkVars, daemonVars
  <2>2. QED
    BY <2>1 DEF AttemptInv, FramesOf, TriesLeft, Places, Request, Seqs, Calls
<1>2. CASE OnDeactivate \/ Disconnect
  <2>1. /\ LoseLink /\ UNCHANGED <<pc, call, kindOf, retries, applied>>
        /\ toDaemon \in Seq(Request)
    BY <1>2 DEF OnDeactivate, Disconnect, callVars, daemonVars, TypeInv, Frames
  <2>2. PICK n \in 0 .. Len(toDaemon) : toDaemon' = SubSeq(toDaemon, 1, n)
    BY <2>1 DEF LoseLink
  <2>3. ASSUME NEW c \in Calls
        PROVE  /\ Cardinality(FramesOf(c)') \in Nat
               /\ TriesLeft(c) \in Nat /\ TriesLeft(c)' \in Nat
               /\ Cardinality(FramesOf(c)') + TriesLeft(c)' <=
                    Cardinality(FramesOf(c)) + TriesLeft(c)
    <3> DEFINE A == {r \in Request : r.call = c}
    <3>1. FramesOf(c)' = Places(SubSeq(toDaemon, 1, n), A)
      BY <2>2 DEF FramesOf, Places, Request, Seqs, Calls
    <3>2. SubSeq(toDaemon, 1, n) \in Seq(Request)
      BY <2>1, PrefixElements
    <3>3. Cardinality(FramesOf(c)') \in Nat
      BY <3>1, <3>2, PlacesFinite
    <3>4. Cardinality(FramesOf(c)') <= Cardinality(FramesOf(c))
      BY <2>1, <3>1, PlacesPrefix DEF FramesOf
    <3>5. TriesLeft(c)' = TriesLeft(c) /\ TriesLeft(c) \in Nat
      BY <2>1, TriesTypes DEF TriesLeft
    <3>6. Cardinality(FramesOf(c)) \in Nat
      BY AttemptTypes
    <3>7. QED
      BY <3>3, <3>4, <3>5, <3>6
  <2>4. QED
    BY <2>1, <2>3, AttemptKept
<1>3. QED
  BY <1>1, <1>2, AttemptCallback, AttemptSend, AttemptDaemon DEF Next, Callback, Kinds

\* Each call keeps to its attempts, at any time.
LEMMA AttemptInvariant == Spec => []AttemptInv
<1>1. Init => AttemptInv
  <2> SUFFICES ASSUME Init PROVE AttemptInv
    OBVIOUS
  <2>1. ASSUME NEW c \in Calls
        PROVE  applied[c] = 0 /\ Cardinality(FramesOf(c)) = 0 /\ TriesLeft(c) = AckRetries + 1
    <3>1. FramesOf(c) = {}
      BY DEF Init, FramesOf, Places
    <3>2. c > call
      BY DEF Init, Calls
    <3>3. QED
      BY <3>1, <3>2, FS_EmptySet DEF Init, TriesLeft
  <2>2. QED
    BY <2>1, DriverAssumption DEF AttemptInv
<1>2. QED
  BY <1>1, AttemptStep, TypeInvariant, FreshInvariant, ReachInvariant, OnceInvariant,
     PTL DEF Spec

\* For any number of calls, retries and broken links, and also when the
\* sequence numbers have come round, the daemon carries a command out no more
\* often than send_and_wait_ack() sent it, ack_retries + 1 times at most, a
\* task once at most and a refused call never.
THEOREM CarriedOutPerAttempt == Spec => []AppliedOncePerAttempt
<1>1. TypeInv /\ AttemptInv /\ RefusedIsNeverApplied => AppliedOncePerAttempt
  <2> SUFFICES ASSUME TypeInv, AttemptInv, NEW c \in Calls
               PROVE  applied[c] <= IF kindOf[c] = "task" THEN 1 ELSE AckRetries + 1
    BY DEF AppliedOncePerAttempt
  <2>1. /\ Cardinality(FramesOf(c)) \in Nat /\ applied[c] \in Nat /\ TriesLeft(c) \in Nat
        /\ AckRetries \in Nat
    BY AttemptTypes, TriesTypes
  <2>2. CASE kindOf[c] = "task"
    BY <2>2 DEF AttemptInv
  <2>3. CASE kindOf[c] # "task"
    BY <2>1, <2>3 DEF AttemptInv
  <2>4. QED
    BY <2>2, <2>3
<1>2. QED
  BY <1>1, TypeInvariant, AttemptInvariant, RefusedNeverApplied, PTL

-----------------------------------------------------------------------------
(* Sequence numbers, until the counter comes round                         *)

\* The calls use fewer numbers than there are: next_seq_ does not come round.
NumbersSuffice == MaxCalls * (AckRetries + 1) < SeqSpace

\* The numbers the call in progress may still take.
Left == IF pc = "register" THEN retries + 1 ELSE IF Waiting THEN retries ELSE 0

\* Every number in use is below the counter, which has room for the attempts
\* left.
NumberInv ==
  /\ pc # "crashed"
  /\ reused = {}
  /\ nextSeq + Left <= call * (AckRetries + 1)
  /\ \A s \in pendingAcks \cup pendingTasks : s < nextSeq
  /\ \A i \in DOMAIN toDaemon : toDaemon[i].seq < nextSeq
  /\ \A i \in DOMAIN toDriver : toDriver[i].kind = "ack" => toDriver[i].seq < nextSeq
  /\ Waiting => seq < nextSeq

\* One call more brings one share of numbers more, and all shares suffice.
LEMMA Shares ==
  ASSUME NumbersSuffice, NEW n \in 0 .. MaxCalls
  PROVE  /\ n * (AckRetries + 1) \in Nat
         /\ (n + 1) * (AckRetries + 1) = n * (AckRetries + 1) + (AckRetries + 1)
         /\ n * (AckRetries + 1) < SeqSpace
<1>1. /\ n \in Nat /\ MaxCalls \in Nat /\ AckRetries \in Nat /\ AckRetries + 1 \in Nat
      /\ SeqSpace \in Nat /\ n <= MaxCalls
  BY DriverAssumption
<1>2. \A a, b, c \in Nat : a <= b => a * c <= b * c
  <2>1. ASSUME NEW a \in Nat, NEW b \in Nat, NEW c \in Nat, a <= b PROVE a * c <= b * c
    <3>1. b - a \in Nat
      BY <2>1
    <3>2. \A x, y \in Nat : x * y \in Nat
      OBVIOUS
    <3>3. (b - a) * c \in Nat
      BY <3>1, <3>2
    <3>4. b * c = a * c + (b - a) * c
      OBVIOUS
    <3>5. a * c \in Nat /\ b * c \in Nat
      BY <3>2
    <3>6. QED
      BY <3>3, <3>4, <3>5
  <2>2. QED
    BY <2>1
<1>3. \A a, b \in Nat : (a + 1) * b = a * b + b
  OBVIOUS
<1>4. n * (AckRetries + 1) <= MaxCalls * (AckRetries + 1)
  BY <1>1, <1>2
<1>5. n * (AckRetries + 1) \in Nat /\ MaxCalls * (AckRetries + 1) \in Nat
  BY <1>1
<1>6. QED
  BY <1>1, <1>3, <1>4, <1>5 DEF NumbersSuffice

\* While attempts are left the counter does not wrap.
LEMMA CounterAdvances ==
  ASSUME NumbersSuffice, TypeInv, NumberInv, Left > 0
  PROVE  (nextSeq + 1) % SeqSpace = nextSeq + 1 /\ nextSeq \in Nat
<1>1. nextSeq \in Nat /\ SeqSpace \in Nat /\ Left \in Nat
  BY DriverAssumption DEF TypeInv, TypeOK, Seqs, Left
<1>2. call * (AckRetries + 1) < SeqSpace /\ call * (AckRetries + 1) \in Nat
  BY Shares DEF TypeInv, TypeOK
<1>3. nextSeq + 1 < SeqSpace
  BY <1>1, <1>2 DEF NumberInv
<1>4. QED
  BY <1>1, <1>3

\* Steps of the callback keep every number below the counter.
LEMMA NumberCallback ==
  ASSUME NumbersSuffice, TypeInv, NumberInv, Callback \/ \E k \in Kinds : Begin(k)
  PROVE  NumberInv'
<1>1. nextSeq \in Nat /\ seq \in Nat /\ retries \in Nat /\ retries <= AckRetries
      /\ AckRetries \in Nat
  BY DriverAssumption DEF TypeInv, TypeOK, Seqs
<1>2. call \in Nat /\ call * (AckRetries + 1) \in Nat
  BY Shares DEF TypeInv, TypeOK
<1>3. CASE \E k \in Kinds : Begin(k)
  <2>1. PICK k \in Kinds : Begin(k)
    BY <1>3
  <2>2. /\ pc = "idle" /\ call' = call + 1 /\ retries' = AckRetries
        /\ pc' \in {"register", "idle"}
        /\ UNCHANGED <<nextSeq, pendingAcks, pendingTasks, seq, toDaemon, toDriver, reused>>
    BY <2>1 DEF Begin, nodeVars, linkVars
  <2>3. call' * (AckRetries + 1) = call * (AckRetries + 1) + (AckRetries + 1)
    BY <2>2, Shares DEF TypeInv, TypeOK
  <2>4. Left = 0 /\ Left' <= AckRetries + 1 /\ Left' \in Nat /\ ~Waiting'
    BY <1>1, <2>2 DEF Left, Waiting
  <2>5. nextSeq + Left' <= call' * (AckRetries + 1)
    BY <1>1, <1>2, <2>3, <2>4 DEF NumberInv
  <2>6. QED
    BY <2>2, <2>4, <2>5 DEF NumberInv
<1>4. CASE Register \/ Retry
  <2>1. Left > 0 /\ Left \in Nat
    BY <1>1, <1>4 DEF Register, Retry, Attempts, Left, Waiting
  <2>2. (nextSeq + 1) % SeqSpace = nextSeq + 1
    BY <2>1, CounterAdvances
  <2>3. nextSeq' = nextSeq + 1 /\ seq' = nextSeq /\ UNCHANGED <<call, toDaemon, toDriver>>
    BY <1>4, <2>2 DEF Register, Retry, TakeFuture, linkVars
  <2>4. \A s \in pendingAcks' \cup pendingTasks' :
           s \in pendingAcks \cup pendingTasks \cup {nextSeq}
    BY <1>4 DEF Register, Retry, TakeFuture, SetPending, Pending
  <2>5. nextSeq \notin pendingAcks \cup pendingTasks
    BY <1>1 DEF NumberInv
  <2>6. pc' \in {"send", "resend"}
    BY <1>4, <2>5 DEF Register, Retry, Pending
  <2>7. Left' = Left - 1
    BY <1>1, <1>4, <2>6 DEF Register, Retry, Attempts, Left, Waiting
  <2>8. nextSeq' + Left' <= call' * (AckRetries + 1)
    BY <1>1, <1>2, <2>1, <2>3, <2>7 DEF NumberInv
  <2>9. \A s \in Nat : s < nextSeq => s < nextSeq'
    BY <1>1, <2>3
  <2>10. \A s \in pendingAcks' \cup pendingTasks' : s < nextSeq'
    <3>1. pendingAcks \subseteq Nat /\ pendingTasks \subseteq Nat
      BY DEF TypeInv, TypeOK, Seqs
    <3>2. nextSeq < nextSeq'
      BY <1>1, <2>3
    <3>3. QED
      BY <2>4, <2>9, <3>1, <3>2 DEF NumberInv
  <2>11. \A i \in DOMAIN toDaemon' : toDaemon'[i].seq < nextSeq'
    <3>1. \A i \in DOMAIN toDaemon : toDaemon[i] \in Request
      BY DEF TypeInv, Frames
    <3>2. \A i \in DOMAIN toDaemon : toDaemon[i].seq \in Nat
      BY <3>1 DEF Request, Seqs
    <3>3. QED
      BY <2>3, <2>9, <3>2 DEF NumberInv
  <2>12. \A i \in DOMAIN toDriver' : toDriver'[i].kind = "ack" => toDriver'[i].seq < nextSeq'
    <3>1. \A i \in DOMAIN toDriver : toDriver[i] \in Response
      BY DEF TypeInv, Frames
    <3>2. \A i \in DOMAIN toDriver : toDriver[i].seq \in Nat
      BY <3>1 DEF Response, Seqs
    <3>3. QED
      BY <2>3, <2>9, <3>2 DEF NumberInv
  <2>13. seq' < nextSeq'
    BY <1>1, <2>3
  <2>14. reused' = {}
    <3>1. ~OnTheWay(nextSeq)
      BY <1>1 DEF OnTheWay, NumberInv
    <3>2. QED
      BY <1>4, <3>1 DEF Register, Retry, TakeFuture, NumberInv
  <2>15. QED
    BY <2>6, <2>8, <2>10, <2>11, <2>12, <2>13, <2>14 DEF NumberInv
<1>5. CASE SendOk \/ SendFails \/ ResendFails \/ Ready \/ Timeout \/ GiveUp
  <2>1. /\ UNCHANGED <<nextSeq, seq, call, retries, toDriver, reused>>
        /\ pendingAcks' \subseteq pendingAcks /\ pendingTasks' \subseteq pendingTasks
        /\ pc' \in {"wait", "idle", "expired"} /\ Waiting
    BY <1>5 DEF SendOk, SendFails, ResendFails, Ready, Timeout, GiveUp, Returns,
       SetPending, Pending, Waiting, nodeVars, linkVars
  <2>2. Left' <= Left /\ Left' \in Nat /\ Left \in Nat
    BY <1>1, <2>1 DEF Left, Waiting
  <2>3. nextSeq' + Left' <= call' * (AckRetries + 1)
    BY <1>1, <1>2, <2>1, <2>2 DEF NumberInv
  <2>4. \A i \in DOMAIN toDaemon' : toDaemon'[i].seq < nextSeq
    <3>1. CASE SendOk
      <4>1. [call |-> call, kind |-> kind, seq |-> seq] \in Request
        BY <3>1 DEF SendOk, TypeInv, TypeOK, InCall, Request
      <4>2. \A i \in DOMAIN toDaemon' : \/ i \in DOMAIN toDaemon /\ toDaemon'[i] = toDaemon[i]
                                        \/ toDaemon'[i].seq = seq
        BY <3>1, <4>1, AppendElements DEF SendOk, TypeInv, Frames
      <4>3. QED
        BY <2>1, <4>2 DEF NumberInv
    <3>2. CASE toDaemon' = toDaemon
      BY <3>2 DEF NumberInv
    <3>3. QED
      BY <1>5, <3>1, <3>2 DEF SendFails, ResendFails, Ready, Timeout, GiveUp, linkVars
  <2>5. QED
    BY <2>1, <2>3, <2>4 DEF NumberInv
<1>6. QED
  BY <1>3, <1>4, <1>5 DEF Callback

\* The answer of the daemon joins the frames under way, or none does.
LEMMA AnswerElements ==
  ASSUME TypeInv, NEW k \in Kinds, NEW s \in Seqs, NEW status \in {"ok", "error"},
         Answer(k, s, status)
  PROVE  \A i \in DOMAIN toDriver' :
           \/ i \in DOMAIN toDriver /\ toDriver'[i] = toDriver[i]
           \/ /\ toDriver'[i].kind = k
              /\ toDriver'[i].seq = s
              /\ toDriver'[i].status = status
<1>1. [kind |-> k, seq |-> s, status |-> status] \in Response
  BY DEF Response
<1>2. QED
  BY <1>1, AppendElements DEF Answer, TypeInv, Frames

\* What an action of the link or of the daemon leaves under way: requests that
\* were, and answers that were or that echo the number of the first request.
LEMMA LinkElements ==
  ASSUME TypeInv, LinkStep
  PROVE  /\ \A i \in DOMAIN toDaemon' :
              \E j \in DOMAIN toDaemon : toDaemon'[i] = toDaemon[j]
         /\ \A i \in DOMAIN toDriver' : toDriver'[i].kind = "ack" =>
              \/ i \in DOMAIN toDriver /\ toDriver'[i] = toDriver[i]
              \/ /\ DaemonApplies \/ DaemonRefusesTask \/ DaemonQueuesTask
                 /\ 1 \in DOMAIN toDaemon
                 /\ toDriver'[i].seq = toDaemon[1].seq
<1>1. CASE Disconnect
  <2>1. LoseLink /\ toDriver' = << >>
    BY <1>1 DEF Disconnect, LoseLink
  <2>2. QED
    BY <2>1, LoseLinkReaches
<1>2. CASE Connect \/ DaemonPrunes
  BY <1>2 DEF Connect, DaemonPrunes, linkVars
<1>3. CASE DaemonApplies \/ DaemonRefusesTask \/ DaemonQueuesTask
  <2>1. PICK k \in Kinds : Receives(k)
    BY <1>3 DEF DaemonApplies, DaemonRefusesTask, DaemonQueuesTask, Kinds
  <2>2. /\ 1 \in DOMAIN toDaemon /\ toDaemon[1] = Head(toDaemon)
        /\ \A i \in DOMAIN toDaemon' :
              i + 1 \in DOMAIN toDaemon /\ toDaemon'[i] = toDaemon[i + 1]
    BY <2>1, ReceivesReaches
  <2>3. PICK status \in {"ok", "error"} : Answer("ack", Head(toDaemon).seq, status)
    BY <1>3 DEF DaemonApplies, DaemonRefusesTask, DaemonQueuesTask
  <2>4. Head(toDaemon).seq \in Seqs
    BY <2>1, ReceivesTypes DEF TypeInv
  <2>5. \A i \in DOMAIN toDriver' : \/ i \in DOMAIN toDriver /\ toDriver'[i] = toDriver[i]
                                    \/ toDriver'[i].seq = Head(toDaemon).seq
    BY <2>3, <2>4, AnswerElements DEF Kinds
  <2>6. QED
    BY <1>3, <2>2, <2>5
<1>4. CASE DaemonRunsTask
  <2>1. PICK s \in daemonPending \cup {0}, status \in {"ok", "error"} :
           Answer("task", s, status)
    BY <1>4 DEF DaemonRunsTask
  <2>2. s \in Seqs
    BY <2>1, DriverAssumption DEF TypeInv, TypeOK, Seqs
  <2>3. \A i \in DOMAIN toDriver' : \/ i \in DOMAIN toDriver /\ toDriver'[i] = toDriver[i]
                                    \/ toDriver'[i].kind = "task"
    BY <2>1, <2>2, AnswerElements DEF Kinds
  <2>4. toDaemon' = toDaemon
    BY <1>4 DEF DaemonRunsTask
  <2>5. QED
    BY <2>3, <2>4
<1>5. QED
  BY <1>1, <1>2, <1>3, <1>4 DEF LinkStep

\* What an action of the RX thread, a timer or a transition leaves under way.
LEMMA DriverElements ==
  ASSUME TypeInv, DriverStep
  PROVE  /\ \A i \in DOMAIN toDaemon' : i \in DOMAIN toDaemon /\ toDaemon'[i] = toDaemon[i]
         /\ \A i \in DOMAIN toDriver' :
              \E j \in DOMAIN toDriver : toDriver'[i] = toDriver[j]
<1>1. CASE Deliver
  <2>1. toDriver \in Seq(Response) /\ toDriver # << >> /\ toDriver' = Tail(toDriver)
    BY <1>1 DEF Deliver, TypeInv, Frames
  <2>2. \A i \in DOMAIN toDriver' : i + 1 \in DOMAIN toDriver /\ toDriver'[i] = toDriver[i + 1]
    BY <2>1, TailElements
  <2>3. toDaemon' = toDaemon
    BY <1>1 DEF Deliver
  <2>4. QED
    BY <2>2, <2>3
<1>2. CASE OnDeactivate
  <2>1. LoseLink /\ toDriver' = << >>
    BY <1>2 DEF OnDeactivate, LoseLink
  <2>2. QED
    BY <2>1, LoseLinkReaches
<1>3. CASE MonitorConnection \/ OnActivate
  BY <1>3 DEF MonitorConnection, OnActivate, linkVars
<1>4. QED
  BY <1>1, <1>2, <1>3 DEF DriverStep

\* Every step keeps the numbers below the counter.
LEMMA NumberStep ==
  ASSUME NumbersSuffice
  PROVE  TypeInv /\ NumberInv /\ [Next]_vars => NumberInv'
<1> SUFFICES ASSUME TypeInv, NumberInv, [Next]_vars PROVE NumberInv'
  OBVIOUS
<1>1. CASE Callback \/ \E k \in Kinds : Begin(k)
  BY <1>1, NumberCallback
<1>2. CASE DriverStep
  <2>1. /\ UNCHANGED <<nextSeq, seq, call, retries, pc, reused>>
        /\ pendingAcks' \subseteq pendingAcks /\ pendingTasks' \subseteq pendingTasks
    BY <1>2 DEF DriverStep, Deliver, MonitorConnection, OnDeactivate, OnActivate,
       ClearPending, SetPending, Pending, callVars
  <2>2. Left' = Left /\ Waiting' = Waiting
    BY <2>1 DEF Left, Waiting
  <2>3. QED
    BY <1>2, <2>1, <2>2, DriverElements DEF NumberInv
<1>3. CASE LinkStep
  <2>1. UNCHANGED <<nextSeq, seq, call, retries, pc, pendingAcks, pendingTasks, reused>>
    BY <1>3, LinkFrame DEF nodeVars, callVars
  <2>2. Left' = Left /\ Waiting' = Waiting
    BY <2>1 DEF Left, Waiting
  <2>3. QED
    BY <1>3, <2>1, <2>2, LinkElements DEF NumberInv
<1>4. CASE UNCHANGED vars
  BY <1>4 DEF vars, nodeVars, callVars, linkVars, NumberInv, Left,
              Waiting
<1>5. QED
  BY <1>1, <1>2, <1>3, <1>4 DEF Next, Kinds, DriverStep, LinkStep

\* Numbers in use stay below the counter, at any time.
LEMMA NumberInvariant ==
  ASSUME NumbersSuffice
  PROVE  Spec => []NumberInv
<1>1. Init => NumberInv
  <2>1. 0 * (AckRetries + 1) = 0
    BY DriverAssumption
  <2>2. QED
    BY <2>1 DEF Init, NumberInv, Left, Waiting
<1>2. TypeInv /\ NumberInv /\ [Next]_vars => NumberInv'
  BY NumberStep
<1>3. QED
  BY <1>1, <1>2, TypeInvariant, PTL DEF Spec

\* As long as the calls use fewer sequence numbers than there are, no call is
\* given a number that a frame under way bears: what OkMeansApplied leaves out
\* does not happen, and no exception ends the process.
THEOREM NumbersStayApart ==
  ASSUME NumbersSuffice
  PROVE  Spec => [](reused = {} /\ pc # "crashed")
<1>1. NumberInv => reused = {} /\ pc # "crashed"
  BY DEF NumberInv
<1>2. QED
  BY <1>1, NumberInvariant, PTL

-----------------------------------------------------------------------------
(* Answers are taken by the call they are for                              *)

\* An answer under way that would end the waiting command with success.
Succeeds(frame) == frame.kind = "ack" /\ frame.seq = seq /\ frame.status = "ok"

\* A frame with the waiting call's number is that call's, and an answer that
\* makes the command succeed, under way or taken, is one to a command that was
\* carried out.
OwnInv ==
  /\ OkMeansApplied
  /\ Waiting /\ call \notin reused =>
       \A i \in DOMAIN toDaemon : toDaemon[i].seq = seq => toDaemon[i].call = call
  /\ Waiting /\ kind = "ack" /\ call \notin reused =>
       /\ \A i \in DOMAIN toDriver : Succeeds(toDriver[i]) => applied[call] > 0
       /\ future = "ok" => applied[call] > 0

\* Steps of the callback give an answer to its own call.
LEMMA OwnCallback ==
  ASSUME TypeInv, FreshInv, OwnInv,
         Callback \/ \E k \in Kinds : Begin(k)
  PROVE  OwnInv'
<1>1. CASE \E k \in Kinds : Begin(k)
  <2>1. PICK k \in Kinds : Begin(k)
    BY <1>1
  <2>2. call + 1 \in Calls /\ call + 1 > call
    BY <2>1, DriverAssumption DEF Begin, TypeInv, TypeOK, Calls
  <2>3. result'[call + 1] # "ok"
    BY <2>1, <2>2 DEF Begin, FreshInv, TypeInv, TypeOK
  <2>4. \A c \in Calls : c # call + 1 => kindOf'[c] = kindOf[c] /\ result'[c] = result[c]
    BY <2>1 DEF Begin, TypeInv, TypeOK
  <2>5. applied' = applied /\ reused' = reused /\ ~Waiting'
    BY <2>1 DEF Begin, Waiting, nodeVars, daemonVars
  <2>6. OkMeansApplied'
    BY <2>3, <2>4, <2>5 DEF OwnInv, OkMeansApplied
  <2>7. QED
    BY <2>5, <2>6 DEF OwnInv
<1>2. CASE Register \/ Retry
  <2>1. /\ seq' = nextSeq
        /\ UNCHANGED <<call, kindOf, toDaemon, toDriver, applied, result>>
    BY <1>2 DEF Register, Retry, TakeFuture, linkVars, daemonVars
  <2>2. future' = "empty"
    BY <1>2 DEF Register, Retry, TypeInv, InCall
  <2>3. /\ reused \subseteq reused'
        /\ call \notin reused' => ~OnTheWay(nextSeq)
    BY <1>2 DEF Register, Retry, TakeFuture
  <2>4. call \notin reused' => \A i \in DOMAIN toDaemon : toDaemon[i].seq # nextSeq
    BY <2>3 DEF OnTheWay
  <2>5. call \notin reused' =>
          \A i \in DOMAIN toDriver : toDriver[i].kind = "ack" => toDriver[i].seq # nextSeq
    BY <2>3 DEF OnTheWay
  <2>6. call \notin reused' => \A i \in DOMAIN toDriver' : ~Succeeds(toDriver[i])'
    BY <2>1, <2>5 DEF Succeeds
  <2>7. OkMeansApplied'
    BY <2>1, <2>3 DEF OwnInv, OkMeansApplied
  <2>8. QED
    BY <2>1, <2>2, <2>4, <2>6, <2>7 DEF OwnInv
<1>3. CASE SendOk
  <2>1. [call |-> call, kind |-> kind, seq |-> seq] \in Request
    BY <1>3 DEF SendOk, TypeInv, TypeOK, InCall, Request
  <2>2. \A i \in DOMAIN toDaemon' : \/ i \in DOMAIN toDaemon /\ toDaemon'[i] = toDaemon[i]
                                    \/ toDaemon'[i].call = call
    BY <1>3, <2>1, AppendElements DEF SendOk, TypeInv, Frames
  <2>3. /\ UNCHANGED <<call, kindOf, seq, toDriver, applied, result, future, reused>>
        /\ Waiting
    BY <1>3 DEF SendOk, Waiting, nodeVars, daemonVars
  <2>4. OkMeansApplied'
    BY <2>3 DEF OwnInv, OkMeansApplied
  <2>5. QED
    BY <2>2, <2>3, <2>4 DEF OwnInv, Succeeds, kind
<1>4. CASE Timeout
  <2>1. /\ UNCHANGED <<call, kindOf, seq, toDaemon, toDriver, applied, result, future>>
        /\ Waiting /\ reused' = reused
    BY <1>4 DEF Timeout, Waiting, nodeVars, linkVars, daemonVars
  <2>2. QED
    BY <2>1 DEF OwnInv, OkMeansApplied, Succeeds, kind
<1>5. CASE SendFails \/ ResendFails \/ Ready \/ GiveUp
  <2>1. UNCHANGED <<call, kindOf, applied, reused>> /\ Waiting
    BY <1>5 DEF SendFails, ResendFails, Ready, GiveUp, Waiting, nodeVars, daemonVars
  <2>2. PICK r : Returns(r) /\ (r = "ok" => future = "ok")
    BY <1>5 DEF SendFails, ResendFails, Ready, GiveUp
  <2>3. \A c \in Calls : result'[c] = "ok" => result[c] = "ok" \/ (c = call /\ r = "ok")
    BY <2>2 DEF Returns, TypeInv, TypeOK
  <2>4. OkMeansApplied'
    BY <2>1, <2>2, <2>3 DEF OwnInv, OkMeansApplied, kind
  <2>5. ~Waiting'
    BY <2>2 DEF Returns, Waiting
  <2>6. QED
    BY <2>4, <2>5 DEF OwnInv
<1>6. QED
  BY <1>1, <1>2, <1>3, <1>4, <1>5 DEF Callback

\* The RX thread, the timers and the transitions give an answer to its call.
LEMMA OwnDriver ==
  ASSUME TypeInv, OwnInv, DriverStep
  PROVE  OwnInv'
<1>1. UNCHANGED <<pc, call, kindOf, seq, result, applied, reused>>
  BY DEF DriverStep, Deliver, MonitorConnection, OnDeactivate, OnActivate, callVars,
         daemonVars
<1>2. OkMeansApplied'
  BY <1>1 DEF OwnInv, OkMeansApplied
<1>3. Waiting' = Waiting /\ kind' = kind
  BY <1>1 DEF Waiting, kind
<1>4. /\ \A i \in DOMAIN toDaemon' : i \in DOMAIN toDaemon /\ toDaemon'[i] = toDaemon[i]
      /\ \A i \in DOMAIN toDriver' :
           \E j \in DOMAIN toDriver : toDriver'[i] = toDriver[j]
  BY DriverElements
<1>5. ASSUME NEW i \in DOMAIN toDriver', Succeeds(toDriver[i])'
      PROVE  \E j \in DOMAIN toDriver : Succeeds(toDriver[j])
  BY <1>1, <1>4, <1>5 DEF Succeeds
<1>6. ASSUME kind = "ack", future' = "ok"
      PROVE  future = "ok" \/ \E j \in DOMAIN toDriver : Succeeds(toDriver[j])
  <2>1. CASE Deliver
    <3>1. toDriver \in Seq(Response) /\ toDriver # << >>
      BY <2>1 DEF Deliver, TypeInv, Frames
    <3>2. 1 \in DOMAIN toDriver /\ Head(toDriver) = toDriver[1]
      BY <3>1, TailElements
    <3>3. future' = future \/ Succeeds(Head(toDriver))
      BY <1>6, <2>1 DEF Deliver, Succeeds
    <3>4. QED
      BY <1>6, <3>2, <3>3
  <2>2. CASE MonitorConnection \/ OnDeactivate \/ OnActivate
    BY <1>6, <2>2 DEF MonitorConnection, OnDeactivate, OnActivate, callVars
  <2>3. QED
    BY <2>1, <2>2 DEF DriverStep
<1>7. QED
  BY <1>1, <1>2, <1>3, <1>4, <1>5, <1>6 DEF OwnInv

\* The daemon's success is one it carried out.
LEMMA OwnLink ==
  ASSUME TypeInv, OnceInv, OwnInv, LinkStep
  PROVE  OwnInv'
<1>1. UNCHANGED <<pc, call, kindOf, seq, result, future, reused>>
  BY LinkFrame DEF nodeVars, callVars
<1>2. Waiting' = Waiting /\ kind' = kind
  BY <1>1 DEF Waiting, kind
<1>3. \A c \in Calls : applied[c] > 0 => applied'[c] > 0
  <2>1. CASE DaemonApplies
    BY <2>1 DEF DaemonApplies, TypeInv, TypeOK
  <2>2. CASE DaemonRunsTask
    BY <2>2 DEF DaemonRunsTask, TypeInv, TypeOK
  <2>3. CASE Connect \/ Disconnect \/ DaemonRefusesTask \/ DaemonQueuesTask \/ DaemonPrunes
    BY <2>3 DEF Connect, Disconnect, DaemonRefusesTask, DaemonQueuesTask, DaemonPrunes,
       daemonVars
  <2>4. QED
    BY <2>1, <2>2, <2>3 DEF LinkStep
<1>4. OkMeansApplied'
  BY <1>1, <1>3 DEF OwnInv, OkMeansApplied
<1>5. \A i \in DOMAIN toDaemon' : \E j \in DOMAIN toDaemon : toDaemon'[i] = toDaemon[j]
  BY LinkElements
<1>6. ASSUME Waiting, kind = "ack", call \notin reused,
             NEW i \in DOMAIN toDriver', Succeeds(toDriver[i])'
      PROVE  applied'[call] > 0
  <2>1. /\ toDriver'[i].kind = "ack" /\ toDriver'[i].seq = seq
        /\ toDriver'[i].status = "ok"
    BY <1>1, <1>6 DEF Succeeds
  <2>2. call \in Calls
    BY <1>6 DEF Waiting, TypeInv, InCall
  <2>3. CASE i \in DOMAIN toDriver /\ toDriver'[i] = toDriver[i]
    BY <1>3, <1>6, <2>1, <2>2, <2>3 DEF OwnInv, Succeeds
  <2>4. CASE ~(i \in DOMAIN toDriver /\ toDriver'[i] = toDriver[i])
    <3>1. /\ DaemonApplies \/ DaemonRefusesTask \/ DaemonQueuesTask
          /\ 1 \in DOMAIN toDaemon /\ toDaemon[1].seq = seq
      BY <2>1, <2>4, LinkElements
    <3>2. toDaemon[1].call = call /\ toDaemon[1].kind = "ack"
      BY <1>6, <3>1 DEF OwnInv, OnceInv, kind
    <3>3. PICK k \in Kinds : Receives(k) /\ (k = "ack" => DaemonApplies)
      BY <3>1 DEF DaemonApplies, DaemonRefusesTask, DaemonQueuesTask, Kinds
    <3>4. toDaemon[1] = Head(toDaemon)
      BY <3>3, ReceivesReaches
    <3>5. DaemonApplies
      BY <3>2, <3>3, <3>4 DEF Receives
    <3>6. Receives("ack")
      BY <3>5 DEF DaemonApplies
    <3>7. Head(toDaemon).seq \in Seqs
      BY <3>6, ReceivesTypes DEF Kinds, TypeInv
    <3>8. PICK status \in {"ok", "error"} :
             /\ Answer("ack", Head(toDaemon).seq, status)
             /\ applied' = [applied EXCEPT ![Head(toDaemon).call] =
                              IF status = "ok" THEN @ + 1 ELSE @]
      BY <3>5 DEF DaemonApplies
    <3>9. status = "ok"
      BY <2>1, <2>4, <3>7, <3>8, AnswerElements DEF Kinds
    <3>10. applied'[call] = applied[call] + 1 /\ applied[call] \in Nat
      BY <2>2, <3>2, <3>4, <3>8, <3>9 DEF TypeInv, TypeOK
    <3>11. QED
      BY <3>10
  <2>5. QED
    BY <2>3, <2>4
<1>7. Waiting => call \in Calls
  BY DEF Waiting, TypeInv, InCall
<1>8. QED
  BY <1>1, <1>2, <1>3, <1>4, <1>5, <1>6, <1>7 DEF OwnInv

\* An answer is given to its own call, at any time.
LEMMA OwnInvariant == Spec => []OwnInv
<1>1. Init => OwnInv
  BY DEF Init, OwnInv, OkMeansApplied, Waiting
<1>2. TypeInv /\ FreshInv /\ OnceInv /\ OwnInv /\ [Next]_vars => OwnInv'
  <2> SUFFICES ASSUME TypeInv, FreshInv, OnceInv, OwnInv, [Next]_vars
               PROVE  OwnInv'
    OBVIOUS
  <2>1. CASE Callback \/ \E k \in Kinds : Begin(k)
    BY <2>1, OwnCallback
  <2>2. CASE DriverStep
    BY <2>2, OwnDriver
  <2>3. CASE LinkStep
    BY <2>3, OwnLink
  <2>4. CASE UNCHANGED vars
    BY <2>4 DEF vars, nodeVars, callVars, linkVars, daemonVars, OwnInv, OkMeansApplied, Succeeds,
                Waiting, kind
  <2>5. QED
    BY <2>1, <2>2, <2>3, <2>4 DEF Next, Kinds, DriverStep, LinkStep
<1>3. QED
  BY <1>1, <1>2, TypeInvariant, FreshInvariant, OnceInvariant, PTL
     DEF Spec

\* A command whose service reports success was carried out, for any number of
\* calls and retries and also when the sequence numbers have come round: no
\* answer to an earlier attempt, to another call or to a task is taken for its
\* own, unless the number drawn was that of a frame still under way.
THEOREM SuccessMeansApplied == Spec => []OkMeansApplied
<1>1. OwnInv => OkMeansApplied
  BY DEF OwnInv
<1>2. QED
  BY <1>1, OwnInvariant, PTL

-----------------------------------------------------------------------------
(* The numbers the daemon receives                                         *)

\* What DaemonTasks assumes of its peer (PeerNumbersDistinct): the frames on
\* their way bear different numbers, none of which the daemon still has in its
\* map of unanswered tasks.
DaemonSeesFreshNumbers ==
  /\ \A i, j \in DOMAIN toDaemon : i # j => toDaemon[i].seq # toDaemon[j].seq
  /\ \A i \in DOMAIN toDaemon : toDaemon[i].seq \notin daemonPending

Sending == pc \in {"send", "resend"}

\* The numbers grow along the way: what the daemon has in its map, then the
\* frames under way, then the frame about to be sent.
OrderInv ==
  /\ \A i, j \in DOMAIN toDaemon : i < j => toDaemon[i].seq < toDaemon[j].seq
  /\ \A i \in DOMAIN toDaemon : \A s \in daemonPending : s < toDaemon[i].seq
  /\ \A s \in daemonPending : s < nextSeq
  /\ Sending => /\ \A i \in DOMAIN toDaemon : toDaemon[i].seq < seq
                /\ \A s \in daemonPending : s < seq

\* Steps of the callback append to the frames under way in order.
LEMMA OrderCallback ==
  ASSUME NumbersSuffice, TypeInv, NumberInv, OrderInv,
         Callback \/ \E k \in Kinds : Begin(k)
  PROVE  OrderInv'
<1>1. daemonPending' = daemonPending /\ daemonPending \subseteq Nat /\ nextSeq \in Nat
  BY DEF Callback, Begin, Register, SendOk, SendFails, ResendFails, Ready, Timeout, Retry,
         GiveUp, daemonVars, TypeInv, TypeOK, Seqs
<1>2. CASE Register \/ Retry
  <2>1. Left > 0
    BY <1>2, DriverAssumption DEF Register, Retry, Attempts, Left, Waiting, TypeInv, TypeOK
  <2>2. nextSeq' = nextSeq + 1 /\ seq' = nextSeq /\ toDaemon' = toDaemon
    BY <1>2, <2>1, CounterAdvances DEF Register, Retry, TakeFuture, linkVars
  <2>3. \A s \in daemonPending : s < nextSeq + 1
    BY <1>1 DEF OrderInv
  <2>4. \A i \in DOMAIN toDaemon : toDaemon[i].seq < nextSeq
    BY DEF NumberInv
  <2>5. QED
    BY <1>1, <2>2, <2>3, <2>4 DEF OrderInv
<1>3. CASE SendOk
  <2> DEFINE frame == [call |-> call, kind |-> kind, seq |-> seq]
  <2>1. Sending /\ ~Sending' /\ nextSeq' = nextSeq /\ toDaemon' = Append(toDaemon, frame)
    BY <1>3 DEF SendOk, Sending, nodeVars
  <2>2. frame \in Request /\ frame.seq = seq
    BY <1>3 DEF SendOk, TypeInv, TypeOK, InCall, Request
  <2> HIDE DEF frame
  <2>3. /\ Len(toDaemon) \in Nat /\ DOMAIN toDaemon = 1 .. Len(toDaemon)
        /\ DOMAIN toDaemon' = 1 .. Len(toDaemon) + 1
        /\ \A i \in 1 .. Len(toDaemon) : toDaemon'[i] = toDaemon[i]
        /\ toDaemon'[Len(toDaemon) + 1] = frame
    BY <2>1, <2>2, AppendElements DEF TypeInv, Frames
  <2>4. \A i \in DOMAIN toDaemon' : \/ i \in DOMAIN toDaemon /\ toDaemon'[i] = toDaemon[i]
                                    \/ i = Len(toDaemon) + 1 /\ toDaemon'[i].seq = seq
    BY <2>2, <2>3
  <2>5. ASSUME NEW i \in DOMAIN toDaemon', NEW j \in DOMAIN toDaemon', i < j
        PROVE  toDaemon'[i].seq < toDaemon'[j].seq
    <3>1. i \in DOMAIN toDaemon /\ toDaemon'[i] = toDaemon[i]
      BY <2>3, <2>5
    <3>2. CASE j \in DOMAIN toDaemon /\ toDaemon'[j] = toDaemon[j]
      BY <2>5, <3>1, <3>2 DEF OrderInv
    <3>3. CASE toDaemon'[j].seq = seq
      BY <2>1, <3>1, <3>3 DEF OrderInv
    <3>4. QED
      BY <2>4, <3>2, <3>3
  <2>6. \A i \in DOMAIN toDaemon' : \A s \in daemonPending : s < toDaemon'[i].seq
    BY <2>1, <2>4 DEF OrderInv
  <2>7. \A s \in daemonPending : s < nextSeq
    BY DEF OrderInv
  <2>8. QED
    BY <1>1, <2>1, <2>5, <2>6, <2>7 DEF OrderInv
<1>4. CASE \/ SendFails \/ ResendFails \/ Ready \/ Timeout \/ GiveUp
           \/ \E k \in Kinds : Begin(k)
  <2>1. UNCHANGED <<nextSeq, toDaemon>> /\ ~Sending'
    BY <1>4 DEF SendFails, ResendFails, Ready, Timeout, GiveUp, Returns, Begin, Sending,
                nodeVars, linkVars
  <2>2. QED
    BY <1>1, <2>1 DEF OrderInv
<1>5. QED
  BY <1>2, <1>3, <1>4 DEF Callback

\* What the daemon adds to its map is the number of the frame it takes.
LEMMA PendingGrows ==
  ASSUME LinkStep, ~DaemonQueuesTask
  PROVE  daemonPending' \subseteq daemonPending
BY DEF LinkStep, Connect, Disconnect, DaemonApplies, DaemonRefusesTask, DaemonRunsTask,
       DaemonPrunes, daemonVars

\* A frame keeps its place among those that stay under way.
LEMMA LinkKeepsPlaces ==
  ASSUME TypeInv, LinkStep
  PROVE  \/ \A i \in DOMAIN toDaemon' : i \in DOMAIN toDaemon /\ toDaemon'[i] = toDaemon[i]
         \/ /\ \E k \in Kinds : Receives(k)
            /\ \A i \in DOMAIN toDaemon' :
                  i \in Nat /\ i + 1 \in DOMAIN toDaemon /\ toDaemon'[i] = toDaemon[i + 1]
<1>1. CASE Disconnect
  BY <1>1, LoseLinkReaches DEF Disconnect
<1>2. CASE DaemonApplies \/ DaemonRefusesTask \/ DaemonQueuesTask
  <2>1. PICK k \in Kinds : Receives(k)
    BY <1>2 DEF DaemonApplies, DaemonRefusesTask, DaemonQueuesTask, Kinds
  <2>2. QED
    BY <2>1, ReceivesReaches
<1>3. CASE Connect \/ DaemonRunsTask \/ DaemonPrunes
  BY <1>3 DEF Connect, DaemonRunsTask, DaemonPrunes, linkVars
<1>4. QED
  BY <1>1, <1>2, <1>3 DEF LinkStep

\* The link and the daemon keep the order.
LEMMA OrderLink ==
  ASSUME TypeInv, NumberInv, OrderInv, LinkStep
  PROVE  OrderInv'
<1>1. UNCHANGED <<nextSeq, seq, pc>> /\ Sending' = Sending
  BY LinkFrame DEF nodeVars, callVars, Sending
<1>2. ASSUME NEW i \in DOMAIN toDaemon', NEW j \in DOMAIN toDaemon', i < j
      PROVE  toDaemon'[i].seq < toDaemon'[j].seq
  <2>1. CASE \A n \in DOMAIN toDaemon' : n \in DOMAIN toDaemon /\ toDaemon'[n] = toDaemon[n]
    BY <1>2, <2>1 DEF OrderInv
  <2>2. CASE \A n \in DOMAIN toDaemon' :
               n \in Nat /\ n + 1 \in DOMAIN toDaemon /\ toDaemon'[n] = toDaemon[n + 1]
    <3>1. i + 1 < j + 1
      BY <1>2, <2>2
    <3>2. QED
      BY <2>2, <3>1 DEF OrderInv
  <2>3. QED
    BY <2>1, <2>2, LinkKeepsPlaces
<1>3. \A i \in DOMAIN toDaemon' : \E j \in DOMAIN toDaemon : toDaemon'[i] = toDaemon[j]
  BY LinkKeepsPlaces
<1>4. CASE ~DaemonQueuesTask
  <2>1. daemonPending' \subseteq daemonPending
    BY <1>4, PendingGrows
  <2>2. \A i \in DOMAIN toDaemon' : \A s \in daemonPending' : s < toDaemon'[i].seq
    BY <1>3, <2>1 DEF OrderInv
  <2>3. Sending => \A i \in DOMAIN toDaemon' : toDaemon'[i].seq < seq
    BY <1>3 DEF OrderInv
  <2>4. QED
    BY <1>1, <1>2, <2>1, <2>2, <2>3 DEF OrderInv
<1>5. CASE DaemonQueuesTask
  <2>1. Receives("task") /\ daemonPending' = daemonPending \cup {Head(toDaemon).seq}
    BY <1>5 DEF DaemonQueuesTask
  <2>2. /\ 1 \in DOMAIN toDaemon /\ toDaemon[1] = Head(toDaemon)
        /\ \A i \in DOMAIN toDaemon' :
              i \in Nat /\ i + 1 \in DOMAIN toDaemon /\ toDaemon'[i] = toDaemon[i + 1]
    BY <2>1, ReceivesReaches DEF Kinds
  <2>3. DOMAIN toDaemon' \subseteq Nat \ {0}
    <3>1. toDaemon' \in Seq(Request)
      BY <2>1, ReceivesTypes DEF TypeInv, Kinds
    <3>2. QED
      BY <3>1
  <2>4. ASSUME NEW i \in DOMAIN toDaemon', NEW s \in daemonPending'
        PROVE  s < toDaemon'[i].seq
    <3>1. i + 1 \in DOMAIN toDaemon /\ 1 < i + 1 /\ toDaemon'[i] = toDaemon[i + 1]
      BY <2>2, <2>3
    <3>2. CASE s \in daemonPending
      BY <3>1, <3>2 DEF OrderInv
    <3>3. CASE s = toDaemon[1].seq
      BY <2>2, <3>1, <3>3 DEF OrderInv
    <3>4. QED
      BY <2>1, <2>2, <2>4, <3>2, <3>3
  <2>5. \A s \in daemonPending' : s < nextSeq
    BY <2>1, <2>2 DEF OrderInv, NumberInv
  <2>6. Sending => /\ \A i \in DOMAIN toDaemon' : toDaemon'[i].seq < seq
                   /\ \A s \in daemonPending' : s < seq
    BY <1>3, <2>1, <2>2 DEF OrderInv
  <2>7. QED
    BY <1>1, <1>2, <2>4, <2>5, <2>6 DEF OrderInv
<1>6. QED
  BY <1>4, <1>5

\* As long as the calls use fewer sequence numbers than there are, no number
\* that reaches the daemon is one of a task it has not answered, and no two
\* frames under way share one: the retries of a command have numbers of their
\* own, and what a broken link loses is never sent again.
THEOREM PeerKeepsNumbersApart ==
  ASSUME NumbersSuffice
  PROVE  Spec => []DaemonSeesFreshNumbers
<1>1. Init => OrderInv
  BY DEF Init, OrderInv, Sending
<1>2. TypeInv /\ NumberInv /\ OrderInv /\ [Next]_vars => OrderInv'
  <2> SUFFICES ASSUME TypeInv, NumberInv, OrderInv, [Next]_vars PROVE OrderInv'
    OBVIOUS
  <2>1. CASE Callback \/ \E k \in Kinds : Begin(k)
    BY <2>1, OrderCallback
  <2>2. CASE DriverStep
    <3>1. UNCHANGED <<nextSeq, seq, daemonPending>> /\ Sending' = Sending
      BY <2>2 DEF DriverStep, Deliver, MonitorConnection, OnDeactivate, OnActivate,
                  Sending, callVars, daemonVars
    <3>2. QED
      BY <2>2, <3>1, DriverElements DEF OrderInv
  <2>3. CASE LinkStep
    BY <2>3, OrderLink
  <2>4. CASE UNCHANGED vars
    BY <2>4 DEF vars, nodeVars, callVars, linkVars, daemonVars, OrderInv, Sending
  <2>5. QED
    BY <2>1, <2>2, <2>3, <2>4 DEF Next, Kinds, DriverStep, LinkStep
<1>3. TypeInv /\ OrderInv => DaemonSeesFreshNumbers
  <2> SUFFICES ASSUME TypeInv, OrderInv PROVE DaemonSeesFreshNumbers
    OBVIOUS
  <2>1. DOMAIN toDaemon \subseteq Nat
    BY DEF TypeInv, Frames
  <2>2. \A i \in DOMAIN toDaemon : toDaemon[i].seq \in Nat
    <3>1. \A i \in DOMAIN toDaemon : toDaemon[i] \in Request
      BY DEF TypeInv, Frames
    <3>2. QED
      BY <3>1 DEF Request, Seqs
  <2>3. \A i \in DOMAIN toDaemon : toDaemon[i].seq \notin daemonPending
    BY <2>2 DEF OrderInv
  <2>4. \A i, j \in DOMAIN toDaemon : i # j => toDaemon[i].seq # toDaemon[j].seq
    <3>1. SUFFICES ASSUME NEW i \in DOMAIN toDaemon, NEW j \in DOMAIN toDaemon, i # j
                   PROVE  toDaemon[i].seq # toDaemon[j].seq
      OBVIOUS
    <3>2. i < j \/ j < i
      BY <2>1, <3>1
    <3>3. toDaemon[i].seq < toDaemon[j].seq \/ toDaemon[j].seq < toDaemon[i].seq
      BY <3>2 DEF OrderInv
    <3>4. QED
      BY <2>2, <3>3
  <2>5. QED
    BY <2>3, <2>4 DEF DaemonSeesFreshNumbers
<1>4. QED
  BY <1>1, <1>2, <1>3, TypeInvariant, NumberInvariant, PTL DEF Spec
==============================================================================
