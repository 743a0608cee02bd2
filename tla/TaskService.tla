----------------------------- MODULE TaskService -----------------------------
(***************************************************************************)
(* What the daemon's task engine promises to those who hand it commands:   *)
(* commands it accepts are served one by one, each exactly once, in the    *)
(* order they were accepted; it refuses a command only when Capacity       *)
(* commands are already waiting; once it is closed it serves at most one   *)
(* command more.  TaskExecutor implements this specification.              *)
(***************************************************************************)
EXTENDS Naturals, Sequences

CONSTANTS
  Command,   (* calls of enqueue(), each one a command of its own *)
  Capacity   (* commands that may wait, a positive number         *)

VARIABLES
  waiting,   (* accepted and not served yet, oldest first          *)
  served,    (* the commands whose result was reported, in order   *)
  refused,   (* the commands turned away                           *)
  phase      (* "open", "closing" or "halted"                      *)

vars == <<waiting, served, refused, phase>>

Init ==
  /\ waiting = << >>
  /\ served = << >>
  /\ refused = {}
  /\ phase = "open"

\* One command is in service besides the Capacity that wait, hence <=.
Accept(c) ==
  /\ Len(waiting) <= Capacity
  /\ waiting' = Append(waiting, c)
  /\ UNCHANGED <<served, refused, phase>>

Refuse(c) ==
  /\ Len(waiting) >= Capacity
  /\ refused' = refused \cup {c}
  /\ UNCHANGED <<waiting, served, phase>>

Serve ==
  /\ phase # "halted"
  /\ waiting # << >>
  /\ served' = Append(served, Head(waiting))
  /\ waiting' = Tail(waiting)
  /\ phase' = IF phase = "open" THEN "open" ELSE "halted"
  /\ UNCHANGED refused

\* The engine is told to stop; it may find that nothing is in service.
Close ==
  /\ phase = "open"
  /\ phase' \in {"closing", "halted"}
  /\ UNCHANGED <<waiting, served, refused>>

Halt ==
  /\ phase = "closing"
  /\ phase' = "halted"
  /\ UNCHANGED <<waiting, served, refused>>

Next ==
  \/ \E c \in Command : Accept(c) \/ Refuse(c)
  \/ Serve
  \/ Close
  \/ Halt

Spec == Init /\ [][Next]_vars
==============================================================================
