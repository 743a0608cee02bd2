------------------------------ MODULE GpioPath ------------------------------
(***************************************************************************)
(* Commands for pins and PWM on their way from the control loop to the     *)
(* hardware: SeewayHardwareInterface::write() (ros2_control), the driver   *)
(* node's lifecycle and services, the link, the daemon's handlers, the     *)
(* valve tasks of its worker thread, and GpioController, with its polling  *)
(* of an input.  The pins are of bank 0.                                   *)
(***************************************************************************)
EXTENDS Integers, Sequences

CONSTANTS Outputs, Input,    \* the configured pins
          ActiveLow,         \* of the input
          Retries,           \* ack_retries
          MaxCmds,           \* commands given in a run
          MaxWire,           \* frames the link to the daemon holds
          MaxTasks,          \* MAX_QUEUE_DEPTH of the worker
          Duties, Periods,   \* what SetPwm is called with
          Full, Word         \* 1000 (per mil) and 2^32, in the model's units

Pins == Outputs \cup {Input}

ASSUME PathConstants == /\ Input \notin Outputs /\ ActiveLow \in BOOLEAN
                        /\ {Retries, MaxCmds, MaxWire, MaxTasks} \subseteq Nat
                        /\ {Full, Word} \subseteq Nat \ {0}
                        /\ Duties \subseteq Nat /\ Periods \subseteq Nat \ {0}

VARIABLES node, requests, waiting, retries,   \* the driver node
          up, down,                           \* the link to the daemon
          tasks,                              \* the worker's queue
          state, exported, channel, pwm,      \* GpioController, PWM hardware
          level, readable,                    \* the input's file
          given, byLink, byTask, lastEvent, touched, lost, asked  \* history

driver == <<node, requests, waiting, retries>>
link == <<up, down>>
daemon == <<tasks, state, exported, channel, pwm>>
pin == <<level, readable>>
pinHist == <<byLink, byTask, lastEvent, touched>>
pwmHist == <<lost, asked>>
hist == <<given, pinHist, pwmHist>>
pathVars == <<driver, link, daemon, pin, hist>>

None == <<>>   \* no request
Levels == UNION {[s -> BOOLEAN] : s \in SUBSET Pins \ {{}}}   \* of a command for pins
Off == [period |-> 0, duty |-> 0, on |-> FALSE]

PathInit ==
    /\ node = "unconfigured" /\ requests = <<>> /\ waiting = None /\ retries = 0
    /\ up = FALSE /\ down = <<>>
    /\ state = [p \in Pins |-> FALSE] /\ exported \in BOOLEAN
    /\ tasks = <<>> /\ channel = Off /\ pwm = Off
    /\ level \in BOOLEAN /\ readable = TRUE
    /\ given = 0 /\ byLink = [p \in Pins |-> 0] /\ byTask = [p \in Pins |-> 0]
    /\ lastEvent = FALSE /\ touched = FALSE
    /\ lost = {} /\ asked = Off
-----------------------------------------------------------------------------
(* SeewayHardwareInterface in the control loop.                           *)

\* write(): what the controllers have put into the command interfaces goes
\* into one request and is taken out, also when the service is not ready.
HwWrite ==
    /\ given < MaxCmds
    /\ given' = given + 1
    /\ \E set \in Levels :
         requests' = IF node = "unconfigured" THEN requests
                     ELSE Append(requests, [kind |-> "do", n |-> given', arg |-> set])
    /\ UNCHANGED <<node, waiting, retries, link, daemon, pin, pinHist, pwmHist>>
-----------------------------------------------------------------------------
(* The driver node: lifecycle and services.                                *)

\* on_configure() creates the services as its last step; with a parameter
\* out of range it returns before, and nothing changes here.
OnConfigure ==
    /\ node = "unconfigured"
    /\ node' = "inactive"
    /\ UNCHANGED <<requests, waiting, retries, link, daemon, pin, hist>>

OnActivate ==
    /\ node = "inactive" /\ waiting = None
    /\ node' = "active"
    /\ UNCHANGED <<requests, waiting, retries, link, daemon, pin, hist>>

\* on_deactivate() stops the transport.
OnDeactivate ==
    /\ node = "active" /\ waiting = None
    /\ node' = "inactive" /\ up' = FALSE
    /\ UNCHANGED <<requests, waiting, retries, down, daemon, pin, hist>>

\* on_cleanup() drops the services, and the requests that wait for them.
OnCleanup ==
    /\ node = "inactive" /\ waiting = None
    /\ node' = "unconfigured" /\ requests' = <<>>
    /\ UNCHANGED <<waiting, retries, link, daemon, pin, hist>>

\* A client calls SetPwm.
CallSetPwm ==
    /\ node # "unconfigured" /\ given < MaxCmds
    /\ given' = given + 1
    /\ \E per \in Periods, mil \in Duties, on \in BOOLEAN :
         requests' = Append(requests, [kind |-> "pwm", n |-> given',
                                       arg |-> [period |-> per, mil |-> mil, on |-> on]])
    /\ UNCHANGED <<node, waiting, retries, link, daemon, pin, pinHist, pwmHist>>

\* A client calls SendTask for a valve: the pins of its mask, all one way.
CallValve ==
    /\ node # "unconfigured" /\ given < MaxCmds
    /\ given' = given + 1
    /\ \E s \in SUBSET Pins \ {{}}, enable \in BOOLEAN :
         requests' = Append(requests, [kind |-> "valve", n |-> given',
                                       arg |-> [p \in s |-> enable]])
    /\ UNCHANGED <<node, waiting, retries, link, daemon, pin, pinHist, pwmHist>>

\* on_set_gpio(), on_set_pwm(), on_send_task(): one at a time, in the order
\* of the requests.  A task is sent once, the others retry.
Serve ==
    /\ requests # <<>> /\ waiting = None /\ Len(down) < MaxWire
    /\ requests' = Tail(requests)
    /\ IF up THEN /\ waiting' = <<Head(requests)>>
                  /\ retries' = IF Head(requests).kind = "valve" THEN 0 ELSE Retries
                  /\ down' = Append(down, Head(requests))
             ELSE UNCHANGED <<waiting, retries, down>>
    /\ UNCHANGED <<node, up, daemon, pin, hist>>

(* Fault: a retry goes out before what waits to be sent. *)
ResentFirst == waiting \o down
Resent == Append(down, waiting[1])

\* The ACK is late: the same command again, under a new number.
Retry ==
    /\ waiting # None /\ retries > 0 /\ up /\ Len(down) < MaxWire
    /\ retries' = retries - 1 /\ down' = Resent
    /\ UNCHANGED <<node, requests, waiting, up, daemon, pin, hist>>

\* The ACK is here, the time is over, or the retry could not be sent.
CallEnds ==
    /\ waiting # None
    /\ waiting' = None
    /\ UNCHANGED <<node, requests, retries, link, daemon, pin, hist>>
-----------------------------------------------------------------------------
(* The link: it keeps the order, and loses a suffix when it breaks.        *)

LinkUp ==
    /\ ~up /\ node = "active"
    /\ up' = TRUE
    /\ UNCHANGED <<driver, down, daemon, pin, hist>>

LinkBreaks ==
    /\ up
    /\ up' = FALSE
    /\ \E n \in 0..Len(down) : down' = SubSeq(down, 1, n)
    /\ UNCHANGED <<driver, daemon, pin, hist>>
-----------------------------------------------------------------------------
(* The daemon: command handlers and polling thread.                        *)

\* apply_do_command(): each pin of the mask is written or fails.  An input
\* is no exception: its value file opens, and nobody sees the write fail.
SetPins(set, ok) ==
    /\ state' = [p \in Pins |-> IF p \in ok THEN set[p] ELSE state[p]]
    /\ touched' = (touched \/ Input \in ok)
    /\ UNCHANGED <<exported, channel, pwm, lastEvent, pwmHist>>

Numbered(by, ok, n) == [p \in Pins |-> IF p \in ok THEN n ELSE by[p]]

\* The handler of MSG_DO_COMMAND, on the IO thread.
ApplyDo ==
    /\ down # <<>> /\ Head(down).kind = "do"
    /\ down' = Tail(down)
    /\ \E ok \in SUBSET DOMAIN Head(down).arg :
         /\ SetPins(Head(down).arg, ok)
         /\ byLink' = Numbered(byLink, ok, Head(down).n)
    /\ UNCHANGED <<driver, up, tasks, pin, given, byTask>>

\* The handler of MSG_TASK_COMMAND leaves a valve to the worker, or refuses
\* it when the queue is full.
QueueValve ==
    /\ down # <<>> /\ Head(down).kind = "valve"
    /\ down' = Tail(down)
    /\ tasks' = IF Len(tasks) < MaxTasks THEN Append(tasks, Head(down)) ELSE tasks
    /\ UNCHANGED <<driver, up, state, exported, channel, pwm, pin, hist>>

\* The worker executes the oldest task some time later: do_valve() goes
\* through apply_do_command() as well.
DoValve ==
    /\ tasks # <<>>
    /\ tasks' = Tail(tasks)
    /\ \E ok \in SUBSET DOMAIN Head(tasks).arg :
         /\ SetPins(Head(tasks).arg, ok)
         /\ byTask' = Numbered(byTask, ok, Head(tasks).n)
    /\ UNCHANGED <<driver, link, pin, given, byLink>>

DutyNs(c) == ((c.period * c.mil) % Word) \div Full

\* What the kernel makes of a written value: it refuses a period below the
\* on-time in force, an on-time above the period, and to enable a PWM that
\* has no period.  The daemon sees none of it.
SetPeriod(per, q) ==
    IF per >= q.duty THEN [period |-> per, duty |-> q.duty, on |-> q.on] ELSE q
SetDuty(d, q) ==
    IF d <= q.period THEN [period |-> q.period, duty |-> d, on |-> q.on] ELSE q
SetEnable(on, q) ==
    IF q.period > 0 THEN [period |-> q.period, duty |-> q.duty, on |-> on] ELSE q

Writes == {"period", "duty", "enable"}

\* Period, on-time and enable are written in this order.  The writes in fail
\* do not reach the kernel; the others are made all the same.
PeriodPut(c, fail) == IF "period" \in fail THEN pwm ELSE SetPeriod(c.period, pwm)
DutyPut(c, fail, q) == IF "duty" \in fail THEN q ELSE SetDuty(DutyNs(c), q)
EnablePut(c, fail, q) == IF "enable" \in fail THEN q ELSE SetEnable(c.on, q)

(* Fault: a refused or failed period ends the command. *)
StopsAtPeriod(c, fail) ==
    LET q == PeriodPut(c, fail)
    IN  IF q.period # c.period THEN q ELSE EnablePut(c, fail, DutyPut(c, fail, q))
(* Fault: the period is written only when it differs from the recorded one. *)
PeriodIfNew(c, fail) ==
    LET q == IF c.period = channel.period THEN pwm ELSE PeriodPut(c, fail)
    IN  EnablePut(c, fail, DutyPut(c, fail, q))
Programmed(c, fail) == EnablePut(c, fail, DutyPut(c, fail, PeriodPut(c, fail)))

\* The handler of MSG_PWM_COMMAND: whatever became of the three writes, the
\* command is recorded and acknowledged as done.
ApplyPwm ==
    /\ down # <<>> /\ Head(down).kind = "pwm"
    /\ down' = Tail(down)
    /\ LET c == Head(down).arg
       IN  IF exported
           THEN \E fail \in SUBSET Writes :
                  /\ pwm' = Programmed(c, fail)
                  /\ channel' = [period |-> c.period, duty |-> DutyNs(c), on |-> c.on]
                  /\ asked' = [period |-> c.period, duty |-> (c.period * c.mil) \div Full,
                               on |-> c.on]
                  /\ lost' = fail
           ELSE UNCHANGED <<pwm, channel, asked, lost>>
    /\ UNCHANGED <<driver, up, tasks, state, exported, pin, given, pinHist>>

\* read_pin_state(): FALSE when the file cannot be read, whatever active_low.
Sampled == readable /\ level # ActiveLow

(* Fault: the event is sent, its level not stored. *)
NotStored(cur) == state[Input]
Stored(cur) == cur

\* poll_inputs(), one look: a change is reported, then stored.
Poll ==
    /\ Sampled # state[Input]
    /\ state' = [state EXCEPT ![Input] = Stored(Sampled)]
    /\ lastEvent' = Sampled
    /\ UNCHANGED <<driver, link, tasks, exported, channel, pwm, pin,
                   given, byLink, byTask, touched, pwmHist>>

PinChanges ==
    /\ level' \in BOOLEAN /\ readable' \in BOOLEAN /\ pin' # pin
    /\ UNCHANGED <<driver, link, daemon, hist>>

PathNext == \/ HwWrite \/ OnConfigure \/ OnActivate \/ OnDeactivate \/ OnCleanup
            \/ CallSetPwm \/ CallValve \/ Serve \/ Retry \/ CallEnds
            \/ LinkUp \/ LinkBreaks \/ ApplyDo \/ QueueValve \/ DoValve \/ ApplyPwm
            \/ Poll \/ PinChanges

PathSpec == PathInit /\ [][PathNext]_pathVars
-----------------------------------------------------------------------------
PathTypeOK ==
    /\ node \in {"unconfigured", "inactive", "active"} /\ retries \in 0..Retries
    /\ up \in BOOLEAN /\ (up => node = "active")
    /\ state \in [Pins -> BOOLEAN]
    /\ {byLink, byTask} \subseteq [Pins -> 0..given]
    /\ Len(down) <= MaxWire /\ Len(tasks) <= MaxTasks

\* SetGpio commands set a pin in the order they were given, valve tasks do
\* too, and no SetGpio sets a pin that a younger valve task has set: neither
\* retries nor broken links let an old command win.  The one way for an older
\* command to win is the worker's: a valve task that was still queued when a
\* younger SetGpio was handled sets the pin after it.
CommandsApplyInOrder ==
    [][\A p \in Pins : /\ byLink'[p] >= byLink[p] /\ byTask'[p] >= byTask[p]
                       /\ byLink'[p] # byLink[p] => byLink'[p] >= byTask[p]]_<<byLink, byTask>>

\* Whenever a look at the input would report an event, its value differs from
\* that of the event before it, unless a DO command or a valve task named the
\* input pin and so changed the level to compare with.
EventsAlternate == Sampled # state[Input] => Sampled # lastEvent \/ touched

\* The PWM is never driven longer than the last command asked for, nor when
\* that command disabled it, unless the very write that says so failed
\* unnoticed: a refused period, a share above the whole and the overflow of
\* the 32-bit product can only make the pulse too short.
PwmNeverExceeds ==
    /\ PathTypeOK
    /\ "duty" \notin lost => pwm.duty <= asked.duty
    /\ "enable" \notin lost => (pwm.on => asked.on)

\* Whatever was refused or lost before, a command carried out twice in a row
\* (a retry, or a second call) with every write getting through leaves the PWM
\* as the daemon records it, if the recorded on-time fits the period.
RepeatCures ==
    [][/\ ApplyPwm /\ exported
       /\ lost = {} /\ lost' = {} /\ channel' = channel
       /\ channel.period > 0 /\ channel.duty <= channel.period
       => pwm' = channel']_down
=============================================================================
