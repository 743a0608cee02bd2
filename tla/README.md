# TLA+ models of the interface board software

The repository holds two programs that talk to each other, and what surrounds
them:

* `t113i_daemon`: a C++ daemon on the T113i interface board. It drives GPIO,
  PWM and power rails, executes tasks (emergency stop, homing, valves), reads
  sensors, and is commanded over a framed binary protocol (TCP or UART).
* `seeway_interface_driver`: a ROS 2 lifecycle node on the Jetson that turns
  services (`SetGpio`, `SetPwm`, `PowerControl`, `SendTask`) into frames and
  waits for the answers. `seeway_interface_hardware` is a ros2_control plugin
  on top of these services.

This directory models the parts whose behaviour depends on the order in which
threads, messages and failures come.

## Inventory

| Component | State | Operations | Hard behaviour | Correct when |
|---|---|---|---|---|
| TaskExecutor (`task_executor.cpp`) | queue, `running_`, mutex, condition variable, worker | `start`, `stop`, `enqueue`, `queue_size`, worker loop | notifications against waits; `stop` from another thread | bounded FIFO, each accepted task once, `stop` returns |
| Task path (`main.cpp` 151-314, 404-417) | `pending_tasks`, callbacks | task handler (IO thread), result callback (worker), start and shutdown (main) | three threads, two locks, check-then-act, 30 s time-out | an acknowledged task is queued and answered, responses carry the right number |
| ShutdownManager | list of steps | `drain_then_execute` | drain against new tasks | nothing accepted is lost |
| PowerManager (`power_manager.cpp`) | `is_on`, `turn_on_time` per rail, mutex | `apply_power_command` from IO thread and worker | mutex held while sleeping, failing and lost writes, restarts | minimum on-time, spacing of rising edges, truthful result, emergency stop returns |
| DriverNode requests (`driver_node.cpp`) | `next_seq_`, `pending_acks_`, `pending_tasks_`, futures | four services, ACK and response handlers, monitor timer, lifecycle | time-out against late answer, retry, wrap of the number, lost links | success is true, refusal is final, calls return, maps do not leak |
| TcpClientChannel, SerialComm (`serial_comm.cpp`) | socket, `connected_`, IO thread | connect loop, `write_raw`, `reconnect`, `stop` | `stop` and `reconnect` against connecting, blocked `send` | one live socket, `stop` returns |
| ConnectionMonitor and main loop | time of last heartbeat, `handshake_sent` | `check_health`, handshake, reconnect | reconnection between two looks | handshake per connection, recovery |
| FrameCodec (both sides) | receive buffer | `feed`, `try_parse`, `encode` | cut and damaged frames, full buffer | resynchronises, no frame invented |
| TcpServerTransport | `listen_fd_`, `client_fd_`, two threads | accept loop, RX loop, `send`, `stop` | new client replaces the old one | the newest client is served |
| GpioController | pins, PWM channels, polling thread | DO commands from the handler and from valve tasks, PWM commands, snapshot, poll | two threads set the same pins, writes fail unnoticed, event sent under the mutex, 32-bit arithmetic | commands keep their order, the PWM is never driven longer than asked |
| SeewayHardwareInterface | command and state arrays | `read`, `write`, callbacks | command taken before the service is ready | commands sent once |
| InputHandler, SensorReader, ModuleInitializer, ConfigLoader, Logger, utilities | - | - | little | - |

They interact by calls and callbacks inside the daemon: frames reach handlers
on the IO thread, handlers call `GpioController`, `PowerManager` and
`TaskExecutor`; the worker calls `PowerManager` (emergency stop, shutdown),
`GpioController` (valves) and the result callback, which sends. Between the programs there are only frames.

`PROJECT.json` lists every component with its status, and under "hazards" what
can go wrong in this code that a test would hardly reach.

One thing stands in front of all end-to-end statements: the codecs of the two
programs compute the CRC over different ranges (`serial_comm.cpp:45`,
`comm_handler.cpp:25`), so that neither accepts the other's frames as they
stand. FrameCodec has both codecs as they are, the run `codec_peers` shows the
disagreement (`FramesOfEitherSurvive` is violated by one undamaged frame), and
the models above the codecs are for a peer that speaks the same framing.

## Modules

```
TaskService   <-- refined by --   TaskExecutor   <-- extended by --  DaemonTasks
                                       |                                |
                              TaskExecutorProofs                DaemonTasksProofs

PowerManager -- PowerManagerProofs               DriverRequests -- DriverRequestsProofs

DaemonLink -- DaemonLinkProofs                   FrameCodec <-- extended by -- ByteLink
                                                                                  |
TcpServerTransport -- TcpServerTransportProofs                            ByteLinkProofs

GpioPath -- GpioPathProofs
```

Each `MC*.tla` gives the constants for TLC; each `.cfg` is one run.
Definitions marked `Fault:` are mistaken versions of the definition next to
them; no specification uses them. They show, for each property, an error in
the code that would break it.

### TaskService

What a bounded task service promises: it accepts (`Accept`) or, when full,
refuses (`Refuse`) commands, serves them in order (`Serve`), and after `Close`
serves at most one more before it halts. It knows nothing of threads, locks or
wake-ups.

### TaskExecutor

The class with its three kinds of threads. The mutex is held across model
steps only by the worker, from the evaluation of the wait predicate until it
blocks or pops; `MutexFree` says so. The steps of `worker_loop()` are
`WorkerCheck` (`while (running_)`), `WorkerPredicate`, `WorkerBlock` (the
atomic release-and-sleep of `wait`), `WorkerBreak`, `WorkerPop` and
`WorkerReport`; `SpuriousWake` may wake a sleeping worker at any time. `stop()`
is `StopClear`, `StopNotify`, `StopJoin`, and as in the code none of the three
takes the mutex. `ImplementsTaskService` maps the command in hand followed
by the queue to what waits in the service, the reported commands to what it has
served.

### DaemonTasks

Extends TaskExecutor with `main.cpp`. The handler of `MSG_TASK_COMMAND` takes
its locks one after the other, so it is `HandleFull` or `HandleAdmit` (the
look at the room), `HandleTrack`, `HandleEnqueue`, `HandleAck`. The result
callback is one step with the end of the task: it holds its mutex throughout,
erases entries that timed out, and takes any entry of the task's `task_id`
(`Candidates`), because the code walks an `unordered_map`. Sequence numbers are
the peer's, given by the constant `SeqOf`. `Tick` ages the entries. The main
thread goes through start, signal, drain (which may give up), `stop()` of the
executor and stop of the link.

The second caller of `enqueue()` in `main.cpp`, the input callback, cannot
fire: the input handler never emits `EVT_GPIO_FALLING` and no device is added.

### PowerManager

`apply_power_command()` by two threads. `pc` says where a thread is; `Holds`
says who has the mutex. `LockAllOff`, `LockOneRail` and `LockUnknown` are the
three ways through the function, `RailAlready`, `RailTooYoung`, `RailDelay`,
`DelayOver`, `WriteFails` and `WriteReturns` the ways through `set_rail()`.
`level` is the real output, apart from `isOn`, what the manager believes: a
write may be lost in the stream's buffer and a restarted daemon forgets. Time
is counted in ticks up to `LongTime`, one more than any time compared.

### DriverRequests

The outbound side of the driver. The node uses the default, mutually
exclusive callback group, so one service call at a time runs and timers and
transitions come between calls; the RX thread (`Deliver`) comes at any time,
also between the expiry of `wait_for()` (`Timeout`) and the lock that follows
(`Retry`, `GiveUp`). Keys of both maps, what the future holds and the counter
`next_seq_` modulo `SeqSpace` are state. The link keeps order, loses the
answers and a suffix of the requests when it breaks. The daemon is reduced to
what its handlers answer (`DaemonApplies`, `DaemonRefusesTask`,
`DaemonQueuesTask`, `DaemonRunsTask`, `DaemonPrunes`), as DaemonTasks and
`main.cpp` have it: a task succeeds or fails, and its response names some
unanswered task, or 0 when none of its type is left. Its acknowledgement of a
task always comes before the response, which in the code may overtake it (the
driver keeps no entry for the former, so that it makes no difference to a call).
When the counter comes round onto a key that is still in a map, `get_future()`
throws and the process ends: `pc` is then "crashed". `OnTheWay` says that a
frame with the number about to be drawn is still under way, and `reused` lists
the calls to which that happened. `on_cleanup()` and `on_shutdown()` keep no request state.

### DaemonLink

`TcpClientChannel` under `SerialComm`, `ConnectionMonitor`, and the part of
`main()`'s loop that greets, watches and drops connections. `sock`, `connected`
and `running` are the members of the channel, `open` the descriptors that are
really open, `txHolder` the sender that `send()` blocks with `tx_mutex_` held.
The IO thread goes through `IoCheck`, `IoConnects` or `IoConnectFails`,
`IoPublish` (the two assignments after `connect()`), and `recv()`, which brings
a heartbeat, a command to be answered, or an error. A round of the main loop is
`LoopWakes`, `Greet`, `CheckHealth`, `Reconnect`, `Beat`; what it reads of the
connection it reads once, in `LoopWakes` (`seen`). `Terminate`, `StopCloses` and
`StopJoins` are the end. The worker, the sensor thread and the GPIO thread are
one sender, `other`. `SendWorks` looks at `connected_` and sends in one step.
The code asks `is_connected()` in `send_raw()` and takes the mutex afterwards, so
that the flag may change in between; what is sent then goes into a socket whose
peer is gone, so the send is as if it had come before the change. The peer is external: it closes connections, stops reading
(`PeerReads`) and sends what it likes.

### TcpServerTransport

The driver's default transport. `client_fd_` is read without the mutex in two
places of `rx_loop()`, so `RxCheck`, `RxCall` and `RxCloses` are steps of their
own, and so are accepting a client, storing it (`AcceptStore`), and joining the
old RX thread before the new one starts (`AcceptSpawn`). `stop()` is five steps;
after it `start()` may come again. A number stands for one descriptor and is not
reused, so that what happens when the kernel hands out the same number again is
not in the model. `recv()` on a descriptor that is closed counts as failing.

### FrameCodec and ByteLink

FrameCodec is both `FrameCodec` classes as functions: `Synced` (search for the
sync bytes), `Short`, `Valid`, `Rejected`, `TryParse`, and the loop around it as
a fold. The two differ in three numbers (`Daemon`, `Driver`): where the CRC
begins, how many bytes are asked for first, how many are given up when a frame
is rejected; and in what they do when the buffer overflows (`DaemonFeed` throws
the rest away before, `DriverFeed` cuts it afterwards). The header has four
cells instead of nine bytes, and the CRC is one cell equal to what it covers,
that is, one that never collides.

ByteLink feeds them. The peer (external) writes frames coded as either program
codes them, the line damages one cell of some, the connection breaks, a device
is unplugged; `Read` takes a piece of any size up to the buffer of the code, so
that frames are cut and joined in every way. The codec outlives the connection,
as in all four channels. `ReadsNothing` is `read()` returning 0 on a serial
port.

### GpioPath

Commands for pins and PWM from ros2_control and from clients to the hardware.
`HwWrite` is `SeewayHardwareInterface::write()`, which takes the commands out of
the interface whether or not the service is there; `OnConfigure` to `OnCleanup`
are the driver's lifecycle (of `on_configure()` only that the services exist once
it has succeeded); `CallSetPwm` and `CallValve` the clients; `Serve`, `Retry` and
`CallEnds` what DriverRequests has in detail. In the daemon `ApplyDo`,
`QueueValve` and `ApplyPwm` are the handlers on the IO thread, `DoValve` the
worker, which executes a valve task some time later and goes through
`apply_do_command()` too (`SetPins`, in which each pin of the mask is written or
fails), and `Poll` the polling thread. `ApplyPwm` makes three writes, period,
on-time and enable; any of them may fail (`fail`), which the code does not look
at. What the kernel's PWM driver does with a period below the on-time, an on-time
above the period, or an enable without a period is external (`SetPeriod`,
`SetDuty`, `SetEnable`); the product of period and per mil is taken modulo `Word`,
as `uint32_t` does. `snapshot()` changes nothing and is left out.

## Runs

| Run | Checks | Bounds |
|---|---|---|
| `exec_stop` (violated) | `StopReturns` | 2 commands |
| `tasks` | of the executor: no pop of an empty queue, refinement of TaskService, accepted tasks are executed; and the eight properties of the task path around it | 3 commands, two of one `task_id`, depth 2, time-out after one tick: overlap, expiry, full queue and every order of shutdown occur (150 thousand states) |
| `tasks_echo` (violated) | `ResponseEchoesItsSeq` | depth 1 |
| `power` | timing of levels, truth and completeness of ALL_OFF, the emergency stop returns | 2 rails with delays 2 and 1 and minimum 3 and 0, 4 calls, 1 restart, every outcome of a write |
| `power_estop` (violated) | `EstopCutsPower` | as above, 3 calls, writes that work |
| `driver` | types, what success means, attempts, leaked keys, what alone can end the process, and the return of every call | 3 calls, 1 retry, numbers 0 to 2, so that the counter comes round, a link that comes and goes without bound (772 thousand states) |
| `link` | descriptors, handshake before heartbeats, which connections are dropped for silence, silent peers are dropped, `stop()` returns | 2 connections, heartbeat time-out 1 round, reconnect after 2, a heartbeat every 2 |
| `server` | descriptors, whom the RX thread may close, clients are read, `stop()` returns | 3 clients, any number of starts and stops |
| `codec` | intact frames survive, messages are delivered in order and once, the rest is less than a frame | 3 frames, up to 2 of them damaged, a payload of two cells that look like sync bytes, reads of up to 6 cells (serial) and 10 (TCP) (750 thousand states) |
| `codec_peers` (violated) | `FramesOfEitherSurvive` | 1 frame, none damaged |
| `uart_eof` (violated) | `RxEndsOnlyUnplugged` | 1 frame |
| `gpio` | order of commands, the PWM is never driven longer than asked, repetition repairs, events alternate | 1 output and 1 input, 2 commands of any kind, 1 retry, 2 frames on the wire, 2 tasks queued, periods 2 and 5, shares 6 and 15 of 10, words of 32 (2.3 million states) |

The bounds are enough in this sense: every action and every branch occurs, and
every property is broken by an error (`Fault:`) within the same bounds. Two
commands of a kind are the least that can be confused and a third of another
kind the least that could be confused wrongly; two rails are the least that
can meet, with times on both sides of each comparison. `SeqSpace` is 3 while
three calls with a retry draw up to six numbers, so that the counter comes
round within the run: a key left behind by a failed retry is met again and the
process ends (`CrashOnlyOnLeakedKey` says that this is the only way), and a number
is drawn of which a frame is still under way (`reused`, which `OkMeansApplied`
leaves out). In the code this takes 65 536 attempts. Two connections let one replace another and three let a
replacement be replaced, which is where the transports can go wrong; the
numbers of `link` put the heartbeat, the time-out and the reconnection in
different rounds. A frame has at most 7 cells and a codec's buffer 14; a TCP read
of 10 cells together with a rest overflows the buffer and a serial read of 6 is
less than a frame, as 1024 and 256 bytes are against 534 and 267. Three frames of
which two are damaged are a damaged frame with a neighbour on each side, and an
intact one behind or between two damaged ones. The executor is checked inside
the daemon, where the IO thread is the only producer and the handler has looked
at the room, so that `enqueue()` never refuses; that it implements TaskService for
any number of callers, refusals included, is the theorem
`ExecutorImplementsService`. In `gpio` the periods and shares lie on both sides of each other, of
the whole, and of the word (5 * 15 = 75 > 32). Deadlock is checked for `driver`
and `server`; the other systems may end (all commands given, daemon exited,
calls used up).

### What the violated runs show

* `exec_stop`: `stop()` clears `running_` and notifies without the mutex. If
  this falls between the predicate's evaluation and the sleep, the worker
  sleeps on and `join()` never returns: the shutdown hangs.
* `tasks_echo`: `acked_seq` "echoes the frame seq" only as long as no two
  tasks of one id are unanswered together; otherwise any of them may be named.
  `EchoNamesSameTask` and `EchoExactUntilOverlap` (run `tasks`) say what is
  left of the promise.
* `power_estop`: the emergency stop respects the minimum on-time of a rail, and
  reports success whether or not power was cut.
* `codec_peers`: one frame, undamaged and read whole, is thrown away because the
  other program wrote it: the daemon computes the CRC from the first byte on
  (`serial_comm.cpp:45`), as `PROTOCOL.md:15` and the protocol tests do, the driver
  from the third (`comm_handler.cpp:25`). As they stand, the two programs do not
  understand each other.
* `uart_eof`: on a serial port `read()` returns 0 after 100 ms without a byte
  (`VMIN` 0, `VTIME` 1), the RX thread of either program takes that for an
  unplugged device and ends, and nothing starts it again while it is in use.

### Other differences met while modelling

These are not runs of their own; the models have the behaviour of the code.

* A task acknowledged during the shutdown may be lost: the link is stopped last
  (`main.cpp:404-411`), while `shutdown_manager.h:4` speaks of draining.
  `DrainedBeforeExit` says what is kept: tasks accepted before the signal.
* "ACK timeout" does not tell the caller whether a command was carried out
  (`driver_node.cpp:563`), although the code wants callers to "know whether the
  command was received" (`:612`). `AppliedOncePerAttempt` (with
  `RefusedIsNeverApplied` in it) and `OkMeansApplied` say which answers can be
  relied on, and how often a command may have been carried out.
* The two sync bytes of a frame that was cut off may stay in the driver's buffer.
  A frame of the daemon behind them is then read two bytes shifted: its sync bytes
  as message id 0xAA and part of the number, its number as the length. The driver's
  CRC begins at the third byte, which is where this frame's CRC begins, so that
  it is accepted if its number is its length plus 2. No handler knows that id: the
  message ids (`protocol.h:33-53`) are no sync bytes, which `Identity` in ByteLink
  says, and `DeliveredInOrder` speaks of messages with such an id only.
* A valve task that was queued before a younger SetGpio was handled sets the pin
  after it (`task_executor.cpp:183`): the worker is not ordered with the handlers.
  `CommandsApplyInOrder` says what order is kept.
* The driver never sends a heartbeat or a handshake request, though
  `PROTOCOL.md:145-146` shows both directions. `check_health()` reports a
  time-out only once a heartbeat has come (`connection_monitor.cpp:48`), so with
  this driver a silent link is never given up; `SilentIsDropped` is for a peer
  that sends heartbeats.
* A serial port that cannot be opened when the daemon starts is never tried
  again (`main.cpp:326-330` says that it "will retry internally").
* A failed `send()` clears `connected_` without closing, and the next
  connection overwrites `sock_` (`serial_comm.cpp:252`, `305`): one descriptor
  leaks for each. `DescriptorsAccounted` shows that no others do.
* A client that the driver accepts while `stop()` runs stays in `client_fd_`,
  and nobody reads it after the next start (`tcp_server_transport.cpp:142`):
  `late` in TcpServerTransport.
* A DO command that names an input pin changes the level with which the polling
  thread compares (`gpio_controller.cpp:137`), so that the next poll reports an
  event though the pin did not move: `touched` in GpioPath.
* The period, the on-time and the enable of a PWM are written one after the other
  and no failure is noticed (`gpio_controller.cpp:178`, `181`, `183`); the kernel
  refuses a period below the on-time in force, and the on-time is computed in 32
  bits (`:180`). The command is acknowledged all the same. `PwmNeverExceeds` says
  that the pulse is then at worst too short, unless the very write of the on-time
  (or of the enable) was lost; `RepeatCures` says that the same command once more
  repairs it.

### What the properties leave out by name

The transports have races for which the repository promises nothing and which no
property here forbids. They are excepted by name, so that the property shows
that they are the only way to what it forbids:

* `missed` (DaemonLink): a connection that was lost and regained between two
  looks of the main loop. It is not greeted, and may be dropped for the silence
  of the one before (`main.cpp:358`, `connection_monitor.cpp:48`).
  `HeartbeatFollowsHandshake` and `DropSparesFresh` except it.
* `~TxFree` (DaemonLink): a `send()` that blocks with the mutex held
  (`serial_comm.cpp:249`), for as long as the peer does not read. `SilentIsDropped`
  and `StopReturns` except it.
* `mpc = "join" /\ sock # NoConn` (DaemonLink): a connection published after
  `stop()` closed the socket (`serial_comm.cpp:236`): the IO thread may wait in
  `recv()` for as long as the peer likes, and `stop()` with it.
* `replacing` (TcpServerTransport): a connection that came while another was
  served. The old RX thread may take its descriptor for its own and close it
  (`tcp_server_transport.cpp:157`), or read from it while the accept thread waits
  for this thread to end (`:145`); no further client is accepted meanwhile.
  `OnlyReplacementHurts` excepts it; no property promises that a further client is
  accepted.
* `late` (TcpServerTransport): a client accepted while `stop()` runs (`:142`).
  `ClientIsRead` and `StopReturns` except it.

## Fairness

* Executor and task path: weak fairness of the worker thread, of a handler
  that has begun, of `main()` through its start and, in the executor alone, of
  a thread inside `stop()`. These are running threads
  that only wait for a mutex held for a bounded time. Nothing is assumed of
  arriving frames, of SIGTERM, of spurious wake-ups or of the drain.
* Power: weak fairness of both threads inside a call and of time. Calls and
  restarts are not fair, and are bounded, so that neither thread is starved at
  the mutex for ever; `std::mutex` promises no order, and a peer that sent
  power commands without end could in theory delay the worker for ever.
* Driver: weak fairness of the service callback only: its waits end by their
  time-outs. Nothing is assumed of the link, of the daemon or of the monitor.
* Daemon link: weak fairness of the IO thread, of the main thread, and of a
  `send()` that can go on (`Unblocks`). The arrival of frames, the peer, signals
  and the other senders are not fair: a peer that stops reading may keep
  `tx_mutex_` held for ever, and the two liveness properties name that case.
* Server: weak fairness of the accept thread, of the RX thread and of a `stop()`
  that has begun. Clients, data and calls of `start()` and `stop()` are free.
* ByteLink and GpioPath state safety only and assume nothing.

## Proofs

The theorems hold for every value of the constants that the named assumptions
allow (`DepthAssumption`, `CommandAssumption`, `PowerAssumption`,
`DriverAssumption`, `LinkConstants`, `ServerConstants`, `PathConstants`,
`CodecConstants`, `LinkSizes`). Five theorems need one premise more, stated in
the theorem and explained below: `PeerNumbersDistinct` (`SeqAnsweredOnce`,
`EchoIsExact`, `UnmatchedNeedsTimeout`) or `NumbersSuffice` (`NumbersStayApart`,
`PeerKeepsNumbersApart`). All are checked by `tlapm`. No module that is proved about is recursive.

**TaskExecutorProofs.** `ExecInv` adds to the types where the command in hand
is, and that a worker in `take` has a nonempty queue or has been told to stop.
The last is what makes `NeverPopsEmptyQueue` inductive: between the predicate
and `pop()` the mutex is held, nobody else pops, and `stop()` only clears
`running_`. `QueueNeverUnderflows`, `ExecTypeCorrect`, and
`ExecutorImplementsService`, the refinement, step by step: enqueueing maps to
`Accept` or `Refuse`, `WorkerReport` to `Serve`, `StopClear` to `Close`, and the
worker's way out of its loop to `Halt`; the other steps stutter, `WorkerPop`
among them.

**DaemonTasksProofs.** `DaemonUsesExecutor` shows that every daemon step is an
executor step or leaves the executor alone, so that the executor's invariant
and refinement carry over (`DaemonServesInOrder`). For `AckedTasksAreQueued`
the invariant `AckInv` says that between the look at the room and `enqueue()`
the queue is not full: the IO thread is the only producer and the worker only
makes room (`QuietSteps`). It also says that no command has ever been refused
by `enqueue()`. `EchoIsOfSameTask` needs `EchoInv`: every entry of the map was
supplied by a command of its `task_id` which is accepted or about to be.
`SeqAnsweredOnce` needs in addition that an answered number is not in the map
any more, and the assumption that the peer does not reuse numbers
(`PeerNumbersDistinct`): a restarted driver begins again at 0, and one that runs
long enough comes round; `PeerKeepsNumbersApart` below is what the driver
guarantees. Under the same assumption:

* `EchoIsExact` is `EchoExactUntilOverlap`. `ServedOnceInv` says that no command
  is handed over twice, so that one in the queue has not been answered;
  `ExactInv` says that until the first overlap or time-out the entries of the
  map are exactly those of the tasks that are tracked and unanswered
  (`Tracked`), at most one for each `task_id`, so that the callback has no
  choice.
* `UnmatchedNeedsTimeout` is `UnmatchedOnlyAfterTimeout`. After an overlap a
  task may have taken another one's entry, so which entry belongs to whom is
  lost; `PairInv` says that there is nevertheless some injective function from
  the tracked tasks to entries of their own `task_id` (`Pairing`). When a task
  is answered with an entry that the function gives to another, the two are
  exchanged; so an entry is always left. This replaces a count of tasks and
  entries.

`DrainKeepsItsPromise` is `DrainedBeforeExit`: `DrainInv` says that what was
accepted at the signal is in the worker's hand or finished once the drain has
seen an empty queue, that the worker is gone before the link is stopped, and
that what it finished was answered; a worker that is gone has empty hands.

**PowerManagerProofs.** `PowerInv` says that at most one thread is between
lock and return, that a thread about to write a rising edge has slept for its
delay while it kept every other rail from changing, that one about to write
a falling edge found the rail old enough by the manager's clock, and that a
rail that is on has been on for at least as long as the manager's clock says. The two timing properties are then
consequences for single steps. For ALL_OFF, `Progress` says of the thread that
does it that the rails left to do are the last ones, in order, that of those
done exactly the ones that failed are on, and that the result so far is the
truth about them; since the mutex is held from beginning to end no other thread
changes `is_on`. `AllOffTellsTruth` and `AllOffIsThorough` follow when no rail
is left.

**DaemonLinkProofs.** `LinkInv` adds to `DescriptorsAccounted` what holds of
the socket at each place of the IO thread (`Socket`), that a connection that is
up after a handshake was greeted or came while the loop took the link for
connected (`Handshake`), and that the last heartbeat is no older than the
greeted connection (`Heartbeats`): `reset()` in `Greet` is what makes it so.

**TcpServerTransportProofs.** `ServerInv` says that an accepted client is new
until it is stored (`Stored`), that the threads of one run have ended before the
next (`Ended`), and that the RX thread of a running transport has its own
client, or another which replaced that one (`Reading`).

**GpioPathProofs.** `OrderInv` orders all commands by the number under which
they were given: what was applied, then what is on the wire, then the one
waited for, then the requests; and for the valve tasks, what the worker has done,
then its queue, then the wire. A retry appends the one waited for, a break
cuts off a suffix, and both keep the order (`PinsKeepOrder`). `PathInv` adds
that the on-time in force is at most the one asked for unless that write was
lost, for any writes that failed before (`PwmKeepsShare`), that a command whose
writes got through leaves the recorded on-time in force if it fits the recorded
period, so that the same command can set period, on-time and enable without a
refusal (`RepetitionCures`), and that the level last stored is the one last reported
(`EventsNeverRepeat`). The lemmas on sequences are about `Append`, `Tail` and
prefixes.

**DriverRequestsProofs.** For any size of the counter, any number of retries
and of calls, and a link that breaks at any time:

* `OnlyFailedRetriesRemain`: `MapInv` says that a key in a map is that of the
  waiting call or was left by a retry that could not be sent, and that an
  answered call's key is gone. `CrashNeedsLeakedKey` is `CrashOnlyOnLeakedKey`,
  its step form: `get_future()` throws only on a key which a failed retry left
  behind, however often `next_seq_` wraps. It does not say that this cannot
  happen: a key that no answer, no monitor and no transition clears is met again
  after 65 536 numbers, and the run reaches that state.
* `SuccessMeansApplied`: `OwnInv` says that a frame with the waiting call's
  number is that call's, and that an acknowledgement of success under that
  number, under way or taken, is of a command carried out. It holds for a
  counter that comes round, for every call whose numbers were on no frame when
  they were drawn (that is what `reused` leaves out).
* `RefusedNeverApplied`: `ReachInv` says that a call which returned "not
  connected" or "failed to send" has no frame under way and no task queued: a
  first attempt that is refused never reached the link.
* `CarriedOutPerAttempt` is `AppliedOncePerAttempt`: the daemon keeps no record
  of the commands it has seen, so that a retry after a late or lost answer has
  it carry the command out again, but never more often than `ack_retries` + 1.
  `AttemptInv` shares these attempts out: the executions of a command, its frames
  under way (counted by `Places`) and those the call may still send
  (`TriesLeft`) are together no more. Sending moves one from the last share to
  the second, the daemon from the second to the first, a time-out and a broken
  link only lower the sum; a call that has returned has no tries left, so its
  frames under way bound what may still happen. For tasks, which are sent once
  but wait in the daemon's queue, `OnceInv` does the same.
* `SuccessesAreBacked`: the daemon acknowledges queueing a task and answers the
  task under one number, and its answer may be meant for another task, so that
  no call can be matched with its own execution. `CountInv` counts instead: the
  calls that succeeded or hold a success, and the answers to tasks under way,
  are together no more than the tasks executed (`OnceInv`: each task has one
  frame and is queued once, so that no execution is counted twice).

Two theorems hold as long as the calls use fewer numbers than there are
(`NumbersSuffice`), which is what the driver guarantees between one wrap and the
next:

* `NumbersStayApart`: no call is given a number that is still under way, and the
  process does not end. `NumberInv` says that every number in a map, under way,
  or waited for is below the counter, and that the counter has room for the
  attempts left.
* `PeerKeepsNumbersApart` joins the two ends: the numbers grow from the daemon's
  `pending_tasks` over the frames under way to the frame about to be sent
  (`OrderInv`), so that the daemon never receives a number that it still has in
  its map. This is `PeerNumbersDistinct`, derived from what the driver does.

**ByteLinkProofs.** Any payload size, any payloads (also such that look like
sync bytes or like whole frames), any number of damaged frames and any sizes of
reads:

* `ParsedIsDone`: what the fold leaves is too short for a frame and one more
  `try_parse()` changes nothing. So the model's fold is the loop
  `while (try_parse(cb)) {}`, and the loop ends. Each round that is not the last
  drops a cell.
* `FrameRoundTrip`: a frame made by a codec's own `encode()`, in front of any
  other cells, is handed over by its first `try_parse()`.
  `OtherCodingIsInvalid`: a frame of the other program's `encode()` passes the
  check of no codec, whatever follows it.
* `RestIsLessThanAFrame`: from the first.
* `IntactFramesAreDelivered` is `IntactFramesSurvive`, the property that a codec
  is written for. Its inductive step says that a round of `try_parse()` either
  delivers a given frame or leaves all of it: the search for sync bytes stops at
  the frame at the latest (`ScanStopsAtFrame`); a rejection gives up no more than
  the two sync bytes it has looked at; and a valid frame found earlier cannot
  reach into it, because a CRC cell is no byte and so lies at the frame's own end
  (`ValidIsTheFrame`). This last point rests on the abstraction of the CRC: it
  never collides. With a real 16-bit CRC a payload can, with odds of 1 in
  65 536, hold bytes that make a damaged frame end inside its successor.
* `MessagesKeepOrder` is `DeliveredInOrder`, for a line that loses or damages as
  many frames as it likes. `OrderInv` looks at the CRC cells, which tell the
  message they belong to and occur nowhere else (`InStep`): the messages handed
  over so far are in the order of writing, the CRC cells in the buffer and on the
  way are in order too and not older than these, and belong to messages that were
  written. A read, a cut and a damage keep this, because they take cells away or
  put plain bytes in their place; a written frame adds a CRC cell that is newer
  than all others. A delivery takes away everything up to the CRC cell of the
  frame it hands over, so that none comes twice.

The two definitions that go over data are reached without an induction theorem
over operators: `FoldLeft` is unfolded into a finite sequence of rounds
(`ParsedByRounds`), and an induction over numbers is the well-foundedness of
`Nat` applied to the set of numbers at which the claim fails (`EveryNumber`).

Only model-checked: liveness (`AcceptedIsExecuted`, `AckedIsAnswered`,
`EstopReturns`, `CallReturns`, `SilentIsDropped`, `ClientIsRead`, and
`StopReturns` of the two transports), which with fairness and ENABLED is out of
the prover's reach. Every other property that a passing run checks is a theorem.

## Not modelled

* `TcpClientTransport` (driver): not used by the default configuration, where
  the driver is the server; it has the shape of the daemon's client in
  DaemonLink.
* `InputHandler` (no device is added in this program), `SensorReader`,
  `ModuleInitializer`, `ConfigLoader`, `Logger`, utilities, messages, launch
  files, the camera benchmarks and the scripts: I/O, parsing and formatting.
* Parts of modelled components: the contents of the tasks other than their
  power commands; the publishers and diagnostics of the driver and its
  `on_shutdown()`; `read()` and the spin thread of the hardware interface;
  `snapshot()` of `GpioController`; the races of `stop()` for the descriptor of
  a serial port; descriptor numbers that the kernel uses again.

## Plan

Done: the task path, power, the driver's requests, both TCP transports in use,
the codecs, and the pins. What is left, in this order:

1. A composition of DriverRequests with DaemonTasks: the abstract daemon of the
   first shown to be implemented by the second. `PeerKeepsNumbersApart` is the
   first half, what the driver owes the daemon. The abstract daemon handles a
   frame in one step, so that its acknowledgement always comes before the
   response; in DaemonTasks the worker may answer in between, which the
   composition has to allow for first.
2. `TcpClientTransport`, as a second client of the shape of DaemonLink.
