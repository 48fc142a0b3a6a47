# Verification of the dexterous hand's runtime

TLA+ models, TLC configurations and TLAPS proofs for `src/`: the control
software of a 16-servo hand (C++ runtime and drivers, a Python/MuJoCo simulation
session, ROS 2 nodes and their supervisor).  Paths below are relative to `src/`;
C++ files without a directory are in `cpp/src/`.

## 1. Inventory

| Component | State it keeps | Operations | Who calls it |
|---|---|---|---|
| `StopCoordinator` (send gate) | `stopped_`, `generation_`, `in_flight_`, one mutex | `beginSend`, permit release, `requestStop`, `recover`, `generation`, `commandsAllowed` | every thread |
| `ControlLoop` | `sequence_`, targets, `MotionControlCore` | `setTargets`, `tick`, `clearPendingCommands` | control thread, application |
| `MotionControlCore` | `last_tick_`, planners and limiters per joint | `step` | `ControlLoop::tick` |
| `CommandMailbox` | latest command | `publish`, `takeLatest`, `clear` | control and communication threads |
| `FeedbackBuffer` | per servo: position, velocity, time stamp, validity | `updateJoint`, `publish`, `read` | both threads |
| `CommunicationWorker` | polling cursor | `processCommands`, `pollFeedbackSliceRealTime`, `pollFeedback` | communication thread |
| `Sts3215Transport`, `PosixHalfDuplexPort` | `sending_`, `faulted_`; `active_`, `faulted_`, buffer | `startSend`, `finishSend`, `read`; `startWrite`, `finishWrite`, `readExact`, `discardInput` | communication thread; `startSend` inside the gate's lock |
| `RealtimeExecutor` | two thread handles, `started_once_`, `stopping_`, `wake_cv_` | `start`, `stop`, the two loops, `failSafe` | application threads |
| `FeedbackSafetyMonitor`, `SafetyStateMachine` | counters, latched inhibition, state | `evaluate` | control thread |
| `PeriodicScheduler`, `DeadlineMonitor` | next time, skip count; sliding window | `completeCycle`, `record`, `health` | control thread |
| `ControlTelemetryRing` | slots, two atomic indices, loss counter | `tryPush`, `tryPop` | control thread, one diagnostic thread |
| `ReadOnlyBench` | feedback buffer, `done`, reads and ticks of the report | `run`: one reading and one observing thread | application |
| `SimulationStepBridge` (`cpp/examples/s6_control_bridge.cpp`) | fail latch, last time, the pipeline on one thread | `step`, `requestStop` over a pipe | `ControlBridgeProcess` |
| `ControlBridgeProcess` (`simulation/s6_mujoco_bridge.py`) | the process and its two pipes | handshake, `step`, `close` | `SimSession` |
| `SimSession` (`simulation/s6_official_bridge.py`) | state, epoch, last sequence, target, two watchdogs | `accept_command`, `tick`, `pause`, `stop`, `reset` | simulation node |
| `LeapSimNode` (`simulation/s6_ros2_node.py`) | armed, life-cycle state, supervisor lease, next epoch | life-cycle callbacks, `on_arm`, `on_stop`, `on_reset`, `on_tick` | ROS 2 |
| Supervisor, controller (`scripts/s6_ros2_*.py`) | mode, pending request, heartbeats; sequence, epoch | main loop, services; `tick` | ROS 2, operator |
| Joint table (`mapping/JointTable.cpp`, `load_joint_order`) | the joints by hardware id | `loadJointTable`, `resolveIdentityPath` | at start, on both sides |
| Command contract (`contract/CanonicalCommand.hpp`, `simulation/canonical.py`, `s6_command_contract.py`) | none | reorder by name, validate | per command |
| Protocol, trajectory arithmetic | none, floats | encoding, filtering | transport, motion core |

**How they interact.**  The control thread ticks periodically: it reads the
feedback buffer, has it judged by the monitor, computes a command and puts it in
the mailbox with the gate's current generation.  The communication thread takes
it, and for each servo asks the gate for a permit; the gate starts the
transmission while it holds its mutex, and the thread waits for the end of the
transmission outside it.  Then the thread reads a few servos and waits on a
condition variable.  Anyone may close the gate at any time; an operator may
reopen it once nothing is in flight.  The executor owns both threads and stops
them when `stop()` is called, when a worker throws, or when the monitor asks for
a safe stop.  The simulation runs the same pipeline single-threaded in a child
process, below a session that numbers its epochs; a supervisor arms and stops
the nodes.

**What is hard.**  Stops and recoveries at any point of a tick or a batch; time
passing between a check and its use; a bus that cannot say whether a frame has
left; batches broken off half-way; wake-ups lost between predicate and wait;
several callers of `stop()`; a lock-free ring; an exception in one of two
threads; and in the simulation queued commands of an earlier epoch, restarts,
leases, requests that are served after their caller gave up, a child process
that hangs or dies, and the same file or message read by code in two languages.
`PROJECT.json` lists each hazard at its line.

**What makes each component correct.**

- gate: nothing starts after `requestStop()` has returned or with an old
  generation; `recover()` succeeds only when nothing is on the wire; permits are
  counted exactly;
- pipeline: batches leave the servos in an order some sequence of prefixes
  explains; a stop kills what was decided before it; a faulted bus moves
  nothing; polling is fair;
- transport and port: one frame on the wire at a time; faults are for ever;
- executor: each thread is joined once; what begins to stop ends; inhibition is
  final;
- ring: bounded FIFO, no torn frame, losses counted;
- scheduler and deadline window: times stay on the grid, counts equal a recount;
- benchmark: a cycle observes what was read; a report is of a complete run;
- bridge: a step that is sent is whole or fails, for good; both ends mean the
  same joints;
- contract: both languages accept the same commands and order them alike;
- supervisor: its mode is true of the hand; a stop or a pause, once accepted, is
  seen through whatever fails;
- session, node: no command of an old epoch or sequence sets a target; a latched
  stop needs a reset; the death of the supervisor or the controller stops
  motion.

## 2. Modules

| Module | Models | Kind |
|---|---|---|
| `StopGate` | what the gate promises: open or closed, who is authorised, what is on the wire | abstract specification |
| `StopCoordinator` | `safety/StopCoordinator.cpp` with the mutex and the steps inside `beginSend` | refines `StopGate` |
| `StopCoordinator_proofs` | its theorems | TLAPS |
| `CommandPipeline` | `ControlLoop::tick`, `CommunicationWorker`, mailbox, transport and port, with the gate | composition |
| `CommandPipeline_proofs` | its theorems | TLAPS |
| `FeedbackSafetyMonitor` | `evaluate` as a function on a record | operators |
| `RealtimeExecutor` | the threads' life, both loops, `start`, `stop`, `failSafe`, using the monitor | composition |
| `RealtimeExecutor_proofs` | its theorems | TLAPS |
| `TelemetryLog` | a bounded FIFO that counts its losses | abstract specification |
| `TelemetryRing` | `ControlTelemetryRing` | refines `TelemetryLog` |
| `TelemetryRing_proofs` | its theorems | TLAPS |
| `CommandAuthority` | what the simulation promises to whoever commands the hand | abstract specification |
| `SimSession` | the session's methods as functions on a record | operators |
| `SimulationNode` | `LeapSimNode` with its session, the command queue and the controller | composition, refines `CommandAuthority` |
| `SimulationNode_proofs` | its theorems | TLAPS |
| `ManagedNode` | what the supervisor can make of a managed node | operators; implemented by `SimulationNode` |
| `Supervision` | the supervisor's program, with the node (`ManagedNode`) and the controller as processes | composition |
| `Supervision_proofs` | its theorems | TLAPS |
| `CanonicalJoints` | the number of joints, which C++ and Python share | constant |
| `JointTable` | the joint mapping file and its two readers | operators |
| `StepBridge` | the control bridge process and its client, with the pipes and the file | composition |
| `StepBridge_proofs` | its theorems, and that both languages read the file and the command contract alike (`JointTable`, `CanonicalOrder`) | TLAPS |
| `ControlTiming` | `PeriodicScheduler` and `DeadlineMonitor` on a record each | operators |
| `ReadOnlyBench` | the benchmark's two threads, with scheduler and buffer | composition |
| `ReadOnlyBench_proofs` | its theorems and those of `ControlTiming` | TLAPS |
| `CanonicalOrder` | the command contract in C++ and in Python | operators |

The abstract specifications state promises and are not translations of lines, so
they have no entries in `map`.  Operators named `...Uncounted`, `...Unlocked`
and so on, with a comment that begins "Mutant of", are faulty variants of the
definition they name; `PROJECT.json` pairs each with the property it breaks, and
no specification uses them.

### StopCoordinator

`stopped`, `generation`, `in_flight` are the members; `mutex` is held across the
steps of `beginSend` (`BeginSend`, `Check` or `Refuse`, `StartTX` or
`StartFails`, `GrantPermit`); the other operations hold it for one step and need
it free.  `pc` and `ticket` are the callers, who follow the protocol of
`processCommands`; `wire` is the physical transmission.  The refinement maps
`open` to `~stopped` and the authorised senders to those whose ticket is the
current generation, so that the generation counter disappears.

### CommandPipeline

The control thread is cut at the gate (`TickGate`), the snapshot
(`TickEstimate`), the motion step (`TickCompute`, or `TickReject` and then
`TickClear`), the reading of the generation (`TickStamp`) and the mailbox
(`TickPublish`).  The communication thread is cut at the evaluation of `now`
(`CommEnter`), the mailbox and `wall_start` (`CommTake`), each age check
(`CommCheckTTL`), the permit with the start (`CommStart`, `CommRefused`), the
end of the transmission (`CommSent`, `CommSendFailed`), the stop after a failure
(`CommLatchStop`), the permit's release (`CommRelease`) and each read
(`PollJoint`).  The gate's operations are single steps: `StopCoordinator` shows
that its mutex makes them so.

Positions are abstracted to the sequence number of the command a servo last
received (`applied`); finite or not, inside limits or not, and the answer of a
servo are choices. `decided` is a history field: the generation when the tick
found the gate open.  `skew` is the time between `now` and `wall_start`, so that
the code's `joint_now` is `clock - skew`.

### RealtimeExecutor and FeedbackSafetyMonitor

`at` is where each worker is; `handles` and `moved` are the `std::thread`
objects left in the executor and those moved to a caller's stack by `stop()`.
The timed wait is cut into predicate (`CheckPredicate`), falling asleep
(`Block`) and waking (`TimeOut`, or `Notified` as part of the step that
notifies), because `stopping_` is set and `notify_all` called without the wait's
mutex.  A cycle's feedback is its `health`: the worst servo.  A tick publishes
or not, and a transmission succeeds or fails.

### TelemetryRing

One step per atomic access, and two for writing a slot, which holds `Torn` in
between. The release stores and acquire loads order the other side's slot
accesses, so interleaving semantics is exact for this use.  The refinement takes
the frames between the indices as the queue; a refused push takes effect when
the full ring is seen.

### SimSession, SimulationNode and CommandAuthority

`session` is `self.session` with `state`, `epoch`, `last` (`last_sequence`),
`target`, the life of its bridge process, and `silent`, whether `wall_timeout_s`
has passed since the last accepted command.  A target and a queued command carry
their *age* by the plant's clock, in ticks, negative when the stamp is ahead of
it; `TickSteps` ages them, and a reset, which sets the clock to zero, gives
queued ones any age that is not past (`Redate`).  The positions make no
difference to any decision.

The node's callbacks run on one executor, so each is one action: the life-cycle
callbacks (`Configure` to `Shutdown`), the services (`StopService` is `on_stop`
and `on_arm(False)`, whose effects are equal), `on_command` (`AcceptCommand`,
`RejectCommand`) and `on_tick` (`LoseLease`, `TickStops` for a watchdog or the
TTL, `TickFails` for the bridge or the plant, `TickSteps`).  `Restart` is a new
process with a new session id.  The controller hears the session, the epoch and
the clock on separate topics, each late, and publishes into `wire`, which keeps
the last `MaxWire` commands and may lose any.  The supervisor and the operator
are an environment that asks for every transition and service at any time, in
any order; this contains everything the supervisor's program does, which is in
`Supervision`.

The refinement takes session id and epoch as the authority, `last_sequence` as
the last order, and `NORMAL` as moving: a stop is a `Revoke`, and resume, reset,
configuration and restart are a `Renew`, which must be later than everything
before.  It holds of a managed node; an unmanaged one may go back to an epoch
(section 6).

### Supervision and ManagedNode

`mode`, `reason`, `pending` and `sim_status` are the supervisor's members.
`main()` is one thread that waits inside its transitions while callbacks run, so
what it has still to do is a `plan`: the sequence of requests, waits and kills
of the start, a pause, a resume, the latch or the exit.  `Issue` sends the
request at its head, `Proceed` takes the answer or the awaited status, `GiveUp`
is a time-out, a refusal, a child's exit or a signal.  With an empty plan the
main loop looks, in the code's order, at the children, the status and `pending`
(`LatchOnChild`, `LatchOnFault`, `LatchOnStop`, `Begin`).  A request it has
given up on stays in `requests` and may be served later (`Serve`,
`ControllerServes`).  `wire` says whether a command of the epoch in force is
under way; one of an older epoch is nothing (`ImplementsCommandAuthority` shows
that).

The node is a record with the operations of `ManagedNode`, each the set of nodes
it may leave behind.  That this is no invention is `IsTheManagedNode`, a
property of the run `simulation`: whatever the detailed node does to its life
cycle, its arming and its session's state is one of these operations, with that
operation's outcome.  An invalid life-cycle transition, which rclpy answers with
a failure, is a refusal.

### StepBridge and JointTable

`client` is where `ControlBridgeProcess` stands, `stdin` and `stdout` are the
pipes, line by line, and `process` with `hung` is the child.  `ServeStep` is one
round of the bridge's loop: `parseStep`, the checks of `step`, the
single-threaded pipeline, the latch, the answer.  A line's data are what the
code asks of it: its time, whether it parses, whether the hand is inside its
limits.  `command` holds, per joint, the time of the step whose command it last
took, so that a mixture of two steps would show.  The batch may be cut short
after any servo, which stands for its age limit by the steady clock.  The
feedback is as old as the step that brought it, so neither its age nor the
watchdog can refuse it.  A call with a vector of the wrong length or a value
that is not finite raises before anything is written (`AskRefused`): it leaves
no trace but its own answer, and the next call may well succeed.

A mapping file is a record with the outcome of each test the two readers make,
and its joints in any order with any ids; `Table` and `Order` are what each
makes of it.

### ControlTiming and ReadOnlyBench

Both classes of `ControlTiming` belong to one thread: a record, and each method
a function of it.  The benchmark's observer is cut at the sleep (`Leave`,
`Wake`), the buffer (`Observe`) and the end of the cycle (`Complete`,
`CompleteThrows`); the reader at the loops' look at `done` (`Loop`), each
reading (`Read`), its publication (`Publish`, or `PublishThrows` for any
exception), and its end (`SetDone`, `Join`).  `snapshot` is the calling thread's
own, `feedback` the buffer.  `publish()` overwrites the buffer's `sequence` with
the snapshot's and adds one, and the benchmark never touches the snapshot's, so
the buffer's is 1 from the first publication on.  How many readings have been
published is therefore not in the code's state; the history variable
`published` counts them for the properties, and no guard reads it.  What a servo
answers and when time passes are choices.

### CanonicalOrder

Functions of a command and the expected names, once as the C++ loops over pairs
of indices, once as the Python sets and dictionary.  Names and values are
constants with a predicate each (well-formed, finite); no run is needed, since
everything said about them is proved.

## 3. Runs

| Run | States | Question |
|---|---|---|
| `stop_gate` | 10 thousand | can any interleaving of senders, stops and recoveries break the gate's promise, its count, or keep it from draining? |
| `pipeline` | 290 thousand | what can servos receive when ticks, batches, stops, recoveries, delays and bus faults interleave? |
| `executor` | 127 thousand | do start, stop, failures, inhibition and safe stop always end the threads once and keep inhibited motion off the bus? |
| `telemetry` | 3 thousand | is the ring a FIFO, at every fill level and position of the indices? |
| `simulation` | 335 thousand | can transitions, services, restarts and late commands in any order move a managed node that is disarmed, out of lease, or under an old authority?  Is it the node the supervisor counts on? |
| `simulation_unmanaged` | 123 thousand | does a dead controller stop an unmanaged node, with its pauses and resets? |
| `bench` | 685 thousand | do the benchmark's threads see and count the same run, and end whatever throws? |
| `step_bridge` | 278 thousand | can a step be partial, late or repeated, the joints be confused, or a caller wait for ever? |
| `supervision` | 67 thousand | is the supervisor's mode true of the hand, and do its stop and pause end, whatever dies or answers late? |
| `permit_outlives`, `safe_stop_gate`, `pause_twice` | | counterexamples to what a document says, see section 6 |

**Bounds.**  `stop_gate`: three senders (one holds the lock, one holds a permit,
one waits) and five generations, that is two stops with two recoveries.
`pipeline`: two servos, so that a batch can tear between them; two commands, so
that one can follow a torn one; three generations, a stop and a recovery (a
failed send may add one more); three points of time with an age limit and a
control interval of one unit, so that a command can be fresh or stale and an
interval in time or missed.  `executor`: two callers for concurrent `stop()`,
one servo per batch, two critical cycles to a safe stop, two warning cycles to a
degradation; a stop and a recovery by the environment, and five more stops that
occur once each.  `telemetry`: three slots, nine frames, three laps.
`simulation`: two processes of the node, epochs up to 2 and two commands per
epoch heard, so that a command of one process or epoch meets the next one; a TTL
of zero ticks, so that a target lives for one step, and stamps up to two ticks
ahead (one is accepted, two are not); a queue of one command, which is overtaken
as well as late.  `simulation_unmanaged`: one process, and epochs from 0.
`bench`: two servos and two rounds, so that a joint is read again after it was
observed; a period and an age limit of one unit and a clock of three while
servos are read, so that a cycle can be on time, late by one or several periods,
and a reading fresh, stale or from the cycle's future; once the reader waits,
time goes on until the observer need not sleep. `step_bridge`: two joints, times
0 to 2 with a largest interval of one, and three calls, since what is said of
them relates one call to an earlier one and a refused call may fall in between:
good, repeated, late, too far ahead, cut short, unanswered or refused
(`CallsAreWhole` holds for any number); every file of one or two joints with ids
0 to 2, every header, and every environment for a calibrated hand. `supervision`
needs no bound: plan, requests and modes are finite, and epochs and sequences
are left to `simulation`.  Bounds are in the guards, named `Max...` (and
`Ahead`, `Horizon`, `Calls`).  The `executor` ends, a node that is shut down and
not restarted stops, a client may never call again, and an exited supervisor
leaves nothing to do, so `executor`, `simulation`, `simulation_unmanaged`,
`step_bridge` and `supervision` do not check for deadlock; the others do (in
`bench` a finished run stutters by an explicit step).

**Fairness.**  `stop_gate`: a thread in the critical section runs on, a started
transmission ends (`finishSend` has a timeout), and a released mutex is not
withheld from a waiting destructor for ever (strong fairness of `Release`).
`pipeline`: the communication thread runs; its calls have deadlines
(`finishWrite`, `readExact`).  The clock, the UART, the operator and the control
thread owe nothing.  `executor`: both workers and a caller inside `start()` or
`stop()` run; nobody has to call anything, and feedback never has to be good.
`telemetry` claims no liveness.  `simulation`: the node's timer runs on steady
time and fires in every state (weak fairness of what `on_tick` does, short of
failing), and a lease that a dead supervisor no longer renews runs out.  Nobody
has to ask for anything, no command has to arrive, and the silence watchdog need
not fire: simulated time suffices. `bench`: both threads are scheduled, a
reading ends and time passes; nothing is assumed of a step that throws.
`step_bridge`: what client or bridge has begun goes on, except that a bridge may
hang; nobody has to call.  `supervision`: the supervisor's program goes on,
because each of its waits has a deadline; a command under way arrives; a node
that gets no commands stops by its TTL or its watchdog; and once there is no
supervisor, leases run out.  No child has to answer, no status has to be heard,
and nothing has to go well.

**Properties beyond the type invariants.**

- `PermitAccounting`: `in_flight_` counts the live permits and covers the wire.
- `ImplementsStopGate`: refinement of `StopGate`.
- `DrainsAfterStop`, `PermitsAreReturned`: a recovery is never blocked for ever.
- `BusExclusive`: a motion frame is alone on the bus, inside its permit.
- `TornBatchOrder`: servos hold a prefix-ordered history whatever batches tear.
- `FaultIsFinal`: after an unproven transmission no servo receives a target
  again.
- `StaleNeedsRecovery`: what was decided before a stop reaches a servo only if
  an operator reopened the gate in between.  The code reads the gate and the
  generation separately, so the stronger claim, that it never does, is false,
  and the documents do not make it.
- `NoMotionAfterGap`: after one interval longer than `max_step`, no command is
  ever published by this runner, although its gate can be recovered (the step is
  rejected and `last_tick_` does not move).
- `PollingIsFair`: every servo is polled again and again, also on a faulted bus.
- `HandleOwnedOnce`, `StoppingEndsThreads`, `StopReturns`: threads' ownership
  and end.
- `NoMotionAfterInhibit`: no transmission starts after the first inhibition was
  latched, also when good feedback returns and the gate is recovered.
- `NoSharedSlot`, `ImplementsTelemetryLog`: the ring.
- `ImplementsCommandAuthority`: the plant moves only under an order of the
  session and epoch in force, each newer than the last; a stop revokes at once;
  no authority comes back.
- `BridgeFollowsSession`: a bridge process runs exactly while the session takes
  commands.
- `IsTheManagedNode`: the detailed node implements the node that `Supervision`
  uses.
- `MotionNeedsArming`: `on_tick` asks for the life-cycle state, and for the
  lease of a managed node while it is armed, but steps the session without
  asking whether it is armed; so whatever disarms the node must take the target
  away, and that it always does is the property.
- `DeadControllerStops`, `DeadSupervisorDisarms`: the death of either ends
  motion for good.
- `ObservationSound`: a cycle's counts of invalid and stale joints are those of
  the last published readings, judged at the time the cycle took before it
  looked.
- `GridAccounted`: each planned time is a cycle or counted as skipped, once.
- `ReportIsWhole`, `RunEnds`: a report is given only of a complete run without
  exceptions, its counters agree, and both threads end whichever of them throws.
- `StepsAreWhole`: a step that succeeds returns its own command for every joint,
  times go forward, and after a call has failed that got past the checks of its
  arguments no other succeeds.
- `JointsAgree`: a bridge that is ready and its client mean the same joint by an
  index.
- `BridgeEnds`: a call returns unless the bridge hangs; `close()` leaves no
  process even then; a client that dies leaves none either, unless the bridge
  hangs.  A call to a bridge that hangs never returns, and holds the node's
  executor: that is how the code is, and the property excepts it.
- `ModeTellsTheHand`: the hand moves only in `ACTIVE`, in the last step to it or
  while being stopped; in `PAUSED` nothing under way can move it; a latch leaves
  no controller.
- `StopEndsMotion`, `PauseSettles`: a stop ends all motion for good, in whatever
  it falls and whoever dies, and a pause ends in `PAUSED` or `LATCHED` unless
  the supervisor ends first.

## 4. Proofs

`StopCoordinator_proofs` proves `TypeOK`, `PermitAccounting` and the refinement
of `StopGate` for every finite set of senders and every bound on the
generations. `PermitAccounting` is not inductive: that the mutex is held exactly
by the thread between lock and count (`MutexInv`), that the check still holds
while it is (`CheckInv`), and that no ticket is from the future (`TicketInv`,
without which a new generation could authorise an old command) are needed.
`IInv` is their conjunction; one step per action shows it kept, with lemmas on
how the set of permit holders grows and shrinks.  The refinement then maps
`StartTX` to `Start`, `RequestStop` to `Stop`, `Recover` to `Reopen` (where
`in_flight = 0` and the accounting give an empty wire), reading the generation
to `Authorise`, and everything else to a stutter.  `StopsOnlyDrain` is the
safety half of `DrainsAfterStop`: from a stop to the recovery that ends it no
permit is made.  It needs that a sender between `start()` and the count has not
been overtaken by a stop (`StartedInv`).

`CommandPipeline_proofs` proves every safety property of the pipeline's run:
`TypeOK`, `BusExclusive`, `TornBatchOrder`, `FaultIsFinal`, `StaleNeedsRecovery`
and `NoMotionAfterGap`, for any number of servos, any age limit, interval and
slice, and every bound.  Where the communication thread stands fixes what
transport, port, wire and permit are doing (`BusInv`), and the one stop that no
bound caps, of a failed send, comes only once (`GenerationInv`).  Sequence
numbers do not fall from the servos over the batch, the mailbox and the tick to
the counter (`SequenceInv`), and a batch has reached the servos before
the cursor (`BatchInv`), which gives the torn batch.  For a command that
outlives a stop the argument is on generations: when `tick` sees the gate open
in generation `d`, then `d + 1` can only be a closed gate (`DecidedInv`), so
that a permit given past `d` is one of `d + 2` or later, after a recovery.
`NoMotionAfterGap` needs that neither thread's local time is ahead of the clock
and that an accepted step has stored its own (`ClockInv`).
`CommandsGoOnce` says more than the torn batch: no servo is ever sent a command
twice, or an older one after a newer.  `SequenceInv` is too weak for it, as it
lets equal numbers stand one behind the other; `NewerInv` makes the order strict
and says, for the batch under way, that the servos it has not reached were sent
something older.

`KeepsTheGate` carries the gate's promise from the permit to the wire: with the
communication thread as the one sender, authorised by the command it has taken
and on the wire with its frame, the whole path from mailbox to UART takes only
`StopGate`'s steps, or gives authority back at the end of a batch, as long as
the bus has not failed.  It needs that no command is of a generation still to
come (`TicketInv`), which a later stop would otherwise make valid.  The limit is
not for the proof's sake: after a fault a frame may outlive its permit, which is
the finding `permit_outlives`; `HealthyPermits` says that before one it does
not.
`RoundsAreShort` and `PermitsEndSoon` give the communication thread a measure,
at most `5 * N + 5` steps from one reading to the next and three to the return
of a permit, that each of its steps lowers and nobody else's raises.

`RealtimeExecutor_proofs` proves `TypeOK`, `HandleOwnedOnce` and
`NoMotionAfterInhibit` for any set of callers, any limits of the monitor and
every bound.  A caller is inside `start` or `stop` exactly when it holds the
lifecycle mutex (`LockInv`), and a running thread belongs to the executor or to
the one caller that moved it out and joins it (`OwnInv`, with `StartInv` for a
start that fails halfway).  The generation passes its bound by the stops that
nothing caps, and these come once each: the first inhibition, a failed start and
the end of either loop (`CountInv`).  From the first inhibition on the mailbox
is empty and what was taken before is of an older generation (`InhibitInv`).
`RunsOnce` is the safety half of `StoppingEndsThreads`: an executor once told to
stop is never told otherwise, and when both threads have ended, and no `start`
is still under way, none runs again.  That exception is real: the control thread
may throw and end before `start` has created the other one.
`StoppingTakesFewSteps` adds how long it may take: `Ahead` counts, for each
place a thread may be in and the rest of its batch, the steps it has left, at
most `2 * Servos + 7`; each step of the thread lowers the count, and neither a
wake-up nor a recovery nor the creation of the other thread raises it.
`SafeStopIsLast` says that a monitor in SAFE_STOP judges no cycle any more: it
got there with `StopTicks` critical cycles (`StateInv`), and from then on the
control thread is on its way out (`MonitorInv`), whatever the communication
thread still reads.

`TelemetryRing_proofs` proves `TypeOK`, `NoSharedSlot` and the refinement of
`TelemetryLog` for every capacity.  The argument: indices less than a lap apart
have different slots (`SlotsDiffer`); the invariant says that fewer than a lap
lies between the indices while the producer writes (`WindowInv`), that a slot a
thread is done with stays as that thread left or found it (`SlotInv`), and that
every frame offered is counted as stored, lost or on its way (`AccountInv`); a
write falls outside the window (`WriteOutside`), so the queue the ring stands
for is unchanged until the index is stored.

`SimulationNode_proofs` proves `TypeOK`, `BridgeFollowsSession` and
`MotionNeedsArming` for both modes, and for a managed node (`ASSUME Managed`)
the refinement of `CommandAuthority` and `IsTheManagedNode`, for every TTL,
queue depth and number of processes, epochs and sequences.  The inductive
invariant adds that a target is held only by a session that takes commands in an
armed and active node (`TargetInv`), that a managed node is active only in that
primary state (`ActiveInv`), and that while there is no session the next epoch
is new (`EpochInv`): `on_cleanup` takes the maximum for this, and without it
`Configure` would renew an authority already used.  One lemma for each method of
the session says what it leaves behind, so that the steps of the node need not
open the session's record.  `IsTheManagedNode` needs one more invariant: an
unconfigured node has no session, and one without a session is neither armed nor
active (`PlaceInv`); without it `on_configure` could leave an old session's
state, and a lost lease stop a session that is not there.  `Outcomes` lists what
each operation of `ManagedNode` leaves, `ForeseenOperations` turns the list into
cases of a step, and each action of the node is found among them.
`DisarmedForGood` and `AbandonedForGood` are the safety halves of
`DeadSupervisorDisarms` and `DeadControllerStops`: once the node has noticed
that its supervisor is lost, nothing arms it and its plant stands still; once
the controller is dead and its queue empty, no reset, resumption, activation or
restart gives the session a target again.  Both need that a moving plant follows
a target (`MovingInv`).

`Supervision_proofs` proves `TypeOK`, `ModeTellsTheHand` and that a latch is
final (`LatchIsFinal`: mode and reason stay, and no request but `sim_stop` is
made any more).  The program is one thread that walks a plan, so what is left of
the plan says which steps are done.  `PlanInv` lists, for each mode, what may be
left: the end of the start, of a resume, a pause, a latch or an exit.  `AskInv`
says that until the supervisor latches there is at most one request, that of the
step it is at, and none once it has been answered; only a latch abandons a
request, which may then be served at any time.  `HandInv` says what the steps
done so far have made of node, controller and wire: before the node is armed
nothing is on the wire and no controller is active, after the controller is
deactivated it stays so until the pause is over, and no controller outlives a
latch.  What a step of the plan is about is therefore still so when the step
comes.  `StopsAreKept` is the safety half of `StopEndsMotion`: a stop that was
accepted is not lost before it latches, and a hand at rest without its
controller never moves again, whichever late request is still served.
`PausesAreWalked` is that of `PauseSettles`: an accepted pause is taken up
unless a stop or a latch comes first, and once taken up its plan is walked one
step at a time to PAUSED, or given up into a latch.  `PlansEndSoon` counts the
steps: two for each step of the plan that is left, to ask and to pass; late
service, deaths and callbacks add none, because an answer that is not the one
waited for leaves what is asked as it was (`NothingUnasked`).

`ReadOnlyBench_proofs` begins with what the two timing classes promise for every
period, overrun and window.  `CycleOnTheGrid`: the next planned time is the
first that is not over, and the count grows by exactly the times passed
(division with remainder, `Division`). `RecordExact`: the incremental count of
misses is the number of misses in the window.  It holds because a slot not yet
filled holds no miss, so replacing it takes nothing away (`CountAfter`);
`EmptyWindowExact` starts the argument, and a rate above one is impossible
(`RateIsARate`).

On this it proves `TypeOK`, `GridAccounted`, `ObservationSound` and
`ReportIsWhole` for any number of servos and rounds and any clock.  `IInv` adds
to the types where the planned times are (`Grid`), that at most one reading is
not yet published and which (`Progress`), and that the buffer holds the last
published reading of each joint (`BufferSays`), as the calling thread's snapshot
holds the last of all its readings (`SnapshotSays`; both are `Says` of a
feedback and a number of readings).  Without `Progress` a publication could
repeat a reading or leave one out; the two `Says` are then the whole argument,
with a lemma for each step that touches them (`ReadSteps`, `PublishSteps`) and
one that says the others do not (`ObserverKeeps`).  For the report, `Whole` adds
that the servos are read in turn (`InTurn`), which of the ends of either thread
excludes an exception (`Ending`), and that each late cycle has skipped a planned
time of its own (`LateSkips`, on the cardinality of the set of late cycles).
`RunTakesFewSteps` is the safety half of `RunEnds`: the calling thread has at
most `3 * Rounds * Joints + 4` steps, it joins only a thread that exists and has
been told (`Told`), and a thread that has been told takes three steps at most.
What is left to wait for is the clock.

`StepBridge_proofs` has three parts.  First, C++ and Python accept the same
commands (`SameCommands`), give them the same order (`SameOrder`), and the
node's validator, which never looks at the form of a name, accepts what the
canonical one does as long as the names it expects are well-formed
(`SameValidators`).  The argument is a counting one: the joints that C++ finds
for the expected names are an injection of a finite set into itself, hence onto,
so that no name of the command is left over or comes twice.  Second, by the same
argument, a mapping file that C++ loads has every id (`NoIdMissing`: the last
loop of `loadJointTable` never finds one missing), Python refuses of these files
exactly the ones in which two joints have one MuJoCo name
(`OneReaderIsStricter`), and both mean the same joint by an id, although Python
does not ask whether two records have it and keeps the last (`SameJoints`).
Third, of the process: `TypeOK`, `StepsAreWhole` and `JointsAgree`, for any
number of joints, calls and times.  `PipeInv` says that there is at most one
line in the two pipes, and which, from where the client stands; so an answer is
that of the call under way.  `LatchInv` says that until the bridge fails every
call has succeeded or been refused for its arguments, and that an `OK` on its
way is of the last step taken up, later than every one that succeeded before;
`FileInv` carries the file's acceptance to the time it is used.  Two theorems
are safety halves of `BridgeEnds`. `CallersAreAnswered`: who waits for a line
has a bridge that is loading or has the step in front of it, and whatever
happens next ends the wait, unless the bridge hangs or the caller dies.
`OrphansTakeFewSteps`: when the client is dead the bridge has three steps at
most, of which each brings it nearer to its end.

Assumptions are the `ASSUME`s of the modules: a finite set of senders, a
positive capacity and queue depth, positive counts and periods, and markers that
are not values. They bound nothing else; the benchmark's `Horizon` is any
number.

Every invariant and every action property that a passing run checks is stated
by a theorem, and others that no run checks, `CommandsGoOnce`, `KeepsTheGate`
and `SafeStopIsLast` among them.  Each of the eleven liveness properties has its
safety half proved, in one or more of these ways: what is waited for is not
lost, a measure of the steps up to it falls, or it is final once it is there.

| liveness property     | safety half             | kind                        |
|-----------------------|-------------------------|-----------------------------|
| `DrainsAfterStop`     | `StopsOnlyDrain`        | nothing is added            |
| `PermitsAreReturned`  | `PermitsEndSoon`        | a measure falls             |
| `PollingIsFair`       | `RoundsAreShort`        | a measure falls             |
| `StoppingEndsThreads` | `StoppingTakesFewSteps`, `RunsOnce` | a measure falls, and the end is final |
| `StopReturns`         | `StoppingTakesFewSteps` | a measure falls             |
| `RunEnds`             | `RunTakesFewSteps`      | a measure falls             |
| `BridgeEnds`          | `CallersAreAnswered`, `OrphansTakeFewSteps` | the next step ends it; a measure falls |
| `DeadControllerStops` | `AbandonedForGood`      | the end is final            |
| `DeadSupervisorDisarms` | `DisarmedForGood`     | the end is final            |
| `StopEndsMotion`      | `StopsAreKept`, `PlansEndSoon` | not lost, the end is final; a measure falls |
| `PauseSettles`        | `PausesAreWalked`, `PlansEndSoon` | not lost, walked in order; a measure falls |

What a safety half leaves open is that the steps are taken at all.  That needs
fairness and ENABLED, which TLAPS does not support, so the liveness properties
themselves are model-checked only; so is `close()` of `BridgeEnds`, which waits
for nobody.

## 5. Not modelled, and why

Floating-point trajectory arithmetic, offline metrics and tuning; packet bytes
(a reply is right or wrong; the bytes are fixed by golden files); the JSON
parser (of a repeated key C++ keeps the first value and Python the last; the
files modelled repeat none); `PeriodicScheduler::waitNext` and `reset`, which
only tests call; statistics and formatting; the test buses, which are
fault-free; the stage 1 to 3 teaching classes; bench scripts, viewers and
integration drivers.  In the modelled parts: time is a small integer, starting a
frame and taking it wholly into the port are one step (a partial `write`
continues in `finishWrite`), and the monitor is enabled.  The simulation's
physics, `set_target` (which only tests call) and the status topics are left
out.  In `SimulationNode` the bridge answers or fails; `StepBridge` has the one
that does neither, for which `step()` waits without a time-out.  What that does
to the node, whose executor is held with its watchdogs and services until the
bridge goes on or dies, is not checked: the code promises nothing there (nor
does `s6_03_ros2_dds.md`, which says that a blocking callback may delay the
watchdog).  `StepBridge` starts where both sides read the same file: with
`LEAP_JOINT_MAPPING` set, or `LEAP_PROJECT_ROOT` set to another directory, the
bridge reads another one than the surrogate's `run()`, and nothing in the code
compares them.  `processCommands` stops the hand at a target that is not finite
(`S4Pipeline.cpp:111-114`); the planner in front of it lets none through, so
`CommandPipeline` has no such target.  `Supervision` leaves out how long a
heartbeat may be missing (it may be found missing at any time) and how processes
are started.

## 6. Where documents and code differ

- `permit_outlives`: `s5_01_safe_send.md` releases the permit after the UART's
  end or a confirmed cancellation; after a timeout the code releases it with
  neither.
- `safe_stop_gate`: `s5_06_feedback_safety.md` has the gate closed in a safe
  stop; a gate recovered after the first inhibition stays open.
- `pause_twice`: `s6_04_lifecycle_supervisor.md` lists what latches and calls a
  latch a failure; a second pause accepted while the first is carried out
  latches with nothing failed, because `pending` is cleared before the
  transition and `mode` changes after it.

Four more differences were found while modelling; no run is spent on them:

- `s5_legacy_command_ttl.md` guarantees the age limit at each start, but the
  time used (`S4Pipeline.cpp:105`) lags by any pause between the call and the
  mailbox;
- `RealtimeExecutor.hpp` has `stop()` idempotent and joining, but a second
  concurrent caller returns while the threads still run
  (`RealtimeExecutor.cpp:65`);
- `s6_stage_acceptance_2026_11_05.md` has epochs grow within one simulation
  process, but an unmanaged node cleaned up and configured again is back at
  epoch 0 (`s6_ros2_node.py:90`);
- `s6_02_official_leap_ros2.md` has the reset as the only way to arm again, but
  after the stop service a reset of an unmanaged node leaves it disarmed
  (`s6_ros2_node.py:230`).

## 7. Plan

Done: the gate, the pipeline with the bus, the executor with the monitor, the
ring, the simulation node with session and controller, the supervisor, the
bridge process with the joint table, the timing classes, the benchmark and the
command contract; proofs of every safety property the runs check, in all of
them.  Left, in this order:

1. Proofs: for the measures of section 4, that in each state that waits some
   step of a fair action is possible (the guards, without ENABLED; so far only
   for the bridge's callers).
2. `MotionControlCore` over several joints, with the planners as an opaque
   state: what a rejected step leaves behind.  (For finite inputs inside their
   limits, the only ones the callers let through, a step is rejected before any
   planner is touched.)
3. Replies that arrive after their request timed out: the port discards what is
   in its buffer, not what is still to come.
