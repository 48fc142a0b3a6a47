-------------------------- MODULE CommandPipeline --------------------------
(***************************************************************************)
(* The path of a command from ControlLoop::tick to the servos:             *)
(*                                                                         *)
(*   control thread   ControlLoop::tick, MotionControlCore::step           *)
(*        | CommandMailbox (latest value)                                  *)
(*   comm thread      CommunicationWorker::processCommands and             *)
(*        |           pollFeedbackSliceRealTime                            *)
(*   Sts3215Transport and PosixHalfDuplexPort, and the UART behind them    *)
(*                                                                         *)
(* with the StopCoordinator gate that stops and reopens it.  The gate's    *)
(* operations are single steps here: StopCoordinator.tla shows that their  *)
(* mutex makes them so.  Both threads are split wherever the other one, a  *)
(* stop, a recovery or the passing of time can come in between.            *)
(***************************************************************************)
EXTENDS Integers

CONSTANTS
  N,                \* kServoCount
  BatchSize,        \* config.feedback_batch_size
  MaxAge,           \* max_command_age
  MaxStep,          \* MotionControlConfig::max_step
  NoCommand,        \* an empty mailbox
  Never,            \* an empty last_tick_
  MaxTime,          \* bound on the clock
  MaxGeneration,    \* bound on generation_; a failed send may pass it by one
  MaxSequence       \* bound on the commands published

ASSUME PipelineAssumption ==
  /\ N \in Nat \ {0} /\ BatchSize \in 1..N
  /\ MaxAge \in Nat \ {0} /\ MaxStep \in Nat \ {0}
  /\ MaxTime \in Nat /\ MaxGeneration \in Nat \ {0} /\ MaxSequence \in Nat
  /\ Never \notin 0..MaxTime

Joint == 1..N

\* ServoCommand.  decided is a history field: the generation that was in force
\* when the tick that computed the command found the gate open.
Command == [sequence : 1..MaxSequence, generation : 1..(MaxGeneration + 1),
            created_at : 0..MaxTime, decided : 1..(MaxGeneration + 1)]

VARIABLES
  clock,                            \* steady_clock
  stopped, generation, in_flight,   \* StopCoordinator
  pending,                          \* CommandMailbox
  valid,                            \* FeedbackSnapshot::valid
  cpc, tick_now, decided, sequence, \* the control thread and its tick
  draft,                            \* the command being published
  last_tick,                        \* MotionControlCore::last_tick_
  mpc, entry_now, skew,             \* the comm thread, its time at entry
  taken, joint,                     \* the command being sent, and its joint
  next_joint, polled,               \* the polling cursor, reads in this batch
  sending, faulted,                 \* Sts3215Transport
  port,                             \* PosixHalfDuplexPort
  on_wire,                          \* a motion frame is being shifted out
  applied                           \* sequence last put on the wire per servo

gateVars == <<stopped, generation, in_flight>>
controlVars == <<cpc, tick_now, decided, sequence, draft, last_tick>>
commVars == <<mpc, entry_now, skew, taken, joint, next_joint, polled>>
busVars == <<sending, faulted, port, on_wire, applied>>
vars == <<clock, gateVars, pending, valid, controlVars, commVars, busVars>>

Init ==
  /\ clock = 0
  /\ stopped = FALSE /\ generation = 1 /\ in_flight = 0
  /\ pending = NoCommand
  /\ valid = [j \in Joint |-> FALSE]
  /\ cpc = "idle" /\ tick_now = 0 /\ decided = 1 /\ sequence = 0
  /\ draft = NoCommand /\ last_tick = Never
  /\ mpc = "idle" /\ entry_now = 0 /\ skew = 0
  /\ taken = NoCommand /\ joint = 1 /\ next_joint = 1 /\ polled = 0
  /\ sending = FALSE /\ faulted = FALSE /\ port = "idle" /\ on_wire = FALSE
  /\ applied = [j \in Joint |-> 0]

TypeOK ==
  /\ clock \in 0..MaxTime
  /\ stopped \in BOOLEAN /\ generation \in 1..(MaxGeneration + 1)
  /\ in_flight \in 0..1
  /\ pending \in Command \cup {NoCommand}
  /\ valid \in [Joint -> BOOLEAN]
  /\ cpc \in {"idle", "begun", "gated", "estimated", "rejected", "computed",
              "stamped"}
  /\ tick_now \in 0..MaxTime /\ decided \in 1..(MaxGeneration + 1)
  /\ sequence \in 0..MaxSequence
  /\ draft \in Command \cup {NoCommand}
  /\ last_tick \in 0..MaxTime \cup {Never}
  /\ mpc \in {"idle", "entered", "check", "send", "finish", "sent", "failed",
              "latched", "poll"}
  /\ entry_now \in 0..MaxTime /\ skew \in 0..MaxTime
  /\ taken \in Command \cup {NoCommand}
  /\ joint \in 1..(N + 1) /\ next_joint \in Joint /\ polled \in 0..BatchSize
  /\ sending \in BOOLEAN /\ faulted \in BOOLEAN
  /\ port \in {"idle", "active", "faulted"} /\ on_wire \in BOOLEAN
  /\ applied \in [Joint -> 0..MaxSequence]

(***************************************************************************)
(* The gate.                                                               *)
(***************************************************************************)

\* requestStop()
Stop ==
  /\ stopped' = TRUE
  /\ generation' = generation + 1
  /\ UNCHANGED in_flight

\* Any thread of the application stops the hand.
RequestStop ==
  /\ generation < MaxGeneration
  /\ Stop
  /\ UNCHANGED <<clock, pending, valid, controlVars, commVars, busVars>>

\* The operator's recover(true, true).
Recover ==
  /\ stopped /\ in_flight = 0
  /\ generation < MaxGeneration
  /\ stopped' = FALSE
  /\ generation' = generation + 1
  /\ UNCHANGED <<clock, in_flight, pending, valid, controlVars, commVars,
                 busVars>>

(***************************************************************************)
(* The control thread: one tick.  The executor reads the clock, then       *)
(* calls tick(begin).                                                      *)
(***************************************************************************)

\* tick returns: its locals are gone.
TickReturns == cpc' = "idle" /\ tick_now' = 0 /\ decided' = 1

TickBegin ==
  /\ cpc = "idle"
  /\ cpc' = "begun" /\ tick_now' = clock
  /\ UNCHANGED <<clock, gateVars, pending, valid, decided, sequence, draft,
                 last_tick, commVars, busVars>>

\* commandsAllowed(), read on its own and not held.
TickGate ==
  /\ cpc = "begun"
  /\ IF stopped
       THEN TickReturns
       ELSE cpc' = "gated" /\ decided' = generation /\ UNCHANGED tick_now
  /\ UNCHANGED <<clock, gateVars, pending, valid, sequence, draft, last_tick,
                 commVars, busVars>>

\* The feedback snapshot and its estimate.  ready stands for the data: every
\* sample fresh and finite, and targets set by the application.
TickEstimate(ready) ==
  /\ cpc = "gated"
  /\ IF ready /\ \A j \in Joint : valid[j]
       THEN cpc' = "estimated" /\ UNCHANGED <<tick_now, decided>>
       ELSE TickReturns
  /\ UNCHANGED <<clock, gateVars, pending, valid, sequence, draft, last_tick,
                 commVars, busVars>>

StepInTime == last_tick # Never => /\ tick_now > last_tick
                                  /\ tick_now - last_tick <= MaxStep

\* MotionControlCore::step: last_tick_ moves only when the step is accepted.
TickCompute ==
  /\ cpc = "estimated" /\ StepInTime
  /\ cpc' = "computed" /\ last_tick' = tick_now
  /\ UNCHANGED <<clock, gateVars, pending, valid, tick_now, decided, sequence,
                 draft, commVars, busVars>>

\* Mutant of TickReject: a rejected step restarts the interval.
TickRejectRestarts(inLimits) ==
  /\ cpc = "estimated"
  /\ ~(StepInTime /\ inLimits)
  /\ generation < MaxGeneration
  /\ Stop
  /\ cpc' = "rejected" /\ last_tick' = tick_now
  /\ UNCHANGED <<clock, pending, valid, tick_now, decided, sequence, draft,
                 commVars, busVars>>

\* The step fails, on its interval or on a joint outside its limits, and the
\* tick stops the gate.
TickReject(inLimits) ==
  /\ cpc = "estimated"
  /\ ~(StepInTime /\ inLimits)
  /\ generation < MaxGeneration
  /\ Stop
  /\ cpc' = "rejected"
  /\ UNCHANGED <<clock, pending, valid, tick_now, decided, sequence, draft,
                 last_tick, commVars, busVars>>

\* ... and then empties the mailbox.
TickClear ==
  /\ cpc = "rejected"
  /\ TickReturns /\ pending' = NoCommand
  /\ UNCHANGED <<clock, gateVars, valid, sequence, draft, last_tick, commVars,
                 busVars>>

\* The command takes its sequence number, the generation of now, and the time
\* the tick began.
TickStamp ==
  /\ cpc = "computed" /\ sequence < MaxSequence
  /\ cpc' = "stamped" /\ sequence' = sequence + 1
  /\ draft' = [sequence |-> sequence + 1, generation |-> generation,
               created_at |-> tick_now, decided |-> decided]
  /\ UNCHANGED <<clock, gateVars, pending, valid, tick_now, decided, last_tick,
                 commVars, busVars>>

TickPublish ==
  /\ cpc = "stamped"
  /\ TickReturns /\ pending' = draft /\ draft' = NoCommand
  /\ UNCHANGED <<clock, gateVars, valid, sequence, last_tick, commVars,
                 busVars>>

Tick ==
  \/ TickBegin \/ TickGate
  \/ \E ready \in BOOLEAN : TickEstimate(ready)
  \/ TickCompute
  \/ \E inLimits \in BOOLEAN : TickReject(inLimits)
  \/ TickClear \/ TickStamp \/ TickPublish

(***************************************************************************)
(* The communication thread: processCommands, then one slice of feedback.  *)
(***************************************************************************)

\* communicationMain calls processCommands(now()): the argument is evaluated
\* here, before the mailbox is read.
CommEnter ==
  /\ mpc = "idle"
  /\ mpc' = "entered" /\ entry_now' = clock
  /\ UNCHANGED <<clock, gateVars, pending, valid, controlVars, skew, taken,
                 joint, next_joint, polled, busVars>>

\* processCommands returns: its argument and locals are gone.
BatchReturns ==
  /\ mpc' = "poll"
  /\ entry_now' = 0 /\ skew' = 0 /\ taken' = NoCommand /\ joint' = 1

Age(command, now) == now - command.created_at

Fresh(command, now) == now >= command.created_at /\ Age(command, now) <= MaxAge

\* takeLatest empties the mailbox whatever becomes of the command; an empty
\* one, or a command from the future or too old, ends the batch.  wall_start
\* is read here: skew is how long ago now was.
CommTake ==
  /\ mpc = "entered"
  /\ pending' = NoCommand
  /\ IF pending # NoCommand /\ Fresh(pending, entry_now)
       THEN /\ mpc' = "check" /\ taken' = pending /\ joint' = 1
            /\ skew' = clock - entry_now /\ entry_now' = 0
       ELSE BatchReturns
  /\ UNCHANGED <<clock, gateVars, valid, controlVars, next_joint, polled,
                 busVars>>

\* Mutant of BatchOver: only the age ends the batch.
BatchOverTTLOnly == ~Fresh(taken, clock - skew)

\* The end of the batch, or of the command's life, at joint_now.
BatchOver == joint > N \/ ~Fresh(taken, clock - skew)

CommCheckTTL ==
  /\ mpc = "check"
  /\ IF BatchOver
       THEN BatchReturns
       ELSE mpc' = "send" /\ UNCHANGED <<entry_now, skew, taken, joint>>
  /\ UNCHANGED <<clock, gateVars, pending, valid, controlVars, next_joint,
                 polled, busVars>>

\* Mutant of MaySend: the generation is checked, the stop is not.
MaySendWhenStopped == taken.generation = generation

\* beginSend's condition.
MaySend == ~stopped /\ taken.generation = generation

\* Mutant of CanStart: the fault latch is not looked at.
CanStartFaulted == ~sending

\* startSend's, with discardInput's and startWrite's.
CanStart == ~faulted /\ ~sending /\ port = "idle"

\* Mutant of CommRefused: the batch goes on with the next servo.
CommRefusedContinues ==
  /\ mpc = "send"
  /\ mpc' = "check" /\ joint' = joint + 1
  /\ UNCHANGED <<clock, gateVars, pending, valid, controlVars, entry_now, skew,
                 taken, next_joint, polled, busVars>>

\* No permit: the gate refuses, startSend refuses, or write() takes nothing.
\* The rest of the batch is dropped.
CommRefused ==
  /\ mpc = "send"
  /\ BatchReturns
  /\ UNCHANGED <<clock, gateVars, pending, valid, controlVars, next_joint,
                 polled, busVars>>

\* The permit: checked, started and counted in one critical section.
CommStart ==
  /\ mpc = "send" /\ MaySend /\ CanStart
  /\ mpc' = "finish"
  /\ in_flight' = in_flight + 1
  /\ sending' = TRUE /\ port' = "active" /\ on_wire' = TRUE
  /\ applied' = [applied EXCEPT ![joint] = taken.sequence]
  /\ UNCHANGED <<clock, stopped, generation, pending, valid, controlVars,
                 entry_now, skew, taken, joint, next_joint, polled, faulted>>

\* The UART shifts out the last bit of a motion frame.
UartDrain ==
  /\ on_wire
  /\ on_wire' = FALSE
  /\ UNCHANGED <<clock, gateVars, pending, valid, controlVars, commVars,
                 sending, faulted, port, applied>>

FinishSend == mpc = "finish" /\ sending' = FALSE

\* Mutant of CommSent: an empty output queue is taken for an empty shifter.
CommSentEarly ==
  /\ FinishSend
  /\ mpc' = "sent" /\ port' = "idle"
  /\ UNCHANGED <<clock, gateVars, pending, valid, controlVars, entry_now, skew,
                 taken, joint, next_joint, polled, faulted, on_wire, applied>>

\* finishSend: the queue and the shifter are empty, and the servo acknowledged
\* if it should.
CommSent ==
  /\ FinishSend /\ ~on_wire
  /\ mpc' = "sent" /\ port' = "idle"
  /\ UNCHANGED <<clock, gateVars, pending, valid, controlVars, entry_now, skew,
                 taken, joint, next_joint, polled, faulted, on_wire, applied>>

\* finishSend fails: finishWrite could not prove that the frame left the wire
\* (the port faults with the transport), or the servo did not acknowledge.
CommSendFailed(outcome) ==
  /\ FinishSend
  /\ \/ outcome = "timeout" /\ port' = "faulted"
     \/ outcome = "nack" /\ ~on_wire /\ port' = "idle"
  /\ mpc' = "failed" /\ faulted' = TRUE
  /\ UNCHANGED <<clock, gateVars, pending, valid, controlVars, entry_now, skew,
                 taken, joint, next_joint, polled, on_wire, applied>>

\* requestStop() after a failed send.
CommLatchStop ==
  /\ mpc = "failed"
  /\ Stop
  /\ mpc' = "latched"
  /\ UNCHANGED <<clock, pending, valid, controlVars, entry_now, skew, taken,
                 joint, next_joint, polled, busVars>>

\* Mutant of CommRelease: after a failure the permit is kept.
CommReleaseSentOnly ==
  /\ mpc \in {"sent", "latched"}
  /\ IF mpc = "sent"
       THEN /\ mpc' = "check" /\ joint' = joint + 1
            /\ in_flight' = in_flight - 1
            /\ UNCHANGED <<entry_now, skew, taken>>
       ELSE BatchReturns /\ UNCHANGED in_flight
  /\ UNCHANGED <<clock, stopped, generation, pending, valid, controlVars,
                 next_joint, polled, busVars>>

\* The permit leaves its scope: on with the next servo, or out of the batch.
CommRelease ==
  /\ mpc \in {"sent", "latched"}
  /\ in_flight' = in_flight - 1
  /\ IF mpc = "sent"
       THEN /\ mpc' = "check" /\ joint' = joint + 1
            /\ UNCHANGED <<entry_now, skew, taken>>
       ELSE BatchReturns
  /\ UNCHANGED <<clock, stopped, generation, pending, valid, controlVars,
                 next_joint, polled, busVars>>

CanRead == ~faulted /\ ~sending /\ port = "idle"

\* Mutant of NextJoint: the cursor stops at the last servo.
NextJointStuck(j) == IF j < N THEN j + 1 ELSE j

NextJoint(j) == (j % N) + 1

\* One servo of the slice.  A read fails when the bus is faulted, when the
\* reply is missing, wrong or the first of its servo, and when the request
\* cannot be proved sent, which faults the bus.  Success or not, the cursor
\* moves on; the last of the batch ends the round of the thread.
PollJoint(outcome) ==
  /\ mpc = "poll"
  /\ outcome # "bad" => CanRead
  /\ valid' = [valid EXCEPT ![next_joint] = outcome = "ok"]
  /\ IF outcome = "timeout"
       THEN faulted' = TRUE /\ port' = "faulted"
       ELSE UNCHANGED <<faulted, port>>
  /\ next_joint' = NextJoint(next_joint)
  /\ polled' = (polled + 1) % BatchSize
  /\ mpc' = IF polled' = 0 THEN "idle" ELSE "poll"
  /\ UNCHANGED <<clock, gateVars, pending, controlVars, entry_now, skew, taken,
                 joint, sending, on_wire, applied>>

Comm ==
  \/ CommEnter \/ CommTake \/ CommCheckTTL
  \/ CommRefused \/ CommStart
  \/ CommSent \/ \E outcome \in {"timeout", "nack"} : CommSendFailed(outcome)
  \/ CommLatchStop \/ CommRelease
  \/ \E outcome \in {"ok", "bad", "timeout"} : PollJoint(outcome)

ClockTick ==
  /\ clock < MaxTime
  /\ clock' = clock + 1
  /\ UNCHANGED <<gateVars, pending, valid, controlVars, commVars, busVars>>

Next ==
  \/ RequestStop \/ Recover
  \/ Tick \/ Comm
  \/ UartDrain \/ ClockTick

Spec == Init /\ [][Next]_vars

\* The communication thread is scheduled and its bus calls return in bounded
\* time: finishWrite and readExact have deadlines.
FairSpec == Spec /\ WF_vars(Comm)

(***************************************************************************)
(* Properties.                                                             *)
(***************************************************************************)

\* While the bus is healthy, a motion frame is on the wire only inside the
\* life of its permit and before finishSend has returned: nothing else is
\* written, read or recovered under it (half-duplex bus).  Only a bus that has
\* latched its fault may leave a frame behind.
BusExclusive == on_wire => faulted \/ (mpc = "finish" /\ in_flight = 1)

\* A batch that stops half-way leaves a prefix: whatever expires, is refused or
\* fails, and however batches follow each other, no servo holds a newer target
\* than a servo before it.
TornBatchOrder == \A i, j \in Joint : i < j => applied[i] >= applied[j]

\* A bus that could not prove a transmission complete never moves a servo
\* again, whatever the operator recovers.
FaultIsFinal == [][faulted => faulted' /\ UNCHANGED applied]_vars

\* tick looks at the gate and takes the generation in two separate reads.  A
\* command decided before a stop still reaches a servo only when an operator
\* has reopened the gate in between: a stop alone always kills it.
StaleNeedsRecovery ==
  [][applied' # applied =>
       \/ taken.decided = generation
       \/ generation >= taken.decided + 2]_vars

\* The control interval has been missed for good: every later tick is further
\* than max_step from the last accepted one.
Gap ==
  /\ last_tick # Never
  /\ IF cpc = "idle" THEN clock > last_tick + MaxStep
                     ELSE tick_now > last_tick + MaxStep

\* MotionControlCore keeps last_tick_ when it rejects a step, and nothing
\* resets it: after one interval longer than max_step this runner publishes no
\* command again, although the gate can be recovered.
NoMotionAfterGap == [][Gap => Gap' /\ UNCHANGED sequence]_vars

\* Every permit is given back: neither a timeout nor a missing acknowledgement
\* leaves in_flight_ raised, which would make recover() refuse for ever.
PermitsAreReturned == in_flight = 1 ~> in_flight = 0

\* Every servo keeps being read: refused batches, failed reads, stops and bus
\* faults never make the polling cursor skip one or the thread stop polling.
PollingIsFair == \A j \in Joint : []<>(mpc = "poll" /\ next_joint = j)

(***************************************************************************)
(* What the documents say and the code does not do.                        *)
(***************************************************************************)

\* s5_01_safe_send: finishSend waits for the UART, or for a confirmed
\* cancellation, and the permit is released after that.  After a timeout the
\* code releases it with the frame possibly still on the wire, and recover()
\* then finds in_flight_ = 0.
PermitOutlivesTransmission == [][in_flight' < in_flight => ~on_wire]_vars
=============================================================================
