-------------------------- MODULE RealtimeExecutor --------------------------
(***************************************************************************)
(* cpp/src/runtime/RealtimeExecutor.cpp: the life of the two worker        *)
(* threads, from start() to the return of stop(), and what makes them stop *)
(* by themselves: the feedback safety monitor and an exception.            *)
(*                                                                         *)
(* Application threads call start() and stop(); an operator recovers the   *)
(* gate.  CommandPipeline.tla has the inside of tick and processCommands:  *)
(* here a tick either publishes a command or not, and a transmission       *)
(* succeeds or fails.                                                      *)
(***************************************************************************)
EXTENDS FeedbackSafetyMonitor, FiniteSets

CONSTANTS
  Caller,           \* application threads
  NoCaller,         \* lifecycle_mutex_ is free
  Servos,           \* kServoCount: transmissions of one batch
  MaxGeneration     \* bound on generation_ for what may happen again and again

ASSUME CallerAssumption == NoCaller \notin Caller
ASSUME BoundAssumption == Servos \in Nat /\ MaxGeneration \in Nat \ {0}

Worker == {"control", "comm"}

VARIABLES
  stopped, generation,      \* StopCoordinator
  mailbox,                  \* the generation of the pending command, 0 = none
  started, stopping,        \* started_once_, stopping_
  lifecycle,                \* holder of lifecycle_mutex_
  handles,                  \* control_thread_, communication_thread_: joinable
  app, moved,               \* the callers, and the handles each moved to itself
  at,                       \* where each worker is
  monitor, decision,        \* feedback_safety_, and its last decision
  grace_over,               \* startup_grace has passed
  gate_inhibited,           \* controlMain's local
  held, left                \* generation of the command being sent, 0 = none,
                            \* and the servos it has not reached

gate == <<stopped, generation>>
sending == <<held, left>>
lifecycleVars == <<started, lifecycle, handles, app, moved>>
safety == <<monitor, decision, grace_over, gate_inhibited>>
vars == <<gate, mailbox, stopping, lifecycleVars, at, safety, sending>>

Free == [startupWaiting |-> FALSE, inhibitMotion |-> FALSE, safeStop |-> FALSE]

Init ==
  /\ stopped = FALSE /\ generation = 1 /\ mailbox = 0
  /\ started = FALSE /\ stopping = FALSE
  /\ lifecycle = NoCaller /\ handles = {}
  /\ app = [c \in Caller |-> "idle"] /\ moved = [c \in Caller |-> {}]
  /\ at = [w \in Worker |-> "none"]
  /\ monitor = FreshMonitor /\ decision = Free
  /\ grace_over = FALSE /\ gate_inhibited = FALSE
  /\ held = 0 /\ left = 0

\* Five stops can come on top of the bound: the inhibition, a failed start, a
\* stop() that has begun and an exception of each worker.
Generation == 1..(MaxGeneration + 5)

TypeOK ==
  /\ stopped \in BOOLEAN /\ generation \in Generation
  /\ mailbox \in Generation \cup {0}
  /\ started \in BOOLEAN /\ stopping \in BOOLEAN
  /\ lifecycle \in Caller \cup {NoCaller} /\ handles \in SUBSET Worker
  /\ app \in [Caller -> {"idle", "spawning", "unwinding", "stopping", "joining",
                         "returned"}]
  /\ moved \in [Caller -> SUBSET Worker]
  /\ at \in [Worker -> {"none", "top", "check", "blocking", "blocked",
                        "failing", "ended", "cycle", "inhibit", "clear",
                        "decided", "tick", "computed", "rejected", "take",
                        "send", "tx", "sent", "poll"}]
  /\ monitor \in Monitor /\ monitor.criticals <= StopTicks
  /\ decision \in [startupWaiting : BOOLEAN, inhibitMotion : BOOLEAN,
                   safeStop : BOOLEAN]
  /\ grace_over \in BOOLEAN /\ gate_inhibited \in BOOLEAN
  /\ held \in Generation \cup {0} /\ left \in 0..Servos

Go(w, place) == at' = [at EXCEPT ![w] = place]

Ended(w) == at[w] \in {"none", "ended"}

\* StopCoordinator::requestStop().
StopGate == stopped' = TRUE /\ generation' = generation + 1

Bounded == generation < MaxGeneration

\* wake_cv_.notify_all() reaches the threads that are blocked, and only those.
Notified(places) ==
  [w \in Worker |-> IF places[w] = "blocked" THEN "check" ELSE places[w]]

(***************************************************************************)
(* The application: start(), stop(), and the operator's recover().         *)
(***************************************************************************)

\* start() creates the control thread; if that throws, the gate is stopped and
\* there is nothing to join.  Started once, or with the gate closed, it returns
\* false and changes nothing.
Start(c, created) ==
  /\ app[c] = "idle" /\ lifecycle = NoCaller
  /\ ~started /\ ~stopped
  /\ started' = TRUE
  /\ IF created
       THEN /\ handles' = {"control"} /\ Go("control", "top")
            /\ lifecycle' = c /\ app' = [app EXCEPT ![c] = "spawning"]
            /\ stopping' = FALSE /\ UNCHANGED gate
       ELSE /\ stopping' = TRUE /\ StopGate
            /\ UNCHANGED <<handles, at, lifecycle, app>>
  /\ UNCHANGED <<mailbox, moved, safety, sending>>

\* ... and then the communication thread.
SpawnComm(c) ==
  /\ app[c] = "spawning"
  /\ handles' = handles \cup {"comm"} /\ Go("comm", "top")
  /\ lifecycle' = NoCaller /\ app' = [app EXCEPT ![c] = "idle"]
  /\ UNCHANGED <<gate, mailbox, started, stopping, moved, safety, sending>>

\* Its creation throws: stop, wake and join the first one, under the lock.
SpawnFails(c) ==
  /\ app[c] = "spawning"
  /\ stopping' = TRUE /\ StopGate
  /\ at' = Notified(at)
  /\ app' = [app EXCEPT ![c] = "unwinding"]
  /\ UNCHANGED <<mailbox, started, lifecycle, handles, moved, safety, sending>>

Unwind(c) ==
  /\ app[c] = "unwinding" /\ Ended("control")
  /\ handles' = {} /\ lifecycle' = NoCaller
  /\ app' = [app EXCEPT ![c] = "idle"]
  /\ UNCHANGED <<gate, mailbox, started, stopping, moved, at, safety, sending>>

\* Mutant of StopBegin: the workers are not told.
StopBeginSilent(c) ==
  /\ app[c] \in {"idle", "returned"} /\ lifecycle = NoCaller
  /\ started /\ Bounded
  /\ lifecycle' = c /\ app' = [app EXCEPT ![c] = "stopping"]
  /\ UNCHANGED <<gate, mailbox, stopping, started, handles, moved, at, safety,
                 sending>>

\* stop(), also from the destructor: before start() it is nothing.
StopBegin(c) ==
  /\ app[c] \in {"idle", "returned"} /\ lifecycle = NoCaller
  /\ started /\ Bounded
  /\ stopping' = TRUE
  /\ lifecycle' = c /\ app' = [app EXCEPT ![c] = "stopping"]
  /\ UNCHANGED <<gate, mailbox, started, handles, moved, at, safety, sending>>

\* Mutant of StopGateAndMove: the handles are left behind for the next caller.
StopGateNoMove(c) ==
  /\ app[c] = "stopping"
  /\ StopGate
  /\ at' = Notified(at)
  /\ moved' = [moved EXCEPT ![c] = handles]
  /\ lifecycle' = NoCaller /\ app' = [app EXCEPT ![c] = "joining"]
  /\ UNCHANGED <<mailbox, started, stopping, handles, safety, sending>>

\* The gate is latched before anything is joined; the lock is let go.
StopGateAndMove(c) ==
  /\ app[c] = "stopping"
  /\ StopGate
  /\ at' = Notified(at)
  /\ moved' = [moved EXCEPT ![c] = handles] /\ handles' = {}
  /\ lifecycle' = NoCaller /\ app' = [app EXCEPT ![c] = "joining"]
  /\ UNCHANGED <<mailbox, started, stopping, safety, sending>>

\* Both joins are over.
Join(c) ==
  /\ app[c] = "joining" /\ \A w \in moved[c] : Ended(w)
  /\ moved' = [moved EXCEPT ![c] = {}]
  /\ app' = [app EXCEPT ![c] = "returned"]
  /\ UNCHANGED <<gate, mailbox, started, stopping, lifecycle, handles, at,
                 safety, sending>>

Recover ==
  /\ stopped /\ at["comm"] # "tx"           \* in_flight_ = 0
  /\ Bounded
  /\ stopped' = FALSE /\ generation' = generation + 1
  /\ UNCHANGED <<mailbox, stopping, lifecycleVars, at, safety, sending>>

(***************************************************************************)
(* What both workers do: the timed wait on wake_cv_, and failSafe().       *)
(***************************************************************************)

AfterWait(w) == IF w = "control" THEN "cycle" ELSE "top"

\* The loop condition.
LoopTop(w) ==
  /\ at[w] = "top"
  /\ Go(w, CASE stopping -> "ended"
             [] ~stopping /\ w = "control" -> "check"
             [] ~stopping /\ w = "comm" -> "take")
  /\ UNCHANGED <<gate, mailbox, stopping, lifecycleVars, safety, sending>>

\* The predicate, under wake_mutex_; stopping_ is set without that mutex.
CheckPredicate(w) ==
  /\ at[w] = "check"
  /\ Go(w, IF stopping THEN "ended" ELSE "blocking")
  /\ UNCHANGED <<gate, mailbox, stopping, lifecycleVars, safety, sending>>

Block(w) ==
  /\ at[w] = "blocking"
  /\ Go(w, "blocked")
  /\ UNCHANGED <<gate, mailbox, stopping, lifecycleVars, safety, sending>>

\* Mutant of TimeOut: a wait without a deadline.
NeverTimesOut(w) ==
  /\ at[w] = "blocked" /\ FALSE
  /\ UNCHANGED vars

\* The deadline of the wait: the predicate once more.
TimeOut(w) ==
  /\ at[w] = "blocked"
  /\ Go(w, IF stopping THEN "ended" ELSE AfterWait(w))
  /\ UNCHANGED <<gate, mailbox, stopping, lifecycleVars, safety, sending>>

\* Anything thrown in the loop ends it through failSafe(): stopping_ first ...
Throw(w) ==
  /\ at[w] \in {"cycle", "tick", "take", "poll"}
  /\ stopping' = TRUE
  /\ Go(w, "failing")
  /\ UNCHANGED <<gate, mailbox, lifecycleVars, safety, sending>>

\* ... then the gate and the wake-up.
FailSafe(w) ==
  /\ at[w] = "failing"
  /\ StopGate
  /\ at' = Notified([at EXCEPT ![w] = "ended"])
  /\ UNCHANGED <<mailbox, stopping, lifecycleVars, safety, sending>>

(***************************************************************************)
(* The control thread's cycle.                                             *)
(***************************************************************************)

\* The feedback is judged.  over: startup_grace has passed by now.
EvaluateFeedback(health, over) ==
  /\ at["control"] = "cycle"
  /\ grace_over => over
  /\ grace_over' = over
  /\ monitor' = Evaluate(monitor, health, ~over)
  /\ decision' = Decision(monitor, health, ~over)
  /\ Go("control", IF decision'.inhibitMotion /\ ~gate_inhibited
                     THEN "inhibit" ELSE "decided")
  /\ UNCHANGED <<gate, mailbox, stopping, lifecycleVars, gate_inhibited,
                 sending>>

\* The first inhibition stops the gate ...
Inhibit ==
  /\ at["control"] = "inhibit"
  /\ StopGate
  /\ Go("control", "clear")
  /\ UNCHANGED <<mailbox, stopping, lifecycleVars, safety, sending>>

\* ... and then empties the mailbox.
ClearPending ==
  /\ at["control"] = "clear"
  /\ mailbox' = 0 /\ gate_inhibited' = TRUE
  /\ Go("control", "decided")
  /\ UNCHANGED <<gate, stopping, lifecycleVars, monitor, decision, grace_over,
                 sending>>

Allowed == /\ ~decision.startupWaiting
           /\ ~decision.inhibitMotion
           /\ ~decision.safeStop

\* Mutant of Decide: the safe stop does not end the loops.
DecideRunsOn ==
  /\ at["control"] = "decided"
  /\ Go("control", IF Allowed THEN "tick" ELSE "top")
  /\ UNCHANGED <<gate, mailbox, stopping, lifecycleVars, safety, sending>>

\* A safe stop ends the loops; only an allowed cycle goes on to tick().
Decide ==
  /\ at["control"] = "decided"
  /\ stopping' = (stopping \/ decision.safeStop)
  /\ LET next == [at EXCEPT !["control"] = IF Allowed THEN "tick" ELSE "top"]
     IN at' = IF decision.safeStop THEN Notified(next) ELSE next
  /\ UNCHANGED <<gate, mailbox, lifecycleVars, safety, sending>>

\* tick() through its gate, its feedback and its motion step.
TickComputes ==
  /\ at["control"] = "tick" /\ ~stopped
  /\ Go("control", "computed")
  /\ UNCHANGED <<gate, mailbox, stopping, lifecycleVars, safety, sending>>

\* The gate is closed, or the feedback or the targets are not there.
TickIdles ==
  /\ at["control"] = "tick"
  /\ Go("control", "top")
  /\ UNCHANGED <<gate, mailbox, stopping, lifecycleVars, safety, sending>>

\* The motion step is rejected: the gate is stopped, the mailbox emptied.
TickRejects ==
  /\ at["control"] = "tick" /\ ~stopped /\ Bounded
  /\ StopGate
  /\ Go("control", "rejected")
  /\ UNCHANGED <<mailbox, stopping, lifecycleVars, safety, sending>>

TickClears ==
  /\ at["control"] = "rejected"
  /\ mailbox' = 0
  /\ Go("control", "top")
  /\ UNCHANGED <<gate, stopping, lifecycleVars, safety, sending>>

TickPublishes ==
  /\ at["control"] = "computed"
  /\ mailbox' = generation
  /\ Go("control", "top")
  /\ UNCHANGED <<gate, stopping, lifecycleVars, safety, sending>>

(***************************************************************************)
(* The communication thread's round.                                       *)
(***************************************************************************)

TakeLatest ==
  /\ at["comm"] = "take"
  /\ mailbox' = 0
  /\ held' = mailbox /\ left' = IF mailbox = 0 THEN 0 ELSE Servos
  /\ Go("comm", IF mailbox = 0 THEN "sent" ELSE "send")
  /\ UNCHANGED <<gate, stopping, lifecycleVars, safety>>

\* beginSend starts a transmission, for this servo of the batch ...
BeginSend ==
  /\ at["comm"] = "send" /\ left > 0
  /\ ~stopped /\ held = generation
  /\ left' = left - 1
  /\ Go("comm", "tx")
  /\ UNCHANGED <<gate, mailbox, stopping, lifecycleVars, safety, held>>

\* ... or the batch is over: refused, expired or complete.
EndBatch ==
  /\ at["comm"] = "send"
  /\ held' = 0 /\ left' = 0
  /\ Go("comm", "sent")
  /\ UNCHANGED <<gate, mailbox, stopping, lifecycleVars, safety>>

FinishSend ==
  /\ at["comm"] = "tx"
  /\ Go("comm", "send")
  /\ UNCHANGED <<gate, mailbox, stopping, lifecycleVars, safety, sending>>

\* finishSend fails: the gate is stopped.
SendFails ==
  /\ at["comm"] = "tx" /\ Bounded
  /\ StopGate
  /\ held' = 0 /\ left' = 0
  /\ Go("comm", "sent")
  /\ UNCHANGED <<mailbox, stopping, lifecycleVars, safety>>

AfterCommands ==
  /\ at["comm"] = "sent"
  /\ Go("comm", IF stopping THEN "ended" ELSE "poll")
  /\ UNCHANGED <<gate, mailbox, stopping, lifecycleVars, safety, sending>>

\* A slice of feedback; what it reads is the next cycle's health.
PollSlice ==
  /\ at["comm"] = "poll"
  /\ Go("comm", "check")
  /\ UNCHANGED <<gate, mailbox, stopping, lifecycleVars, safety, sending>>

ControlStep ==
  \/ LoopTop("control") \/ CheckPredicate("control") \/ Block("control")
  \/ TimeOut("control") \/ Throw("control") \/ FailSafe("control")
  \/ \E health \in Health, over \in BOOLEAN : EvaluateFeedback(health, over)
  \/ Inhibit \/ ClearPending \/ Decide
  \/ TickComputes \/ TickIdles \/ TickRejects \/ TickClears \/ TickPublishes

CommStep ==
  \/ LoopTop("comm") \/ CheckPredicate("comm") \/ Block("comm")
  \/ TimeOut("comm") \/ Throw("comm") \/ FailSafe("comm")
  \/ TakeLatest \/ BeginSend \/ EndBatch \/ FinishSend \/ SendFails
  \/ AfterCommands \/ PollSlice

CallStep(c) ==
  \/ SpawnComm(c) \/ SpawnFails(c) \/ Unwind(c)
  \/ StopGateAndMove(c) \/ Join(c)

Next ==
  \/ \E c \in Caller, created \in BOOLEAN : Start(c, created)
  \/ \E c \in Caller : StopBegin(c)
  \/ \E c \in Caller : CallStep(c)
  \/ Recover
  \/ ControlStep
  \/ CommStep

Spec == Init /\ [][Next]_vars

\* The threads are scheduled; waits have deadlines, and so have finishSend and
\* read (s5_02: the bus must bound them).  Nobody has to call anything.
FairSpec ==
  /\ Spec
  /\ WF_vars(ControlStep) /\ WF_vars(CommStep)
  /\ \A c \in Caller : WF_vars(CallStep(c))

(***************************************************************************)
(* Properties.                                                             *)
(***************************************************************************)

\* A thread that runs has exactly one std::thread behind it, in the executor or
\* with one caller of stop(): it is joined once, never twice and never left to
\* a destructor, however callers, a failed start and exceptions meet.
HandleOwnedOnce ==
  \A w \in Worker :
    LET owners == {c \in Caller : w \in moved[c]}
    IN /\ Cardinality(owners) + (IF w \in handles THEN 1 ELSE 0) <= 1
       /\ ~Ended(w) => w \in handles \/ owners # {}

\* Once the monitor has inhibited motion, this executor starts no transmission
\* any more: not for a command that was already taken, not after the feedback
\* has become good again, and not after an operator has reopened the gate.
NoMotionAfterInhibit ==
  [][gate_inhibited /\ at'["comm"] = "tx" => at["comm"] = "tx"]_vars

\* Whatever sets stopping_, both threads end: a wake-up that falls between the
\* predicate and the wait is lost, and the deadline of the wait makes up for it.
StoppingEndsThreads == stopping ~> \A w \in Worker : Ended(w)

\* stop() returns.
StopReturns ==
  \A c \in Caller : app[c] = "joining" ~> app[c] # "joining"

(***************************************************************************)
(* What the documents say and the code does not do.                        *)
(***************************************************************************)

\* s5_06_feedback_safety: SAFE_STOP closes the gate.  When the gate was
\* recovered after the first inhibition, nothing closes it again.
SafeStopClosesGate ==
  [][at["control"] = "decided" /\ decision.safeStop /\ at'["control"] = "top"
       => stopped']_vars
=============================================================================
