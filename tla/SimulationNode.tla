--------------------------- MODULE SimulationNode ---------------------------
(***************************************************************************)
(* simulation/s6_ros2_node.py, LeapSimNode, with the SimSession it owns,   *)
(* and scripts/s6_ros2_controller.py, the publisher of joint commands.     *)
(* The node's callbacks run one at a time on one executor: each is one     *)
(* action.  The controller is another process; its commands travel in a    *)
(* queue that keeps the last MaxWire of them.  What the supervisor and the *)
(* operator ask of the node (lifecycle transitions, services, heartbeats)  *)
(* comes at any time and in any order.                                     *)
(*                                                                         *)
(* Managed is the command line's --managed.  The node may die and be       *)
(* started again, with a new session id, while the controller lives on.    *)
(***************************************************************************)
EXTENDS SimSession, Sequences

CONSTANTS
  Managed,
  NoEpoch,              \* None in the controller, until it hears a value
  MaxSession,           \* bound: processes of the node
  MaxEpoch,             \* bound: epochs of a session
  MaxSequence,          \* bound: commands per epoch heard
  MaxWire               \* depth of the queue of commands

ASSUME NodeAssumption ==
  /\ Managed \in BOOLEAN
  /\ NoEpoch \notin Int
  /\ {MaxSession, MaxEpoch, MaxSequence} \subseteq Nat
  /\ MaxWire \in Nat \ {0}

Command == [session : Nat, epoch : Nat, sequence : Nat, age : Age]
Heard == Nat \cup {NoEpoch}

VARIABLES
  session_id,           \* random at start; a new process never repeats one
  session,              \* self.session
  lifecycle,            \* the primary state rclpy keeps
  lifecycle_active, armed, next_epoch,
  supervisor_alive,     \* a heartbeat came within supervisor_lease_s
  wire,                 \* commands on their way, oldest first
  controller,           \* the controller's process
  supervisor_up         \* does the supervisor still send heartbeats?

node == <<session_id, session, lifecycle, lifecycle_active, armed, next_epoch>>
gates == <<session_id, lifecycle, lifecycle_active, armed, next_epoch>>
vars == <<node, supervisor_alive, wire, controller, supervisor_up>>

Lifecycle == {"unconfigured", "inactive", "active", "finalized"}
Controller == [up : BOOLEAN, active : BOOLEAN, session : Heard, epoch : Heard,
               seq : Nat]

NoSession == [FreshSession(0) EXCEPT !.state = "NONE", !.bridge = "closed"]

\* A node process at its start.  Unmanaged, it runs without any transition.
Boot ==
  /\ session' = IF Managed THEN NoSession ELSE FreshSession(0)
  /\ lifecycle' = "unconfigured"
  /\ lifecycle_active' = ~Managed
  /\ armed' = ~Managed
  /\ next_epoch' = 1

Init ==
  /\ session_id = 1
  /\ session = IF Managed THEN NoSession ELSE FreshSession(0)
  /\ lifecycle = "unconfigured"
  /\ lifecycle_active = ~Managed
  /\ armed = ~Managed
  /\ next_epoch = 1
  /\ supervisor_alive = FALSE
  /\ wire = << >>
  /\ controller = [up |-> TRUE, active |-> ~Managed, session |-> NoEpoch,
                   epoch |-> NoEpoch, seq |-> 0]
  /\ supervisor_up = TRUE

-----------------------------------------------------------------------------
(* Lifecycle transitions of the node *)

\* The plant's clock starts again from zero: the stamps of the commands on
\* their way are now in its future, unless they were zero themselves.
Redate ==
  \E ages \in [DOMAIN wire -> -Ahead .. 0] :
    wire' = [i \in DOMAIN wire |-> [wire[i] EXCEPT !.age = ages[i]]]

\* A session is made anew when there is none.
Configure ==
  /\ lifecycle = "unconfigured"
  /\ lifecycle' = "inactive"
  /\ IF session.state = "NONE"
       THEN /\ IF Managed THEN /\ next_epoch <= MaxEpoch
                               /\ session' = FreshSession(next_epoch)
                               /\ next_epoch' = next_epoch + 1
                          ELSE /\ session' = FreshSession(0)
                               /\ UNCHANGED next_epoch
            /\ Redate
       ELSE UNCHANGED <<session, next_epoch, wire>>
  /\ UNCHANGED <<session_id, lifecycle_active, armed, supervisor_alive,
                 controller, supervisor_up>>

\* Activation resumes a paused session first; it may find the session in a
\* state, or leave it in one, that it cannot activate.
Activate(made) ==
  LET s == IF session.state = "PAUSED" THEN Renewed(session, made) ELSE session
  IN /\ lifecycle = "inactive"
     /\ s.epoch <= MaxEpoch
     /\ session' = s
     /\ IF s.state = "READY"
          THEN /\ lifecycle' = "active"
               /\ lifecycle_active' = TRUE
               /\ armed' = ~Managed
          ELSE UNCHANGED <<lifecycle, lifecycle_active, armed>>
     /\ UNCHANGED <<session_id, next_epoch, supervisor_alive, wire, controller,
                    supervisor_up>>

Deactivate ==
  /\ lifecycle = "active"
  /\ lifecycle' = "inactive"
  /\ lifecycle_active' = FALSE
  /\ armed' = FALSE
  /\ session' = IF Commandable(session) THEN Paused(session) ELSE session
  /\ UNCHANGED <<session_id, next_epoch, supervisor_alive, wire, controller,
                 supervisor_up>>

Larger(a, b) == IF a < b THEN b ELSE a

\* The session is closed and forgotten.
Dropped(s) == [Disarmed(s) EXCEPT !.state = "NONE"]

\* Mutant of Cleanup: the next session starts at the epoch of this one.
CleanupKeepsEpoch ==
  /\ lifecycle = "inactive"
  /\ lifecycle' = "unconfigured"
  /\ lifecycle_active' = FALSE
  /\ armed' = FALSE
  /\ next_epoch' = Larger(next_epoch, session.epoch)
  /\ session' = Dropped(session)
  /\ UNCHANGED <<session_id, supervisor_alive, wire, controller, supervisor_up>>

Cleanup ==
  /\ lifecycle = "inactive"
  /\ lifecycle' = "unconfigured"
  /\ lifecycle_active' = FALSE
  /\ armed' = FALSE
  /\ next_epoch' = Larger(next_epoch, session.epoch + 1)
  /\ session' = Dropped(session)
  /\ UNCHANGED <<session_id, supervisor_alive, wire, controller, supervisor_up>>

Shutdown ==
  /\ lifecycle # "finalized"
  /\ lifecycle' = "finalized"
  /\ lifecycle_active' = FALSE
  /\ armed' = FALSE
  /\ session' = Dropped(session)
  /\ UNCHANGED <<session_id, next_epoch, supervisor_alive, wire, controller,
                 supervisor_up>>

\* The process dies, and another takes its place.
Restart ==
  /\ session_id < MaxSession
  /\ session_id' = session_id + 1
  /\ Boot
  /\ supervisor_alive' = FALSE
  /\ Redate
  /\ UNCHANGED <<controller, supervisor_up>>

-----------------------------------------------------------------------------
(* Services of the node *)

SessionExists == session.state # "NONE"

\* Mutant of StopService: the session is left to its watchdogs.
StopServiceDisarms ==
  /\ armed' = FALSE
  /\ UNCHANGED <<session_id, session, lifecycle, lifecycle_active, next_epoch,
                 supervisor_alive, wire, controller, supervisor_up>>

\* on_stop, and on_arm(False): the state changes are the same.
StopService ==
  /\ armed' = FALSE
  /\ session' = IF SessionExists THEN Stopped(session) ELSE session
  /\ UNCHANGED <<session_id, lifecycle, lifecycle_active, next_epoch,
                 supervisor_alive, wire, controller, supervisor_up>>

\* on_arm(True); a request that is refused changes nothing.
Arm ==
  /\ lifecycle_active /\ session.state = "READY"
  /\ Managed => supervisor_alive
  /\ armed' = TRUE
  /\ UNCHANGED <<session_id, session, lifecycle, lifecycle_active, next_epoch,
                 supervisor_alive, wire, controller, supervisor_up>>

ResetService(made) ==
  /\ Managed => lifecycle_active /\ armed
  /\ SessionExists
  /\ session.epoch < MaxEpoch
  /\ session' = Renewed(session, made)
  /\ Redate
  /\ UNCHANGED <<gates, supervisor_alive, controller, supervisor_up>>

\* on_pause, which a managed node refuses.
PauseService ==
  /\ ~Managed
  /\ session.state \in {"READY", "NORMAL", "PAUSED"}
  /\ session' = Paused(session)
  /\ UNCHANGED <<gates, supervisor_alive, wire, controller, supervisor_up>>

ResumeService(made) ==
  /\ ~Managed
  /\ session.state = "PAUSED"
  /\ session.epoch < MaxEpoch
  /\ session' = Renewed(session, made)
  /\ UNCHANGED <<gates, supervisor_alive, wire, controller, supervisor_up>>

-----------------------------------------------------------------------------
(* Topics and the timer of the node *)

Heartbeat ==
  /\ supervisor_up
  /\ supervisor_alive' = TRUE
  /\ UNCHANGED <<node, wire, controller, supervisor_up>>

\* No heartbeat for supervisor_lease_s.
LeaseRunsOut ==
  /\ supervisor_alive
  /\ supervisor_alive' = FALSE
  /\ UNCHANGED <<node, wire, controller, supervisor_up>>

\* Would on_command take the command c, were its names and positions right?
Admits(c) == lifecycle_active /\ armed /\ Acceptable(session, session_id, c)

AcceptCommand ==
  /\ wire # << >> /\ Admits(Head(wire))
  /\ session' = Accept(session, Head(wire))
  /\ wire' = Tail(wire)
  /\ UNCHANGED <<gates, supervisor_alive, controller, supervisor_up>>

\* Refused, for one of those reasons or for its names or positions; or lost.
RejectCommand ==
  /\ wire # << >>
  /\ wire' = Tail(wire)
  /\ UNCHANGED <<node, supervisor_alive, controller, supervisor_up>>

\* More than wall_timeout_s since the last command was accepted.
FallSilent ==
  /\ session.target # NoTarget
  /\ session' = [session EXCEPT !.silent = TRUE]
  /\ UNCHANGED <<gates, supervisor_alive, wire, controller, supervisor_up>>

LeaseLost == Managed /\ armed /\ ~supervisor_alive

\* Mutant of LoseLease: the lease is looked at only while the hand moves.
LoseLeaseMoving ==
  /\ LeaseLost /\ session.state = "NORMAL"
  /\ armed' = FALSE
  /\ session' = Stopped(session)
  /\ UNCHANGED <<session_id, lifecycle, lifecycle_active, next_epoch,
                 supervisor_alive, wire, controller, supervisor_up>>

\* Mutant of LoseLease: the session is left to its watchdogs.
LoseLeaseDisarms ==
  /\ LeaseLost
  /\ armed' = FALSE
  /\ UNCHANGED <<session_id, session, lifecycle, lifecycle_active, next_epoch,
                 supervisor_alive, wire, controller, supervisor_up>>

LoseLease ==
  /\ LeaseLost
  /\ armed' = FALSE
  /\ session' = Stopped(session)
  /\ UNCHANGED <<session_id, lifecycle, lifecycle_active, next_epoch,
                 supervisor_alive, wire, controller, supervisor_up>>

\* tick() raises: a watchdog or the TTL.
TickStops ==
  /\ ~LeaseLost /\ lifecycle_active
  /\ Overdue(session)
  /\ session' = Stopped(session)
  /\ UNCHANGED <<gates, supervisor_alive, wire, controller, supervisor_up>>

\* tick() raises: the bridge or the plant.
TickFails ==
  /\ ~LeaseLost /\ lifecycle_active
  /\ CanStep(session)
  /\ session' = Stopped(session)
  /\ UNCHANGED <<gates, supervisor_alive, wire, controller, supervisor_up>>

\* The bridge takes the step, and the plant advances by a tick.
TickSteps ==
  /\ ~LeaseLost /\ lifecycle_active
  /\ CanStep(session)
  /\ session' = Stepped(session)
  /\ wire' = [i \in DOMAIN wire |->
                [wire[i] EXCEPT !.age = Older(wire[i].age)]]
  /\ UNCHANGED <<gates, supervisor_alive, controller, supervisor_up>>

\* on_tick, when it does anything.
OnTick == LoseLease \/ TickStops \/ TickFails \/ TickSteps

-----------------------------------------------------------------------------
(* The controller *)

ControllerActivate ==
  /\ Managed /\ controller.up /\ ~controller.active
  /\ controller' = [controller EXCEPT !.active = TRUE, !.seq = 0,
                                      !.session = NoEpoch, !.epoch = NoEpoch]
  /\ UNCHANGED <<node, supervisor_alive, wire, supervisor_up>>

ControllerDeactivate ==
  /\ Managed /\ controller.up /\ controller.active
  /\ controller' = [controller EXCEPT !.active = FALSE,
                                      !.session = NoEpoch, !.epoch = NoEpoch]
  /\ UNCHANGED <<node, supervisor_alive, wire, supervisor_up>>

\* Its own lease on the supervisor's heartbeats expires.
ControllerLosesLease ==
  /\ Managed /\ controller.up /\ controller.active
  /\ controller' = [controller EXCEPT !.active = FALSE]
  /\ UNCHANGED <<node, supervisor_alive, wire, supervisor_up>>

\* Both topics keep the last value alone: it hears what the node last said,
\* late.  An epoch, or a session, that is new to it starts the count again.
HearEpoch ==
  /\ controller.up /\ SessionExists
  /\ controller.epoch # session.epoch
  /\ controller' = [controller EXCEPT !.epoch = session.epoch, !.seq = 0]
  /\ UNCHANGED <<node, supervisor_alive, wire, supervisor_up>>

HearSession ==
  /\ controller.up
  /\ controller.session # session_id
  /\ controller' = [controller EXCEPT !.session = session_id, !.seq = 0]
  /\ UNCHANGED <<node, supervisor_alive, wire, supervisor_up>>

\* Mutant of Queued: the queue keeps everything.
QueuedAll(c) == Append(wire, c)

\* Keep the last MaxWire commands.
Queued(c) == IF Len(wire) < MaxWire THEN Append(wire, c)
                                    ELSE Append(Tail(wire), c)

\* The stamp is the last /clock heard: a lossy topic, late by any amount.
Publish ==
  /\ controller.up /\ controller.active
  /\ controller.epoch # NoEpoch /\ controller.session # NoEpoch
  /\ controller.seq <= MaxSequence
  /\ \E age \in Age :
       wire' = Queued([session |-> controller.session,
                       epoch |-> controller.epoch,
                       sequence |-> controller.seq, age |-> age])
  /\ controller' = [controller EXCEPT !.seq = @ + 1]
  /\ UNCHANGED <<node, supervisor_alive, supervisor_up>>

ControllerDies ==
  /\ controller.up
  /\ controller' = [controller EXCEPT !.up = FALSE]
  /\ UNCHANGED <<node, supervisor_alive, wire, supervisor_up>>

SupervisorDies ==
  /\ supervisor_up
  /\ supervisor_up' = FALSE
  /\ UNCHANGED <<node, supervisor_alive, wire, controller>>

-----------------------------------------------------------------------------
Transition ==
  \/ Configure
  \/ \E made \in BOOLEAN : Activate(made)
  \/ Deactivate \/ Cleanup \/ Shutdown \/ Restart

Service ==
  \/ StopService \/ Arm \/ PauseService
  \/ \E made \in BOOLEAN : ResetService(made) \/ ResumeService(made)

NodeStep ==
  \/ Transition \/ Service
  \/ AcceptCommand \/ RejectCommand
  \/ FallSilent \/ OnTick
  \/ Heartbeat \/ LeaseRunsOut

ControllerStep ==
  \/ ControllerActivate \/ ControllerDeactivate \/ ControllerLosesLease
  \/ HearEpoch \/ HearSession \/ Publish
  \/ ControllerDies

Next == NodeStep \/ ControllerStep \/ SupervisorDies

Spec == Init /\ [][Next]_vars

\* The timer runs on steady time and fires whatever the node's state, but need
\* not ever fail; a lease that nobody renews runs out.  Nothing makes anybody
\* ask for anything.
FairSpec ==
  /\ Spec
  /\ WF_vars(LoseLease \/ TickStops \/ TickSteps)
  /\ WF_vars(~supervisor_up /\ LeaseRunsOut)

-----------------------------------------------------------------------------
(* Properties *)

TypeOK ==
  /\ session_id \in Nat
  /\ session \in Session
  /\ lifecycle \in Lifecycle
  /\ lifecycle_active \in BOOLEAN
  /\ armed \in BOOLEAN
  /\ next_epoch \in Nat
  /\ supervisor_alive \in BOOLEAN
  /\ wire \in Seq(Command) /\ Len(wire) <= MaxWire
  /\ controller \in Controller
  /\ supervisor_up \in BOOLEAN

\* A control bridge process runs exactly while the session takes commands:
\* no pause, stop, failure or cleanup leaves one behind, and no session that
\* accepts commands is without one.  (Who closes and makes the bridge in
\* pause, stop, reset, close and their failures.)
BridgeFollowsSession == session.bridge = "open" <=> Commandable(session)

\* The plant advances only while the node is armed, and a managed one also
\* active and within the supervisor's lease.  on_tick does not ask whether it is
\* armed, and only an armed one for its lease: whatever disarms the node must
\* take the session's target away.
MotionNeedsArming ==
  [][TickSteps => /\ armed
                  /\ Managed => lifecycle = "active" /\ supervisor_alive]_vars

\* The node keeps the promise of CommandAuthority: every order that moves the
\* plant was given under the session and epoch in force, each one newer than
\* the last, and a stop is final until both counts have moved on.
Authority == INSTANCE CommandAuthority WITH
  NoOrder <- NoTarget,
  authority <- <<session_id, session.epoch>>,
  open <- Commandable(session),
  order <- IF session.target = NoTarget THEN NoTarget ELSE session.last,
  last <- session.last,
  moving <- session.state = "NORMAL"

ImplementsCommandAuthority == Authority!Spec

\* The managed node is the one the supervisor counts on (ManagedNode): what
\* changes its lifecycle, its arming or its session's state is one of the
\* operations of that node, and has that operation's outcome.
Coarse == [lifecycle |-> lifecycle, armed |-> armed, state |-> session.state]
Supervised == INSTANCE ManagedNode
IsTheManagedNode ==
  [][Coarse' # Coarse => Supervised!NodeStep(Coarse, Coarse')]_vars

\* A controller that dies stops the hand for good: what it left in the queue
\* expires by simulated time.
DeadControllerStops ==
  ~controller.up ~> [](session.state # "NORMAL")

\* A supervisor that dies disarms a managed node for good, and nobody can arm
\* it again.
DeadSupervisorDisarms ==
  ~supervisor_up ~> [](~armed /\ session.state # "NORMAL")
=============================================================================
