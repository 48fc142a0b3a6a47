------------------------ MODULE SimulationNode_proofs ------------------------
(***************************************************************************)
(* Proofs about SimulationNode, for every TTL, every depth of the queue    *)
(* and every bound on processes, epochs and sequences.                     *)
(***************************************************************************)
EXTENDS SimulationNode, TLAPS

USE AgesAssumption, NodeAssumption

-----------------------------------------------------------------------------
(* The session's methods *)

\* Ages stay in their range.
LEMMA OlderAge ==
  ASSUME NEW age \in Age
  PROVE  Older(age) \in Age
BY DEF Age, Older

LEMMA FreshSessionOf ==
  ASSUME NEW epoch \in Nat
  PROVE  FreshSession(epoch) \in Session
BY DEF FreshSession, Session, State

\* What a method that takes the target away leaves of a session.
LEMMA StoppedSession ==
  ASSUME NEW s \in Session
  PROVE  /\ Stopped(s) \in Session
         /\ Stopped(s).state = "SAFE_STOP"
         /\ Stopped(s).bridge = "closed"
         /\ Stopped(s).target = NoTarget
         /\ Stopped(s).epoch = s.epoch
         /\ Stopped(s).last = s.last
BY DEF Stopped, Disarmed, Session, State

LEMMA PausedSession ==
  ASSUME NEW s \in Session
  PROVE  /\ Paused(s) \in Session
         /\ Paused(s).state = "PAUSED"
         /\ Paused(s).bridge = "closed"
         /\ Paused(s).target = NoTarget
         /\ Paused(s).epoch = s.epoch
         /\ Paused(s).last = s.last
BY DEF Paused, Disarmed, Session, State

LEMMA DroppedSession ==
  ASSUME NEW s \in Session
  PROVE  /\ Dropped(s) \in Session
         /\ Dropped(s).state = "NONE"
         /\ Dropped(s).bridge = "closed"
         /\ Dropped(s).target = NoTarget
         /\ Dropped(s).epoch = s.epoch
         /\ Dropped(s).last = s.last
BY DEF Dropped, Disarmed, Session, State

LEMMA RenewedSession ==
  ASSUME NEW s \in Session, NEW made \in BOOLEAN
  PROVE  /\ Renewed(s, made) \in Session
         /\ Renewed(s, made).state = IF made THEN "READY" ELSE "FAULT"
         /\ Renewed(s, made).bridge = IF made THEN "open" ELSE "closed"
         /\ Renewed(s, made).target = NoTarget
         /\ Renewed(s, made).epoch = s.epoch + 1
         /\ Renewed(s, made).last = -1
<1> DEFINE fresh == FreshSession(s.epoch + 1)
<1>1. s.epoch + 1 \in Nat
  BY DEF Session
<1>2. fresh \in Session
  BY <1>1, FreshSessionOf
<1>3. fresh.target = NoTarget /\ fresh.epoch = s.epoch + 1 /\ fresh.last = -1
  BY DEF FreshSession
<1>4. Renewed(s, made) =
        [fresh EXCEPT !.state = IF made THEN "READY" ELSE "FAULT",
                      !.bridge = IF made THEN "open" ELSE "closed"]
  BY DEF Renewed
<1> HIDE DEF fresh
<1>5. CASE made
  BY <1>2, <1>3, <1>4, <1>5 DEF Session, State
<1>6. CASE ~made
  BY <1>2, <1>3, <1>4, <1>6 DEF Session, State
<1>7. QED
  BY <1>5, <1>6

LEMMA AcceptedSession ==
  ASSUME NEW s \in Session, NEW c \in Command
  PROVE  /\ Accept(s, c) \in Session
         /\ Accept(s, c).state = s.state
         /\ Accept(s, c).bridge = s.bridge
         /\ Accept(s, c).target = c.age
         /\ c.age # NoTarget
         /\ Accept(s, c).epoch = s.epoch
         /\ Accept(s, c).last = c.sequence
<1>1. c.age \in Age /\ c.sequence \in Int
  BY DEF Command
<1>2. c.age # NoTarget
  BY <1>1 DEF Age
<1>3. QED
  BY <1>1, <1>2 DEF Accept, Session

LEMMA SteppedSession ==
  ASSUME NEW s \in Session, CanStep(s)
  PROVE  /\ Stepped(s) \in Session
         /\ Stepped(s).state = "NORMAL"
         /\ Stepped(s).bridge = s.bridge
         /\ Stepped(s).target # NoTarget
         /\ Stepped(s).epoch = s.epoch
         /\ Stepped(s).last = s.last
<1>1. s.target \in Age
  BY DEF CanStep, Session
<1>2. Older(s.target) \in Age
  BY <1>1, OlderAge
<1>3. Older(s.target) # NoTarget
  BY <1>2 DEF Age
<1>4. QED
  BY <1>2, <1>3 DEF Stepped, Session, State

-----------------------------------------------------------------------------
(* The queue of commands *)

QueueOK(q) == q \in Seq(Command) /\ Len(q) <= MaxWire

\* Other ages leave a queue a queue.
LEMMA AgedQueue ==
  ASSUME NEW q, QueueOK(q), NEW ages \in [DOMAIN q -> Age]
  PROVE  QueueOK([i \in DOMAIN q |-> [q[i] EXCEPT !.age = ages[i]]])
<1> DEFINE r == [i \in DOMAIN q |-> [q[i] EXCEPT !.age = ages[i]]]
<1>1. q \in Seq(Command) /\ Len(q) \in Nat /\ DOMAIN q = 1 .. Len(q)
  BY DEF QueueOK
<1>2. \A i \in DOMAIN q : [q[i] EXCEPT !.age = ages[i]] \in Command
  <2> TAKE i \in DOMAIN q
  <2>1. q[i] \in Command /\ ages[i] \in Age
    BY <1>1
  <2>2. QED
    BY <2>1 DEF Command
<1>3. r \in [1 .. Len(q) -> Command]
  BY <1>1, <1>2
<1>4. r \in Seq(Command) /\ Len(r) = Len(q)
  BY <1>1, <1>3
<1>5. QED
  BY <1>4 DEF QueueOK

LEMMA RedatedQueue ==
  ASSUME QueueOK(wire), Redate
  PROVE  QueueOK(wire')
<1>1. PICK ages \in [DOMAIN wire -> -Ahead .. 0] :
        wire' = [i \in DOMAIN wire |-> [wire[i] EXCEPT !.age = ages[i]]]
  BY DEF Redate
<1>2. ages \in [DOMAIN wire -> Age]
  BY DEF Age
<1>3. QED
  BY <1>1, <1>2, AgedQueue

LEMMA TickedQueue ==
  ASSUME QueueOK(wire),
         wire' = [i \in DOMAIN wire |->
                    [wire[i] EXCEPT !.age = Older(wire[i].age)]]
  PROVE  QueueOK(wire')
<1> DEFINE ages == [i \in DOMAIN wire |-> Older(wire[i].age)]
<1>1. \A i \in DOMAIN wire : Older(wire[i].age) \in Age
  <2> TAKE i \in DOMAIN wire
  <2>1. wire[i] \in Command
    BY DEF QueueOK
  <2>2. wire[i].age \in Age
    BY <2>1 DEF Command
  <2>3. QED
    BY <2>2, OlderAge
<1>2. ages \in [DOMAIN wire -> Age]
  BY <1>1
<1>3. wire' = [i \in DOMAIN wire |-> [wire[i] EXCEPT !.age = ages[i]]]
  OBVIOUS
<1> HIDE DEF ages
<1>4. QED
  BY <1>2, <1>3, AgedQueue

LEMMA TakenQueue ==
  ASSUME NEW q, QueueOK(q), q # << >>
  PROVE  QueueOK(Tail(q)) /\ Head(q) \in Command
BY DEF QueueOK

LEMMA FilledQueue ==
  ASSUME QueueOK(wire), NEW c \in Command
  PROVE  QueueOK(Queued(c))
<1>1. CASE Len(wire) < MaxWire
  BY <1>1 DEF QueueOK, Queued
<1>2. CASE ~(Len(wire) < MaxWire)
  <2>1. wire # << >>
    BY <1>2 DEF QueueOK
  <2>2. Tail(wire) \in Seq(Command) /\ Len(Tail(wire)) = Len(wire) - 1
    BY <2>1 DEF QueueOK
  <2>3. QED
    BY <1>2, <2>2 DEF QueueOK, Queued
<1>3. QED
  BY <1>1, <1>2

-----------------------------------------------------------------------------
(* The inductive invariant *)

\* A target is held only by a session that takes commands in an armed node.
TargetInv == session.target # NoTarget
               => Commandable(session) /\ armed /\ lifecycle_active

\* A managed node acts only in the primary state that says so.
ActiveInv == Managed /\ lifecycle_active => lifecycle = "active"

\* The epoch a managed node would configure next is new.
EpochInv == Managed /\ session.state = "NONE" /\ lifecycle # "finalized"
              => session.epoch < next_epoch

NodeInv == BridgeFollowsSession /\ TargetInv /\ ActiveInv /\ EpochInv

IInv == TypeOK /\ NodeInv

LEMMA NoSessionOf == NoSession \in Session
<1>1. FreshSession(0) \in Session
  BY FreshSessionOf
<1>2. QED
  BY <1>1 DEF NoSession, Session, State

LEMMA InitIInv == Init => IInv
<1> SUFFICES ASSUME Init
             PROVE  IInv
  OBVIOUS
<1>1. FreshSession(0) \in Session
  BY FreshSessionOf
<1>3. session \in Session
  BY <1>1, NoSessionOf DEF Init
<1>4. TypeOK
  <2>1. wire \in Seq(Command) /\ Len(wire) <= MaxWire
    BY DEF Init
  <2>2. controller \in Controller
    BY DEF Init, Controller, Heard
  <2>3. lifecycle_active \in BOOLEAN /\ armed \in BOOLEAN
    BY Zenon DEF Init
  <2>4. QED
    BY <1>3, <2>1, <2>2, <2>3 DEF Init, TypeOK, Lifecycle
<1>5. NodeInv
  <2>1. CASE Managed
    <3>1. /\ session.state = "NONE" /\ session.bridge = "closed"
          /\ session.target = NoTarget /\ session.epoch = 0
      BY <2>1 DEF Init, NoSession, FreshSession
    <3>2. ~lifecycle_active /\ next_epoch = 1
      BY <2>1 DEF Init
    <3>3. QED
      BY <3>1, <3>2 DEF NodeInv, BridgeFollowsSession, Commandable, TargetInv,
                        ActiveInv, EpochInv
  <2>2. CASE ~Managed
    BY <2>2 DEF Init, FreshSession, NodeInv, BridgeFollowsSession,
                Commandable, TargetInv, ActiveInv, EpochInv
  <2>3. QED
    BY <2>1, <2>2
<1>6. QED
  BY <1>4, <1>5 DEF IInv

\* Each group of variables has its type when each step gives it one.
NodeOK ==
  /\ session_id \in Nat
  /\ session \in Session
  /\ lifecycle \in Lifecycle
  /\ lifecycle_active \in BOOLEAN
  /\ armed \in BOOLEAN
  /\ next_epoch \in Nat

OutsideOK ==
  /\ supervisor_alive \in BOOLEAN
  /\ QueueOK(wire)
  /\ controller \in Controller
  /\ supervisor_up \in BOOLEAN

LEMMA TypeParts == TypeOK <=> NodeOK /\ OutsideOK
BY DEF TypeOK, NodeOK, OutsideOK, QueueOK

LEMMA TypePartsNext == TypeOK' <=> NodeOK' /\ OutsideOK'
BY DEF TypeOK, NodeOK, OutsideOK, QueueOK

-----------------------------------------------------------------------------
(* Each step keeps the invariant *)

\* Nothing is asked of the node's variables by a step that leaves them alone.
LEMMA OutsideStep ==
  ASSUME IInv, UNCHANGED node
  PROVE  NodeOK' /\ NodeInv'
BY TypeParts
DEF IInv, node, NodeOK, NodeInv, BridgeFollowsSession, Commandable, TargetInv,
    ActiveInv, EpochInv

LEMMA TransitionKeeps ==
  ASSUME IInv, Transition
  PROVE  IInv'
<1>1. NodeOK /\ OutsideOK /\ NodeInv
  BY TypeParts DEF IInv
<1> USE DEF NodeInv, BridgeFollowsSession, Commandable, TargetInv, ActiveInv,
            EpochInv
<1>2. CASE Configure
  <2>1. OutsideOK'
    <3>1. QueueOK(wire')
      BY <1>1, <1>2, RedatedQueue DEF Configure, OutsideOK
    <3>2. QED
      BY <1>1, <1>2, <3>1 DEF Configure, OutsideOK
  <2>2. CASE session.state # "NONE"
    <3>1. NodeOK'
      BY <1>1, <1>2, <2>2 DEF Configure, NodeOK, Lifecycle
    <3>2. NodeInv'
      BY <1>1, <1>2, <2>2 DEF Configure
    <3>3. QED
      BY <2>1, <3>1, <3>2, TypePartsNext DEF IInv
  <2>3. CASE session.state = "NONE"
    <3>1. PICK epoch \in Nat : session' = FreshSession(epoch)
      BY <1>1, <1>2, <2>3 DEF Configure, NodeOK
    <3>2. session' \in Session
      BY <3>1, FreshSessionOf
    <3>3. /\ session'.state = "READY" /\ session'.bridge = "open"
          /\ session'.target = NoTarget
      BY <3>1 DEF FreshSession
    <3>4. NodeOK'
      BY <1>1, <1>2, <2>3, <3>2 DEF Configure, NodeOK, Lifecycle
    <3>5. NodeInv'
      BY <1>1, <1>2, <3>3 DEF Configure
    <3>6. QED
      BY <2>1, <3>4, <3>5, TypePartsNext DEF IInv
  <2>4. QED
    BY <2>2, <2>3
<1>3. ASSUME NEW made \in BOOLEAN, Activate(made)
      PROVE  IInv'
  <2>1. OutsideOK'
    BY <1>1, <1>3 DEF Activate, OutsideOK, QueueOK
  <2>2. session' = IF session.state = "PAUSED" THEN Renewed(session, made)
                                               ELSE session
    BY <1>3 DEF Activate
  <2>3. \/ session' \in Session /\ session'.state # "NONE"
        \/ session' = session
    BY <1>1, <1>3, <2>2, RenewedSession DEF NodeOK
  <2>4. lifecycle_active' \in BOOLEAN /\ armed' \in BOOLEAN
    BY <1>1, <1>3, Zenon DEF Activate, NodeOK
  <2>5. NodeOK'
    BY <1>1, <1>3, <2>3, <2>4 DEF Activate, NodeOK, Lifecycle
  <2>6. session'.target # NoTarget => session' = session
    BY <1>1, <2>2, RenewedSession DEF NodeOK
  <2>7. BridgeFollowsSession'
    BY <1>1, <1>3, <2>2, RenewedSession DEF NodeOK
  <2>8. TargetInv'
    <3>1. CASE Managed
      BY <1>1, <1>3, <2>6, <3>1 DEF Activate
    <3>2. CASE ~Managed
      BY <1>1, <1>3, <2>6, <3>2 DEF Activate
    <3>3. QED
      BY <3>1, <3>2
  <2>9. ActiveInv'
    BY <1>1, <1>3 DEF Activate
  <2>10. EpochInv'
    BY <1>1, <1>3, <2>3 DEF Activate
  <2>11. QED
    BY <2>1, <2>5, <2>7, <2>8, <2>9, <2>10, TypePartsNext DEF IInv
<1>4. CASE Deactivate
  <2>1. NodeOK'
    BY <1>1, <1>4, PausedSession DEF Deactivate, NodeOK, Lifecycle
  <2>2. NodeInv'
    BY <1>1, <1>4, PausedSession DEF Deactivate, NodeOK
  <2>3. QED
    BY <1>1, <1>4, <2>1, <2>2, TypePartsNext
    DEF Deactivate, OutsideOK, QueueOK, IInv
<1>5. CASE Cleanup
  <2>1. next_epoch' \in Nat /\ session.epoch < next_epoch'
    BY <1>1, <1>5 DEF Cleanup, NodeOK, Larger, Session
  <2>2. NodeOK'
    BY <1>1, <1>5, <2>1, DroppedSession DEF Cleanup, NodeOK, Lifecycle
  <2>3. NodeInv'
    BY <1>1, <1>5, <2>1, DroppedSession DEF Cleanup, NodeOK
  <2>4. QED
    BY <1>1, <1>5, <2>2, <2>3, TypePartsNext
    DEF Cleanup, OutsideOK, QueueOK, IInv
<1>6. CASE Shutdown
  <2>1. NodeOK'
    BY <1>1, <1>6, DroppedSession DEF Shutdown, NodeOK, Lifecycle
  <2>2. NodeInv'
    BY <1>1, <1>6, DroppedSession DEF Shutdown, NodeOK
  <2>3. QED
    BY <1>1, <1>6, <2>1, <2>2, TypePartsNext
    DEF Shutdown, OutsideOK, QueueOK, IInv
<1>7. CASE Restart
  <2>1. QueueOK(wire')
    BY <1>1, <1>7, RedatedQueue DEF Restart, OutsideOK
  <2>2. OutsideOK'
    BY <1>1, <1>7, <2>1 DEF Restart, OutsideOK
  <2>3. session' \in Session /\ session'.target = NoTarget
    BY <1>7, FreshSessionOf, NoSessionOf
    DEF Restart, Boot, NoSession, FreshSession
  <2>4. lifecycle_active' \in BOOLEAN /\ armed' \in BOOLEAN
    BY <1>7, Zenon DEF Restart, Boot
  <2>5. NodeOK'
    BY <1>1, <1>7, <2>3, <2>4 DEF Restart, Boot, NodeOK, Lifecycle
  <2>6. CASE Managed
    <3>1. /\ session'.state = "NONE" /\ session'.bridge = "closed"
          /\ session'.epoch = 0
      BY <1>7, <2>6 DEF Restart, Boot, NoSession, FreshSession
    <3>2. ~lifecycle_active' /\ next_epoch' = 1
      BY <1>7, <2>6 DEF Restart, Boot
    <3>3. NodeInv'
      BY <2>3, <3>1, <3>2
    <3>4. QED
      BY <2>2, <2>5, <3>3, TypePartsNext DEF IInv
  <2>7. CASE ~Managed
    <3>1. session'.state = "READY" /\ session'.bridge = "open"
      BY <1>7, <2>7 DEF Restart, Boot, FreshSession
    <3>2. NodeInv'
      BY <2>3, <2>7, <3>1
    <3>3. QED
      BY <2>2, <2>5, <3>2, TypePartsNext DEF IInv
  <2>8. QED
    BY <2>6, <2>7
<1>8. QED
  BY <1>2, <1>3, <1>4, <1>5, <1>6, <1>7 DEF Transition

LEMMA ServiceKeeps ==
  ASSUME IInv, Service
  PROVE  IInv'
<1>1. NodeOK /\ OutsideOK /\ NodeInv
  BY TypeParts DEF IInv
<1> USE DEF NodeInv, BridgeFollowsSession, Commandable, TargetInv, ActiveInv,
            EpochInv
<1>2. CASE StopService
  <2>1. NodeOK'
    BY <1>1, <1>2, StoppedSession DEF StopService, NodeOK
  <2>2. NodeInv'
    BY <1>1, <1>2, StoppedSession DEF StopService, NodeOK, SessionExists
  <2>3. QED
    BY <1>1, <1>2, <2>1, <2>2, TypePartsNext
    DEF StopService, OutsideOK, QueueOK, IInv
<1>3. CASE Arm
  BY <1>1, <1>3, TypePartsNext DEF Arm, NodeOK, OutsideOK, QueueOK, IInv
<1>4. CASE PauseService
  <2>1. NodeOK'
    BY <1>1, <1>4, PausedSession DEF PauseService, NodeOK, gates
  <2>2. NodeInv'
    BY <1>1, <1>4, PausedSession DEF PauseService, NodeOK, gates
  <2>3. QED
    BY <1>1, <1>4, <2>1, <2>2, TypePartsNext
    DEF PauseService, OutsideOK, QueueOK, IInv
<1>5. ASSUME NEW made \in BOOLEAN, ResetService(made)
      PROVE  IInv'
  <2>1. NodeOK'
    BY <1>1, <1>5, RenewedSession DEF ResetService, NodeOK, gates
  <2>2. NodeInv'
    BY <1>1, <1>5, RenewedSession DEF ResetService, NodeOK, gates
  <2>3. OutsideOK'
    BY <1>1, <1>5, RedatedQueue DEF ResetService, OutsideOK
  <2>4. QED
    BY <2>1, <2>2, <2>3, TypePartsNext DEF IInv
<1>6. ASSUME NEW made \in BOOLEAN, ResumeService(made)
      PROVE  IInv'
  <2>1. NodeOK'
    BY <1>1, <1>6, RenewedSession DEF ResumeService, NodeOK, gates
  <2>2. NodeInv'
    BY <1>1, <1>6, RenewedSession DEF ResumeService, NodeOK, gates
  <2>3. QED
    BY <1>1, <1>6, <2>1, <2>2, TypePartsNext
    DEF ResumeService, OutsideOK, QueueOK, IInv
<1>7. QED
  BY <1>2, <1>3, <1>4, <1>5, <1>6 DEF Service

LEMMA TopicKeeps ==
  ASSUME IInv, \/ AcceptCommand \/ RejectCommand \/ FallSilent \/ OnTick
               \/ Heartbeat \/ LeaseRunsOut
  PROVE  IInv'
<1>1. NodeOK /\ OutsideOK /\ NodeInv
  BY TypeParts DEF IInv
<1> USE DEF NodeInv, BridgeFollowsSession, Commandable, TargetInv, ActiveInv,
            EpochInv
<1>2. CASE AcceptCommand
  <2>1. Head(wire) \in Command /\ QueueOK(wire')
    BY <1>1, <1>2, TakenQueue DEF AcceptCommand, OutsideOK
  <2>2. NodeOK'
    BY <1>1, <1>2, <2>1, AcceptedSession DEF AcceptCommand, NodeOK, gates
  <2>3. NodeInv'
    BY <1>1, <1>2, <2>1, AcceptedSession
    DEF AcceptCommand, Admits, Acceptable, NodeOK, gates
  <2>4. QED
    BY <1>1, <1>2, <2>1, <2>2, <2>3, TypePartsNext
    DEF AcceptCommand, OutsideOK, IInv
<1>3. CASE RejectCommand
  <2>1. QueueOK(wire')
    BY <1>1, <1>3, TakenQueue DEF RejectCommand, OutsideOK
  <2>2. QED
    BY <1>1, <1>3, <2>1, OutsideStep, TypePartsNext
    DEF RejectCommand, OutsideOK, IInv
<1>4. CASE FallSilent
  <2>1. NodeOK'
    BY <1>1, <1>4 DEF FallSilent, NodeOK, gates, Session
  <2>2. NodeInv'
    BY <1>1, <1>4 DEF FallSilent, NodeOK, gates, Session
  <2>3. QED
    BY <1>1, <1>4, <2>1, <2>2, TypePartsNext
    DEF FallSilent, OutsideOK, QueueOK, IInv
<1>5. CASE LoseLease
  <2>1. NodeOK'
    BY <1>1, <1>5, StoppedSession DEF LoseLease, NodeOK
  <2>2. NodeInv'
    BY <1>1, <1>5, StoppedSession DEF LoseLease, NodeOK
  <2>3. QED
    BY <1>1, <1>5, <2>1, <2>2, TypePartsNext
    DEF LoseLease, OutsideOK, QueueOK, IInv
<1>6. CASE TickStops \/ TickFails
  <2>1. /\ session' = Stopped(session)
        /\ UNCHANGED <<gates, supervisor_alive, wire, controller,
                       supervisor_up>>
    BY <1>6 DEF TickStops, TickFails
  <2>2. NodeOK'
    BY <1>1, <2>1, StoppedSession DEF NodeOK, gates
  <2>3. NodeInv'
    BY <1>1, <2>1, StoppedSession DEF NodeOK, gates
  <2>4. QED
    BY <1>1, <2>1, <2>2, <2>3, TypePartsNext DEF OutsideOK, QueueOK, IInv
<1>7. CASE TickSteps
  <2>1. CanStep(session) /\ session' = Stepped(session)
    BY <1>7 DEF TickSteps
  <2>2. NodeOK'
    BY <1>1, <1>7, <2>1, SteppedSession DEF TickSteps, NodeOK, gates
  <2>3. NodeInv'
    BY <1>1, <1>7, <2>1, SteppedSession
    DEF TickSteps, CanStep, NodeOK, gates
  <2>4. QueueOK(wire')
    BY <1>1, <1>7, TickedQueue DEF TickSteps, OutsideOK
  <2>5. QED
    BY <1>1, <1>7, <2>2, <2>3, <2>4, TypePartsNext
    DEF TickSteps, OutsideOK, IInv
<1>8. CASE Heartbeat
  BY <1>1, <1>8, OutsideStep, TypePartsNext
  DEF Heartbeat, OutsideOK, QueueOK, IInv
<1>9. CASE LeaseRunsOut
  BY <1>1, <1>9, OutsideStep, TypePartsNext
  DEF LeaseRunsOut, OutsideOK, QueueOK, IInv
<1>10. QED
  BY <1>2, <1>3, <1>4, <1>5, <1>6, <1>7, <1>8, <1>9 DEF OnTick

\* The controller's process and the supervisor's.
LEMMA ControllerKeeps ==
  ASSUME IInv, ControllerStep \/ SupervisorDies
  PROVE  IInv'
<1>1. NodeOK /\ OutsideOK
  BY TypeParts DEF IInv
<1>2. UNCHANGED node
  BY DEF ControllerStep, ControllerActivate, ControllerDeactivate,
         ControllerLosesLease, HearEpoch, HearSession, Publish, ControllerDies,
         SupervisorDies
<1>3. controller' \in Controller
  <2>1. session_id \in Heard /\ session.epoch \in Heard
    BY <1>1 DEF NodeOK, Heard, Session
  <2>2. controller \in Controller
    BY <1>1 DEF OutsideOK
  <2> USE DEF Controller, Heard
  <2>3. CASE ControllerActivate
    BY <2>2, <2>3 DEF ControllerActivate
  <2>4. CASE ControllerDeactivate \/ ControllerLosesLease \/ ControllerDies
    BY <2>2, <2>4
    DEF ControllerDeactivate, ControllerLosesLease, ControllerDies
  <2>5. CASE HearEpoch
    BY <2>1, <2>2, <2>5 DEF HearEpoch
  <2>6. CASE HearSession
    BY <2>1, <2>2, <2>6 DEF HearSession
  <2>7. CASE Publish
    BY <2>2, <2>7 DEF Publish
  <2>8. CASE SupervisorDies
    BY <2>2, <2>8 DEF SupervisorDies
  <2>9. QED
    BY <2>3, <2>4, <2>5, <2>6, <2>7, <2>8 DEF ControllerStep
<1>4. QueueOK(wire')
  <2>1. CASE Publish
    <3>1. PICK age \in Age :
            wire' = Queued([session |-> controller.session,
                            epoch |-> controller.epoch,
                            sequence |-> controller.seq, age |-> age])
      BY <2>1 DEF Publish
    <3>2. /\ controller.session \in Nat /\ controller.epoch \in Nat
          /\ controller.seq \in Nat
      BY <1>1, <2>1 DEF Publish, OutsideOK, Controller, Heard
    <3>3. [session |-> controller.session, epoch |-> controller.epoch,
           sequence |-> controller.seq, age |-> age] \in Command
      BY <3>2 DEF Command
    <3>4. QED
      BY <1>1, <3>1, <3>3, FilledQueue DEF OutsideOK
  <2>2. CASE ~Publish
    BY <1>1, <2>2
    DEF ControllerStep, ControllerActivate, ControllerDeactivate,
        ControllerLosesLease, HearEpoch, HearSession, ControllerDies,
        SupervisorDies, OutsideOK, QueueOK
  <2>3. QED
    BY <2>1, <2>2
<1>5. supervisor_alive' \in BOOLEAN /\ supervisor_up' \in BOOLEAN
  BY <1>1
  DEF ControllerStep, ControllerActivate, ControllerDeactivate,
      ControllerLosesLease, HearEpoch, HearSession, Publish, ControllerDies,
      SupervisorDies, OutsideOK
<1>6. QED
  BY <1>2, <1>3, <1>4, <1>5, OutsideStep, TypePartsNext DEF OutsideOK, IInv

LEMMA NextIInv == IInv /\ [Next]_vars => IInv'
<1> SUFFICES ASSUME IInv, [Next]_vars
             PROVE  IInv'
  OBVIOUS
<1>1. CASE NodeStep
  BY <1>1, TransitionKeeps, ServiceKeeps, TopicKeeps DEF NodeStep
<1>2. CASE ControllerStep \/ SupervisorDies
  BY <1>2, ControllerKeeps
<1>3. CASE UNCHANGED vars
  <2>1. UNCHANGED node
    BY <1>3 DEF vars, node
  <2>2. OutsideOK'
    BY <1>3, TypeParts DEF vars, OutsideOK, QueueOK, IInv
  <2>3. QED
    BY <2>1, <2>2, OutsideStep, TypePartsNext DEF IInv
<1>4. QED
  BY <1>1, <1>2, <1>3 DEF Next

-----------------------------------------------------------------------------
(* The theorems *)

\* The inductive invariant holds of every behaviour.
THEOREM Invariance == Spec => []IInv
BY InitIInv, NextIInv, PTL DEF Spec

\* Node, queue and controller keep their types, and the queue its depth.
THEOREM TypeCorrect == Spec => []TypeOK
<1>1. IInv => TypeOK
  BY DEF IInv
<1>2. QED
  BY <1>1, Invariance, PTL

\* Whatever is asked of the node, and in whatever order, a control bridge runs
\* exactly while the session takes commands.
THEOREM BridgeWithSession == Spec => []BridgeFollowsSession
<1>1. IInv => BridgeFollowsSession
  BY DEF IInv, NodeInv
<1>2. QED
  BY <1>1, Invariance, PTL

\* The plant advances only in an armed node, and in a managed one only when it
\* is active and within its lease, although on_tick asks for none of these.
THEOREM ArmedMotion == Spec => MotionNeedsArming
<1>1. IInv /\ [Next]_vars
        => [TickSteps => /\ armed
                         /\ Managed => lifecycle = "active"
                                       /\ supervisor_alive]_vars
  <2> SUFFICES ASSUME IInv, TickSteps
               PROVE  armed /\ (Managed => lifecycle = "active"
                                           /\ supervisor_alive)
    OBVIOUS
  <2>1. session.target # NoTarget /\ lifecycle_active /\ ~LeaseLost
    BY DEF TickSteps, CanStep
  <2>2. armed
    BY <2>1 DEF IInv, NodeInv, TargetInv
  <2>3. Managed => lifecycle = "active"
    BY <2>1 DEF IInv, NodeInv, ActiveInv
  <2>4. Managed => supervisor_alive
    BY <2>1, <2>2 DEF LeaseLost
  <2>5. QED
    BY <2>2, <2>3, <2>4
<1>2. QED
  BY <1>1, Invariance, PTL DEF Spec, MotionNeedsArming

-----------------------------------------------------------------------------
(* Refinement: a managed node implements CommandAuthority *)

LEMMA InitRefines == Init => Authority!Init
<1> SUFFICES ASSUME Init
             PROVE  Authority!Init
  OBVIOUS
<1>1. /\ session.epoch \in Nat /\ session.target = NoTarget
      /\ session.last = -1 /\ session.state # "NORMAL"
  BY DEF Init, NoSession, FreshSession
<1>2. Commandable(session) \in BOOLEAN
  BY DEF Commandable
<1>3. session_id \in Nat
  BY DEF Init
<1>4. QED
  BY <1>1, <1>2, <1>3 DEF Authority!Init

\* A step that leaves process, session and queue of orders alone is a stutter.
LEMMA Unseen ==
  ASSUME UNCHANGED <<session_id, session>>
  PROVE  UNCHANGED Authority!vars
BY DEF Authority!vars, Commandable

\* A step that takes the target away and closes the session revokes.
LEMMA Revokes ==
  ASSUME ~Commandable(session'), session'.target = NoTarget,
         session'.last = session.last, session'.epoch = session.epoch,
         UNCHANGED session_id
  PROVE  Authority!Revoke
BY DEF Authority!Revoke, Commandable

\* A step that starts a session again at a later epoch renews.
LEMMA Renews ==
  ASSUME session_id \in Nat, session_id' \in Nat,
         session.epoch \in Nat, session'.epoch \in Nat,
         \/ session_id < session_id'
         \/ session_id = session_id' /\ session.epoch < session'.epoch,
         session'.target = NoTarget, session'.last = -1,
         session'.state # "NORMAL"
  PROVE  Authority!Renew
<1>1. Commandable(session)' \in BOOLEAN
  BY DEF Commandable
<1>2. QED
  BY <1>1 DEF Authority!Renew, Authority!Later

LEMMA TransitionRefines ==
  ASSUME Managed, IInv, Transition
  PROVE  [Authority!Next]_Authority!vars
<1>1. NodeOK /\ NodeInv
  BY TypeParts DEF IInv
<1>2. session_id \in Nat /\ session \in Session /\ session.epoch \in Nat
  BY <1>1 DEF NodeOK, Session
<1>3. CASE Configure
  <2>1. CASE session.state # "NONE"
    BY <1>3, <2>1, Unseen DEF Configure
  <2>2. CASE session.state = "NONE"
    <3>1. session' = FreshSession(next_epoch) /\ next_epoch \in Nat
      BY <1>1, <1>3, <2>2 DEF Configure, NodeOK
    <3>2. session.epoch < next_epoch
      BY <1>1, <1>3, <2>2 DEF NodeInv, EpochInv, Configure
    <3>3. /\ session'.epoch = next_epoch /\ session'.target = NoTarget
          /\ session'.last = -1 /\ session'.state # "NORMAL"
      BY <3>1 DEF FreshSession
    <3>4. Authority!Renew
      BY <1>2, <1>3, <3>1, <3>2, <3>3, Renews DEF Configure
    <3>5. QED
      BY <3>4 DEF Authority!Next
  <2>3. QED
    BY <2>1, <2>2
<1>4. ASSUME NEW made \in BOOLEAN, Activate(made)
      PROVE  [Authority!Next]_Authority!vars
  <2>1. CASE session.state # "PAUSED"
    BY <1>4, <2>1, Unseen DEF Activate
  <2>2. CASE session.state = "PAUSED"
    <3>1. session' = Renewed(session, made) /\ session_id' = session_id
      BY <1>4, <2>2 DEF Activate
    <3>2. /\ session'.epoch = session.epoch + 1 /\ session'.target = NoTarget
          /\ session'.last = -1 /\ session'.state # "NORMAL"
      BY <1>2, <3>1, RenewedSession
    <3>3. Authority!Renew
      BY <1>2, <3>1, <3>2, Renews
    <3>4. QED
      BY <3>3 DEF Authority!Next
  <2>3. QED
    BY <2>1, <2>2
<1>5. CASE Deactivate
  <2>1. CASE ~Commandable(session)
    BY <1>5, <2>1, Unseen DEF Deactivate
  <2>2. CASE Commandable(session)
    <3>1. session' = Paused(session) /\ session_id' = session_id
      BY <1>5, <2>2 DEF Deactivate
    <3>2. Authority!Revoke
      BY <1>2, <3>1, PausedSession, Revokes DEF Commandable
    <3>3. QED
      BY <3>2 DEF Authority!Next
  <2>3. QED
    BY <2>1, <2>2
<1>6. CASE Cleanup \/ Shutdown
  <2>1. session' = Dropped(session) /\ session_id' = session_id
    BY <1>6 DEF Cleanup, Shutdown
  <2>2. Authority!Revoke
    BY <1>2, <2>1, DroppedSession, Revokes DEF Commandable
  <2>3. QED
    BY <2>2 DEF Authority!Next
<1>7. CASE Restart
  <2>1. session_id' = session_id + 1
    BY <1>7 DEF Restart
  <2>2. /\ session'.epoch = 0 /\ session'.target = NoTarget
        /\ session'.last = -1 /\ session'.state # "NORMAL"
    BY <1>7 DEF Restart, Boot, NoSession, FreshSession
  <2>3. Authority!Renew
    BY <1>2, <2>1, <2>2, Renews
  <2>4. QED
    BY <2>3 DEF Authority!Next
<1>8. QED
  BY <1>3, <1>4, <1>5, <1>6, <1>7 DEF Transition

LEMMA ServiceRefines ==
  ASSUME Managed, IInv, Service
  PROVE  [Authority!Next]_Authority!vars
<1>1. session_id \in Nat /\ session \in Session /\ session.epoch \in Nat
  BY TypeParts DEF IInv, NodeOK, Session
<1>2. CASE StopService
  <2>1. CASE ~SessionExists
    BY <1>2, <2>1, Unseen DEF StopService
  <2>2. CASE SessionExists
    <3>1. session' = Stopped(session) /\ session_id' = session_id
      BY <1>2, <2>2 DEF StopService
    <3>2. Authority!Revoke
      BY <1>1, <3>1, StoppedSession, Revokes DEF Commandable
    <3>3. QED
      BY <3>2 DEF Authority!Next
  <2>3. QED
    BY <2>1, <2>2
<1>3. CASE Arm
  BY <1>3, Unseen DEF Arm
<1>4. CASE PauseService
  BY <1>4 DEF PauseService
<1>5. ASSUME NEW made \in BOOLEAN, ResetService(made)
      PROVE  [Authority!Next]_Authority!vars
  <2>1. session' = Renewed(session, made) /\ session_id' = session_id
    BY <1>5 DEF ResetService, gates
  <2>2. /\ session'.epoch = session.epoch + 1 /\ session'.target = NoTarget
        /\ session'.last = -1 /\ session'.state # "NORMAL"
    BY <1>1, <2>1, RenewedSession
  <2>3. Authority!Renew
    BY <1>1, <2>1, <2>2, Renews
  <2>4. QED
    BY <2>3 DEF Authority!Next
<1>6. ASSUME NEW made \in BOOLEAN, ResumeService(made)
      PROVE  FALSE
  BY <1>6 DEF ResumeService
<1>7. QED
  BY <1>2, <1>3, <1>4, <1>5, <1>6 DEF Service

LEMMA TopicRefines ==
  ASSUME IInv, \/ AcceptCommand \/ RejectCommand \/ FallSilent \/ OnTick
               \/ Heartbeat \/ LeaseRunsOut
  PROVE  [Authority!Next]_Authority!vars
<1>1. NodeOK /\ OutsideOK
  BY TypeParts DEF IInv
<1>2. session \in Session
  BY <1>1 DEF NodeOK
<1>3. CASE AcceptCommand
  <2> DEFINE c == Head(wire)
  <2>1. c \in Command
    BY <1>1, <1>3, TakenQueue DEF AcceptCommand, OutsideOK
  <2>2. session' = Accept(session, c) /\ session_id' = session_id
    BY <1>3 DEF AcceptCommand, gates
  <2>3. Commandable(session) /\ session.last < c.sequence
    BY <1>2, <1>3, <2>1
    DEF AcceptCommand, Admits, Acceptable, Command, Session
  <2>4. c.sequence \in Nat
    BY <2>1 DEF Command
  <2> HIDE DEF c
  <2>5. /\ session'.state = session.state /\ session'.target # NoTarget
        /\ session'.epoch = session.epoch /\ session'.last = c.sequence
    BY <1>2, <2>1, <2>2, AcceptedSession
  <2>6. Commandable(session) = Commandable(session')
    BY <2>5 DEF Commandable
  <2>7. Authority!Order
    BY <2>2, <2>3, <2>4, <2>5, <2>6 DEF Authority!Order
  <2>8. QED
    BY <2>7 DEF Authority!Next
<1>4. CASE FallSilent
  <2>1. session_id' = session_id
    BY <1>4 DEF FallSilent, gates
  <2>2. /\ session'.state = session.state /\ session'.target = session.target
        /\ session'.epoch = session.epoch /\ session'.last = session.last
    BY <1>2, <1>4 DEF FallSilent, Session
  <2>3. QED
    BY <2>1, <2>2 DEF Authority!vars, Commandable
<1>5. CASE LoseLease \/ TickStops \/ TickFails
  <2>1. session' = Stopped(session) /\ session_id' = session_id
    BY <1>5 DEF LoseLease, TickStops, TickFails, gates
  <2>2. Authority!Revoke
    BY <1>2, <2>1, StoppedSession, Revokes DEF Commandable
  <2>3. QED
    BY <2>2 DEF Authority!Next
<1>6. CASE TickSteps
  <2>1. /\ CanStep(session) /\ session' = Stepped(session)
        /\ session_id' = session_id
    BY <1>6 DEF TickSteps, gates
  <2>2. /\ session'.state = "NORMAL" /\ session'.target # NoTarget
        /\ session'.epoch = session.epoch /\ session'.last = session.last
    BY <1>2, <2>1, SteppedSession
  <2>3. Commandable(session) /\ Commandable(session')
        /\ session.target # NoTarget
    BY <2>1, <2>2 DEF CanStep, Commandable
  <2>4. session.last # NoTarget
    BY <1>2 DEF Session
  <2>5. Authority!Move
    BY <2>1, <2>2, <2>3, <2>4 DEF Authority!Move
  <2>6. QED
    BY <2>5 DEF Authority!Next
<1>7. CASE RejectCommand \/ Heartbeat \/ LeaseRunsOut
  BY <1>7, Unseen DEF RejectCommand, Heartbeat, LeaseRunsOut, node
<1>8. QED
  BY <1>3, <1>4, <1>5, <1>6, <1>7 DEF OnTick

LEMMA NextRefines ==
  ASSUME Managed
  PROVE  IInv /\ [Next]_vars => [Authority!Next]_Authority!vars
<1> SUFFICES ASSUME IInv, [Next]_vars
             PROVE  [Authority!Next]_Authority!vars
  OBVIOUS
<1>1. CASE NodeStep
  BY <1>1, TransitionRefines, ServiceRefines, TopicRefines DEF NodeStep
<1>2. CASE ControllerStep \/ SupervisorDies
  <2>1. UNCHANGED node
    BY <1>2
    DEF ControllerStep, ControllerActivate, ControllerDeactivate,
        ControllerLosesLease, HearEpoch, HearSession, Publish, ControllerDies,
        SupervisorDies
  <2>2. QED
    BY <2>1, Unseen DEF node
<1>3. CASE UNCHANGED vars
  BY <1>3, Unseen DEF vars, node
<1>4. QED
  BY <1>1, <1>2, <1>3 DEF Next

\* A managed node keeps the promise of CommandAuthority, for any number of
\* restarts, cleanups, resets and resumptions: no order outlives the session
\* and epoch it was given under.
THEOREM Refinement ==
  ASSUME Managed
  PROVE  Spec => ImplementsCommandAuthority
<1>1. Init => Authority!Init
  BY InitRefines
<1>2. IInv /\ [Next]_vars => [Authority!Next]_Authority!vars
  BY NextRefines
<1>3. QED
  BY <1>1, <1>2, Invariance, PTL
  DEF Spec, ImplementsCommandAuthority, Authority!Spec

-----------------------------------------------------------------------------
(* The managed node is the one the supervisor counts on *)

\* A managed node has no session before it is configured, and does nothing
\* while it has none.
PlaceInv ==
  /\ lifecycle = "unconfigured" => session.state = "NONE"
  /\ session.state = "NONE" => ~armed /\ ~lifecycle_active

LEMMA InitPlace == Managed /\ Init => PlaceInv
BY DEF Init, PlaceInv, NoSession, FreshSession

LEMMA TransitionPlace ==
  ASSUME Managed, IInv, PlaceInv, Transition
  PROVE  PlaceInv'
<1>1. session \in Session
  BY DEF IInv, TypeOK
<1>2. CASE Configure
  BY <1>2 DEF Configure, PlaceInv, FreshSession
<1>3. ASSUME NEW made \in BOOLEAN, Activate(made)
      PROVE  PlaceInv'
  <2>1. CASE session.state = "PAUSED"
    <3>1. session'.state \in {"READY", "FAULT"}
      BY <1>1, <1>3, <2>1, RenewedSession DEF Activate
    <3>2. lifecycle' # "unconfigured"
      BY <1>3 DEF Activate
    <3>3. QED
      BY <3>1, <3>2 DEF PlaceInv
  <2>2. CASE session.state # "PAUSED"
    <3>1. session' = session
      BY <1>3, <2>2 DEF Activate
    <3>2. CASE session.state = "READY"
      BY <1>3, <3>1, <3>2 DEF Activate, PlaceInv
    <3>3. CASE session.state # "READY"
      BY <1>3, <3>1, <3>3, <2>2 DEF Activate, PlaceInv
    <3>4. QED
      BY <3>2, <3>3
  <2>3. QED
    BY <2>1, <2>2
<1>4. CASE Deactivate
  BY <1>4 DEF Deactivate, PlaceInv
<1>5. CASE Cleanup \/ Shutdown
  BY <1>1, <1>5, DroppedSession DEF Cleanup, Shutdown, PlaceInv
<1>6. CASE Restart
  BY <1>6 DEF Restart, Boot, PlaceInv, NoSession, FreshSession
<1>7. QED
  BY <1>2, <1>3, <1>4, <1>5, <1>6 DEF Transition

LEMMA OtherPlace ==
  ASSUME Managed, IInv, PlaceInv, [Next]_vars, ~Transition
  PROVE  PlaceInv'
<1>1. session \in Session
  BY DEF IInv, TypeOK
<1>2. CASE Service
  <2>1. CASE StopService
    BY <1>1, <2>1, StoppedSession DEF StopService, PlaceInv, SessionExists
  <2>2. CASE Arm
    BY <2>2 DEF Arm, PlaceInv
  <2>3. CASE PauseService
    BY <2>3 DEF PauseService
  <2>4. ASSUME NEW made \in BOOLEAN, ResetService(made) \/ ResumeService(made)
        PROVE  PlaceInv'
    <3>1. session'.state \in {"READY", "FAULT"} /\ session.state # "NONE"
      BY <1>1, <2>4, RenewedSession
      DEF ResetService, ResumeService, SessionExists
    <3>2. lifecycle' = lifecycle
      BY <2>4 DEF ResetService, ResumeService, gates
    <3>3. QED
      BY <3>1, <3>2 DEF PlaceInv
  <2>5. QED
    BY <1>2, <2>1, <2>2, <2>3, <2>4 DEF Service
<1>3. CASE AcceptCommand \/ FallSilent
  <2>1. session'.state = session.state
    BY <1>1, <1>3 DEF AcceptCommand, FallSilent, Accept, Session
  <2>2. UNCHANGED gates
    BY <1>3 DEF AcceptCommand, FallSilent
  <2>3. QED
    BY <2>1, <2>2 DEF PlaceInv, gates
<1>4. CASE OnTick
  <2>1. session.state # "NONE" /\ session'.state # "NONE"
    BY <1>1, <1>4, StoppedSession, SteppedSession
    DEF OnTick, LoseLease, TickStops, TickFails, TickSteps, LeaseLost,
        Overdue, CanStep, Commandable, PlaceInv
  <2>2. lifecycle' = lifecycle
    BY <1>4 DEF OnTick, LoseLease, TickStops, TickFails, TickSteps, gates
  <2>3. QED
    BY <2>1, <2>2 DEF PlaceInv
<1>5. CASE UNCHANGED node
  BY <1>5 DEF node, PlaceInv
<1>6. RejectCommand \/ Heartbeat \/ LeaseRunsOut \/ ControllerStep
        \/ SupervisorDies \/ UNCHANGED vars => UNCHANGED node
  BY DEF RejectCommand, Heartbeat, LeaseRunsOut, ControllerStep,
         ControllerActivate, ControllerDeactivate, ControllerLosesLease,
         HearEpoch, HearSession, Publish, ControllerDies, SupervisorDies,
         vars, node
<1>7. QED
  BY <1>2, <1>3, <1>4, <1>5, <1>6 DEF Next, NodeStep

\* The fields of the supervisor's node.
NodeOf(l, a, s) == [lifecycle |-> l, armed |-> a, state |-> s]

\* A node of the supervisor's is told by its three fields.
ThreeFields(n) ==
  /\ DOMAIN n = {"lifecycle", "armed", "state"}
  /\ n = [field \in DOMAIN n |-> n[field]]

LEMMA ThreeFieldsTell ==
  ASSUME NEW n, ThreeFields(n)
  PROVE  n = NodeOf(n.lifecycle, n.armed, n.state)
<1> DEFINE r == NodeOf(n.lifecycle, n.armed, n.state)
<1>1. ThreeFields(r)
  BY DEF ThreeFields, NodeOf
<1>2. r.lifecycle = n.lifecycle /\ r.armed = n.armed /\ r.state = n.state
  BY DEF NodeOf
<1> HIDE DEF r
<1>3. \A field \in DOMAIN n : n[field] = r[field]
  BY <1>2 DEF ThreeFields
<1>4. n = r
  BY <1>1, <1>3 DEF ThreeFields
<1>5. QED
  BY <1>4 DEF r

\* What is left when some of the fields are replaced.
LEMMA ReplacedState ==
  ASSUME NEW n, ThreeFields(n), NEW s
  PROVE  [n EXCEPT !.state = s]
           = NodeOf(n.lifecycle, n.armed, s)
<1> DEFINE m == [n EXCEPT !.state = s]
<1>1. ThreeFields(m)
  BY DEF ThreeFields
<1>2. m.lifecycle = n.lifecycle /\ m.armed = n.armed /\ m.state = s
  BY DEF ThreeFields
<1> HIDE DEF m
<1>3. m = NodeOf(n.lifecycle, n.armed, s)
  BY <1>1, <1>2, ThreeFieldsTell, Zenon
<1>4. QED
  BY <1>3 DEF m

LEMMA ReplacedArming ==
  ASSUME NEW n, ThreeFields(n), NEW a
  PROVE  [n EXCEPT !.armed = a]
           = NodeOf(n.lifecycle, a, n.state)
<1> DEFINE m == [n EXCEPT !.armed = a]
<1>1. ThreeFields(m)
  BY DEF ThreeFields
<1>2. m.lifecycle = n.lifecycle /\ m.armed = a /\ m.state = n.state
  BY DEF ThreeFields
<1> HIDE DEF m
<1>3. m = NodeOf(n.lifecycle, a, n.state)
  BY <1>1, <1>2, ThreeFieldsTell, Zenon
<1>4. QED
  BY <1>3 DEF m

LEMMA ReplacedPlace ==
  ASSUME NEW n, ThreeFields(n), NEW l, NEW s
  PROVE  [n EXCEPT !.lifecycle = l, !.state = s]
           = NodeOf(l, n.armed, s)
<1> DEFINE m == [n EXCEPT !.lifecycle = l, !.state = s]
<1>1. ThreeFields(m)
  BY DEF ThreeFields
<1>2. m.lifecycle = l /\ m.armed = n.armed /\ m.state = s
  BY DEF ThreeFields
<1> HIDE DEF m
<1>3. m = NodeOf(l, n.armed, s)
  BY <1>1, <1>2, ThreeFieldsTell, Zenon
<1>4. QED
  BY <1>3 DEF m

LEMMA DisarmedInPlace ==
  ASSUME NEW n, ThreeFields(n), NEW s
  PROVE  [n EXCEPT !.armed = FALSE, !.state = s]
           = NodeOf(n.lifecycle, FALSE, s)
<1> DEFINE m == [n EXCEPT !.armed = FALSE, !.state = s]
<1>1. ThreeFields(m)
  BY DEF ThreeFields
<1>2. m.lifecycle = n.lifecycle /\ m.armed = FALSE /\ m.state = s
  BY DEF ThreeFields
<1> HIDE DEF m
<1>3. m = NodeOf(n.lifecycle, FALSE, s)
  BY <1>1, <1>2, ThreeFieldsTell, Zenon
<1>4. QED
  BY <1>3 DEF m

\* The states a deactivation and a disarming leave a session in.
PausedState(s) == IF s \in {"READY", "NORMAL"} THEN "PAUSED" ELSE s
StoppedState(s) == IF s = "NONE" THEN "NONE" ELSE "SAFE_STOP"

\* What each operation of the supervisor's node leaves of a node.
LEMMA Outcomes ==
  ASSUME NEW l, NEW a, NEW s, NEW n,
         n = NodeOf(l, a, s)
  PROVE  /\ l = "unconfigured"
              => NodeOf("inactive", a, "READY") \in Supervised!Configured(n)
         /\ l = "inactive" /\ s \in {"READY", "PAUSED"}
              => NodeOf("active", FALSE, "READY") \in Supervised!Activated(n)
         /\ l = "inactive" /\ s = "PAUSED"
              => NodeOf(l, a, "FAULT") \in Supervised!Activated(n)
         /\ l = "active"
              => NodeOf("inactive", FALSE, PausedState(s))
                   \in Supervised!Deactivated(n)
         /\ l = "active" /\ s = "READY"
              => NodeOf(l, TRUE, s) \in Supervised!Armed(n)
         /\ NodeOf(l, FALSE, StoppedState(s)) \in Supervised!Disarmed(n)
         /\ l = "active" /\ a /\ s \in {"READY", "NORMAL"}
              => NodeOf(l, a, "NORMAL") \in Supervised!Moved(n)
         /\ l = "active" /\ s \in {"READY", "NORMAL"}
              => NodeOf(l, a, "SAFE_STOP") \in Supervised!Failed(n)
         /\ l = "active" /\ a
              => NodeOf(l, a, "READY") \in Supervised!Reset(n)
         /\ l = "active" /\ a
              => NodeOf(l, a, "FAULT") \in Supervised!Reset(n)
         /\ NodeOf("unconfigured", FALSE, "NONE") \in Supervised!Gone(n)
         /\ NodeOf("finalized", FALSE, "NONE") \in Supervised!Gone(n)
<1>1. /\ ThreeFields(n)
      /\ n.lifecycle = l /\ n.armed = a /\ n.state = s
  BY DEF NodeOf, ThreeFields
<1>2. ASSUME l = "unconfigured"
      PROVE  NodeOf("inactive", a, "READY") \in Supervised!Configured(n)
  <2>1. [n EXCEPT !.lifecycle = "inactive", !.state = "READY"]
          = NodeOf("inactive", n.armed, "READY")
    BY <1>1, ReplacedPlace, Zenon
  <2>2. QED
    BY <1>1, <1>2, <2>1 DEF Supervised!Configured
<1>3. ASSUME l = "inactive" /\ s \in {"READY", "PAUSED"}
      PROVE  NodeOf("active", FALSE, "READY") \in Supervised!Activated(n)
  <2> DEFINE m == [n EXCEPT !.lifecycle = "active",
                            !.state = "READY",
                            !.armed = FALSE]
  <2>1. ThreeFields(m)
    BY <1>1 DEF ThreeFields
  <2>2. m.lifecycle = "active" /\ m.armed = FALSE /\ m.state = "READY"
    BY <1>1 DEF ThreeFields
  <2> HIDE DEF m
  <2>3. m = NodeOf("active", FALSE, "READY")
    BY <2>1, <2>2, ThreeFieldsTell, Zenon
  <2>4. QED
    BY <1>1, <1>3, <2>3 DEF m, Supervised!Activated
<1>4. ASSUME l = "inactive" /\ s = "PAUSED"
      PROVE  NodeOf(l, a, "FAULT") \in Supervised!Activated(n)
  <2>1. [n EXCEPT !.state = "FAULT"]
          = NodeOf(n.lifecycle, n.armed, "FAULT")
    BY <1>1, ReplacedState, Zenon
  <2>2. QED
    BY <1>1, <1>4, <2>1 DEF Supervised!Activated
<1>5. ASSUME l = "active"
      PROVE  NodeOf("inactive", FALSE, PausedState(s))
                   \in Supervised!Deactivated(n)
  <2> DEFINE m == [n EXCEPT !.lifecycle = "inactive",
                            !.armed = FALSE,
                            !.state = PausedState(n.state)]
  <2>1. ThreeFields(m)
    BY <1>1 DEF ThreeFields
  <2>2. /\ m.lifecycle = "inactive" /\ m.armed = FALSE
        /\ m.state = PausedState(n.state)
    BY <1>1 DEF ThreeFields
  <2> HIDE DEF m
  <2>3. m = NodeOf("inactive", FALSE, PausedState(n.state))
    BY <2>1, <2>2, ThreeFieldsTell, Zenon
  <2>4. QED
    BY <1>1, <1>5, <2>3 DEF m, Supervised!Deactivated, PausedState
<1>6. ASSUME l = "active" /\ s = "READY"
      PROVE  NodeOf(l, TRUE, s) \in Supervised!Armed(n)
  <2>1. [n EXCEPT !.armed = TRUE]
          = NodeOf(n.lifecycle, TRUE, n.state)
    BY <1>1, ReplacedArming, Zenon
  <2>2. QED
    BY <1>1, <1>6, <2>1 DEF Supervised!Armed
<1>7. NodeOf(l, FALSE, StoppedState(s)) \in Supervised!Disarmed(n)
  <2>1. [n EXCEPT !.armed = FALSE, !.state = StoppedState(n.state)]
          = NodeOf(n.lifecycle, FALSE, StoppedState(n.state))
    BY <1>1, DisarmedInPlace, Zenon
  <2>2. QED
    BY <1>1, <2>1 DEF Supervised!Disarmed, StoppedState
<1>8. ASSUME l = "active" /\ a /\ s \in {"READY", "NORMAL"}
      PROVE  NodeOf(l, a, "NORMAL") \in Supervised!Moved(n)
  <2>1. [n EXCEPT !.state = "NORMAL"]
          = NodeOf(n.lifecycle, n.armed, "NORMAL")
    BY <1>1, ReplacedState, Zenon
  <2>2. QED
    BY <1>1, <1>8, <2>1 DEF Supervised!Moved
<1>9. ASSUME l = "active" /\ s \in {"READY", "NORMAL"}
      PROVE  NodeOf(l, a, "SAFE_STOP") \in Supervised!Failed(n)
  <2>1. [n EXCEPT !.state = "SAFE_STOP"]
          = NodeOf(n.lifecycle, n.armed, "SAFE_STOP")
    BY <1>1, ReplacedState, Zenon
  <2>2. QED
    BY <1>1, <1>9, <2>1 DEF Supervised!Failed
<1>10. ASSUME l = "active" /\ a
      PROVE  NodeOf(l, a, "READY") \in Supervised!Reset(n)
  <2>1. [n EXCEPT !.state = "READY"]
          = NodeOf(n.lifecycle, n.armed, "READY")
    BY <1>1, ReplacedState, Zenon
  <2>2. QED
    BY <1>1, <1>10, <2>1 DEF Supervised!Reset
<1>11. ASSUME l = "active" /\ a
      PROVE  NodeOf(l, a, "FAULT") \in Supervised!Reset(n)
  <2>1. [n EXCEPT !.state = "FAULT"]
          = NodeOf(n.lifecycle, n.armed, "FAULT")
    BY <1>1, ReplacedState, Zenon
  <2>2. QED
    BY <1>1, <1>11, <2>1 DEF Supervised!Reset
<1>12. NodeOf("unconfigured", FALSE, "NONE") \in Supervised!Gone(n)
  <2> DEFINE m == [n EXCEPT !.lifecycle = "unconfigured",
                            !.armed = FALSE,
                            !.state = "NONE"]
  <2>1. ThreeFields(m)
    BY <1>1 DEF ThreeFields
  <2>2. m.lifecycle = "unconfigured" /\ m.armed = FALSE /\ m.state = "NONE"
    BY <1>1 DEF ThreeFields
  <2> HIDE DEF m
  <2>3. m = NodeOf("unconfigured", FALSE, "NONE")
    BY <2>1, <2>2, ThreeFieldsTell, Zenon
  <2>4. QED
    BY <1>1, <2>3 DEF m, Supervised!Gone
<1>13. NodeOf("finalized", FALSE, "NONE") \in Supervised!Gone(n)
  <2> DEFINE m == [n EXCEPT !.lifecycle = "finalized",
                            !.armed = FALSE,
                            !.state = "NONE"]
  <2>1. ThreeFields(m)
    BY <1>1 DEF ThreeFields
  <2>2. m.lifecycle = "finalized" /\ m.armed = FALSE /\ m.state = "NONE"
    BY <1>1 DEF ThreeFields
  <2> HIDE DEF m
  <2>3. m = NodeOf("finalized", FALSE, "NONE")
    BY <2>1, <2>2, ThreeFieldsTell, Zenon
  <2>4. QED
    BY <1>1, <2>3 DEF m, Supervised!Gone
<1>14. QED
  BY <1>2, <1>3, <1>4, <1>5, <1>6, <1>7, <1>8,
     <1>9, <1>10, <1>11, <1>12, <1>13, Zenon

\* A step of the node as the supervisor sees it.
Foreseen == Coarse' = Coarse \/ Supervised!NodeStep(Coarse, Coarse')

\* What the node is after a step decides whether the supervisor foresaw it.
LEMMA ForeseenOutcome ==
  ASSUME \/ NodeOf(lifecycle', armed', session'.state)
              = NodeOf(lifecycle, armed, session.state)
         \/ \E operation \in {Supervised!Configured(Coarse),
                              Supervised!Activated(Coarse),
                              Supervised!Deactivated(Coarse),
                              Supervised!Armed(Coarse),
                              Supervised!Disarmed(Coarse),
                              Supervised!Moved(Coarse),
                              Supervised!Failed(Coarse),
                              Supervised!Reset(Coarse),
                              Supervised!Gone(Coarse)} :
              NodeOf(lifecycle', armed', session'.state) \in operation
  PROVE  Foreseen
<1>1. /\ Coarse' = NodeOf(lifecycle', armed', session'.state)
      /\ Coarse = NodeOf(lifecycle, armed, session.state)
  BY Zenon DEF Coarse, NodeOf
<1> HIDE DEF Coarse
<1>2. CASE NodeOf(lifecycle', armed', session'.state)
             = NodeOf(lifecycle, armed, session.state)
  BY <1>1, <1>2, Zenon DEF Foreseen
<1>3. CASE ~(NodeOf(lifecycle', armed', session'.state)
               = NodeOf(lifecycle, armed, session.state))
  <2>1. Supervised!NodeStep(Coarse, Coarse')
    BY <1>1, <1>3, Zenon DEF Supervised!NodeStep
  <2>2. QED
    BY <2>1, Zenon DEF Foreseen
<1>4. QED
  BY <1>2, <1>3, Zenon

\* The operations of the node that the supervisor asks for, one by one.
LEMMA ForeseenOperations ==
  /\ lifecycle = "unconfigured" /\ lifecycle' = "inactive"
       /\ armed' = armed /\ session'.state = "READY" => Foreseen
  /\ lifecycle = "inactive" /\ session.state \in {"READY", "PAUSED"}
       /\ lifecycle' = "active" /\ armed' = FALSE
       /\ session'.state = "READY" => Foreseen
  /\ lifecycle = "inactive" /\ session.state = "PAUSED"
       /\ lifecycle' = lifecycle /\ armed' = armed
       /\ session'.state = "FAULT" => Foreseen
  /\ lifecycle = "active" /\ lifecycle' = "inactive" /\ armed' = FALSE
       /\ session'.state = PausedState(session.state) => Foreseen
  /\ lifecycle = "active" /\ session.state = "READY"
       /\ lifecycle' = lifecycle /\ armed' = TRUE
       /\ session'.state = session.state => Foreseen
  /\ lifecycle' = lifecycle /\ armed' = FALSE
       /\ session'.state = StoppedState(session.state) => Foreseen
  /\ lifecycle = "active" /\ armed /\ session.state \in {"READY", "NORMAL"}
       /\ lifecycle' = lifecycle /\ armed' = armed
       /\ session'.state = "NORMAL" => Foreseen
  /\ lifecycle = "active" /\ session.state \in {"READY", "NORMAL"}
       /\ lifecycle' = lifecycle /\ armed' = armed
       /\ session'.state = "SAFE_STOP" => Foreseen
  /\ lifecycle = "active" /\ armed
       /\ lifecycle' = lifecycle /\ armed' = armed
       /\ session'.state \in {"READY", "FAULT"} => Foreseen
  /\ lifecycle' \in {"unconfigured", "finalized"} /\ armed' = FALSE
       /\ session'.state = "NONE" => Foreseen
  /\ lifecycle' = lifecycle /\ armed' = armed
       /\ session'.state = session.state => Foreseen
<1>1. Coarse = NodeOf(lifecycle, armed, session.state)
  BY Zenon DEF Coarse, NodeOf
<1> HIDE DEF Coarse
<1>2. QED
  BY <1>1, Outcomes, ForeseenOutcome

LEMMA TransitionForeseen ==
  ASSUME Managed, IInv, PlaceInv, Transition
  PROVE  Foreseen
<1>1. session \in Session
  BY DEF IInv, TypeOK
<1>2. CASE Configure
  <2>1. session' = FreshSession(next_epoch)
    BY <1>2 DEF Configure, PlaceInv
  <2>2. /\ lifecycle = "unconfigured" /\ lifecycle' = "inactive"
        /\ armed' = armed /\ session'.state = "READY"
    BY <1>2, <2>1 DEF Configure, FreshSession
  <2>3. QED
    BY <2>2, ForeseenOperations
<1>3. ASSUME NEW made \in BOOLEAN, Activate(made)
      PROVE  Foreseen
  <2>1. lifecycle = "inactive"
    BY <1>3 DEF Activate
  <2>2. CASE session.state = "PAUSED" /\ ~made
    <3>1. session'.state = "FAULT"
      BY <1>1, <1>3, <2>2, RenewedSession DEF Activate
    <3>2. lifecycle' = lifecycle /\ armed' = armed
      BY <1>3, <2>2, <3>1 DEF Activate
    <3>3. QED
      BY <2>1, <2>2, <3>1, <3>2, ForeseenOperations
  <2>3. CASE \/ session.state = "PAUSED" /\ made
             \/ session.state = "READY"
    <3>1. session'.state = "READY"
      BY <1>1, <1>3, <2>3, RenewedSession DEF Activate
    <3>2. lifecycle' = "active" /\ armed' = FALSE
      BY <1>3, <2>3, <3>1 DEF Activate
    <3>3. QED
      BY <2>1, <2>3, <3>1, <3>2, ForeseenOperations
  <2>4. CASE session.state \notin {"PAUSED", "READY"}
    <3>1. UNCHANGED <<session, lifecycle, armed>>
      BY <1>3, <2>4 DEF Activate
    <3>2. QED
      BY <3>1, ForeseenOperations
  <2>5. QED
    BY <2>2, <2>3, <2>4
<1>4. CASE Deactivate
  <2>1. session'.state = PausedState(session.state)
    BY <1>1, <1>4, PausedSession DEF Deactivate, Commandable, PausedState
  <2>2. QED
    BY <1>4, <2>1, ForeseenOperations DEF Deactivate
<1>5. CASE Cleanup \/ Shutdown
  <2>1. session'.state = "NONE"
    BY <1>1, <1>5, DroppedSession DEF Cleanup, Shutdown
  <2>2. lifecycle' \in {"unconfigured", "finalized"} /\ armed' = FALSE
    BY <1>5 DEF Cleanup, Shutdown
  <2>3. QED
    BY <2>1, <2>2, ForeseenOperations
<1>6. CASE Restart
  <2>1. lifecycle' = "unconfigured" /\ session'.state = "NONE"
    BY <1>6 DEF Restart, Boot, NoSession, FreshSession
  <2>2. armed' = FALSE
    BY <1>6 DEF Restart, Boot
  <2>3. QED
    BY <2>1, <2>2, ForeseenOperations
<1>7. QED
  BY <1>2, <1>3, <1>4, <1>5, <1>6 DEF Transition

LEMMA ServiceForeseen ==
  ASSUME Managed, IInv, Service
  PROVE  Foreseen
<1>1. session \in Session
  BY DEF IInv, TypeOK
<1>2. lifecycle_active => lifecycle = "active"
  BY DEF IInv, NodeInv, ActiveInv
<1>3. CASE StopService
  <2>1. session'.state = StoppedState(session.state)
    BY <1>1, <1>3, StoppedSession DEF StopService, SessionExists, StoppedState
  <2>2. QED
    BY <1>3, <2>1, ForeseenOperations DEF StopService
<1>4. CASE Arm
  BY <1>2, <1>4, ForeseenOperations DEF Arm
<1>5. CASE PauseService
  BY <1>5 DEF PauseService
<1>6. ASSUME NEW made \in BOOLEAN, ResetService(made)
      PROVE  Foreseen
  <2>1. session'.state \in {"READY", "FAULT"}
    BY <1>1, <1>6, RenewedSession DEF ResetService
  <2>2. lifecycle = "active" /\ armed
    BY <1>2, <1>6 DEF ResetService
  <2>3. lifecycle' = lifecycle /\ armed' = armed
    BY <1>6 DEF ResetService, gates
  <2>4. QED
    BY <2>1, <2>2, <2>3, ForeseenOperations
<1>7. ASSUME NEW made \in BOOLEAN, ResumeService(made)
      PROVE  FALSE
  BY <1>7 DEF ResumeService
<1>8. QED
  BY <1>3, <1>4, <1>5, <1>6, <1>7 DEF Service

LEMMA OtherForeseen ==
  ASSUME Managed, IInv, PlaceInv, [Next]_vars, ~Transition, ~Service
  PROVE  Foreseen
<1>1. session \in Session
  BY DEF IInv, TypeOK
<1>2. /\ lifecycle_active => lifecycle = "active"
      /\ session.target # NoTarget => armed
  BY DEF IInv, NodeInv, ActiveInv, TargetInv
<1>3. CASE AcceptCommand \/ FallSilent
  <2>1. session'.state = session.state
    BY <1>1, <1>3 DEF AcceptCommand, FallSilent, Accept, Session
  <2>2. lifecycle' = lifecycle /\ armed' = armed
    BY <1>3 DEF AcceptCommand, FallSilent, gates
  <2>3. QED
    BY <2>1, <2>2, ForeseenOperations
<1>4. CASE LoseLease
  <2>1. session.state # "NONE"
    BY <1>4 DEF LoseLease, LeaseLost, PlaceInv
  <2>2. session'.state = StoppedState(session.state)
    BY <1>1, <1>4, <2>1, StoppedSession DEF LoseLease, StoppedState
  <2>3. QED
    BY <1>4, <2>2, ForeseenOperations DEF LoseLease
<1>5. CASE TickStops \/ TickFails
  <2>1. session.state \in {"READY", "NORMAL"} /\ lifecycle = "active"
    BY <1>2, <1>5 DEF TickStops, TickFails, Overdue, CanStep, Commandable
  <2>2. session'.state = "SAFE_STOP"
    BY <1>1, <1>5, StoppedSession DEF TickStops, TickFails
  <2>3. lifecycle' = lifecycle /\ armed' = armed
    BY <1>5 DEF TickStops, TickFails, gates
  <2>4. QED
    BY <2>1, <2>2, <2>3, ForeseenOperations
<1>6. CASE TickSteps
  <2>1. session.state \in {"READY", "NORMAL"} /\ lifecycle = "active"
    BY <1>2, <1>6 DEF TickSteps, CanStep, Commandable
  <2>2. armed
    BY <1>2, <1>6 DEF TickSteps, CanStep
  <2>3. session'.state = "NORMAL"
    BY <1>1, <1>6, SteppedSession DEF TickSteps
  <2>4. lifecycle' = lifecycle /\ armed' = armed
    BY <1>6 DEF TickSteps, gates
  <2>5. QED
    BY <2>1, <2>2, <2>3, <2>4, ForeseenOperations
<1>7. CASE UNCHANGED node
  BY <1>7, ForeseenOperations DEF node
<1>8. RejectCommand \/ Heartbeat \/ LeaseRunsOut \/ ControllerStep
        \/ SupervisorDies \/ UNCHANGED vars => UNCHANGED node
  BY DEF RejectCommand, Heartbeat, LeaseRunsOut, ControllerStep,
         ControllerActivate, ControllerDeactivate, ControllerLosesLease,
         HearEpoch, HearSession, Publish, ControllerDies, SupervisorDies,
         vars, node
<1>9. QED
  BY <1>3, <1>4, <1>5, <1>6, <1>7, <1>8 DEF Next, NodeStep, OnTick

\* Whatever is asked of a managed node, and whatever it suffers, what changes
\* its lifecycle, its arming or its session's state is an operation the
\* supervisor knows, with an outcome the supervisor counts on (ManagedNode).
THEOREM SupervisorsNode ==
  ASSUME Managed
  PROVE  Spec => IsTheManagedNode
<1>1. Init => PlaceInv
  BY InitPlace
<1>2. IInv /\ PlaceInv /\ [Next]_vars => PlaceInv'
  BY TransitionPlace, OtherPlace
<1>3. IInv /\ PlaceInv /\ [Next]_vars
        => [Coarse' # Coarse => Supervised!NodeStep(Coarse, Coarse')]_vars
  <2> SUFFICES ASSUME IInv, PlaceInv, [Next]_vars
               PROVE  Coarse' # Coarse => Supervised!NodeStep(Coarse, Coarse')
    OBVIOUS
  <2>1. Foreseen
    BY TransitionForeseen, ServiceForeseen, OtherForeseen
  <2>2. QED
    BY <2>1 DEF Foreseen
<1>4. QED
  BY <1>1, <1>2, <1>3, Invariance, PTL DEF Spec, IsTheManagedNode

-----------------------------------------------------------------------------
(* What is over is over *)

\* The supervisor is dead, its lease has run out, and the node has noticed.
SupervisorLost == ~supervisor_up /\ ~supervisor_alive /\ ~armed

\* The controller is dead, and nothing of what it sent is left.
ControllerLost ==
  ~controller.up /\ wire = << >> /\ session.target = NoTarget

\* A moving plant follows a target.
MovingInv == session.state = "NORMAL" => session.target # NoTarget

\* A session at its start, and none at all, have no target and move nothing.
LEMMA BegunSession ==
  ASSUME Configure \/ Restart
  PROVE  \/ session' = session
         \/ session'.state # "NORMAL" /\ session'.target = NoTarget
<1>1. \A e : /\ FreshSession(e).state = "READY"
             /\ FreshSession(e).target = NoTarget
  BY DEF FreshSession
<1>2. NoSession.state = "NONE" /\ NoSession.target = NoTarget
  BY DEF NoSession, FreshSession
<1>3. CASE Configure
  <2>1. session' \in {session, FreshSession(next_epoch), FreshSession(0)}
    BY <1>3 DEF Configure
  <2>2. QED
    BY <1>1, <2>1
<1>4. CASE Restart
  <2>1. session' \in {NoSession, FreshSession(0)}
    BY <1>4 DEF Restart, Boot
  <2>2. QED
    BY <1>1, <1>2, <2>1
<1>5. QED
  BY <1>3, <1>4

LEMMA InitMoving == Init => MovingInv
BY DEF Init, NoSession, FreshSession, MovingInv

LEMMA NextMoving ==
  ASSUME IInv, MovingInv, [Next]_vars
  PROVE  MovingInv'
<1>1. session \in Session
  BY DEF IInv, TypeOK
<1>2. CASE Configure \/ Restart
  BY <1>2, BegunSession DEF MovingInv
<1>3. ASSUME NEW made \in BOOLEAN,
             Activate(made) \/ ResetService(made) \/ ResumeService(made)
      PROVE  MovingInv'
  <2>1. session' \in {session, Renewed(session, made)}
    BY <1>3 DEF Activate, ResetService, ResumeService
  <2>2. Renewed(session, made).state # "NORMAL"
    BY <1>1, RenewedSession
  <2>3. QED
    BY <2>1, <2>2 DEF MovingInv
<1>4. CASE \/ Deactivate \/ Cleanup \/ Shutdown \/ StopService \/ PauseService
           \/ LoseLease \/ TickStops \/ TickFails
  <2>1. \/ session' = session
        \/ session'.state \in {"PAUSED", "NONE", "SAFE_STOP"}
    BY <1>1, <1>4, PausedSession, DroppedSession, StoppedSession
    DEF Deactivate, Cleanup, Shutdown, StopService, PauseService, LoseLease,
        TickStops, TickFails
  <2>2. QED
    BY <2>1 DEF MovingInv
<1>5. CASE AcceptCommand
  <2>1. Head(wire) \in Command
    BY <1>5, TypeParts, TakenQueue DEF AcceptCommand, OutsideOK, IInv
  <2>2. session'.target # NoTarget
    BY <1>1, <1>5, <2>1, AcceptedSession DEF AcceptCommand
  <2>3. QED
    BY <2>2 DEF MovingInv
<1>6. CASE TickSteps
  BY <1>1, <1>6, SteppedSession DEF TickSteps, MovingInv
<1>7. CASE FallSilent
  BY <1>1, <1>7 DEF FallSilent, MovingInv, Session
<1>8. CASE UNCHANGED session
  BY <1>8 DEF MovingInv
<1>9. Arm \/ RejectCommand \/ Heartbeat \/ LeaseRunsOut \/ ControllerStep
        \/ SupervisorDies \/ UNCHANGED vars => UNCHANGED session
  BY DEF Arm, RejectCommand, Heartbeat, LeaseRunsOut, ControllerStep,
         ControllerActivate, ControllerDeactivate, ControllerLosesLease,
         HearEpoch, HearSession, Publish, ControllerDies, SupervisorDies,
         vars, node
<1>10. QED
  BY <1>2, <1>3, <1>4, <1>5, <1>6, <1>7, <1>8, <1>9
  DEF Next, NodeStep, Transition, Service, OnTick

\* Nothing arms a managed node once its supervisor is lost, not even the death
\* of its process and the start of another, and its plant stands still: what
\* DeadSupervisorDisarms waits for is never undone (on_arm, on_tick).
THEOREM DisarmedForGood ==
  ASSUME Managed
  PROVE  Spec => /\ [][SupervisorLost => SupervisorLost']_vars
                 /\ [](SupervisorLost => session.state # "NORMAL")
<1>1. Next /\ SupervisorLost => SupervisorLost'
  <2> SUFFICES ASSUME Next, SupervisorLost
               PROVE  SupervisorLost'
    OBVIOUS
  <2>1. ~supervisor_up'
    BY DEF SupervisorLost, Next, NodeStep, Transition, Service, OnTick,
       Configure, Activate, Deactivate, Cleanup, Shutdown, Restart,
       StopService, Arm, PauseService, ResetService, ResumeService,
       AcceptCommand, RejectCommand, FallSilent, LoseLease, TickStops,
       TickFails, TickSteps, Heartbeat, LeaseRunsOut, ControllerStep,
       ControllerActivate, ControllerDeactivate, ControllerLosesLease,
       HearEpoch, HearSession, Publish, ControllerDies, SupervisorDies
  <2>2. ~supervisor_alive'
    BY DEF SupervisorLost, Next, NodeStep, Transition, Service, OnTick,
       Configure, Activate, Deactivate, Cleanup, Shutdown, Restart,
       StopService, Arm, PauseService, ResetService, ResumeService,
       AcceptCommand, RejectCommand, FallSilent, LoseLease, TickStops,
       TickFails, TickSteps, Heartbeat, LeaseRunsOut, ControllerStep,
       ControllerActivate, ControllerDeactivate, ControllerLosesLease,
       HearEpoch, HearSession, Publish, ControllerDies, SupervisorDies
  <2>3. ~armed'
    BY DEF SupervisorLost, Next, NodeStep, Transition, Service, OnTick,
       Configure, Activate, Deactivate, Cleanup, Shutdown, Restart, Boot,
       StopService, Arm, PauseService, ResetService, ResumeService,
       AcceptCommand, RejectCommand, FallSilent, LoseLease, TickStops,
       TickFails, TickSteps, Heartbeat, LeaseRunsOut, ControllerStep,
       ControllerActivate, ControllerDeactivate, ControllerLosesLease,
       HearEpoch, HearSession, Publish, ControllerDies, SupervisorDies,
       gates, node
  <2>4. QED
    BY <2>1, <2>2, <2>3 DEF SupervisorLost
<1>2. IInv /\ MovingInv => (SupervisorLost => session.state # "NORMAL")
  BY DEF IInv, NodeInv, TargetInv, MovingInv, SupervisorLost
<1>3. IInv /\ MovingInv /\ [Next]_vars => MovingInv'
  BY NextMoving
<1>4. [Next]_vars => [SupervisorLost => SupervisorLost']_vars
  BY <1>1
<1>5. QED
  BY InitMoving, <1>2, <1>3, <1>4, Invariance, PTL DEF Spec

\* With the controller dead and its queue empty no step gives the session a
\* target again: what DeadControllerStops waits for is never undone (reset,
\* pause, restart and activation all begin without a target).
THEOREM AbandonedForGood ==
  Spec => /\ [][ControllerLost => ControllerLost']_vars
          /\ [](ControllerLost => session.state # "NORMAL")
<1>1. ASSUME IInv, Next, ControllerLost
      PROVE  ControllerLost'
  <2> USE <1>1
  <2>1. session \in Session
    BY DEF IInv, TypeOK
  <2>2. ~AcceptCommand /\ ~RejectCommand /\ ~TickSteps
    BY DEF ControllerLost, AcceptCommand, RejectCommand, TickSteps, CanStep
  <2>3. ~controller'.up
    BY <2>2 DEF ControllerLost, Next, NodeStep, Transition, Service, OnTick,
       Configure, Activate, Deactivate, Cleanup, Shutdown, Restart,
       StopService, Arm, PauseService, ResetService, ResumeService,
       FallSilent, LoseLease, TickStops, TickFails, Heartbeat, LeaseRunsOut,
       ControllerStep, ControllerActivate, ControllerDeactivate,
       ControllerLosesLease, HearEpoch, HearSession, Publish, ControllerDies,
       SupervisorDies
  <2>4. Redate => wire' = << >>
    BY DEF ControllerLost, Redate
  <2>5. wire' = << >>
    BY <2>2, <2>4 DEF ControllerLost, Next, NodeStep, Transition, Service,
       OnTick, Configure, Activate, Deactivate, Cleanup, Shutdown, Restart,
       StopService, Arm, PauseService, ResetService, ResumeService,
       FallSilent, LoseLease, TickStops, TickFails, Heartbeat, LeaseRunsOut,
       ControllerStep, ControllerActivate, ControllerDeactivate,
       ControllerLosesLease, HearEpoch, HearSession, Publish, ControllerDies,
       SupervisorDies
  <2>6. session'.target = NoTarget
    <3>1. CASE Configure \/ Restart
      BY <3>1, BegunSession DEF ControllerLost
    <3>2. ASSUME NEW made \in BOOLEAN,
                 Activate(made) \/ ResetService(made) \/ ResumeService(made)
          PROVE  session'.target = NoTarget
      <4>1. session' \in {session, Renewed(session, made)}
        BY <3>2 DEF Activate, ResetService, ResumeService
      <4>2. QED
        BY <2>1, <4>1, RenewedSession DEF ControllerLost
    <3>3. CASE \/ Deactivate \/ Cleanup \/ Shutdown
               \/ StopService \/ PauseService
               \/ LoseLease \/ TickStops \/ TickFails
      BY <2>1, <3>3, PausedSession, DroppedSession, StoppedSession
      DEF ControllerLost, Deactivate, Cleanup, Shutdown, StopService,
          PauseService, LoseLease, TickStops, TickFails
    <3>4. CASE UNCHANGED session
      BY <3>4 DEF ControllerLost
    <3>5. ~FallSilent
      BY DEF ControllerLost, FallSilent
    <3>6. Arm \/ Heartbeat \/ LeaseRunsOut \/ ControllerStep \/ SupervisorDies
            => UNCHANGED session
      BY DEF Arm, Heartbeat, LeaseRunsOut, ControllerStep,
             ControllerActivate, ControllerDeactivate, ControllerLosesLease,
             HearEpoch, HearSession, Publish, ControllerDies, SupervisorDies,
             node
    <3>7. QED
      BY <2>2, <3>1, <3>2, <3>3, <3>4, <3>5, <3>6
      DEF Next, NodeStep, Transition, Service, OnTick
  <2>7. QED
    BY <2>3, <2>5, <2>6 DEF ControllerLost
<1>2. MovingInv => (ControllerLost => session.state # "NORMAL")
  BY DEF MovingInv, ControllerLost
<1>3. IInv /\ MovingInv /\ [Next]_vars => MovingInv'
  BY NextMoving
<1>4. IInv /\ [Next]_vars => [ControllerLost => ControllerLost']_vars
  BY <1>1
<1>5. QED
  BY InitMoving, <1>2, <1>3, <1>4, Invariance, PTL DEF Spec
=============================================================================
