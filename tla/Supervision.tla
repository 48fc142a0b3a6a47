---------------------------- MODULE Supervision ----------------------------
(***************************************************************************)
(* scripts/s6_ros2_supervisor.py with the two processes it starts: the     *)
(* managed simulation node (ManagedNode) and the controller.  The          *)
(* supervisor is one thread: it walks through a plan of requests and waits *)
(* (startup, pause, resume, latch), and its callbacks run while it waits.  *)
(* A request it has given up on is still served, late.                     *)
(***************************************************************************)
EXTENDS ManagedNode, Sequences, Naturals

CONSTANT
  Faults                \* do processes die, leases and waits run out?

ASSUME SupervisionAssumption == Faults \in BOOLEAN

VARIABLES
  mode, reason, pending,  \* of the supervisor node
  sim_status,           \* the node's state as last heard
  plan,                 \* what main() has still to do, in order
  answer,               \* the response to the request it waits for
  main,                 \* "on", or "stopping" by signal, or no more
  requests,             \* sent and not served
  node, node_up,        \* the simulation node, and its process
  controller,           \* the controller, and its process
  wire                  \* commands of the epoch in force on their way

supervisor == <<mode, reason, pending, plan, main>>
children == <<node, node_up, controller, wire>>
vars == <<supervisor, sim_status, answer, requests, children>>

SimRequest ==
  {"sim_configure", "sim_activate", "sim_deactivate", "sim_arm", "sim_stop"}
ControllerRequest ==
  {"controller_configure", "controller_activate", "controller_deactivate"}
Request == SimRequest \cup ControllerRequest
Waits == {"hear", "READY", "PAUSED"}
Kills == {"stop_controller", "stop_sim"}
Step == Request \cup Waits \cup Kills

\* Mutant of PausePlan: the simulation is left to its own watchdog.
PausePlanController == <<"controller_deactivate">>

PausePlan == <<"controller_deactivate", "sim_deactivate", "PAUSED">>
ResumePlan == <<"sim_activate", "READY", "sim_arm", "controller_activate">>
BootPlan == <<"hear", "sim_configure", "controller_configure">> \o ResumePlan

\* Mutant of LatchPlan: the node is asked to stop, and that is all.
LatchPlanAsks == <<"sim_stop">>

LatchPlan == <<"stop_controller", "sim_stop">>
ExitPlan == <<"stop_controller", "stop_sim">>

Init ==
  /\ mode = "BOOTING" /\ reason = "" /\ pending = "none"
  /\ sim_status = "unheard"
  /\ plan = BootPlan
  /\ answer = "none"
  /\ main = "on"
  /\ requests = {}
  /\ node = NewNode /\ node_up = TRUE
  /\ controller = [up |-> TRUE, lifecycle |-> "unconfigured",
                   active |-> FALSE]
  /\ wire = FALSE

-----------------------------------------------------------------------------
(* The supervisor: main() *)

Running == main \in {"on", "stopping"}
Walking == Running /\ plan # << >>
At(S) == Walking /\ Head(plan) \in S
ChildExited == ~node_up \/ ~controller.up

\* latch(), up to what it waits for.
Latch(why) ==
  /\ mode # "LATCHED"
  /\ mode' = "LATCHED"
  /\ reason' = why
  /\ pending' = "none"
  /\ plan' = LatchPlan
  /\ answer' = "none"
  /\ UNCHANGED <<sim_status, main, requests, children>>

\* call(): the request is sent once the service is there.
Issue ==
  /\ At(Request) /\ Head(plan) \notin requests /\ answer = "none"
  /\ main = "on"
  /\ requests' = requests \cup {Head(plan)}
  /\ UNCHANGED <<supervisor, sim_status, answer, children>>

\* The first step is done; with the last one the mode changes.
Passed ==
  /\ plan' = Tail(plan)
  /\ answer' = "none"
  /\ mode' = IF mode = "LATCHED" \/ Len(plan) > 1 THEN mode
             ELSE IF Head(plan) = "controller_activate" THEN "ACTIVE"
             ELSE "PAUSED"
  /\ UNCHANGED <<reason, pending, main, sim_status, requests, children>>

Proceed ==
  /\ Walking
  /\ \/ answer = "ok"
     \/ Head(plan) = "hear" /\ sim_status # "unheard"
     \/ Head(plan) = sim_status
  /\ Passed

\* Mutant of GiveUp: a transition that fails is logged and left there.
GiveUpLogged ==
  /\ Walking /\ mode # "LATCHED" /\ ~At(Kills)
  /\ Faults \/ ChildExited \/ answer = "refused" \/ main = "stopping"
  /\ plan' = << >>
  /\ answer' = "none"
  /\ UNCHANGED <<mode, reason, pending, main, sim_status, requests, children>>

\* A wait fails: no answer in time, a child that exited, a refusal, a signal.
GiveUp ==
  /\ Walking /\ mode # "LATCHED" /\ ~At(Kills)
  /\ Faults \/ ChildExited \/ answer = "refused" \/ main = "stopping"
  /\ Latch("failure")

\* In latch() the answer to sim_stop is not insisted on, and not asked for
\* when there is nobody to ask.
Unconfirmed ==
  /\ At({"sim_stop"}) /\ mode = "LATCHED"
  /\ Faults \/ ~node_up \/ main = "stopping"
  /\ Passed

\* stop_process(): SIGTERM, and SIGKILL when that is not enough.
Kill ==
  /\ At(Kills)
  /\ IF Head(plan) = "stop_controller"
       THEN controller' = [controller EXCEPT !.up = FALSE]
            /\ UNCHANGED node_up
       ELSE node_up' = FALSE /\ UNCHANGED controller
  /\ plan' = Tail(plan)
  /\ main' = IF Head(plan) = "stop_sim" THEN "over" ELSE main
  /\ UNCHANGED <<mode, reason, pending, sim_status, answer, requests, node,
                 wire>>

\* One round of the main loop, which asks in this order.
Looping == main = "on" /\ plan = << >> /\ mode # "LATCHED"
Faulty == sim_status \in {"SAFE_STOP", "FAULT"}

\* A child exited, or has not been heard of for heartbeat_timeout.
LatchOnChild == Looping /\ (ChildExited \/ Faults) /\ Latch("child")
LatchOnFault == Looping /\ ~ChildExited /\ Faulty /\ Latch("fault")
LatchOnStop ==
  /\ Looping /\ ~ChildExited /\ ~Faulty /\ pending = "stop"
  /\ Latch("operator_stop")

Planned(request) == IF request = "pause" THEN PausePlan ELSE ResumePlan

Begin ==
  /\ Looping /\ ~ChildExited /\ ~Faulty /\ pending \in {"pause", "resume"}
  /\ plan' = Planned(pending)
  /\ pending' = "none"
  /\ UNCHANGED <<mode, reason, main, sim_status, answer, requests, children>>

\* The loop is left on a signal, and both children are stopped.
Finish ==
  /\ main = "stopping" /\ plan = << >>
  /\ plan' = ExitPlan
  /\ UNCHANGED <<mode, reason, pending, main, sim_status, answer, requests,
                 children>>

Signal ==
  /\ main = "on"
  /\ main' = "stopping"
  /\ UNCHANGED <<mode, reason, pending, plan, sim_status, answer, requests,
                 children>>

\* Its callbacks run only in pump(), not while it waits for a process.
Pumping == main = "on" /\ ~At(Kills)

\* Mutant of OnSimStatus: the lifecycle is taken for the session's state.
OnSimStatusLifecycle ==
  /\ Pumping /\ node_up
  /\ sim_status' = node.lifecycle
  /\ UNCHANGED <<supervisor, answer, requests, children>>

OnSimStatus ==
  /\ Pumping /\ node_up
  /\ sim_status' = node.state
  /\ UNCHANGED <<supervisor, answer, requests, children>>

\* A request refused changes nothing.
OnPause ==
  /\ Pumping /\ pending = "none"
  /\ \/ mode = "ACTIVE" /\ pending' = "pause"
     \/ mode = "PAUSED" /\ pending' = "resume"
  /\ UNCHANGED <<mode, reason, plan, main, sim_status, answer, requests,
                 children>>

OnStop ==
  /\ Pumping /\ mode # "LATCHED"
  /\ pending' = "stop"
  /\ UNCHANGED <<mode, reason, plan, main, sim_status, answer, requests,
                 children>>

-----------------------------------------------------------------------------
(* The children *)

\* The response reaches the supervisor only while it waits for it.
Respond(r, success) ==
  /\ requests' = requests \ {r}
  /\ answer' = IF Walking /\ Head(plan) = r
                 THEN IF success THEN "ok" ELSE "refused"
                 ELSE answer

Outcomes(r) ==
  LET all == CASE r = "sim_configure"  -> Configured(node)
               [] r = "sim_activate"   -> Activated(node)
               [] r = "sim_deactivate" -> Deactivated(node)
               [] r = "sim_arm"        -> Armed(node)
               [] r = "sim_stop"       -> Disarmed(node)
  IN {n \in all : Faults \/ n.state # "FAULT"}

\* A session made anew has a new epoch: what was on its way is worth nothing.
Serve(r) ==
  /\ node_up /\ r \in requests
  /\ \/ \E n \in Outcomes(r) :
          /\ node' = n
          /\ Respond(r, r = "sim_activate" => n.lifecycle = "active")
     \/ /\ Outcomes(r) = {} \/ (Faults /\ r \in {"sim_configure", "sim_arm"})
        /\ Respond(r, FALSE)
        /\ UNCHANGED node
  /\ wire' = (wire /\ r # "sim_activate")
  /\ UNCHANGED <<supervisor, sim_status, node_up, controller>>

\* The controller activates only within its lease on the supervisor.
ControllerServes(r) ==
  LET from == CASE r = "controller_configure" -> "unconfigured"
                [] r = "controller_activate" -> "inactive"
                [] r = "controller_deactivate" -> "active"
      to == IF r = "controller_activate" THEN "active" ELSE "inactive"
  IN /\ controller.up /\ r \in requests
     /\ \/ /\ controller.lifecycle = from
           /\ controller' = [controller EXCEPT !.lifecycle = to,
                                               !.active = to = "active"]
           /\ Respond(r, TRUE)
        \/ /\ \/ controller.lifecycle # from
              \/ Faults /\ r = "controller_activate"
           /\ Respond(r, FALSE)
           /\ UNCHANGED controller
     /\ UNCHANGED <<supervisor, sim_status, node, node_up, wire>>

\* The controller has heard session and epoch, and publishes a command.
Publish ==
  /\ controller.up /\ controller.active
  /\ node.state \in {"READY", "NORMAL"}
  /\ wire' = TRUE
  /\ UNCHANGED <<supervisor, sim_status, answer, requests, node, node_up,
                 controller>>

\* The command arrives, and moves the hand if the node admits it.
Deliver ==
  /\ node_up /\ wire
  /\ wire' = FALSE
  /\ IF Moved(node) = {} THEN UNCHANGED node ELSE node' \in Moved(node)
  /\ UNCHANGED <<supervisor, sim_status, answer, requests, node_up,
                 controller>>

NodeBecomes(S) ==
  /\ node_up
  /\ node' \in S
  /\ UNCHANGED <<supervisor, sim_status, answer, requests, node_up,
                 controller>>

\* A watchdog, the TTL or the bridge.
Fail == Faults /\ NodeBecomes(Failed(node)) /\ UNCHANGED wire

\* Nobody has renewed the node's lease, or the controller's.
LoseLease ==
  /\ Faults /\ node.armed
  /\ NodeBecomes(Disarmed(node))
  /\ UNCHANGED wire
ControllerLosesLease ==
  /\ Faults /\ controller.up /\ controller.active
  /\ controller' = [controller EXCEPT !.active = FALSE]
  /\ UNCHANGED <<supervisor, sim_status, answer, requests, node, node_up, wire>>

\* Anybody may ask the node for a reset.
AskReset ==
  /\ NodeBecomes({n \in Reset(node) : Faults \/ n.state # "FAULT"})
  /\ wire' = FALSE

Die ==
  /\ Faults
  /\ \/ node_up /\ node_up' = FALSE /\ UNCHANGED <<controller, main>>
     \/ /\ controller.up
        /\ controller' = [controller EXCEPT !.up = FALSE]
        /\ UNCHANGED <<node_up, main>>
     \/ Running /\ main' = "killed" /\ UNCHANGED <<node_up, controller>>
  /\ UNCHANGED <<mode, reason, pending, plan, sim_status, answer, requests,
                 node, wire>>

-----------------------------------------------------------------------------
Supervise ==
  \/ Issue \/ Proceed \/ GiveUp \/ Unconfirmed \/ Kill
  \/ LatchOnChild \/ LatchOnFault \/ LatchOnStop \/ Begin \/ Finish

Callback == OnSimStatus \/ OnPause \/ OnStop

Child ==
  \/ \E r \in SimRequest : Serve(r)
  \/ \E r \in ControllerRequest : ControllerServes(r)
  \/ Publish \/ Deliver \/ Fail \/ LoseLease \/ ControllerLosesLease
  \/ AskReset \/ Die

Next == Supervise \/ Callback \/ Signal \/ Child

Spec == Init /\ [][Next]_vars

Orphaned == ~Running
Silent == ~(controller.up /\ controller.active)

\* The supervisor goes on, its waits being bounded; commands arrive; a node
\* that gets none stops by its watchdog; leases that nobody can renew run out.
FairSpec ==
  /\ Spec
  /\ WF_vars(Supervise)
  /\ WF_vars(Deliver)
  /\ WF_vars(Silent /\ ~wire /\ node.state = "NORMAL" /\ Fail)
  /\ WF_vars(Orphaned /\ (LoseLease \/ ControllerLosesLease))

-----------------------------------------------------------------------------
(* Properties *)

\* Every variable has its type.
TypeOK ==
  /\ mode \in {"BOOTING", "ACTIVE", "PAUSED", "LATCHED"}
  /\ reason \in {"", "failure", "child", "fault", "operator_stop"}
  /\ pending \in {"none", "pause", "resume", "stop"}
  /\ sim_status \in SessionState \cup {"unheard"}
  /\ plan \in Seq(Step) /\ Len(plan) <= Len(BootPlan)
  /\ answer \in {"none", "ok", "refused"}
  /\ main \in {"on", "stopping", "over", "killed"}
  /\ requests \subseteq Request
  /\ node \in Node /\ node_up \in BOOLEAN
  /\ controller \in [up : BOOLEAN, active : BOOLEAN,
                     lifecycle : {"unconfigured", "inactive", "active"}]
  /\ wire \in BOOLEAN

\* What the supervisor says of the hand is so: it moves only in ACTIVE, in the
\* last step to it, or while it is being stopped; in PAUSED nothing on its way
\* can move it; a latched supervisor has no controller left
\* (s6_ros2_supervisor.py:163-180, 231-255).
ModeTellsTheHand ==
  /\ node.state = "NORMAL" =>
       \/ mode \in {"ACTIVE", "LATCHED"}
       \/ plan = <<"controller_activate">>
  /\ mode = "PAUSED" /\ plan = << >> =>
       ~node.armed /\ requests = {} /\ ~controller.active
  /\ mode = "LATCHED" /\ "stop_controller" \notin {plan[i] : i \in DOMAIN plan}
       => ~controller.up

\* A stop that is accepted ends all motion for good, in whatever mode and in
\* the middle of whatever it comes, and whoever dies meanwhile
\* (s6_ros2_supervisor.py:96-101, 163-180, 228-230).
StopEndsMotion ==
  pending = "stop" ~> [](~node_up \/ node.state # "NORMAL")

\* A pause that is accepted ends in PAUSED or LATCHED, unless the supervisor
\* ends first: whichever step of it fails, it is not left half done
\* (s6_ros2_supervisor.py:231-242).
PauseSettles ==
  pending = "pause" ~> mode \in {"PAUSED", "LATCHED"} \/ main # "on"

\* docs/designs/s6_04_lifecycle_supervisor.md lists what latches (its items 5
\* and 6): a child that exits or falls silent, SAFE_STOP or FAULT.  So without
\* any fault only the operator's stop, or a signal, does.
LatchNeedsFault ==
  mode = "LATCHED" => reason = "operator_stop" \/ main # "on"
=============================================================================
