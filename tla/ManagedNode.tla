---------------------------- MODULE ManagedNode ----------------------------
(***************************************************************************)
(* What the supervisor can make of the managed simulation node: its        *)
(* lifecycle, whether it is armed, and its session's state, without        *)
(* epochs, stamps and leases.  Each operation of simulation/s6_ros2_node.py*)
(* is the set of nodes it may leave behind; a refusal leaves none.         *)
(***************************************************************************)

SessionState == {"NONE", "READY", "NORMAL", "PAUSED", "SAFE_STOP", "FAULT"}

Node == [lifecycle : {"unconfigured", "inactive", "active", "finalized"},
         armed : BOOLEAN, state : SessionState]

NewNode == [lifecycle |-> "unconfigured", armed |-> FALSE, state |-> "NONE"]

Configured(n) ==
  {m \in {[n EXCEPT !.lifecycle = "inactive", !.state = "READY"]} :
     n.lifecycle = "unconfigured"}

\* A paused session is renewed first, which may fail and leave it faulty.
Activated(n) ==
  LET active == [n EXCEPT !.lifecycle = "active", !.state = "READY",
                          !.armed = FALSE]
      faulty == [n EXCEPT !.state = "FAULT"]
  IN CASE n.lifecycle = "inactive" /\ n.state = "READY" -> {active}
       [] n.lifecycle = "inactive" /\ n.state = "PAUSED" -> {active, faulty}
       [] OTHER -> {}

Deactivated(n) ==
  {m \in {[n EXCEPT !.lifecycle = "inactive", !.armed = FALSE, !.state =
             IF n.state \in {"READY", "NORMAL"} THEN "PAUSED" ELSE n.state]} :
     n.lifecycle = "active"}

Armed(n) ==
  {m \in {[n EXCEPT !.armed = TRUE]} :
     n.lifecycle = "active" /\ n.state = "READY"}

\* on_stop, on_arm(False), and the lease on the supervisor that runs out.
Disarmed(n) ==
  {[n EXCEPT !.armed = FALSE,
             !.state = IF n.state = "NONE" THEN "NONE" ELSE "SAFE_STOP"]}

\* A command was accepted, and the plant stepped.
Moved(n) ==
  {m \in {[n EXCEPT !.state = "NORMAL"]} :
     /\ n.lifecycle = "active" /\ n.armed
     /\ n.state \in {"READY", "NORMAL"}}

\* A step failed, or the last command has become too old.
Failed(n) ==
  {m \in {[n EXCEPT !.state = "SAFE_STOP"]} :
     n.lifecycle = "active" /\ n.state \in {"READY", "NORMAL"}}

\* The reset service.  Arming outlives a failed step, and so does its right.
Reset(n) ==
  {m \in {[n EXCEPT !.state = "READY"], [n EXCEPT !.state = "FAULT"]} :
     n.lifecycle = "active" /\ n.armed}

\* Cleanup, shutdown, or another process of the node.
Gone(n) ==
  {[n EXCEPT !.lifecycle = l, !.armed = FALSE, !.state = "NONE"] :
     l \in {"unconfigured", "finalized"}}

NodeStep(n, m) ==
  m \in UNION {Configured(n), Activated(n), Deactivated(n), Armed(n),
               Disarmed(n), Moved(n), Failed(n), Reset(n), Gone(n)}
=============================================================================
