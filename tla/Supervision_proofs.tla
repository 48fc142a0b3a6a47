------------------------- MODULE Supervision_proofs -------------------------
(***************************************************************************)
(* What the supervisor says of the hand is so, whatever fails: proved from *)
(* what is left of its plan.  While it has not latched there is one        *)
(* request at a time, that of the step it is at, so that the node and the  *)
(* controller are as the steps already done have left them.                *)
(***************************************************************************)
EXTENDS Supervision, SequenceTheorems, TLAPS

-----------------------------------------------------------------------------
(* What may be left of a plan *)

Activating == <<"controller_activate">>
Arming == <<"sim_arm", "controller_activate">>
Readying == <<"READY", "sim_arm", "controller_activate">>
ConfiguringController ==
  <<"controller_configure", "sim_activate", "READY", "sim_arm",
    "controller_activate">>
Configuring ==
  <<"sim_configure", "controller_configure", "sim_activate", "READY",
    "sim_arm", "controller_activate">>
Hearing ==
  <<"hear", "sim_configure", "controller_configure", "sim_activate", "READY",
    "sim_arm", "controller_activate">>
AwaitingPause == <<"PAUSED">>
Deactivating == <<"sim_deactivate", "PAUSED">>
StoppingNode == <<"sim_stop">>
KillingNode == <<"stop_sim">>

Resuming == {ResumePlan, Readying, Arming, Activating}
Booting == {Hearing, Configuring, ConfiguringController} \cup Resuming
Pausing == {PausePlan, Deactivating, AwaitingPause}
Latching == {LatchPlan, StoppingNode}
Exiting == {ExitPlan, KillingNode}
Done == {<< >>}

PlanInv ==
  /\ mode = "BOOTING" => plan \in Booting
  /\ mode \in {"ACTIVE", "PAUSED"} =>
       plan \in Done \cup Resuming \cup Pausing \cup Exiting
  /\ mode = "LATCHED" => plan \in Done \cup Latching \cup Exiting

\* An answer is for the step it is at.  Until it latches a request is too, and
\* an answered one is gone.
AskInv ==
  /\ answer # "none" => plan # << >> /\ Head(plan) \in Request
  /\ mode # "LATCHED" =>
       /\ \A r \in requests : plan # << >> /\ r = Head(plan)
       /\ answer # "none" => requests = {}

\* What the steps done so far have left of the two children.
AtStep(steps) == plan # << >> /\ Head(plan) \in steps
HandInv ==
  /\ node.state = "NORMAL" => node.armed
  /\ mode \in {"BOOTING", "PAUSED"} =>
       /\ AtStep({"sim_arm", "controller_activate"})
            \/ (~node.armed /\ ~controller.active)
       /\ AtStep({"READY", "sim_arm"})
            \/ (AtStep({"sim_activate"}) /\ answer = "ok") =>
            ~wire /\ ~controller.active
       /\ AtStep({"sim_arm"}) => node.state # "NORMAL"
  /\ mode # "LATCHED" =>
       /\ AtStep({"sim_deactivate", "PAUSED"})
            \/ (AtStep({"controller_deactivate"}) /\ answer = "ok") =>
            ~controller.active
       /\ AtStep({"PAUSED"})
            \/ (AtStep({"sim_deactivate"}) /\ answer = "ok") =>
            ~node.armed
  /\ mode = "LATCHED" /\ ~AtStep({"stop_controller"}) => ~controller.up

IInv == TypeOK /\ PlanInv /\ AskInv /\ HandInv
-----------------------------------------------------------------------------
(* Walking through a plan *)

LEMMA Heads ==
  /\ Head(Hearing) = "hear" /\ Head(Configuring) = "sim_configure"
  /\ Head(ConfiguringController) = "controller_configure"
  /\ Head(ResumePlan) = "sim_activate" /\ Head(Readying) = "READY"
  /\ Head(Arming) = "sim_arm" /\ Head(Activating) = "controller_activate"
  /\ Head(PausePlan) = "controller_deactivate"
  /\ Head(Deactivating) = "sim_deactivate" /\ Head(AwaitingPause) = "PAUSED"
  /\ Head(LatchPlan) = "stop_controller" /\ Head(StoppingNode) = "sim_stop"
  /\ Head(ExitPlan) = "stop_controller" /\ Head(KillingNode) = "stop_sim"
BY DEF Hearing, Configuring, ConfiguringController, ResumePlan, Readying,
       Arming, Activating, PausePlan, Deactivating, AwaitingPause, LatchPlan,
       StoppingNode, ExitPlan, KillingNode

LEMMA Tails ==
  /\ Tail(Hearing) = Configuring
  /\ Tail(Configuring) = ConfiguringController
  /\ Tail(ConfiguringController) = ResumePlan
  /\ Tail(ResumePlan) = Readying /\ Tail(Readying) = Arming
  /\ Tail(Arming) = Activating /\ Tail(Activating) = << >>
  /\ Tail(PausePlan) = Deactivating /\ Tail(Deactivating) = AwaitingPause
  /\ Tail(AwaitingPause) = << >>
  /\ Tail(LatchPlan) = StoppingNode /\ Tail(StoppingNode) = << >>
  /\ Tail(ExitPlan) = KillingNode /\ Tail(KillingNode) = << >>
BY DEF Hearing, Configuring, ConfiguringController, ResumePlan, Readying,
       Arming, Activating, PausePlan, Deactivating, AwaitingPause, LatchPlan,
       StoppingNode, ExitPlan, KillingNode

LEMMA Lengths ==
  /\ Len(Hearing) = 7 /\ Len(Configuring) = 6
  /\ Len(ConfiguringController) = 5
  /\ Len(ResumePlan) = 4 /\ Len(Readying) = 3
  /\ Len(Arming) = 2 /\ Len(Activating) = 1
  /\ Len(PausePlan) = 3 /\ Len(Deactivating) = 2 /\ Len(AwaitingPause) = 1
  /\ Len(LatchPlan) = 2 /\ Len(StoppingNode) = 1
  /\ Len(ExitPlan) = 2 /\ Len(KillingNode) = 1 /\ Len(<< >>) = 0
BY DEF Hearing, Configuring, ConfiguringController, ResumePlan, Readying,
       Arming, Activating, PausePlan, Deactivating, AwaitingPause, LatchPlan,
       StoppingNode, ExitPlan, KillingNode

LEMMA StepsOfPlans ==
  Done \cup Booting \cup Pausing \cup Latching \cup Exiting \subseteq Seq(Step)
<1>1. /\ Hearing \in Seq(Step) /\ Configuring \in Seq(Step)
      /\ ConfiguringController \in Seq(Step)
  BY DEF Hearing, Configuring, ConfiguringController, Step, Request, SimRequest,
         ControllerRequest, Waits
<1>2. /\ ResumePlan \in Seq(Step) /\ Readying \in Seq(Step)
      /\ Arming \in Seq(Step) /\ Activating \in Seq(Step)
  BY DEF ResumePlan, Readying, Arming, Activating, Step, Request, SimRequest,
         ControllerRequest, Waits
<1>3. /\ PausePlan \in Seq(Step) /\ Deactivating \in Seq(Step)
      /\ AwaitingPause \in Seq(Step)
  BY DEF PausePlan, Deactivating, AwaitingPause, Step, Request, SimRequest,
         ControllerRequest, Waits
<1>4. /\ LatchPlan \in Seq(Step) /\ StoppingNode \in Seq(Step)
      /\ ExitPlan \in Seq(Step) /\ KillingNode \in Seq(Step)
  BY DEF LatchPlan, StoppingNode, ExitPlan, KillingNode, Step, Request,
         SimRequest, Kills
<1> QED  BY <1>1, <1>2, <1>3, <1>4
         DEF Done, Booting, Resuming, Pausing, Latching, Exiting

LEMMA BootIsHearing == BootPlan = Hearing
<1> DEFINE first == <<"hear", "sim_configure", "controller_configure">>
<1>1. first \in Seq(Step) /\ ResumePlan \in Seq(Step)
  BY StepsOfPlans DEF Booting, Resuming, Step, Request, SimRequest,
     ControllerRequest, Waits
<1>2. Len(first) = 3 /\ Len(ResumePlan) = 4
  BY Lengths
<1>3. /\ first \o ResumePlan \in Seq(Step) /\ Len(first \o ResumePlan) = 7
      /\ \A i \in 1 .. 7 : (first \o ResumePlan)[i] =
           IF i <= 3 THEN first[i] ELSE ResumePlan[i - 3]
  <2> HIDE DEF first
  <2>1. /\ first \o ResumePlan \in Seq(Step)
        /\ Len(first \o ResumePlan) = Len(first) + Len(ResumePlan)
        /\ \A i \in 1 .. Len(first) + Len(ResumePlan) :
             (first \o ResumePlan)[i] =
               IF i <= Len(first) THEN first[i] ELSE ResumePlan[i - Len(first)]
    BY <1>1, ConcatProperties
  <2> QED  BY <1>2, <2>1
<1>4. Hearing \in Seq(Step) /\ Len(Hearing) = 7
  BY StepsOfPlans, Lengths DEF Booting
<1>5. \A i \in 1 .. 7 : (first \o ResumePlan)[i] = Hearing[i]
  BY <1>3 DEF Hearing, ResumePlan
<1>6. first \o ResumePlan = Hearing
  BY <1>3, <1>4, <1>5, SeqEqual
<1> QED  BY <1>6 DEF BootPlan
Plans == Done \cup Booting \cup Pausing \cup Latching \cup Exiting

LEMMA PlanIsTyped ==
  ASSUME NEW p \in Plans
  PROVE  /\ p \in Seq(Step) /\ Len(p) <= Len(BootPlan)
         /\ p # << >> => Head(p) \in Step /\ Len(p) >= 1
<1>0. 7 \in Nat /\ Len(<< >>) = 0
  OBVIOUS
<1>1. Len(p) \in 0 .. 7
  BY Lengths
  DEF Plans, Done, Booting, Resuming, Pausing, Latching, Exiting
<1>2. p \in Seq(Step)
  BY StepsOfPlans DEF Plans
<1>3. Len(BootPlan) = 7
  BY BootIsHearing, Lengths
<1>4. p # << >> => Len(p) >= 1
  BY <1>1, <1>2, EmptySeq
<1>5. p # << >> => Head(p) \in Step
  BY <1>2, HeadTailProperties
<1>6. Len(p) <= Len(BootPlan)
  <2>1. \A n \in 0 .. 7 : \A most : most = 7 => n <= most
    OBVIOUS
  <2> QED  BY <1>1, <1>3, <2>1, Zenon
<1> QED  BY <1>2, <1>4, <1>5, <1>6

LEMMA AlongResuming ==
  ASSUME NEW p \in Resuming
  PROVE  \/ Head(p) = "controller_activate" /\ p = Activating
              /\ Len(p) = 1 /\ Tail(p) = << >>
         \/ /\ Len(p) > 1 /\ Tail(p) \in Resuming
            /\ \/ Head(p) = "sim_activate" /\ Head(Tail(p)) = "READY"
               \/ Head(p) = "READY" /\ Head(Tail(p)) = "sim_arm"
               \/ Head(p) = "sim_arm" /\ Head(Tail(p)) = "controller_activate"
<1>1. CASE p = ResumePlan
  <2>1. Head(p) = "sim_activate" /\ Tail(p) = Readying /\ Len(p) = 4
    BY <1>1, Heads, Tails, Lengths, Zenon
  <2>2. Head(Tail(p)) = "READY" /\ Tail(p) = Readying
    BY <2>1, Heads, Zenon
  <2>3. Len(p) > 1
    BY <2>1
  <2> QED  BY <2>1, <2>2, <2>3, Zenon DEF Resuming
<1>2. CASE p = Readying
  <2>1. Head(p) = "READY" /\ Tail(p) = Arming /\ Len(p) = 3
    BY <1>2, Heads, Tails, Lengths, Zenon
  <2>2. Head(Tail(p)) = "sim_arm" /\ Tail(p) = Arming
    BY <2>1, Heads, Zenon
  <2>3. Len(p) > 1
    BY <2>1
  <2> QED  BY <2>1, <2>2, <2>3, Zenon DEF Resuming
<1>3. CASE p = Arming
  <2>1. Head(p) = "sim_arm" /\ Tail(p) = Activating /\ Len(p) = 2
    BY <1>3, Heads, Tails, Lengths, Zenon
  <2>2. Head(Tail(p)) = "controller_activate" /\ Tail(p) = Activating
    BY <2>1, Heads, Zenon
  <2>3. Len(p) > 1
    BY <2>1
  <2> QED  BY <2>1, <2>2, <2>3, Zenon DEF Resuming
<1>4. CASE p = Activating
  <2>1. Head(p) = "controller_activate" /\ Tail(p) = << >> /\ Len(p) = 1
    BY <1>4, Heads, Tails, Lengths, Zenon
  <2> QED  BY <1>4, <2>1
<1> QED  BY <1>1, <1>2, <1>3, <1>4 DEF Resuming

LEMMA AlongBooting ==
  ASSUME NEW p \in Booting, p \notin Resuming
  PROVE  /\ Len(p) > 1 /\ Tail(p) \in Booting
         /\ \/ Head(p) = "hear" /\ Head(Tail(p)) = "sim_configure"
            \/ /\ Head(p) = "sim_configure"
               /\ Head(Tail(p)) = "controller_configure"
            \/ /\ Head(p) = "controller_configure"
               /\ Head(Tail(p)) = "sim_activate"
<1>1. CASE p = Hearing
  <2>1. Head(p) = "hear" /\ Tail(p) = Configuring /\ Len(p) = 7
    BY <1>1, Heads, Tails, Lengths, Zenon
  <2>2. Head(Tail(p)) = "sim_configure" /\ Tail(p) = Configuring
    BY <2>1, Heads, Zenon
  <2>3. Len(p) > 1
    BY <2>1
  <2> QED  BY <2>1, <2>2, <2>3, Zenon DEF Booting
<1>2. CASE p = Configuring
  <2>1. /\ Head(p) = "sim_configure" /\ Tail(p) = ConfiguringController
        /\ Len(p) = 6
    BY <1>2, Heads, Tails, Lengths, Zenon
  <2>2. /\ Head(Tail(p)) = "controller_configure"
        /\ Tail(p) = ConfiguringController
    BY <2>1, Heads, Zenon
  <2>3. Len(p) > 1
    BY <2>1
  <2> QED  BY <2>1, <2>2, <2>3, Zenon DEF Booting
<1>3. CASE p = ConfiguringController
  <2>1. Head(p) = "controller_configure" /\ Tail(p) = ResumePlan /\ Len(p) = 5
    BY <1>3, Heads, Tails, Lengths, Zenon
  <2>2. Head(Tail(p)) = "sim_activate" /\ Tail(p) = ResumePlan
    BY <2>1, Heads, Zenon
  <2>3. Len(p) > 1
    BY <2>1
  <2> QED  BY <2>1, <2>2, <2>3, Zenon DEF Booting, Resuming
<1> QED  BY <1>1, <1>2, <1>3 DEF Booting

LEMMA AlongPausing ==
  ASSUME NEW p \in Pausing
  PROVE  \/ Head(p) = "PAUSED" /\ Len(p) = 1 /\ Tail(p) = << >>
         \/ /\ Len(p) > 1 /\ Tail(p) \in Pausing
            /\ \/ /\ Head(p) = "controller_deactivate"
                  /\ Head(Tail(p)) = "sim_deactivate"
               \/ Head(p) = "sim_deactivate" /\ Head(Tail(p)) = "PAUSED"
<1>1. CASE p = PausePlan
  <2>1. /\ Head(p) = "controller_deactivate" /\ Tail(p) = Deactivating
        /\ Len(p) = 3
    BY <1>1, Heads, Tails, Lengths, Zenon
  <2>2. Head(Tail(p)) = "sim_deactivate" /\ Tail(p) = Deactivating
    BY <2>1, Heads, Zenon
  <2>3. Len(p) > 1
    BY <2>1
  <2> QED  BY <2>1, <2>2, <2>3, Zenon DEF Pausing
<1>2. CASE p = Deactivating
  <2>1. Head(p) = "sim_deactivate" /\ Tail(p) = AwaitingPause /\ Len(p) = 2
    BY <1>2, Heads, Tails, Lengths, Zenon
  <2>2. Head(Tail(p)) = "PAUSED" /\ Tail(p) = AwaitingPause
    BY <2>1, Heads, Zenon
  <2>3. Len(p) > 1
    BY <2>1
  <2> QED  BY <2>1, <2>2, <2>3, Zenon DEF Pausing
<1>3. CASE p = AwaitingPause
  <2>1. Head(p) = "PAUSED" /\ Tail(p) = << >> /\ Len(p) = 1
    BY <1>3, Heads, Tails, Lengths, Zenon
  <2> QED  BY <1>3, <2>1
<1> QED  BY <1>1, <1>2, <1>3 DEF Pausing

LEMMA AlongStopping ==
  ASSUME NEW p \in Latching \cup Exiting
  PROVE  /\ Head(p) \in {"stop_controller", "sim_stop", "stop_sim"}
         /\ p \in Exiting => Head(p) \in Kills
         /\ Tail(p) \in Done \cup Latching \cup Exiting
         /\ p \in Exiting => Tail(p) \in Done \cup Exiting
BY Heads, Tails DEF Latching, Exiting, Done, Kills

LEMMA NotEmpty ==
  ASSUME NEW p \in Booting \cup Pausing \cup Latching \cup Exiting
  PROVE  p # << >>
BY DEF Booting, Resuming, Pausing, Latching, Exiting, Hearing, Configuring,
       ConfiguringController, ResumePlan, Readying, Arming, Activating,
       PausePlan, Deactivating, AwaitingPause, LatchPlan, StoppingNode,
       ExitPlan, KillingNode

-----------------------------------------------------------------------------
(* The simulation node *)

\* What a request leaves of the node does not move, and arms it only if it
\* asked for that.
LEMMA ServedNode ==
  ASSUME node \in Node, NEW r \in SimRequest, NEW n \in Outcomes(r)
  PROVE  /\ n \in Node /\ n.state # "NORMAL"
         /\ n.armed => node.armed \/ r = "sim_arm"
         /\ r = "sim_deactivate" => ~n.armed
<1>1. CASE r = "sim_configure"
  BY <1>1 DEF Outcomes, Configured, Node, SessionState
<1>2. CASE r = "sim_activate"
  BY <1>2 DEF Outcomes, Activated, Node, SessionState
<1>3. CASE r = "sim_deactivate"
  BY <1>3 DEF Outcomes, Deactivated, Node, SessionState
<1>4. CASE r = "sim_arm"
  BY <1>4 DEF Outcomes, Armed, Node, SessionState
<1>5. CASE r = "sim_stop"
  BY <1>5 DEF Outcomes, Disarmed, Node, SessionState
<1> QED  BY <1>1, <1>2, <1>3, <1>4, <1>5 DEF SimRequest

LEMMA MovedNode ==
  ASSUME node \in Node, NEW n \in Moved(node)
  PROVE  n \in Node /\ n.armed /\ node.armed
BY DEF Moved, Node, SessionState

\* Nobody arms the node unasked.
LEMMA StoppedNode ==
  ASSUME node \in Node,
         NEW n \in Disarmed(node) \cup Failed(node) \cup Reset(node)
  PROVE  n \in Node /\ n.state # "NORMAL" /\ (n.armed => node.armed)
<1>1. CASE n \in Disarmed(node)
  BY <1>1 DEF Disarmed, Node, SessionState
<1>2. CASE n \in Failed(node)
  BY <1>2 DEF Failed, Node, SessionState
<1>3. CASE n \in Reset(node)
  BY <1>3 DEF Reset, Node, SessionState
<1> QED  BY <1>1, <1>2, <1>3

-----------------------------------------------------------------------------
(* The invariant holds at first *)

LEMMA Starts == Init => IInv
<1> SUFFICES ASSUME Init PROVE IInv
  OBVIOUS
<1>1. plan = Hearing /\ plan \in Booting /\ plan \in Plans
  BY BootIsHearing DEF Init, Booting, Plans
<1>2. NewNode \in Node /\ NewNode.state = "NONE" /\ ~NewNode.armed
  BY DEF NewNode, Node, SessionState
<1>3. TypeOK
  BY <1>1, <1>2, PlanIsTyped DEF Init, TypeOK
<1>4. PlanInv /\ AskInv
  BY <1>1 DEF Init, PlanInv, AskInv
<1>5. HandInv
  BY <1>1, <1>2, Heads DEF Init, HandInv, AtStep
<1> QED  BY <1>3, <1>4, <1>5 DEF IInv
SupervisorOK ==
  /\ mode \in {"BOOTING", "ACTIVE", "PAUSED", "LATCHED"}
  /\ reason \in {"", "failure", "child", "fault", "operator_stop"}
  /\ pending \in {"none", "pause", "resume", "stop"}
  /\ sim_status \in SessionState \cup {"unheard"}
  /\ plan \in Seq(Step) /\ Len(plan) <= Len(BootPlan)
  /\ answer \in {"none", "ok", "refused"}
  /\ main \in {"on", "stopping", "over", "killed"}
ChildrenOK ==
  /\ requests \subseteq Request
  /\ node \in Node /\ node_up \in BOOLEAN
  /\ controller \in [up : BOOLEAN, active : BOOLEAN,
                     lifecycle : {"unconfigured", "inactive", "active"}]
  /\ wire \in BOOLEAN

LEMMA TypeParts == TypeOK <=> SupervisorOK /\ ChildrenOK
BY DEF TypeOK, SupervisorOK, ChildrenOK

LEMMA TypePartsNext == TypeOK' <=> SupervisorOK' /\ ChildrenOK'
BY DEF TypeOK, SupervisorOK, ChildrenOK

LEMMA PlanIsAPlan ==
  ASSUME TypeOK, PlanInv
  PROVE  plan \in Plans
BY DEF TypeOK, PlanInv, Plans, Booting

-----------------------------------------------------------------------------
(* Every step keeps it: the supervisor *)

LEMMA LatchKeeps ==
  ASSUME IInv, NEW why \in {"failure", "child", "fault", "operator_stop"},
         Latch(why)
  PROVE  IInv'
<1>1. plan' = LatchPlan /\ plan' \in Latching /\ plan' # << >>
      /\ Head(plan') = "stop_controller" /\ plan' \in Plans
  BY Heads, NotEmpty DEF Latch, Latching, Plans
<1>2. TypeOK'
  BY <1>1, PlanIsTyped DEF IInv, TypeOK, Latch, children
<1>3. PlanInv' /\ AskInv'
  BY <1>1 DEF Latch, PlanInv, AskInv
<1>4. HandInv'
  BY <1>1 DEF IInv, Latch, HandInv, AtStep, children
<1> QED  BY <1>2, <1>3, <1>4 DEF IInv

LEMMA IssueKeeps ==
  ASSUME IInv, Issue
  PROVE  IInv'
<1>1. plan # << >> /\ Head(plan) \in Request /\ answer = "none"
  BY DEF Issue, At, Walking
<1>2. TypeOK'
  <2>1. requests' \subseteq Request
    BY <1>1 DEF IInv, TypeOK, Issue
  <2>2. SupervisorOK'
    BY TypeParts DEF IInv, SupervisorOK, Issue, supervisor
  <2>3. ChildrenOK'
    BY <2>1, TypeParts DEF IInv, ChildrenOK, Issue, children
  <2> QED  BY <2>2, <2>3, TypePartsNext
<1>3. PlanInv' /\ AskInv' /\ HandInv'
  BY <1>1
  DEF IInv, PlanInv, AskInv, HandInv, AtStep, Issue, supervisor, children
<1> QED  BY <1>2, <1>3 DEF IInv

\* A step is passed only when it is done: a wait because what it waits for was
\* heard, a request because it was answered.
LEMMA PassedKeeps ==
  ASSUME IInv, Walking, Passed,
         \/ mode = "LATCHED" /\ Head(plan) = "sim_stop"
         \/ answer = "ok"
         \/ Head(plan) \in {"hear", "READY", "PAUSED"}
  PROVE  IInv'
<1>1. plan # << >> /\ plan \in Plans
  BY PlanIsAPlan DEF IInv, Walking
<1>2. /\ plan' = Tail(plan) /\ answer' = "none" /\ requests' = requests
      /\ node' = node /\ controller' = controller /\ wire' = wire
      /\ Head(plan) \notin Kills
  BY DEF Passed, children, Kills, IInv, AskInv, Request, SimRequest,
         ControllerRequest
<1>3. mode # "LATCHED" => requests = {}
  BY <1>1 DEF IInv, AskInv, TypeOK, Request, SimRequest, ControllerRequest
<1>4. mode # "LATCHED" /\ plan \notin Exiting
        => plan \in Booting \cup Pausing
  BY <1>1 DEF IInv, TypeOK, PlanInv, Booting, Done
<1>5. plan \notin Exiting
  BY <1>2, AlongStopping
<1>6. CASE mode = "LATCHED"
  <2>1. plan \in Latching
    BY <1>1, <1>5, <1>6 DEF IInv, PlanInv, Done
  <2>2. plan' \in Done \cup Latching \cup Exiting /\ plan' \in Plans
    BY <1>2, <2>1, AlongStopping DEF Plans
  <2>3. Head(plan) # "stop_controller"
    BY <1>2 DEF Kills
  <2>4. mode' = "LATCHED"
    BY <1>6 DEF Passed
  <2>5. TypeOK'
    BY <1>2, <2>2, <2>4, PlanIsTyped DEF IInv, TypeOK, Passed, children
  <2>6. PlanInv' /\ AskInv'
    BY <1>2, <2>2, <2>4 DEF PlanInv, AskInv
  <2>7. HandInv'
    BY <1>2, <1>6, <2>3, <2>4 DEF IInv, HandInv, AtStep
  <2> QED  BY <2>5, <2>6, <2>7 DEF IInv
<1>7. CASE mode # "LATCHED" /\ plan \in Pausing
  <2>1. mode \in {"ACTIVE", "PAUSED"}
    BY <1>7, AlongPausing, AlongResuming, AlongBooting
    DEF IInv, TypeOK, PlanInv
  <2>2. CASE Head(plan) = "PAUSED"
    <3>0. Tail(plan) = << >> /\ Len(plan) = 1
      BY <1>7, <2>2, AlongPausing
    <3>1. plan' = << >> /\ mode' = "PAUSED" /\ plan' \in Plans
      BY <1>2, <1>7, <2>2, <3>0 DEF Passed, Plans, Done
    <3>2. TypeOK'
      BY <1>2, <3>1, PlanIsTyped DEF IInv, TypeOK, Passed, children
    <3>3. PlanInv' /\ AskInv'
      BY <1>2, <1>3, <1>7, <3>1 DEF PlanInv, AskInv, Done
    <3>4. ~node.armed /\ ~controller.active
      BY <1>1, <1>7, <2>2 DEF IInv, HandInv, AtStep
    <3>5. HandInv'
      BY <1>2, <3>1, <3>4 DEF IInv, HandInv, AtStep
    <3> QED  BY <3>2, <3>3, <3>5 DEF IInv
  <2>3. CASE Head(plan) # "PAUSED"
    <3>1. plan' \in Pausing /\ mode' = mode /\ plan' \in Plans /\ plan' # << >>
      BY <1>2, <1>7, <2>3, AlongPausing, NotEmpty DEF Passed, Plans
    <3>2. TypeOK'
      BY <1>2, <3>1, PlanIsTyped DEF IInv, TypeOK, Passed, children
    <3>3. PlanInv' /\ AskInv'
      BY <1>2, <1>3, <1>7, <2>1, <3>1 DEF PlanInv, AskInv
    <3>4. \/ Head(plan) = "controller_deactivate"
               /\ Head(plan') = "sim_deactivate"
          \/ Head(plan) = "sim_deactivate" /\ Head(plan') = "PAUSED"
      BY <1>2, <1>7, <2>3, AlongPausing
    <3>5. answer = "ok"
      BY <1>7, <3>4
    <3>6. HandInv'
      BY <1>1, <1>2, <1>7, <2>1, <3>1, <3>4, <3>5 DEF IInv, HandInv, AtStep
    <3> QED  BY <3>2, <3>3, <3>6 DEF IInv
  <2> QED  BY <2>2, <2>3
<1>8. CASE mode # "LATCHED" /\ plan \in Booting
  <2>1. CASE Head(plan) = "controller_activate"
    <3>1. plan \in Resuming
      BY <1>8, <2>1, AlongBooting
    <3>0. Tail(plan) = << >> /\ Len(plan) = 1
      BY <2>1, <3>1, AlongResuming
    <3>2. plan' = << >> /\ mode' = "ACTIVE" /\ plan' \in Plans
      BY <1>2, <1>8, <2>1, <3>0 DEF Passed, Plans, Done
    <3>3. TypeOK'
      BY <1>2, <3>2, PlanIsTyped DEF IInv, TypeOK, Passed, children
    <3>4. PlanInv' /\ AskInv'
      BY <1>2, <1>3, <1>8, <3>2 DEF PlanInv, AskInv, Done
    <3>5. HandInv'
      BY <1>2, <3>2 DEF IInv, HandInv, AtStep
    <3> QED  BY <3>3, <3>4, <3>5 DEF IInv
  <2>2. CASE Head(plan) # "controller_activate"
    <3>1. /\ plan' \in Booting /\ plan' \in Plans /\ plan' # << >>
          /\ plan \in Resuming => plan' \in Resuming
          /\ mode' = mode
      BY <1>2, <1>8, <2>2, AlongBooting, AlongResuming, NotEmpty
      DEF Passed, Plans, Booting
    <3>2. \/ Head(plan) = "hear" /\ Head(plan') = "sim_configure"
          \/ Head(plan) = "sim_configure"
               /\ Head(plan') = "controller_configure"
          \/ Head(plan) = "controller_configure"
               /\ Head(plan') = "sim_activate"
          \/ Head(plan) = "sim_activate" /\ Head(plan') = "READY"
          \/ Head(plan) = "READY" /\ Head(plan') = "sim_arm"
          \/ Head(plan) = "sim_arm" /\ Head(plan') = "controller_activate"
      BY <1>2, <1>8, <2>2, AlongBooting, AlongResuming
    <3>3. TypeOK'
      BY <1>2, <3>1, PlanIsTyped DEF IInv, TypeOK, Passed, children
    <3>4. PlanInv'
      <4>1. mode \in {"ACTIVE", "PAUSED"} => plan \in Resuming
        BY <1>8, <1>1, <1>5, AlongPausing, AlongBooting, AlongResuming
        DEF IInv, PlanInv, Done, Booting
      <4> QED  BY <1>8, <3>1, <4>1 DEF PlanInv
    <3>5. AskInv'
      BY <1>2, <1>3, <1>8, <3>1 DEF AskInv
    <3>6. Head(plan) = "sim_activate" => answer = "ok"
      BY <1>8
    <3>7. HandInv'
      BY <1>1, <1>2, <1>8, <3>1, <3>2, <3>6 DEF IInv, HandInv, AtStep
    <3> QED  BY <3>3, <3>4, <3>5, <3>7 DEF IInv
  <2> QED  BY <2>1, <2>2
<1> QED  BY <1>4, <1>5, <1>6, <1>7, <1>8
LEMMA KillKeeps ==
  ASSUME IInv, Kill
  PROVE  IInv'
<1>1. plan # << >> /\ plan \in Plans /\ Head(plan) \in Kills
  BY PlanIsAPlan DEF IInv, Kill, At, Walking
<1>2. answer = "none" /\ (mode # "LATCHED" => requests = {})
  BY <1>1 DEF IInv, TypeOK, AskInv, Kills, Request, SimRequest,
              ControllerRequest
<1>3. plan \notin Booting /\ plan \notin Pausing
  BY <1>1, AlongBooting, AlongResuming, AlongPausing DEF Kills
<1>4. /\ plan \in Latching \cup Exiting
      /\ mode # "LATCHED" => plan \in Exiting
  BY <1>1, <1>3 DEF IInv, TypeOK, PlanInv, Plans, Done, Booting
<1>5. /\ plan' \in Done \cup Latching \cup Exiting /\ plan' \in Plans
      /\ mode # "LATCHED" => plan' \in Done \cup Exiting
  BY <1>4, AlongStopping DEF Kill, Plans
<1>6. mode \in {"BOOTING", "PAUSED"} =>
        /\ mode = "PAUSED" /\ ~node.armed /\ ~controller.active
  BY <1>1, <1>4, AlongBooting, AlongResuming, AlongStopping
  DEF IInv, PlanInv, HandInv, AtStep, Kills
<1>7. /\ controller' \in [up : BOOLEAN, active : BOOLEAN,
                          lifecycle : {"unconfigured", "inactive", "active"}]
      /\ controller'.active = controller.active
      /\ ~controller.up => ~controller'.up
      /\ Head(plan) = "stop_controller" => ~controller'.up
  BY DEF IInv, TypeOK, Kill
<1>8. node_up' \in BOOLEAN
  BY DEF IInv, TypeOK, Kill
<1>9. TypeOK'
  BY <1>5, <1>7, <1>8, PlanIsTyped DEF IInv, TypeOK, Kill
<1>10. PlanInv' /\ AskInv'
  BY <1>2, <1>4, <1>5, <1>6 DEF IInv, TypeOK, Kill, PlanInv, AskInv
<1>11. plan' # << >> /\ mode # "LATCHED" => Head(plan') \in Kills
  BY <1>5, AlongStopping DEF Done
<1>12. HandInv'
  BY <1>1, <1>2, <1>6, <1>7, <1>11 DEF IInv, Kill, HandInv, AtStep, Kills
<1> QED  BY <1>9, <1>10, <1>12 DEF IInv

LEMMA BeginKeeps ==
  ASSUME IInv, Begin
  PROVE  IInv'
<1>1. /\ plan' \in Resuming \cup Pausing /\ plan' \in Plans
      /\ plan' # << >>
      /\ Head(plan') \in {"sim_activate", "controller_deactivate"}
  BY Heads, NotEmpty
  DEF Begin, Planned, Resuming, Pausing, Booting, Plans
<1>2. plan = << >> /\ mode \in {"ACTIVE", "PAUSED"} /\ answer = "none"
  BY NotEmpty DEF IInv, TypeOK, PlanInv, AskInv, Begin, Looping
<1>3. requests = {}
  BY <1>2 DEF IInv, AskInv
<1>4. TypeOK'
  <2>1. plan' \in Seq(Step) /\ Len(plan') <= Len(BootPlan)
    BY <1>1, PlanIsTyped
  <2>2. SupervisorOK'
    BY <2>1, TypeParts DEF IInv, SupervisorOK, Begin
  <2>3. ChildrenOK'
    BY TypeParts DEF IInv, ChildrenOK, Begin, children
  <2> QED  BY <2>2, <2>3, TypePartsNext
<1>5. PlanInv' /\ AskInv'
  BY <1>1, <1>2, <1>3 DEF Begin, PlanInv, AskInv
<1>6. HandInv'
  BY <1>1, <1>2 DEF IInv, Begin, HandInv, AtStep, children
<1> QED  BY <1>4, <1>5, <1>6 DEF IInv

LEMMA FinishKeeps ==
  ASSUME IInv, Finish
  PROVE  IInv'
<1>1. /\ plan' \in Exiting /\ plan' \in Plans /\ plan' # << >>
      /\ Head(plan') = "stop_controller"
  BY Heads, NotEmpty DEF Finish, Exiting, Plans
<1>2. plan = << >> /\ mode # "BOOTING" /\ answer = "none"
  BY NotEmpty DEF IInv, TypeOK, PlanInv, AskInv, Finish
<1>3. mode # "LATCHED" => requests = {}
  BY <1>2 DEF IInv, AskInv
<1>4. TypeOK'
  <2>1. plan' \in Seq(Step) /\ Len(plan') <= Len(BootPlan)
    BY <1>1, PlanIsTyped
  <2>2. SupervisorOK'
    BY <2>1, TypeParts DEF IInv, SupervisorOK, Finish
  <2>3. ChildrenOK'
    BY TypeParts DEF IInv, ChildrenOK, Finish, children
  <2> QED  BY <2>2, <2>3, TypePartsNext
<1>5. PlanInv' /\ AskInv'
  BY <1>1, <1>2, <1>3 DEF Finish, PlanInv, AskInv
<1>6. HandInv'
  BY <1>1, <1>2 DEF IInv, Finish, HandInv, AtStep, children
<1> QED  BY <1>4, <1>5, <1>6 DEF IInv

\* One that leaves the plan, the answer, the requests and the hand alone.
LEMMA Untouched ==
  ASSUME IInv, UNCHANGED <<mode, plan, answer, requests, node, wire>>,
         controller' \in [up : BOOLEAN, active : BOOLEAN,
                          lifecycle : {"unconfigured", "inactive", "active"}],
         controller'.active => controller.active,
         controller'.up => controller.up,
         reason' = reason, pending' \in {"none", "pause", "resume", "stop"},
         sim_status' \in SessionState \cup {"unheard"},
         main' \in {"on", "stopping", "over", "killed"},
         node_up' \in BOOLEAN
  PROVE  IInv'
<1>1. TypeOK'
  BY DEF IInv, TypeOK
<1>2. PlanInv' /\ AskInv'
  BY DEF IInv, PlanInv, AskInv
<1>3. HandInv'
  BY DEF IInv, HandInv, AtStep
<1> QED  BY <1>1, <1>2, <1>3 DEF IInv

LEMMA SuperviseKeeps ==
  ASSUME IInv, Supervise
  PROVE  IInv'
<1>1. CASE Issue
  BY <1>1, IssueKeeps
<1>2. CASE Proceed
  <2>1. Head(plan) = sim_status => Head(plan) \in {"READY", "PAUSED"}
    <3>1. Walking /\ plan \in Plans /\ plan # << >>
      BY <1>2, PlanIsAPlan DEF IInv, Proceed, Walking
    <3>2. Head(plan) \in Step
      BY <3>1, PlanIsTyped
    <3> QED  BY <3>2 DEF IInv, TypeOK, SessionState, Step, Request, SimRequest,
                         ControllerRequest, Waits, Kills
  <2> QED  BY <1>2, <2>1, PassedKeeps DEF Proceed
<1>3. CASE GiveUp
  BY <1>3, LatchKeeps DEF GiveUp
<1>4. CASE Unconfirmed
  BY <1>4, PassedKeeps DEF Unconfirmed, At
<1>5. CASE Kill
  BY <1>5, KillKeeps
<1>6. CASE LatchOnChild \/ LatchOnFault \/ LatchOnStop
  BY <1>6, LatchKeeps DEF LatchOnChild, LatchOnFault, LatchOnStop
<1>7. CASE Begin
  BY <1>7, BeginKeeps
<1>8. CASE Finish
  BY <1>8, FinishKeeps
<1> QED  BY <1>1, <1>2, <1>3, <1>4, <1>5, <1>6, <1>7, <1>8 DEF Supervise

LEMMA CallbackKeeps ==
  ASSUME IInv, Callback \/ Signal
  PROVE  IInv'
<1>1. /\ node.state \in SessionState
      /\ controller \in [up : BOOLEAN, active : BOOLEAN,
                         lifecycle : {"unconfigured", "inactive", "active"}]
  BY DEF IInv, TypeOK, Node
<1>2. CASE OnSimStatus
  BY <1>1, <1>2, Untouched DEF OnSimStatus, supervisor, children, IInv, TypeOK
<1>3. CASE OnPause \/ OnStop
  BY <1>1, <1>3, Untouched DEF OnPause, OnStop, children, IInv, TypeOK
<1>4. CASE Signal
  BY <1>1, <1>4, Untouched DEF Signal, children, IInv, TypeOK
<1> QED  BY <1>2, <1>3, <1>4 DEF Callback
-----------------------------------------------------------------------------
(* Every step keeps it: the children *)

\* Until the supervisor latches, the request served is that of its step.
LEMMA Responds ==
  ASSUME IInv, NEW r \in requests, NEW success, Respond(r, success),
         plan' = plan, mode' = mode
  PROVE  /\ AskInv' /\ requests' \subseteq Request
         /\ answer' \in {"none", "ok", "refused"}
         /\ mode # "LATCHED" =>
              /\ plan # << >> /\ Head(plan) = r
              /\ answer' = "ok" => success
<1>1. r \in Request
  BY DEF IInv, TypeOK
<1>2. requests' \subseteq Request /\ answer' \in {"none", "ok", "refused"}
  BY DEF IInv, TypeOK, Respond
<1>3. mode # "LATCHED" =>
        /\ plan # << >> /\ Head(plan) = r /\ answer = "none"
        /\ requests' = {}
  BY DEF IInv, AskInv, Respond
<1>4. answer' = "ok" => success \/ answer = "ok"
  BY DEF Respond
<1>5. answer' # "none" => plan # << >> /\ Head(plan) \in Request
  BY <1>1 DEF IInv, AskInv, Respond, Walking
<1>6. AskInv'
  BY <1>3, <1>5 DEF AskInv
<1> QED  BY <1>2, <1>3, <1>4, <1>6

LEMMA ServeKeeps ==
  ASSUME IInv, NEW r \in SimRequest, Serve(r)
  PROVE  IInv'
<1>1. r \in requests /\ node \in Node
  BY DEF Serve, IInv, TypeOK
<1>2. PICK success \in BOOLEAN :
        /\ Respond(r, success)
        /\ \/ \E n \in Outcomes(r) : node' = n
           \/ node' = node /\ ~success
  BY DEF Serve
<1>3. /\ UNCHANGED <<mode, reason, pending, plan, main, sim_status, node_up,
                     controller>>
      /\ wire' \in BOOLEAN
      /\ wire' => wire /\ r # "sim_activate"
  BY DEF Serve, supervisor
<1>4. /\ AskInv' /\ requests' \subseteq Request
      /\ answer' \in {"none", "ok", "refused"}
      /\ mode # "LATCHED" =>
           /\ plan # << >> /\ Head(plan) = r
           /\ answer' = "ok" => success
  BY <1>1, <1>2, <1>3, Responds
<1>5. /\ node' \in Node /\ (node'.armed => node.armed \/ r = "sim_arm")
      /\ node'.state # "NORMAL" \/ node' = node
      /\ r = "sim_deactivate" /\ success => ~node'.armed
  BY <1>1, <1>2, ServedNode
<1>6. TypeOK'
  <2>1. SupervisorOK'
    BY <1>3, <1>4, TypeParts DEF IInv, SupervisorOK
  <2>2. ChildrenOK'
    BY <1>3, <1>4, <1>5, TypeParts DEF IInv, ChildrenOK
  <2> QED  BY <2>1, <2>2, TypePartsNext
<1>7. PlanInv'
  BY <1>3 DEF IInv, PlanInv
<1>8. HandInv'
  <2>1. node'.state = "NORMAL" => node'.armed
    BY <1>5 DEF IInv, HandInv
  <2>2. CASE mode = "LATCHED"
    BY <1>3, <2>1, <2>2 DEF IInv, HandInv, AtStep
  <2>3. CASE mode # "LATCHED"
    <3>1. plan # << >> /\ Head(plan) = r /\ Head(plan) \in SimRequest
      BY <1>4, <2>3
    <3>2. mode \in {"BOOTING", "PAUSED"} =>
            /\ r = "sim_arm" \/ (~node'.armed /\ ~controller.active)
            /\ r = "sim_arm" => ~wire' /\ ~controller.active
                                  /\ node'.state # "NORMAL"
            /\ r = "sim_activate" => ~wire' /\ ~controller.active
      BY <1>3, <1>5, <3>1 DEF IInv, HandInv, AtStep, SimRequest
    <3>3. r = "sim_deactivate" =>
            ~controller.active /\ (answer' = "ok" => ~node'.armed)
      BY <1>4, <1>5, <2>3, <3>1 DEF IInv, HandInv, AtStep
    <3> QED  BY <1>3, <2>1, <2>3, <3>1, <3>2, <3>3
             DEF HandInv, AtStep, SimRequest
  <2> QED  BY <2>2, <2>3
<1> QED  BY <1>4, <1>6, <1>7, <1>8 DEF IInv

LEMMA ControllerServesKeeps ==
  ASSUME IInv, NEW r \in ControllerRequest, ControllerServes(r)
  PROVE  IInv'
<1>1. r \in requests
  BY DEF ControllerServes
<1>2. PICK success \in BOOLEAN :
        /\ Respond(r, success)
        /\ success =>
             /\ controller' \in [up : BOOLEAN, active : BOOLEAN,
                         lifecycle : {"unconfigured", "inactive", "active"}]
             /\ controller'.up = controller.up
             /\ controller'.active => r = "controller_activate"
        /\ ~success => controller' = controller
  <2> DEFINE to == IF r = "controller_activate" THEN "active" ELSE "inactive"
  <2>1. CASE /\ controller' = [controller EXCEPT !.lifecycle = to,
                                                 !.active = to = "active"]
             /\ Respond(r, TRUE)
    <3>1. controller \in [up : BOOLEAN, active : BOOLEAN,
                          lifecycle : {"unconfigured", "inactive", "active"}]
      BY DEF IInv, TypeOK
    <3>2. to \in {"inactive", "active"}
      OBVIOUS
    <3>3. controller' \in [up : BOOLEAN, active : BOOLEAN,
                           lifecycle : {"unconfigured", "inactive", "active"}]
      BY <2>1, <3>1, <3>2
    <3>4. controller'.up = controller.up
      BY <2>1, <3>1
    <3>5. controller'.active => r = "controller_activate"
      BY <2>1, <3>1
    <3> QED  BY <2>1, <3>3, <3>4, <3>5
  <2>2. CASE controller' = controller /\ Respond(r, FALSE)
    BY <2>2
  <2> QED  BY <2>1, <2>2 DEF ControllerServes
<1>3. UNCHANGED <<mode, reason, pending, plan, main, sim_status, node, node_up,
                  wire>>
  BY DEF ControllerServes, supervisor
<1>4. /\ AskInv' /\ requests' \subseteq Request
      /\ answer' \in {"none", "ok", "refused"}
      /\ mode # "LATCHED" =>
           /\ plan # << >> /\ Head(plan) = r
           /\ answer' = "ok" => success
  BY <1>1, <1>2, <1>3, Responds
<1>5. /\ controller' \in [up : BOOLEAN, active : BOOLEAN,
                          lifecycle : {"unconfigured", "inactive", "active"}]
      /\ controller'.up => controller.up
      /\ controller'.active => controller.active \/ r = "controller_activate"
      /\ success /\ r = "controller_deactivate" => ~controller'.active
  BY <1>2 DEF IInv, TypeOK
<1>6. TypeOK'
  <2>1. SupervisorOK'
    BY <1>3, <1>4, TypeParts DEF IInv, SupervisorOK
  <2>2. ChildrenOK'
    BY <1>3, <1>4, <1>5, TypeParts DEF IInv, ChildrenOK
  <2> QED  BY <2>1, <2>2, TypePartsNext
<1>7. PlanInv'
  BY <1>3 DEF IInv, PlanInv
<1>8. HandInv'
  <2>1. CASE mode = "LATCHED"
    BY <1>3, <1>5, <2>1 DEF IInv, HandInv, AtStep
  <2>2. CASE mode # "LATCHED"
    <3>1. plan # << >> /\ Head(plan) = r /\ Head(plan) \in ControllerRequest
      BY <1>4, <2>2
    <3>2. mode \in {"BOOTING", "PAUSED"} =>
            r = "controller_activate" \/ (~node.armed /\ ~controller'.active)
      BY <1>5, <3>1 DEF IInv, HandInv, AtStep, ControllerRequest
    <3>3. r = "controller_deactivate" /\ answer' = "ok" => ~controller'.active
      BY <1>4, <1>5, <2>2
    <3> QED  BY <1>3, <2>2, <3>1, <3>2, <3>3
             DEF IInv, HandInv, AtStep, ControllerRequest
  <2> QED  BY <2>1, <2>2
<1> QED  BY <1>4, <1>6, <1>7, <1>8 DEF IInv

LEMMA ChildKeeps ==
  ASSUME IInv, Child
  PROVE  IInv'
<1>1. /\ node \in Node /\ node_up \in BOOLEAN /\ wire \in BOOLEAN
      /\ controller \in [up : BOOLEAN, active : BOOLEAN,
                         lifecycle : {"unconfigured", "inactive", "active"}]
  BY DEF IInv, TypeOK
<1>2. ASSUME NEW r \in SimRequest, Serve(r) PROVE IInv'
  BY <1>2, ServeKeeps
<1>3. ASSUME NEW r \in ControllerRequest, ControllerServes(r) PROVE IInv'
  BY <1>3, ControllerServesKeeps
<1>4. CASE Publish
  <2>1. /\ UNCHANGED <<mode, reason, pending, plan, main, sim_status, answer,
                       requests, node, node_up, controller>>
        /\ wire' = TRUE /\ controller.active
    BY <1>4 DEF Publish, supervisor
  <2>2. SupervisorOK'
    BY <2>1, TypeParts DEF IInv, SupervisorOK
  <2>3. ChildrenOK'
    BY <2>1, TypeParts DEF IInv, ChildrenOK
  <2>4. PlanInv' /\ AskInv' /\ HandInv'
    BY <2>1 DEF IInv, PlanInv, AskInv, HandInv, AtStep
  <2> QED  BY <2>2, <2>3, <2>4, TypePartsNext DEF IInv
<1>5. ASSUME UNCHANGED <<mode, reason, pending, plan, main, sim_status, answer,
                         requests, node_up, controller>>,
             wire' \in BOOLEAN, wire' => wire, node' \in Node,
             node'.armed => node.armed,
             \/ node'.state # "NORMAL"
             \/ node' = node
             \/ wire /\ node.armed /\ node'.armed
      PROVE  IInv'
  <2>1. SupervisorOK'
    BY <1>5, TypeParts DEF IInv, SupervisorOK
  <2>2. ChildrenOK'
    BY <1>5, TypeParts DEF IInv, ChildrenOK
  <2>3. PlanInv' /\ AskInv'
    BY <1>5 DEF IInv, PlanInv, AskInv
  <2>4. HandInv'
    BY <1>5 DEF IInv, HandInv, AtStep
  <2> QED  BY <2>1, <2>2, <2>3, <2>4, TypePartsNext DEF IInv
<1>6. CASE Deliver
  <2>1. CASE Moved(node) = {}
    BY <1>1, <1>5, <1>6, <2>1 DEF Deliver, supervisor
  <2>2. CASE Moved(node) # {}
    <3>1. node' \in Moved(node)
      BY <1>6, <2>2 DEF Deliver
    <3>2. node' \in Node /\ node'.armed /\ node.armed
      BY <1>1, <3>1, MovedNode
    <3> QED  BY <1>1, <1>5, <1>6, <3>2 DEF Deliver, supervisor
  <2> QED  BY <2>1, <2>2
<1>7. CASE Fail \/ LoseLease \/ AskReset
  <2>1. node' \in Disarmed(node) \cup Failed(node) \cup Reset(node)
    BY <1>7 DEF Fail, LoseLease, AskReset, NodeBecomes
  <2>2. /\ node' \in Node /\ node'.state # "NORMAL"
        /\ node'.armed => node.armed
    BY <1>1, <2>1, StoppedNode
  <2>3. UNCHANGED <<mode, reason, pending, plan, main, sim_status, answer,
                    requests, node_up, controller>>
    BY <1>7 DEF Fail, LoseLease, AskReset, NodeBecomes, supervisor
  <2>4. wire' = wire \/ wire' = FALSE
    BY <1>7 DEF Fail, LoseLease, AskReset
  <2> QED  BY <1>1, <1>5, <2>2, <2>3, <2>4
<1>8. CASE ControllerLosesLease
  BY <1>1, <1>8, Untouched
  DEF ControllerLosesLease, supervisor, IInv, TypeOK
<1>9. CASE Die
  BY <1>1, <1>9, Untouched DEF Die, IInv, TypeOK
<1> QED  BY <1>2, <1>3, <1>4, <1>6, <1>7, <1>8, <1>9 DEF Child

LEMMA NextKeeps == IInv /\ [Next]_vars => IInv'
<1> SUFFICES ASSUME IInv, [Next]_vars PROVE IInv'
  OBVIOUS
<1>1. CASE Supervise
  BY <1>1, SuperviseKeeps
<1>2. CASE Callback \/ Signal
  BY <1>2, CallbackKeeps
<1>3. CASE Child
  BY <1>3, ChildKeeps
<1>4. CASE UNCHANGED vars
  <2>1. UNCHANGED <<mode, reason, pending, plan, main, sim_status, answer,
                    requests, node, node_up, controller, wire>>
    BY <1>4 DEF vars, supervisor, children
  <2> QED  BY <2>1, Untouched DEF IInv, TypeOK
<1> QED  BY <1>1, <1>2, <1>3, <1>4 DEF Next

LEMMA Invariant == Spec => []IInv
BY Starts, NextKeeps, PTL DEF Spec

-----------------------------------------------------------------------------
\* Every variable has its type.
THEOREM TypeCorrect == Spec => []TypeOK
<1>1. IInv => TypeOK
  BY DEF IInv
<1> QED  BY <1>1, Invariant, PTL

\* The hand moves only in ACTIVE, in the last step to it or while it is being
\* stopped; PAUSED means that nothing can move it, and LATCHED that its
\* controller is gone: whatever fails, and however late a request is served.
THEOREM ModeIsTrue == Spec => []ModeTellsTheHand
<1>1. ASSUME IInv PROVE ModeTellsTheHand
  <2>1. ASSUME node.state = "NORMAL", mode \notin {"ACTIVE", "LATCHED"}
        PROVE  plan = <<"controller_activate">>
    <3>1. mode \in {"BOOTING", "PAUSED"}
      BY <1>1, <2>1 DEF IInv, TypeOK
    <3>2. plan # << >> /\ Head(plan) = "controller_activate"
      BY <1>1, <2>1, <3>1 DEF IInv, HandInv, AtStep
    <3>3. plan \in Resuming
      <4>1. plan \in Booting \cup Pausing \cup Exiting
        BY <1>1, <3>1, <3>2 DEF IInv, PlanInv, Done, Booting
      <4> QED  BY <3>2, <4>1, AlongBooting, AlongPausing, AlongStopping
    <3> QED  BY <3>2, <3>3, AlongResuming DEF Activating
  <2>2. ASSUME mode = "PAUSED", plan = << >>
        PROVE  ~node.armed /\ requests = {} /\ ~controller.active
    BY <1>1, <2>2 DEF IInv, AskInv, HandInv, AtStep
  <2>3. ASSUME mode = "LATCHED",
               "stop_controller" \notin {plan[i] : i \in DOMAIN plan}
        PROVE  ~controller.up
    <3>1. ~AtStep({"stop_controller"})
      <4>1. plan \in Seq(Step)
        BY <1>1 DEF IInv, TypeOK
      <4>2. plan # << >> => 1 \in DOMAIN plan /\ Head(plan) = plan[1]
        BY <4>1, EmptySeq, LenProperties
      <4> QED  BY <2>3, <4>2 DEF AtStep
    <3> QED  BY <1>1, <2>3, <3>1 DEF IInv, HandInv
  <2> QED  BY <2>1, <2>2, <2>3 DEF ModeTellsTheHand
<1> QED  BY <1>1, Invariant, PTL
\* What a latched supervisor never does again: it forgets neither mode nor
\* reason, takes no request, and sends none but sim_stop
\* (s6_ros2_supervisor.py:82-100, 163-180, 207-211).
LatchHolds ==
  mode = "LATCHED" =>
    /\ UNCHANGED <<mode, reason, pending>>
    /\ requests' \subseteq requests \cup {"sim_stop"}

\* A latch is final, whatever was on its way when it came.
THEOREM LatchIsFinal == Spec => [][LatchHolds]_vars
<1>1. ASSUME IInv, [Next]_vars PROVE [LatchHolds]_vars
  <2> SUFFICES ASSUME mode = "LATCHED", Next
               PROVE  /\ UNCHANGED <<mode, reason, pending>>
                      /\ requests' \subseteq requests \cup {"sim_stop"}
    BY <1>1 DEF LatchHolds
  <2>1. CASE Issue
    <3>1. plan # << >> /\ Head(plan) \in Request
      BY <2>1 DEF Issue, At, Walking
    <3>2. plan \in Latching \cup Exiting
      BY <1>1, <3>1 DEF IInv, PlanInv, Done
    <3>3. Head(plan) = "sim_stop"
      BY <3>1, <3>2, AlongStopping DEF Request, SimRequest, ControllerRequest
    <3> QED  BY <2>1, <3>3 DEF Issue, supervisor
  <2>2. CASE Proceed \/ Unconfirmed
    BY <2>2 DEF Proceed, Unconfirmed, Passed
  <2>3. CASE Kill \/ Finish \/ GiveUp
    BY <2>3 DEF Kill, Finish, GiveUp
  <2>4. CASE LatchOnChild \/ LatchOnFault \/ LatchOnStop \/ Begin
    BY <2>4 DEF LatchOnChild, LatchOnFault, LatchOnStop, Begin, Looping
  <2>5. CASE Callback \/ Signal
    BY <2>5 DEF Callback, OnSimStatus, OnPause, OnStop, Signal, supervisor
  <2>6. ASSUME NEW r \in SimRequest, Serve(r)
        PROVE  /\ UNCHANGED <<mode, reason, pending>>
               /\ requests' \subseteq requests
    BY <2>6 DEF Serve, Respond, supervisor
  <2>7. ASSUME NEW r \in ControllerRequest, ControllerServes(r)
        PROVE  /\ UNCHANGED <<mode, reason, pending>>
               /\ requests' \subseteq requests
    BY <2>7 DEF ControllerServes, Respond, supervisor
  <2>8. CASE \/ Publish \/ Deliver \/ Fail \/ LoseLease \/ ControllerLosesLease
             \/ AskReset \/ Die
    BY <2>8 DEF Publish, Deliver, Fail, LoseLease, ControllerLosesLease,
                AskReset, Die, NodeBecomes, supervisor
  <2> QED  BY <2>1, <2>2, <2>3, <2>4, <2>5, <2>6, <2>7, <2>8
           DEF Next, Supervise, Child
<1> QED  BY <1>1, Invariant, PTL DEF Spec

-----------------------------------------------------------------------------
(* What ends the motion *)

\* The operator's stop waits for the main loop only until it latches: neither a
\* later request nor a plan that is under way replaces it.
StopKept == pending = "stop" => pending' = "stop" \/ mode' = "LATCHED"

\* The controller is gone, nothing it sent is left, and the hand does not move.
Still == ~controller.up /\ ~wire /\ node.state # "NORMAL"

LEMMA StillStays ==
  ASSUME IInv, Next, Still
  PROVE  Still'
<1> USE DEF Still
<1>1. node \in Node /\ controller \in
        [up : BOOLEAN, active : BOOLEAN,
         lifecycle : {"unconfigured", "inactive", "active"}]
  BY DEF IInv, TypeOK
<1>2. CASE Issue \/ Proceed \/ GiveUp \/ Unconfirmed
  BY <1>2 DEF Issue, Proceed, Passed, GiveUp, Latch, Unconfirmed, children
<1>3. CASE Kill
  BY <1>1, <1>3 DEF Kill
<1>4. CASE \/ LatchOnChild \/ LatchOnFault \/ LatchOnStop \/ Begin \/ Finish
           \/ Callback \/ Signal
  BY <1>4 DEF LatchOnChild, LatchOnFault, LatchOnStop, Latch, Begin, Finish,
     Callback, OnSimStatus, OnPause, OnStop, Signal, children
<1>5. ASSUME NEW r \in SimRequest, Serve(r)
      PROVE  Still'
  <2>1. node' = node \/ \E n \in Outcomes(r) : node' = n
    BY <1>5 DEF Serve
  <2>2. node'.state # "NORMAL"
    BY <1>1, <2>1, ServedNode
  <2> QED  BY <1>5, <2>2 DEF Serve
<1>6. CASE Publish \/ \E r \in ControllerRequest : ControllerServes(r)
  BY <1>6 DEF Publish, ControllerServes
<1>7. CASE Deliver
  BY <1>7 DEF Deliver
<1>8. CASE Fail \/ LoseLease \/ AskReset
  <2>1. node' \in Disarmed(node) \cup Failed(node) \cup Reset(node)
    BY <1>8 DEF Fail, LoseLease, AskReset, NodeBecomes
  <2>2. ~wire' /\ ~controller'.up
    BY <1>8 DEF Fail, LoseLease, AskReset, NodeBecomes
  <2>3. node'.state # "NORMAL"
    BY <1>1, <2>1, StoppedNode
  <2> QED  BY <2>2, <2>3
<1>9. CASE ControllerLosesLease \/ Die
  BY <1>1, <1>9 DEF ControllerLosesLease, Die
<1> QED  BY <1>2, <1>3, <1>4, <1>5, <1>6, <1>7, <1>8, <1>9
         DEF Next, Supervise, Child

\* A stop that is accepted is not lost before it latches; and a hand that has
\* come to rest without its controller never moves again, whatever request is
\* still served, late, and whoever resets the node: what StopEndsMotion waits
\* for is never undone (s6_ros2_supervisor.py:96-101, 163-180, 228-230).
THEOREM StopsAreKept == Spec => [][StopKept]_vars /\ [][Still => Still']_vars
<1>1. ASSUME Next PROVE StopKept
  <2> USE DEF StopKept
  <2>1. CASE Issue \/ Proceed \/ Unconfirmed \/ Kill \/ Finish
    BY <2>1 DEF Issue, Proceed, Unconfirmed, Passed, Kill, Finish, supervisor
  <2>2. CASE GiveUp \/ LatchOnChild \/ LatchOnFault \/ LatchOnStop
    BY <2>2 DEF GiveUp, LatchOnChild, LatchOnFault, LatchOnStop, Latch
  <2>3. CASE Begin \/ Callback \/ Signal
    BY <2>3 DEF Begin, Callback, OnSimStatus, OnPause, OnStop, Signal,
       supervisor
  <2>4. CASE Child
    BY <2>4 DEF Child, Serve, ControllerServes, Publish, Deliver, Fail,
       LoseLease, ControllerLosesLease, AskReset, Die, NodeBecomes, supervisor
  <2> QED  BY <1>1, <2>1, <2>2, <2>3, <2>4 DEF Next, Supervise
<1>2. [Next]_vars => [StopKept]_vars
  BY <1>1
<1>3. IInv /\ [Next]_vars => [Still => Still']_vars
  BY StillStays
<1> QED  BY <1>2, <1>3, Invariant, PTL DEF Spec

-----------------------------------------------------------------------------
(* What becomes of a pause *)

\* A pause that is accepted is taken up, or a stop or a latch comes before it.
PauseKept ==
  pending = "pause" =>
    \/ pending' \in {"pause", "stop"}
    \/ plan' = PausePlan
    \/ mode' = "LATCHED"

\* And once it is taken up, it is walked to its end or given up into a latch:
\* nothing skips a step of it, repeats one or puts another plan in its place.
PauseWalked ==
  plan \in Pausing =>
    \/ plan' = plan
    \/ plan' = Tail(plan) /\ plan' \in Pausing
    \/ plan' = << >> /\ mode' = "PAUSED"
    \/ mode' = "LATCHED"

LEMMA PauseStep ==
  ASSUME IInv, Next, plan \in Pausing
  PROVE  \/ plan' = plan
         \/ plan' = Tail(plan) /\ plan' \in Pausing
         \/ plan' = << >> /\ mode' = "PAUSED"
         \/ mode' = "LATCHED"
<1>1. plan # << >> /\ Head(plan) \notin Kills
  BY NotEmpty, AlongPausing DEF Kills
<1>2. CASE Passed
  <2>1. plan' = Tail(plan)
    BY <1>2 DEF Passed
  <2>2. CASE Len(plan) > 1
    <3>1. Tail(plan) \in Pausing
      BY <2>2, AlongPausing
    <3> QED  BY <2>1, <3>1
  <2>3. CASE ~(Len(plan) > 1)
    <3>1. Head(plan) = "PAUSED" /\ Tail(plan) = << >>
      BY <2>3, AlongPausing
    <3>2. mode' = "PAUSED" \/ mode' = "LATCHED"
      BY <1>2, <2>3, <3>1 DEF Passed
    <3> QED  BY <2>1, <3>1, <3>2
  <2> QED  BY <2>2, <2>3
<1>3. CASE Issue \/ Callback \/ Signal
  BY <1>3 DEF Issue, Callback, OnSimStatus, OnPause, OnStop, Signal, supervisor
<1>4. CASE GiveUp
  BY <1>4 DEF GiveUp, Latch
<1>5. ~(\/ Kill \/ LatchOnChild \/ LatchOnFault \/ LatchOnStop \/ Begin
        \/ Finish)
  BY <1>1 DEF Kill, At, LatchOnChild, LatchOnFault, LatchOnStop, Begin,
     Looping, Finish
<1>6. CASE Child
  BY <1>6 DEF Child, Serve, ControllerServes, Publish, Deliver, Fail,
     LoseLease, ControllerLosesLease, AskReset, Die, NodeBecomes, supervisor
<1> QED  BY <1>2, <1>3, <1>4, <1>5, <1>6
         DEF Next, Supervise, Proceed, Unconfirmed

\* A pause is neither lost before it is taken up nor left half done after it:
\* the safety half of PauseSettles (s6_ros2_supervisor.py:228-242).
THEOREM PausesAreWalked ==
  Spec => [][PauseKept]_vars /\ [][PauseWalked]_vars
<1>1. ASSUME Next PROVE PauseKept
  <2> USE DEF PauseKept
  <2>1. CASE Issue \/ Proceed \/ Unconfirmed \/ Kill \/ Finish
    BY <2>1 DEF Issue, Proceed, Unconfirmed, Passed, Kill, Finish, supervisor
  <2>2. CASE GiveUp \/ LatchOnChild \/ LatchOnFault \/ LatchOnStop
    BY <2>2 DEF GiveUp, LatchOnChild, LatchOnFault, LatchOnStop, Latch
  <2>3. CASE Begin \/ Callback \/ Signal
    BY <2>3 DEF Begin, Planned, Callback, OnSimStatus, OnPause, OnStop, Signal,
       supervisor
  <2>4. CASE Child
    BY <2>4 DEF Child, Serve, ControllerServes, Publish, Deliver, Fail,
       LoseLease, ControllerLosesLease, AskReset, Die, NodeBecomes, supervisor
  <2> QED  BY <1>1, <2>1, <2>2, <2>3, <2>4 DEF Next, Supervise
<1>2. [Next]_vars => [PauseKept]_vars
  BY <1>1
<1>3. IInv /\ [Next]_vars => [PauseWalked]_vars
  BY PauseStep DEF PauseWalked
<1> QED  BY <1>2, <1>3, Invariant, PTL DEF Spec

-----------------------------------------------------------------------------
(* How long a plan can be *)

\* The supervisor has still to make the request it is at.
Unasked == Walking /\ Head(plan) \notin requests /\ answer = "none"

\* What it has to do before its plan is over: two steps at most for each step
\* that is left, to ask and to pass.
PlanLeft == 2 * Len(plan) + IF Unasked THEN 1 ELSE 0

FewPlanSteps == PlanLeft \in 0 .. 2 * Len(BootPlan) + 1

\* Each step of the supervisor within a plan brings its end nearer, unless it
\* latches, which it does once; and nobody adds to a plan.
PlanShrinks ==
  plan # << >> =>
    IF Supervise
      THEN \/ PlanLeft' < PlanLeft
           \/ mode # "LATCHED" /\ mode' = "LATCHED"
      ELSE PlanLeft' <= PlanLeft

LEMMA OneLess ==
  ASSUME IInv, plan # << >>
  PROVE  Len(plan) \in Nat /\ Len(plan) >= 1 /\ Len(Tail(plan)) = Len(plan) - 1
<1>1. plan \in Seq(Step)
  BY DEF IInv, TypeOK
<1> QED  BY <1>1, EmptySeq, HeadTailProperties, LenProperties

\* The answer to the request it waits for ends the wait; another one's is not
\* taken for it.
LEMMA NothingUnasked ==
  ASSUME UNCHANGED <<plan, main>>, NEW r, NEW success \in BOOLEAN,
         Respond(r, success), Unasked'
  PROVE  Unasked
<1>1. Walking /\ Head(plan) \notin requests' /\ answer' = "none"
  BY DEF Unasked, Walking, Running
<1>2. requests' = requests \ {r}
  BY DEF Respond
<1>3. Head(plan) # r
  <2> SUFFICES ASSUME Head(plan) = r PROVE FALSE
    OBVIOUS
  <2>1. answer' \in {"ok", "refused"}
    BY <1>1 DEF Respond
  <2> QED  BY <1>1, <2>1
<1>4. answer' = answer
  BY <1>3 DEF Respond
<1> QED  BY <1>1, <1>2, <1>3, <1>4 DEF Unasked

LEMMA ShrinkStep ==
  ASSUME IInv, Next, plan # << >>
  PROVE  PlanShrinks
<1> USE DEF PlanShrinks
<1>1. Len(plan) \in Nat /\ Len(plan) >= 1 /\ Len(Tail(plan)) = Len(plan) - 1
  BY OneLess
<1>2. ASSUME UNCHANGED plan, Unasked' => Unasked
      PROVE  PlanLeft' <= PlanLeft
  BY <1>1, <1>2 DEF PlanLeft
<1>3. ASSUME plan' = Tail(plan)
      PROVE  PlanLeft' < PlanLeft
  BY <1>1, <1>3 DEF PlanLeft
<1>4. CASE Issue
  <2>1. Unasked /\ ~Unasked' /\ plan' = plan
    BY <1>4 DEF Issue, At, Unasked, Walking, supervisor
  <2>2. PlanLeft' < PlanLeft
    BY <1>1, <2>1 DEF PlanLeft
  <2> QED  BY <1>4, <2>2 DEF Supervise
<1>5. CASE Proceed \/ Unconfirmed \/ Kill
  <2>1. plan' = Tail(plan)
    BY <1>5 DEF Proceed, Unconfirmed, Passed, Kill
  <2> QED  BY <1>3, <1>5, <2>1 DEF Supervise
<1>6. CASE GiveUp
  BY <1>6 DEF GiveUp, Latch, Supervise
<1>7. ~(LatchOnChild \/ LatchOnFault \/ LatchOnStop \/ Begin \/ Finish)
  BY DEF LatchOnChild, LatchOnFault, LatchOnStop, Begin, Looping, Finish
<1>8. ASSUME PlanLeft' <= PlanLeft, ~Supervise PROVE PlanShrinks
  BY <1>8
<1>9. CASE Callback \/ Signal
  <2>1. UNCHANGED <<plan, answer, requests>> /\ (Running' => Running)
    BY <1>9 DEF Callback, OnSimStatus, OnPause, OnStop, Signal, supervisor,
       Running
  <2>2. PlanLeft' <= PlanLeft
    BY <1>2, <2>1 DEF Unasked, Walking
  <2> QED  BY <1>4, <1>5, <1>6, <1>7, <1>8, <2>2 DEF Supervise
<1>10. ASSUME NEW r, Serve(r) \/ ControllerServes(r)
       PROVE  PlanLeft' <= PlanLeft
  <2>1. UNCHANGED <<plan, main>>
    BY <1>10 DEF Serve, ControllerServes, supervisor
  <2>2. \E success \in BOOLEAN : Respond(r, success)
    BY <1>10 DEF Serve, ControllerServes
  <2> QED  BY <1>2, <2>1, <2>2, NothingUnasked
<1>11. ASSUME \/ Publish \/ Deliver \/ Fail \/ LoseLease
              \/ ControllerLosesLease \/ AskReset \/ Die
       PROVE  PlanLeft' <= PlanLeft
  <2>1. UNCHANGED <<plan, answer, requests>> /\ (Running' => Running)
    BY <1>11 DEF Publish, Deliver, Fail, LoseLease, ControllerLosesLease,
       AskReset, Die, NodeBecomes, supervisor, Running
  <2> QED  BY <1>2, <2>1 DEF Unasked, Walking
<1>12. CASE Child
  <2>1. PlanLeft' <= PlanLeft
    BY <1>10, <1>11, <1>12 DEF Child
  <2> QED  BY <1>4, <1>5, <1>6, <1>7, <1>8, <2>1 DEF Supervise
<1> QED  BY <1>4, <1>5, <1>6, <1>7, <1>9, <1>12 DEF Next, Supervise

\* Whatever the supervisor is about, a start, a pause, a resume, a latch or its
\* exit, it is over after a bounded number of its own steps: no late service, no
\* death and no callback adds to it, and the one thing that can replace it, a
\* latch, comes once (s6_ros2_supervisor.py:122-180, 207-255).
THEOREM PlansEndSoon == Spec => []FewPlanSteps /\ [][PlanShrinks]_vars
<1>1. ASSUME IInv PROVE FewPlanSteps
  <2>1. Len(plan) \in Nat /\ Len(plan) <= Len(BootPlan) /\ Len(BootPlan) = 7
    BY <1>1, BootIsHearing, Lengths, LenProperties DEF IInv, TypeOK
  <2> QED  BY <2>1 DEF FewPlanSteps, PlanLeft
<1>2. IInv /\ [Next]_vars => [PlanShrinks]_vars
  BY ShrinkStep DEF PlanShrinks
<1> QED  BY <1>1, <1>2, Invariant, PTL DEF Spec
=============================================================================
