----------------------- MODULE FeedbackSafetyMonitor -----------------------
(***************************************************************************)
(* cpp/src/safety/FeedbackSafetyMonitor.cpp and SafetyStateMachine.cpp: a  *)
(* monitor is a record, and evaluate a function from a monitor and what a  *)
(* control cycle sees of the feedback to the next monitor and a decision.  *)
(*                                                                         *)
(* A cycle sees the worst of the servos: "critical" when one is invalid,   *)
(* from the future, not finite or older than hard_timeout; "warning" when  *)
(* one is older than warning_age; else "good".  grace says that the cycle  *)
(* is within startup_grace of the first one.                               *)
(***************************************************************************)
EXTENDS Naturals

CONSTANTS
  WarningTicks,     \* config_.warning_ticks
  StopTicks         \* config_.stop_ticks

ASSUME TicksAssumption == WarningTicks \in Nat \ {0} /\ StopTicks \in Nat \ {0}

SafetyState == {"NORMAL", "DEGRADED", "SAFE_STOP"}   \* nobody calls fault()
Health == {"good", "warning", "critical"}

\* The warnings are only compared with warning_ticks: their count stops there.
\* The criticals are reported, and end the cycles at stop_ticks.
Monitor == [state : SafetyState, everHealthy : BOOLEAN, inhibited : BOOLEAN,
            warnings : 0..WarningTicks, criticals : Nat]

FreshMonitor == [state |-> "NORMAL", everHealthy |-> FALSE, inhibited |-> FALSE,
                 warnings |-> 0, criticals |-> 0]

\* SafetyStateMachine::degrade(); its requestStop() is the state SAFE_STOP.
Degrade(state) == IF state = "NORMAL" THEN "DEGRADED" ELSE state

\* The feedback is still filling up: the monitor only looks.
StartupWaiting(m, health, grace) ==
  ~m.everHealthy /\ health = "critical" /\ grace

Critical(m) ==
  LET criticals == m.criticals + 1
  IN [m EXCEPT !.criticals = criticals, !.warnings = 0, !.inhibited = TRUE,
               !.state = IF criticals >= StopTicks
                           THEN "SAFE_STOP" ELSE Degrade(m.state)]

Warning(m) ==
  LET warnings == IF m.warnings < WarningTicks THEN m.warnings + 1
                                               ELSE m.warnings
  IN [m EXCEPT !.everHealthy = TRUE, !.criticals = 0, !.warnings = warnings,
               !.state = IF warnings >= WarningTicks THEN Degrade(m.state)
                                                     ELSE m.state]

\* Mutant of Good: good feedback lifts the inhibition.
GoodLifts(m) == [m EXCEPT !.everHealthy = TRUE, !.criticals = 0, !.warnings = 0,
                          !.inhibited = FALSE]

Good(m) == [m EXCEPT !.everHealthy = TRUE, !.criticals = 0, !.warnings = 0]

\* The monitor after evaluate().
Evaluate(m, health, grace) ==
  CASE StartupWaiting(m, health, grace) -> m
    [] health = "critical" /\ ~StartupWaiting(m, health, grace) -> Critical(m)
    [] health = "warning" -> Warning(m)
    [] health = "good" -> Good(m)

\* What evaluate() decides.  During the startup wait it reports the state alone.
Decision(m, health, grace) ==
  LET waiting == StartupWaiting(m, health, grace)
      next == Evaluate(m, health, grace)
  IN [startupWaiting |-> waiting,
      inhibitMotion |-> ~waiting /\ next.inhibited,
      safeStop |-> ~waiting /\ next.state = "SAFE_STOP"]
=============================================================================
