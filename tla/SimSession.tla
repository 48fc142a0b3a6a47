----------------------------- MODULE SimSession -----------------------------
(***************************************************************************)
(* simulation/s6_official_bridge.py, SimSession: the state machine that    *)
(* owns the plant and the control bridge.  A session is a record and its   *)
(* methods are functions of it; whoever owns it calls one at a time.       *)
(*                                                                         *)
(* Simulated time is counted in ticks of TICK_US and kept as ages: a       *)
(* command or a target is age ticks old by the plant's clock, and negative *)
(* when its stamp is ahead of it.  A target is its age: the positions make *)
(* no difference to any decision.  Steady time is one Boolean, silent:     *)
(* more than wall_timeout_s since the last command was accepted.           *)
(***************************************************************************)
EXTENDS Integers

CONSTANTS
  TTL,                  \* COMMAND_TTL_US, in ticks
  Ahead,                \* bound: how far ahead of the clock a stamp can be
  NoTarget              \* target is None

ASSUME AgesAssumption ==
  TTL \in Nat /\ Ahead \in Nat \ {0} /\ NoTarget \notin Int

\* Past TTL + 1 a stamp gets no staler.
Age == -Ahead .. TTL + 1
Older(age) == IF age > TTL THEN age ELSE age + 1

\* "NONE" stands for self.session is None in the node, which then has no
\* other field to read: epoch and last keep what they last were.
State == {"NONE", "READY", "NORMAL", "PAUSED", "SAFE_STOP", "FAULT"}

Session == [state : State, bridge : {"open", "closed"}, epoch : Nat,
            target : Age \cup {NoTarget}, last : Int, silent : BOOLEAN]

FreshSession(epoch) ==
  [state |-> "READY", bridge |-> "open", epoch |-> epoch, target |-> NoTarget,
   last |-> -1, silent |-> FALSE]

\* The states in which commands are accepted and tick() runs.
Commandable(s) == s.state \in {"READY", "NORMAL"}

\* What every stop and every pause does besides changing the state.
Disarmed(s) == [s EXCEPT !.target = NoTarget, !.silent = FALSE,
                         !.bridge = "closed"]

Stopped(s) == [Disarmed(s) EXCEPT !.state = "SAFE_STOP"]

\* Mutant of Paused: the bridge is left running.
PausedKeepsBridge(s) == [s EXCEPT !.target = NoTarget, !.silent = FALSE,
                                  !.state = "PAUSED"]

Paused(s) == [Disarmed(s) EXCEPT !.state = "PAUSED"]

\* pause(False) and reset(): the bridge is made anew, or that fails.
Renewed(s, made) ==
  [FreshSession(s.epoch + 1) EXCEPT
     !.state = IF made THEN "READY" ELSE "FAULT",
     !.bridge = IF made THEN "open" ELSE "closed"]

\* validate_command(), but for the names and positions.
Acceptable(s, id, c) ==
  /\ Commandable(s)
  /\ c.session = id
  /\ c.epoch = s.epoch
  /\ c.sequence > s.last
  /\ c.age \in -1 .. TTL

Accept(s, c) == [s EXCEPT !.target = c.age, !.last = c.sequence,
                          !.silent = FALSE]

\* Mutant of Overdue: tick() leaves the TTL to the acceptance of commands.
OverdueSilent(s) == s.state = "NORMAL" /\ s.target # NoTarget /\ s.silent

\* tick() raises: nobody has been heard for too long, by either clock.
Overdue(s) ==
  /\ Commandable(s) /\ s.target # NoTarget
  /\ (s.state = "NORMAL" /\ s.silent) \/ s.target > TTL

\* tick() steps the bridge and the plant.
CanStep(s) == Commandable(s) /\ s.target # NoTarget /\ ~Overdue(s)

\* Mutant of Stepped: the age of the target is not looked at again.
SteppedAgeless(s) == [s EXCEPT !.state = "NORMAL"]

Stepped(s) == [s EXCEPT !.state = "NORMAL", !.target = Older(s.target)]
=============================================================================
