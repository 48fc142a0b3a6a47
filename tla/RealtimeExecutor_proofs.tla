----------------------- MODULE RealtimeExecutor_proofs -----------------------
(***************************************************************************)
(* The safety of the executor, for any set of callers, any batch, any      *)
(* configuration of the monitor and every bound.                           *)
(***************************************************************************)
EXTENDS RealtimeExecutor, FiniteSetTheorems, TLAPS

Place == {"none", "top", "check", "blocking", "blocked", "failing", "ended",
          "cycle", "inhibit", "clear", "decided", "tick", "computed",
          "rejected", "take", "send", "tx", "sent", "poll"}

Locking == {"spawning", "unwinding", "stopping"}

\* A caller holds the lifecycle mutex exactly inside start() and stop().
LockInv == \A c \in Caller : app[c] \in Locking <=> lifecycle = c

\* Before start() there is nothing; inside it there is one thread at most.
StartInv ==
  /\ ~started =>
       /\ handles = {} /\ monitor.criticals = 0
       /\ \A w \in Worker : at[w] = "none"
       /\ \A c \in Caller : app[c] = "idle" /\ moved[c] = {}
  /\ \A c \in Caller : app[c] \in {"spawning", "unwinding"} =>
       /\ handles = {"control"} /\ at["comm"] = "none"
       /\ \A d \in Caller : moved[d] = {}

\* Every thread that runs has one owner, and only who joins owns on the stack.
OwnInv ==
  /\ \A c \in Caller : moved[c] # {} => app[c] = "joining"
  /\ \A c \in Caller : \A w \in moved[c] :
       w \notin handles /\ \A d \in Caller : w \in moved[d] => d = c
  /\ \A w \in Worker : ~Ended(w) =>
       w \in handles \/ \E c \in Caller : w \in moved[c]

\* What can stop the gate beyond the bound, and only once each.
Inhibited == gate_inhibited \/ at["control"] = "clear"
StartOver == started /\ \A c \in Caller : app[c] # "spawning"
Once(b) == IF b THEN 1 ELSE 0
Extra == Once(Inhibited) + Once(StartOver)
           + Once(at["control"] = "ended") + Once(at["comm"] = "ended")

CountInv ==
  /\ generation <= MaxGeneration + Extra + 1
  /\ (\E c \in Caller : app[c] = "stopping") =>
       generation <= MaxGeneration + Extra

\* The cycles end at stop_ticks.
MonitorInv ==
  monitor.criticals = StopTicks =>
    \/ at["control"] \in {"inhibit", "clear", "decided"} /\ decision.safeStop
    \/ at["control"] = "top" /\ stopping
    \/ at["control"] = "ended"

\* From the first inhibition on nothing is published, and what was published
\* or taken before it is of an older generation.
InhibitInv ==
  /\ mailbox <= generation /\ held <= generation
  /\ at["control"] \in {"inhibit", "clear"} =>
       ~gate_inhibited /\ monitor.inhibited /\ decision.inhibitMotion
  /\ at["control"] = "clear" => mailbox < generation /\ held < generation
  /\ gate_inhibited =>
       /\ monitor.inhibited /\ mailbox = 0 /\ held < generation
       /\ at["control"] \notin {"tick", "computed", "rejected"}
       /\ at["control"] = "decided" => ~Allowed

IInv ==
  /\ TypeOK /\ LockInv /\ StartInv /\ OwnInv /\ CountInv /\ MonitorInv
  /\ InhibitInv

Assumptions == TicksAssumption /\ CallerAssumption /\ BoundAssumption

LEMMA Constants ==
  ASSUME Assumptions
  PROVE  /\ WarningTicks \in Nat \ {0} /\ StopTicks \in Nat \ {0}
         /\ NoCaller \notin Caller
         /\ Servos \in Nat /\ MaxGeneration \in Nat \ {0}
BY DEF Assumptions, TicksAssumption, CallerAssumption, BoundAssumption

LEMMA Initially == Assumptions /\ Init => IInv
<1> SUFFICES ASSUME Assumptions, Init PROVE IInv
  OBVIOUS
<1> USE Constants DEF Init
<1>1. TypeOK
  <2>1. monitor \in Monitor /\ monitor.criticals = 0 /\ 0 <= StopTicks
    BY DEF FreshMonitor, Monitor, SafetyState
  <2>2. decision \in [startupWaiting : BOOLEAN, inhibitMotion : BOOLEAN,
                      safeStop : BOOLEAN]
    BY DEF Free
  <2>3. generation \in Generation /\ mailbox \in Generation \cup {0}
        /\ held \in Generation \cup {0} /\ left \in 0..Servos
    BY DEF Generation
  <2>4. /\ at \in [Worker -> {"none"}] /\ moved \in [Caller -> SUBSET Worker]
        /\ app \in [Caller -> {"idle"}] /\ handles \in SUBSET Worker
        /\ lifecycle \in Caller \cup {NoCaller}
    OBVIOUS
  <2>5. /\ stopped \in BOOLEAN /\ started \in BOOLEAN /\ stopping \in BOOLEAN
        /\ grace_over \in BOOLEAN /\ gate_inhibited \in BOOLEAN
    OBVIOUS
  <2> QED  BY <2>1, <2>2, <2>3, <2>4, <2>5 DEF TypeOK
<1>2. LockInv /\ StartInv /\ OwnInv
  BY DEF LockInv, StartInv, OwnInv, Locking, Ended, Worker, FreshMonitor
<1>3. CountInv
  BY DEF CountInv, Extra, Once
<1>4. MonitorInv /\ InhibitInv
  BY DEF MonitorInv, InhibitInv, FreshMonitor, Worker
<1> QED  BY <1>1, <1>2, <1>3, <1>4 DEF IInv

-----------------------------------------------------------------------------
(* How the workers move *)

LEMMA Places == TypeOK => at \in [Worker -> Place]
BY DEF TypeOK, Place

LEMMA Notifies ==
  ASSUME NEW places \in [Worker -> Place]
  PROVE  /\ Notified(places) \in [Worker -> Place]
         /\ \A w \in Worker : Notified(places)[w] =
              IF places[w] = "blocked" THEN "check" ELSE places[w]
BY DEF Notified, Place

LEMMA Goes ==
  ASSUME at \in [Worker -> Place], NEW w \in Worker, NEW p \in Place, Go(w, p)
  PROVE  /\ at' \in [Worker -> Place] /\ at'[w] = p
         /\ \A v \in Worker : v # w => at'[v] = at[v]
BY DEF Go

LEMMA Workers == "control" \in Worker /\ "comm" \in Worker
                 /\ \A w \in Worker : w = "control" \/ w = "comm"
BY DEF Worker

\* What both workers do moves the one that does it, and may wake the other.
LEMMA SharedSteps ==
  ASSUME TypeOK, NEW w \in Worker,
         \/ LoopTop(w) \/ CheckPredicate(w) \/ Block(w) \/ TimeOut(w)
         \/ Throw(w) \/ FailSafe(w)
  PROVE  /\ at' \in [Worker -> Place] /\ ~Ended(w)
         /\ \A v \in Worker : v # w =>
              at'[v] = at[v] \/ (at[v] = "blocked" /\ at'[v] = "check")
         /\ at'[w] \in {"ended", "check", "take", "blocking", "blocked",
                        "cycle", "top", "failing"}
         /\ at'[w] = "take" => w = "comm"
         /\ at'[w] = "top" => w = "comm"
         /\ stopping => stopping'
         /\ UNCHANGED <<mailbox, lifecycleVars, safety, sending>>
<1> USE Places, Workers DEF Place, Ended
<1>1. CASE LoopTop(w)
  <2>1. PICK p \in {"ended", "check", "take"} :
          Go(w, p) /\ (p = "take" => w = "comm")
    BY <1>1 DEF LoopTop
  <2> QED  BY <1>1, <2>1, Goes DEF LoopTop
<1>2. CASE CheckPredicate(w)
  <2>1. PICK p \in {"ended", "blocking"} : Go(w, p)
    BY <1>2 DEF CheckPredicate
  <2> QED  BY <1>2, <2>1, Goes DEF CheckPredicate
<1>3. CASE Block(w)
  BY <1>3, Goes DEF Block
<1>4. CASE TimeOut(w)
  <2>1. PICK p \in {"ended", "cycle", "top"} :
          Go(w, p) /\ (p = "top" => w = "comm")
    BY <1>4 DEF TimeOut, AfterWait
  <2> QED  BY <1>4, <2>1, Goes DEF TimeOut
<1>5. CASE Throw(w)
  BY <1>5, Goes DEF Throw
<1>6. CASE FailSafe(w)
  <2> DEFINE there == [at EXCEPT ![w] = "ended"]
  <2>1. there \in [Worker -> Place] /\ there[w] = "ended"
        /\ \A v \in Worker : v # w => there[v] = at[v]
    OBVIOUS
  <2>2. at' = Notified(there)
    BY <1>6 DEF FailSafe
  <2> HIDE DEF there
  <2>3. /\ at' \in [Worker -> Place]
        /\ \A v \in Worker : at'[v] =
             IF there[v] = "blocked" THEN "check" ELSE there[v]
    BY <2>1, <2>2, Notifies
  <2>4. at[w] = "failing"
        /\ UNCHANGED <<mailbox, stopping, lifecycleVars, safety, sending>>
    BY <1>6 DEF FailSafe
  <2> QED  BY <2>1, <2>3, <2>4
<1> QED  BY <1>1, <1>2, <1>3, <1>4, <1>5, <1>6

LEMMA ControlMoves ==
  ASSUME TypeOK, ControlStep
  PROVE  /\ at' \in [Worker -> Place] /\ ~Ended("control")
         /\ \/ at'["comm"] = at["comm"]
            \/ at["comm"] = "blocked" /\ at'["comm"] = "check"
         /\ at'["control"] # "none"
         /\ stopping => stopping'
         /\ UNCHANGED <<lifecycleVars, sending>>
<1> USE Places, Workers DEF Place, Ended
<1>1. CASE \/ LoopTop("control") \/ CheckPredicate("control")
           \/ Block("control") \/ TimeOut("control") \/ Throw("control")
           \/ FailSafe("control")
  <2>1. "comm" # "control"
    OBVIOUS
  <2> QED  BY <1>1, <2>1, SharedSteps
<1>2. ASSUME NEW health \in Health, NEW over \in BOOLEAN,
             EvaluateFeedback(health, over)
      PROVE  /\ at["control"] = "cycle"
             /\ \E p \in {"inhibit", "decided"} : Go("control", p)
             /\ UNCHANGED <<stopping, lifecycleVars, sending>>
  BY <1>2 DEF EvaluateFeedback
<1>3. ASSUME \/ Inhibit \/ ClearPending \/ TickComputes \/ TickIdles
             \/ TickRejects \/ TickClears \/ TickPublishes
      PROVE  /\ at["control"] \in {"inhibit", "clear", "tick", "rejected",
                                   "computed"}
             /\ \E p \in {"clear", "decided", "computed", "top", "rejected"} :
                  Go("control", p)
             /\ UNCHANGED <<stopping, lifecycleVars, sending>>
  BY <1>3 DEF Inhibit, ClearPending, TickComputes, TickIdles, TickRejects,
     TickClears, TickPublishes
<1>4. CASE Decide
  <2> DEFINE next ==
        [at EXCEPT !["control"] = IF Allowed THEN "tick" ELSE "top"]
  <2>1. /\ next \in [Worker -> Place] /\ next["comm"] = at["comm"]
        /\ next["control"] \in {"tick", "top"}
    OBVIOUS
  <2>2. /\ at["control"] = "decided" /\ at' \in {next, Notified(next)}
        /\ stopping => stopping'
        /\ UNCHANGED <<lifecycleVars, sending>>
    BY <1>4 DEF Decide
  <2> HIDE DEF next
  <2>3. /\ Notified(next) \in [Worker -> Place]
        /\ \A v \in Worker : Notified(next)[v] =
             IF next[v] = "blocked" THEN "check" ELSE next[v]
    BY <2>1, Notifies
  <2> QED  BY <2>1, <2>2, <2>3
<1>5. ASSUME NEW p \in Place, Go("control", p)
      PROVE  /\ at' \in [Worker -> Place] /\ at'["control"] = p
             /\ at'["comm"] = at["comm"]
  BY <1>5, Goes
<1> QED  BY <1>1, <1>2, <1>3, <1>4, <1>5 DEF ControlStep

LEMMA CommMoves ==
  ASSUME TypeOK, CommStep
  PROVE  /\ at' \in [Worker -> Place] /\ ~Ended("comm")
         /\ \/ at'["control"] = at["control"]
            \/ at["control"] = "blocked" /\ at'["control"] = "check"
         /\ at'["comm"] # "none"
         /\ stopping => stopping'
         /\ UNCHANGED <<lifecycleVars, safety>>
<1> USE Places, Workers DEF Place, Ended
<1>1. CASE \/ LoopTop("comm") \/ CheckPredicate("comm")
           \/ Block("comm") \/ TimeOut("comm") \/ Throw("comm")
           \/ FailSafe("comm")
  <2>1. "comm" # "control"
    OBVIOUS
  <2> QED  BY <1>1, <2>1, SharedSteps
<1>2. ASSUME \/ TakeLatest \/ BeginSend \/ EndBatch \/ FinishSend \/ SendFails
             \/ AfterCommands \/ PollSlice
      PROVE  /\ at["comm"] \in {"take", "send", "tx", "sent", "poll"}
             /\ \E p \in {"sent", "send", "tx", "ended", "poll", "check"} :
                  Go("comm", p)
             /\ UNCHANGED <<stopping, lifecycleVars, safety>>
  BY <1>2 DEF TakeLatest, BeginSend, EndBatch, FinishSend, SendFails,
     AfterCommands, PollSlice
<1>3. ASSUME NEW p \in Place, Go("comm", p)
      PROVE  /\ at' \in [Worker -> Place] /\ at'["comm"] = p
             /\ at'["control"] = at["control"]
  BY <1>3, Goes
<1> QED  BY <1>1, <1>2, <1>3 DEF CommStep

\* The application moves no worker that runs, except to wake it.
LEMMA CallMoves ==
  ASSUME TypeOK, NEW c \in Caller,
         \/ SpawnFails(c) \/ Unwind(c) \/ StopBegin(c) \/ StopGateAndMove(c)
         \/ Join(c) \/ Recover
  PROVE  /\ at' \in [Worker -> Place]
         /\ \A w \in Worker :
              \/ at'[w] = at[w]
              \/ at[w] = "blocked" /\ at'[w] = "check"
         /\ stopping => stopping'
         /\ UNCHANGED <<mailbox, started, safety, sending>>
<1>1. at' \in {at, Notified(at)} /\ (stopping => stopping')
      /\ UNCHANGED <<mailbox, started, safety, sending>>
  BY DEF SpawnFails, Unwind, StopBegin, StopGateAndMove, Join, Recover,
     lifecycleVars
<1> QED  BY <1>1, Places, Notifies

-----------------------------------------------------------------------------
(* The mutex and the ownership of the threads *)

LEMMA LockPreserved ==
  ASSUME Assumptions, IInv, [Next]_vars
  PROVE  LockInv'
<1> USE Constants DEF IInv, TypeOK, LockInv, Locking, lifecycleVars
<1>1. ASSUME NEW c \in Caller, NEW created \in BOOLEAN, Start(c, created)
      PROVE  LockInv'
  BY <1>1 DEF Start
<1>2. ASSUME NEW c \in Caller, StopBegin(c) PROVE LockInv'
  BY <1>2 DEF StopBegin
<1>3. ASSUME NEW c \in Caller, SpawnComm(c) PROVE LockInv'
  BY <1>3 DEF SpawnComm
<1>4. ASSUME NEW c \in Caller, SpawnFails(c) PROVE LockInv'
  BY <1>4 DEF SpawnFails
<1>5. ASSUME NEW c \in Caller, Unwind(c) PROVE LockInv'
  BY <1>5 DEF Unwind
<1>6. ASSUME NEW c \in Caller, StopGateAndMove(c) PROVE LockInv'
  BY <1>6 DEF StopGateAndMove
<1>7. ASSUME NEW c \in Caller, Join(c) PROVE LockInv'
  BY <1>7 DEF Join
<1>8. CASE Recover \/ ControlStep \/ CommStep \/ UNCHANGED vars
  <2>1. UNCHANGED <<app, lifecycle>>
    BY <1>8, ControlMoves, CommMoves DEF Recover, vars
  <2> QED  BY <2>1
<1> QED
  BY <1>1, <1>2, <1>3, <1>4, <1>5, <1>6, <1>7, <1>8 DEF Next, CallStep

LEMMA StartPreserved ==
  ASSUME Assumptions, IInv, [Next]_vars
  PROVE  StartInv'
<1> USE Constants, Workers DEF IInv, TypeOK, LockInv, Locking, StartInv,
    lifecycleVars, safety
<1>1. ASSUME NEW c \in Caller, NEW created \in BOOLEAN, Start(c, created)
      PROVE  StartInv'
  <2>1. CASE created
    <3>1. at'["comm"] = "none"
      BY <1>1, <2>1 DEF Start, Go
    <3>2. /\ started' /\ handles' = {"control"} /\ UNCHANGED moved
          /\ \A d \in Caller : moved[d] = {}
      BY <1>1, <2>1 DEF Start
    <3> QED  BY <3>1, <3>2
  <2>2. CASE ~created
    BY <1>1, <2>2 DEF Start
  <2> QED  BY <2>1, <2>2
<1>2. ASSUME NEW c \in Caller, StopBegin(c) PROVE StartInv'
  BY <1>2 DEF StopBegin
<1>3. ASSUME NEW c \in Caller, SpawnComm(c) PROVE StartInv'
  BY <1>3 DEF SpawnComm
<1>4. ASSUME NEW c \in Caller, SpawnFails(c) PROVE StartInv'
  <2>1. at'["comm"] = "none"
    <3>1. at["comm"] = "none"
      BY <1>4 DEF SpawnFails
    <3>2. at'["comm"] = at["comm"] \/ at["comm"] = "blocked"
      <4> HIDE DEF TypeOK, LockInv, StartInv
      <4> QED  BY <1>4, CallMoves
    <3> QED  BY <3>1, <3>2
  <2> QED  BY <1>4, <2>1 DEF SpawnFails
<1>5. ASSUME NEW c \in Caller, Unwind(c) PROVE StartInv'
  BY <1>5 DEF Unwind
<1>6. ASSUME NEW c \in Caller, StopGateAndMove(c) PROVE StartInv'
  BY <1>6 DEF StopGateAndMove
<1>7. ASSUME NEW c \in Caller, Join(c) PROVE StartInv'
  BY <1>7 DEF Join
<1>8. CASE Recover \/ ControlStep \/ CommStep \/ UNCHANGED vars
  <2>1. UNCHANGED <<app, handles, moved, started>>
    BY <1>8, ControlMoves, CommMoves DEF Recover, vars
  <2>2. CASE ControlStep \/ CommStep
    <3>1. at'["comm"] = "none" <=> at["comm"] = "none"
      BY <2>2, ControlMoves, CommMoves DEF Ended
    <3>2. started
      BY <2>2, ControlMoves, CommMoves DEF Ended
    <3> QED  BY <2>1, <3>1, <3>2
  <2>3. CASE Recover \/ UNCHANGED vars
    <3>1. UNCHANGED <<at, monitor>>
      BY <2>3 DEF Recover, vars
    <3> QED  BY <2>1, <3>1
  <2> QED  BY <1>8, <2>2, <2>3
<1> QED
  BY <1>1, <1>2, <1>3, <1>4, <1>5, <1>6, <1>7, <1>8 DEF Next, CallStep

\* No step of a worker, and no wake-up, revives a thread that has ended.
LEMMA NoRevival ==
  ASSUME Assumptions, IInv,
         \/ ControlStep \/ CommStep \/ Recover
         \/ \E c \in Caller : \/ SpawnFails(c) \/ Unwind(c) \/ StopBegin(c)
                              \/ StopGateAndMove(c) \/ Join(c)
  PROVE  \A w \in Worker : Ended(w) => at'[w] = at[w]
<1>1. TypeOK
  BY DEF IInv
<1>2. CASE ControlStep
  BY <1>1, <1>2, ControlMoves, Workers DEF Ended
<1>3. CASE CommStep
  BY <1>1, <1>3, CommMoves, Workers DEF Ended
<1>4. CASE Recover \/ \E c \in Caller : \/ SpawnFails(c) \/ Unwind(c)
                                        \/ StopBegin(c) \/ StopGateAndMove(c)
                                        \/ Join(c)
  <2>1. \A w \in Worker : at'[w] = at[w] \/ at[w] = "blocked"
    <3>1. CASE Recover
      BY <3>1 DEF Recover
    <3>2. ASSUME NEW c \in Caller,
                 \/ SpawnFails(c) \/ Unwind(c) \/ StopBegin(c)
                 \/ StopGateAndMove(c) \/ Join(c)
          PROVE  \A w \in Worker : at'[w] = at[w] \/ at[w] = "blocked"
      BY <1>1, <3>2, CallMoves
    <3> QED  BY <1>4, <3>1, <3>2
  <2> QED  BY <2>1 DEF Ended
<1> QED  BY <1>2, <1>3, <1>4

LEMMA OwnPreserved ==
  ASSUME Assumptions, IInv, [Next]_vars
  PROVE  OwnInv'
<1> USE Constants, Workers DEF OwnInv, lifecycleVars, safety
<1>1. ASSUME UNCHANGED <<handles, moved>>,
             \A c \in Caller : app[c] = "joining" => app'[c] = "joining",
             \A w \in Worker : Ended(w) => at'[w] = at[w]
      PROVE  OwnInv'
  BY <1>1 DEF IInv, Ended
<1>2. CASE Recover \/ ControlStep \/ CommStep
  <2>1. UNCHANGED <<app, handles, moved>>
    BY <1>2, ControlMoves, CommMoves DEF Recover, IInv
  <2> QED  BY <1>1, <1>2, <2>1, NoRevival
<1>3. ASSUME NEW c \in Caller, StopBegin(c) \/ SpawnFails(c) PROVE OwnInv'
  <2>1. /\ UNCHANGED <<handles, moved>>
        /\ \A d \in Caller : app[d] = "joining" => app'[d] = "joining"
    BY <1>3 DEF StopBegin, SpawnFails, IInv, TypeOK
  <2>2. \A w \in Worker : Ended(w) => at'[w] = at[w]
    BY <1>3, NoRevival
  <2> QED  BY <1>1, <2>1, <2>2
<1>4. ASSUME NEW c \in Caller, NEW created \in BOOLEAN, Start(c, created)
      PROVE  OwnInv'
  <2>1. /\ handles = {} /\ UNCHANGED moved /\ at["comm"] = "none"
        /\ \A d \in Caller : moved[d] = {}
    BY <1>4 DEF Start, IInv, StartInv
  <2>2. CASE created
    <3>1. handles' = {"control"} /\ at'["comm"] = at["comm"]
      BY <1>4, <2>2 DEF Start, Go, IInv, TypeOK
    <3> QED  BY <2>1, <3>1 DEF Ended
  <2>3. CASE ~created
    <3>1. UNCHANGED <<handles, moved, at, app>>
      BY <1>4, <2>3 DEF Start
    <3> QED  BY <1>1, <3>1
  <2> QED  BY <2>2, <2>3
<1>5. ASSUME NEW c \in Caller, SpawnComm(c) PROVE OwnInv'
  <2>1. /\ handles' = {"control", "comm"} /\ UNCHANGED moved
        /\ \A d \in Caller : moved[d] = {}
    BY <1>5 DEF SpawnComm, IInv, StartInv
  <2> QED  BY <2>1
<1>6. ASSUME NEW c \in Caller, Unwind(c) PROVE OwnInv'
  <2>1. /\ UNCHANGED <<moved, at>> /\ Ended("control") /\ at["comm"] = "none"
        /\ \A d \in Caller : moved[d] = {}
    BY <1>6 DEF Unwind, IInv, StartInv
  <2> QED  BY <2>1 DEF Ended
<1>7. ASSUME NEW c \in Caller, StopGateAndMove(c) PROVE OwnInv'
  <2>1. /\ moved' = [moved EXCEPT ![c] = handles] /\ handles' = {}
        /\ app' = [app EXCEPT ![c] = "joining"] /\ app[c] = "stopping"
        /\ moved \in [Caller -> SUBSET Worker] /\ app[c] # "joining"
    BY <1>7 DEF StopGateAndMove, IInv, TypeOK
  <2>2. /\ moved[c] = {} /\ moved'[c] = handles
        /\ \A d \in Caller : d # c => moved'[d] = moved[d]
    BY <2>1 DEF IInv
  <2>3. \A d \in Caller : moved'[d] # {} => app'[d] = "joining"
    BY <2>1, <2>2 DEF IInv, TypeOK
  <2>4. \A d \in Caller : \A w \in moved'[d] :
          w \notin handles' /\ \A e \in Caller : w \in moved'[e] => e = d
    BY <2>1, <2>2 DEF IInv
  <2>5. \A w \in Worker : Ended(w) => at'[w] = at[w]
    BY <1>7, NoRevival
  <2>6. \A w \in Worker : ~Ended(w)' => \E d \in Caller : w \in moved'[d]
    <3>1. \A w \in Worker : ~Ended(w)' =>
            w \in handles \/ \E d \in Caller : w \in moved[d]
      BY <2>5 DEF IInv, Ended
    <3> QED  BY <2>2, <3>1
  <2> QED  BY <2>3, <2>4, <2>6
<1>8. ASSUME NEW c \in Caller, Join(c) PROVE OwnInv'
  <2>1. /\ moved' = [moved EXCEPT ![c] = {}] /\ UNCHANGED <<handles, at>>
        /\ app' = [app EXCEPT ![c] = "returned"]
        /\ \A w \in moved[c] : Ended(w)
        /\ moved \in [Caller -> SUBSET Worker]
    BY <1>8 DEF Join, IInv, TypeOK
  <2>2. /\ moved'[c] = {}
        /\ \A d \in Caller : d # c => moved'[d] = moved[d] /\ app'[d] = app[d]
    BY <2>1 DEF IInv, TypeOK
  <2>3. \A w \in Worker : ~Ended(w)' =>
          w \in handles' \/ \E d \in Caller : w \in moved'[d]
    BY <2>1, <2>2 DEF IInv, Ended
  <2> QED  BY <2>1, <2>2, <2>3 DEF IInv
<1>9. CASE UNCHANGED vars
  BY <1>1, <1>9 DEF vars
<1> QED
  BY <1>2, <1>3, <1>4, <1>5, <1>6, <1>7, <1>8, <1>9 DEF Next, CallStep

-----------------------------------------------------------------------------
(* How often the gate is stopped *)

\* What has happened once stays so.
Stays ==
  /\ Inhibited => Inhibited'
  /\ StartOver => StartOver'
  /\ \A w \in Worker : at[w] = "ended" => at'[w] = "ended"

LEMMA OnceForAll ==
  ASSUME Assumptions, IInv, Next
  PROVE  Stays
<1> USE Workers DEF Inhibited, StartOver, Stays, safety
<1>1. CASE ControlStep
  <2>1. TypeOK /\ UNCHANGED lifecycleVars
    BY <1>1, ControlMoves DEF IInv
  <2>2. StartOver => StartOver'
    BY <2>1 DEF lifecycleVars
  <2>3. Inhibited => Inhibited'
    <3>1. CASE ClearPending
      BY <3>1 DEF ClearPending
    <3>2. ASSUME ControlStep, ~ClearPending
          PROVE  at["control"] # "clear" /\ UNCHANGED gate_inhibited
      BY <3>2 DEF ControlStep, LoopTop, CheckPredicate, Block, TimeOut, Throw,
         FailSafe, EvaluateFeedback, Inhibit, Decide, TickComputes, TickIdles,
         TickRejects, TickClears, TickPublishes
    <3> QED  BY <1>1, <3>1, <3>2
  <2> QED  BY <1>1, <2>2, <2>3, NoRevival DEF Ended
<1>2. CASE CommStep
  <2>1. /\ UNCHANGED lifecycleVars /\ UNCHANGED gate_inhibited
        /\ at["control"] = "clear" => at'["control"] = "clear"
    BY <1>2, CommMoves DEF IInv
  <2> QED  BY <1>2, <2>1, NoRevival DEF Ended, lifecycleVars
<1>3. ASSUME NEW c \in Caller,
             \/ SpawnFails(c) \/ Unwind(c) \/ StopBegin(c)
             \/ StopGateAndMove(c) \/ Join(c) \/ Recover
      PROVE  Stays
  <2>1. /\ UNCHANGED <<gate_inhibited, started>>
        /\ \A w \in Worker : at'[w] = at[w] \/ at[w] = "blocked"
    BY <1>3, CallMoves DEF IInv
  <2>2. \A d \in Caller : app[d] # "spawning" => app'[d] # "spawning"
    BY <1>3 DEF SpawnFails, Unwind, StopBegin, StopGateAndMove, Join, Recover,
       lifecycleVars, IInv, TypeOK
  <2> QED  BY <2>1, <2>2
<1>4. ASSUME NEW c \in Caller, NEW created \in BOOLEAN, Start(c, created)
      PROVE  Stays
  <2>1. ~started /\ UNCHANGED gate_inhibited
        /\ \A w \in Worker : at[w] = "none"
    BY <1>4 DEF Start, IInv, StartInv
  <2> QED  BY <2>1
<1>5. ASSUME NEW c \in Caller, SpawnComm(c)
      PROVE  Stays
  <2>1. /\ at["comm"] = "none" /\ app[c] = "spawning" /\ Go("comm", "top")
        /\ UNCHANGED <<gate_inhibited, started>>
    BY <1>5 DEF SpawnComm, IInv, StartInv
  <2>2. at'["control"] = at["control"]
    BY <2>1 DEF Go, IInv, TypeOK
  <2> QED  BY <2>1, <2>2
<1>6. CASE Recover
  BY <1>6 DEF Recover, lifecycleVars
<1> QED  BY <1>1, <1>2, <1>3, <1>4, <1>5, <1>6 DEF Next, CallStep

LEMMA ExtraNumber ==
  /\ Extra \in 0..4
  /\ Extra' \in 0..4
BY DEF Extra, Once

LEMMA ExtraKept ==
  ASSUME Assumptions, IInv, Next
  PROVE  Extra' >= Extra
<1>1. /\ Inhibited => Inhibited'
      /\ StartOver => StartOver'
      /\ at["control"] = "ended" => at'["control"] = "ended"
      /\ at["comm"] = "ended" => at'["comm"] = "ended"
  BY OnceForAll, Workers DEF Stays
<1> QED  BY <1>1 DEF Extra, Once

LEMMA ExtraGrows ==
  ASSUME Assumptions, IInv, Next,
         \/ ~Inhibited /\ Inhibited'
         \/ ~StartOver /\ StartOver'
         \/ \E w \in Worker : at[w] # "ended" /\ at'[w] = "ended"
  PROVE  Extra' >= Extra + 1
<1>1. /\ Inhibited => Inhibited'
      /\ StartOver => StartOver'
      /\ at["control"] = "ended" => at'["control"] = "ended"
      /\ at["comm"] = "ended" => at'["comm"] = "ended"
  BY OnceForAll, Workers DEF Stays
<1>2. \/ ~Inhibited /\ Inhibited'
      \/ ~StartOver /\ StartOver'
      \/ at["control"] # "ended" /\ at'["control"] = "ended"
      \/ at["comm"] # "ended" /\ at'["comm"] = "ended"
  BY Workers
<1> QED  BY <1>1, <1>2 DEF Extra, Once

LEMMA CountPreserved ==
  ASSUME Assumptions, IInv, [Next]_vars
  PROVE  CountInv' /\ generation' \in Generation
<1> USE Constants, ExtraNumber DEF CountInv
<1>0. generation \in Nat /\ generation >= 1 /\ CountInv
  BY DEF IInv, TypeOK, Generation
<1>1. SUFFICES CountInv' /\ generation' \in Nat /\ generation' >= 1
  BY DEF Generation
\* The gate is stopped once more, by something that happens once.
<1>2. ASSUME Next, Extra' >= Extra + 1, generation' = generation + 1,
             \A c \in Caller : app'[c] = "stopping" => app[c] = "stopping"
      PROVE  CountInv' /\ generation' \in Nat /\ generation' >= 1
  BY <1>0, <1>2
\* It is stopped or recovered within the bound.
<1>3. ASSUME generation < MaxGeneration,
             generation' \in {generation, generation + 1}
      PROVE  CountInv' /\ generation' \in Nat /\ generation' >= 1
  BY <1>0, <1>3
\* It is left alone.
<1>4. ASSUME Next, UNCHANGED generation,
             \A c \in Caller : app'[c] = "stopping" => app[c] = "stopping"
      PROVE  CountInv' /\ generation' \in Nat /\ generation' >= 1
  BY <1>0, <1>4, ExtraKept
<1>5. CASE ControlStep
  <2>1. /\ Next /\ UNCHANGED app
    BY <1>5, ControlMoves DEF Next, IInv, lifecycleVars
  <2>2. CASE Inhibit
    <3>1. ~Inhibited /\ at' = [at EXCEPT !["control"] = "clear"]
          /\ at \in [Worker -> Place]
      BY <2>2, Places DEF Inhibit, Inhibited, Go, IInv, InhibitInv
    <3>2. Inhibited'
      BY <3>1, Workers DEF Inhibited
    <3> QED  BY <1>2, <2>1, <2>2, <3>1, <3>2, ExtraGrows DEF Inhibit, StopGate
  <2>3. CASE FailSafe("control")
    <3>1. at["control"] # "ended" /\ at'["control"] = "ended"
      <4>1. at \in [Worker -> Place] /\ at["control"] = "failing"
            /\ at' = Notified([at EXCEPT !["control"] = "ended"])
        BY <2>3, Places DEF FailSafe, IInv
      <4> QED  BY <4>1, Workers DEF Notified
    <3> QED
      BY <1>2, <2>1, <2>3, <3>1, Workers, ExtraGrows DEF FailSafe, StopGate
  <2>4. CASE TickRejects
    BY <1>3, <2>4 DEF TickRejects, Bounded, StopGate
  <2>5. ASSUME ~Inhibit, ~FailSafe("control"), ~TickRejects
        PROVE  UNCHANGED generation
    BY <1>5, <2>5 DEF ControlStep, LoopTop, CheckPredicate, Block, TimeOut,
       Throw, EvaluateFeedback, ClearPending, Decide, TickComputes, TickIdles,
       TickClears, TickPublishes, gate
  <2> QED  BY <1>4, <2>1, <2>2, <2>3, <2>4, <2>5
<1>6. CASE CommStep
  <2>1. /\ Next /\ UNCHANGED app
    BY <1>6, CommMoves DEF Next, IInv, lifecycleVars
  <2>3. CASE FailSafe("comm")
    <3>1. at["comm"] # "ended" /\ at'["comm"] = "ended"
      <4>1. at \in [Worker -> Place] /\ at["comm"] = "failing"
            /\ at' = Notified([at EXCEPT !["comm"] = "ended"])
        BY <2>3, Places DEF FailSafe, IInv
      <4> QED  BY <4>1, Workers DEF Notified
    <3> QED
      BY <1>2, <2>1, <2>3, <3>1, Workers, ExtraGrows DEF FailSafe, StopGate
  <2>4. CASE SendFails
    BY <1>3, <2>4 DEF SendFails, Bounded, StopGate
  <2>5. ASSUME ~FailSafe("comm"), ~SendFails
        PROVE  UNCHANGED generation
    BY <1>6, <2>5 DEF CommStep, LoopTop, CheckPredicate, Block, TimeOut,
       Throw, TakeLatest, BeginSend, EndBatch, FinishSend, AfterCommands,
       PollSlice, gate
  <2> QED  BY <1>4, <2>1, <2>3, <2>4, <2>5
<1>7. CASE Recover
  BY <1>3, <1>7 DEF Recover, Bounded
<1>8. ASSUME NEW c \in Caller, NEW created \in BOOLEAN, Start(c, created)
      PROVE  CountInv' /\ generation' \in Nat /\ generation' >= 1
  <2>1. Next
    BY <1>8 DEF Next
  <2>2. \A d \in Caller : app'[d] = "stopping" => app[d] = "stopping"
    BY <1>8 DEF Start, IInv, TypeOK
  <2>3. CASE created
    BY <1>4, <1>8, <2>1, <2>2, <2>3 DEF Start, gate
  <2>4. CASE ~created
    <3>1. ~StartOver /\ StartOver'
      BY <1>8, <2>4 DEF Start, StartOver, IInv, StartInv
    <3> QED
      BY <1>2, <1>8, <2>1, <2>2, <2>4, <3>1, ExtraGrows DEF Start, StopGate
  <2> QED  BY <2>3, <2>4
<1>9. ASSUME NEW c \in Caller, StopBegin(c)
      PROVE  CountInv' /\ generation' \in Nat /\ generation' >= 1
  BY <1>3, <1>9 DEF StopBegin, Bounded, gate
<1>10. ASSUME NEW c \in Caller, SpawnFails(c)
       PROVE  CountInv' /\ generation' \in Nat /\ generation' >= 1
  <2>1. Next
    BY <1>10 DEF Next, CallStep
  <2>2. \A d \in Caller : app'[d] = "stopping" => app[d] = "stopping"
    BY <1>10 DEF SpawnFails, IInv, TypeOK
  <2>3. ~StartOver
    BY <1>10 DEF SpawnFails, StartOver
  <2>4. StartOver'
    <3>1. started' /\ lifecycle = c
      BY <1>10 DEF SpawnFails, IInv, StartInv, LockInv, Locking
    <3>2. \A d \in Caller : d # c => app'[d] = app[d] /\ app[d] # "spawning"
      BY <1>10, <3>1 DEF SpawnFails, IInv, LockInv, Locking, TypeOK
    <3>3. app'[c] # "spawning"
      BY <1>10 DEF SpawnFails, IInv, TypeOK
    <3> QED  BY <3>1, <3>2, <3>3 DEF StartOver
  <2> QED
    BY <1>2, <1>10, <2>1, <2>2, <2>3, <2>4, ExtraGrows
    DEF SpawnFails, StopGate
<1>11. ASSUME NEW c \in Caller, StopGateAndMove(c)
       PROVE  CountInv' /\ generation' \in Nat /\ generation' >= 1
  <2>1. Next
    BY <1>11 DEF Next, CallStep
  <2>2. app[c] = "stopping" /\ generation' = generation + 1
    BY <1>11 DEF StopGateAndMove, StopGate
  <2>3. \A d \in Caller : app'[d] # "stopping"
    BY <1>11, <2>2 DEF StopGateAndMove, IInv, LockInv, Locking, TypeOK
  <2> QED  BY <1>0, <2>1, <2>2, <2>3, ExtraKept
<1>12. ASSUME NEW c \in Caller, SpawnComm(c) \/ Unwind(c) \/ Join(c)
       PROVE  CountInv' /\ generation' \in Nat /\ generation' >= 1
  <2>1. Next
    BY <1>12 DEF Next, CallStep
  <2>2. \A d \in Caller : app'[d] = "stopping" => app[d] = "stopping"
    BY <1>12 DEF SpawnComm, Unwind, Join, IInv, TypeOK
  <2> QED  BY <1>4, <1>12, <2>1, <2>2 DEF SpawnComm, Unwind, Join, gate
<1>13. CASE UNCHANGED vars
  <2>1. UNCHANGED <<generation, app, Extra>>
    BY <1>13 DEF vars, gate, lifecycleVars, safety, Extra, Once, Inhibited,
       StartOver
  <2> QED  BY <1>0, <2>1
<1> QED
  BY <1>5, <1>6, <1>7, <1>8, <1>9, <1>10, <1>11, <1>12, <1>13
     DEF Next, CallStep

-----------------------------------------------------------------------------
(* The monitor *)

Decided ==
  [startupWaiting : BOOLEAN, inhibitMotion : BOOLEAN, safeStop : BOOLEAN]

LEMMA Fields ==
  ASSUME NEW m \in Monitor
  PROVE  /\ m.state \in SafetyState /\ m.everHealthy \in BOOLEAN
         /\ m.inhibited \in BOOLEAN /\ m.warnings \in 0..WarningTicks
         /\ m.criticals \in Nat
BY DEF Monitor

LEMMA CriticalCycle ==
  ASSUME Assumptions, NEW m \in Monitor
  PROVE  /\ Critical(m) \in Monitor /\ Critical(m).inhibited
         /\ Critical(m).criticals = m.criticals + 1
         /\ Critical(m).criticals >= StopTicks =>
              Critical(m).state = "SAFE_STOP"
<1> DEFINE s == IF m.criticals + 1 >= StopTicks
                  THEN "SAFE_STOP" ELSE Degrade(m.state)
<1>1. m.criticals + 1 \in Nat /\ s \in SafetyState /\ 0 \in 0..WarningTicks
  BY Fields, Constants DEF Degrade, SafetyState
<1>2. ASSUME NEW w \in 0..WarningTicks, NEW c \in Nat, NEW t \in SafetyState,
             NEW i \in BOOLEAN
      PROVE  [m EXCEPT !.criticals = c, !.warnings = w, !.inhibited = i,
                       !.state = t] \in Monitor
  BY DEF Monitor
<1>3. Critical(m) \in Monitor
  BY <1>1, <1>2 DEF Critical
<1>4. /\ Critical(m).inhibited /\ Critical(m).criticals = m.criticals + 1
      /\ Critical(m).state = s
  BY DEF Critical, Monitor
<1> QED  BY <1>1, <1>3, <1>4

LEMMA WarningCycle ==
  ASSUME Assumptions, NEW m \in Monitor
  PROVE  /\ Warning(m) \in Monitor /\ Warning(m).criticals = 0
         /\ Warning(m).inhibited <=> m.inhibited
<1> DEFINE v == IF m.warnings < WarningTicks THEN m.warnings + 1
                                             ELSE m.warnings
           s == IF v >= WarningTicks THEN Degrade(m.state) ELSE m.state
<1>1. v \in 0..WarningTicks /\ 0 \in Nat
  BY Fields, Constants
<1>2. s \in SafetyState
  BY Fields DEF Degrade, SafetyState
<1>3. ASSUME NEW w \in 0..WarningTicks, NEW c \in Nat, NEW t \in SafetyState,
             NEW e \in BOOLEAN
      PROVE  [m EXCEPT !.everHealthy = e, !.criticals = c, !.warnings = w,
                       !.state = t] \in Monitor
  BY DEF Monitor
<1>4. Warning(m) \in Monitor
  BY <1>1, <1>2, <1>3 DEF Warning
<1>5. Warning(m).criticals = 0
  BY DEF Warning, Monitor
<1>6. Warning(m).inhibited <=> m.inhibited
  BY DEF Warning, Monitor
<1> QED  BY <1>4, <1>5, <1>6

LEMMA GoodCycle ==
  ASSUME Assumptions, NEW m \in Monitor
  PROVE  /\ Good(m) \in Monitor /\ Good(m).criticals = 0
         /\ Good(m).inhibited <=> m.inhibited
<1>1. 0 \in 0..WarningTicks
  BY Constants
<1>2. Good(m) \in Monitor
  BY <1>1 DEF Good, Monitor
<1>3. Good(m).criticals = 0
  BY DEF Good, Monitor
<1>4. Good(m).inhibited <=> m.inhibited
  BY DEF Good, Monitor
<1> QED  BY <1>2, <1>3, <1>4

\* One evaluation: an inhibition stays, and stop_ticks critical cycles on end
\* decide a safe stop.
LEMMA Evaluates ==
  ASSUME Assumptions, NEW m \in Monitor, NEW health \in Health,
         NEW grace \in BOOLEAN
  PROVE  LET n == Evaluate(m, health, grace)
             d == Decision(m, health, grace)
         IN /\ n \in Monitor /\ d \in Decided
            /\ m.inhibited => n.inhibited
            /\ m.inhibited => d.startupWaiting \/ d.inhibitMotion
            /\ d.inhibitMotion => n.inhibited
            /\ m.criticals < StopTicks =>
                 /\ n.criticals <= StopTicks
                 /\ n.criticals = StopTicks => d.safeStop
<1> DEFINE n == Evaluate(m, health, grace)
           d == Decision(m, health, grace)
           W == StartupWaiting(m, health, grace)
           Claim == /\ n \in Monitor /\ d \in Decided
                    /\ m.inhibited => n.inhibited
                    /\ m.inhibited => d.startupWaiting \/ d.inhibitMotion
                    /\ d.inhibitMotion => n.inhibited
                    /\ m.criticals < StopTicks =>
                         /\ n.criticals <= StopTicks
                         /\ n.criticals = StopTicks => d.safeStop
<1> USE Constants, Fields
<1>1. W => health = "critical"
  BY DEF StartupWaiting
<1>2. d = [startupWaiting |-> W, inhibitMotion |-> ~W /\ n.inhibited,
           safeStop |-> ~W /\ n.state = "SAFE_STOP"]
  BY DEF Decision
<1>3. /\ W => n = m
      /\ ~W /\ health = "critical" => n = Critical(m)
      /\ health = "warning" => n = Warning(m)
      /\ health = "good" => n = Good(m)
  BY <1>1 DEF Evaluate
<1>4. W \in BOOLEAN
  BY DEF StartupWaiting
<1> HIDE DEF n, d, W
<1>5. d \in Decided
  <2>1. /\ (~W /\ n.inhibited) \in BOOLEAN
        /\ (~W /\ n.state = "SAFE_STOP") \in BOOLEAN
    OBVIOUS
  <2> QED  BY <1>2, <1>4, <2>1 DEF Decided
<1>6. /\ d.startupWaiting <=> W
      /\ d.inhibitMotion <=> (~W /\ n.inhibited)
      /\ d.safeStop <=> (~W /\ n.state = "SAFE_STOP")
  BY <1>2
<1>7. ASSUME W PROVE Claim
  BY <1>3, <1>5, <1>6, <1>7
<1>8. ASSUME ~W, health = "critical" PROVE Claim
  <2>1. /\ n \in Monitor /\ n.inhibited
        /\ n.criticals = m.criticals + 1
        /\ n.criticals >= StopTicks => n.state = "SAFE_STOP"
    BY <1>3, <1>8, CriticalCycle
  <2> QED  BY <1>5, <1>6, <1>8, <2>1
<1>9. ASSUME ~W, health \in {"warning", "good"} PROVE Claim
  <2>1. /\ n \in Monitor /\ n.criticals = 0
        /\ n.inhibited <=> m.inhibited
    BY <1>3, <1>9, WarningCycle, GoodCycle
  <2> QED  BY <1>5, <1>6, <1>9, <2>1
<1>10. Claim
  BY <1>1, <1>7, <1>8, <1>9 DEF Health
<1> QED  BY <1>10 DEF n, d

LEMMA MonitorPreserved ==
  ASSUME Assumptions, IInv, [Next]_vars
  PROVE  MonitorInv' /\ monitor' \in Monitor /\ monitor'.criticals <= StopTicks
         /\ decision' \in Decided
<1> USE Workers DEF MonitorInv, safety
<1>1. /\ MonitorInv /\ TypeOK /\ StartInv /\ monitor \in Monitor
      /\ monitor.criticals <= StopTicks /\ decision \in Decided
  BY DEF IInv, TypeOK, Decided
<1>2. CASE UNCHANGED <<monitor, decision>> /\ MonitorInv'
  BY <1>1, <1>2
<1>3. CASE ControlStep
  <2>1. at \in [Worker -> Place]
    BY <1>1, Places
  <2>2. ASSUME NEW health \in Health, NEW over \in BOOLEAN,
               EvaluateFeedback(health, over)
        PROVE  MonitorInv' /\ monitor' \in Monitor
               /\ monitor'.criticals <= StopTicks /\ decision' \in Decided
    <3>1. /\ at["control"] = "cycle" /\ (~over) \in BOOLEAN
          /\ monitor' = Evaluate(monitor, health, ~over)
          /\ decision' = Decision(monitor, health, ~over)
      BY <2>2 DEF EvaluateFeedback
    <3>2. at'["control"] \in {"inhibit", "decided"}
      BY <2>1, <2>2 DEF EvaluateFeedback, Go
    <3>3. monitor.criticals < StopTicks
      BY <1>1, <3>1, Constants DEF Monitor
    <3> QED  BY <1>1, <3>1, <3>2, <3>3, Evaluates
  <2>3. CASE Inhibit \/ ClearPending
    <3>1. /\ UNCHANGED <<monitor, decision>>
          /\ at["control"] \in {"inhibit", "clear"}
          /\ at'["control"] \in {"clear", "decided"}
      BY <2>1, <2>3 DEF Inhibit, ClearPending, Go
    <3> QED  BY <1>1, <1>2, <3>1
  <2>4. CASE Decide
    <3>1. /\ UNCHANGED <<monitor, decision>> /\ at["control"] = "decided"
          /\ decision.safeStop => stopping'
      BY <2>4 DEF Decide
    <3>2. decision.safeStop => at'["control"] = "top"
      BY <2>1, <2>4 DEF Decide, Allowed, Notified
    <3> QED  BY <1>1, <1>2, <3>1, <3>2
  <2>5. CASE LoopTop("control")
    <3>1. /\ UNCHANGED <<monitor, decision>> /\ at["control"] = "top"
          /\ stopping => at'["control"] = "ended"
      BY <2>1, <2>5 DEF LoopTop, Go
    <3> QED  BY <1>1, <1>2, <3>1
  <2>6. CASE \/ CheckPredicate("control") \/ Block("control")
             \/ TimeOut("control") \/ Throw("control") \/ FailSafe("control")
    <3>1. UNCHANGED <<monitor, decision>>
      BY <2>6 DEF CheckPredicate, Block, TimeOut, Throw, FailSafe
    <3>2. at["control"] \in {"check", "blocking", "blocked", "cycle", "tick",
                             "take", "poll", "failing"}
      BY <2>6 DEF CheckPredicate, Block, TimeOut, Throw, FailSafe
    <3> QED  BY <1>1, <1>2, <3>1, <3>2
  <2>7. CASE \/ TickComputes \/ TickIdles \/ TickRejects \/ TickClears
             \/ TickPublishes
    <3>1. UNCHANGED <<monitor, decision>>
      BY <2>7 DEF TickComputes, TickIdles, TickRejects, TickClears,
         TickPublishes
    <3>2. at["control"] \in {"tick", "rejected", "computed"}
      BY <2>7 DEF TickComputes, TickIdles, TickRejects, TickClears,
         TickPublishes
    <3> QED  BY <1>1, <1>2, <3>1, <3>2
  <2> QED  BY <1>3, <2>2, <2>3, <2>4, <2>5, <2>6, <2>7 DEF ControlStep
<1>4. CASE CommStep
  <2>1. /\ UNCHANGED <<monitor, decision>> /\ (stopping => stopping')
        /\ \/ at'["control"] = at["control"]
           \/ at["control"] = "blocked"
    BY <1>1, <1>4, CommMoves
  <2> QED  BY <1>1, <1>2, <2>1
<1>5. ASSUME NEW c \in Caller,
             \/ SpawnFails(c) \/ Unwind(c) \/ StopBegin(c)
             \/ StopGateAndMove(c) \/ Join(c)
      PROVE  UNCHANGED <<monitor, decision>> /\ MonitorInv'
  <2>1. /\ UNCHANGED <<monitor, decision>> /\ (stopping => stopping')
        /\ \/ at'["control"] = at["control"]
           \/ at["control"] = "blocked"
    BY <1>1, <1>5, CallMoves
  <2> QED  BY <1>1, <2>1
<1>6. ASSUME NEW c \in Caller, NEW created \in BOOLEAN, Start(c, created)
      PROVE  UNCHANGED <<monitor, decision>> /\ MonitorInv'
  <2>1. UNCHANGED <<monitor, decision>> /\ monitor.criticals = 0
    BY <1>1, <1>6 DEF Start, StartInv
  <2> QED  BY <2>1, Constants
<1>7. ASSUME NEW c \in Caller, SpawnComm(c)
      PROVE  UNCHANGED <<monitor, decision>> /\ MonitorInv'
  <2>1. /\ UNCHANGED <<monitor, decision, stopping>>
        /\ at'["control"] = at["control"]
    BY <1>1, <1>7, Places DEF SpawnComm, Go
  <2> QED  BY <1>1, <2>1
<1>8. CASE Recover \/ UNCHANGED vars
  <2>1. UNCHANGED <<monitor, decision, stopping, at>>
    BY <1>8 DEF Recover, vars
  <2> QED  BY <1>1, <1>2, <2>1
<1> QED
  BY <1>2, <1>3, <1>4, <1>5, <1>6, <1>7, <1>8 DEF Next, CallStep

-----------------------------------------------------------------------------
(* Types *)

LifecycleOK ==
  /\ started \in BOOLEAN /\ lifecycle \in Caller \cup {NoCaller}
  /\ handles \in SUBSET Worker /\ moved \in [Caller -> SUBSET Worker]
  /\ app \in [Caller -> {"idle", "spawning", "unwinding", "stopping", "joining",
                         "returned"}]

FlagsOK ==
  /\ stopped \in BOOLEAN /\ stopping \in BOOLEAN /\ grace_over \in BOOLEAN
  /\ gate_inhibited \in BOOLEAN

SendingOK ==
  /\ mailbox \in Generation \cup {0} /\ held \in Generation \cup {0}
  /\ left \in 0..Servos

LEMMA TypeParts ==
  TypeOK <=> /\ generation \in Generation /\ LifecycleOK /\ FlagsOK
             /\ SendingOK /\ at \in [Worker -> Place]
             /\ monitor \in Monitor /\ monitor.criticals <= StopTicks
             /\ decision \in Decided
BY DEF TypeOK, LifecycleOK, FlagsOK, SendingOK, Place, Decided

LEMMA LifecycleTyped ==
  ASSUME Assumptions, IInv, [Next]_vars
  PROVE  LifecycleOK'
<1> USE DEF LifecycleOK
<1>1. TypeOK /\ LifecycleOK
  BY TypeParts DEF IInv
<1>2. CASE ControlStep \/ CommStep \/ Recover \/ UNCHANGED vars
  <2>1. UNCHANGED lifecycleVars
    BY <1>1, <1>2, ControlMoves, CommMoves DEF Recover, vars
  <2> QED  BY <1>1, <2>1 DEF lifecycleVars
<1>3. ASSUME NEW c \in Caller, NEW created \in BOOLEAN, Start(c, created)
      PROVE  LifecycleOK'
  BY <1>1, <1>3, Workers DEF Start
<1>4. ASSUME NEW c \in Caller, StopBegin(c) \/ SpawnFails(c) \/ Unwind(c)
      PROVE  LifecycleOK'
  BY <1>1, <1>4 DEF StopBegin, SpawnFails, Unwind
<1>5. ASSUME NEW c \in Caller, SpawnComm(c) PROVE LifecycleOK'
  BY <1>1, <1>5, Workers DEF SpawnComm
<1>6. ASSUME NEW c \in Caller, StopGateAndMove(c) \/ Join(c)
      PROVE  LifecycleOK'
  <2>1. moved' \in [Caller -> SUBSET Worker] /\ handles' \in SUBSET Worker
    BY <1>1, <1>6 DEF StopGateAndMove, Join
  <2>2. started' \in BOOLEAN /\ lifecycle' \in Caller \cup {NoCaller}
    BY <1>1, <1>6 DEF StopGateAndMove, Join
  <2>3. \E place \in {"joining", "returned"} : app' = [app EXCEPT ![c] = place]
    BY <1>6 DEF StopGateAndMove, Join
  <2> QED  BY <1>1, <2>1, <2>2, <2>3
<1> QED  BY <1>2, <1>3, <1>4, <1>5, <1>6 DEF Next, CallStep

\* Which of the remaining variables a step of the application changes.
LEMMA CallLeaves ==
  ASSUME Assumptions, IInv,
         \/ Recover
         \/ \E c \in Caller :
              \/ StopBegin(c) \/ CallStep(c)
              \/ \E created \in BOOLEAN : Start(c, created)
  PROVE  /\ UNCHANGED <<mailbox, safety, sending>>
         /\ stopped' \in {stopped, TRUE, FALSE}
         /\ stopping' \in {stopping, TRUE, FALSE}
<1>1. UNCHANGED <<mailbox, safety, sending>>
  BY DEF Recover, StopBegin, CallStep, SpawnComm, SpawnFails, Unwind,
     StopGateAndMove, Join, Start
<1>2. stopped' \in {stopped, TRUE, FALSE}
  BY DEF Recover, StopBegin, CallStep, SpawnComm, SpawnFails, Unwind,
     StopGateAndMove, Join, Start, gate, StopGate
<1>3. stopping' \in {stopping, TRUE, FALSE}
  BY DEF Recover, StopBegin, CallStep, SpawnComm, SpawnFails, Unwind,
     StopGateAndMove, Join, Start
<1> QED  BY <1>1, <1>2, <1>3

LEMMA FlagsTyped ==
  ASSUME Assumptions, IInv, [Next]_vars
  PROVE  FlagsOK'
<1> USE DEF FlagsOK
<1>1. TypeOK /\ FlagsOK
  BY TypeParts DEF IInv
<1>2. CASE ControlStep
  <2>1. stopped' \in {stopped, TRUE}
    BY <1>2 DEF ControlStep, LoopTop, CheckPredicate, Block, TimeOut, Throw,
       FailSafe, EvaluateFeedback, Inhibit, ClearPending, Decide, TickComputes,
       TickIdles, TickRejects, TickClears, TickPublishes, gate, StopGate
  <2>2. stopping' \in BOOLEAN
    <3>1. CASE Decide
      BY <1>1, <3>1 DEF Decide
    <3>2. CASE ~Decide
      BY <1>1, <1>2, <3>2 DEF ControlStep, LoopTop, CheckPredicate, Block,
         TimeOut, Throw, FailSafe, EvaluateFeedback, Inhibit, ClearPending,
         TickComputes, TickIdles, TickRejects, TickClears, TickPublishes
    <3> QED  BY <3>1, <3>2
  <2>3. grace_over' \in BOOLEAN
    BY <1>1, <1>2 DEF ControlStep, LoopTop, CheckPredicate, Block, TimeOut,
       Throw, FailSafe, EvaluateFeedback, Inhibit, ClearPending, Decide,
       TickComputes, TickIdles, TickRejects, TickClears, TickPublishes, safety
  <2>4. gate_inhibited' \in BOOLEAN
    BY <1>1, <1>2 DEF ControlStep, LoopTop, CheckPredicate, Block, TimeOut,
       Throw, FailSafe, EvaluateFeedback, Inhibit, ClearPending, Decide,
       TickComputes, TickIdles, TickRejects, TickClears, TickPublishes, safety
  <2> QED  BY <1>1, <2>1, <2>2, <2>3, <2>4
<1>3. CASE CommStep
  <2>1. stopped' \in {stopped, TRUE} /\ stopping' \in {stopping, TRUE}
    BY <1>3 DEF CommStep, LoopTop, CheckPredicate, Block, TimeOut, Throw,
       FailSafe, TakeLatest, BeginSend, EndBatch, FinishSend, SendFails,
       AfterCommands, PollSlice, gate, StopGate
  <2>2. UNCHANGED safety
    BY <1>1, <1>3, CommMoves
  <2> QED  BY <1>1, <2>1, <2>2 DEF safety
<1>4. CASE \/ Recover
           \/ \E c \in Caller :
                \/ StopBegin(c) \/ CallStep(c)
                \/ \E created \in BOOLEAN : Start(c, created)
  BY <1>1, <1>4, CallLeaves DEF safety
<1>5. CASE UNCHANGED vars
  BY <1>1, <1>5 DEF vars, gate, safety
<1> QED  BY <1>2, <1>3, <1>4, <1>5 DEF Next

LEMMA SendingTyped ==
  ASSUME Assumptions, IInv, [Next]_vars
  PROVE  SendingOK'
<1> USE Constants DEF SendingOK, sending
<1>1. TypeOK /\ SendingOK /\ generation \in Generation
  BY TypeParts DEF IInv
<1>2. CASE ControlStep
  <2>1. mailbox' \in {mailbox, 0, generation}
    BY <1>2 DEF ControlStep, LoopTop, CheckPredicate, Block, TimeOut, Throw,
       FailSafe, EvaluateFeedback, Inhibit, ClearPending, Decide, TickComputes,
       TickIdles, TickRejects, TickClears, TickPublishes
  <2>2. UNCHANGED sending
    BY <1>1, <1>2, ControlMoves
  <2> QED  BY <1>1, <2>1, <2>2
<1>3. CASE CommStep
  <2>1. mailbox' \in {mailbox, 0} /\ held' \in {held, mailbox, 0}
    BY <1>3 DEF CommStep, LoopTop, CheckPredicate, Block, TimeOut, Throw,
       FailSafe, TakeLatest, BeginSend, EndBatch, FinishSend, SendFails,
       AfterCommands, PollSlice
  <2>2. left' \in {left, 0, Servos} \/ (left > 0 /\ left' = left - 1)
    BY <1>3 DEF CommStep, LoopTop, CheckPredicate, Block, TimeOut, Throw,
       FailSafe, TakeLatest, BeginSend, EndBatch, FinishSend, SendFails,
       AfterCommands, PollSlice
  <2> QED  BY <1>1, <2>1, <2>2
<1>4. CASE \/ Recover
           \/ \E c \in Caller :
                \/ StopBegin(c) \/ CallStep(c)
                \/ \E created \in BOOLEAN : Start(c, created)
  BY <1>1, <1>4, CallLeaves
<1>5. CASE UNCHANGED vars
  BY <1>1, <1>5 DEF vars
<1> QED  BY <1>2, <1>3, <1>4, <1>5 DEF Next

LEMMA PlacesTyped ==
  ASSUME Assumptions, IInv, [Next]_vars
  PROVE  at' \in [Worker -> Place]
<1>1. TypeOK /\ at \in [Worker -> Place]
  BY Places DEF IInv
<1>2. ASSUME NEW c \in Caller, NEW created \in BOOLEAN, Start(c, created)
      PROVE  at' \in [Worker -> Place]
  BY <1>1, <1>2, Workers DEF Start, Go, Place
<1>3. ASSUME NEW c \in Caller, SpawnComm(c) PROVE at' \in [Worker -> Place]
  BY <1>1, <1>3, Workers DEF SpawnComm, Go, Place
<1>4. CASE UNCHANGED vars
  BY <1>1, <1>4 DEF vars
<1>5. CASE Recover
  BY <1>1, <1>5 DEF Recover
<1> QED
  BY <1>1, <1>2, <1>3, <1>4, <1>5, CallMoves, ControlMoves, CommMoves
     DEF Next, CallStep

LEMMA TypesPreserved ==
  ASSUME Assumptions, IInv, [Next]_vars
  PROVE  TypeOK'
<1>1. generation' \in Generation
  BY CountPreserved
<1>2. LifecycleOK' /\ FlagsOK' /\ SendingOK' /\ at' \in [Worker -> Place]
  BY LifecycleTyped, FlagsTyped, SendingTyped, PlacesTyped
<1>3. /\ monitor' \in Monitor /\ monitor'.criticals <= StopTicks
      /\ decision' \in Decided
  BY MonitorPreserved
<1> QED
  BY <1>1, <1>2, <1>3
  DEF TypeOK, LifecycleOK, FlagsOK, SendingOK, Place, Decided

-----------------------------------------------------------------------------
(* The inhibition *)

\* The generation never goes back.
LEMMA GenerationGrows ==
  ASSUME [Next]_vars
  PROVE  generation' \in {generation, generation + 1}
<1>1. CASE ControlStep
  BY <1>1 DEF ControlStep, LoopTop, CheckPredicate, Block, TimeOut, Throw,
     FailSafe, EvaluateFeedback, Inhibit, ClearPending, Decide, TickComputes,
     TickIdles, TickRejects, TickClears, TickPublishes, gate, StopGate
<1>2. CASE CommStep
  BY <1>2 DEF CommStep, LoopTop, CheckPredicate, Block, TimeOut, Throw,
     FailSafe, TakeLatest, BeginSend, EndBatch, FinishSend, SendFails,
     AfterCommands, PollSlice, gate, StopGate
<1>3. CASE Recover \/ UNCHANGED vars
  BY <1>3 DEF Recover, vars, gate
<1>4. ASSUME NEW c \in Caller, StopBegin(c) \/ CallStep(c)
      PROVE  generation' \in {generation, generation + 1}
  BY <1>4 DEF StopBegin, CallStep, SpawnComm, SpawnFails, Unwind,
     StopGateAndMove, Join, gate, StopGate
<1>5. ASSUME NEW c \in Caller, NEW created \in BOOLEAN, Start(c, created)
      PROVE  generation' \in {generation, generation + 1}
  BY <1>5 DEF Start, gate, StopGate
<1> QED  BY <1>1, <1>2, <1>3, <1>4, <1>5 DEF Next

LEMMA InhibitPreserved ==
  ASSUME Assumptions, IInv, [Next]_vars
  PROVE  InhibitInv'
<1> USE Workers DEF InhibitInv
<1>0. /\ TypeOK /\ InhibitInv /\ generation \in Nat /\ generation >= 1
      /\ mailbox \in Nat /\ held \in Nat
      /\ generation' \in {generation, generation + 1}
      /\ at \in [Worker -> Place]
  BY GenerationGrows, Places DEF IInv, TypeOK, Generation
\* Whatever leaves the monitor and the control thread where they are.
<1>1. ASSUME UNCHANGED <<monitor, decision, gate_inhibited>>,
             \/ at'["control"] = at["control"]
             \/ at'["control"] \in {"ended", "check", "take", "blocking",
                                    "blocked", "cycle", "top", "failing"},
             mailbox' \in {mailbox, 0}, held' \in {held, mailbox, 0}
      PROVE  InhibitInv'
  BY <1>0, <1>1 DEF Allowed
<1>2. CASE \/ LoopTop("control") \/ CheckPredicate("control")
           \/ Block("control") \/ TimeOut("control") \/ Throw("control")
           \/ FailSafe("control")
  <2>1. /\ at'["control"] \in {"ended", "check", "take", "blocking",
                               "blocked", "cycle", "top", "failing"}
        /\ UNCHANGED <<mailbox, safety, sending>>
    BY <1>0, <1>2, SharedSteps
  <2> QED  BY <1>1, <2>1 DEF safety, sending
<1>3. ASSUME NEW health \in Health, NEW over \in BOOLEAN,
             EvaluateFeedback(health, over)
      PROVE  InhibitInv'
  <2>1. /\ monitor' = Evaluate(monitor, health, ~over)
        /\ decision' = Decision(monitor, health, ~over)
        /\ UNCHANGED <<generation, mailbox, held, gate_inhibited>>
        /\ (~over) \in BOOLEAN /\ monitor \in Monitor
    BY <1>0, <1>3 DEF EvaluateFeedback, gate, sending, TypeOK
  <2>2. /\ monitor.inhibited => monitor'.inhibited
        /\ monitor.inhibited =>
             decision'.startupWaiting \/ decision'.inhibitMotion
        /\ decision'.inhibitMotion => monitor'.inhibited
    BY <2>1, Evaluates
  <2>3. at'["control"] = IF decision'.inhibitMotion /\ ~gate_inhibited
                           THEN "inhibit" ELSE "decided"
    BY <1>0, <1>3 DEF EvaluateFeedback, Go
  <2> QED  BY <1>0, <2>1, <2>2, <2>3 DEF Allowed
<1>4. CASE Inhibit
  <2>1. /\ at["control"] = "inhibit" /\ at'["control"] = "clear"
        /\ generation' = generation + 1
        /\ UNCHANGED <<mailbox, held, gate_inhibited, monitor, decision>>
    BY <1>0, <1>4 DEF Inhibit, Go, StopGate, safety, sending
  <2> QED  BY <1>0, <2>1
<1>5. CASE ClearPending
  <2>1. /\ at["control"] = "clear" /\ at'["control"] = "decided"
        /\ mailbox' = 0 /\ gate_inhibited'
        /\ UNCHANGED <<generation, held, monitor, decision>>
    BY <1>0, <1>5 DEF ClearPending, Go, gate, sending
  <2> QED  BY <1>0, <2>1 DEF Allowed
<1>6. CASE Decide
  <2>1. /\ at["control"] = "decided"
        /\ at'["control"] = IF Allowed THEN "tick" ELSE "top"
        /\ UNCHANGED <<generation, mailbox, held, gate_inhibited, monitor,
                       decision>>
    BY <1>0, <1>6 DEF Decide, Notified, gate, safety, sending
  <2> QED  BY <1>0, <2>1
<1>7. CASE \/ TickComputes \/ TickIdles \/ TickRejects \/ TickClears
           \/ TickPublishes
  <2>1. /\ at["control"] \in {"tick", "rejected", "computed"}
        /\ at'["control"] \in {"computed", "top", "rejected"}
    BY <1>0, <1>7 DEF TickComputes, TickIdles, TickRejects, TickClears,
       TickPublishes, Go
  <2>2. /\ mailbox' \in {mailbox, 0, generation}
        /\ UNCHANGED <<held, gate_inhibited, monitor, decision>>
    BY <1>7 DEF TickComputes, TickIdles, TickRejects, TickClears,
       TickPublishes, safety, sending
  <2> QED  BY <1>0, <2>1, <2>2
<1>8. CASE CommStep
  <2>1. /\ UNCHANGED <<monitor, decision, gate_inhibited>>
        /\ \/ at'["control"] = at["control"]
           \/ at["control"] = "blocked" /\ at'["control"] = "check"
    BY <1>0, <1>8, CommMoves DEF safety
  <2>2. mailbox' \in {mailbox, 0} /\ held' \in {held, mailbox, 0}
    BY <1>8 DEF CommStep, LoopTop, CheckPredicate, Block, TimeOut, Throw,
       FailSafe, TakeLatest, BeginSend, EndBatch, FinishSend, SendFails,
       AfterCommands, PollSlice, sending
  <2> QED  BY <1>1, <2>1, <2>2
<1>9. ASSUME NEW c \in Caller,
             \/ SpawnFails(c) \/ Unwind(c) \/ StopBegin(c)
             \/ StopGateAndMove(c) \/ Join(c)
      PROVE  InhibitInv'
  <2>1. /\ UNCHANGED <<mailbox, held, monitor, decision, gate_inhibited>>
        /\ \/ at'["control"] = at["control"]
           \/ at["control"] = "blocked" /\ at'["control"] = "check"
    BY <1>0, <1>9, CallMoves DEF safety, sending
  <2> QED  BY <1>1, <2>1
<1>10. ASSUME NEW c \in Caller, NEW created \in BOOLEAN, Start(c, created)
       PROVE  InhibitInv'
  <2>1. UNCHANGED <<mailbox, held, monitor, decision, gate_inhibited>>
    BY <1>10 DEF Start, safety, sending
  <2>2. at'["control"] \in {at["control"], "top"}
    BY <1>0, <1>10 DEF Start, Go
  <2> QED  BY <1>1, <2>1, <2>2
<1>11. ASSUME NEW c \in Caller, SpawnComm(c) PROVE InhibitInv'
  <2>1. UNCHANGED <<mailbox, held, monitor, decision, gate_inhibited>>
    BY <1>11 DEF SpawnComm, safety, sending
  <2>2. at'["control"] = at["control"]
    BY <1>0, <1>11 DEF SpawnComm, Go
  <2> QED  BY <1>1, <2>1, <2>2
<1>12. CASE Recover \/ UNCHANGED vars
  <2>1. UNCHANGED <<mailbox, held, monitor, decision, gate_inhibited, at>>
    BY <1>12 DEF Recover, vars, safety, sending
  <2> QED  BY <1>1, <2>1
<1> QED
  BY <1>2, <1>3, <1>4, <1>5, <1>6, <1>7, <1>8, <1>9, <1>10, <1>11, <1>12
     DEF Next, CallStep, ControlStep

LEMMA Inductive == Assumptions /\ IInv /\ [Next]_vars => IInv'
BY TypesPreserved, LockPreserved, StartPreserved, OwnPreserved, CountPreserved,
   MonitorPreserved, InhibitPreserved DEF IInv

LEMMA Assumed == Assumptions
BY TicksAssumption, CallerAssumption, BoundAssumption DEF Assumptions

LEMMA Invariant == Spec => []IInv
BY Assumed, Initially, Inductive, PTL DEF Spec

-----------------------------------------------------------------------------
(* What the executor promises *)

\* Every variable keeps its type: among others, nothing but the bounded calls
\* and five stops that occur once each moves the generation, and the count of
\* critical cycles ends at stop_ticks.
THEOREM TypeCorrect == Spec => []TypeOK
<1>1. IInv => TypeOK
  BY DEF IInv
<1> QED  BY <1>1, Invariant, PTL

\* A thread that runs has exactly one owner (start, stop and their failures).
THEOREM ThreadsAreOwnedOnce == Spec => []HandleOwnedOnce
<1>1. ASSUME IInv PROVE HandleOwnedOnce
  <2>1. SUFFICES ASSUME NEW w \in Worker
                 PROVE  LET owners == {c \in Caller : w \in moved[c]}
                        IN /\ Cardinality(owners)
                                + (IF w \in handles THEN 1 ELSE 0) <= 1
                           /\ ~Ended(w) => w \in handles \/ owners # {}
    BY DEF HandleOwnedOnce
  <2> DEFINE owners == {c \in Caller : w \in moved[c]}
  <2>2. CASE owners = {}
    <3>1. Cardinality(owners) = 0
      BY <2>2, FS_EmptySet
    <3> QED  BY <1>1, <2>2, <3>1 DEF IInv, OwnInv
  <2>3. CASE owners # {}
    <3>1. PICK c \in Caller : w \in moved[c]
      BY <2>3
    <3>2. owners = {c} /\ w \notin handles
      BY <1>1, <3>1 DEF IInv, OwnInv
    <3>3. Cardinality(owners) = 1
      BY <3>2, FS_Singleton
    <3> QED  BY <2>3, <3>2, <3>3
  <2> QED  BY <2>2, <2>3
<1> QED  BY <1>1, Invariant, PTL

\* After the first inhibition no transmission starts (controlMain's
\* gate_inhibited, the mailbox and beginSend's check of the generation).
THEOREM InhibitionIsFinal == Spec => NoMotionAfterInhibit
<1> DEFINE P == gate_inhibited /\ at'["comm"] = "tx" => at["comm"] = "tx"
<1>1. ASSUME IInv, Next, gate_inhibited, at'["comm"] = "tx", at["comm"] # "tx"
      PROVE  FALSE
  <2> USE Workers
  <2>1. TypeOK /\ held < generation
    BY <1>1 DEF IInv, InhibitInv
  <2>2. CASE CommStep
    <3>1. CASE BeginSend
      BY <2>1, <3>1 DEF BeginSend, TypeOK, Generation
    <3>2. CASE \/ LoopTop("comm") \/ CheckPredicate("comm") \/ Block("comm")
               \/ TimeOut("comm") \/ Throw("comm") \/ FailSafe("comm")
      <4>1. at'["comm"] # "tx"
        BY <2>1, <3>2, SharedSteps
      <4> QED  BY <1>1, <4>1
    <3>3. CASE \/ TakeLatest \/ EndBatch \/ FinishSend \/ SendFails
               \/ AfterCommands \/ PollSlice
      BY <1>1, <2>1, <3>3, Places DEF TakeLatest, EndBatch, FinishSend,
         SendFails, AfterCommands, PollSlice, Go
    <3> QED  BY <2>2, <3>1, <3>2, <3>3 DEF CommStep
  <2>3. CASE ControlStep
    BY <1>1, <2>1, <2>3, ControlMoves
  <2>4. ASSUME NEW c \in Caller, StopBegin(c) \/ CallStep(c) PROVE FALSE
    <3>1. CASE SpawnComm(c)
      BY <1>1, <2>1, <3>1, Places DEF SpawnComm, Go
    <3>2. CASE ~SpawnComm(c)
      BY <1>1, <2>1, <2>4, <3>2, CallMoves DEF CallStep
    <3> QED  BY <3>1, <3>2
  <2>5. ASSUME NEW c \in Caller, NEW created \in BOOLEAN, Start(c, created)
        PROVE  FALSE
    BY <1>1, <2>1, <2>5, Places DEF Start, Go
  <2>6. CASE Recover
    BY <1>1, <2>6 DEF Recover
  <2> QED  BY <1>1, <2>2, <2>3, <2>4, <2>5, <2>6 DEF Next
<1>2. IInv /\ [Next]_vars => [P]_vars
  BY <1>1
<1> QED  BY <1>2, Invariant, PTL DEF Spec, NoMotionAfterInhibit

-----------------------------------------------------------------------------
(* An executor runs once *)

\* Nothing has stopped what has not been started.
EarlyInv == stopping => started

\* Both threads are gone, and none is about to be made.
ThreadsOver ==
  /\ started /\ stopping
  /\ \A c \in Caller : app[c] # "spawning"
  /\ \A w \in Worker : Ended(w)

LEMMA StoppingStays ==
  ASSUME Assumptions, IInv, EarlyInv, Next, stopping
  PROVE  stopping' /\ started'
<1>1. TypeOK /\ started
  BY DEF IInv, EarlyInv
<1>2. CASE ControlStep
  BY <1>1, <1>2, ControlMoves DEF lifecycleVars
<1>3. CASE CommStep
  BY <1>1, <1>3, CommMoves DEF lifecycleVars
<1>4. ASSUME NEW c \in Caller, StopBegin(c) \/ CallStep(c)
      PROVE  stopping' /\ started'
  <2>1. CASE SpawnComm(c)
    BY <1>1, <2>1 DEF SpawnComm
  <2>2. CASE ~SpawnComm(c)
    BY <1>1, <1>4, <2>2, CallMoves DEF CallStep
  <2> QED  BY <2>1, <2>2
<1>5. CASE Recover
  BY <1>1, <1>5 DEF Recover, lifecycleVars
<1>6. ~\E c \in Caller, created \in BOOLEAN : Start(c, created)
  BY <1>1 DEF Start
<1> QED  BY <1>2, <1>3, <1>4, <1>5, <1>6 DEF Next

LEMMA EarlyPreserved ==
  ASSUME Assumptions, IInv, EarlyInv, [Next]_vars
  PROVE  EarlyInv'
<1>1. CASE UNCHANGED vars
  BY <1>1 DEF vars, lifecycleVars, EarlyInv
<1>2. CASE Next /\ stopping
  BY <1>2, StoppingStays DEF EarlyInv
<1>3. CASE Next /\ started
  <2>1. started'
    <3>1. CASE ControlStep \/ CommStep
      BY <1>3, <3>1, ControlMoves, CommMoves DEF IInv, lifecycleVars
    <3>2. ASSUME NEW c \in Caller, StopBegin(c) \/ CallStep(c)
          PROVE  started'
      BY <1>3, <3>2 DEF StopBegin, CallStep, SpawnComm, SpawnFails, Unwind,
         StopGateAndMove, Join
    <3>3. CASE Recover
      BY <1>3, <3>3 DEF Recover, lifecycleVars
    <3>4. ~\E c \in Caller, created \in BOOLEAN : Start(c, created)
      BY <1>3 DEF Start
    <3> QED  BY <1>3, <3>1, <3>2, <3>3, <3>4 DEF Next
  <2> QED  BY <2>1 DEF EarlyInv
<1>4. CASE Next /\ ~started /\ ~stopping
  <2>1. \A w \in Worker : Ended(w)
    BY <1>4 DEF IInv, StartInv, Ended
  <2>2. ~ControlStep /\ ~CommStep
    BY <2>1, ControlMoves, CommMoves, Workers DEF IInv
  <2>3. \A c \in Caller : ~StopBegin(c) /\ ~CallStep(c)
    BY <1>4 DEF IInv, StartInv, StopBegin, CallStep, SpawnComm, SpawnFails,
       Unwind, StopGateAndMove, Join
  <2>4. CASE Recover
    BY <1>4, <2>4 DEF Recover, lifecycleVars, EarlyInv
  <2>5. ASSUME NEW c \in Caller, NEW created \in BOOLEAN, Start(c, created)
        PROVE  EarlyInv'
    BY <2>5 DEF Start, EarlyInv
  <2> QED  BY <1>4, <2>2, <2>3, <2>4, <2>5 DEF Next
<1> QED  BY <1>1, <1>2, <1>3, <1>4

\* An executor that has been told to stop is never told otherwise, and when
\* both threads have ended none runs again: what StoppingEndsThreads waits for
\* is never undone, by an exception in the middle of start() as little as by a
\* later start() or an operator who reopens the gate.
THEOREM RunsOnce ==
  Spec => /\ [][stopping => stopping']_vars
          /\ [][ThreadsOver => ThreadsOver']_vars
<1>1. Init => EarlyInv
  BY DEF Init, EarlyInv
<1>2. Assumptions /\ IInv /\ EarlyInv /\ [Next]_vars => EarlyInv'
  BY EarlyPreserved
<1>3. Assumptions /\ IInv /\ EarlyInv /\ [Next]_vars
        => [stopping => stopping']_vars
  BY StoppingStays
<1>4. ASSUME Assumptions, IInv, EarlyInv, Next, ThreadsOver
      PROVE  ThreadsOver'
  <2> USE <1>4
  <2>1. started' /\ stopping'
    BY StoppingStays DEF ThreadsOver
  <2>2. ~ControlStep /\ ~CommStep
    BY ControlMoves, CommMoves, Workers DEF ThreadsOver, IInv
  <2>3. /\ ~\E c \in Caller, created \in BOOLEAN : Start(c, created)
        /\ ~\E c \in Caller : SpawnComm(c) \/ SpawnFails(c)
    BY DEF ThreadsOver, Start, SpawnComm, SpawnFails
  <2>4. \/ Recover
        \/ \E c \in Caller : \/ Unwind(c) \/ StopBegin(c)
                             \/ StopGateAndMove(c) \/ Join(c)
    BY <2>2, <2>3 DEF Next, CallStep
  <2>5. \A w \in Worker : Ended(w)'
    <3>1. \A w \in Worker : at'[w] = at[w]
      BY <2>4, NoRevival DEF ThreadsOver
    <3> QED  BY <3>1 DEF ThreadsOver, Ended
  <2>6. \A c \in Caller : app'[c] # "spawning"
    <3>1. app \in [Caller -> {"idle", "spawning", "unwinding", "stopping",
                              "joining", "returned"}]
      BY DEF IInv, TypeOK
    <3> QED
      BY <2>4, <3>1 DEF ThreadsOver, Recover, Unwind, StopBegin,
         StopGateAndMove, Join, lifecycleVars
  <2> QED  BY <2>1, <2>5, <2>6 DEF ThreadsOver
<1>5. Assumptions /\ IInv /\ EarlyInv /\ [Next]_vars
        => [ThreadsOver => ThreadsOver']_vars
  BY <1>4
<1> QED  BY <1>1, <1>2, <1>3, <1>5, Assumed, Invariant, PTL DEF Spec

-----------------------------------------------------------------------------
(* Once told to stop, a thread has few steps left *)

\* How many steps of its own a worker may still take when stopping_ is set, in
\* the worst case: the rest of a cycle, or the rest of a batch.
Ahead(place, batch) ==
  CASE place = "ended" -> 0
    [] place \in {"top", "check", "failing", "sent"} -> 1
    [] place \in {"none", "blocked", "computed", "rejected", "poll"} -> 2
    [] place \in {"blocking", "tick"} -> 3
    [] place = "decided" -> 4
    [] place = "clear" -> 5
    [] place = "inhibit" -> 6
    [] place = "cycle" -> 7
    [] place = "send" -> 2 * batch + 2
    [] place = "tx" -> 2 * batch + 3
    [] place = "take" -> 2 * Servos + 3

StepsLeft(w) == Ahead(at[w], IF w = "comm" THEN left ELSE 0)

\* No more than the longest cycle, or the largest batch.
FewStepsLeft == \A w \in Worker : StepsLeft(w) \in 0 .. 2 * Servos + 7

\* Each step of a thread uses one up, and no step gives any back: not a wake-up,
\* not an operator's recovery, not a start() that is still under way.
WindsDown ==
  /\ \A w \in Worker : StepsLeft(w)' <= StepsLeft(w)
  /\ ControlStep => StepsLeft("control")' < StepsLeft("control")
  /\ CommStep => StepsLeft("comm")' < StepsLeft("comm")

LEMMA AheadBounded ==
  ASSUME Servos \in Nat, NEW place \in Place, NEW batch \in 0..Servos
  PROVE  Ahead(place, batch) \in 0 .. 2 * Servos + 7
<1>1. batch \in Nat /\ batch <= Servos
  OBVIOUS
<1>2. CASE place = "send"
  BY <1>1, <1>2 DEF Ahead
<1>3. CASE place = "tx"
  BY <1>1, <1>3 DEF Ahead
<1>4. CASE place = "take"
  BY <1>4 DEF Ahead
<1>5. CASE place \notin {"send", "tx", "take"}
  <2>1. Ahead(place, batch) \in 0..7
    BY <1>5 DEF Ahead, Place
  <2>2. 0..7 \subseteq 0 .. 2 * Servos + 7
    OBVIOUS
  <2> QED  BY <2>1, <2>2
<1> QED  BY <1>2, <1>3, <1>4, <1>5

LEMMA FewSteps == Assumptions /\ TypeOK => FewStepsLeft
<1> SUFFICES ASSUME Assumptions, TypeOK, NEW w \in Worker
             PROVE  StepsLeft(w) \in 0 .. 2 * Servos + 7
  BY DEF FewStepsLeft
<1>1. Servos \in Nat /\ left \in 0..Servos /\ 0 \in 0..Servos /\ at[w] \in Place
  BY Constants, Places DEF TypeOK
<1> QED  BY <1>1, AheadBounded DEF StepsLeft

LEMMA StaysAhead ==
  ASSUME Assumptions, TypeOK, NEW w \in Worker, left' = left,
         at'[w] = at[w] \/ (at[w] = "blocked" /\ at'[w] = "check")
  PROVE  StepsLeft(w)' <= StepsLeft(w)
<1>1. left \in 0..Servos /\ Servos \in Nat /\ at[w] \in Place
  BY Constants, Places DEF TypeOK
<1>2. CASE at'[w] = at[w]
  <2>1. StepsLeft(w)' = StepsLeft(w)
    BY <1>2 DEF StepsLeft
  <2>2. StepsLeft(w) \in 0 .. 2 * Servos + 7
    BY <1>1, AheadBounded DEF StepsLeft
  <2> QED  BY <1>1, <2>1, <2>2
<1>3. CASE at[w] = "blocked" /\ at'[w] = "check"
  BY <1>3 DEF StepsLeft, Ahead
<1> QED  BY <1>2, <1>3

\* What both threads do.
LEMMA SharedWindsDown ==
  ASSUME Assumptions, TypeOK, stopping, NEW w \in Worker,
         \/ LoopTop(w) \/ CheckPredicate(w) \/ Block(w) \/ TimeOut(w)
         \/ Throw(w) \/ FailSafe(w)
  PROVE  StepsLeft(w)' < StepsLeft(w)
<1> USE Places, Workers DEF Place
<1>1. Servos \in Nat /\ at \in [Worker -> Place]
  BY Constants
<1>2. CASE LoopTop(w) \/ CheckPredicate(w) \/ FailSafe(w)
  <2>1. at[w] \in {"top", "check", "failing"} /\ at'[w] = "ended"
    BY <1>1, <1>2 DEF LoopTop, CheckPredicate, FailSafe, Go, Notified
  <2> QED  BY <2>1 DEF StepsLeft, Ahead
<1>3. CASE Block(w)
  <2>1. at[w] = "blocking" /\ at'[w] = "blocked"
    BY <1>1, <1>3 DEF Block, Go
  <2> QED  BY <2>1 DEF StepsLeft, Ahead
<1>4. CASE TimeOut(w)
  <2>1. at[w] = "blocked" /\ at'[w] = "ended"
    BY <1>1, <1>4 DEF TimeOut, Go
  <2> QED  BY <2>1 DEF StepsLeft, Ahead
<1>5. CASE Throw(w)
  <2>1. at[w] \in {"cycle", "tick", "take", "poll"} /\ at'[w] = "failing"
    BY <1>1, <1>5 DEF Throw, Go
  <2> QED  BY <1>1, <2>1 DEF StepsLeft, Ahead
<1> QED  BY <1>2, <1>3, <1>4, <1>5

LEMMA ControlWindsDown ==
  ASSUME Assumptions, TypeOK, stopping, ControlStep
  PROVE  StepsLeft("control")' < StepsLeft("control")
<1> USE Places, Workers DEF Place
<1>1. CASE \/ LoopTop("control") \/ CheckPredicate("control")
           \/ Block("control") \/ TimeOut("control") \/ Throw("control")
           \/ FailSafe("control")
  BY <1>1, SharedWindsDown
<1>2. ASSUME NEW health \in Health, NEW over \in BOOLEAN,
             EvaluateFeedback(health, over)
      PROVE  /\ at["control"] = "cycle"
             /\ at'["control"] \in {"inhibit", "decided"}
  BY <1>2 DEF EvaluateFeedback, Go
<1>3. CASE Inhibit \/ ClearPending
  <2>1. \/ at["control"] = "inhibit" /\ at'["control"] = "clear"
        \/ at["control"] = "clear" /\ at'["control"] = "decided"
    BY <1>3 DEF Inhibit, ClearPending, Go
  <2> QED  BY <2>1 DEF StepsLeft, Ahead
<1>4. CASE Decide
  <2>1. at["control"] = "decided" /\ at'["control"] \in {"tick", "top"}
    BY <1>4 DEF Decide, Notified
  <2> QED  BY <2>1 DEF StepsLeft, Ahead
<1>5. CASE \/ TickComputes \/ TickIdles \/ TickRejects \/ TickClears
           \/ TickPublishes
  <2>1. \/ /\ at["control"] = "tick"
           /\ at'["control"] \in {"computed", "top", "rejected"}
        \/ at["control"] \in {"rejected", "computed"} /\ at'["control"] = "top"
    BY <1>5 DEF TickComputes, TickIdles, TickRejects, TickClears,
       TickPublishes, Go
  <2> QED  BY <2>1 DEF StepsLeft, Ahead
<1>6. ASSUME at["control"] = "cycle", at'["control"] \in {"inhibit", "decided"}
      PROVE  StepsLeft("control")' < StepsLeft("control")
  BY <1>6 DEF StepsLeft, Ahead
<1> QED  BY <1>1, <1>2, <1>3, <1>4, <1>5, <1>6 DEF ControlStep

LEMMA CommWindsDown ==
  ASSUME Assumptions, TypeOK, stopping, CommStep
  PROVE  StepsLeft("comm")' < StepsLeft("comm")
<1> USE Places, Workers DEF Place
<1>0. Servos \in Nat /\ left \in 0..Servos
  BY Constants DEF TypeOK
<1>1. CASE \/ LoopTop("comm") \/ CheckPredicate("comm")
           \/ Block("comm") \/ TimeOut("comm") \/ Throw("comm")
           \/ FailSafe("comm")
  BY <1>1, SharedWindsDown
<1>2. CASE TakeLatest
  <2>1. /\ at["comm"] = "take" /\ at'["comm"] \in {"sent", "send"}
        /\ left' \in {0, Servos}
    BY <1>2 DEF TakeLatest, Go
  <2> QED  BY <1>0, <2>1 DEF StepsLeft, Ahead
<1>3. CASE BeginSend
  <2>1. at["comm"] = "send" /\ at'["comm"] = "tx" /\ left' = left - 1
    BY <1>3 DEF BeginSend, Go
  <2> QED  BY <1>0, <2>1 DEF StepsLeft, Ahead
<1>4. CASE FinishSend
  <2>1. at["comm"] = "tx" /\ at'["comm"] = "send" /\ left' = left
    BY <1>4 DEF FinishSend, Go, sending
  <2> QED  BY <1>0, <2>1 DEF StepsLeft, Ahead
<1>5. CASE EndBatch \/ SendFails
  <2>1. at["comm"] \in {"send", "tx"} /\ at'["comm"] = "sent"
    BY <1>5 DEF EndBatch, SendFails, Go
  <2> QED  BY <1>0, <2>1 DEF StepsLeft, Ahead
<1>6. CASE AfterCommands \/ PollSlice
  <2>1. \/ at["comm"] = "sent" /\ at'["comm"] = "ended"
        \/ at["comm"] = "poll" /\ at'["comm"] = "check"
    BY <1>6 DEF AfterCommands, PollSlice, Go
  <2> QED  BY <2>1 DEF StepsLeft, Ahead
<1> QED  BY <1>1, <1>2, <1>3, <1>4, <1>5, <1>6 DEF CommStep

LEMMA AllWindDown ==
  ASSUME Assumptions, IInv, EarlyInv, Next, stopping
  PROVE  WindsDown
<1> USE Workers
<1>0. TypeOK /\ started /\ Servos \in Nat /\ left \in 0..Servos
  BY Constants DEF IInv, EarlyInv, TypeOK
<1>1. ASSUME UNCHANGED left,
             \A w \in Worker : at'[w] = at[w]
                                 \/ (at[w] = "blocked" /\ at'[w] = "check")
      PROVE  \A w \in Worker : StepsLeft(w)' <= StepsLeft(w)
  BY <1>0, <1>1, StaysAhead
<1>2. /\ ControlStep => StepsLeft("control")' < StepsLeft("control")
      /\ CommStep => StepsLeft("comm")' < StepsLeft("comm")
  BY <1>0, ControlWindsDown, CommWindsDown
<1>3. FewStepsLeft /\ FewStepsLeft'
  <2>1. at' \in [Worker -> Place] /\ left' \in 0..Servos
    BY TypesPreserved DEF TypeOK, Place
  <2>2. ASSUME NEW w \in Worker PROVE StepsLeft(w)' \in 0 .. 2 * Servos + 7
    BY <1>0, <2>1, AheadBounded DEF StepsLeft
  <2> QED  BY <1>0, <2>2, FewSteps DEF FewStepsLeft
<1>4. ASSUME NEW w \in Worker
      PROVE  StepsLeft(w) \in Int /\ StepsLeft(w)' \in Int
  BY <1>0, <1>3 DEF FewStepsLeft
<1>5. CASE ControlStep
  <2>1. StepsLeft("comm")' <= StepsLeft("comm")
    BY <1>0, <1>5, ControlMoves, StaysAhead DEF sending
  <2> QED  BY <1>2, <1>4, <1>5, <2>1 DEF WindsDown
<1>6. CASE CommStep
  <2>1. \/ at'["control"] = at["control"]
        \/ at["control"] = "blocked" /\ at'["control"] = "check"
    BY <1>0, <1>6, CommMoves
  <2>2. CASE at'["control"] = at["control"]
    <3>1. StepsLeft("control")' = StepsLeft("control")
      BY <2>2 DEF StepsLeft
    <3> QED  BY <1>2, <1>4, <1>6, <3>1 DEF WindsDown
  <2>3. CASE at["control"] = "blocked" /\ at'["control"] = "check"
    <3>1. StepsLeft("control")' <= StepsLeft("control")
      BY <2>3 DEF StepsLeft, Ahead
    <3> QED  BY <1>2, <1>4, <1>6, <3>1 DEF WindsDown
  <2> QED  BY <2>1, <2>2, <2>3
<1>7. ASSUME NEW c \in Caller,
             \/ SpawnFails(c) \/ Unwind(c) \/ StopBegin(c)
             \/ StopGateAndMove(c) \/ Join(c)
      PROVE  WindsDown
  BY <1>0, <1>1, <1>2, <1>7, CallMoves DEF WindsDown, sending
<1>8. ASSUME NEW c \in Caller, SpawnComm(c)
      PROVE  WindsDown
  <2>1. at["comm"] = "none"
    BY <1>8 DEF IInv, StartInv, SpawnComm
  <2>2. at'["comm"] = "top" /\ at'["control"] = at["control"] /\ left' = left
    BY <1>0, <1>8, Places DEF SpawnComm, Go, sending
  <2>3. StepsLeft("comm")' <= StepsLeft("comm")
    BY <2>1, <2>2 DEF StepsLeft, Ahead
  <2>4. StepsLeft("control")' <= StepsLeft("control")
    BY <1>0, <2>2, StaysAhead
  <2> QED  BY <1>2, <2>3, <2>4 DEF WindsDown
<1>9. CASE Recover
  <2>1. UNCHANGED <<at, left>>
    BY <1>9 DEF Recover, sending
  <2> QED  BY <1>1, <1>2, <2>1 DEF WindsDown
<1>10. ~\E c \in Caller, created \in BOOLEAN : Start(c, created)
  BY <1>0 DEF Start
<1> QED
  BY <1>5, <1>6, <1>7, <1>8, <1>9, <1>10 DEF Next, CallStep

\* Once stopping_ is set, whoever set it, the threads have a bounded number of
\* steps left, each one they take is one less, and nothing adds to them: this is
\* the safety half of StoppingEndsThreads, and with it the bound on how long
\* stop() has to wait (its joins wait for nothing else).
THEOREM StoppingTakesFewSteps ==
  Spec => []FewStepsLeft /\ [][stopping => WindsDown]_vars
<1>1. Init => EarlyInv
  BY DEF Init, EarlyInv
<1>2. Assumptions /\ IInv /\ EarlyInv /\ [Next]_vars => EarlyInv'
  BY EarlyPreserved
<1>3. Assumptions /\ IInv => FewStepsLeft
  BY FewSteps DEF IInv
<1>4. Assumptions /\ IInv /\ EarlyInv /\ [Next]_vars
        => [stopping => WindsDown]_vars
  BY AllWindDown
<1> QED  BY <1>1, <1>2, <1>3, <1>4, Assumed, Invariant, PTL DEF Spec

-----------------------------------------------------------------------------
(* A safe stop is the last thing the monitor decides *)

SafeStopped == monitor.state = "SAFE_STOP"

\* The state machine is in SAFE_STOP for the one reason that there were
\* stop_ticks critical cycles in a row.
StateInv == SafeStopped => monitor.criticals = StopTicks

\* On its way out: the decision is being carried out, or the loop is over.
LeavesItsLoop ==
  \/ at["control"] \in {"inhibit", "clear", "decided"} /\ decision.safeStop
  \/ at["control"] = "top" /\ stopping
  \/ at["control"] = "ended"

LEMMA OnlyTheCycleJudges ==
  ASSUME Assumptions, TypeOK, [Next]_vars
  PROVE  \/ UNCHANGED monitor
         \/ \E health \in Health, over \in BOOLEAN :
              EvaluateFeedback(health, over)
<1>1. CASE ControlStep
  BY <1>1 DEF ControlStep, LoopTop, CheckPredicate, Block, TimeOut, Throw,
     FailSafe, Inhibit, ClearPending, Decide, TickComputes, TickIdles,
     TickRejects, TickClears, TickPublishes, safety
<1>2. CASE CommStep
  BY <1>2, CommMoves DEF safety
<1>3. ASSUME NEW c \in Caller, StopBegin(c) \/ CallStep(c)
      PROVE  UNCHANGED monitor
  BY <1>3 DEF StopBegin, CallStep, SpawnComm, SpawnFails, Unwind,
     StopGateAndMove, Join, safety
<1>4. ASSUME NEW c \in Caller, NEW created \in BOOLEAN, Start(c, created)
      PROVE  UNCHANGED monitor
  BY <1>4 DEF Start, safety
<1>5. CASE Recover \/ UNCHANGED vars
  BY <1>5 DEF Recover, vars, safety
<1> QED  BY <1>1, <1>2, <1>3, <1>4, <1>5 DEF Next

\* Only the last of stop_ticks critical cycles enters SAFE_STOP.
LEMMA EntersSafeStop ==
  ASSUME Assumptions, NEW m \in Monitor, m.criticals < StopTicks,
         m.state # "SAFE_STOP", NEW health \in Health, NEW grace \in BOOLEAN,
         Evaluate(m, health, grace).state = "SAFE_STOP"
  PROVE  Evaluate(m, health, grace).criticals = StopTicks
<1> DEFINE n == Evaluate(m, health, grace)
<1>1. CASE StartupWaiting(m, health, grace)
  <2>1. n = m
    BY <1>1 DEF Evaluate, StartupWaiting
  <2> QED  BY <2>1
<1>2. CASE health = "critical" /\ ~StartupWaiting(m, health, grace)
  <2>1. n = Critical(m)
    BY <1>2 DEF Evaluate
  <2>2. /\ Critical(m).criticals = m.criticals + 1
        /\ Critical(m).state = IF m.criticals + 1 >= StopTicks
                                 THEN "SAFE_STOP" ELSE Degrade(m.state)
    BY DEF Critical, Monitor
  <2>3. Degrade(m.state) # "SAFE_STOP"
    BY DEF Degrade
  <2> QED  BY <2>1, <2>2, <2>3, Constants DEF Monitor
<1>3. CASE health \in {"warning", "good"}
  <2>1. n \in {Warning(m), Good(m)}
    BY <1>3 DEF Evaluate, StartupWaiting
  <2>2. /\ Good(m).state = m.state
        /\ Warning(m).state \in {m.state, Degrade(m.state)}
    BY DEF Good, Warning, Monitor
  <2> QED  BY <2>1, <2>2 DEF Degrade
<1> QED  BY <1>1, <1>2, <1>3 DEF Health

LEMMA StatePreserved ==
  ASSUME Assumptions, IInv, StateInv, [Next]_vars
  PROVE  StateInv' /\ (SafeStopped => monitor' = monitor)
<1>1. CASE UNCHANGED monitor
  BY <1>1 DEF StateInv, SafeStopped
<1>2. ASSUME NEW health \in Health, NEW over \in BOOLEAN,
             EvaluateFeedback(health, over)
      PROVE  StateInv' /\ (SafeStopped => monitor' = monitor)
  <2>1. /\ at["control"] = "cycle" /\ (~over) \in BOOLEAN
        /\ monitor' = Evaluate(monitor, health, ~over)
    BY <1>2 DEF EvaluateFeedback
  <2>2. monitor \in Monitor /\ monitor.criticals < StopTicks
    BY <2>1, Constants DEF IInv, TypeOK, MonitorInv, Monitor
  <2>3. ~SafeStopped
    BY <2>2, Constants DEF StateInv
  <2> QED  BY <2>1, <2>2, <2>3, EntersSafeStop DEF StateInv, SafeStopped
<1> QED  BY <1>1, <1>2, OnlyTheCycleJudges DEF IInv

\* When the monitor is in SAFE_STOP, the control thread is on its way out and
\* judges no cycle any more: nothing that happens later, no fresh feedback and
\* no operator's recovery, makes this executor take the verdict back
\* (FeedbackSafetyMonitor::evaluate, controlMain).
THEOREM SafeStopIsLast ==
  Spec => /\ [](SafeStopped => LeavesItsLoop)
          /\ [][SafeStopped => monitor' = monitor]_vars
<1>1. Init => StateInv
  BY DEF Init, StateInv, SafeStopped, FreshMonitor
<1>2. Assumptions /\ IInv /\ StateInv /\ [Next]_vars => StateInv'
  BY StatePreserved
<1>3. IInv /\ StateInv => (SafeStopped => LeavesItsLoop)
  BY DEF IInv, StateInv, MonitorInv, LeavesItsLoop
<1>4. Assumptions /\ IInv /\ StateInv /\ [Next]_vars
        => [SafeStopped => monitor' = monitor]_vars
  BY StatePreserved
<1> QED  BY <1>1, <1>2, <1>3, <1>4, Assumed, Invariant, PTL DEF Spec
=============================================================================
