----------------------- MODULE CommandPipeline_proofs -----------------------
(***************************************************************************)
(* The safety of a command's path, for any number of servos, any age       *)
(* limit, interval and size of the polled slice, and for every bound.      *)
(***************************************************************************)
EXTENDS CommandPipeline, TLAPS

\* The places at which the communication thread holds a command, and those at
\* which it holds a permit for one servo of it.
Sends == {"check", "send", "finish", "sent", "failed", "latched"}
Permitted == {"finish", "sent", "failed", "latched"}

\* What the transport, the port, the wire and the gate's count have to do with
\* the place of the communication thread.
BusInv ==
  /\ in_flight = IF mpc \in Permitted THEN 1 ELSE 0
  /\ sending <=> mpc = "finish"
  /\ port = "active" <=> mpc = "finish"
  /\ port = "faulted" => faulted
  /\ mpc \in {"failed", "latched"} => faulted
  /\ mpc \in {"finish", "sent"} => ~faulted
  /\ on_wire => faulted \/ mpc = "finish"

\* A failed send stops the gate without regard to the bound, but only once.
GenerationInv ==
  generation = MaxGeneration + 1 => faulted /\ mpc # "failed"

\* The threads' local times.
ClockInv ==
  /\ entry_now <= clock /\ tick_now <= clock
  /\ cpc \in {"computed", "stamped"} => last_tick = tick_now

\* Commands overtake none on their way: from the servos over the batch, the
\* mailbox and the tick to the counter, sequence numbers do not fall.
SequenceInv ==
  /\ draft # NoCommand => draft.sequence <= sequence
  /\ pending # NoCommand =>
       /\ pending.sequence <= sequence
       /\ draft # NoCommand => pending.sequence <= draft.sequence
  /\ taken # NoCommand =>
       /\ taken.sequence <= sequence
       /\ draft # NoCommand => taken.sequence <= draft.sequence
       /\ pending # NoCommand => taken.sequence <= pending.sequence
  /\ \A j \in Joint :
       /\ applied[j] <= sequence
       /\ draft # NoCommand => applied[j] <= draft.sequence
       /\ pending # NoCommand => applied[j] <= pending.sequence
       /\ taken # NoCommand => applied[j] <= taken.sequence

\* A batch has reached the servos before joint, and the one it has a permit for.
BatchInv ==
  /\ mpc \in Sends => taken # NoCommand
  /\ mpc \in Sends \ {"check"} => joint \in Joint
  /\ taken # NoCommand =>
       \A j \in Joint : j < joint => applied[j] = taken.sequence
  /\ mpc \in Permitted => applied[joint] = taken.sequence

\* d is the generation of an open gate: the next one is of a closed gate.
OpenAt(d) ==
  /\ d <= generation
  /\ generation = d => ~stopped
  /\ generation = d + 1 => stopped

DecidedInv ==
  /\ cpc \in {"gated", "estimated", "computed", "stamped"} => OpenAt(decided)
  /\ draft # NoCommand => OpenAt(draft.decided)
  /\ pending # NoCommand => OpenAt(pending.decided)
  /\ taken # NoCommand => OpenAt(taken.decided)

IInv ==
  /\ TypeOK /\ BusInv /\ GenerationInv /\ ClockInv
  /\ SequenceInv /\ BatchInv /\ TornBatchOrder /\ DecidedInv

-----------------------------------------------------------------------------
LEMMA Constants ==
  ASSUME PipelineAssumption
  PROVE  /\ N \in Nat \ {0} /\ BatchSize \in 1..N /\ MaxAge \in Nat \ {0}
         /\ MaxStep \in Nat \ {0} /\ MaxTime \in Nat
         /\ MaxGeneration \in Nat \ {0} /\ MaxSequence \in Nat
         /\ Never \notin 0..MaxTime
BY DEF PipelineAssumption

LEMMA Remainder ==
  ASSUME NEW a \in Nat, NEW b \in Nat \ {0}
  PROVE  a % b \in 0 .. (b - 1)
OBVIOUS

LEMMA Initially == PipelineAssumption /\ Init => IInv
<1> SUFFICES ASSUME PipelineAssumption, Init PROVE IInv
  OBVIOUS
<1> USE Constants DEF Init
<1>1. TypeOK
  <2>1. valid \in [Joint -> BOOLEAN] /\ applied \in [Joint -> 0..MaxSequence]
    OBVIOUS
  <2>2. joint \in 1..(N + 1) /\ next_joint \in Joint /\ polled \in 0..BatchSize
    BY DEF Joint
  <2>3. /\ generation \in 1..(MaxGeneration + 1)
        /\ decided \in 1..(MaxGeneration + 1)
        /\ clock \in 0..MaxTime /\ tick_now \in 0..MaxTime
        /\ entry_now \in 0..MaxTime /\ skew \in 0..MaxTime
        /\ sequence \in 0..MaxSequence /\ in_flight \in 0..1
    OBVIOUS
  <2>4. /\ stopped \in BOOLEAN /\ sending \in BOOLEAN
        /\ faulted \in BOOLEAN /\ on_wire \in BOOLEAN
    OBVIOUS
  <2>5. /\ pending \in Command \cup {NoCommand}
        /\ draft \in Command \cup {NoCommand}
        /\ taken \in Command \cup {NoCommand}
        /\ last_tick \in 0..MaxTime \cup {Never}
        /\ cpc = "idle" /\ mpc = "idle" /\ port = "idle"
    OBVIOUS
  <2> QED  BY <2>1, <2>2, <2>3, <2>4, <2>5 DEF TypeOK
<1>2. BusInv /\ GenerationInv /\ ClockInv
  BY DEF BusInv, GenerationInv, ClockInv, Permitted
<1>3. SequenceInv /\ BatchInv /\ TornBatchOrder /\ DecidedInv
  BY DEF SequenceInv, BatchInv, TornBatchOrder, DecidedInv, Joint, Sends,
         Permitted
<1> QED  BY <1>1, <1>2, <1>3 DEF IInv

-----------------------------------------------------------------------------
(* Types *)

LEMMA GateTyped ==
  ASSUME PipelineAssumption, IInv, RequestStop \/ Recover
  PROVE  TypeOK'
<1> USE Constants DEF IInv, TypeOK, gateVars, controlVars, commVars, busVars
<1>1. generation' \in 1..(MaxGeneration + 1)
  <2>1. generation < MaxGeneration /\ generation' = generation + 1
    BY DEF RequestStop, Recover, Stop
  <2> QED  BY <2>1
<1>3. stopped' \in BOOLEAN
  BY DEF RequestStop, Recover, Stop
<1>2. UNCHANGED <<clock, in_flight, pending, valid, controlVars, commVars,
                  busVars>>
  BY DEF RequestStop, Recover, Stop
<1> QED  BY <1>1, <1>2, <1>3

LEMMA TickTyped ==
  ASSUME PipelineAssumption, IInv, Tick
  PROVE  TypeOK'
<1> USE Constants DEF IInv, TypeOK, gateVars, controlVars, commVars, busVars
<1>1. CASE TickBegin
  BY <1>1 DEF TickBegin
<1>2. CASE TickGate
  BY <1>2 DEF TickGate, TickReturns
<1>3. ASSUME NEW ready \in BOOLEAN, TickEstimate(ready) PROVE TypeOK'
  BY <1>3 DEF TickEstimate, TickReturns
<1>4. CASE TickCompute
  BY <1>4 DEF TickCompute
<1>5. ASSUME NEW inLimits \in BOOLEAN, TickReject(inLimits) PROVE TypeOK'
  BY <1>5 DEF TickReject, Stop
<1>6. CASE TickClear
  BY <1>6 DEF TickClear, TickReturns
<1>7. CASE TickStamp
  <2>1. draft' \in Command
    BY <1>7 DEF TickStamp, Command
  <2> QED  BY <1>7, <2>1 DEF TickStamp
<1>8. CASE TickPublish
  BY <1>8 DEF TickPublish, TickReturns
<1> QED  BY <1>1, <1>2, <1>3, <1>4, <1>5, <1>6, <1>7, <1>8 DEF Tick

LEMMA CommTyped ==
  ASSUME PipelineAssumption, IInv, Comm
  PROVE  TypeOK'
<1> USE Constants DEF IInv, TypeOK, gateVars, controlVars, commVars, busVars
<1>1. CASE CommEnter
  BY <1>1 DEF CommEnter
<1>2. CASE CommTake
  BY <1>2 DEF CommTake, BatchReturns, ClockInv
<1>3. CASE CommCheckTTL
  BY <1>3 DEF CommCheckTTL, BatchReturns
<1>4. CASE CommRefused
  BY <1>4 DEF CommRefused, BatchReturns
<1>5. CASE CommStart
  <2>1. taken.sequence \in 0..MaxSequence
    BY <1>5 DEF CommStart, BatchInv, Sends, Command
  <2>2. applied' \in [Joint -> 0..MaxSequence]
    BY <1>5, <2>1 DEF CommStart
  <2>3. in_flight' \in 0..1
    BY <1>5 DEF CommStart, BusInv, Permitted
  <2> QED  BY <1>5, <2>2, <2>3 DEF CommStart
<1>6. CASE CommSent
  BY <1>6 DEF CommSent, FinishSend
<1>7. ASSUME NEW outcome, CommSendFailed(outcome) PROVE TypeOK'
  BY <1>7 DEF CommSendFailed, FinishSend
<1>8. CASE CommLatchStop
  BY <1>8 DEF CommLatchStop, Stop, GenerationInv
<1>9. CASE CommRelease
  <2>1. in_flight' \in 0..1 /\ joint + 1 \in 1..(N + 1)
    BY <1>9 DEF CommRelease, BusInv, BatchInv, Permitted, Sends, Joint
  <2> QED  BY <1>9, <2>1 DEF CommRelease, BatchReturns
<1>10. ASSUME NEW outcome, PollJoint(outcome) PROVE TypeOK'
  <2>1. next_joint' \in Joint
    BY <1>10, Remainder DEF PollJoint, NextJoint, Joint
  <2>2. polled' \in 0..BatchSize
    BY <1>10, Remainder DEF PollJoint
  <2>3. valid' \in [Joint -> BOOLEAN]
    BY <1>10 DEF PollJoint
  <2>4. mpc' \in {"idle", "poll"} /\ faulted' \in BOOLEAN
        /\ port' \in {"idle", "active", "faulted"}
    BY <1>10 DEF PollJoint
  <2>5. UNCHANGED <<clock, gateVars, pending, controlVars, entry_now, skew,
                    taken, joint, sending, on_wire, applied>>
    BY <1>10 DEF PollJoint
  <2> HIDE DEF Joint
  <2> QED  BY <2>1, <2>2, <2>3, <2>4, <2>5
<1> QED  BY <1>1, <1>2, <1>3, <1>4, <1>5, <1>6, <1>7, <1>8, <1>9, <1>10 DEF Comm

LEMMA TypesPreserved ==
  ASSUME PipelineAssumption, IInv, [Next]_vars
  PROVE  TypeOK'
<1>1. CASE UartDrain
  <2>1. on_wire' \in BOOLEAN
    BY <1>1 DEF UartDrain
  <2>2. UNCHANGED <<clock, gateVars, pending, valid, controlVars, commVars,
                    sending, faulted, port, applied>>
    BY <1>1 DEF UartDrain
  <2> QED  BY <2>1, <2>2 DEF IInv, TypeOK, gateVars, controlVars, commVars
<1>2. CASE ClockTick
  BY <1>2, Constants DEF ClockTick, IInv, TypeOK, gateVars, controlVars,
     commVars, busVars
<1>3. CASE UNCHANGED vars
  BY <1>3 DEF vars, IInv, TypeOK, gateVars, controlVars, commVars, busVars
<1> QED  BY <1>1, <1>2, <1>3, GateTyped, TickTyped, CommTyped DEF Next

-----------------------------------------------------------------------------
(* The bus, the gate's count and bound, the times *)

\* Only the communication thread and the UART touch the bus and the count.
LEMMA BusPreserved ==
  ASSUME PipelineAssumption, IInv, [Next]_vars
  PROVE  BusInv'
<1> USE DEF IInv, BusInv, Permitted, gateVars, controlVars, commVars, busVars
<1>1. CASE Tick \/ RequestStop \/ Recover \/ ClockTick \/ UNCHANGED vars
  <2>1. UNCHANGED <<in_flight, mpc, sending, faulted, port, on_wire>>
    BY <1>1 DEF Tick, TickBegin, TickGate, TickEstimate, TickCompute,
       TickReject, TickClear, TickStamp, TickPublish, RequestStop, Recover,
       Stop, ClockTick, vars
  <2> QED  BY <2>1
<1>2. CASE UartDrain
  BY <1>2 DEF UartDrain
<1>3. CASE CommEnter \/ CommTake \/ CommCheckTTL \/ CommRefused
  <2>1. /\ mpc \notin Permitted /\ mpc' \notin Permitted
        /\ UNCHANGED <<in_flight, sending, faulted, port, on_wire>>
    BY <1>3 DEF CommEnter, CommTake, CommCheckTTL, CommRefused, BatchReturns
  <2> QED  BY <2>1
<1>4. CASE CommStart
  BY <1>4 DEF CommStart, CanStart
<1>5. CASE CommSent
  BY <1>5 DEF CommSent, FinishSend
<1>6. ASSUME NEW outcome, CommSendFailed(outcome) PROVE BusInv'
  BY <1>6 DEF CommSendFailed, FinishSend
<1>7. CASE CommLatchStop
  BY <1>7 DEF CommLatchStop, Stop
<1>8. CASE CommRelease
  BY <1>8 DEF CommRelease, BatchReturns
<1>9. ASSUME NEW outcome, PollJoint(outcome) PROVE BusInv'
  BY <1>9 DEF PollJoint
<1> QED
  BY <1>1, <1>2, <1>3, <1>4, <1>5, <1>6, <1>7, <1>8, <1>9 DEF Next, Comm

LEMMA GenerationPreserved ==
  ASSUME PipelineAssumption, IInv, [Next]_vars
  PROVE  GenerationInv'
<1> USE DEF IInv, GenerationInv, gateVars, controlVars, commVars, busVars
<1>1. CASE \/ RequestStop \/ Recover
           \/ \E inLimits \in BOOLEAN : TickReject(inLimits)
  <2>1. generation < MaxGeneration /\ generation' = generation + 1
    BY <1>1 DEF RequestStop, Recover, TickReject, Stop
  <2> QED  BY <2>1, Constants DEF TypeOK
<1>2. CASE ClockTick \/ UartDrain \/ UNCHANGED vars
  <2>1. UNCHANGED <<generation, faulted, mpc>>
    BY <1>2 DEF ClockTick, UartDrain, vars
  <2> QED  BY <2>1
<1>3. CASE \/ TickBegin \/ TickGate \/ TickCompute \/ TickClear \/ TickStamp
           \/ TickPublish \/ \E ready \in BOOLEAN : TickEstimate(ready)
  <2>1. UNCHANGED <<generation, faulted, mpc>>
    BY <1>3 DEF TickBegin, TickGate, TickEstimate, TickCompute, TickClear,
       TickStamp, TickPublish
  <2> QED  BY <2>1
<1>4. CASE CommLatchStop
  BY <1>4 DEF CommLatchStop, Stop, BusInv
<1>5. ASSUME NEW outcome, CommSendFailed(outcome) PROVE GenerationInv'
  BY <1>5, Constants DEF CommSendFailed, FinishSend, BusInv, TypeOK
<1>6. CASE \/ CommEnter \/ CommTake \/ CommCheckTTL \/ CommRefused \/ CommStart
           \/ CommSent \/ CommRelease
  <2>1. UNCHANGED <<generation, faulted>> /\ mpc' # "failed"
    BY <1>6 DEF CommEnter, CommTake, CommCheckTTL, CommRefused, CommStart,
       CommSent, FinishSend, CommRelease, BatchReturns
  <2> QED  BY <2>1
<1>7. ASSUME NEW outcome, PollJoint(outcome) PROVE GenerationInv'
  BY <1>7 DEF PollJoint
<1> QED
  BY <1>1, <1>2, <1>3, <1>4, <1>5, <1>6, <1>7 DEF Next, Tick, Comm

LEMMA ClockPreserved ==
  ASSUME PipelineAssumption, IInv, [Next]_vars
  PROVE  ClockInv'
<1> USE Constants
    DEF IInv, TypeOK, ClockInv, gateVars, controlVars, commVars, busVars
<1>1. CASE RequestStop \/ Recover \/ UartDrain \/ UNCHANGED vars
  <2>1. UNCHANGED <<clock, entry_now, tick_now, cpc, last_tick>>
    BY <1>1 DEF RequestStop, Recover, UartDrain, vars
  <2> QED  BY <2>1
<1>2. CASE ClockTick
  BY <1>2 DEF ClockTick
<1>3. CASE Tick
  <2>1. UNCHANGED <<clock, entry_now>> /\ tick_now' \in {clock, tick_now, 0}
    BY <1>3 DEF Tick, TickBegin, TickGate, TickEstimate, TickCompute,
       TickReject, TickClear, TickStamp, TickPublish, TickReturns
  <2>2. cpc' \in {"computed", "stamped"} => last_tick' = tick_now'
    BY <1>3 DEF Tick, TickBegin, TickGate, TickEstimate, TickCompute,
       TickReject, TickClear, TickStamp, TickPublish, TickReturns
  <2> QED  BY <2>1, <2>2
<1>4. CASE Comm
  <2>1. /\ UNCHANGED <<clock, tick_now, cpc, last_tick>>
        /\ entry_now' \in {clock, entry_now, 0}
    BY <1>4 DEF Comm, CommEnter, CommTake, CommCheckTTL, CommRefused,
       CommStart, CommSent, CommSendFailed, FinishSend, CommLatchStop,
       CommRelease, PollJoint, BatchReturns
  <2> QED  BY <2>1
<1> QED  BY <1>1, <1>2, <1>3, <1>4 DEF Next

-----------------------------------------------------------------------------
(* Sequence numbers and batches *)

\* What is known of the numbers in the places a command passes.
LEMMA Numbers ==
  ASSUME PipelineAssumption, TypeOK
  PROVE  /\ sequence \in Nat /\ generation \in Nat
         /\ \A j \in Joint : applied[j] \in Nat
         /\ draft # NoCommand => draft.sequence \in Nat /\ draft.decided \in Nat
         /\ pending # NoCommand =>
              pending.sequence \in Nat /\ pending.decided \in Nat
         /\ taken # NoCommand => taken.sequence \in Nat /\ taken.decided \in Nat
BY Constants DEF TypeOK, Command

LEMMA SequencePreserved ==
  ASSUME PipelineAssumption, IInv, [Next]_vars
  PROVE  SequenceInv'
<1> USE Numbers
    DEF IInv, SequenceInv, gateVars, controlVars, commVars, busVars
<1>1. CASE \/ RequestStop \/ Recover \/ UartDrain \/ ClockTick
           \/ UNCHANGED vars
  <2>1. UNCHANGED <<sequence, draft, pending, taken, applied>>
    BY <1>1 DEF RequestStop, Recover, UartDrain, ClockTick, vars
  <2> QED  BY <2>1
<1>2. CASE \/ TickBegin \/ TickGate \/ TickCompute
           \/ \E ready \in BOOLEAN : TickEstimate(ready)
           \/ \E inLimits \in BOOLEAN : TickReject(inLimits)
  <2>1. UNCHANGED <<sequence, draft, pending, taken, applied>>
    BY <1>2 DEF TickBegin, TickGate, TickEstimate, TickCompute, TickReject
  <2> QED  BY <2>1
<1>3. CASE TickClear
  <2>1. pending' = NoCommand /\ UNCHANGED <<sequence, draft, taken, applied>>
    BY <1>3 DEF TickClear
  <2> QED  BY <2>1
<1>4. CASE TickStamp
  <2>1. /\ sequence' = sequence + 1 /\ draft'.sequence = sequence + 1
        /\ UNCHANGED <<pending, taken, applied>>
    BY <1>4 DEF TickStamp
  <2> QED  BY <2>1
<1>5. CASE TickPublish
  <2>1. /\ pending' = draft /\ draft' = NoCommand
        /\ UNCHANGED <<sequence, taken, applied>>
    BY <1>5 DEF TickPublish
  <2> QED  BY <2>1
<1>6. CASE CommTake
  <2>1. /\ pending' = NoCommand /\ taken' \in {pending, NoCommand}
        /\ UNCHANGED <<sequence, draft, applied>>
    BY <1>6 DEF CommTake, BatchReturns
  <2> QED  BY <2>1
<1>7. CASE CommStart
  <2>1. /\ applied' = [applied EXCEPT ![joint] = taken.sequence]
        /\ UNCHANGED <<sequence, draft, pending, taken>>
        /\ taken # NoCommand
    BY <1>7 DEF CommStart, BatchInv, Sends
  <2>2. \A j \in Joint : applied'[j] \in {applied[j], taken.sequence}
    BY <2>1 DEF TypeOK
  <2> QED  BY <2>1, <2>2
<1>8. CASE \/ CommEnter \/ CommCheckTTL \/ CommRefused \/ CommSent
           \/ (\E outcome \in {"timeout", "nack"} : CommSendFailed(outcome))
           \/ CommLatchStop \/ CommRelease
           \/ (\E outcome \in {"ok", "bad", "timeout"} : PollJoint(outcome))
  <2>1. /\ UNCHANGED <<sequence, draft, pending, applied>>
        /\ taken' \in {taken, NoCommand}
    BY <1>8 DEF CommEnter, CommCheckTTL, CommRefused, CommSent, CommSendFailed,
       FinishSend, CommLatchStop, CommRelease, PollJoint, BatchReturns
  <2> QED  BY <2>1
<1> QED
  BY <1>1, <1>2, <1>3, <1>4, <1>5, <1>6, <1>7, <1>8 DEF Next, Tick, Comm

LEMMA BatchPreserved ==
  ASSUME PipelineAssumption, IInv, [Next]_vars
  PROVE  BatchInv' /\ TornBatchOrder'
<1> USE Constants, Numbers
    DEF IInv, BatchInv, TornBatchOrder, Sends, Permitted, gateVars,
        controlVars, commVars, busVars
<1>1. CASE RequestStop \/ Recover \/ UartDrain \/ ClockTick \/ Tick
           \/ UNCHANGED vars
  <2>1. UNCHANGED <<mpc, taken, joint, applied>>
    BY <1>1 DEF RequestStop, Recover, UartDrain, ClockTick, vars, Tick,
       TickBegin, TickGate, TickEstimate, TickCompute, TickReject, TickClear,
       TickStamp, TickPublish
  <2> QED  BY <2>1
<1>2. CASE CommTake
  <2>1. /\ UNCHANGED applied /\ joint' = 1
        /\ mpc' = "poll" \/ (mpc' = "check" /\ taken' # NoCommand)
    BY <1>2 DEF CommTake, BatchReturns
  <2> QED  BY <2>1 DEF Joint
<1>3. CASE CommCheckTTL
  <2>1. CASE BatchOver
    BY <1>3, <2>1 DEF CommCheckTTL, BatchReturns, Joint
  <2>2. CASE ~BatchOver
    <3>1. /\ mpc = "check" /\ mpc' = "send" /\ joint <= N
          /\ UNCHANGED <<taken, joint, applied>>
      BY <1>3, <2>2 DEF CommCheckTTL, BatchOver, TypeOK
    <3> QED  BY <3>1 DEF TypeOK, Joint
  <2> QED  BY <2>1, <2>2
<1>4. CASE CommStart
  <2>1. /\ taken # NoCommand /\ joint \in Joint /\ mpc' = "finish"
        /\ applied' = [applied EXCEPT ![joint] = taken.sequence]
        /\ UNCHANGED <<taken, joint>>
    BY <1>4 DEF CommStart
  <2>2. /\ applied'[joint] = taken.sequence
        /\ \A j \in Joint : j # joint => applied'[j] = applied[j]
    BY <2>1 DEF TypeOK
  <2>3. \A j \in Joint : j < joint => applied'[j] = taken.sequence
    BY <2>1, <2>2 DEF Joint
  <2>4. \A j \in Joint : applied[j] <= taken.sequence
    BY <2>1 DEF SequenceInv
  <2>5. ASSUME NEW i \in Joint, NEW j \in Joint, i < j
        PROVE  applied'[i] >= applied'[j]
    <3>1. CASE i <= joint
      <4>1. applied'[i] = taken.sequence
        BY <2>1, <2>2, <2>3, <2>5, <3>1 DEF Joint
      <4>2. applied'[j] <= taken.sequence
        BY <2>1, <2>2, <2>4
      <4> QED  BY <2>1, <4>1, <4>2
    <3>2. CASE i > joint
      BY <2>1, <2>2, <2>5, <3>2 DEF Joint
    <3> QED  BY <2>1, <2>5, <3>1, <3>2 DEF Joint
  <2> QED  BY <2>1, <2>2, <2>3, <2>5
<1>5. CASE CommSent
  BY <1>5 DEF CommSent, FinishSend
<1>6. ASSUME NEW outcome, CommSendFailed(outcome)
      PROVE  BatchInv' /\ TornBatchOrder'
  BY <1>6 DEF CommSendFailed, FinishSend
<1>7. CASE CommLatchStop
  BY <1>7 DEF CommLatchStop
<1>8. CASE CommRelease
  <2>1. CASE mpc = "sent"
    <3>1. /\ joint \in Joint /\ joint' = joint + 1 /\ mpc' = "check"
          /\ UNCHANGED <<taken, applied>>
      BY <1>8, <2>1 DEF CommRelease
    <3> QED  BY <2>1, <3>1 DEF Joint
  <2>2. CASE mpc # "sent"
    BY <1>8, <2>2 DEF CommRelease, BatchReturns, Joint
  <2> QED  BY <2>1, <2>2
<1>9. CASE CommRefused
  BY <1>9 DEF CommRefused, BatchReturns, Joint
<1>10. CASE CommEnter
  BY <1>10 DEF CommEnter
<1>11. ASSUME NEW outcome, PollJoint(outcome)
       PROVE  BatchInv' /\ TornBatchOrder'
  BY <1>11 DEF PollJoint
<1> QED
  BY <1>1, <1>2, <1>3, <1>4, <1>5, <1>6, <1>7, <1>8, <1>9, <1>10, <1>11
     DEF Next, Comm

\* A stop or a recovery leaves what was decided at an open gate one stop behind,
\* or further.
LEMMA GateMoves ==
  ASSUME NEW d \in Nat, generation \in Nat, OpenAt(d),
         generation' = generation + 1,
         stopped' = TRUE \/ (stopped /\ stopped' = FALSE)
  PROVE  OpenAt(d)'
BY DEF OpenAt

LEMMA DecidedPreserved ==
  ASSUME PipelineAssumption, IInv, [Next]_vars
  PROVE  DecidedInv'
<1> USE Constants, Numbers
    DEF IInv, DecidedInv, gateVars, controlVars, commVars, busVars
<1>1. CASE \/ RequestStop \/ Recover \/ CommLatchStop
           \/ \E inLimits \in BOOLEAN : TickReject(inLimits)
  <2>1. /\ generation' = generation + 1
        /\ stopped' = TRUE \/ (stopped /\ stopped' = FALSE)
    BY <1>1 DEF RequestStop, Recover, CommLatchStop, TickReject, Stop
  <2>2. UNCHANGED <<decided, draft, pending, taken>>
    BY <1>1 DEF RequestStop, Recover, CommLatchStop, TickReject, Stop
  <2>3. cpc' \in {"gated", "estimated", "computed", "stamped"} => cpc' = cpc
    BY <1>1 DEF RequestStop, Recover, CommLatchStop, TickReject, Stop
  <2>4. decided \in Nat
    BY DEF TypeOK
  <2> QED  BY <2>1, <2>2, <2>3, <2>4, GateMoves
<1>2. CASE TickGate
  BY <1>2 DEF TickGate, TickReturns, OpenAt
<1>3. CASE TickStamp
  <2>1. /\ draft'.decided = decided /\ OpenAt(decided)
        /\ UNCHANGED <<stopped, generation, decided, pending, taken>>
    BY <1>3 DEF TickStamp
  <2> QED  BY <2>1 DEF OpenAt
<1>4. CASE \/ TickBegin \/ TickCompute \/ TickClear \/ TickPublish
           \/ \E ready \in BOOLEAN : TickEstimate(ready)
  <2>1. /\ UNCHANGED <<stopped, generation, taken>>
        /\ pending' \in {pending, draft, NoCommand}
        /\ draft' \in {draft, NoCommand}
    BY <1>4 DEF TickBegin, TickCompute, TickClear, TickPublish, TickEstimate
  <2>2. cpc' \in {"gated", "estimated", "computed", "stamped"} =>
          cpc \in {"gated", "estimated", "computed", "stamped"}
            /\ decided' = decided
    BY <1>4 DEF TickBegin, TickCompute, TickClear, TickPublish, TickEstimate,
       TickReturns
  <2> QED  BY <2>1, <2>2 DEF OpenAt
<1>5. CASE UartDrain \/ ClockTick \/ UNCHANGED vars
  <2>1. UNCHANGED <<stopped, generation, cpc, decided, draft, pending, taken>>
    BY <1>5 DEF UartDrain, ClockTick, vars
  <2> QED  BY <2>1 DEF OpenAt
<1>6. CASE Comm /\ ~CommLatchStop
  <2>1. /\ UNCHANGED <<stopped, generation, cpc, decided, draft>>
        /\ pending' \in {pending, NoCommand}
        /\ taken' \in {taken, pending, NoCommand}
    BY <1>6 DEF Comm, CommEnter, CommTake, CommCheckTTL, CommRefused,
       CommStart, CommSent, CommSendFailed, FinishSend, CommRelease, PollJoint,
       BatchReturns
  <2> QED  BY <2>1 DEF OpenAt
<1> QED
  BY <1>1, <1>2, <1>3, <1>4, <1>5, <1>6 DEF Next, Tick

LEMMA Inductive == PipelineAssumption /\ IInv /\ [Next]_vars => IInv'
BY TypesPreserved, BusPreserved, GenerationPreserved, ClockPreserved,
   SequencePreserved, BatchPreserved, DecidedPreserved DEF IInv

LEMMA Invariant == Spec => []IInv
BY PipelineAssumption, Initially, Inductive, PTL DEF Spec

-----------------------------------------------------------------------------
(* What the path promises *)

\* Every variable of the path keeps its type, whatever the threads, stops and
\* the clock do.
THEOREM TypeCorrect == Spec => []TypeOK
<1>1. IInv => TypeOK
  BY DEF IInv
<1> QED  BY <1>1, Invariant, PTL

\* On a healthy bus a motion frame is alone on the wire and inside its permit
\* (transport, port and worker).
THEOREM FramesAreAlone == Spec => []BusExclusive
<1>1. IInv => BusExclusive
  BY DEF IInv, BusInv, BusExclusive, Permitted
<1> QED  BY <1>1, Invariant, PTL

\* However batches are cut short and follow each other, no servo holds a newer
\* target than one before it (processCommands).
THEOREM BatchesTearInOrder == Spec => []TornBatchOrder
<1>1. IInv => TornBatchOrder
  BY DEF IInv
<1> QED  BY <1>1, Invariant, PTL

\* Nothing undoes a bus fault, and nothing moves a servo over a faulted bus
\* (startSend, finishSend, recover).
THEOREM FaultsAreFinal == Spec => FaultIsFinal
<1>1. ASSUME Next, faulted PROVE faulted' /\ UNCHANGED applied
  <2> USE DEF busVars
  <2>1. CASE RequestStop \/ Recover \/ ClockTick \/ UartDrain
    BY <1>1, <2>1 DEF RequestStop, Recover, ClockTick, UartDrain
  <2>2. CASE Tick
    BY <1>1, <2>2 DEF Tick, TickBegin, TickGate, TickEstimate, TickCompute,
       TickReject, TickClear, TickStamp, TickPublish
  <2>3. CASE CommStart
    BY <1>1, <2>3 DEF CommStart, CanStart
  <2>4. CASE Comm /\ ~CommStart
    BY <1>1, <2>4 DEF Comm, CommEnter, CommTake, CommCheckTTL, CommRefused,
       CommSent, CommSendFailed, FinishSend, CommLatchStop, CommRelease,
       PollJoint
  <2> QED  BY <1>1, <2>1, <2>2, <2>3, <2>4 DEF Next
<1>2. [Next]_vars => [faulted => faulted' /\ UNCHANGED applied]_vars
  BY <1>1
<1> QED  BY <1>2, PTL DEF Spec, FaultIsFinal

\* A command decided before a stop reaches a servo only when the gate has been
\* reopened in between (tick's two reads of the gate, beginSend's check).
THEOREM StopsKillTheStale == Spec => StaleNeedsRecovery
<1> DEFINE P == \/ taken.decided = generation
                \/ generation >= taken.decided + 2
<1>1. ASSUME PipelineAssumption, IInv, Next, applied' # applied PROVE P
  <2>1. CommStart
    BY <1>1 DEF Next, RequestStop, Recover, ClockTick, UartDrain, Tick,
       TickBegin, TickGate, TickEstimate, TickCompute, TickReject, TickClear,
       TickStamp, TickPublish, Comm, CommEnter, CommTake, CommCheckTTL,
       CommRefused, CommSent, CommSendFailed, FinishSend, CommLatchStop,
       CommRelease, PollJoint, busVars
  <2>2. ~stopped /\ taken # NoCommand
    BY <1>1, <2>1 DEF CommStart, MaySend, IInv, BatchInv, Sends
  <2>3. OpenAt(taken.decided)
    BY <1>1, <2>2 DEF IInv, DecidedInv
  <2> QED  BY <1>1, <2>2, <2>3, Numbers DEF OpenAt, IInv
<1>2. PipelineAssumption /\ IInv /\ [Next]_vars =>
        [applied' # applied => P]_vars
  BY <1>1
<1> QED
  BY <1>2, PipelineAssumption, Invariant, PTL DEF Spec, StaleNeedsRecovery

\* After one interval longer than max_step nothing is published any more
\* (MotionControlCore::step).
THEOREM GapsAreFinal == Spec => NoMotionAfterGap
<1>1. ASSUME PipelineAssumption, IInv, Next, Gap
      PROVE  Gap' /\ UNCHANGED sequence
  <2> USE <1>1, Constants DEF IInv, TypeOK, Gap, controlVars
  <2>1. CASE RequestStop \/ Recover \/ UartDrain \/ Comm
    <3>1. UNCHANGED <<clock, cpc, tick_now, last_tick, sequence>>
      BY <2>1 DEF RequestStop, Recover, UartDrain, Comm, CommEnter, CommTake,
         CommCheckTTL, CommRefused, CommStart, CommSent, CommSendFailed,
         FinishSend, CommLatchStop, CommRelease, PollJoint
    <3> QED  BY <3>1
  <2>2. CASE ClockTick
    BY <2>2 DEF ClockTick
  <2>3. CASE TickCompute \/ TickStamp \/ TickPublish
    <3>1. CASE TickCompute
      BY <3>1 DEF TickCompute, StepInTime
    <3>2. cpc \notin {"computed", "stamped"}
      BY DEF ClockInv
    <3> QED  BY <2>3, <3>1, <3>2 DEF TickStamp, TickPublish
  <2>4. CASE \/ TickBegin \/ TickGate \/ TickClear
             \/ \E ready \in BOOLEAN : TickEstimate(ready)
             \/ \E inLimits \in BOOLEAN : TickReject(inLimits)
    <3>1. /\ UNCHANGED <<clock, last_tick, sequence>>
          /\ \/ cpc # "idle" /\ cpc' # "idle" /\ tick_now' = tick_now
             \/ cpc = "idle" /\ cpc' # "idle" /\ tick_now' = clock
             \/ cpc # "idle" /\ cpc' = "idle"
      BY <2>4 DEF TickBegin, TickGate, TickClear, TickEstimate, TickReject,
         TickReturns
    <3> QED  BY <3>1 DEF ClockInv
  <2> QED  BY <2>1, <2>2, <2>3, <2>4 DEF Next, Tick
<1>2. PipelineAssumption /\ IInv /\ [Next]_vars =>
        [Gap => Gap' /\ UNCHANGED sequence]_vars
  BY <1>1
<1> QED  BY <1>2, PipelineAssumption, Invariant, PTL DEF Spec, NoMotionAfterGap

-----------------------------------------------------------------------------
(* No servo is sent a command twice *)

\* The command at each place is newer than all that have passed it: the batch
\* than what its remaining servos were sent, the mailbox than the batch, the
\* tick than the mailbox.
NewerInv ==
  /\ draft # NoCommand =>
       /\ pending # NoCommand => pending.sequence < draft.sequence
       /\ taken # NoCommand => taken.sequence < draft.sequence
       /\ \A j \in Joint : applied[j] < draft.sequence
  /\ pending # NoCommand =>
       /\ taken # NoCommand => taken.sequence < pending.sequence
       /\ \A j \in Joint : applied[j] < pending.sequence
  /\ taken # NoCommand =>
       \A j \in Joint : j >= joint /\ (mpc \in Permitted => j > joint)
                          => applied[j] < taken.sequence

\* A frame leaves for a servo only with a command newer than its last one: a
\* value taken from the mailbox is never taken again, and a torn batch is never
\* resumed.
SentOnce ==
  [][\A j \in Joint : applied'[j] # applied[j] \/ (CommStart /\ j = joint)
                        => applied'[j] > applied[j]]_vars

LEMMA NewerPreserved ==
  ASSUME PipelineAssumption, IInv, NewerInv, [Next]_vars
  PROVE  NewerInv'
<1> USE Numbers, Constants
    DEF IInv, NewerInv, gateVars, controlVars, commVars, busVars
<1>1. CASE \/ RequestStop \/ Recover \/ UartDrain \/ ClockTick
           \/ TickBegin \/ TickGate \/ TickCompute
           \/ (\E ready \in BOOLEAN : TickEstimate(ready))
           \/ (\E inLimits \in BOOLEAN : TickReject(inLimits))
           \/ UNCHANGED vars
  <2>1. UNCHANGED <<draft, pending, taken, applied, mpc, joint>>
    BY <1>1 DEF RequestStop, Recover, UartDrain, ClockTick, TickBegin, TickGate,
       TickEstimate, TickCompute, TickReject, vars
  <2> QED  BY <2>1
<1>2. CASE TickClear
  <2>1. pending' = NoCommand /\ UNCHANGED <<draft, taken, applied, mpc, joint>>
    BY <1>2 DEF TickClear
  <2> QED  BY <2>1
<1>3. CASE TickStamp
  <2>1. /\ draft'.sequence = sequence + 1
        /\ UNCHANGED <<pending, taken, applied, mpc, joint>>
    BY <1>3 DEF TickStamp
  <2> QED  BY <2>1 DEF SequenceInv
<1>4. CASE TickPublish
  <2>1. /\ pending' = draft /\ draft' = NoCommand
        /\ UNCHANGED <<taken, applied, mpc, joint>>
    BY <1>4 DEF TickPublish
  <2> QED  BY <2>1
<1>5. CASE CommTake
  <2>1. /\ pending' = NoCommand /\ taken' \in {pending, NoCommand}
        /\ UNCHANGED <<draft, applied>>
    BY <1>5 DEF CommTake, BatchReturns
  <2> QED  BY <2>1
<1>6. CASE CommStart
  <2>1. /\ applied' = [applied EXCEPT ![joint] = taken.sequence]
        /\ UNCHANGED <<draft, pending, taken, joint>>
        /\ taken # NoCommand /\ mpc' = "finish"
    BY <1>6 DEF CommStart, BatchInv, Sends
  <2>2. \A j \in Joint : applied'[j] = IF j = joint THEN taken.sequence
                                                    ELSE applied[j]
    BY <2>1 DEF TypeOK
  <2>3. joint \in Int /\ \A j \in Joint : j \in Int
    BY DEF TypeOK, Joint
  <2>4. mpc = "send"
    BY <1>6 DEF CommStart
  <2> QED  BY <2>1, <2>2, <2>3, <2>4 DEF Permitted
<1>7. CASE CommRelease
  <2>1. /\ UNCHANGED <<draft, pending, applied>>
        /\ \/ taken' = taken /\ joint' = joint + 1
           \/ taken' = NoCommand
    BY <1>7 DEF CommRelease, BatchReturns
  <2>2. joint \in Int /\ \A j \in Joint : j \in Int
    BY DEF TypeOK, Joint
  <2>3. mpc \in Permitted
    BY <1>7 DEF CommRelease, Permitted
  <2> QED  BY <2>1, <2>2, <2>3
<1>8. CASE \/ CommEnter \/ CommCheckTTL \/ CommRefused \/ CommSent
           \/ (\E outcome \in {"timeout", "nack"} : CommSendFailed(outcome))
           \/ CommLatchStop
           \/ (\E outcome \in {"ok", "bad", "timeout"} : PollJoint(outcome))
  <2>1. /\ UNCHANGED <<draft, pending, applied>>
        /\ \/ taken' = NoCommand
           \/ /\ UNCHANGED <<taken, joint>>
              /\ mpc' \in Permitted <=> mpc \in Permitted
           \/ mpc = "idle" \/ mpc = "poll"
    BY <1>8 DEF CommEnter, CommCheckTTL, CommRefused, CommSent, CommSendFailed,
       FinishSend, CommLatchStop, PollJoint, BatchReturns, Permitted
  <2>2. CASE mpc = "idle" \/ mpc = "poll"
    <3>1. UNCHANGED <<taken, joint>> /\ mpc \notin Permitted
      BY <1>8, <2>2 DEF CommEnter, CommCheckTTL, CommRefused, CommSent,
         CommSendFailed, FinishSend, CommLatchStop, PollJoint, Permitted
    <3> QED  BY <2>1, <3>1
  <2> QED  BY <2>1, <2>2
<1> QED
  BY <1>1, <1>2, <1>3, <1>4, <1>5, <1>6, <1>7, <1>8 DEF Next, Tick, Comm

\* No servo is ever sent the same command twice, or an older one after a newer
\* one, whatever is refused, torn, stopped or recovered on the way
\* (takeLatest, processCommands).
THEOREM CommandsGoOnce == Spec => SentOnce
<1> DEFINE Rises(j) == applied'[j] # applied[j] \/ (CommStart /\ j = joint)
                         => applied'[j] > applied[j]
<1>1. PipelineAssumption /\ Init => NewerInv
  BY DEF Init, NewerInv
<1>2. PipelineAssumption /\ IInv /\ NewerInv /\ [Next]_vars => NewerInv'
  BY NewerPreserved
<1>3. ASSUME PipelineAssumption, IInv, NewerInv, Next, NEW j \in Joint
      PROVE  Rises(j)
  <2>1. CASE CommStart
    <3>1. taken # NoCommand /\ mpc = "send" /\ mpc \notin Permitted
      BY <1>3, <2>1 DEF CommStart, IInv, BatchInv, Sends, Permitted
    <3>2. joint \in Int /\ j \in Int
      BY <1>3 DEF IInv, TypeOK, Joint
    <3>3. applied'[j] = IF j = joint THEN taken.sequence ELSE applied[j]
      BY <1>3, <2>1 DEF CommStart, IInv, TypeOK
    <3>4. j = joint => applied[j] < taken.sequence
      BY <1>3, <3>1, <3>2 DEF NewerInv
    <3>5. applied[j] \in Nat /\ taken.sequence \in Nat
      BY <1>3, <3>1, Numbers DEF IInv
    <3> QED  BY <3>3, <3>4, <3>5
  <2>2. CASE ~CommStart
    <3>1. applied' = applied
      BY <1>3, <2>2 DEF Next, RequestStop, Recover, ClockTick, UartDrain, Tick,
         TickBegin, TickGate, TickEstimate, TickCompute, TickReject, TickClear,
         TickStamp, TickPublish, Comm, CommEnter, CommTake, CommCheckTTL,
         CommRefused, CommSent, CommSendFailed, FinishSend, CommLatchStop,
         CommRelease, PollJoint, busVars
    <3> QED  BY <2>2, <3>1
  <2> QED  BY <2>1, <2>2
<1>4. PipelineAssumption /\ IInv /\ NewerInv /\ [Next]_vars =>
        [\A j \in Joint : Rises(j)]_vars
  BY <1>3
<1> QED
  BY <1>1, <1>2, <1>4, PipelineAssumption, Invariant, PTL DEF Spec, SentOnce

-----------------------------------------------------------------------------
(* What StopGate promises, kept by the whole path while the bus is healthy *)

\* The communication thread is the one sender: authorised by the command it has
\* taken, and on the wire with a frame.
Authorised ==
  IF ~stopped /\ taken # NoCommand /\ taken.generation = generation
    THEN {"comm"} ELSE {}
OnWire == IF on_wire THEN {"comm"} ELSE {}

Gate == INSTANCE StopGate WITH
          Sender <- {"comm"}, open <- ~stopped, authorised <- Authorised,
          wire <- OnWire

\* Besides, a batch that ends gives its authority back.
GiveBack == Authorised' = {} /\ UNCHANGED <<stopped, OnWire>>

\* Up to the first bus fault every step is one of StopGate's: no frame starts
\* but through the open gate and under its present opening, a stop withdraws
\* the batch at once, and no recovery finds a frame on the wire.
GateKept ==
  [][faulted' \/ Gate!Next \/ GiveBack \/ UNCHANGED Gate!vars]_vars

\* What the document asks of a permit, up to the first bus fault: it is given
\* back only when its frame has left the wire.
PermitsOutlastFrames == [][in_flight' < in_flight => faulted \/ ~on_wire]_vars

\* No command is of a generation still to come.
TicketInv ==
  /\ draft # NoCommand => draft.generation <= generation
  /\ pending # NoCommand => pending.generation <= generation
  /\ taken # NoCommand => taken.generation <= generation

LEMMA TicketsKept ==
  ASSUME PipelineAssumption, IInv, TicketInv, [Next]_vars
  PROVE  TicketInv'
<1> USE Numbers DEF IInv, TicketInv, gateVars, controlVars, commVars, busVars
<1>1. generation' \in {generation, generation + 1}
  BY DEF Next, RequestStop, Recover, ClockTick, UartDrain, Tick, TickBegin,
     TickGate, TickEstimate, TickCompute, TickReject, TickClear, TickStamp,
     TickPublish, Comm, CommEnter, CommTake, CommCheckTTL, CommRefused,
     CommStart, CommSent, CommSendFailed, FinishSend, CommLatchStop,
     CommRelease, PollJoint, Stop, vars
<1>2. /\ draft' = NoCommand \/ draft' = draft \/ draft'.generation = generation
      /\ pending' = NoCommand \/ pending' = pending \/ pending' = draft
      /\ taken' = NoCommand \/ taken' = taken \/ taken' = pending
  <2>1. CASE Tick \/ RequestStop \/ Recover \/ ClockTick \/ UartDrain
             \/ UNCHANGED vars
    BY <2>1 DEF RequestStop, Recover, ClockTick, UartDrain, Tick, TickBegin,
       TickGate, TickEstimate, TickCompute, TickReject, TickClear, TickStamp,
       TickPublish, vars
  <2>2. CASE Comm
    BY <2>2 DEF Comm, CommEnter, CommTake, CommCheckTTL, CommRefused,
       CommStart, CommSent, CommSendFailed, FinishSend, CommLatchStop,
       CommRelease, PollJoint, BatchReturns
  <2> QED  BY <2>1, <2>2 DEF Next
<1>3. \A c \in Command : c.generation \in Nat
  BY Constants DEF Command
<1>4. \A c \in {draft, pending, taken} : c # NoCommand => c \in Command
  BY DEF TypeOK
<1> QED  BY <1>1, <1>2, <1>3, <1>4

\* One step of the pipeline, as the gate sees it.
LEMMA GateStep ==
  ASSUME PipelineAssumption, IInv, TicketInv, Next
  PROVE  faulted' \/ Gate!Next \/ GiveBack \/ UNCHANGED Gate!vars
<1> DEFINE Kept == UNCHANGED <<stopped, Authorised, OnWire>>
<1>0. Kept => UNCHANGED Gate!vars
  BY DEF Gate!vars
<1>1. CASE Tick \/ RequestStop \/ CommLatchStop
  <2>1. UNCHANGED <<taken, on_wire>>
    BY <1>1 DEF RequestStop, Tick, TickBegin, TickGate, TickEstimate,
       TickCompute, TickReject, TickClear, TickStamp, TickPublish,
       CommLatchStop, commVars, busVars
  <2>2. Stop \/ UNCHANGED gateVars
    BY <1>1 DEF RequestStop, Tick, TickBegin, TickGate, TickEstimate,
       TickCompute, TickReject, TickClear, TickStamp, TickPublish,
       CommLatchStop
  <2>3. CASE Stop
    <3>1. Gate!Stop
      BY <2>1, <2>3 DEF Stop, Gate!Stop, Authorised, OnWire
    <3> QED  BY <3>1 DEF Gate!Next
  <2>4. CASE UNCHANGED gateVars
    BY <1>0, <2>1, <2>4 DEF gateVars, Authorised, OnWire
  <2> QED  BY <2>2, <2>3, <2>4
<1>2. CASE Recover
  <2>1. CASE on_wire
    <3>1. faulted
      BY <1>2, <2>1 DEF Recover, IInv, BusInv, Permitted
    <3>2. faulted' = faulted
      BY <1>2 DEF Recover, busVars
    <3> QED  BY <3>1, <3>2
  <2>2. CASE ~on_wire
    <3>1. Authorised = {} /\ Authorised' = {}
      BY <1>2, Numbers DEF Recover, Authorised, commVars, TicketInv, IInv
    <3>2. OnWire = {} /\ OnWire' = {}
      BY <1>2, <2>2 DEF Recover, OnWire, busVars
    <3>3. Gate!Reopen
      BY <1>2, <3>1, <3>2 DEF Recover, Gate!Reopen
    <3> QED  BY <3>3 DEF Gate!Next
  <2> QED  BY <2>1, <2>2
<1>3. CASE ClockTick \/ CommEnter \/ CommSent
  <2>1. UNCHANGED <<stopped, generation, taken, on_wire>>
    BY <1>3 DEF ClockTick, CommEnter, CommSent, FinishSend, gateVars, commVars,
       busVars
  <2> QED  BY <1>0, <2>1 DEF Authorised, OnWire
<1>4. CASE UartDrain
  <2>1. Gate!Complete("comm")
    BY <1>4 DEF UartDrain, gateVars, commVars, Authorised, OnWire,
       Gate!Complete
  <2> QED  BY <2>1 DEF Gate!Next
<1>5. CASE CommTake
  <2>1. UNCHANGED <<stopped, generation, on_wire>>
    BY <1>5 DEF CommTake, gateVars, busVars
  <2>2. CASE Authorised' = {}
    BY <2>1, <2>2 DEF GiveBack, OnWire
  <2>3. CASE Authorised' # {}
    <3>1. Authorised' = {"comm"} /\ ~stopped
      BY <2>1, <2>3 DEF Authorised
    <3>2. Authorised' = Authorised \cup {"comm"}
      BY <3>1 DEF Authorised
    <3>3. Gate!Authorise("comm")
      BY <2>1, <3>1, <3>2 DEF Gate!Authorise, OnWire
    <3> QED  BY <3>3 DEF Gate!Next
  <2> QED  BY <2>2, <2>3
<1>6. CASE CommStart
  <2>1. Authorised = {"comm"} /\ UNCHANGED <<stopped, generation, taken>>
    BY <1>6 DEF CommStart, MaySend, Authorised, IInv, BatchInv, Sends
  <2>2. OnWire = {} /\ OnWire' = {"comm"}
    BY <1>6 DEF CommStart, CanStart, OnWire, IInv, BusInv
  <2>3. Gate!Start("comm")
    BY <2>1, <2>2 DEF Gate!Start, Authorised
  <2> QED  BY <2>3 DEF Gate!Next
<1>7. CASE CommCheckTTL \/ CommRefused \/ CommRelease
  <2>1. UNCHANGED <<stopped, generation, on_wire>>
    BY <1>7 DEF CommCheckTTL, CommRefused, CommRelease, gateVars, busVars
  <2>2. taken' = taken \/ taken' = NoCommand
    BY <1>7 DEF CommCheckTTL, CommRefused, CommRelease, BatchReturns
  <2>3. CASE taken' = taken
    BY <1>0, <2>1, <2>3 DEF Authorised, OnWire
  <2>4. CASE taken' = NoCommand
    BY <2>1, <2>4 DEF GiveBack, Authorised, OnWire
  <2> QED  BY <2>2, <2>3, <2>4
<1>8. ASSUME NEW outcome, CommSendFailed(outcome) PROVE faulted'
  BY <1>8 DEF CommSendFailed
<1>9. ASSUME NEW outcome, PollJoint(outcome)
      PROVE  UNCHANGED <<stopped, Authorised, OnWire>>
  BY <1>9 DEF PollJoint, gateVars, Authorised, OnWire
<1> QED
  BY <1>0, <1>1, <1>2, <1>3, <1>4, <1>5, <1>6, <1>7, <1>8, <1>9 DEF Next, Comm

\* Up to the first bus fault the path of a command implements StopGate, with
\* all that surrounds the gate: the mailbox, the age limit, torn batches, the
\* transport and the UART (S4Pipeline.cpp, StopCoordinator.cpp).
THEOREM KeepsTheGate == Spec => Gate!Init /\ GateKept
<1>1. Init => Gate!Init
  BY DEF Init, Gate!Init, Authorised, OnWire
<1>2. PipelineAssumption /\ Init => TicketInv
  BY DEF Init, TicketInv
<1>3. PipelineAssumption /\ IInv /\ TicketInv /\ [Next]_vars => TicketInv'
  BY TicketsKept
<1>4. PipelineAssumption /\ IInv /\ TicketInv /\ [Next]_vars =>
        [faulted' \/ Gate!Next \/ GiveBack \/ UNCHANGED Gate!vars]_vars
  BY GateStep
<1> QED
  BY <1>1, <1>2, <1>3, <1>4, PipelineAssumption, Invariant, PTL
     DEF Spec, GateKept

\* On a healthy bus the permit outlives its frame, as s5_01_safe_send asks
\* (finishSend, the permit's destructor); after a fault it need not.
THEOREM HealthyPermits == Spec => PermitsOutlastFrames
<1>1. ASSUME PipelineAssumption, IInv, Next, in_flight' < in_flight
      PROVE  faulted \/ ~on_wire
  <2>1. mpc \in {"sent", "latched"}
    <3>1. in_flight' = in_flight \/ in_flight' = in_flight + 1 \/ CommRelease
      BY <1>1 DEF Next, RequestStop, Recover, ClockTick, UartDrain, Tick,
         TickBegin, TickGate, TickEstimate, TickCompute, TickReject, TickClear,
         TickStamp, TickPublish, Comm, CommEnter, CommTake, CommCheckTTL,
         CommRefused, CommStart, CommSent, CommSendFailed, FinishSend,
         CommLatchStop, PollJoint, Stop, gateVars
    <3>2. in_flight \in Int
      BY <1>1 DEF IInv, TypeOK
    <3> QED  BY <1>1, <3>1, <3>2 DEF CommRelease
  <2> QED  BY <1>1, <2>1 DEF IInv, BusInv
<1>2. PipelineAssumption /\ IInv /\ [Next]_vars =>
        [in_flight' < in_flight => faulted \/ ~on_wire]_vars
  BY <1>1
<1> QED
  BY <1>2, PipelineAssumption, Invariant, PTL DEF Spec, PermitsOutlastFrames

-----------------------------------------------------------------------------
(* How long a round of the communication thread can be *)

\* An upper bound on the steps of the thread before it reads a servo, and on
\* those before it gives back the permit it holds.
RoundLeft ==
  LET ahead == 5 * (N + 1 - joint)
  IN CASE mpc = "idle"    -> 5 * N + 5
       [] mpc = "entered" -> 5 * N + 4
       [] mpc = "check"   -> ahead + 3
       [] mpc = "send"    -> ahead + 2
       [] mpc = "finish"  -> ahead + 1
       [] mpc \in {"sent", "failed"} -> ahead
       [] mpc = "latched" -> ahead - 1
       [] mpc = "poll"    -> 0
PermitLeft ==
  CASE mpc = "finish" -> 3
    [] mpc = "failed" -> 2
    [] mpc \in {"sent", "latched"} -> 1
    [] mpc \notin Permitted -> 0

\* Whatever is refused, expires, fails or is stopped, between two readings the
\* thread takes at most 5 * N + 5 steps, no servo is skipped, and no other
\* thread can make the way longer.
RoundsAreBounded ==
  [][IF Comm THEN \/ mpc = "poll" /\ next_joint' = NextJoint(next_joint)
                  \/ RoundLeft' < RoundLeft /\ next_joint' = next_joint
             ELSE UNCHANGED <<RoundLeft, next_joint>>]_vars

\* A permit is given back after at most three steps of the thread, whichever
\* way the transmission fails.
PermitsAreShort ==
  [][in_flight = 1 => IF Comm THEN PermitLeft' < PermitLeft
                              ELSE UNCHANGED PermitLeft]_vars

\* The other threads leave the communication thread where it is.
LEMMA OnlyComm ==
  ASSUME Next, ~Comm
  PROVE  UNCHANGED <<commVars, RoundLeft, PermitLeft>>
<1>1. UNCHANGED commVars
  BY DEF Next, RequestStop, Recover, ClockTick, UartDrain, Tick, TickBegin,
     TickGate, TickEstimate, TickCompute, TickReject, TickClear, TickStamp,
     TickPublish
<1> QED  BY <1>1 DEF commVars, RoundLeft, PermitLeft

LEMMA RoundStep ==
  ASSUME PipelineAssumption, IInv, Comm
  PROVE  \/ mpc = "poll" /\ next_joint' = NextJoint(next_joint)
         \/ RoundLeft' < RoundLeft /\ next_joint' = next_joint
<1> USE Constants DEF RoundLeft
<1>1. joint \in 1 .. (N + 1) /\ N \in Nat
  BY DEF IInv, TypeOK
<1>2. mpc \in Sends \ {"check"} => joint <= N
  BY DEF IInv, BatchInv, Joint
<1>3. CASE CommEnter
  BY <1>1, <1>3 DEF CommEnter
<1>4. CASE CommTake
  <2>1. mpc = "entered" /\ next_joint' = next_joint
        /\ \/ mpc' = "check" /\ joint' = 1
           \/ mpc' = "poll"
    BY <1>4 DEF CommTake, BatchReturns
  <2> QED  BY <1>1, <2>1
<1>5. CASE CommCheckTTL
  <2>1. mpc = "check" /\ next_joint' = next_joint
        /\ \/ mpc' = "send" /\ joint' = joint
           \/ mpc' = "poll"
    BY <1>5 DEF CommCheckTTL, BatchReturns
  <2> QED  BY <1>1, <2>1
<1>6. CASE CommRefused
  BY <1>1, <1>6 DEF CommRefused, BatchReturns
<1>7. CASE CommStart
  BY <1>1, <1>7 DEF CommStart
<1>8. CASE CommSent
  BY <1>1, <1>8 DEF CommSent, FinishSend
<1>9. ASSUME NEW outcome, CommSendFailed(outcome)
      PROVE  RoundLeft' < RoundLeft /\ next_joint' = next_joint
  BY <1>1, <1>9 DEF CommSendFailed, FinishSend
<1>10. CASE CommLatchStop
  BY <1>1, <1>10 DEF CommLatchStop
<1>11. CASE CommRelease
  <2>1. /\ next_joint' = next_joint
        /\ \/ mpc = "sent" /\ mpc' = "check" /\ joint' = joint + 1
           \/ mpc \in {"sent", "latched"} /\ mpc' = "poll"
    BY <1>11 DEF CommRelease, BatchReturns
  <2>2. joint <= N
    BY <1>2, <2>1 DEF Sends
  <2> QED  BY <1>1, <2>1, <2>2
<1>12. ASSUME NEW outcome, PollJoint(outcome)
       PROVE  mpc = "poll" /\ next_joint' = NextJoint(next_joint)
  BY <1>12 DEF PollJoint
<1> QED
  BY <1>3, <1>4, <1>5, <1>6, <1>7, <1>8, <1>9, <1>10, <1>11, <1>12 DEF Comm

\* The safety half of PollingIsFair: the way to the next reading only gets
\* shorter, and the readings go round the servos (communicationMain,
\* processCommands, pollFeedbackSliceRealTime).
THEOREM RoundsAreShort ==
  Spec => [](RoundLeft \in 0 .. 5 * N + 5) /\ RoundsAreBounded
<1>1. PipelineAssumption /\ IInv => RoundLeft \in 0 .. 5 * N + 5
  <2> SUFFICES ASSUME PipelineAssumption, IInv
               PROVE  RoundLeft \in 0 .. 5 * N + 5
    OBVIOUS
  <2>1. joint \in 1 .. (N + 1) /\ N \in Nat
    BY Constants DEF IInv, TypeOK
  <2>2. mpc \in Sends \ {"check"} => joint <= N
    BY DEF IInv, BatchInv, Joint
  <2>3. mpc \in {"idle", "entered", "poll"} \cup Sends
    BY DEF IInv, TypeOK, Sends
  <2> QED  BY <2>1, <2>2, <2>3 DEF RoundLeft, Sends
<1>2. PipelineAssumption /\ IInv /\ [Next]_vars =>
        [IF Comm THEN \/ mpc = "poll" /\ next_joint' = NextJoint(next_joint)
                      \/ RoundLeft' < RoundLeft /\ next_joint' = next_joint
                 ELSE UNCHANGED <<RoundLeft, next_joint>>]_vars
  BY RoundStep, OnlyComm DEF commVars
<1> QED
  BY <1>1, <1>2, PipelineAssumption, Invariant, PTL DEF Spec, RoundsAreBounded

\* The safety half of PermitsAreReturned (finishSend, the permit's destructor).
THEOREM PermitsEndSoon ==
  Spec => [](in_flight = 1 <=> PermitLeft > 0) /\ PermitsAreShort
<1>1. IInv => (in_flight = 1 <=> PermitLeft > 0)
  BY DEF IInv, BusInv, PermitLeft, Permitted
<1>2. ASSUME PipelineAssumption, IInv, Comm, in_flight = 1
      PROVE  PermitLeft' < PermitLeft
  <2>1. mpc \in Permitted
    BY <1>2 DEF IInv, BusInv
  <2>2. \/ mpc = "finish" /\ mpc' \in {"sent", "failed"}
        \/ mpc = "failed" /\ mpc' = "latched"
        \/ mpc \in {"sent", "latched"} /\ mpc' \in {"check", "poll"}
    BY <1>2, <2>1 DEF Permitted, Comm, CommEnter, CommTake, CommCheckTTL,
       CommRefused, CommStart, CommSent, CommSendFailed, FinishSend,
       CommLatchStop, CommRelease, PollJoint, BatchReturns
  <2> QED  BY <2>2 DEF PermitLeft, Permitted
<1>3. PipelineAssumption /\ IInv /\ [Next]_vars =>
        [in_flight = 1 => IF Comm THEN PermitLeft' < PermitLeft
                                  ELSE UNCHANGED PermitLeft]_vars
  BY <1>2, OnlyComm
<1> QED
  BY <1>1, <1>3, PipelineAssumption, Invariant, PTL DEF Spec, PermitsAreShort
=============================================================================
