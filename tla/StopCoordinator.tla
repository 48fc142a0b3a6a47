-------------------------- MODULE StopCoordinator --------------------------
(***************************************************************************)
(* The send gate of cpp/src/safety/StopCoordinator.cpp, with the threads   *)
(* that use it.  Every operation runs under one mutex; beginSend is split  *)
(* at the points where another thread could get in if it did not: the      *)
(* lock, the check, the start callback, and the count with the unlock.     *)
(*                                                                         *)
(* A sender follows the protocol of CommunicationWorker::processCommands:  *)
(* it takes a generation, calls beginSend with it, waits for its TX to     *)
(* finish outside the lock, and then lets the permit's destructor run.     *)
(* The transport is the one IServoTransport.hpp asks for: finishSend       *)
(* returns once the TX has left the wire or is cancelled.  The transport   *)
(* of the STS3215 may give up earlier; CommandPipeline.tla models that.    *)
(***************************************************************************)
EXTENDS Integers, FiniteSets

CONSTANTS
  Sender,           \* threads that call generation() and beginSend()
  NoThread,         \* the mutex is free
  MaxGeneration     \* bound: generation_ stops growing here

ASSUME SenderAssumption == IsFiniteSet(Sender) /\ NoThread \notin Sender
ASSUME GenerationAssumption == MaxGeneration \in Nat \ {0}

VARIABLES
  stopped,          \* stopped_
  generation,       \* generation_
  in_flight,        \* in_flight_
  mutex,            \* holder of mutex_ across the steps of beginSend
  pc,               \* where each sender is
  ticket,           \* the generation each sender's command carries, or 0
  wire              \* senders whose TX is physically on the wire

vars == <<stopped, generation, in_flight, mutex, pc, ticket, wire>>

Init ==
  /\ stopped = FALSE
  /\ generation = 1
  /\ in_flight = 0
  /\ mutex = NoThread
  /\ pc = [s \in Sender |-> "idle"]
  /\ ticket = [s \in Sender |-> 0]
  /\ wire = {}

TypeOK ==
  /\ stopped \in BOOLEAN
  /\ generation \in 1..MaxGeneration
  /\ in_flight \in 0..Cardinality(Sender)
  /\ mutex \in Sender \cup {NoThread}
  /\ pc \in [Sender -> {"idle", "locked", "checked", "started", "permit"}]
  /\ ticket \in [Sender -> 0..MaxGeneration]
  /\ wire \in SUBSET Sender

Holders == {s \in Sender : pc[s] = "permit"}   \* owners of a SendPermit

(***************************************************************************)
(* Senders.                                                                *)
(***************************************************************************)

\* generation(): the command of s is stamped with the current generation.
ReadGeneration(s) ==
  /\ pc[s] = "idle"
  /\ mutex = NoThread
  /\ ticket' = [ticket EXCEPT ![s] = generation]
  /\ UNCHANGED <<stopped, generation, in_flight, mutex, pc, wire>>

\* beginSend(ticket[s], start) enters the critical section.
BeginSend(s) ==
  /\ pc[s] = "idle"
  /\ mutex = NoThread
  /\ mutex' = s
  /\ pc' = [pc EXCEPT ![s] = "locked"]
  /\ UNCHANGED <<stopped, generation, in_flight, ticket, wire>>

MayStart(s) == ~stopped /\ ticket[s] = generation

\* The gate refuses: beginSend returns nullopt.  (So it does without a callback,
\* which no caller of it leaves out.)
Refuse(s) ==
  /\ pc[s] = "locked" /\ ~MayStart(s)
  /\ mutex' = NoThread
  /\ pc' = [pc EXCEPT ![s] = "idle"]
  /\ UNCHANGED <<stopped, generation, in_flight, ticket, wire>>

\* The gate lets the command through.
Check(s) ==
  /\ pc[s] = "locked" /\ MayStart(s)
  /\ pc' = [pc EXCEPT ![s] = "checked"]
  /\ UNCHANGED <<stopped, generation, in_flight, mutex, ticket, wire>>

\* Mutant of StartFails: counted before start() and not taken back.
StartFailsCounted(s) ==
  /\ pc[s] = "checked"
  /\ in_flight' = in_flight + 1
  /\ mutex' = NoThread
  /\ pc' = [pc EXCEPT ![s] = "idle"]
  /\ UNCHANGED <<stopped, generation, ticket, wire>>

\* start() starts nothing: no permit.
StartFails(s) ==
  /\ pc[s] = "checked"
  /\ mutex' = NoThread
  /\ pc' = [pc EXCEPT ![s] = "idle"]
  /\ UNCHANGED <<stopped, generation, in_flight, ticket, wire>>

\* start() puts the TX on the wire, still inside the critical section.
StartTX(s) ==
  /\ pc[s] = "checked"
  /\ wire' = wire \cup {s}
  /\ pc' = [pc EXCEPT ![s] = "started"]
  /\ UNCHANGED <<stopped, generation, in_flight, mutex, ticket>>

\* Mutant of GrantPermit: the permit is returned without being counted.
GrantUncounted(s) ==
  /\ pc[s] = "started"
  /\ mutex' = NoThread
  /\ pc' = [pc EXCEPT ![s] = "permit"]
  /\ UNCHANGED <<stopped, generation, in_flight, ticket, wire>>

\* beginSend counts the transmission and returns the permit.
GrantPermit(s) ==
  /\ pc[s] = "started"
  /\ in_flight' = in_flight + 1
  /\ mutex' = NoThread
  /\ pc' = [pc EXCEPT ![s] = "permit"]
  /\ UNCHANGED <<stopped, generation, ticket, wire>>

\* The UART finishes the transmission of s, outside the lock (finishSend).
FinishTX(s) ==
  /\ s \in wire
  /\ pc[s] = "permit"
  /\ wire' = wire \ {s}
  /\ UNCHANGED <<stopped, generation, in_flight, mutex, pc, ticket>>

\* Mutant of Release: owner_ is not cleared, so a later release counts twice.
ReleaseKeepsOwner(s) ==
  /\ pc[s] = "permit" /\ s \notin wire
  /\ mutex = NoThread
  /\ in_flight' = in_flight - 1
  /\ UNCHANGED <<stopped, generation, mutex, pc, ticket, wire>>

\* The permit's destructor.
Release(s) ==
  /\ pc[s] = "permit" /\ s \notin wire
  /\ mutex = NoThread
  /\ in_flight' = in_flight - 1
  /\ pc' = [pc EXCEPT ![s] = "idle"]
  /\ UNCHANGED <<stopped, generation, mutex, ticket, wire>>

(***************************************************************************)
(* The threads that stop and the operator who recovers.                    *)
(***************************************************************************)

\* Mutant of RequestStop: it does not wait for the mutex.
RequestStopUnlocked ==
  /\ generation < MaxGeneration
  /\ stopped' = TRUE
  /\ generation' = generation + 1
  /\ UNCHANGED <<in_flight, mutex, pc, ticket, wire>>

RequestStop ==
  /\ mutex = NoThread
  /\ generation < MaxGeneration
  /\ stopped' = TRUE
  /\ generation' = generation + 1
  /\ UNCHANGED <<in_flight, mutex, pc, ticket, wire>>

\* recover(operator_authorized, fault_cleared) returning true; any other call
\* changes nothing.
Recover(operator_authorized, fault_cleared) ==
  /\ mutex = NoThread
  /\ stopped /\ operator_authorized /\ fault_cleared /\ in_flight = 0
  /\ generation < MaxGeneration
  /\ generation' = generation + 1
  /\ stopped' = FALSE
  /\ UNCHANGED <<in_flight, mutex, pc, ticket, wire>>

Next ==
  \/ \E s \in Sender : ReadGeneration(s)
  \/ \E s \in Sender : BeginSend(s)
  \/ \E s \in Sender : Refuse(s) \/ Check(s) \/ StartFails(s)
  \/ \E s \in Sender : StartTX(s)
  \/ \E s \in Sender : GrantPermit(s)
  \/ \E s \in Sender : FinishTX(s)
  \/ \E s \in Sender : Release(s)
  \/ RequestStop
  \/ \E authorized, cleared \in BOOLEAN : Recover(authorized, cleared)

Spec == Init /\ [][Next]_vars

(***************************************************************************)
(* Fairness.  A thread inside the critical section runs on (start() is     *)
(* bounded and does not block), and a started TX finishes (finishSend has  *)
(* a timeout).  Release needs the mutex, which other senders may hold over *)
(* and over: a thread that waits for it forever while it is released again *)
(* and again is excluded by strong fairness.                               *)
(***************************************************************************)
Fairness ==
  \A s \in Sender :
    /\ WF_vars(Refuse(s) \/ Check(s))
    /\ WF_vars(StartFails(s) \/ StartTX(s))
    /\ WF_vars(GrantPermit(s))
    /\ WF_vars(FinishTX(s))
    /\ SF_vars(Release(s))

FairSpec == Spec /\ Fairness

(***************************************************************************)
(* Properties.                                                             *)
(***************************************************************************)

\* in_flight_ is the number of permits alive, and whenever the mutex is free
\* every transmission on the wire is one of those counted: this is what
\* recover() reads as "everything that was started has finished".
PermitAccounting ==
  /\ in_flight = Cardinality(Holders)
  /\ \A s \in wire : pc[s] = "permit" \/ (pc[s] = "started" /\ mutex = s)

\* The commands that would still be accepted.
Authorised == {s \in Sender : ~stopped /\ ticket[s] = generation}

Gate == INSTANCE StopGate WITH open <- ~stopped, authorised <- Authorised

\* The class implements its promise: no TX after a stop or from an earlier
\* opening, and no recovery while a TX is on the wire.
ImplementsStopGate == Gate!Spec

\* A permit never outlives its use: after a stop the count of transmissions in
\* flight returns to zero (so that an authorised recovery becomes possible),
\* unless the gate is reopened first.
DrainsAfterStop == stopped ~> (in_flight = 0 \/ ~stopped)
=============================================================================
