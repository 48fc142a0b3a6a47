----------------------- MODULE StopCoordinator_proofs -----------------------
(***************************************************************************)
(* Proofs about StopCoordinator, for every finite set of senders and every *)
(* bound on the generation.                                                *)
(***************************************************************************)
EXTENDS StopCoordinator, FiniteSetTheorems, TLAPS

\* The mutex is held exactly by the sender inside the critical section.
MutexInv ==
  \A s \in Sender : (mutex = s) <=> (pc[s] \in {"locked", "checked", "started"})

\* What beginSend checked still holds when it starts the TX: whoever could
\* change it waits for the mutex.
CheckInv == \A s \in Sender : pc[s] = "checked" => MayStart(s)

\* No command carries a generation that has not been reached yet.
TicketInv == \A s \in Sender : ticket[s] <= generation

IInv == TypeOK /\ PermitAccounting /\ MutexInv /\ CheckInv /\ TicketInv

-----------------------------------------------------------------------------
(* The permits alive. *)

\* A sender that takes a permit adds one to the permits alive.
LEMMA HoldersGrow ==
  ASSUME TypeOK, NEW s \in Sender, pc[s] # "permit",
         pc' = [pc EXCEPT ![s] = "permit"]
  PROVE  /\ Holders' = Holders \cup {s}
         /\ Cardinality(Holders') = Cardinality(Holders) + 1
<1>1. Holders' = Holders \cup {s} /\ s \notin Holders
  BY DEF Holders, TypeOK
<1>2. IsFiniteSet(Holders)
  BY SenderAssumption, FS_Subset DEF Holders
<1>3. QED
  BY <1>1, <1>2, FS_AddElement

\* A sender that gives its permit back takes one from the permits alive.
LEMMA HoldersShrink ==
  ASSUME TypeOK, NEW s \in Sender, pc[s] = "permit",
         pc' = [pc EXCEPT ![s] = "idle"]
  PROVE  /\ Holders' = Holders \ {s}
         /\ Cardinality(Holders') = Cardinality(Holders) - 1
<1>1. Holders' = Holders \ {s} /\ s \in Holders
  BY DEF Holders, TypeOK
<1>2. IsFiniteSet(Holders)
  BY SenderAssumption, FS_Subset DEF Holders
<1>3. QED
  BY <1>1, <1>2, FS_RemoveElement

\* A step of a sender that holds no permit before or after leaves them alone.
LEMMA HoldersSame ==
  ASSUME TypeOK, NEW s \in Sender, NEW at, pc[s] # "permit", at # "permit",
         pc' = [pc EXCEPT ![s] = at]
  PROVE  Holders' = Holders
BY DEF Holders, TypeOK

\* There are never more permits than senders.
LEMMA HoldersBounded ==
  /\ Cardinality(Holders) \in 0..Cardinality(Sender)
  /\ (Cardinality(Holders) = 0) <=> (Holders = {})
<1>1. Holders \subseteq Sender
  BY DEF Holders
<1>2. /\ IsFiniteSet(Holders)
      /\ Cardinality(Holders) <= Cardinality(Sender)
  BY <1>1, SenderAssumption, FS_Subset
<1>3. Cardinality(Holders) \in Nat /\ Cardinality(Sender) \in Nat
  BY <1>2, SenderAssumption, FS_CardinalityType
<1>4. (Cardinality(Holders) = 0) <=> (Holders = {})
  BY <1>2, FS_EmptySet
<1>5. QED
  BY <1>2, <1>3, <1>4

-----------------------------------------------------------------------------
(* The inductive invariant. *)

LEMMA InitIInv == Init => IInv
<1>1. Init => TypeOK
  <2>1. Cardinality(Sender) \in Nat
    BY SenderAssumption, FS_CardinalityType
  <2>2. Init => stopped \in BOOLEAN
    BY Zenon DEF Init
  <2>3. QED
    BY <2>1, <2>2, GenerationAssumption DEF Init, TypeOK
<1>2. Init => MutexInv /\ CheckInv /\ TicketInv
  BY SenderAssumption DEF Init, MutexInv, CheckInv, TicketInv
<1>3. Init => PermitAccounting
  <2>1. Init => Holders = {}
    BY DEF Init, Holders
  <2>2. QED
    BY <2>1, HoldersBounded DEF Init, PermitAccounting
<1>4. QED
  BY <1>1, <1>2, <1>3 DEF IInv

\* Every step of the gate preserves the invariant.
LEMMA StepIInv == IInv /\ [Next]_vars => IInv'
<1> SUFFICES ASSUME IInv, [Next]_vars
             PROVE  IInv'
  OBVIOUS
<1> USE DEF IInv
<1>1. ASSUME NEW s \in Sender, ReadGeneration(s)
      PROVE  IInv'
  <2>1. Holders' = Holders
    BY <1>1 DEF ReadGeneration, Holders
  <2>2. QED
    BY <1>1, <2>1
    DEF ReadGeneration, TypeOK, PermitAccounting, MutexInv, CheckInv,
        MayStart, TicketInv
<1>2. ASSUME NEW s \in Sender, BeginSend(s)
      PROVE  IInv'
  <2>1. Holders' = Holders
    BY <1>2, HoldersSame DEF BeginSend
  <2>2. QED
    BY <1>2, <2>1, SenderAssumption
    DEF BeginSend, TypeOK, PermitAccounting, MutexInv, CheckInv,
        MayStart, TicketInv
<1>3. ASSUME NEW s \in Sender, Refuse(s) \/ Check(s) \/ StartFails(s)
      PROVE  IInv'
  <2>1. Holders' = Holders
    BY <1>3, HoldersSame DEF Refuse, Check, StartFails
  <2>2. QED
    BY <1>3, <2>1, SenderAssumption
    DEF Refuse, Check, StartFails, TypeOK, PermitAccounting, MutexInv, CheckInv,
        MayStart, TicketInv
<1>4. ASSUME NEW s \in Sender, StartTX(s)
      PROVE  IInv'
  <2>1. Holders' = Holders
    BY <1>4, HoldersSame DEF StartTX
  <2>2. QED
    BY <1>4, <2>1
    DEF StartTX, TypeOK, PermitAccounting, MutexInv, CheckInv,
        MayStart, TicketInv
<1>5. ASSUME NEW s \in Sender, GrantPermit(s)
      PROVE  IInv'
  <2>1. Cardinality(Holders') = Cardinality(Holders) + 1
    BY <1>5, HoldersGrow DEF GrantPermit
  <2>2. Cardinality(Holders') \in 0..Cardinality(Sender)
    <3>1. Holders' \subseteq Sender
      BY DEF Holders
    <3>2. QED
      BY <3>1, SenderAssumption, FS_Subset, FS_CardinalityType
  <2>3. PermitAccounting'
    BY <1>5, <2>1 DEF GrantPermit, TypeOK, MutexInv, PermitAccounting
  <2>4. TypeOK'
    BY <1>5, <2>1, <2>2 DEF GrantPermit, TypeOK, PermitAccounting
  <2>5. MutexInv' /\ CheckInv' /\ TicketInv'
    BY <1>5, SenderAssumption DEF GrantPermit, TypeOK, MutexInv, CheckInv,
       MayStart, TicketInv
  <2>6. QED
    BY <2>3, <2>4, <2>5
<1>6. ASSUME NEW s \in Sender, FinishTX(s)
      PROVE  IInv'
  <2>1. Holders' = Holders
    BY <1>6 DEF FinishTX, Holders
  <2>2. QED
    BY <1>6, <2>1
    DEF FinishTX, TypeOK, PermitAccounting, MutexInv, CheckInv,
        MayStart, TicketInv
<1>7. ASSUME NEW s \in Sender, Release(s)
      PROVE  IInv'
  <2>1. Cardinality(Holders') = Cardinality(Holders) - 1
    BY <1>7, HoldersShrink DEF Release
  <2>2. Cardinality(Holders') \in 0..Cardinality(Sender)
    <3>1. Holders' \subseteq Sender
      BY DEF Holders
    <3>2. QED
      BY <3>1, SenderAssumption, FS_Subset, FS_CardinalityType
  <2>3. PermitAccounting'
    BY <1>7, <2>1 DEF Release, TypeOK, PermitAccounting
  <2>4. TypeOK'
    BY <1>7, <2>1, <2>2 DEF Release, TypeOK, PermitAccounting
  <2>5. MutexInv' /\ CheckInv' /\ TicketInv'
    BY <1>7, SenderAssumption DEF Release, TypeOK, MutexInv, CheckInv,
       MayStart, TicketInv
  <2>6. QED
    BY <2>3, <2>4, <2>5
<1>8. ASSUME RequestStop
      PROVE  IInv'
  <2>1. Holders' = Holders
    BY <1>8 DEF RequestStop, Holders
  <2>2. TypeOK'
    <3>1. stopped' \in BOOLEAN
      BY <1>8, Zenon DEF RequestStop
    <3>2. QED
      BY <1>8, <3>1, GenerationAssumption DEF RequestStop, TypeOK
  <2>3. PermitAccounting' /\ MutexInv' /\ CheckInv'
    BY <1>8, <2>1, SenderAssumption
    DEF RequestStop, PermitAccounting, MutexInv, CheckInv
  <2>4. TicketInv'
    BY <1>8 DEF RequestStop, TypeOK, TicketInv
  <2>5. QED
    BY <2>2, <2>3, <2>4
<1>9. ASSUME \E authorized, cleared \in BOOLEAN : Recover(authorized, cleared)
      PROVE  IInv'
  <2>1. Holders' = Holders
    BY <1>9 DEF Recover, Holders
  <2>2. /\ stopped' = FALSE
        /\ generation < MaxGeneration /\ generation' = generation + 1
        /\ UNCHANGED <<in_flight, mutex, pc, ticket, wire>>
    BY <1>9 DEF Recover
  <2>3. TypeOK'
    <3>1. stopped' \in BOOLEAN
      BY <2>2, Zenon
    <3>2. QED
      BY <2>2, <3>1, GenerationAssumption DEF TypeOK
  <2>4. PermitAccounting' /\ MutexInv' /\ CheckInv'
    <3>1. mutex = NoThread
      BY <1>9 DEF Recover
    <3>2. QED
      BY <2>1, <2>2, <3>1, SenderAssumption
      DEF PermitAccounting, MutexInv, CheckInv
  <2>5. TicketInv'
    BY <2>2 DEF TypeOK, TicketInv
  <2>6. QED
    BY <2>3, <2>4, <2>5
<1>10. CASE UNCHANGED vars
  <2>1. Holders' = Holders
    BY <1>10 DEF vars, Holders
  <2>2. QED
    BY <1>10, <2>1
    DEF vars, TypeOK, PermitAccounting, MutexInv, CheckInv,
        MayStart, TicketInv
<1>11. QED
  BY <1>1, <1>2, <1>3, <1>4, <1>5, <1>6, <1>7, <1>8, <1>9, <1>10 DEF Next

THEOREM Invariance == Spec => []IInv
BY InitIInv, StepIInv, PTL DEF Spec

\* The state of StopCoordinator keeps its types: in particular in_flight_,
\* unsigned in the code, never goes below zero.
THEOREM TypeCorrect == Spec => []TypeOK
<1>1. IInv => TypeOK
  BY DEF IInv
<1>2. QED
  BY <1>1, Invariance, PTL

\* in_flight_ counts exactly the permits alive, and with the mutex free every
\* transmission on the wire is among them, however many threads send.
THEOREM PermitsAccounted == Spec => []PermitAccounting
<1>1. IInv => PermitAccounting
  BY DEF IInv
<1>2. QED
  BY <1>1, Invariance, PTL

-----------------------------------------------------------------------------
(* The gate implements its promise. *)

LEMMA InitRefines == Init => Gate!Init
BY DEF Init, Gate!Init, Authorised

\* Nobody is authorised while the gate is closed, nor by the generation that
\* the next recovery brings.
LEMMA StepRefines == IInv /\ [Next]_vars => [Gate!Next]_Gate!vars
<1> SUFFICES ASSUME IInv, [Next]_vars
             PROVE  [Gate!Next]_Gate!vars
  OBVIOUS
<1> USE DEF IInv
<1>1. ASSUME NEW s \in Sender, ReadGeneration(s)
      PROVE  Gate!Authorise(s) \/ UNCHANGED Gate!vars
  BY <1>1 DEF ReadGeneration, TypeOK, Authorised, Gate!Authorise, Gate!vars
<1>2. ASSUME NEW s \in Sender,
             \/ BeginSend(s) \/ Refuse(s) \/ Check(s) \/ StartFails(s)
             \/ GrantPermit(s) \/ Release(s)
      PROVE  UNCHANGED Gate!vars
  BY <1>2 DEF BeginSend, Refuse, Check, StartFails, GrantPermit, Release,
              Authorised, Gate!vars
<1>3. ASSUME NEW s \in Sender, StartTX(s)
      PROVE  Gate!Start(s)
  BY <1>3 DEF StartTX, CheckInv, MayStart, PermitAccounting, Authorised,
             Gate!Start
<1>4. ASSUME NEW s \in Sender, FinishTX(s)
      PROVE  Gate!Complete(s)
  BY <1>4 DEF FinishTX, Authorised, Gate!Complete
<1>5. ASSUME RequestStop
      PROVE  Gate!Stop
  BY <1>5 DEF RequestStop, Authorised, Gate!Stop
<1>6. ASSUME NEW authorized \in BOOLEAN, NEW cleared \in BOOLEAN,
             Recover(authorized, cleared)
      PROVE  Gate!Reopen
  <2>1. wire = {}
    <3>1. Holders = {}
      BY <1>6, HoldersBounded DEF Recover, PermitAccounting
    <3>2. ASSUME NEW s \in wire
          PROVE  FALSE
      BY <1>6, <3>1, SenderAssumption
      DEF Recover, TypeOK, PermitAccounting, Holders
    <3>3. QED
      BY <3>2
  <2>2. Authorised = {} /\ Authorised' = {}
    BY <1>6 DEF Recover, TypeOK, TicketInv, Authorised
  <2>3. QED
    BY <1>6, <2>1, <2>2 DEF Recover, Gate!Reopen
<1>7. CASE UNCHANGED vars
  BY <1>7 DEF vars, Authorised, Gate!vars
<1>8. QED
  BY <1>1, <1>2, <1>3, <1>4, <1>5, <1>6, <1>7 DEF Next, Gate!Next

\* StopCoordinator implements StopGate: a transmission starts only through an
\* open gate and for a command of the current opening, and the gate reopens
\* only when the wire is quiet.
THEOREM Refinement == Spec => ImplementsStopGate
BY InitRefines, StepRefines, Invariance, PTL
DEF Spec, ImplementsStopGate, Gate!Spec

-----------------------------------------------------------------------------
(* After a stop the permits can only go *)

\* A sender that has put its TX on the wire and still holds the mutex has not
\* been overtaken by a stop: the count is raised with the gate open.
StartedInv == \A s \in Sender : pc[s] = "started" => ~stopped

\* While the gate is stopped no permit is made, and the count only falls.
StopOnlyDrains ==
  [][stopped => Holders' \subseteq Holders /\ in_flight' <= in_flight]_vars

LEMMA StepStartedInv == IInv /\ StartedInv /\ [Next]_vars => StartedInv'
<1> SUFFICES ASSUME IInv, StartedInv, [Next]_vars
             PROVE  StartedInv'
  OBVIOUS
<1> USE DEF IInv, StartedInv
<1>1. CASE RequestStop \/ (\E a, c \in BOOLEAN : Recover(a, c))
  <2>1. mutex = NoThread /\ pc' = pc
    BY <1>1 DEF RequestStop, Recover
  <2>2. \A s \in Sender : pc[s] # "started"
    BY <2>1, SenderAssumption DEF MutexInv
  <2>3. QED
    BY <2>1, <2>2
<1>2. CASE ~(RequestStop \/ (\E a, c \in BOOLEAN : Recover(a, c)))
  <2>1. stopped' = stopped
    BY <1>2 DEF Next, ReadGeneration, BeginSend, Refuse, Check, StartFails,
                StartTX, GrantPermit, FinishTX, Release, vars
  <2>2. ASSUME NEW s \in Sender, pc'[s] = "started"
        PROVE  pc[s] = "started" \/ pc[s] = "checked"
    BY <1>2, <2>2
    DEF Next, ReadGeneration, BeginSend, Refuse, Check, StartFails, StartTX,
        GrantPermit, FinishTX, Release, vars, TypeOK
  <2>3. QED
    BY <2>1, <2>2 DEF CheckInv, MayStart
<1>3. QED
  BY <1>1, <1>2

\* From a stop to the recovery that ends it, the permits alive are among those
\* of the moment of the stop: what DrainsAfterStop waits for is a count that
\* nothing raises again (requestStop, beginSend).
THEOREM StopsOnlyDrain == Spec => StopOnlyDrains
<1>1. Init => StartedInv
  BY DEF Init, StartedInv
<1>2. ASSUME IInv, StartedInv, Next, stopped
      PROVE  Holders' \subseteq Holders /\ in_flight' <= in_flight
  <2> USE DEF IInv
  <2>1. CASE \E s \in Sender : Release(s)
    <3>1. Holders' \subseteq Holders
      BY <2>1 DEF Release, Holders, TypeOK
    <3>2. in_flight \in Nat /\ in_flight' = in_flight - 1
      <4>1. in_flight \in 0..Cardinality(Sender)
        BY <1>2 DEF TypeOK
      <4>2. in_flight' = in_flight - 1
        BY <2>1 DEF Release
      <4>3. QED
        BY <4>1, <4>2
    <3>3. QED
      BY <3>1, <3>2
  <2>2. CASE ~(\E s \in Sender : Release(s))
    <3>1. ~(\E s \in Sender : GrantPermit(s))
      BY <1>2 DEF GrantPermit, StartedInv
    <3>2. in_flight' = in_flight
      BY <1>2, <2>2, <3>1
      DEF Next, ReadGeneration, BeginSend, Refuse, Check, StartFails, StartTX,
          FinishTX, RequestStop, Recover
    <3>3. Holders' \subseteq Holders
      BY <1>2, <2>2, <3>1
      DEF Next, ReadGeneration, BeginSend, Refuse, Check, StartFails, StartTX,
          FinishTX, RequestStop, Recover, Holders, TypeOK
    <3>4. in_flight \in Int
      <4>1. in_flight \in 0..Cardinality(Sender)
        BY <1>2 DEF TypeOK
      <4>2. QED
        BY <4>1
    <3>5. QED
      BY <3>2, <3>3, <3>4
  <2>3. QED
    BY <2>1, <2>2
<1>3. IInv /\ StartedInv /\ [Next]_vars
        => [stopped => Holders' \subseteq Holders
                       /\ in_flight' <= in_flight]_vars
  BY <1>2
<1>4. QED
  BY <1>1, <1>3, StepStartedInv, Invariance, PTL DEF Spec, StopOnlyDrains
=============================================================================
