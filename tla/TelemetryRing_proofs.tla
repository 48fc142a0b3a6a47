------------------------ MODULE TelemetryRing_proofs ------------------------
(***************************************************************************)
(* Proofs about TelemetryRing, for every capacity and every number of      *)
(* frames.                                                                 *)
(***************************************************************************)
EXTENDS TelemetryRing, SequenceTheorems, TLAPS

\* Two indices less than a lap apart have different slots.
LEMMA SlotsDiffer ==
  ASSUME NEW i \in Nat, NEW j \in Nat, i < j, j - i < Capacity
  PROVE  i % Capacity # j % Capacity
<1> SUFFICES ASSUME i % Capacity = j % Capacity
             PROVE  FALSE
  OBVIOUS
<1> DEFINE p == i \div Capacity
           q == j \div Capacity
<1>1. /\ p \in Int /\ q \in Int
      /\ i = Capacity * p + (i % Capacity)
      /\ j = Capacity * q + (j % Capacity)
  BY CapacityAssumption
<1> HIDE DEF p, q
<1>2. j - i = Capacity * (q - p)
  BY <1>1, CapacityAssumption
<1>3. CASE q <= p
  BY <1>1, <1>2, <1>3, CapacityAssumption
<1>4. CASE q > p
  BY <1>1, <1>2, <1>4, CapacityAssumption
<1>5. QED
  BY <1>1, <1>3, <1>4

\* Every index has a slot.
LEMMA SlotOf ==
  ASSUME NEW i \in Nat
  PROVE  i % Capacity \in Slot
BY CapacityAssumption DEF Slot

-----------------------------------------------------------------------------
(* The inductive invariant. *)

Pushing == ppc \in {"loaded", "writing", "written"}

\* The indices stay within a lap, and each thread's verdict on the distance
\* holds until its own store: the other one can only improve it.
WindowInv ==
  /\ write - read <= Capacity
  /\ Pushing => write - read < Capacity
  /\ cpc # "idle" => read < write

\* The slots a thread is done with stay as it left or found them.
SlotInv ==
  /\ ppc = "written" => slots[write % Capacity] = offered
  /\ cpc = "copied" => frame = slots[read % Capacity]

\* Every frame offered is in the ring's history, lost, or being pushed.
AccountInv == offered = write + dropped + (IF ppc = "idle" THEN 0 ELSE 1)

IInv == TypeOK /\ WindowInv /\ SlotInv /\ AccountInv

LEMMA InitIInv == Init => IInv
BY CapacityAssumption, FramesAssumption
DEF Init, IInv, TypeOK, Slot, Frame, WindowInv, Pushing, SlotInv, AccountInv

\* Writing the next slot leaves every slot in the window alone.
LEMMA WriteOutside ==
  ASSUME TypeOK, write - read < Capacity,
         \A k \in Slot : k # write % Capacity => slots'[k] = slots[k]
  PROVE  \A k \in Nat : read <= k /\ k < write
           => slots'[k % Capacity] = slots[k % Capacity]
<1> SUFFICES ASSUME NEW k \in Nat, read <= k, k < write
             PROVE  slots'[k % Capacity] = slots[k % Capacity]
  OBVIOUS
<1>1. read \in Nat /\ write \in Nat
  BY FramesAssumption DEF TypeOK
<1>2. k % Capacity # write % Capacity
  <2>1. k < write /\ write - k < Capacity
    BY <1>1, CapacityAssumption
  <2>2. QED
    BY <1>1, <2>1, SlotsDiffer
<1>3. k % Capacity \in Slot
  BY SlotOf
<1>4. QED
  BY <1>2, <1>3

LEMMA StepIInv == IInv /\ [Next]_vars => IInv'
<1> SUFFICES ASSUME IInv, [Next]_vars
             PROVE  IInv'
  OBVIOUS
<1> USE DEF IInv
<1>1. read \in Nat /\ write \in Nat /\ dropped \in Nat /\ offered \in Nat
  BY FramesAssumption DEF TypeOK, Frame
<1>2. write % Capacity \in Slot /\ read % Capacity \in Slot
  BY <1>1, SlotOf
<1>3. CASE PushLoad
  BY <1>1, <1>3, CapacityAssumption, FramesAssumption
  DEF PushLoad, Full, consumer, TypeOK, Frame, WindowInv, Pushing, SlotInv,
      AccountInv
<1>4. CASE PushDrop
  BY <1>1, <1>4, CapacityAssumption, FramesAssumption
  DEF PushDrop, consumer, TypeOK, Frame, WindowInv, Pushing, SlotInv,
      AccountInv
<1>5. CASE PushWrite
  <2>1. cpc = "copied" => slots'[read % Capacity] = slots[read % Capacity]
    <3>1. /\ write - read < Capacity
          /\ \A k \in Slot : k # write % Capacity => slots'[k] = slots[k]
      BY <1>5 DEF PushWrite, TypeOK, WindowInv, Pushing
    <3>2. cpc = "copied" => read < write
      BY DEF WindowInv
    <3>3. QED
      BY <1>1, <3>1, <3>2, WriteOutside
  <2>2. TypeOK'
    BY <1>2, <1>5 DEF PushWrite, consumer, TypeOK
  <2>3. WindowInv' /\ AccountInv'
    BY <1>5 DEF PushWrite, consumer, WindowInv, Pushing, AccountInv
  <2>4. SlotInv'
    BY <1>5, <2>1 DEF PushWrite, consumer, SlotInv
  <2>5. QED
    BY <2>2, <2>3, <2>4
<1>6. CASE PushWritten
  <2>1. cpc = "copied" => slots'[read % Capacity] = slots[read % Capacity]
    <3>1. /\ write - read < Capacity
          /\ \A k \in Slot : k # write % Capacity => slots'[k] = slots[k]
      BY <1>6 DEF PushWritten, TypeOK, WindowInv, Pushing
    <3>2. cpc = "copied" => read < write
      BY DEF WindowInv
    <3>3. QED
      BY <1>1, <3>1, <3>2, WriteOutside
  <2>2. TypeOK'
    BY <1>2, <1>6 DEF PushWritten, consumer, TypeOK
  <2>3. WindowInv' /\ AccountInv'
    BY <1>6 DEF PushWritten, consumer, WindowInv, Pushing, AccountInv
  <2>4. SlotInv'
    BY <1>2, <1>6, <2>1 DEF PushWritten, consumer, TypeOK, SlotInv
  <2>5. QED
    BY <2>2, <2>3, <2>4
<1>7. CASE PushPublish
  BY <1>1, <1>7, CapacityAssumption, FramesAssumption
  DEF PushPublish, consumer, TypeOK, Frame, WindowInv, Pushing, SlotInv,
      AccountInv
<1>8. CASE PopLoad
  BY <1>1, <1>8
  DEF PopLoad, Empty, producer, TypeOK, WindowInv, Pushing, SlotInv,
      AccountInv
<1>9. CASE PopCopy
  BY <1>1, <1>2, <1>9
  DEF PopCopy, producer, TypeOK, WindowInv, Pushing, SlotInv, AccountInv
<1>10. CASE PopPublish
  <2>1. read < write
    BY <1>10 DEF PopPublish, WindowInv
  <2>2. TypeOK'
    BY <1>1, <1>10, <2>1 DEF PopPublish, producer, TypeOK
  <2>3. WindowInv'
    BY <1>1, <1>10, CapacityAssumption
    DEF PopPublish, producer, WindowInv, Pushing
  <2>4. SlotInv' /\ AccountInv'
    BY <1>10 DEF PopPublish, producer, SlotInv, AccountInv
  <2>5. QED
    BY <2>2, <2>3, <2>4
<1>11. CASE UNCHANGED vars
  BY <1>11
  DEF vars, producer, consumer, TypeOK, WindowInv, Pushing, SlotInv,
      AccountInv
<1>12. QED
  BY <1>3, <1>4, <1>5, <1>6, <1>7, <1>8, <1>9, <1>10, <1>11 DEF Next

THEOREM Invariance == Spec => []IInv
BY InitIInv, StepIInv, PTL DEF Spec

\* The indices and the counter keep their types: read_ never passes write_.
THEOREM TypeCorrect == Spec => []TypeOK
<1>1. IInv => TypeOK
  BY DEF IInv
<1>2. QED
  BY <1>1, Invariance, PTL

\* The producer never writes the slot the consumer is copying, for any
\* capacity: the ring needs no lock.
THEOREM SlotsNeverShared == Spec => []NoSharedSlot
<1>1. IInv => NoSharedSlot
  <2> SUFFICES ASSUME IInv, Pushing, cpc = "loaded"
               PROVE  write % Capacity # read % Capacity
    BY DEF NoSharedSlot, Pushing
  <2>1. read \in Nat /\ write \in Nat /\ read < write
        /\ write - read < Capacity
    BY FramesAssumption DEF IInv, TypeOK, WindowInv
  <2>2. QED
    BY <2>1, SlotsDiffer
<1>2. QED
  BY <1>1, Invariance, PTL
-----------------------------------------------------------------------------
(* The ring implements the log. *)

Entry == Frame \cup {Torn}

\* The slots s from index r up to index w.
Window(s, r, w) == [i \in 1..(w - r) |-> s[(r + i - 1) % Capacity]]

LEMMA WindowIsSeq ==
  ASSUME NEW s \in [Slot -> Entry], NEW r \in Nat, NEW w \in Nat, r <= w
  PROVE  /\ Window(s, r, w) \in Seq(Entry)
         /\ Len(Window(s, r, w)) = w - r
         /\ \A i \in 1..(w - r) :
              Window(s, r, w)[i] = s[(r + i - 1) % Capacity]
<1>1. w - r \in Nat
  OBVIOUS
<1>2. ASSUME NEW i \in 1..(w - r)
      PROVE  s[(r + i - 1) % Capacity] \in Entry
  <2>1. r + i - 1 \in Nat
    OBVIOUS
  <2>2. QED
    BY <2>1, SlotOf
<1>3. Window(s, r, w) \in [1..(w - r) -> Entry]
  BY <1>2 DEF Window
<1>4. Window(s, r, w) \in Seq(Entry)
  BY <1>1, <1>3
<1>5. QED
  BY <1>1, <1>3, <1>4 DEF Window

LEMMA QueueType ==
  ASSUME IInv
  PROVE  /\ Queue \in Seq(Entry)
         /\ Len(Queue) = write - read
         /\ \A i \in 1..(write - read) :
              Queue[i] = slots[(read + i - 1) % Capacity]
<1>1. /\ read \in Nat /\ write \in Nat /\ read <= write
      /\ slots \in [Slot -> Entry]
  BY FramesAssumption DEF IInv, TypeOK, Entry
<1>2. Queue = Window(slots, read, write)
  BY DEF Queue, Window
<1>3. QED
  BY <1>1, <1>2, WindowIsSeq

LEMMA InitRefines == Init => Log!Init
BY DEF Init, Log!Init, Queue, Offered, Dropped

\* Filling the next slot changes nothing in the log.
LEMMA QueueSame ==
  ASSUME IInv, Pushing, UNCHANGED <<read, write>>,
         \A k \in Slot : k # write % Capacity => slots'[k] = slots[k]
  PROVE  Queue' = Queue
<1>1. read \in Nat /\ write \in Nat /\ write - read \in Nat
  BY FramesAssumption DEF IInv, TypeOK
<1>2. ASSUME NEW i \in 1..(write - read)
      PROVE  slots'[(read + i - 1) % Capacity]
               = slots[(read + i - 1) % Capacity]
  <2>1. /\ read + i - 1 \in Nat
        /\ read <= read + i - 1 /\ read + i - 1 < write
    BY <1>1
  <2>2. TypeOK /\ write - read < Capacity
    BY DEF IInv, WindowInv
  <2>3. QED
    BY <2>1, <2>2, WriteOutside
<1>3. QED
  BY <1>2 DEF Queue

LEMMA StepRefines == IInv /\ [Next]_vars => [Log!Next]_Log!vars
<1> SUFFICES ASSUME IInv, [Next]_vars
             PROVE  [Log!Next]_Log!vars
  OBVIOUS
<1>0. /\ read \in Nat /\ write \in Nat /\ write - read \in Nat
      /\ dropped \in Nat /\ offered \in Nat
  BY FramesAssumption DEF IInv, TypeOK, Frame
<1>1. CASE PushLoad
  <2>1. Queue' = Queue
    BY <1>1 DEF PushLoad, Queue
  <2>2. CASE Full
    <3>1. Len(Queue) = Capacity
      BY <1>0, <2>2, QueueType, CapacityAssumption DEF IInv, WindowInv, Full
    <3>2. Offered' = Offered + 1 /\ Dropped' = Dropped + 1 /\ got' = got
      BY <1>0, <1>1, <2>2 DEF PushLoad, consumer, Offered, Dropped
    <3>3. QED
      BY <2>1, <3>1, <3>2 DEF Log!Next, Log!Drop
  <2>3. CASE ~Full
    <3>1. Offered' = Offered /\ Dropped' = Dropped /\ got' = got
      BY <1>0, <1>1, <2>3 DEF PushLoad, consumer, Offered, Dropped
    <3>2. QED
      BY <2>1, <3>1 DEF Log!vars
  <2>4. QED
    BY <2>2, <2>3
<1>2. CASE PushDrop
  BY <1>0, <1>2 DEF PushDrop, consumer, Queue, Offered, Dropped, Log!vars
<1>3. CASE PushWrite \/ PushWritten
  <2>1. Queue' = Queue
    BY <1>3, QueueSame DEF PushWrite, PushWritten, Pushing, IInv, TypeOK
  <2>2. Offered' = Offered /\ Dropped' = Dropped /\ got' = got
    BY <1>3 DEF PushWrite, PushWritten, consumer, Offered, Dropped
  <2>3. QED
    BY <2>1, <2>2 DEF Log!vars
<1>4. CASE PushPublish
  <2>1. Len(Queue) < Capacity
    BY <1>0, <1>4, QueueType, CapacityAssumption
    DEF PushPublish, IInv, WindowInv, Pushing
  <2>2. Offered' = Offered + 1 /\ Dropped' = Dropped /\ got' = got
    BY <1>0, <1>4 DEF PushPublish, consumer, Offered, Dropped
  <2>3. Queue' = Append(Queue, Offered + 1)
    <3>1. slots[write % Capacity] = Offered + 1 /\ Offered + 1 \in Entry
      BY <1>0, <1>4 DEF PushPublish, IInv, TypeOK, SlotInv, Offered, Entry
    <3>2. /\ Queue' = Window(slots, read, write')
          /\ write' = write + 1
      BY <1>4 DEF PushPublish, Queue, Window
    <3>3. /\ slots \in [Slot -> Entry]
          /\ write' \in Nat /\ read <= write'
      BY <1>0, <3>2 DEF IInv, TypeOK, Entry
    <3>4. /\ Queue' \in Seq(Entry)
          /\ Len(Queue') = write' - read
          /\ \A i \in 1..(write' - read) :
               Queue'[i] = slots[(read + i - 1) % Capacity]
      <4>1. /\ Window(slots, read, write') \in Seq(Entry)
            /\ Len(Window(slots, read, write')) = write' - read
            /\ \A i \in 1..(write' - read) :
                 Window(slots, read, write')[i]
                   = slots[(read + i - 1) % Capacity]
        BY <1>0, <3>3, WindowIsSeq
      <4>2. Queue' = Window(slots, read, write')
        BY <3>2
      <4>3. QED
        BY <4>1, <4>2, Zenon
    <3>5. /\ Append(Queue, Offered + 1) \in Seq(Entry)
          /\ Len(Append(Queue, Offered + 1)) = write - read + 1
          /\ \A i \in 1..(write - read) :
               Append(Queue, Offered + 1)[i] = slots[(read + i - 1) % Capacity]
          /\ Append(Queue, Offered + 1)[write - read + 1] = Offered + 1
      BY <3>1, QueueType, AppendProperties
    <3>6. ASSUME NEW i \in 1..(write' - read)
          PROVE  Queue'[i] = Append(Queue, Offered + 1)[i]
      <4>1. CASE i <= write - read
        <5>1. i \in 1..(write - read)
          BY <1>0, <4>1
        <5>2. QED
          BY <3>4, <3>5, <5>1
      <4>2. CASE i = write - read + 1
        <5>1. read + i - 1 = write
          BY <1>0, <4>2
        <5>2. Queue'[i] = Offered + 1
          BY <3>1, <3>4, <5>1
        <5>3. Append(Queue, Offered + 1)[i] = Offered + 1
          BY <3>5, <4>2
        <5>4. QED
          BY <5>2, <5>3
      <4>3. i <= write - read \/ i = write - read + 1
        BY <1>0, <3>2
      <4>4. QED
        BY <4>1, <4>2, <4>3
    <3>7. Len(Queue') = Len(Append(Queue, Offered + 1))
      BY <1>0, <3>2, <3>4, <3>5
    <3>8. QED
      BY <3>4, <3>5, <3>6, <3>7, SeqEqual
  <2>4. QED
    BY <2>1, <2>2, <2>3 DEF Log!Next, Log!Push
<1>5. CASE PopLoad \/ PopCopy
  BY <1>5
  DEF PopLoad, PopCopy, producer, Queue, Offered, Dropped, Log!vars
<1>6. CASE PopPublish
  <2>1. read < write
    BY <1>6 DEF PopPublish, IInv, WindowInv
  <2>2. Queue # << >> /\ got' = Head(Queue)
    <3>1. Queue[1] = slots[read % Capacity]
      <4>1. read + 1 - 1 = read /\ 1 \in 1..(write - read)
        BY <1>0, <2>1
      <4>2. QED
        BY <4>1, QueueType
    <3>2. QED
      BY <1>0, <1>6, <2>1, <3>1, QueueType DEF PopPublish, IInv, SlotInv
  <2>3. Queue' = Tail(Queue)
    <3>1. Queue' = Window(slots, read + 1, write)
      BY <1>6 DEF PopPublish, producer, Queue, Window
    <3>2. /\ slots \in [Slot -> Entry]
          /\ read + 1 \in Nat /\ read + 1 <= write
      BY <1>0, <2>1 DEF IInv, TypeOK, Entry
    <3>3. /\ Queue' \in Seq(Entry)
          /\ Len(Queue') = write - (read + 1)
          /\ \A i \in 1..(write - (read + 1)) :
               Queue'[i] = slots[(read + 1 + i - 1) % Capacity]
      BY <1>0, <3>1, <3>2, WindowIsSeq
    <3>4. /\ Tail(Queue) \in Seq(Entry)
          /\ Len(Tail(Queue)) = write - read - 1
          /\ \A i \in 1..Len(Tail(Queue)) : Tail(Queue)[i] = Queue[i + 1]
      BY <2>2, QueueType, HeadTailProperties
    <3>5. ASSUME NEW i \in 1..(write - (read + 1))
          PROVE  Queue'[i] = Tail(Queue)[i]
      <4>1. /\ i + 1 \in 1..(write - read) /\ i \in 1..Len(Tail(Queue))
            /\ read + (i + 1) - 1 = read + 1 + i - 1
        BY <1>0, <3>4
      <4>2. QED
        BY <3>3, <3>4, <4>1, QueueType
    <3>6. Len(Queue') = Len(Tail(Queue))
      BY <1>0, <3>3, <3>4
    <3>7. QED
      BY <3>3, <3>4, <3>5, <3>6, SeqEqual
  <2>4. Offered' = Offered /\ Dropped' = Dropped
    BY <1>6 DEF PopPublish, producer, Offered, Dropped
  <2>5. QED
    BY <2>2, <2>3, <2>4 DEF Log!Next, Log!Pop
<1>7. CASE UNCHANGED vars
  BY <1>7 DEF vars, producer, consumer, Queue, Offered, Dropped, Log!vars
<1>8. QED
  BY <1>1, <1>2, <1>3, <1>4, <1>5, <1>6, <1>7 DEF Next

\* The ring is a bounded first-in first-out log that loses only the newest
\* frame, only when it is full, and counts what it loses.
THEOREM Refinement == Spec => ImplementsTelemetryLog
BY InitRefines, StepRefines, Invariance, PTL
DEF Spec, ImplementsTelemetryLog, Log!Spec
=============================================================================
