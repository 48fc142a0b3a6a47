--------------------------- MODULE TelemetryRing ---------------------------
(***************************************************************************)
(* ControlTelemetryRing of cpp/src/runtime/ControlTelemetry.cpp: a ring    *)
(* without locks between the control thread, which calls tryPush once per  *)
(* cycle, and one diagnostic thread, which calls tryPop.                   *)
(*                                                                         *)
(* A frame is a large struct, so filling a slot and copying it out take    *)
(* time: each is split from the index store that follows it, and a slot    *)
(* being filled holds Torn.  The acquire loads and release stores make the *)
(* other side's slot accesses happen before what follows; the relaxed load *)
(* of a thread's own index reads what it last stored.  Frames are numbered *)
(* in the order they are offered, as telemetry_tick_ does.                 *)
(***************************************************************************)
EXTENDS Integers

CONSTANTS
  Capacity,         \* slots_.size()
  Torn,             \* a slot that is being written
  MaxFrames         \* bound on the frames offered

ASSUME CapacityAssumption == Capacity \in Nat \ {0}
ASSUME FramesAssumption == MaxFrames \in Nat
ASSUME TornAssumption == Torn \notin Nat

VARIABLES
  slots,            \* slots_
  write, read,      \* write_, read_
  dropped,          \* dropped_
  ppc,              \* where the producer is in tryPush
  offered,          \* telemetry_tick_: the frame being pushed, or the last
  cpc,              \* where the consumer is in tryPop
  frame,            \* what the consumer copied out
  got               \* the last frame tryPop returned

producer == <<ppc, offered>>
consumer == <<cpc, frame, got>>
vars == <<slots, write, read, dropped, producer, consumer>>

Slot == 0..(Capacity - 1)
Frame == 0..MaxFrames           \* 0: a slot or a frame never filled

Init ==
  /\ slots = [k \in Slot |-> 0]
  /\ write = 0 /\ read = 0 /\ dropped = 0
  /\ ppc = "idle" /\ offered = 0
  /\ cpc = "idle" /\ frame = 0 /\ got = 0

TypeOK ==
  /\ slots \in [Slot -> Frame \cup {Torn}]
  /\ write \in 0..MaxFrames /\ read \in 0..write
  /\ dropped \in 0..MaxFrames
  /\ ppc \in {"idle", "loaded", "full", "writing", "written"}
  /\ offered \in Frame
  /\ cpc \in {"idle", "loaded", "copied"}
  /\ frame \in Frame \cup {Torn}
  /\ got \in Frame \cup {Torn}

(***************************************************************************)
(* tryPush.                                                                *)
(***************************************************************************)

\* Mutant of Full: one slot too many.
FullOffByOne == write - read > Capacity

Full == write - read >= Capacity

\* The next frame is offered, and the read index is loaded and judged.
PushLoad ==
  /\ ppc = "idle" /\ offered < MaxFrames
  /\ offered' = offered + 1
  /\ ppc' = IF Full THEN "full" ELSE "loaded"
  /\ UNCHANGED <<slots, write, read, dropped, consumer>>

\* Mutant of PushDrop: the frame is lost silently.
PushDropUncounted ==
  /\ ppc = "full"
  /\ ppc' = "idle"
  /\ UNCHANGED <<slots, write, read, dropped, offered, consumer>>

PushDrop ==
  /\ ppc = "full"
  /\ dropped' = dropped + 1
  /\ ppc' = "idle"
  /\ UNCHANGED <<slots, write, read, offered, consumer>>

\* The assignment to the slot begins ...
PushWrite ==
  /\ ppc = "loaded"
  /\ slots' = [slots EXCEPT ![write % Capacity] = Torn]
  /\ ppc' = "writing"
  /\ UNCHANGED <<write, read, dropped, offered, consumer>>

\* ... and ends.
PushWritten ==
  /\ ppc = "writing"
  /\ slots' = [slots EXCEPT ![write % Capacity] = offered]
  /\ ppc' = "written"
  /\ UNCHANGED <<write, read, dropped, offered, consumer>>

\* The release store hands the slot over.
PushPublish ==
  /\ ppc = "written"
  /\ write' = write + 1
  /\ ppc' = "idle"
  /\ UNCHANGED <<slots, read, dropped, offered, consumer>>

(***************************************************************************)
(* tryPop.                                                                 *)
(***************************************************************************)

\* Mutant of Empty: a negative distance between the indices is what is refused.
EmptyOffByOne == read > write

Empty == read = write

\* The write index is loaded and judged; nothing new returns false.
PopLoad ==
  /\ cpc = "idle"
  /\ cpc' = IF Empty THEN "idle" ELSE "loaded"
  /\ UNCHANGED <<slots, write, read, dropped, producer, frame, got>>

PopCopy ==
  /\ cpc = "loaded"
  /\ frame' = slots[read % Capacity]
  /\ cpc' = "copied"
  /\ UNCHANGED <<slots, write, read, dropped, producer, got>>

\* The release store frees the slot, and tryPop returns the frame.
PopPublish ==
  /\ cpc = "copied"
  /\ read' = read + 1
  /\ got' = frame
  /\ cpc' = "idle"
  /\ UNCHANGED <<slots, write, dropped, producer, frame>>

Next ==
  \/ PushLoad \/ PushDrop \/ PushWrite \/ PushWritten \/ PushPublish
  \/ PopLoad \/ PopCopy \/ PopPublish

Spec == Init /\ [][Next]_vars

(***************************************************************************)
(* Properties.                                                             *)
(***************************************************************************)

\* The two threads never touch the same slot at the same time, although
\* neither waits for the other: a slot is refilled only after the consumer
\* gave it back, even when the ring is full and even in a ring of one slot.
NoSharedSlot ==
  ppc \in {"writing", "written"} /\ cpc = "loaded"
    => write % Capacity # read % Capacity

\* The log the ring stands for: a push takes effect when its index is stored, a
\* refused one when the full ring is seen.
Queue == [i \in 1..(write - read) |-> slots[(read + i - 1) % Capacity]]

Offered == IF ppc \in {"loaded", "writing", "written"}
             THEN offered - 1 ELSE offered

Dropped == IF ppc = "full" THEN dropped + 1 ELSE dropped

Log == INSTANCE TelemetryLog
         WITH queue <- Queue, offered <- Offered, dropped <- Dropped

\* The ring implements the log: frames come out whole, in order and once, the
\* newest is lost only when the ring is full, and every loss is counted.
ImplementsTelemetryLog == Log!Spec
=============================================================================
