---------------------------- MODULE TelemetryLog ----------------------------
(***************************************************************************)
(* What ControlTelemetryRing promises: a bounded first-in first-out log    *)
(* between one producer and one consumer that, when it is full, loses the  *)
(* newest frame and counts it, and never blocks either side.               *)
(*                                                                         *)
(* TelemetryRing.tla implements this specification.                        *)
(***************************************************************************)
EXTENDS Naturals, Sequences

CONSTANT Capacity       \* frames the log holds

VARIABLES
  offered,              \* frames offered so far; frame i is the i-th
  queue,                \* frames in the log, oldest first
  dropped,              \* frames lost
  got                   \* the last frame delivered, 0 before the first

vars == <<offered, queue, dropped, got>>

Init ==
  /\ offered = 0
  /\ queue = << >>
  /\ dropped = 0
  /\ got = 0

\* The next frame enters the log.
Push ==
  /\ Len(queue) < Capacity
  /\ offered' = offered + 1
  /\ queue' = Append(queue, offered + 1)
  /\ UNCHANGED <<dropped, got>>

\* The next frame finds the log full.
Drop ==
  /\ Len(queue) = Capacity
  /\ offered' = offered + 1
  /\ dropped' = dropped + 1
  /\ UNCHANGED <<queue, got>>

Pop ==
  /\ queue # << >>
  /\ got' = Head(queue)
  /\ queue' = Tail(queue)
  /\ UNCHANGED <<offered, dropped>>

Next == Push \/ Drop \/ Pop

Spec == Init /\ [][Next]_vars
=============================================================================
