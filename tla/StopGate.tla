------------------------------ MODULE StopGate ------------------------------
(***************************************************************************)
(* What StopCoordinator promises to its callers, without a mutex, counters *)
(* or generations:                                                         *)
(*                                                                         *)
(*   - a transmission (TX) starts only while the gate is open, and only    *)
(*     for a sender authorised since the gate was last opened;             *)
(*   - a stop closes the gate and withdraws every authorisation at once,   *)
(*     and lets the transmissions already on the wire run out;             *)
(*   - the gate is reopened only when nothing is on the wire, and nobody   *)
(*     is authorised by what happened before the stop.                     *)
(*                                                                         *)
(* StopCoordinator.tla implements this specification.                      *)
(***************************************************************************)
CONSTANT Sender         \* the threads that start transmissions

VARIABLES
  open,                 \* may transmissions start?
  authorised,           \* senders whose command is valid for this opening
  wire                  \* senders whose transmission is on the wire

vars == <<open, authorised, wire>>

Init ==
  /\ open = TRUE
  /\ authorised = {}
  /\ wire = {}

Authorise(s) ==
  /\ open
  /\ authorised' = authorised \cup {s}
  /\ UNCHANGED <<open, wire>>

Start(s) ==
  /\ open
  /\ s \in authorised \ wire
  /\ wire' = wire \cup {s}
  /\ UNCHANGED <<open, authorised>>

Complete(s) ==
  /\ s \in wire
  /\ wire' = wire \ {s}
  /\ UNCHANGED <<open, authorised>>

Stop ==
  /\ open' = FALSE
  /\ authorised' = {}
  /\ UNCHANGED wire

Reopen ==
  /\ ~open
  /\ wire = {}
  /\ open' = TRUE
  /\ UNCHANGED <<authorised, wire>>

Next ==
  \/ \E s \in Sender : Authorise(s) \/ Start(s) \/ Complete(s)
  \/ Stop
  \/ Reopen

Spec == Init /\ [][Next]_vars
=============================================================================
