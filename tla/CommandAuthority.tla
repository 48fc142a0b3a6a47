-------------------------- MODULE CommandAuthority --------------------------
(***************************************************************************)
(* What the simulation promises to whoever commands the hand, without      *)
(* lifecycle, leases, clocks or bridge processes:                          *)
(*                                                                         *)
(*   - the plant moves only under an order given under the authority in    *)
(*     force, and an order is only ever overtaken by a later one;          *)
(*   - a pause, a stop or a failure revokes the order at once, and nothing *)
(*     is ordered until the authority is renewed;                          *)
(*   - an authority is never renewed into an earlier one, so what was      *)
(*     ordered under it cannot come back.                                  *)
(*                                                                         *)
(* SimulationNode.tla implements this specification.                       *)
(***************************************************************************)
EXTENDS Integers

CONSTANT NoOrder        \* no order is in force

VARIABLES
  authority,            \* <<session, epoch>> in force
  open,                 \* may orders be given?
  order,                \* the order in force
  last,                 \* the last order given under this authority
  moving                \* is the plant moving?

vars == <<authority, open, order, last, moving>>

Later(a, b) == b[1] < a[1] \/ (b[1] = a[1] /\ b[2] < a[2])

Init ==
  /\ authority \in Nat \X Nat
  /\ open \in BOOLEAN
  /\ order = NoOrder
  /\ last = -1
  /\ moving = FALSE

Order ==
  /\ open
  /\ last' \in Nat
  /\ last < last'
  /\ order' = last'
  /\ UNCHANGED <<authority, open, moving>>

Move ==
  /\ open
  /\ order # NoOrder
  /\ moving' = TRUE
  /\ UNCHANGED <<authority, open, order, last>>

Revoke ==
  /\ open' = FALSE
  /\ order' = NoOrder
  /\ moving' = FALSE
  /\ UNCHANGED <<authority, last>>

\* A renewal may fail half way, and leave the authority renewed but closed.
Renew ==
  /\ authority' \in Nat \X Nat
  /\ Later(authority', authority)
  /\ open' \in BOOLEAN
  /\ order' = NoOrder
  /\ last' = -1
  /\ moving' = FALSE

Next == Order \/ Move \/ Revoke \/ Renew

Spec == Init /\ [][Next]_vars
=============================================================================
