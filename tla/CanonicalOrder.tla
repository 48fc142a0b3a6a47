--------------------------- MODULE CanonicalOrder ---------------------------
(***************************************************************************)
(* The command contract twice: include/robot/contract/CanonicalCommand.hpp *)
(* (reorderToCanonical), and simulation/canonical.py (reorder_to_canonical,*)
(* validate_canonical_command) beside s6_command_contract.py               *)
(* (validate_command).  Each takes the joints of a command in any order,   *)
(* by name, and puts them into the order it expects.                       *)
(*                                                                         *)
(* Functions of their arguments: the commands and the expected names are   *)
(* functions on Joint, which is how the C++ arrays and the checked Python  *)
(* sequences come to them.                                                 *)
(***************************************************************************)
EXTENDS CanonicalJoints, FiniteSets

CONSTANTS
  Name, Value,          \* what names and positions may be
  WellFormed,           \* names of 1 to kCanonicalNameMax characters
  Finite                \* values that are finite

Names == [Joint -> Name]
Command == [names : Names, positions : [Joint -> Value]]

-----------------------------------------------------------------------------
(* C++: reorderToCanonical *)

Matches(c, expected, want) == {have \in Joint : c.names[have] = expected[want]}

\* Every name is met exactly once, and no joint serves twice.
ReordersCpp(c, expected) ==
  /\ \A i \in Joint : /\ expected[i] \in WellFormed
                      /\ c.names[i] \in WellFormed
                      /\ c.positions[i] \in Finite
  /\ \A want \in Joint : \E found \in Joint :
       /\ Matches(c, expected, want) = {found}
       /\ \A earlier \in Joint :
            earlier < want => found \notin Matches(c, expected, earlier)

OrderCpp(c, expected) ==
  [want \in Joint |->
     c.positions[CHOOSE have \in Joint : c.names[have] = expected[want]]]

-----------------------------------------------------------------------------
(* Python: reorder_to_canonical, and the same within validate_command *)

NamesOf(names) == {names[i] : i \in Joint}

\* As many different names as joints, and they are the expected ones.
NamesAgree(c, expected) ==
  /\ Cardinality(NamesOf(c.names)) = Dof
  /\ NamesOf(c.names) = NamesOf(expected)

ReordersPy(c, expected) ==
  /\ \A i \in Joint : c.names[i] \in WellFormed
  /\ NamesAgree(c, expected)
  /\ \A i \in Joint : c.positions[i] \in Finite

\* Of a name that comes twice dict() keeps the last position.
OrderPy(c, expected) ==
  [want \in Joint |->
     c.positions[CHOOSE have \in Joint :
       /\ c.names[have] = expected[want]
       /\ \A later \in Joint :
            c.names[later] = expected[want] => later <= have]]

\* The whole of each validator; which reason of several it names is left out.
\* context: whether session and epoch are those in force, the sequence is a
\* newer one and the stamp within its limits, and the range of each joint.
Context ==
  [addressed : BOOLEAN, newer : BOOLEAN, timely : BOOLEAN,
   range : [Joint -> SUBSET Value]]

InContext(c, expected, context) ==
  /\ context.addressed /\ context.newer /\ context.timely
  /\ \A i \in Joint : OrderPy(c, expected)[i] \in context.range[i]

\* validate_canonical_command
AcceptsCanonical(c, expected, context) ==
  ReordersPy(c, expected) /\ InContext(c, expected, context)

\* validate_command: nothing is asked of the form of a name.
AcceptsNode(c, expected, context) ==
  /\ NamesAgree(c, expected)
  /\ \A i \in Joint : c.positions[i] \in Finite
  /\ InContext(c, expected, context)
=============================================================================
