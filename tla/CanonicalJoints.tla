-------------------------- MODULE CanonicalJoints --------------------------
(***************************************************************************)
(* include/robot/contract/CanonicalCommand.hpp: the joints, numbered in    *)
(* the canonical order on which everything that crosses between C++ and    *)
(* Python is laid out.                                                     *)
(***************************************************************************)
EXTENDS Integers

CONSTANT
  Dof                   \* kCanonicalDof, JOINT_COUNT and COUNT

ASSUME DofAssumption == Dof \in Nat \ {0}

Joint == 0 .. Dof - 1
=============================================================================
