----------------------------- MODULE JointTable -----------------------------
(***************************************************************************)
(* cpp/src/mapping/JointTable.cpp and the Python readers of the same file, *)
(* config/joint_mapping.json: which files each side accepts, and what it   *)
(* makes of them.  A joint of the file is a record: its hardware_id, its   *)
(* mujoco_joint, whether its name is the canonical one of that id, and     *)
(* whether direction, offset and limits are in order.  No object of the    *)
(* file repeats a key: of two values C++ keeps the first, Python the last. *)
(***************************************************************************)
EXTENDS CanonicalJoints, Sequences, FiniteSets

CONSTANT
  Urdf                  \* names of the model's joints

Item == [id : Int, urdf : Urdf, named : BOOLEAN, proper : BOOLEAN]
File == [readable : BOOLEAN, version : Nat, unit : {"radian", "other"},
         status : {"calibrated", "not_calibrated", "other"},
         joints : Seq(Item)]

-----------------------------------------------------------------------------
(* Where the file is: the environment of the process *)

Env == [mapping : {"unset", "empty", "set"}, root : {"unset", "empty", "set"}]

\* bridge_env(): the project's root is the default of the child.
BridgeEnv(env) ==
  IF env.mapping = "unset" /\ env.root = "unset"
    THEN [env EXCEPT !.root = "set"]
    ELSE env

\* resolveIdentityPath(): LEAP_JOINT_MAPPING counts before LEAP_PROJECT_ROOT.
Resolves(env) ==
  \/ env.mapping = "set"
  \/ env.mapping = "unset" /\ env.root = "set"

-----------------------------------------------------------------------------
(* C++: loadJointTable() and what is derived from the table *)

HeaderLoads(f) ==
  /\ f.readable
  /\ f.version = 1
  /\ f.unit = "radian"
  /\ f.status \in {"calibrated", "not_calibrated"}
  /\ Len(f.joints) = Dof

\* The k-th joint of the file is taken after those before it.  A missing id
\* needs no test of its own: Dof different ids are all there are.
RecordLoads(f, k) ==
  /\ f.joints[k].id \in Joint
  /\ \A earlier \in 1 .. k - 1 : f.joints[earlier].id # f.joints[k].id
  /\ f.joints[k].proper
  /\ f.joints[k].named

Loads(f) == HeaderLoads(f) /\ \A k \in DOMAIN f.joints : RecordLoads(f, k)

\* Mutant of Table: the joints are kept in the order of the file.
TableInFileOrder(f) == [i \in Joint |-> f.joints[i + 1]]

Table(f) ==
  [i \in Joint |-> LET k == CHOOSE k \in DOMAIN f.joints : f.joints[k].id = i
                   IN f.joints[k]]

\* transportConfigFromTable(): an operator cannot move an uncalibrated hand.
MayMove(f, operator_allow_motion) ==
  operator_allow_motion /\ f.status = "calibrated"

-----------------------------------------------------------------------------
(* Python: load_joint_order(), by hardware id *)

Ids(f) == {f.joints[k].id : k \in DOMAIN f.joints}

OrderLoads(f) ==
  /\ f.readable
  /\ Len(f.joints) = Dof
  /\ Ids(f) = Joint
  /\ Cardinality({f.joints[k].urdf : k \in DOMAIN f.joints}) = Dof

\* Of joints with one id by_id keeps the last.
Order(f) ==
  [i \in Joint |->
     LET k == CHOOSE k \in DOMAIN f.joints :
                /\ f.joints[k].id = i
                /\ \A later \in k + 1 .. Len(f.joints) :
                     f.joints[later].id # i
     IN f.joints[k].urdf]
=============================================================================
