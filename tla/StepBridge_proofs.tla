------------------------- MODULE StepBridge_proofs -------------------------
(***************************************************************************)
(* What crosses between C++ and Python keeps its meaning, for any number   *)
(* of joints: the names of a command (CanonicalOrder), the mapping file    *)
(* (JointTable), and the steps asked of the bridge process (StepBridge),   *)
(* for any number of calls and any times.                                  *)
(*                                                                         *)
(* The argument for names and ids is the pigeonhole principle: one side    *)
(* looks for duplicates, the other compares sets and their sizes.  For the *)
(* steps it is that at most one line is in the pipes, and that it belongs  *)
(* to the call under way.                                                  *)
(***************************************************************************)
EXTENDS StepBridge, CanonicalOrder, FiniteSetTheorems, SequenceTheorems, TLAPS

USE DofAssumption

-----------------------------------------------------------------------------
(* The names of a command *)

LEMMA Joints == IsFiniteSet(Joint) /\ Cardinality(Joint) = Dof
<1>1. /\ IsFiniteSet(0 .. Dof - 1)
      /\ Cardinality(0 .. Dof - 1) =
           IF 0 > Dof - 1 THEN 0 ELSE (Dof - 1) - 0 + 1
  BY FS_Interval, 0 \in Int, Dof - 1 \in Int
<1> QED  BY <1>1 DEF Joint

\* A function on the joints takes Dof values exactly when no two joints share
\* one.
LEMMA Distinct ==
  ASSUME NEW S, NEW names \in [Joint -> S]
  PROVE  Cardinality(NamesOf(names)) = Dof <=>
           \A i, j \in Joint : names[i] = names[j] => i = j
<1>1. names \in Surjection(Joint, NamesOf(names))
  BY DEF NamesOf, Surjection
<1>2. Cardinality(NamesOf(names)) = Cardinality(Joint)
        <=> names \in Injection(Joint, NamesOf(names))
  BY <1>1, Joints, FS_Surjection
<1>3. names \in Injection(Joint, NamesOf(names))
        <=> \A i, j \in Joint : names[i] = names[j] => i = j
  BY DEF NamesOf, Injection, IsInjective
<1> QED  BY <1>2, <1>3, Joints

\* From C++ to Python: each name is found at one joint of its own, so the
\* finder is injective, hence onto, and the command has no other name.
LEMMA CppThenPy ==
  ASSUME NEW c \in Command, NEW expected \in Names,
         ReordersCpp(c, expected)
  PROVE  NamesAgree(c, expected)
<1> DEFINE M(w) == Matches(c, expected, w)
           f == [w \in Joint |-> CHOOSE h \in Joint : M(w) = {h}]
<1>1. \A w \in Joint : \E h \in Joint : M(w) = {h}
  BY DEF ReordersCpp
<1>2. \A w \in Joint : f[w] \in Joint /\ M(w) = {f[w]}
  BY <1>1
<1>3. f \in [Joint -> Joint]
  BY <1>2
<1> HIDE DEF f
<1>2a. \A w \in Joint : f[w] \in M(w) /\ \A h \in M(w) : h = f[w]
  BY <1>2
<1>4. \A w, v \in Joint : v < w => f[w] # f[v]
  <2> SUFFICES ASSUME NEW w \in Joint, NEW v \in Joint, v < w, f[w] = f[v]
               PROVE  FALSE
    OBVIOUS
  <2>1. PICK found \in Joint : /\ M(w) = {found}
                               /\ \A e \in Joint : e < w => found \notin M(e)
    BY DEF ReordersCpp
  <2>2. found = f[w]
    BY <1>2, <2>1
  <2>3. f[v] \in M(v)
    BY <1>2
  <2> QED  BY <2>1, <2>2, <2>3
<1>5. f \in Injection(Joint, Joint)
  <2>1. \A w, v \in Joint : w = v \/ w < v \/ v < w
    BY DEF Joint
  <2> QED  BY <1>3, <1>4, <2>1 DEF Injection, IsInjective
<1>6. f \in Surjection(Joint, Joint)
  BY <1>5, Joints, FS_Injection
<1>7. \A h \in Joint : \E w \in Joint : f[w] = h
  BY <1>6 DEF Surjection
<1>8. \A w \in Joint : c.names[f[w]] = expected[w]
  BY <1>2a DEF Matches
<1>9. NamesOf(c.names) = NamesOf(expected)
  <2>1. ASSUME NEW h \in Joint PROVE c.names[h] \in NamesOf(expected)
    <3>1. PICK w \in Joint : f[w] = h
      BY <1>7
    <3>2. c.names[h] = expected[w]
      BY <1>8, <3>1
    <3> QED  BY <3>2 DEF NamesOf
  <2>2. ASSUME NEW w \in Joint PROVE expected[w] \in NamesOf(c.names)
    BY <1>2, <1>8 DEF NamesOf
  <2> QED  BY <2>1, <2>2 DEF NamesOf
<1>10. \A i, j \in Joint : c.names[i] = c.names[j] => i = j
  <2> SUFFICES ASSUME NEW i \in Joint, NEW j \in Joint,
                      c.names[i] = c.names[j]
               PROVE  i = j
    OBVIOUS
  <2>1. PICK w \in Joint : f[w] = i
    BY <1>7
  <2>2. i \in M(w) /\ j \in M(w)
    <3>1. c.names[j] = expected[w]
      BY <1>8, <2>1
    <3>2. c.names[i] = expected[w]
      BY <3>1
    <3> QED  BY <3>1, <3>2 DEF Matches
  <2> QED  BY <1>2a, <2>2
<1>11. c.names \in [Joint -> Name]
  BY DEF Command, Names
<1>12. Cardinality(NamesOf(c.names)) = Dof
  BY <1>10, <1>11, Distinct
<1> QED  BY <1>9, <1>12 DEF NamesAgree

\* From Python to C++: both sides have Dof different names, the same ones.
LEMMA PyThenCpp ==
  ASSUME NEW c \in Command, NEW expected \in Names,
         NamesAgree(c, expected), NEW w \in Joint
  PROVE  \E found \in Joint :
           /\ Matches(c, expected, w) = {found}
           /\ \A e \in Joint : e < w => found \notin Matches(c, expected, e)
<1>1. c.names \in [Joint -> Name] /\ expected \in [Joint -> Name]
  BY DEF Command, Names
<1>2. \A i, j \in Joint : c.names[i] = c.names[j] => i = j
  BY <1>1, Distinct DEF NamesAgree
<1>3. \A i, j \in Joint : expected[i] = expected[j] => i = j
  BY <1>1, Distinct DEF NamesAgree
<1>4. expected[w] \in NamesOf(c.names)
  BY DEF NamesAgree, NamesOf
<1>5. PICK h \in Joint : c.names[h] = expected[w]
  BY <1>4 DEF NamesOf
<1>6. Matches(c, expected, w) = {h}
  BY <1>2, <1>5 DEF Matches
<1>7. ASSUME NEW e \in Joint, e < w, h \in Matches(c, expected, e)
      PROVE  FALSE
  <2>1. expected[e] = expected[w]
    BY <1>5, <1>7 DEF Matches
  <2>2. e = w
    BY <1>3, <2>1
  <2> QED  BY <1>7, <2>2 DEF Joint
<1> QED  BY <1>6, <1>7

\* reorderToCanonical and reorder_to_canonical accept the same commands, for
\* whatever names are expected.
THEOREM SameCommands ==
  ASSUME NEW c \in Command, NEW expected \in Names
  PROVE  ReordersCpp(c, expected) <=> ReordersPy(c, expected)
<1>1. ASSUME ReordersCpp(c, expected) PROVE ReordersPy(c, expected)
  <2>1. NamesAgree(c, expected)
    BY <1>1, CppThenPy
  <2> QED  BY <1>1, <2>1 DEF ReordersCpp, ReordersPy
<1>2. ASSUME ReordersPy(c, expected) PROVE ReordersCpp(c, expected)
  <2>1. NamesAgree(c, expected)
    BY <1>2 DEF ReordersPy
  <2>2. \A w \in Joint : \E found \in Joint :
          /\ Matches(c, expected, w) = {found}
          /\ \A e \in Joint : e < w => found \notin Matches(c, expected, e)
    BY <2>1, PyThenCpp
  <2>3. \A i \in Joint : c.names[i] \in WellFormed /\ c.positions[i] \in Finite
    BY <1>2 DEF ReordersPy
  <2>4. ASSUME NEW i \in Joint PROVE expected[i] \in WellFormed
    <3>1. PICK j \in Joint : c.names[j] = expected[i]
      BY <2>1 DEF NamesAgree, NamesOf
    <3> QED  BY <2>3, <3>1
  <2> QED  BY <2>2, <2>3, <2>4 DEF ReordersCpp
<1> QED  BY <1>1, <1>2

\* ... and they give a command they accept the same order.
THEOREM SameOrder ==
  ASSUME NEW c \in Command, NEW expected \in Names,
         ReordersCpp(c, expected)
  PROVE  OrderCpp(c, expected) = OrderPy(c, expected)
<1> SUFFICES ASSUME NEW w \in Joint
             PROVE  OrderCpp(c, expected)[w] = OrderPy(c, expected)[w]
  BY DEF OrderCpp, OrderPy
<1>1. NamesAgree(c, expected)
  BY CppThenPy
<1>2. PICK h \in Joint : Matches(c, expected, w) = {h}
  BY <1>1, PyThenCpp
<1>3. \A i \in Joint : c.names[i] = expected[w] <=> i = h
  BY <1>2 DEF Matches
<1>4. (CHOOSE i \in Joint : c.names[i] = expected[w]) = h
  BY <1>3
<1>5. \A i \in Joint :
        (/\ c.names[i] = expected[w]
         /\ \A l \in Joint : c.names[l] = expected[w] => l <= i) <=> i = h
  BY <1>3 DEF Joint
<1>6. (CHOOSE i \in Joint :
         /\ c.names[i] = expected[w]
         /\ \A l \in Joint : c.names[l] = expected[w] => l <= i) = h
  BY <1>5
<1> QED  BY <1>4, <1>6 DEF OrderCpp, OrderPy

\* The node's validator accepts what the canonical one accepts, as long as the
\* names it expects are well-formed, which it does not ask of a command's.
THEOREM SameValidators ==
  ASSUME NEW c \in Command, NEW expected \in Names,
         NEW context, \A i \in Joint : expected[i] \in WellFormed
  PROVE  AcceptsCanonical(c, expected, context)
           <=> AcceptsNode(c, expected, context)
<1>1. ASSUME NamesAgree(c, expected), NEW i \in Joint
      PROVE  c.names[i] \in WellFormed
  <2>1. PICK j \in Joint : expected[j] = c.names[i]
    BY <1>1 DEF NamesAgree, NamesOf
  <2> QED  BY <2>1
<1> QED  BY <1>1 DEF AcceptsCanonical, AcceptsNode, ReordersPy

-----------------------------------------------------------------------------
(* The mapping file *)

\* The ids of a file that loads: as many as joints, and no two the same.
LEMMA IdsInjective ==
  ASSUME NEW f \in File, Loads(f)
  PROVE  /\ DOMAIN f.joints = 1 .. Dof
         /\ \A k \in 1 .. Dof : f.joints[k].id \in Joint
         /\ \A k, l \in 1 .. Dof : f.joints[k].id = f.joints[l].id => k = l
<1>1. f.joints \in Seq(Item) /\ Len(f.joints) = Dof
  BY DEF File, Loads, HeaderLoads
<1>2. DOMAIN f.joints = 1 .. Dof
  BY <1>1, LenProperties
<1>3. ASSUME NEW k \in 1 .. Dof, NEW l \in 1 .. Dof, l < k
      PROVE  f.joints[l].id # f.joints[k].id
  <2>1. RecordLoads(f, k) /\ l \in 1 .. k - 1
    BY <1>2, <1>3 DEF Loads
  <2> QED  BY <2>1 DEF RecordLoads
<1>4. \A k \in 1 .. Dof : f.joints[k].id \in Joint
  BY <1>2 DEF Loads, RecordLoads
<1>5. \A k, l \in 1 .. Dof : k = l \/ k < l \/ l < k
  OBVIOUS
<1> QED  BY <1>2, <1>3, <1>4, <1>5

\* loadJointTable's last loop, for an id that is missing, finds none: with no
\* id twice in kCanonicalDof joints there is every id (JointTable.cpp:386-440).
THEOREM NoIdMissing ==
  ASSUME NEW f \in File, Loads(f)
  PROVE  Ids(f) = Joint
<1> DEFINE g == [k \in 1 .. Dof |-> f.joints[k].id]
<1>1. g \in Injection(1 .. Dof, Joint)
  BY IdsInjective DEF Injection, IsInjective
<1>2. IsFiniteSet(1 .. Dof) /\ Cardinality(1 .. Dof) = Dof
  <2>1. /\ IsFiniteSet(1 .. Dof)
        /\ Cardinality(1 .. Dof) = IF 1 > Dof THEN 0 ELSE Dof - 1 + 1
    BY FS_Interval, 1 \in Int, Dof \in Int
  <2> QED  BY <2>1
<1> HIDE DEF g
<1>3. g \in Surjection(1 .. Dof, Joint)
  BY <1>1, <1>2, Joints, FS_Injection
<1>4. \A i \in Joint : \E k \in 1 .. Dof : g[k] = i
  BY <1>3 DEF Surjection
<1> QED  BY <1>4, IdsInjective DEF g, Ids

\* Of the files C++ loads Python refuses those in which two joints have one
\* mujoco_joint, and only those (JointTable.cpp:335-443,
\* s6_mujoco_bridge.py:21-29).
THEOREM OneReaderIsStricter ==
  ASSUME NEW f \in File, Loads(f)
  PROVE  OrderLoads(f) <=>
           Cardinality({f.joints[k].urdf : k \in DOMAIN f.joints}) = Dof
BY NoIdMissing DEF Loads, HeaderLoads, OrderLoads

\* Both readers mean the same joint by an id: C++ by the only one that has it,
\* Python by the last.
THEOREM SameJoints ==
  ASSUME NEW f \in File, Loads(f), NEW i \in Joint
  PROVE  Table(f)[i].urdf = Order(f)[i]
<1>1. f.joints \in Seq(Item) /\ Len(f.joints) = Dof
  BY DEF File, Loads, HeaderLoads
<1>2. i \in Ids(f)
  BY NoIdMissing
<1>3. PICK k \in 1 .. Dof : f.joints[k].id = i
  BY <1>2, IdsInjective DEF Ids
<1>4. \A l \in DOMAIN f.joints : f.joints[l].id = i <=> l = k
  BY <1>3, IdsInjective
<1>5. (CHOOSE l \in DOMAIN f.joints : f.joints[l].id = i) = k
  BY <1>3, <1>4, IdsInjective
<1>6. \A later \in k + 1 .. Len(f.joints) : f.joints[later].id # i
  BY <1>1, <1>3, <1>4, IdsInjective
<1>7. (CHOOSE l \in DOMAIN f.joints :
         /\ f.joints[l].id = i
         /\ \A later \in l + 1 .. Len(f.joints) : f.joints[later].id # i) = k
  BY <1>3, <1>4, <1>6, IdsInjective
<1>8. Table(f)[i] = f.joints[k]
  BY <1>5 DEF Table
<1>9. Order(f)[i] = f.joints[k].urdf
  BY <1>7 DEF Order
<1> QED  BY <1>8, <1>9

-----------------------------------------------------------------------------
(* The process *)

Steps == [kind : {"STEP"}, time : 0 .. MaxTime, parses : BOOLEAN,
          inside : BOOLEAN]
Words == [kind : {"READY", "OK", "STOP", "BYE", "EOF"}, commands : Commands]
Answers == [kind : {"READY", "OK", "STOP", "BYE", "EOF", "REFUSED"},
            commands : Commands, time : Times]

Typed ==
  /\ TypeOK
  /\ file \in File
  /\ answers \in Seq(Answers)
  /\ stdin \in Seq(Steps \cup {Quit}) /\ stdout \in Seq(Words)

\* The file was accepted before the bridge says READY.
FileInv == process = "ready" => Loads(file)

\* There is one line at most in the pipes, and what it is follows from where
\* the client stands.
PipeInv ==
  /\ Len(stdin) + Len(stdout) <= 1
  /\ process \in {"none", "loading"} =>
       stdin = << >> /\ stdout = << >> /\ answers = << >>
  /\ client = "start" => process = "none"
  /\ process = "none" => client \in {"start", "closed"}
  /\ client = "closed" => process \in {"none", "exited"}
  /\ client = "handshake" => stdin = << >> /\ stdout \in {<< >>, <<Ready>>}
  /\ client = "handshake" /\ process = "ready" => stdout = <<Ready>>
  /\ client = "close" => process = "exited"
  /\ client \in {"idle", "quit"} =>
       /\ process \in {"ready", "exited"} /\ stdout = << >>
       /\ process = "ready" => stdin = << >>
  /\ client = "asking" =>
       /\ process \in {"ready", "exited"}
       /\ Len(answers) < Calls /\ asked \in 0 .. MaxTime
       /\ stdin # << >> => Head(stdin) \in Steps /\ Head(stdin).time = asked
       /\ stdout # << >> => Head(stdout).kind \in {"OK", "STOP"}
       /\ process = "ready" => stdin # << >> \/ stdout # << >>
  /\ stdout # << >> /\ Head(stdout).kind = "STOP" => failed

\* While the bridge has not failed every call so far has succeeded or been
\* refused; an OK on its way is of the last step taken up, and is for the call
\* under way.
OkWaits == stdout # << >> /\ Head(stdout).kind = "OK"
LatchInv ==
  /\ \A i \in DOMAIN answers : IsOk(i) => answers[i].time <= last_time
  /\ ~failed /\ process = "ready" =>
       \A i \in DOMAIN answers : IsRefused(i) \/ IsOk(i)
  /\ client = "asking" /\ OkWaits =>
       /\ asked = last_time
       /\ Head(stdout).commands = [j \in Joint |-> last_time]
       /\ \A i \in DOMAIN answers :
            ~IsRefused(i) => IsOk(i) /\ answers[i].time < last_time

IInv == Typed /\ FileInv /\ PipeInv /\ LatchInv /\ StepsAreWhole

-----------------------------------------------------------------------------
(* Lines in a pipe *)

LEMMA Lines ==
  ASSUME NEW S, NEW s \in Seq(S)
  PROVE  /\ Len(s) \in Nat /\ (Len(s) = 0 <=> s = << >>)
         /\ s # << >> =>
              /\ Head(s) \in S /\ Tail(s) \in Seq(S)
              /\ Len(Tail(s)) = Len(s) - 1
BY EmptySeq, HeadTailProperties, LenProperties

LEMMA OneLine ==
  ASSUME NEW S, NEW x \in S
  PROVE  /\ Append(<< >>, x) \in Seq(S) /\ Len(Append(<< >>, x)) = 1
         /\ Append(<< >>, x) # << >> /\ Head(Append(<< >>, x)) = x
OBVIOUS

LEMMA Said ==
  /\ \A kind \in {"READY", "OK", "STOP", "BYE", "EOF"} :
       Word(kind) \in Words /\ Word(kind).kind = kind
  /\ \A c \in Commands : Ok(c) \in Words /\ Ok(c).kind = "OK"
                           /\ Ok(c).commands = c
  /\ Ready = Word("READY")
  /\ \A w \in Words, t \in 0 .. MaxTime :
       Returned(w, t) \in Answers /\ Returned(w, t).kind = w.kind
         /\ Returned(w, t).commands = w.commands /\ Returned(w, t).time = t
  /\ Refusal \in Answers /\ Refusal.kind = "REFUSED"
<1>1. /\ [i \in Joint |-> Never] \in Commands
      /\ Never \in Times /\ 0 .. MaxTime \subseteq Times
  BY BridgeAssumption DEF Commands, Times, Never
<1> QED  BY <1>1 DEF Word, Ok, Ready, Returned, Refusal, Words, Answers

LEMMA OneMore ==
  ASSUME NEW S, NEW s \in Seq(S), NEW x \in S
  PROVE  /\ Append(s, x) \in Seq(S)
         /\ DOMAIN s = 1 .. Len(s) /\ Len(s) \in Nat
         /\ Len(Append(s, x)) = Len(s) + 1
         /\ DOMAIN Append(s, x) = 1 .. Len(s) + 1
         /\ \A i \in 1 .. Len(s) : Append(s, x)[i] = s[i]
         /\ Append(s, x)[Len(s) + 1] = x
BY AppendProperties, LenProperties

\* The line that is read is the only one.
LEMMA OnlyLine ==
  ASSUME Typed, PipeInv
  PROVE  /\ stdin # << >> =>
              /\ Head(stdin) \in Steps \cup {Quit} /\ Tail(stdin) = << >>
              /\ stdout = << >>
         /\ stdout # << >> =>
              /\ Head(stdout) \in Words /\ Tail(stdout) = << >>
              /\ stdin = << >>
         /\ Len(stdin) \in Nat /\ Len(stdout) \in Nat
         /\ Rest = << >> /\ Heard \in Words
<1>1. /\ stdin \in Seq(Steps \cup {Quit}) /\ stdout \in Seq(Words)
      /\ Len(stdin) + Len(stdout) <= 1
  BY DEF Typed, PipeInv
<1>2. /\ Len(stdin) \in Nat /\ (Len(stdin) = 0 <=> stdin = << >>)
      /\ stdin # << >> => /\ Head(stdin) \in Steps \cup {Quit}
                          /\ Tail(stdin) \in Seq(Steps \cup {Quit})
                          /\ Len(Tail(stdin)) = Len(stdin) - 1
  BY <1>1, Lines
<1>3. /\ Len(stdout) \in Nat /\ (Len(stdout) = 0 <=> stdout = << >>)
      /\ stdout # << >> => /\ Head(stdout) \in Words
                           /\ Tail(stdout) \in Seq(Words)
                           /\ Len(Tail(stdout)) = Len(stdout) - 1
  BY <1>1, Lines
<1>4. stdin # << >> => Tail(stdin) = << >> /\ stdout = << >>
  <2> SUFFICES ASSUME stdin # << >> PROVE Tail(stdin) = << >> /\ stdout = << >>
    OBVIOUS
  <2>1. Len(Tail(stdin)) = 0 /\ Len(stdout) = 0
    BY <1>1, <1>2, <1>3
  <2> QED  BY <1>2, <1>3, <2>1, Lines
<1>5. stdout # << >> => Tail(stdout) = << >> /\ stdin = << >>
  <2> SUFFICES ASSUME stdout # << >>
               PROVE  Tail(stdout) = << >> /\ stdin = << >>
    OBVIOUS
  <2>1. Len(Tail(stdout)) = 0 /\ Len(stdin) = 0
    BY <1>1, <1>2, <1>3
  <2> QED  BY <1>2, <1>3, <2>1, Lines
<1>6. Rest = << >> /\ Heard \in Words
  BY <1>3, <1>5, Said DEF Rest, Heard
<1> QED  BY <1>2, <1>3, <1>4, <1>5, <1>6

-----------------------------------------------------------------------------
(* The invariant holds at first, and every step keeps it *)

LEMMA Starts == Init => IInv
<1> SUFFICES ASSUME Init PROVE IInv
  OBVIOUS
<1>1. file \in File
  <2>1. file \in Files
    BY DEF Init
  <2>2. Items \subseteq Item
    BY DEF Items, Item
  <2>3. \A n \in Nat : [1 .. n -> Items] \subseteq Seq(Item)
    BY <2>2
  <2>4. CASE file \in [readable : {TRUE}, version : {1}, unit : {"radian"},
                       status : {"not_calibrated"},
                       joints : UNION {[1 .. m -> Items] :
                                         m \in Dof - 1 .. Dof}]
    <3>1. PICK n \in Dof - 1 .. Dof : file.joints \in [1 .. n -> Items]
      BY <2>4
    <3>2. file.joints \in Seq(Item)
      BY <2>3, <3>1
    <3> DEFINE J == UNION {[1 .. m -> Items] : m \in Dof - 1 .. Dof}
    <3>3. file \in [readable : {TRUE}, version : {1}, unit : {"radian"},
                   status : {"not_calibrated"}, joints : J]
      BY <2>4
    <3> HIDE DEF J
    <3>4. {TRUE} \subseteq BOOLEAN /\ {1} \subseteq Nat
      OBVIOUS
    <3>5. file \in [readable : BOOLEAN, version : Nat, unit : {"radian"},
                   status : {"not_calibrated"}, joints : J]
      BY <3>3, <3>4, Zenon
    <3> QED  BY <3>2, <3>5 DEF File
  <2>5. CASE file \in [readable : BOOLEAN, version : {0, 1},
                       unit : {"radian", "other"},
                       status : {"calibrated", "other"},
                       joints : [1 .. Dof ->
                                   {i \in Items : i.named /\ i.proper}]]
    <3>1. file.joints \in [1 .. Dof -> Items]
      BY <2>5
    <3>2. file.joints \in Seq(Item)
      BY <2>3, <3>1
    <3> QED  BY <2>5, <3>2 DEF File
  <2> QED  BY <2>1, <2>4, <2>5 DEF Files
<1>2. [i \in Joint |-> Never] \in Commands /\ Never \in Times
  BY BridgeAssumption DEF Commands, Times, Never
<1>3. TypeOK
  <2>1. Calls \in Nat /\ Len(<< >>) = 0
    BY BridgeAssumption
  <2>2. hung \in BOOLEAN /\ failed \in BOOLEAN
    BY Zenon DEF Init
  <2>3. /\ Len(answers) <= Calls /\ Len(stdin) <= 1 /\ Len(stdout) <= 1
    BY <2>1 DEF Init
  <2>4. /\ client = "start" /\ asked \in Times /\ process = "none"
        /\ last_time \in Times /\ command \in Commands
    BY <1>2 DEF Init
  <2> QED  BY <2>2, <2>3, <2>4 DEF TypeOK
<1>4. Typed
  BY <1>1, <1>3 DEF Init, Typed
<1>5. FileInv /\ PipeInv
  BY DEF Init, FileInv, PipeInv
<1>6. LatchInv /\ StepsAreWhole
  BY DEF Init, LatchInv, OkWaits, StepsAreWhole
<1> QED  BY <1>4, <1>5, <1>6 DEF IInv

LEMMA PipeKept ==
  ASSUME Typed, PipeInv, [Next]_vars
  PROVE  PipeInv'
<1> USE DEF Exited
<1>1. CASE Start
  BY <1>1 DEF PipeInv, Start, pipes
<1>2. CASE Handshake
  <2>1. stdout' = << >> /\ stdin = << >>
    BY <1>2, OnlyLine DEF PipeInv, Handshake
  <2>2. process \in {"ready", "exited"}
    BY <1>2 DEF PipeInv, Handshake, Hears, Typed, TypeOK
  <2>3. client' = IF Heard = Ready THEN "idle" ELSE "close"
    BY <1>2 DEF Handshake
  <2>4. Heard # Ready => process = "exited"
    BY <1>2, Said DEF PipeInv, Handshake, Hears, Heard
  <2> QED  BY <1>2, <2>1, <2>2, <2>3, <2>4
           DEF PipeInv, Handshake, given, bridge, core
<1>3. ASSUME NEW t \in 0 .. MaxTime, NEW parses \in BOOLEAN,
             NEW inside \in BOOLEAN, Ask(StepLine(t, parses, inside))
      PROVE  PipeInv'
  <2> DEFINE line == StepLine(t, parses, inside)
  <2>1. line \in Steps /\ line.time = t
    BY DEF StepLine, Steps
  <2>2. /\ stdout = << >> /\ process \in {"ready", "exited"}
        /\ process = "ready" => stdin = << >>
    BY <1>3 DEF PipeInv, Ask
  <2>3. CASE process = "exited"
    BY <1>3, <2>2, <2>3 DEF PipeInv, Ask, given, bridge, core
  <2>4. CASE process = "ready"
    <3>1. /\ Append(<< >>, line) # << >>
          /\ Len(Append(<< >>, line)) = 1 /\ Head(Append(<< >>, line)) = line
      BY <2>1, OneLine
    <3>2. stdin' = Append(<< >>, line) /\ asked' = t
      BY <1>3, <2>1, <2>2, <2>4 DEF Ask
    <3> QED  BY <1>3, <2>1, <2>2, <2>4, <3>1, <3>2
             DEF PipeInv, Ask, given, bridge, core
  <2> QED  BY <2>2, <2>3, <2>4
<1>4. CASE Answered
  <2>1. stdout' = << >> /\ process \in {"ready", "exited"}
    BY <1>4, OnlyLine DEF PipeInv, Answered
  <2>2. process = "ready" => stdin = << >>
    BY <1>4, OnlyLine DEF PipeInv, Answered, Hears
  <2> QED  BY <1>4, <2>1, <2>2, OnlyLine
           DEF PipeInv, Answered, given, bridge, core
<1>5. CASE Close
  BY <1>5 DEF PipeInv, Close, given, pipes, bridge, core
<1>6. CASE SendQuit
  <2>1. /\ Append(<< >>, Quit) # << >> /\ Len(Append(<< >>, Quit)) = 1
    BY OneLine
  <2> QED  BY <1>6, <2>1 DEF PipeInv, SendQuit, given, bridge, core
<1>7. CASE Drain
  BY <1>7 DEF PipeInv, Drain, given, pipes, core
<1>8. CASE ClientDies
  BY <1>8 DEF PipeInv, ClientDies, given, pipes, bridge, core
<1>9. CASE Load
  <2>1. Append(<< >>, Ready) = <<Ready>> /\ <<Ready>> # << >>
          /\ Len(<<Ready>>) = 1 /\ Head(<<Ready>>).kind = "READY"
    BY Said
  <2>2. stdin = << >> /\ stdout = << >> /\ answers = << >>
    BY <1>9 DEF PipeInv, Load
  <2>3. Len(<< >>) = 0
    OBVIOUS
  <2>4. CASE process' = "exited"
    BY <1>9, <2>2, <2>3, <2>4 DEF PipeInv, Load, caller, core
  <2>5. CASE process' = "ready"
    <3>1. stdout' = <<Ready>>
      BY <1>9, <2>1, <2>2, <2>5 DEF Load, Says
    <3>2. client \notin {"idle", "quit", "asking", "close", "closed", "start"}
      BY <1>9 DEF PipeInv, Load
    <3> QED  BY <1>9, <2>1, <2>2, <2>3, <2>5, <3>1, <3>2
             DEF PipeInv, Load, caller, core
  <2> QED  BY <1>9, <2>4, <2>5 DEF Load
<1>10. ASSUME NEW n \in 0 .. Dof, ServeStep(n) PROVE PipeInv'
  <2> DEFINE line == Head(stdin)
             word == IF Succeeds(line, n) THEN Ok(command')
                                          ELSE Word("STOP")
  <2>1. stdout = << >> /\ stdin' = << >> /\ process = "ready"
    BY <1>10, OnlyLine DEF ServeStep
  <2>2. word.kind \in {"OK", "STOP"}
    BY DEF Ok, Word
  <2>3. word.kind = "STOP" => failed'
    BY <1>10 DEF ServeStep, Ok, Word
  <2>4. stdout' = Append(<< >>, word)
    BY <1>10, <2>1 DEF ServeStep, Says
  <2> HIDE DEF word
  <2>5. stdout' # << >> /\ Len(stdout') = 1 /\ Head(stdout') = word
    BY <2>4, OneLine
  <2> QED  BY <1>10, <2>1, <2>2, <2>3, <2>5
           DEF PipeInv, ServeStep, given, caller
<1>11. CASE ServeQuit
  <2>1. stdout = << >> /\ stdin' = << >>
    BY <1>11, OnlyLine DEF ServeQuit
  <2>2. Quit \notin Steps
    BY DEF Quit, Steps
  <2>3. /\ client \notin {"asking", "handshake", "idle", "quit", "close"}
        /\ client \notin {"start"} /\ process = "ready"
    BY <1>11, <2>2 DEF PipeInv, ServeQuit
  <2>4. stdout' = Append(<< >>, Word("BYE"))
    BY <1>11, <2>1 DEF ServeQuit, Says
  <2>5. stdout' # << >> /\ Len(stdout') = 1 /\ Head(stdout') = Word("BYE")
    BY <2>4, OneLine
  <2> QED  BY <1>11, <2>1, <2>3, <2>5, Said
           DEF PipeInv, ServeQuit, given, caller
<1>12. CASE ServeEnd
  BY <1>12 DEF PipeInv, ServeEnd, given, pipes, caller
<1>13. CASE Hang
  BY <1>13 DEF PipeInv, Hang, given, pipes, caller, core
<1>14. CASE Crash
  BY <1>14 DEF PipeInv, Crash, given, pipes, caller, core
<1>15. CASE AskRefused
  BY <1>15 DEF PipeInv, AskRefused, given, pipes, bridge, core
<1>16. CASE UNCHANGED vars
  BY <1>16 DEF PipeInv, vars, given, pipes, caller, bridge, core
<1> QED  BY <1>1, <1>2, <1>3, <1>4, <1>5, <1>6, <1>7, <1>8, <1>9, <1>10,
            <1>11, <1>12, <1>13, <1>14, <1>15, <1>16 DEF Next, Client, Bridge

\* What a step commands, and when it is taken up at all.
LEMMA Served ==
  ASSUME Typed, PipeInv, NEW n \in 0 .. Dof, ServeStep(n)
  PROVE  /\ Head(stdin) \in Steps /\ stdin' = << >>
         /\ last_time' \in Times /\ last_time <= last_time'
         /\ command' \in Commands
         /\ \/ /\ failed' /\ stdout' = Append(<< >>, Word("STOP"))
            \/ /\ ~failed' /\ ~failed
               /\ stdout' = Append(<< >>, Ok(command'))
               /\ last_time' = Head(stdin).time /\ last_time < last_time'
               /\ command' = [j \in Joint |-> last_time']
<1> DEFINE line == Head(stdin)
<1>1. line \in Steps /\ stdin' = << >> /\ stdout = << >>
  <2>1. Quit.kind # "STEP"
    BY DEF Quit
  <2> QED  BY <2>1, OnlyLine DEF ServeStep
<1>2. last_time \in Times /\ command \in Commands
  BY DEF Typed, TypeOK
<1>3. line.time \in Times /\ line.time \in 0 .. MaxTime /\ line.time \in Int
  BY <1>1, BridgeAssumption DEF Steps, Times, Never
<1>4. last_time \in Int
  BY <1>2, BridgeAssumption DEF Times, Never
<1>5. Sent(line, n) \in Commands
  BY <1>2, <1>3 DEF Sent, Commands
<1>6. n = Dof => Sent(line, n) = [j \in Joint |-> line.time]
  BY DEF Sent, Joint
<1>7. failed' <=> ~Succeeds(line, n)
  BY DEF ServeStep
<1>8. CASE line.parses /\ Timely(line)
  <2>1. last_time' = line.time /\ last_time < line.time /\ ~failed
    BY <1>3, <1>4, <1>8 DEF ServeStep, Timely
  <2>2. command' = IF Planned(line) THEN Sent(line, n) ELSE command
    BY <1>8 DEF ServeStep
  <2>3. command' \in Commands
    BY <1>2, <1>5, <2>2
  <2>4. CASE Succeeds(line, n)
    <3>1. n = Dof /\ Planned(line)
      BY <2>4 DEF Succeeds
    <3>2. stdout' = Append(<< >>, Ok(command'))
      BY <1>1, <2>4 DEF ServeStep, Says
    <3> QED  BY <1>1, <1>3, <1>4, <1>6, <1>7, <2>1, <2>2, <2>3, <2>4, <3>1, <3>2
  <2>5. CASE ~Succeeds(line, n)
    <3>1. stdout' = Append(<< >>, Word("STOP"))
      BY <1>1, <2>5 DEF ServeStep, Says
    <3> QED  BY <1>1, <1>3, <1>4, <1>7, <2>1, <2>3, <2>5, <3>1
  <2> QED  BY <2>4, <2>5
<1>9. CASE ~(line.parses /\ Timely(line))
  <2>1. last_time' = last_time /\ command' = command
    BY <1>9 DEF ServeStep
  <2>2. ~Succeeds(line, n)
    BY <1>9 DEF Succeeds
  <2>3. stdout' = Append(<< >>, Word("STOP"))
    BY <1>1, <2>2 DEF ServeStep, Says
  <2> QED  BY <1>1, <1>2, <1>4, <1>7, <2>1, <2>2, <2>3
<1> QED  BY <1>8, <1>9

LEMMA TypedKept ==
  ASSUME Typed, PipeInv, PipeInv', [Next]_vars
  PROVE  Typed'
<1>1. /\ MaxTime \in Nat /\ Calls \in Nat /\ Len(answers) \in Nat
      /\ 0 .. MaxTime \subseteq Times
  BY BridgeAssumption, Lines DEF Typed, Times, Never
<1>2. CASE Start
  BY <1>2 DEF Typed, TypeOK, Start, given, pipes, core
<1>3. CASE Handshake
  <2>1. stdout' \in Seq(Words) /\ Len(stdout') <= 1
    BY <1>3, OnlyLine DEF Handshake
  <2> QED  BY <1>3, <2>1 DEF Typed, TypeOK, Handshake, given, bridge, core
<1>4. ASSUME NEW t \in 0 .. MaxTime, NEW parses \in BOOLEAN,
             NEW inside \in BOOLEAN, Ask(StepLine(t, parses, inside))
      PROVE  Typed'
  <2> DEFINE line == StepLine(t, parses, inside)
  <2>1. line \in Steps /\ line.time = t /\ line.time \in 0 .. MaxTime
    BY DEF StepLine, Steps
  <2> HIDE DEF line
  <2>2. CASE Exited
    <3>1. Returned(Word("EOF"), line.time) \in Answers
      BY <2>1, Said
    <3>2. answers' = Append(answers, Returned(Word("EOF"), line.time))
      BY <1>4, <2>2 DEF Ask, line
    <3>3. answers' \in Seq(Answers) /\ Len(answers') = Len(answers) + 1
      BY <3>1, <3>2, OneMore DEF Typed
    <3>4. Len(answers') <= Calls
      BY <1>1, <1>4, <3>3 DEF Ask
    <3> QED  BY <1>4, <2>2, <3>3, <3>4
             DEF Typed, TypeOK, Ask, given, bridge, core
  <2>3. CASE ~Exited
    <3>1. stdin = << >>
      BY <1>4, <2>3 DEF PipeInv, Ask, Exited
    <3>2. stdin' = Append(<< >>, line) /\ asked' = t
      BY <1>4, <2>1, <2>3, <3>1 DEF Ask, line
    <3>3. stdin' \in Seq(Steps \cup {Quit}) /\ Len(stdin') = 1
      BY <2>1, <3>2, OneLine
    <3> QED  BY <1>1, <1>4, <2>3, <3>2, <3>3
             DEF Typed, TypeOK, Ask, given, bridge, core
  <2> QED  BY <2>2, <2>3
<1>5. CASE Answered
  <2>1. asked \in 0 .. MaxTime
    BY <1>5 DEF PipeInv, Answered
  <2>2. stdout' \in Seq(Words) /\ Len(stdout') <= 1
    BY <1>5, OnlyLine DEF Answered
  <2>3. Returned(Heard, asked) \in Answers
    BY <2>1, OnlyLine, Said
  <2>4. answers' \in Seq(Answers) /\ Len(answers') = Len(answers) + 1
    BY <1>5, <2>3, OneMore DEF Answered, Typed
  <2>5. Len(answers') <= Calls
    <3>1. Len(answers) < Calls
      BY <1>5 DEF PipeInv, Answered
    <3> QED  BY <1>1, <2>4, <3>1
  <2> QED  BY <1>5, <2>2, <2>4, <2>5
           DEF Typed, TypeOK, Answered, given, bridge, core
<1>6. CASE Close
  BY <1>6 DEF Typed, TypeOK, Close, given, pipes, bridge, core
<1>7. CASE SendQuit
  <2>1. CASE Exited
    BY <1>7, <2>1 DEF Typed, TypeOK, SendQuit, given, bridge, core
  <2>2. CASE ~Exited
    <3>1. stdin' = Append(<< >>, Quit)
      BY <1>7, <2>2 DEF PipeInv, SendQuit, Exited
    <3>2. stdin' \in Seq(Steps \cup {Quit}) /\ Len(stdin') = 1
      BY <3>1, OneLine
    <3> QED  BY <1>7, <2>2, <3>2
             DEF Typed, TypeOK, SendQuit, given, bridge, core
  <2> QED  BY <2>1, <2>2
<1>8. CASE Drain
  BY <1>8 DEF Typed, TypeOK, Drain, given, pipes, core
<1>9. CASE ClientDies
  BY <1>9 DEF Typed, TypeOK, ClientDies, given, pipes, bridge, core
<1>10. CASE Load
  <2>1. stdout' = stdout \/ stdout' = Append(<< >>, Ready)
    BY <1>10 DEF PipeInv, Load, Says
  <2>2. CASE stdout' = stdout
    BY <1>10, <2>2 DEF Typed, TypeOK, Load, given, caller, core
  <2>3. CASE stdout' = Append(<< >>, Ready)
    <3>1. Ready \in Words
      BY Said
    <3>2. stdout' \in Seq(Words) /\ Len(stdout') <= 1
      BY <2>3, <3>1, OneLine
    <3> QED  BY <1>10, <3>2 DEF Typed, TypeOK, Load, given, caller, core
  <2> QED  BY <2>1, <2>2, <2>3
<1>11. ASSUME NEW n \in 0 .. Dof, ServeStep(n) PROVE Typed'
  <2>0. stdin' = << >>
    BY <1>11, Served
  <2>1. stdin' \in Seq(Steps \cup {Quit}) /\ Len(stdin') <= 1
    BY <2>0
  <2>2. last_time' \in Times /\ command' \in Commands
    BY <1>11, Served
  <2>3. failed' \in BOOLEAN
    BY <1>11 DEF ServeStep
  <2>4. PICK w \in Words : stdout' = Append(<< >>, w)
    <3>1. Word("STOP") \in Words /\ Ok(command') \in Words
      BY <2>2, Said
    <3>2. \/ stdout' = Append(<< >>, Word("STOP"))
          \/ stdout' = Append(<< >>, Ok(command'))
      BY <1>11, Served
    <3> QED  BY <3>1, <3>2
  <2>5. stdout' \in Seq(Words) /\ Len(stdout') <= 1
    BY <2>4, OneLine
  <2> QED  BY <1>11, <2>1, <2>2, <2>3, <2>5
           DEF Typed, TypeOK, ServeStep, given, caller
<1>12. CASE ServeQuit
  <2>0. stdin' = << >> /\ stdout = << >>
    BY <1>12, OnlyLine DEF ServeQuit
  <2>1. stdin' \in Seq(Steps \cup {Quit}) /\ Len(stdin') <= 1
    BY <2>0
  <2>2. stdout' = Append(<< >>, Word("BYE"))
    BY <1>12, <2>0 DEF ServeQuit, Says
  <2>3. stdout' \in Seq(Words) /\ Len(stdout') <= 1
    BY <2>2, OneLine, Said
  <2> QED  BY <1>12, <2>1, <2>3 DEF Typed, TypeOK, ServeQuit, given, caller
<1>13. CASE ServeEnd
  BY <1>13 DEF Typed, TypeOK, ServeEnd, given, pipes, caller
<1>14. CASE Hang
  BY <1>14 DEF Typed, TypeOK, Hang, given, pipes, caller, core
<1>15. CASE Crash
  BY <1>15 DEF Typed, TypeOK, Crash, given, pipes, caller, core
<1>16. CASE AskRefused
  <2>1. answers' = Append(answers, Refusal)
    BY <1>16 DEF AskRefused
  <2>2. answers' \in Seq(Answers) /\ Len(answers') = Len(answers) + 1
    BY <2>1, OneMore, Said DEF Typed
  <2>3. Len(answers') <= Calls
    BY <1>1, <1>16, <2>2 DEF AskRefused
  <2> QED  BY <1>16, <2>2, <2>3
           DEF Typed, TypeOK, AskRefused, given, pipes, bridge, core
<1>17. CASE UNCHANGED vars
  BY <1>17 DEF Typed, TypeOK, vars, given, pipes, caller, bridge, core
<1> QED  BY <1>2, <1>3, <1>4, <1>5, <1>6, <1>7, <1>8, <1>9, <1>10, <1>11,
            <1>12, <1>13, <1>14, <1>15, <1>16, <1>17 DEF Next, Client, Bridge

LEMMA FileKept ==
  ASSUME FileInv, [Next]_vars
  PROVE  FileInv'
<1>1. file' = file
  BY DEF Next, Client, Bridge, vars, given, Start, Handshake, Ask, Answered,
         AskRefused, Close, SendQuit, Drain, ClientDies, Load, ServeStep,
         ServeQuit, ServeEnd, Hang, Crash
<1>2. process' = "ready" => process = "ready" \/ Loads(file)
  BY DEF Next, Client, Bridge, vars, bridge, Start, Handshake, Ask, Answered,
         AskRefused, Close, SendQuit, Drain, ClientDies, Load, ServeStep,
         ServeQuit, ServeEnd, Hang, Crash
<1> QED  BY <1>1, <1>2 DEF FileInv

\* Of a step that answers nobody.
LEMMA LatchUntouched ==
  ASSUME LatchInv, StepsAreWhole,
         answers' = answers, asked' = asked, last_time' = last_time,
         failed \in BOOLEAN, failed' \in BOOLEAN, ~failed' => ~failed,
         process' = "ready" => process = "ready",
         stdout' = stdout, client' = "asking" => client = "asking"
  PROVE  LatchInv' /\ StepsAreWhole'
BY DEF LatchInv, StepsAreWhole, OkWaits, IsOk, IsRefused

LEMMA Prefix ==
  ASSUME StepsAreWhole, DOMAIN answers = 1 .. Len(answers),
         Len(answers) \in Nat,
         NEW more, \A i \in 1 .. Len(answers) : more[i] = answers[i],
         NEW i \in DOMAIN answers, more[i].kind = "OK"
  PROVE  /\ more[i].commands = [j \in Joint |-> more[i].time]
         /\ \A k \in 1 .. i - 1 :
              more[k].kind # "REFUSED" =>
                more[k].kind = "OK" /\ more[k].time < more[i].time
<1>1. IsOk(i) /\ more[i] = answers[i]
  BY DEF IsOk, IsRefused
<1>2. \A k \in 1 .. i - 1 : more[k] = answers[k] /\ k \in DOMAIN answers
  OBVIOUS
<1> QED  BY <1>1, <1>2 DEF StepsAreWhole, IsOk, IsRefused

\* Of an answer that is not an OK.
LEMMA StillWhole ==
  ASSUME StepsAreWhole, DOMAIN answers = 1 .. Len(answers),
         Len(answers) \in Nat,
         \A i \in 1 .. Len(answers) : answers'[i] = answers[i],
         \A i \in DOMAIN answers' :
           answers'[i].kind = "OK" => i \in DOMAIN answers
  PROVE  StepsAreWhole'
<1> SUFFICES ASSUME NEW i \in DOMAIN answers', answers'[i].kind = "OK"
             PROVE  /\ answers'[i].commands = [j \in Joint |-> answers'[i].time]
                    /\ \A k \in 1 .. i - 1 :
                         answers'[k].kind # "REFUSED" =>
                           /\ answers'[k].kind = "OK"
                           /\ answers'[k].time < answers'[i].time
  BY DEF StepsAreWhole, IsOk, IsRefused
<1>1. i \in DOMAIN answers
  OBVIOUS
<1> QED  BY <1>1, Prefix

LEMMA LatchKept ==
  ASSUME Typed, PipeInv, LatchInv, StepsAreWhole, [Next]_vars
  PROVE  LatchInv' /\ StepsAreWhole'
<1>1. /\ answers \in Seq(Answers) /\ Len(answers) \in Nat
      /\ DOMAIN answers = 1 .. Len(answers)
      /\ last_time \in Int /\ failed \in BOOLEAN
      /\ \A i \in DOMAIN answers : answers[i].time \in Int
  <2>1. /\ answers \in Seq(Answers) /\ Len(answers) \in Nat
        /\ DOMAIN answers = 1 .. Len(answers)
    BY LenProperties DEF Typed
  <2>2. \A i \in DOMAIN answers : answers[i] \in Answers
    BY <2>1, ElementOfSeq
  <2>3. last_time \in Int
    BY BridgeAssumption DEF Typed, TypeOK, Times, Never
  <2>4. failed \in BOOLEAN
    BY DEF Typed, TypeOK
  <2>5. Times \subseteq Int
    BY BridgeAssumption DEF Times, Never
  <2>6. \A i \in DOMAIN answers : answers[i].time \in Int
    BY <2>2, <2>5 DEF Answers
  <2> QED  BY <2>1, <2>3, <2>4, <2>6
<1>2. CASE Start
  BY <1>1, <1>2, LatchUntouched DEF Start, pipes, core
<1>3. CASE Handshake
  <2>1. stdout' = << >> /\ client' # "asking"
    BY <1>3, OnlyLine DEF Handshake
  <2> QED  BY <1>3, <2>1
           DEF Handshake, bridge, core, LatchInv, StepsAreWhole, OkWaits,
               IsOk, IsRefused
<1>4. ASSUME NEW t \in 0 .. MaxTime, NEW parses \in BOOLEAN,
             NEW inside \in BOOLEAN, Ask(StepLine(t, parses, inside))
      PROVE  LatchInv' /\ StepsAreWhole'
  <2> DEFINE line == StepLine(t, parses, inside)
  <2>1. stdout = << >> /\ client = "idle"
    BY <1>4 DEF PipeInv, Ask
  <2>2. CASE Exited
    <3>1. line \in Steps /\ line.time \in 0 .. MaxTime
      BY DEF StepLine, Steps
    <3> DEFINE r == Returned(Word("EOF"), line.time)
    <3>2. r \in Answers /\ r.kind # "OK"
      BY <3>1, Said
    <3> HIDE DEF r, line
    <3>3. answers' = Append(answers, r)
      BY <1>4, <2>2 DEF Ask, line, r
    <3>4. /\ DOMAIN answers' = 1 .. Len(answers) + 1
          /\ \A i \in 1 .. Len(answers) : answers'[i] = answers[i]
          /\ answers'[Len(answers) + 1] = r
      BY <1>1, <3>2, <3>3, OneMore
    <3>5. /\ client' = "idle" /\ process' = "exited"
          /\ last_time' = last_time /\ failed' = failed
      BY <1>4, <2>1, <2>2 DEF Ask, bridge, core, Exited
    <3>6. \A i \in DOMAIN answers' : answers'[i].kind = "OK" =>
            i \in DOMAIN answers
      BY <1>1, <3>2, <3>4
    <3>7. LatchInv'
      BY <1>1, <3>4, <3>5, <3>6 DEF LatchInv, IsOk, IsRefused
    <3> QED  BY <1>1, <3>4, <3>6, <3>7, StillWhole
  <2>3. CASE ~Exited
    <3>1. stdout' = << >> /\ answers' = answers
      BY <1>4, <2>1, <2>3 DEF Ask
    <3> QED  BY <1>4, <2>1, <3>1
             DEF Ask, bridge, core, LatchInv, StepsAreWhole, OkWaits,
               IsOk, IsRefused
  <2> QED  BY <2>2, <2>3
<1>5. CASE Answered
  <2> DEFINE r == Returned(Heard, asked)
  <2>1. /\ asked \in 0 .. MaxTime
        /\ process \in {"ready", "exited"} /\ client = "asking"
    BY <1>5 DEF PipeInv, Answered
  <2>2. /\ r \in Answers /\ r.kind = Heard.kind
        /\ r.commands = Heard.commands /\ r.time = asked
    BY <2>1, OnlyLine, Said
  <2>3. Heard.kind = "OK" => OkWaits /\ Heard = Head(stdout)
    BY Said DEF Heard, OkWaits
  <2> HIDE DEF r
  <2>4. answers' = Append(answers, r)
    BY <1>5 DEF Answered, r
  <2>5. /\ DOMAIN answers' = 1 .. Len(answers) + 1
        /\ \A i \in 1 .. Len(answers) : answers'[i] = answers[i]
        /\ answers'[Len(answers) + 1] = r
    BY <1>1, <2>2, <2>4, OneMore
  <2>6. /\ client' = "idle" /\ process' = process
        /\ last_time' = last_time /\ failed' = failed
    BY <1>5 DEF Answered, bridge, core
  <2>7. r.kind = "OK" =>
          /\ r.time = last_time
          /\ r.commands = [j \in Joint |-> r.time]
          /\ \A i \in DOMAIN answers :
               ~IsRefused(i) => IsOk(i) /\ answers[i].time < last_time
    BY <2>1, <2>2, <2>3 DEF LatchInv
  <2>8. ~failed /\ process = "ready" => r.kind = "OK"
    <3> SUFFICES ASSUME ~failed, process = "ready" PROVE r.kind = "OK"
      OBVIOUS
    <3>1. stdout # << >>
      BY <1>5 DEF Answered, Hears, Exited
    <3>2. Head(stdout).kind = "OK"
      BY <2>1, <3>1 DEF PipeInv
    <3> QED  BY <2>2, <3>1, <3>2 DEF Heard
  <2>9. \A i \in 1 .. Len(answers) + 1 :
          i \in DOMAIN answers \/ i = Len(answers) + 1
    BY <1>1
  <2>10. LatchInv'
    <3>1. \A i \in DOMAIN answers' :
            answers'[i].kind = "OK" => answers'[i].time <= last_time
      BY <1>1, <2>5, <2>7, <2>9 DEF LatchInv, IsOk, IsRefused
    <3>2. ~failed /\ process = "ready" =>
            \A i \in DOMAIN answers' :
              answers'[i].kind = "REFUSED" \/ answers'[i].kind = "OK"
      BY <1>1, <2>5, <2>8, <2>9 DEF LatchInv, IsOk, IsRefused
    <3> QED  BY <2>6, <3>1, <3>2 DEF LatchInv, IsOk, IsRefused
  <2>11. StepsAreWhole'
    <3> SUFFICES ASSUME NEW i \in DOMAIN answers', answers'[i].kind = "OK"
                 PROVE  /\ answers'[i].commands =
                             [j \in Joint |-> answers'[i].time]
                        /\ \A k \in 1 .. i - 1 :
                             answers'[k].kind # "REFUSED" =>
                               /\ answers'[k].kind = "OK"
                               /\ answers'[k].time < answers'[i].time
      BY DEF StepsAreWhole, IsOk, IsRefused
    <3>1. CASE i \in DOMAIN answers
      BY <1>1, <2>5, <3>1, Prefix
    <3>2. CASE i = Len(answers) + 1
      BY <1>1, <2>5, <2>7, <3>2 DEF IsOk, IsRefused
    <3> QED  BY <2>5, <2>9, <3>1, <3>2
  <2> QED  BY <2>10, <2>11
<1>6. CASE Close
  BY <1>1, <1>6, LatchUntouched DEF Close, pipes, bridge, core
<1>7. CASE SendQuit
  BY <1>1, <1>7, LatchUntouched DEF SendQuit, bridge, core
<1>8. CASE Drain
  BY <1>1, <1>8, LatchUntouched DEF Drain, pipes, core
<1>9. CASE ClientDies
  BY <1>1, <1>9, LatchUntouched DEF ClientDies, pipes, bridge, core
<1>10. CASE Load
  <2>1. answers = << >> /\ DOMAIN answers = {} /\ client # "asking"
    BY <1>10 DEF PipeInv, Load
  <2> QED  BY <1>10, <2>1
           DEF Load, caller, core, LatchInv, StepsAreWhole, IsOk, IsRefused
<1>11. ASSUME NEW n \in 0 .. Dof, ServeStep(n)
       PROVE  LatchInv' /\ StepsAreWhole'
  <2>1. /\ answers' = answers /\ client' = client /\ asked' = asked
        /\ process' = process /\ process = "ready" /\ stdin # << >>
    BY <1>11 DEF ServeStep, caller
  <2>2. last_time' \in Int /\ last_time <= last_time'
    BY <1>11, Served, BridgeAssumption DEF Times, Never
  <2>3. StepsAreWhole'
    BY <2>1 DEF StepsAreWhole, IsOk, IsRefused
  <2>4. \A i \in DOMAIN answers : IsOk(i) => answers[i].time <= last_time'
    BY <1>1, <2>2 DEF LatchInv
  <2>5. CASE failed' /\ stdout' = Append(<< >>, Word("STOP"))
    <3>1. Head(stdout').kind = "STOP"
      BY <2>5, OneLine, Said
    <3> QED  BY <2>1, <2>3, <2>4, <2>5, <3>1
             DEF LatchInv, OkWaits, IsOk, IsRefused
  <2>6. CASE /\ ~failed' /\ ~failed
             /\ stdout' = Append(<< >>, Ok(command'))
             /\ last_time' = Head(stdin).time /\ last_time < last_time'
             /\ command' = [j \in Joint |-> last_time']
    <3>1. Head(stdout') = Ok(command') /\ command' \in Commands
      BY <1>11, <2>6, OneLine, Served
    <3>2. Head(stdout').commands = command'
      BY <3>1, Said
    <3>3. client = "asking" => asked = last_time'
      BY <2>1, <2>6 DEF PipeInv
    <3>4. \A i \in DOMAIN answers :
            ~IsRefused(i) => IsOk(i) /\ answers[i].time < last_time'
      <4>1. \A i \in DOMAIN answers : ~IsRefused(i) => IsOk(i)
        BY <2>1, <2>6 DEF LatchInv
      <4>2. \A i \in DOMAIN answers :
              ~IsRefused(i) => answers[i].time <= last_time
        BY <4>1 DEF LatchInv
      <4> QED  BY <1>1, <2>2, <2>6, <4>1, <4>2
    <3> QED  BY <2>1, <2>3, <2>4, <2>6, <3>2, <3>3, <3>4
             DEF LatchInv, OkWaits, IsOk, IsRefused
  <2> QED  BY <1>11, <2>5, <2>6, Served
<1>12. CASE ServeQuit
  <2>1. client # "asking"
    <3>1. Quit \notin Steps
      BY DEF Quit, Steps
    <3> QED  BY <1>12, <3>1 DEF ServeQuit, PipeInv
  <2> QED  BY <1>12, <2>1
           DEF ServeQuit, caller, LatchInv, StepsAreWhole, IsOk, IsRefused
<1>13. CASE ServeEnd
  BY <1>1, <1>13, LatchUntouched DEF ServeEnd, pipes, caller
<1>14. CASE Hang
  BY <1>1, <1>14, LatchUntouched DEF Hang, pipes, caller, core
<1>15. CASE Crash
  BY <1>1, <1>15, LatchUntouched DEF Crash, pipes, caller, core
<1>16. CASE AskRefused
  <2>1. Refusal \in Answers /\ Refusal.kind = "REFUSED"
    BY Said
  <2>2. answers' = Append(answers, Refusal)
    BY <1>16 DEF AskRefused
  <2>3. /\ DOMAIN answers' = 1 .. Len(answers) + 1
        /\ \A i \in 1 .. Len(answers) : answers'[i] = answers[i]
        /\ answers'[Len(answers) + 1] = Refusal
    BY <1>1, <2>1, <2>2, OneMore
  <2>4. /\ client' = "idle" /\ process' = process
        /\ last_time' = last_time /\ failed' = failed
    BY <1>16 DEF AskRefused, bridge, core
  <2>5. \A i \in DOMAIN answers' :
          answers'[i].kind # "REFUSED" => i \in DOMAIN answers
    BY <1>1, <2>1, <2>3
  <2>6. LatchInv'
    BY <1>1, <2>3, <2>4, <2>5 DEF LatchInv, IsOk, IsRefused
  <2> QED  BY <1>1, <2>3, <2>5, <2>6, StillWhole
<1>17. CASE UNCHANGED vars
  BY <1>1, <1>17, LatchUntouched DEF vars, pipes, caller, bridge, core
<1> QED  BY <1>2, <1>3, <1>4, <1>5, <1>6, <1>7, <1>8, <1>9, <1>10, <1>11,
            <1>12, <1>13, <1>14, <1>15, <1>16, <1>17 DEF Next, Client, Bridge

LEMMA Invariant == Spec => []IInv
<1>1. IInv /\ [Next]_vars => IInv'
  BY PipeKept, TypedKept, FileKept, LatchKept DEF IInv
<1> QED  BY <1>1, Starts, PTL DEF Spec

-----------------------------------------------------------------------------
\* Every variable has its type, and neither pipe holds more than a line.
THEOREM TypeCorrect == Spec => []TypeOK
<1>1. IInv => TypeOK
  BY DEF IInv, Typed
<1> QED  BY <1>1, Invariant, PTL

\* A call returns the commands of its own step for every joint, and none
\* succeeds after one that failed without being refused for its arguments,
\* whatever hangs, crashes or dies (s6_control_bridge.cpp:88-127;
\* s6_mujoco_bridge.py:85-103).
THEOREM CallsAreWhole == Spec => []StepsAreWhole
<1>1. IInv => StepsAreWhole
  BY DEF IInv
<1> QED  BY <1>1, Invariant, PTL

\* A ready bridge and its client mean the same joint by an index.
THEOREM IndexesAgree == Spec => []JointsAgree
<1>1. IInv => JointsAgree
  BY SameJoints DEF IInv, Typed, FileInv, JointsAgree
<1> QED  BY <1>1, Invariant, PTL

-----------------------------------------------------------------------------
(* Nobody waits in vain *)

\* readline() has nothing to return yet.
Waiting == client \in {"handshake", "asking"} /\ ~Hears

\* The line that is waited for is being made: the bridge is still loading, or
\* has the step in front of it.
AnswerIsComing ==
  \/ process = "loading"
  \/ process = "ready" /\ stdin # << >> /\ Head(stdin).kind = "STEP"

\* The next thing that happens ends the wait, unless the bridge hangs or the
\* caller dies.
WaitEnds == Waiting => Hears' \/ hung' \/ client' = "dead"

\* How many steps a bridge may still take when its client is dead.
OrphanLeft ==
  CASE process \in {"none", "exited"} -> 0
    [] process = "loading" -> IF hung THEN 2 ELSE 3
    [] process = "ready" -> Len(stdin) + IF hung THEN 1 ELSE 2

OrphanWindsDown ==
  client = "dead" => client' = "dead" /\ OrphanLeft' < OrphanLeft

FewOrphanSteps == OrphanLeft \in 0..3

LEMMA WaitersAreServed ==
  ASSUME IInv, Next, Waiting
  PROVE  Hears' \/ hung' \/ client' = "dead"
<1> USE DEF Waiting, Hears, Exited
<1>1. Typed /\ PipeInv /\ stdout = << >>
  BY DEF IInv
<1>2. CASE Client
  <2>1. client' = "dead"
    BY <1>2 DEF Client, Start, Handshake, Answered, Close, SendQuit, Drain,
       Ask, AskRefused, ClientDies
  <2> QED  BY <2>1
<1>3. CASE Load
  <2>1. process' = "exited" \/ stdout' = Append(<< >>, Ready)
    BY <1>1, <1>3 DEF Load, Says
  <2> QED  BY <2>1, Said
<1>4. ASSUME NEW n \in 0 .. Dof, ServeStep(n)
      PROVE  stdout' # << >>
  <2>1. PICK word : stdout' = Append(<< >>, word)
    BY <1>1, <1>4 DEF ServeStep, Says
  <2> QED  BY <2>1, OneLine
<1>5. CASE ServeQuit \/ ServeEnd \/ Crash
  BY <1>5 DEF ServeQuit, ServeEnd, Crash
<1>6. CASE Hang
  BY <1>6 DEF Hang
<1> QED  BY <1>2, <1>3, <1>4, <1>5, <1>6 DEF Next, Bridge

\* A caller in run()'s handshake or in step() is never left with nobody to
\* answer, and whatever happens next ends its wait unless the bridge hangs: the
\* safety half of CallsReturn (s6_mujoco_bridge.py:70-103,
\* s6_control_bridge.cpp:161-183).
THEOREM CallersAreAnswered ==
  Spec => [](Waiting => AnswerIsComing) /\ [][WaitEnds]_vars
<1>1. ASSUME IInv, Waiting PROVE AnswerIsComing
  <2>1. Typed /\ PipeInv /\ stdout = << >> /\ process # "exited"
    BY <1>1 DEF IInv, Waiting, Hears, Exited
  <2>2. process \in {"loading", "ready"}
    BY <1>1, <2>1 DEF Typed, TypeOK, PipeInv, Waiting
  <2>3. CASE process = "ready"
    <3>1. client = "asking"
      BY <1>1, <2>1, <2>3 DEF PipeInv, Waiting
    <3>2. stdin # << >> /\ Head(stdin) \in Steps
      BY <2>1, <2>3, <3>1 DEF PipeInv
    <3> QED  BY <2>3, <3>2 DEF AnswerIsComing, Steps
  <2> QED  BY <2>2, <2>3 DEF AnswerIsComing
<1>2. IInv /\ [Next]_vars => [WaitEnds]_vars
  BY WaitersAreServed DEF WaitEnds
<1> QED  BY <1>1, <1>2, Invariant, PTL DEF Spec

LEMMA OrphanStep ==
  ASSUME IInv, Next, client = "dead"
  PROVE  client' = "dead" /\ OrphanLeft' < OrphanLeft
<1>1. Typed /\ PipeInv /\ Len(stdin) \in Nat /\ hung \in BOOLEAN
  BY OnlyLine DEF IInv, Typed, TypeOK
<1>2. ~Client
  BY DEF Client, Start, Handshake, Answered, Close, SendQuit, Drain, Ask,
     AskRefused, ClientDies
<1>3. CASE Load
  <2>1. stdin = << >> /\ stdin' = << >> /\ ~hung /\ ~hung'
        /\ process = "loading" /\ process' \in {"ready", "exited"}
        /\ client' = "dead"
    BY <1>1, <1>3 DEF PipeInv, Load, Runs, caller
  <2>2. Len(stdin') = 0
    BY <2>1
  <2> QED  BY <2>1, <2>2 DEF OrphanLeft
<1>4. ASSUME NEW n \in 0 .. Dof, ServeStep(n)
      PROVE  client' = "dead" /\ OrphanLeft' < OrphanLeft
  <2>1. stdin # << >> /\ stdin' = << >> /\ process = "ready"
        /\ UNCHANGED <<process, hung, client>>
    BY <1>1, <1>4, OnlyLine DEF ServeStep, caller
  <2>2. Len(stdin) > 0 /\ Len(stdin') = 0
    BY <1>1, <2>1, Lines DEF Typed
  <2> QED  BY <1>1, <2>1, <2>2 DEF OrphanLeft
<1>5. CASE ServeQuit \/ ServeEnd \/ Crash
  <2>1. process \in {"loading", "ready"} /\ process' = "exited"
        /\ client' = "dead"
    BY <1>5 DEF ServeQuit, ServeEnd, Crash, caller
  <2> QED  BY <1>1, <2>1 DEF OrphanLeft
<1>6. CASE Hang
  <2>1. process \in {"loading", "ready"} /\ ~hung /\ hung'
        /\ UNCHANGED <<process, stdin, client>>
    BY <1>6 DEF Hang, pipes, caller
  <2> QED  BY <1>1, <2>1 DEF OrphanLeft
<1> QED  BY <1>2, <1>3, <1>4, <1>5, <1>6 DEF Next, Bridge

\* When the client dies, whatever it has left in the pipe, the bridge has at
\* most three steps left, and each brings its end nearer; nothing else happens
\* any more: the safety half of OrphanEnds (s6_control_bridge.cpp:161-183).
THEOREM OrphansTakeFewSteps ==
  Spec => []FewOrphanSteps /\ [][OrphanWindsDown]_vars
<1>1. ASSUME IInv PROVE FewOrphanSteps
  <2>1. /\ hung \in BOOLEAN
        /\ process \in {"none", "loading", "ready", "exited"}
        /\ Len(stdin) \in Nat /\ Len(stdin) <= 1
    BY <1>1, OnlyLine DEF IInv, Typed, TypeOK
  <2> QED  BY <2>1 DEF FewOrphanSteps, OrphanLeft
<1>2. IInv /\ [Next]_vars => [OrphanWindsDown]_vars
  BY OrphanStep DEF OrphanWindsDown
<1> QED  BY <1>1, <1>2, Invariant, PTL DEF Spec
=============================================================================
