----------------------------- MODULE StepBridge -----------------------------
(***************************************************************************)
(* cpp/examples/s6_control_bridge.cpp, the control core as a process of    *)
(* its own, and simulation/s6_mujoco_bridge.py, ControlBridgeProcess, the  *)
(* client that starts it, asks it for a step at a time over two pipes, and *)
(* ends it.  Either may die at any time; the bridge may also hang.         *)
(*                                                                         *)
(* The bridge runs the pipeline of CommandPipeline on one thread and on    *)
(* the client's clock: the feedback is as old as the step that brought it, *)
(* so that neither its age nor the watchdog can refuse it.                 *)
(***************************************************************************)
EXTENDS JointTable

CONSTANTS
  MaxStep,              \* config.max_step of the motion core
  MaxTime,              \* bound: time_us, in steps of the client
  Calls                 \* bound: calls of step()

ASSUME BridgeAssumption == {MaxStep, MaxTime, Calls} \subseteq Nat

Never == -1             \* last_time_us_ before the first step

VARIABLES
  file, env,            \* the mapping file, and where to look for it
  client,               \* where ControlBridgeProcess stands
  asked,                \* the time_us of the call under way
  answers,              \* what step() has returned or raised, in order
  stdin, stdout,        \* the pipes, oldest line first
  process,              \* the bridge's: loading, ready or exited
  hung,                 \* it takes no further step
  failed, last_time,    \* failed_, last_time_us_
  command               \* of the transport: which step's command each joint has

given == <<file, env>>
pipes == <<stdin, stdout>>
caller == <<client, asked, answers>>
core == <<failed, last_time, command>>
bridge == <<process, hung, core>>
vars == <<given, pipes, caller, bridge>>

Times == Never .. MaxTime
Commands == [Joint -> Times]

\* Lines of the bridge, and what readline() makes of its end.
Word(kind) == [kind |-> kind, commands |-> [i \in Joint |-> Never]]
Ready == Word("READY")
Ok(c) == [kind |-> "OK", commands |-> c]

\* Lines of the client.
Quit == [kind |-> "QUIT"]
StepLine(t, parses, inside) ==
  [kind |-> "STEP", time |-> t, parses |-> parses, inside |-> inside]

\* The files it is started with: joints in any order, or any one header.
Items == [id : 0 .. Dof, urdf : Urdf, named : BOOLEAN, proper : BOOLEAN]
Files ==
  [readable : {TRUE}, version : {1}, unit : {"radian"},
   status : {"not_calibrated"},
   joints : UNION {[1 .. n -> Items] : n \in Dof - 1 .. Dof}]
    \cup
  {f \in [readable : BOOLEAN, version : {0, 1}, unit : {"radian", "other"},
          status : {"calibrated", "other"},
          joints : [1 .. Dof -> {i \in Items : i.named /\ i.proper}]] :
     \A k \in 1 .. Dof : f.joints[k].id = k - 1}

\* The environments: nothing set, or any for a calibrated hand, with the
\* project itself as the root that is set.
Envs(f) ==
  {e \in Env : /\ e.mapping # "set"
               /\ f.status = "calibrated" \/ {e.mapping, e.root} = {"unset"}}

Init ==
  /\ file \in Files
  /\ env \in Envs(file)
  /\ client = "start" /\ asked = Never /\ answers = << >>
  /\ stdin = << >> /\ stdout = << >>
  /\ process = "none" /\ hung = FALSE
  /\ failed = FALSE /\ last_time = Never
  /\ command = [i \in Joint |-> Never]

-----------------------------------------------------------------------------
(* The client *)

Exited == process = "exited"

\* run(): the order of the joints, then the process.
Start ==
  /\ client = "start"
  /\ IF OrderLoads(file)
       THEN client' = "handshake" /\ process' = "loading"
       ELSE client' = "closed" /\ UNCHANGED process
  /\ UNCHANGED <<given, pipes, asked, answers, hung, core>>

\* readline() returns a line, or nothing once the other end has closed.
Hears == stdout # << >> \/ Exited
Heard == IF stdout = << >> THEN Word("EOF") ELSE Head(stdout)
Rest == IF stdout = << >> THEN stdout ELSE Tail(stdout)

Returned(line, time) ==
  [kind |-> line.kind, commands |-> line.commands, time |-> time]

Handshake ==
  /\ client = "handshake" /\ Hears
  /\ stdout' = Rest
  /\ client' = IF Heard = Ready THEN "idle" ELSE "close"
  /\ UNCHANGED <<given, asked, answers, stdin, bridge>>

\* step() with a vector of the wrong length or a value that is not finite: it
\* raises before anything is written, and the bridge knows nothing of it.
Refusal == Returned(Word("REFUSED"), Never)

AskRefused ==
  /\ client = "idle" /\ Len(answers) < Calls
  /\ answers' = Append(answers, Refusal)
  /\ UNCHANGED <<given, pipes, client, asked, bridge>>

\* Any other step(), up to the flush; with no reader left the write raises.
Ask(line) ==
  /\ client = "idle" /\ Len(answers) < Calls
  /\ IF Exited THEN answers' = Append(answers,
                                      Returned(Word("EOF"), line.time))
                    /\ UNCHANGED <<client, asked, stdin>>
               ELSE client' = "asking" /\ asked' = line.time
                    /\ stdin' = Append(stdin, line)
                    /\ UNCHANGED answers
  /\ UNCHANGED <<given, stdout, bridge>>

\* Mutant of Answered: the answer stays in the pipe.
AnsweredPeeks ==
  /\ client = "asking" /\ Hears
  /\ answers' = Append(answers, Returned(Heard, asked))
  /\ client' = "idle"
  /\ UNCHANGED <<given, asked, pipes, bridge>>

\* The rest of step(): it raises unless this is an OK with every command.
Answered ==
  /\ client = "asking" /\ Hears
  /\ stdout' = Rest
  /\ answers' = Append(answers, Returned(Heard, asked))
  /\ client' = "idle"
  /\ UNCHANGED <<given, asked, stdin, bridge>>

\* close(), as the caller pleases: poll() first.
Close ==
  /\ client \in {"idle", "close"}
  /\ client' = IF Exited THEN "closed" ELSE "quit"
  /\ UNCHANGED <<given, pipes, asked, answers, bridge>>

\* The bridge may have exited in between: BrokenPipeError.
SendQuit ==
  /\ client = "quit"
  /\ IF Exited THEN client' = "closed" /\ UNCHANGED stdin
               ELSE client' = "drain" /\ stdin' = Append(stdin, Quit)
  /\ UNCHANGED <<given, stdout, asked, answers, bridge>>

\* Mutant of Drain: communicate() waits as long as it takes.
DrainPatiently ==
  /\ client = "drain" /\ Exited
  /\ client' = "closed"
  /\ UNCHANGED <<given, pipes, asked, answers, bridge>>

\* communicate() returns when the bridge has exited, or after 3 s kills it.
Drain ==
  /\ client = "drain"
  /\ client' = "closed"
  /\ process' = "exited"
  /\ UNCHANGED <<given, pipes, asked, answers, hung, core>>

ClientDies ==
  /\ client \notin {"start", "closed", "dead"}
  /\ client' = "dead"
  /\ UNCHANGED <<given, pipes, asked, answers, bridge>>

-----------------------------------------------------------------------------
(* The bridge *)

Runs == ~hung
Says(line) == stdout' = Append(stdout, line)

\* main(), before its loop.
Load ==
  /\ process = "loading" /\ Runs
  /\ IF Resolves(BridgeEnv(env)) /\ Loads(file)
       THEN process' = "ready" /\ Says(Ready)
       ELSE process' = "exited" /\ UNCHANGED stdout
  /\ UNCHANGED <<given, stdin, caller, hung, core>>

\* A step is taken up at all, and last_time_us_ moved on.
Timely(line) == ~failed /\ line.time > last_time

\* The motion core accepts it: in time, and the hand inside its limits.
Planned(line) ==
  /\ last_time = Never \/ line.time - last_time <= MaxStep
  /\ line.inside

\* Of the batch the first n joints were sent: all of them, unless the batch
\* outlived its TTL by the steady clock meanwhile.
Sent(line, n) == [i \in Joint |-> IF i < n THEN line.time ELSE command[i]]

\* Mutant of Succeeds: the number of commands sent is not looked at.
SucceedsAnyway(line, n) == line.parses /\ Timely(line) /\ Planned(line)

Succeeds(line, n) ==
  line.parses /\ Timely(line) /\ Planned(line) /\ n = Dof

\* One STEP of the loop: parseStep(), step(), and the answer.
ServeStep(n) ==
  LET line == Head(stdin)
  IN /\ process = "ready" /\ Runs /\ stdin # << >> /\ line.kind = "STEP"
     /\ stdin' = Tail(stdin)
     /\ IF line.parses /\ Timely(line)
          THEN /\ last_time' = line.time
               /\ command' = IF Planned(line) THEN Sent(line, n) ELSE command
          ELSE UNCHANGED <<last_time, command>>
     /\ failed' = ~Succeeds(line, n)
     /\ Says(IF Succeeds(line, n) THEN Ok(command') ELSE Word("STOP"))
     /\ UNCHANGED <<given, caller, process, hung>>

ServeQuit ==
  /\ process = "ready" /\ Runs /\ stdin # << >> /\ Head(stdin) = Quit
  /\ stdin' = Tail(stdin)
  /\ failed' = TRUE
  /\ process' = "exited"
  /\ Says(Word("BYE"))
  /\ UNCHANGED <<given, caller, hung, last_time, command>>

\* getline() fails: the client is gone, and closed its ends of the pipes.
ServeEnd ==
  /\ process = "ready" /\ Runs /\ stdin = << >> /\ client = "dead"
  /\ failed' = TRUE
  /\ process' = "exited"
  /\ UNCHANGED <<given, pipes, caller, hung, last_time, command>>

Hang ==
  /\ process \in {"loading", "ready"} /\ ~hung
  /\ hung' = TRUE
  /\ UNCHANGED <<given, pipes, caller, process, core>>

Crash ==
  /\ process \in {"loading", "ready"}
  /\ process' = "exited"
  /\ UNCHANGED <<given, pipes, caller, hung, core>>

-----------------------------------------------------------------------------
Client ==
  \/ Start \/ Handshake \/ Answered \/ Close \/ SendQuit \/ Drain
  \/ \E t \in 0 .. MaxTime, parses, inside \in BOOLEAN :
       Ask(StepLine(t, parses, inside))
  \/ AskRefused \/ ClientDies
Bridge ==
  \/ Load \/ ServeQuit \/ ServeEnd \/ Hang \/ Crash
  \/ \E n \in 0 .. Dof : ServeStep(n)

Next == Client \/ Bridge

Spec == Init /\ [][Next]_vars

\* Nothing makes the caller ask or close, but what it has begun goes on; the
\* bridge goes on unless it hangs.
FairSpec ==
  /\ Spec
  /\ WF_vars(Start \/ Handshake \/ Answered \/ SendQuit \/ Drain)
  /\ WF_vars(client = "close" /\ Close)
  /\ WF_vars(Load \/ ServeQuit \/ ServeEnd \/ \E n \in 0 .. Dof : ServeStep(n))

-----------------------------------------------------------------------------
(* Properties *)

\* Every variable has its type.
TypeOK ==
  /\ client \in {"start", "handshake", "idle", "asking", "close", "quit",
                 "drain", "closed", "dead"}
  /\ asked \in Times
  /\ Len(answers) <= Calls
  /\ Len(stdin) <= 1 /\ Len(stdout) <= 1
  /\ process \in {"none", "loading", "ready", "exited"}
  /\ hung \in BOOLEAN /\ failed \in BOOLEAN
  /\ last_time \in Times
  /\ command \in Commands

IsOk(i) == answers[i].kind = "OK"
IsRefused(i) == answers[i].kind = "REFUSED"

\* Every command a call returns is of that call's own step, for every joint;
\* the steps that succeed go forward in time; and once a call has failed that
\* was not refused for its arguments, no other succeeds
\* (s6_control_bridge.cpp:88-127; s6_mujoco_bridge.py:85-103).
StepsAreWhole ==
  \A i \in DOMAIN answers : IsOk(i) =>
    /\ answers[i].commands = [j \in Joint |-> answers[i].time]
    /\ \A k \in 1 .. i - 1 :
         ~IsRefused(k) => IsOk(k) /\ answers[k].time < answers[i].time

\* A bridge that is ready means the same joint by an index as its client, in
\* whatever order the file lists them (JointTable.cpp:385-434 and
\* s6_mujoco_bridge.py:21-29 are written apart from each other).
JointsAgree ==
  process = "ready" =>
    \A i \in Joint : Table(file)[i].urdf = Order(file)[i]

\* A call of step() returns or raises unless the bridge hangs; close() leaves
\* no process behind even if it does; nor does a client that dies
\* (s6_mujoco_bridge.py:97-113, s6_control_bridge.cpp:161-183).
CallsReturn == client = "asking" ~> client # "asking" \/ hung
CloseEnds == client \in {"close", "quit"} ~> Exited \/ client = "dead"
OrphanEnds == client = "dead" ~> Exited \/ hung
BridgeEnds == CallsReturn /\ CloseEnds /\ OrphanEnds
=============================================================================
