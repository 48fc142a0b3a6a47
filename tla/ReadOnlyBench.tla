--------------------------- MODULE ReadOnlyBench ---------------------------
(***************************************************************************)
(* runtime/ReadOnlyBench.cpp, ReadOnlyBench::run: the calling thread reads *)
(* every servo Rounds times and publishes each reading, while a thread of  *)
(* its own observes the feedback once per control period, as the control   *)
(* loop would.  They share the feedback buffer, the flag done and, after   *)
(* the join, what the observer has written.                                *)
(***************************************************************************)
EXTENDS ControlTiming, Sequences

CONSTANTS
  Joints,               \* kServoCount
  Rounds, Period, MaxAge, \* BenchConfig
  Horizon               \* bound: the clock while servos are being read

ASSUME BenchAssumption ==
  /\ {Joints, Rounds, Period, MaxAge} \subseteq Nat \ {0}
  /\ Horizon \in Nat

VARIABLES
  now,                  \* the steady clock
  done,                 \* the atomic flag both threads look at
  reader,               \* where the calling thread stands
  reads,                \* report.reads, in order
  snapshot,             \* what the calling thread has gathered
  feedback,             \* the buffer: what is published
  published,            \* history: how many readings have been published
  observer,             \* where the control thread stands
  scheduler,            \* its PeriodicScheduler
  tick,                 \* the sample being taken: started, invalid, stale
  ticks,                \* report.ticks, in order
  control_error,        \* an exception ended the control thread
  report                \* the counters computed after the join

shared == <<done, feedback, published, now>>
own == <<observer, scheduler, tick, ticks, control_error>>
gathered == <<reads, snapshot>>
vars == <<shared, own, reader, gathered, report>>

Joint == 0 .. Joints - 1
Sample == [joint : Joint, success : BOOLEAN, completed : Nat]
Tick == [invalid : 0 .. Joints, stale : 0 .. Joints, miss : BOOLEAN]
Feedback == [valid : [Joint -> BOOLEAN], timestamp : [Joint -> Nat],
             sequence : Nat]
Report == [misses : Nat, stale : Nat, skipped : Nat, failed : Nat]
NoFeedback == [valid |-> [j \in Joint |-> FALSE],
               timestamp |-> [j \in Joint |-> 0], sequence |-> 0]
NoTick == [started |-> 0, invalid |-> 0, stale |-> 0]
NoReport == [misses |-> 0, stale |-> 0, skipped |-> 0, failed |-> 0]

Init ==
  /\ now = 0
  /\ done = FALSE
  /\ reader = "start"
  /\ reads = << >>
  /\ snapshot = NoFeedback /\ feedback = NoFeedback /\ published = 0
  /\ observer = "none"
  /\ scheduler = NewScheduler(Period, Period)
  /\ tick = NoTick
  /\ ticks = << >>
  /\ control_error = FALSE
  /\ report = NoReport

-----------------------------------------------------------------------------
(* The calling thread *)

Spawn ==
  /\ reader = "start"
  /\ \/ reader' = "loop" /\ observer' = "new"
     \/ reader' = "thrown" /\ UNCHANGED observer  \* no thread to be had
  /\ UNCHANGED <<shared, scheduler, tick, ticks, control_error, gathered,
                 report>>

\* Both loops look at done before the next reading.
Loop ==
  /\ reader = "loop"
  /\ reader' = IF done \/ Len(reads) = Rounds * Joints THEN "closing"
                                                       ELSE "reading"
  /\ UNCHANGED <<shared, own, gathered, report>>

Gather(joint, ok) ==
  [snapshot EXCEPT !.valid[joint] = ok, !.timestamp[joint] = now]

\* Mutant of Read: the servos are counted on through the rounds.
ReadCountsOn(ok) ==
  /\ reader = "reading"
  /\ reads' = Append(reads, [joint |-> Len(reads), success |-> ok,
                             completed |-> now])
  /\ snapshot' = Gather(Len(reads), ok)
  /\ reader' = "publish"
  /\ UNCHANGED <<shared, own, report>>

\* read_raw returns, false or true, or throws, which counts as false.
Read(ok) ==
  LET joint == Len(reads) % Joints
  IN /\ reader = "reading"
     /\ reads' = Append(reads, [joint |-> joint, success |-> ok,
                                completed |-> now])
     /\ snapshot' = Gather(joint, ok)
     /\ reader' = "publish"
     /\ UNCHANGED <<shared, own, report>>

\* Mutant of Publish: a failed reading is not published.
PublishSuccesses ==
  /\ reader = "publish"
  /\ feedback' = IF reads[Len(reads)].success
                   THEN [snapshot EXCEPT !.sequence = @ + 1]
                   ELSE feedback
  /\ published' = published + 1
  /\ reader' = "loop"
  /\ UNCHANGED <<done, now, own, gathered, report>>

\* publish() takes the whole snapshot, sequence and all, and counts that up:
\* here, where nobody else counts the snapshot's, to 1 each time.
Publish ==
  /\ reader = "publish"
  /\ feedback' = [snapshot EXCEPT !.sequence = @ + 1]
  /\ published' = published + 1
  /\ reader' = "loop"
  /\ UNCHANGED <<done, now, own, gathered, report>>

\* The loops are over.
SetDone ==
  /\ reader = "closing"
  /\ done' = TRUE
  /\ reader' = "join"
  /\ UNCHANGED <<feedback, published, now, own, gathered, report>>

\* Mutant of PublishThrows: the observer is not told.
PublishThrowsSilently ==
  /\ reader = "publish"
  /\ reader' = "rethrow"
  /\ UNCHANGED <<shared, own, gathered, report>>

\* publish() throws: the observer is told, joined, and the exception goes on.
PublishThrows ==
  /\ reader = "publish"
  /\ done' = TRUE
  /\ reader' = "rethrow"
  /\ UNCHANGED <<feedback, published, now, own, gathered, report>>

\* The number of ticks for which P holds, and the sum of their stale joints.
Count(P(_)) == Cardinality({i \in DOMAIN ticks : P(ticks[i])})
StaleSum ==
  Cardinality({at \in (DOMAIN ticks) \X (1 .. Joints) :
                 at[2] <= ticks[at[1]].stale})

\* What is computed of the samples once both threads have ended.
Aggregate ==
  [misses |-> Count(LAMBDA t : t.miss),
   stale |-> StaleSum,
   skipped |-> scheduler.skipped,
   failed |-> Cardinality({i \in DOMAIN reads : ~reads[i].success})]

\* Mutant of Join: the control thread's exception is forgotten.
JoinForgets ==
  /\ reader \in {"join", "rethrow"} /\ observer = "ended"
  /\ reader' = IF reader = "rethrow" THEN "thrown" ELSE "returned"
  /\ report' = IF reader = "rethrow" THEN report ELSE Aggregate
  /\ UNCHANGED <<shared, own, gathered>>

\* control.join() returns, and run() with it.
Join ==
  /\ reader \in {"join", "rethrow"} /\ observer = "ended"
  /\ IF reader = "rethrow" \/ control_error
       THEN reader' = "thrown" /\ UNCHANGED report
       ELSE reader' = "returned" /\ report' = Aggregate
  /\ UNCHANGED <<shared, own, gathered>>

-----------------------------------------------------------------------------
(* The control thread: it only observes *)

NewObserver ==
  /\ observer = "new"
  /\ scheduler' = NewScheduler(Period, now + Period)
  /\ observer' = "sleep"
  /\ UNCHANGED <<shared, tick, ticks, control_error, reader, gathered,
                 report>>

\* done is looked at before the sleep, and after it.
Leave ==
  /\ observer = "sleep" /\ now >= scheduler.next /\ done
  /\ observer' = "ended"
  /\ UNCHANGED <<shared, scheduler, tick, ticks, control_error, reader,
                 gathered, report>>

Wake ==
  /\ observer = "sleep" /\ now >= scheduler.next /\ ~done
  /\ tick' = [tick EXCEPT !.started = now]
  /\ observer' = "observe"
  /\ UNCHANGED <<shared, scheduler, ticks, control_error, reader, gathered,
                 report>>

\* Never read, failed, or read after this cycle took its time.
Invalid(j) == ~feedback.valid[j] \/ feedback.timestamp[j] > tick.started

Observe ==
  /\ observer = "observe"
  /\ tick' = [started |-> tick.started,
              invalid |-> Cardinality({j \in Joint : Invalid(j)}),
              stale |-> Cardinality({j \in Joint :
                /\ ~Invalid(j)
                /\ tick.started - feedback.timestamp[j] > MaxAge})]
  /\ observer' = "complete"
  /\ UNCHANGED <<shared, scheduler, ticks, control_error, reader, gathered,
                 report>>

Sampled == [invalid |-> tick.invalid, stale |-> tick.stale,
            miss |-> now > scheduler.next + Period]

Complete ==
  /\ observer = "complete"
  /\ scheduler' = CompleteCycle(scheduler, now)
  /\ ticks' = Append(ticks, Sampled)
  /\ tick' = NoTick
  /\ observer' = IF done THEN "ended" ELSE "sleep"
  /\ UNCHANGED <<shared, control_error, reader, gathered, report>>

\* The list of ticks cannot grow.
CompleteThrows ==
  /\ observer = "complete"
  /\ scheduler' = CompleteCycle(scheduler, now)
  /\ control_error' = TRUE
  /\ done' = TRUE
  /\ observer' = "ended"
  /\ UNCHANGED <<feedback, published, now, tick, ticks, reader, gathered,
                 report>>

\* While the reader is at work the clock stops at the bound; once it waits,
\* time goes on until the observer need not sleep any longer.
ClockTick ==
  /\ observer \notin {"none", "ended"}
  /\ \/ now < Horizon
     \/ /\ reader \in {"join", "rethrow"}
        /\ now < Horizon + Period /\ now < scheduler.next
  /\ now' = now + 1
  /\ UNCHANGED <<done, feedback, published, own, reader, gathered, report>>

Reader ==
  \/ Spawn \/ Loop \/ (\E ok \in BOOLEAN : Read(ok)) \/ Publish
  \/ SetDone \/ PublishThrows \/ Join
Observer ==
  \/ NewObserver \/ Leave \/ Wake \/ Observe \/ Complete \/ CompleteThrows

\* run() is left: nothing more happens.
Over == reader \in {"returned", "thrown"} /\ UNCHANGED vars

Next == Reader \/ Observer \/ ClockTick \/ Over

\* Both threads are scheduled, a reading takes finite time, and time passes.
\* Nothing is assumed of the steps that throw.
Fairness ==
  /\ WF_vars(Spawn \/ Loop \/ Publish \/ SetDone \/ Join)
  /\ WF_vars(\E ok \in BOOLEAN : Read(ok))
  /\ WF_vars(NewObserver \/ Leave \/ Wake \/ Observe \/ Complete)
  /\ WF_vars(ClockTick)

Spec == Init /\ [][Next]_vars /\ Fairness

-----------------------------------------------------------------------------
(* Properties *)

\* Every variable has its type.
TypeOK ==
  /\ now \in Nat
  /\ done \in BOOLEAN /\ control_error \in BOOLEAN
  /\ reader \in {"start", "loop", "reading", "publish", "closing", "rethrow",
                 "join", "returned", "thrown"}
  /\ reads \in Seq(Sample) /\ Len(reads) <= Rounds * Joints
  /\ snapshot \in Feedback /\ feedback \in Feedback /\ published \in Nat
  /\ observer \in {"none", "new", "sleep", "observe", "complete",
                   "ended"}
  /\ scheduler \in Scheduler
  /\ tick \in [started : Nat, invalid : 0 .. Joints, stale : 0 .. Joints]
  /\ ticks \in Seq(Tick)
  /\ report \in Report

\* The samples the buffer has been given, and the last one of joint j in it.
Published == SubSeq(reads, 1, published)
SamplesOf(j) == {i \in DOMAIN Published : reads[i].joint = j}
LastOf(j) == reads[CHOOSE i \in SamplesOf(j) :
                     \A k \in SamplesOf(j) : k <= i]
Usable(j) ==
  /\ SamplesOf(j) # {}
  /\ LastOf(j).success
  /\ LastOf(j).completed <= tick.started

\* What a cycle observes is what the readings say: a joint is invalid unless
\* its last published reading succeeded, by the time the cycle took, and its
\* age is that reading's, however the readings fall between the cycle's
\* reading of the clock and of the buffer (ReadOnlyBench.cpp:57-71, 106-116).
ObservationSound ==
  [][observer = "observe" /\ observer' = "complete" =>
       /\ tick'.invalid = Cardinality({j \in Joint : ~Usable(j)})
       /\ tick'.stale = Cardinality({j \in Joint :
            Usable(j) /\ tick.started - LastOf(j).completed > MaxAge})]_vars

\* Each planned time is either the start of a cycle or counted as skipped,
\* once: when a cycle ends, exactly the planned times after its own that are
\* over by then are skipped, and the next is the first that is not, however
\* long the cycle took (PeriodicScheduler.cpp:12-25).
OverBy(time) == {n \in 1 .. time : scheduler.next + n * Period <= time}
GridAccounted ==
  [][observer = "complete" /\ scheduler' # scheduler =>
       LET skips == Cardinality(OverBy(now))
       IN /\ scheduler'.skipped = scheduler.skipped + skips
          /\ scheduler'.next = scheduler.next + (1 + skips) * Period]_vars

\* A report is given only of a complete run: both threads have ended, every
\* joint was read in every round and published, no exception was swallowed,
\* and a missed deadline never goes without a skipped cycle
\* (ReadOnlyBench.cpp:125-142).
ReportIsWhole ==
  reader = "returned" =>
    /\ observer = "ended" /\ ~control_error
    /\ Len(reads) = Rounds * Joints /\ published = Len(reads)
    /\ \A j \in Joint : Cardinality(SamplesOf(j)) = Rounds
    /\ report.misses <= report.skipped
    /\ report.stale <= Joints * Len(ticks)

\* run() ends, and the control thread before it, whatever throws in either.
RunEnds ==
  <>[](reader \in {"returned", "thrown"} /\ observer \in {"none", "ended"})
=============================================================================
