--------------------------- MODULE ControlTiming ---------------------------
(***************************************************************************)
(* runtime/PeriodicScheduler.cpp and runtime/DeadlineMonitor.cpp: on which *)
(* planned times a periodic thread runs, and how many of its cycles were   *)
(* late.  Both are plain objects of one thread: a record, and its methods  *)
(* as functions of it.  Times are integers of any unit.                    *)
(***************************************************************************)
EXTENDS Integers, FiniteSets

-----------------------------------------------------------------------------
(* PeriodicScheduler *)

Scheduler == [period : Nat \ {0}, next : Int, skipped : Nat]

NewScheduler(period, start) ==
  [period |-> period, next |-> start, skipped |-> 0]

\* Mutant of Expired: a time that is due exactly now is not over yet.
ExpiredBefore(s, now) == (now - s.next - 1) \div s.period + 1

\* How many planned times, from next on, are over at now >= next.
Expired(s, now) == (now - s.next) \div s.period + 1

Advance(s, now) ==
  IF now < s.next
    THEN s
    ELSE [s EXCEPT !.next = @ + s.period * Expired(s, now),
                   !.skipped = @ + Expired(s, now)]

Planned(s) == [s EXCEPT !.next = @ + s.period]

\* Mutant of CompleteCycle: the cycle just run is counted as skipped.
CompleteCycleCounted(s, finished) == Advance(s, finished)

CompleteCycle(s, finished) == Advance(Planned(s), finished)

-----------------------------------------------------------------------------
(* DeadlineMonitor *)

\* The sliding window of the last size samples, a ring of size W.
Window(W) == [samples : [0 .. W - 1 -> BOOLEAN], head : 0 .. W - 1,
              size : 0 .. W, missed : Nat, consecutive : Nat]

NewWindow(W) == [samples |-> [i \in 0 .. W - 1 |-> FALSE], head |-> 0,
                 size |-> 0, missed |-> 0, consecutive |-> 0]

One(b) == IF b THEN 1 ELSE 0

Record(W, w, missed) ==
  [samples |-> [w.samples EXCEPT ![w.head] = missed],
   head |-> (w.head + 1) % W,
   size |-> IF w.size = W THEN w.size ELSE w.size + 1,
   missed |-> w.missed + One(missed)
                - One(w.size = W /\ w.samples[w.head]),
   consecutive |-> IF missed THEN w.consecutive + 1 ELSE 0]

\* config: [min_samples, critical_consecutive : Nat \ {0}], and warning_rate
\* as a percentage.
Health(w, config) ==
  CASE w.consecutive >= config.critical_consecutive -> "CRITICAL"
    [] /\ w.consecutive < config.critical_consecutive
       /\ w.size >= config.min_samples
       /\ 100 * w.missed >= config.warning_rate * w.size -> "WARNING"
    [] OTHER -> "NORMAL"
=============================================================================
