------------------------ MODULE ReadOnlyBench_proofs ------------------------
(***************************************************************************)
(* What PeriodicScheduler and DeadlineMonitor promise, for every period,   *)
(* overrun and size of the window, and on top of it what the benchmark's   *)
(* two threads may rely on, for any number of joints, rounds and cycles,   *)
(* and any clock: the planned times are accounted for, a cycle observes    *)
(* what the readings say, and a report is of a complete run.               *)
(***************************************************************************)
EXTENDS ReadOnlyBench, FiniteSetTheorems, SequenceTheorems, TLAPS

-----------------------------------------------------------------------------
(* The timing classes (ControlTiming): division, then the scheduler *)

\* Division: how often p > 0 goes into x >= 0, and no more.
LEMMA Division ==
  ASSUME NEW x \in Nat, NEW p \in Nat \ {0}
  PROVE  /\ x \div p \in Nat
         /\ p * (x \div p) <= x
         /\ x < p * (x \div p) + p
<1>1. x \div p \in Int /\ x % p \in 0 .. p - 1 /\ x = p * (x \div p) + (x % p)
  OBVIOUS
<1>2. x \div p >= 0
  <2> SUFFICES ASSUME x \div p <= -1 PROVE FALSE
    BY <1>1
  <2>1. p * (x \div p) <= p * (-1)
    BY <1>1
  <2> QED  BY <1>1, <2>1
<1> QED  BY <1>1, <1>2

LEMMA Unwrapped ==
  ASSUME NEW a \in Nat, NEW p \in Nat \ {0}, a < p
  PROVE  a % p = a
<1>1. a \div p = 0
  <2>1. a \div p \in Nat /\ p * (a \div p) <= a
    BY Division
  <2>2. SUFFICES ASSUME a \div p >= 1 PROVE FALSE
    BY <2>1
  <2>3. p * (a \div p) >= p * 1
    BY <2>1, <2>2
  <2> QED  BY <2>1, <2>3
<1>2. a = p * (a \div p) + (a % p) /\ a % p \in Int
  OBVIOUS
<1>3. p * 0 = 0
  OBVIOUS
<1> QED  BY <1>1, <1>2, <1>3

\* Whole turns leave the place within one.
LEMMA Turns ==
  ASSUME NEW a \in Nat, NEW p \in Nat \ {0}, NEW j \in 0 .. p - 1
  PROVE  (a * p + j) % p = j
<1> DEFINE x == a * p + j
           q == x \div p
<1>1. a * p \in Nat /\ x \in Nat /\ x = a * p + j
  OBVIOUS
<1> HIDE DEF x
<1>2. x = p * q + (x % p) /\ x % p \in 0 .. p - 1 /\ q \in Int
  BY <1>1
<1> HIDE DEF q
<1>3. ASSUME NEW b \in Int, NEW c \in Int, b < c PROVE p * b + p <= p * c
  <2>1. c - b - 1 \in Nat /\ c = b + 1 + (c - b - 1)
    BY <1>3
  <2> DEFINE d == c - b - 1
  <2>2. d \in Nat /\ c = b + 1 + d
    BY <2>1
  <2> HIDE DEF d
  <2>3. p * (b + 1 + d) = p * b + p + p * d /\ p * d \in Nat
    BY <2>2
  <2> QED  BY <2>2, <2>3
<1>4. a * p = p * a /\ p * a \in Int /\ p * q \in Int
  BY <1>1, <1>2
<1>5. ~(q < a) /\ ~(a < q)
  BY <1>1, <1>2, <1>3, <1>4
<1>6. q = a
  BY <1>2, <1>5
<1> QED  BY <1>1, <1>2, <1>4, <1>6 DEF x

LEMMA OneLess ==
  ASSUME NEW a \in Int, NEW b \in Int
  PROVE  a * b = (a - 1) * b + b
<1> DEFINE c == a - 1
<1>1. a = c + 1 /\ c \in Int
  OBVIOUS
<1> HIDE DEF c
<1>2. (c + 1) * b = c * b + b
  BY <1>1
<1>3. a * b = c * b + b
  BY <1>1, <1>2
<1> QED  BY <1>3 DEF c

\* A scheduler that is due or late moves to the first planned time after now,
\* and counts exactly the planned times it passes over.
LEMMA AdvanceExact ==
  ASSUME NEW s \in Scheduler, NEW at \in Int
  PROVE  /\ Advance(s, at) \in Scheduler
         /\ \E n \in Nat :
              /\ Advance(s, at) = [period |-> s.period,
                                    next |-> s.next + n * s.period,
                                    skipped |-> s.skipped + n]
              /\ at < s.next + n * s.period
              /\ n > 0 => s.next + (n - 1) * s.period <= at
<1>1. /\ s.period \in Nat \ {0} /\ s.next \in Int /\ s.skipped \in Nat
      /\ s = [period |-> s.period, next |-> s.next, skipped |-> s.skipped]
  BY DEF Scheduler
<1>2. CASE at < s.next
  <2>1. Advance(s, at) = [period |-> s.period, next |-> s.next + 0 * s.period,
                           skipped |-> s.skipped + 0]
    BY <1>1, <1>2 DEF Advance
  <2>2. at < s.next + 0 * s.period
    BY <1>1, <1>2
  <2> QED  BY <1>1, <1>2, <2>1, <2>2 DEF Advance
<1>3. CASE s.next <= at
  <2> DEFINE q == (at - s.next) \div s.period
             n == q + 1
  <2>1. at - s.next \in Nat
    BY <1>1, <1>3
  <2>2. /\ q \in Nat
        /\ s.period * q <= at - s.next
        /\ at - s.next < s.period * q + s.period
    BY <1>1, <2>1, Division
  <2>3. Expired(s, at) = n
    BY DEF Expired
  <2> HIDE DEF q
  <2>4. n \in Nat /\ n > 0 /\ n - 1 = q
    BY <2>2
  <2>5. s.period * n = s.period * q + s.period /\ n * s.period = s.period * n
        /\ (n - 1) * s.period = s.period * q
    BY <1>1, <2>2
  <2>6. Advance(s, at) = [period |-> s.period, next |-> s.next + n * s.period,
                           skipped |-> s.skipped + n]
    <3>1. Advance(s, at) = [s EXCEPT !.next = s.next + s.period * n,
                                      !.skipped = s.skipped + n]
      BY <1>1, <1>3, <2>3 DEF Advance
    <3>2. s.period * n = n * s.period
      BY <2>5
    <3> HIDE DEF n
    <3> QED  BY <1>1, <3>1, <3>2
  <2>7. n * s.period \in Int
    BY <1>1, <2>4
  <2> HIDE DEF n
  <2>8. Advance(s, at) \in Scheduler
    BY <1>1, <2>4, <2>6, <2>7 DEF Scheduler
  <2>9. at < s.next + n * s.period /\ s.next + (n - 1) * s.period <= at
    BY <1>1, <2>2, <2>5, <2>7
  <2> QED  BY <2>4, <2>6, <2>8, <2>9
<1> QED  BY <1>1, <1>2, <1>3

\* completeCycle(): the next planned time is the first one after the cycle's
\* own that is not over when it ends, the planned times in between are counted
\* as skipped, each once, and the cycle's own is not
\* (PeriodicScheduler.cpp:12-25).
THEOREM CycleOnTheGrid ==
  ASSUME NEW s \in Scheduler, NEW finished \in Int
  PROVE  /\ CompleteCycle(s, finished) \in Scheduler
         /\ \E n \in Nat :
              /\ CompleteCycle(s, finished) =
                   [period |-> s.period,
                    next |-> s.next + (n + 1) * s.period,
                    skipped |-> s.skipped + n]
              /\ finished < s.next + (n + 1) * s.period
              /\ n > 0 => s.next + n * s.period <= finished
<1> DEFINE p == Planned(s)
<1>1. /\ s.period \in Nat \ {0} /\ s.next \in Int /\ s.skipped \in Nat
  BY DEF Scheduler
<1>2. /\ p \in Scheduler /\ p.period = s.period /\ p.skipped = s.skipped
      /\ p.next = s.next + s.period
  BY <1>1 DEF Planned, Scheduler
<1>3. CompleteCycle(s, finished) = Advance(p, finished)
  BY DEF CompleteCycle
<1> HIDE DEF p
<1>4. PICK n \in Nat : /\ Advance(p, finished) =
                            [period |-> p.period,
                             next |-> p.next + n * p.period,
                             skipped |-> p.skipped + n]
                       /\ finished < p.next + n * p.period
                       /\ n > 0 => p.next + (n - 1) * p.period <= finished
  BY <1>2, AdvanceExact
<1>5. p.next + n * p.period = s.next + (n + 1) * s.period
  BY <1>1, <1>2
<1>6. p.next + (n - 1) * p.period = s.next + n * s.period
  <2>1. n * s.period = (n - 1) * s.period + s.period
    BY <1>1, n \in Int, s.period \in Int, OneLess
  <2>2. (n - 1) * s.period \in Int
    BY <1>1
  <2> QED  BY <1>1, <1>2, <2>1, <2>2
<1>7. Advance(p, finished) \in Scheduler
  BY <1>2, AdvanceExact
<1> QED  BY <1>2, <1>3, <1>4, <1>5, <1>6, <1>7

-----------------------------------------------------------------------------
(* The sliding window *)

Missed(W, w) == {i \in 0 .. W - 1 : w.samples[i]}

\* missed_ is the number of misses in the window; slots not yet filled hold
\* none, and head_ goes on where they begin.
WindowExact(W, w) ==
  /\ w \in Window(W)
  /\ w.missed = Cardinality(Missed(W, w))
  /\ w.size < W => /\ w.head = w.size
                   /\ \A i \in w.size .. W - 1 : ~w.samples[i]

LEMMA MissedFinite ==
  ASSUME NEW W \in Nat \ {0}, NEW w
  PROVE  IsFiniteSet(Missed(W, w)) /\ Cardinality(Missed(W, w)) \in Nat
<1>1. IsFiniteSet(0 .. W - 1)
  BY FS_Interval, 0 \in Int, W - 1 \in Int
<1>2. Missed(W, w) \in SUBSET (0 .. W - 1)
  BY DEF Missed
<1> QED  BY <1>1, <1>2, FS_Subset, FS_CardinalityType

LEMMA EmptyWindowExact ==
  ASSUME NEW W \in Nat \ {0}
  PROVE  WindowExact(W, NewWindow(W))
<1>1. Missed(W, NewWindow(W)) = {}
  BY DEF Missed, NewWindow
<1>2. Cardinality(Missed(W, NewWindow(W))) = 0
  BY <1>1, FS_EmptySet
<1>3. NewWindow(W) \in Window(W)
  BY DEF NewWindow, Window
<1>4. /\ NewWindow(W).missed = 0 /\ NewWindow(W).head = 0
      /\ NewWindow(W).size = 0
      /\ \A i \in 0 .. W - 1 : ~NewWindow(W).samples[i]
  BY DEF NewWindow
<1> QED  BY <1>2, <1>3, <1>4 DEF WindowExact

\* Recording changes one slot, and so the set of misses by at most that slot.
LEMMA MissedAfter ==
  ASSUME NEW W \in Nat \ {0}, NEW w \in Window(W), NEW m \in BOOLEAN
  PROVE  Missed(W, Record(W, w, m)) = IF m THEN Missed(W, w) \cup {w.head}
                                           ELSE Missed(W, w) \ {w.head}
<1>1. w.head \in 0 .. W - 1 /\ w.samples \in [0 .. W - 1 -> BOOLEAN]
  BY DEF Window
<1>2. Record(W, w, m).samples = [w.samples EXCEPT ![w.head] = m]
  BY DEF Record
<1>3. \A i \in 0 .. W - 1 :
        Record(W, w, m).samples[i] = IF i = w.head THEN m ELSE w.samples[i]
  BY <1>1, <1>2
<1>4. CASE m = TRUE
  BY <1>1, <1>3, <1>4 DEF Missed
<1>5. CASE m = FALSE
  BY <1>1, <1>3, <1>5 DEF Missed
<1> QED  BY <1>4, <1>5

\* The count follows the set.
LEMMA CountAfter ==
  ASSUME NEW W \in Nat \ {0}, NEW w, WindowExact(W, w), NEW m \in BOOLEAN
  PROVE  Record(W, w, m).missed = Cardinality(Missed(W, Record(W, w, m)))
<1> DEFINE S == Missed(W, w)
           h == w.head
<1>1. /\ w \in Window(W) /\ h \in 0 .. W - 1 /\ w.size \in 0 .. W
      /\ w.missed \in Nat /\ w.samples \in [0 .. W - 1 -> BOOLEAN]
  BY DEF WindowExact, Window
<1>2. IsFiniteSet(S) /\ Cardinality(S) \in Nat /\ w.missed = Cardinality(S)
  BY MissedFinite DEF WindowExact
<1>3. h \in S <=> w.size = W /\ w.samples[h]
  <2>1. h \in S <=> w.samples[h]
    BY <1>1 DEF Missed
  <2>2. w.size < W => ~w.samples[h]
    <3> SUFFICES ASSUME w.size < W PROVE ~w.samples[h]
      OBVIOUS
    <3>1. h = w.size /\ \A i \in w.size .. W - 1 : ~w.samples[i]
      BY DEF WindowExact
    <3>2. h \in w.size .. W - 1
      BY <1>1, <3>1
    <3> QED  BY <3>1, <3>2
  <2>3. w.size < W \/ w.size = W
    BY <1>1
  <2> QED  BY <2>1, <2>2, <2>3
<1>4. Record(W, w, m).missed = w.missed + One(m) - One(h \in S)
  <2>1. Record(W, w, m).missed =
          w.missed + One(m) - One(w.size = W /\ w.samples[h])
    BY DEF Record
  <2>2. One(w.size = W /\ w.samples[h]) = One(h \in S)
    BY <1>3 DEF One
  <2> QED  BY <2>1, <2>2
<1> HIDE DEF S, h
<1>5. CASE m = TRUE
  <2>1. Cardinality(S \cup {h}) =
          IF h \in S THEN Cardinality(S) ELSE Cardinality(S) + 1
    BY <1>2, FS_AddElement
  <2>2. Missed(W, Record(W, w, m)) = S \cup {h}
    BY <1>1, <1>5, MissedAfter DEF S, h
  <2>3. One(m) = 1 /\ One(h \in S) = IF h \in S THEN 1 ELSE 0
    BY <1>5 DEF One
  <2> QED  BY <1>2, <1>4, <2>1, <2>2, <2>3
<1>6. CASE m = FALSE
  <2>1. Cardinality(S \ {h}) =
          IF h \in S THEN Cardinality(S) - 1 ELSE Cardinality(S)
    BY <1>2, FS_RemoveElement
  <2>2. Missed(W, Record(W, w, m)) = S \ {h}
    BY <1>1, <1>6, MissedAfter DEF S, h
  <2>3. One(m) = 0 /\ One(h \in S) = IF h \in S THEN 1 ELSE 0
    BY <1>6 DEF One
  <2> QED  BY <1>2, <1>4, <2>1, <2>2, <2>3
<1> QED  BY <1>5, <1>6

\* record(): the incremental count never drifts from the window, through any
\* number of turns of the ring (DeadlineMonitor.cpp:17-27).
THEOREM RecordExact ==
  ASSUME NEW W \in Nat \ {0}, NEW w, WindowExact(W, w), NEW m \in BOOLEAN
  PROVE  WindowExact(W, Record(W, w, m))
<1> DEFINE r == Record(W, w, m)
<1>1. /\ w \in Window(W) /\ w.head \in 0 .. W - 1 /\ w.size \in 0 .. W
      /\ w.samples \in [0 .. W - 1 -> BOOLEAN] /\ w.consecutive \in Nat
  BY DEF WindowExact, Window
<1>2. r.missed = Cardinality(Missed(W, r))
  BY CountAfter
<1>3. r.missed \in Nat
  BY <1>2, MissedFinite
<1>4. /\ r.samples = [w.samples EXCEPT ![w.head] = m]
      /\ r.head = (w.head + 1) % W
      /\ r.size = IF w.size = W THEN w.size ELSE w.size + 1
      /\ r.consecutive = IF m THEN w.consecutive + 1 ELSE 0
  BY DEF Record
<1>5. /\ r.samples \in [0 .. W - 1 -> BOOLEAN]
      /\ r.size \in 0 .. W
      /\ r.consecutive \in Nat
  BY <1>1, <1>4
<1>6. r.head \in 0 .. W - 1
  BY <1>1, <1>4
<1>7. r = [samples |-> r.samples, head |-> r.head, size |-> r.size,
           missed |-> r.missed, consecutive |-> r.consecutive]
  BY DEF Record
<1> HIDE DEF r
<1>8. r \in Window(W)
  BY <1>3, <1>5, <1>6, <1>7 DEF Window
<1>9. ASSUME r.size < W
      PROVE  r.head = r.size /\ \A i \in r.size .. W - 1 : ~r.samples[i]
  <2>1. w.size < W /\ r.size = w.size + 1
    BY <1>1, <1>4, <1>9
  <2>2. w.head = w.size /\ \A i \in w.size .. W - 1 : ~w.samples[i]
    BY <2>1 DEF WindowExact
  <2>3. r.head = r.size
    <3>1. w.head + 1 \in Nat /\ w.head + 1 < W
      BY <1>1, <1>9, <2>1, <2>2
    <3> QED  BY <1>4, <2>1, <2>2, <3>1, Unwrapped
  <2>4. ASSUME NEW i \in r.size .. W - 1 PROVE ~r.samples[i]
    <3>1. i # w.head /\ i \in w.size .. W - 1 /\ i \in 0 .. W - 1
      BY <1>1, <2>1, <2>2
    <3>2. r.samples[i] = w.samples[i]
      BY <1>1, <1>4, <3>1
    <3> QED  BY <2>2, <3>1, <3>2
  <2> QED  BY <2>3, <2>4
<1> QED  BY <1>2, <1>8, <1>9 DEF WindowExact, r

\* missRate() is a rate: there are never more misses than samples
\* (DeadlineMonitor.cpp:34-36).
THEOREM RateIsARate ==
  ASSUME NEW W \in Nat \ {0}, NEW w, WindowExact(W, w)
  PROVE  w.missed <= w.size
<1>1. w.size \in 0 .. W
  BY DEF WindowExact, Window
<1>2. Missed(W, w) \subseteq 0 .. w.size - 1
  <2> SUFFICES ASSUME NEW i \in 0 .. W - 1, w.samples[i]
               PROVE  i \in 0 .. w.size - 1
    BY DEF Missed
  <2>1. w.size < W => ~(i \in w.size .. W - 1)
    BY DEF WindowExact
  <2> QED  BY <1>1, <2>1
<1>3. /\ IsFiniteSet(0 .. w.size - 1)
      /\ Cardinality(0 .. w.size - 1) =
           IF 0 > w.size - 1 THEN 0 ELSE (w.size - 1) - 0 + 1
  BY <1>1, FS_Interval, 0 \in Int, w.size - 1 \in Int
<1>4. Cardinality(Missed(W, w)) <= Cardinality(0 .. w.size - 1)
  BY <1>2, <1>3, FS_Subset
<1>5. Cardinality(0 .. w.size - 1) = w.size
  BY <1>1, <1>3
<1> QED  BY <1>4, <1>5 DEF WindowExact

-----------------------------------------------------------------------------
(* The two threads *)

All == Rounds * Joints

\* The samples of joint j among the first n readings.
Of(j, n) == {i \in 1 .. n : reads[i].joint = j}

\* Of each joint a snapshot f holds the last of the first n readings.
Says(f, n) ==
  \A j \in Joint :
    \/ Of(j, n) = {} /\ ~f.valid[j]
    \/ \E i \in Of(j, n) : /\ \A k \in Of(j, n) : k <= i
                           /\ f.valid[j] = reads[i].success
                           /\ f.timestamp[j] = reads[i].completed

\* The calling thread gathers what it has read; the buffer has what of it is
\* published.
SnapshotSays == Says(snapshot, Len(reads))
BufferSays == Says(feedback, published)

\* Where the reader stands, and how much of what it has read is published.
Progress ==
  /\ published \in {Len(reads), Len(reads) - 1}
  /\ reader \in {"start", "loop", "reading"} => published = Len(reads)
  /\ reader \in {"start", "reading"} => Len(reads) < All
  /\ reader = "publish" => published = Len(reads) - 1

Grid == scheduler.period = Period /\ scheduler.next \in Nat

IInv == TypeOK /\ Grid /\ Progress /\ SnapshotSays /\ BufferSays

LEMMA Constants ==
  ASSUME BenchAssumption
  PROVE  /\ Joints \in Nat \ {0} /\ Rounds \in Nat \ {0}
         /\ Period \in Nat \ {0} /\ MaxAge \in Nat \ {0} /\ Horizon \in Nat
         /\ All \in Nat \ {0}
         /\ IsFiniteSet(Joint) /\ Cardinality(Joint) = Joints
<1>1. /\ Joints \in Nat \ {0} /\ Rounds \in Nat \ {0}
      /\ Period \in Nat \ {0} /\ MaxAge \in Nat \ {0} /\ Horizon \in Nat
  BY DEF BenchAssumption
<1>2. All \in Nat \ {0}
  <2>1. Rounds * Joints >= 1 * Joints
    BY <1>1
  <2> QED  BY <1>1, <2>1 DEF All
<1>3. /\ IsFiniteSet(0 .. Joints - 1)
      /\ Cardinality(0 .. Joints - 1) =
           IF 0 > Joints - 1 THEN 0 ELSE (Joints - 1) - 0 + 1
  BY <1>1, FS_Interval, 0 \in Int, Joints - 1 \in Int
<1> QED  BY <1>1, <1>2, <1>3 DEF Joint

LEMMA Initially == BenchAssumption /\ Init => IInv
<1> SUFFICES ASSUME BenchAssumption, Init PROVE IInv
  OBVIOUS
<1> USE Constants DEF Init
<1>1. reads \in Seq(Sample) /\ Len(reads) = 0 /\ ticks \in Seq(Tick)
  OBVIOUS
<1>2. /\ snapshot = feedback /\ feedback \in Feedback /\ published = 0
      /\ \A j \in Joint : ~feedback.valid[j]
  BY DEF Feedback, NoFeedback
<1>3. scheduler \in Scheduler /\ Grid
  BY DEF Scheduler, NewScheduler, Grid
<1>4. report \in Report /\ tick \in [started : Nat, invalid : 0 .. Joints,
                                     stale : 0 .. Joints]
  BY DEF Report, NoReport, NoTick
<1>5. TypeOK
  <2>1. Len(reads) <= Rounds * Joints
    BY <1>1 DEF All
  <2>2. done \in BOOLEAN /\ control_error \in BOOLEAN
    OBVIOUS
  <2>3. now \in Nat
    OBVIOUS
  <2> QED  BY <1>1, <1>2, <1>3, <1>4, <2>1, <2>2, <2>3 DEF TypeOK
<1>6. Progress
  BY <1>1, <1>2 DEF Progress
<1>7. SnapshotSays /\ BufferSays
  BY <1>1, <1>2 DEF SnapshotSays, BufferSays, Says, Of
<1> QED  BY <1>3, <1>5, <1>6, <1>7 DEF IInv

-----------------------------------------------------------------------------
(* The calling thread preserves the invariant *)

\* How many joints have some property is a number of joints.
LEMMA SomeJoints ==
  ASSUME BenchAssumption, NEW J \in SUBSET Joint
  PROVE  Cardinality(J) \in 0 .. Joints
<1>1. IsFiniteSet(Joint) /\ Cardinality(Joint) = Joints /\ Joints \in Nat
  BY Constants
<1> QED  BY <1>1, FS_Subset, FS_CardinalityType

LEMMA UpTo ==
  ASSUME NEW n \in Nat
  PROVE  IsFiniteSet(1 .. n) /\ Cardinality(1 .. n) = n
<1>1. /\ IsFiniteSet(1 .. n)
      /\ Cardinality(1 .. n) = IF 1 > n THEN 0 ELSE n - 1 + 1
  BY FS_Interval, 1 \in Int, n \in Int
<1> QED  BY <1>1

\* A set of places of a sequence is finite.
LEMMA SomePlaces ==
  ASSUME NEW S, NEW s \in Seq(S), NEW I \in SUBSET (DOMAIN s)
  PROVE  IsFiniteSet(I) /\ Cardinality(I) \in Nat
<1>1. Len(s) \in Nat /\ DOMAIN s = 1 .. Len(s)
  BY LenProperties
<1>2. IsFiniteSet(1 .. Len(s))
  BY <1>1, FS_Interval, 1 \in Int
<1> QED  BY <1>1, <1>2, FS_Subset, FS_CardinalityType

LEMMA ReportTyped ==
  ASSUME BenchAssumption, TypeOK
  PROVE  Aggregate \in Report
<1>2. Cardinality({i \in DOMAIN ticks : ticks[i].miss}) \in Nat
  BY SomePlaces DEF TypeOK
<1>3. Cardinality({i \in DOMAIN reads : ~reads[i].success}) \in Nat
  BY SomePlaces DEF TypeOK
<1>4. StaleSum \in Nat
  <2>1. IsFiniteSet(DOMAIN ticks)
    BY SomePlaces DEF TypeOK
  <2>2. IsFiniteSet(1 .. Joints)
    BY Constants, FS_Interval, 1 \in Int
  <2>3. IsFiniteSet((DOMAIN ticks) \X (1 .. Joints))
    BY <2>1, <2>2, FS_Product
  <2> QED  BY <2>3, FS_Subset, FS_CardinalityType DEF StaleSum
<1>5. scheduler.skipped \in Nat
  BY DEF TypeOK, Scheduler
<1> QED  BY <1>2, <1>3, <1>4, <1>5 DEF Aggregate, Report, Count

\* A reading adds a sample, the last of its joint, that is not published yet.
LEMMA ReadSteps ==
  ASSUME BenchAssumption, IInv, NEW ok \in BOOLEAN, Read(ok)
  PROVE  IInv'
<1> DEFINE new == [joint |-> Len(reads) % Joints, success |-> ok,
                   completed |-> now]
<1>1. reads \in Seq(Sample) /\ Len(reads) \in Nat /\ snapshot \in Feedback
      /\ now \in Nat /\ published = Len(reads) /\ Len(reads) < All
  BY LenProperties DEF IInv, TypeOK, Progress, Read
<1>2. /\ new \in Sample /\ new.joint \in Joint
      /\ new.success = ok /\ new.completed = now
  BY <1>1, Constants DEF Sample, Joint
<1>3. reads' = Append(reads, new) /\ reader' = "publish"
      /\ snapshot' = Gather(new.joint, ok)
      /\ UNCHANGED <<shared, own, report>>
  BY DEF Read
<1> HIDE DEF new
<1>12. PICK n \in Nat : n = Len(reads) + 1
  BY <1>1
<1>4. /\ reads' \in Seq(Sample) /\ Len(reads') = n
      /\ reads'[n] = new
      /\ \A i \in 1 .. Len(reads) : reads'[i] = reads[i]
  BY <1>1, <1>2, <1>3, <1>12, AppendProperties
<1>5. Len(reads') <= Rounds * Joints
  BY <1>1, <1>4, <1>12, Constants DEF All
<1>6. /\ snapshot' \in Feedback
      /\ \A j \in Joint :
           /\ snapshot'.valid[j] =
                IF j = new.joint THEN ok ELSE snapshot.valid[j]
           /\ snapshot'.timestamp[j] =
                IF j = new.joint THEN now ELSE snapshot.timestamp[j]
  BY <1>1, <1>2, <1>3 DEF Gather, Feedback
<1>7. TypeOK'
  BY <1>3, <1>4, <1>5, <1>6 DEF IInv, TypeOK, shared, own
<1>8. Grid'
  BY <1>3 DEF IInv, Grid, own
<1>9. Progress'
  BY <1>1, <1>3, <1>4, <1>12 DEF Progress, shared
<1>10. BufferSays'
  <2>1. UNCHANGED <<feedback, published>>
    BY <1>3 DEF shared
  <2>2. \A j : Of(j, published)' = Of(j, published)
    BY <1>1, <1>4, <2>1 DEF Of
  <2>3. ASSUME NEW j \in Joint, NEW i \in Of(j, published)
        PROVE  reads'[i] = reads[i]
    BY <1>1, <1>4 DEF Of
  <2> QED  BY <2>1, <2>2, <2>3 DEF IInv, BufferSays, Says
<1>11. SnapshotSays'
  <2> SUFFICES ASSUME NEW j \in Joint
               PROVE  \/ Of(j, n)' = {} /\ ~snapshot'.valid[j]
                      \/ \E i \in Of(j, n)' :
                           /\ \A k \in Of(j, n)' : k <= i
                           /\ snapshot'.valid[j] = reads'[i].success
                           /\ snapshot'.timestamp[j] = reads'[i].completed
    BY <1>4 DEF SnapshotSays, Says
  <2>1. Of(j, n)' = Of(j, Len(reads)) \cup (IF new.joint = j THEN {n} ELSE {})
    BY <1>1, <1>4, <1>12 DEF Of
  <2>2. CASE new.joint = j
    <3>1. n \in Of(j, n)' /\ \A k \in Of(j, n)' : k <= n
      BY <1>1, <1>12, <2>1, <2>2 DEF Of
    <3> QED  BY <1>2, <1>4, <1>6, <2>2, <3>1
  <2>3. CASE new.joint # j
    <3>1. Of(j, n)' = Of(j, Len(reads))
      BY <2>1, <2>3
    <3>2. \A i \in Of(j, Len(reads)) : reads'[i] = reads[i]
      BY <1>4 DEF Of
    <3>3. snapshot'.valid[j] = snapshot.valid[j]
          /\ snapshot'.timestamp[j] = snapshot.timestamp[j]
      BY <1>6, <2>3
    <3> QED  BY <3>1, <3>2, <3>3 DEF IInv, SnapshotSays, Says
  <2> QED  BY <2>2, <2>3
<1> QED  BY <1>7, <1>8, <1>9, <1>10, <1>11 DEF IInv

\* What is published is all that has been gathered.
LEMMA PublishSteps ==
  ASSUME BenchAssumption, IInv, Publish
  PROVE  IInv'
<1>1. /\ reads \in Seq(Sample) /\ Len(reads) \in Nat /\ snapshot \in Feedback
      /\ published = Len(reads) - 1
  BY LenProperties DEF IInv, TypeOK, Progress, Publish
<1>2. /\ feedback' = [snapshot EXCEPT !.sequence = @ + 1]
      /\ published' = published + 1 /\ reader' = "loop"
      /\ UNCHANGED <<done, now, own, gathered, report>>
  BY DEF Publish
<1>3. /\ feedback' \in Feedback /\ feedback'.valid = snapshot.valid
      /\ feedback'.timestamp = snapshot.timestamp
  <2>1. /\ snapshot.valid \in [Joint -> BOOLEAN]
        /\ snapshot.timestamp \in [Joint -> Nat] /\ snapshot.sequence \in Nat
    BY <1>1 DEF Feedback
  <2>2. feedback' = [valid |-> snapshot.valid, timestamp |-> snapshot.timestamp,
                     sequence |-> snapshot.sequence + 1]
    BY <1>1, <1>2 DEF Feedback
  <2> QED  BY <2>1, <2>2 DEF Feedback
<1>4. published' = Len(reads)
  BY <1>1, <1>2
<1>5. TypeOK'
  BY <1>1, <1>2, <1>3, <1>4 DEF IInv, TypeOK, own, gathered
<1>6. Grid'
  BY <1>2 DEF IInv, Grid, own
<1>7. Progress'
  BY <1>2, <1>4 DEF Progress, gathered
<1>8. SnapshotSays' /\ BufferSays'
  BY <1>2, <1>3, <1>4
  DEF IInv, SnapshotSays, BufferSays, Says, Of, gathered
<1> QED  BY <1>5, <1>6, <1>7, <1>8 DEF IInv

\* The other steps of the calling thread leave the readings and the buffer.
LEMMA QuietReaderSteps ==
  ASSUME BenchAssumption, IInv,
         Spawn \/ Loop \/ SetDone \/ PublishThrows \/ Join
  PROVE  IInv'
<1>1. /\ UNCHANGED <<now, feedback, published, gathered, scheduler, tick, ticks,
                     control_error>>
      /\ done' \in BOOLEAN
      /\ reader' \in {"loop", "reading", "closing", "thrown", "join",
                      "rethrow", "returned"}
      /\ observer' \in {observer, "new"}
      /\ reader' = "loop" => reader = "start"
      /\ reader' = "reading" =>
           reader = "loop" /\ Len(reads) # Rounds * Joints
      /\ report' \in {report, Aggregate}
  BY DEF Spawn, Loop, SetDone, PublishThrows, Join, shared, own, IInv, TypeOK
<1>2. report' \in Report
  BY <1>1, ReportTyped DEF IInv, TypeOK
<1>3. TypeOK'
  BY <1>1, <1>2 DEF IInv, TypeOK, gathered
<1>4. Grid' /\ SnapshotSays' /\ BufferSays'
  BY <1>1 DEF IInv, Grid, SnapshotSays, BufferSays, Says, Of, gathered
<1>5. Progress'
  <2>1. Len(reads) \in Nat /\ Len(reads) <= All /\ All \in Nat
    BY Constants, LenProperties DEF IInv, TypeOK, All
  <2> QED  BY <1>1, <2>1 DEF IInv, Progress, All, gathered
<1> QED  BY <1>3, <1>4, <1>5 DEF IInv

-----------------------------------------------------------------------------
(* So do the control thread and the clock *)

\* What these steps may change: nothing the readings or the buffer are of.
LEMMA ObserverKeeps ==
  ASSUME IInv, TypeOK', Grid',
         UNCHANGED <<gathered, feedback, published, reader>>
  PROVE  IInv'
<1>1. SnapshotSays' /\ BufferSays' /\ Progress'
  BY DEF IInv, SnapshotSays, BufferSays, Says, Of, Progress, gathered
<1> QED  BY <1>1 DEF IInv

\* A cycle that ends leaves a scheduler whose next time is a planned one.
LEMMA CycleTyped ==
  ASSUME BenchAssumption, IInv
  PROVE  /\ CompleteCycle(scheduler, now) \in Scheduler
         /\ CompleteCycle(scheduler, now).period = Period
         /\ CompleteCycle(scheduler, now).next \in Nat
<1>1. scheduler \in Scheduler /\ now \in Int /\ scheduler.period = Period
      /\ scheduler.next \in Nat /\ Period \in Nat
  BY Constants DEF IInv, TypeOK, Grid
<1>2. PICK n \in Nat : CompleteCycle(scheduler, now) =
                         [period |-> scheduler.period,
                          next |-> scheduler.next + (n + 1) * scheduler.period,
                          skipped |-> scheduler.skipped + n]
  BY <1>1, CycleOnTheGrid
<1>3. (n + 1) * scheduler.period \in Nat
  BY <1>1
<1>4. CompleteCycle(scheduler, now) \in Scheduler
  BY <1>1, CycleOnTheGrid
<1> QED  BY <1>1, <1>2, <1>3, <1>4

LEMMA ObserverSteps ==
  ASSUME BenchAssumption, IInv,
         NewObserver \/ Leave \/ Wake \/ Observe \/ ClockTick
  PROVE  IInv'
<1> USE DEF IInv
<1>1. CASE NewObserver
  <2>1. now + Period \in Nat
    BY Constants DEF TypeOK
  <2>2. scheduler' \in Scheduler /\ Grid'
    BY <1>1, <2>1, Constants DEF NewObserver, NewScheduler, Scheduler, Grid
  <2>3. TypeOK'
    BY <1>1, <2>2 DEF NewObserver, TypeOK, shared, gathered
  <2> QED  BY <1>1, <2>2, <2>3, ObserverKeeps DEF NewObserver, shared
<1>2. CASE Leave \/ Wake \/ ClockTick
  <2>1. UNCHANGED <<done, feedback, published, reader, gathered, scheduler,
                    ticks, control_error, report>>
    BY <1>2 DEF Leave, Wake, ClockTick, shared, own
  <2>2. now' \in Nat /\ observer' \in {observer, "ended", "observe"}
        /\ tick' \in [started : Nat, invalid : 0 .. Joints,
                      stale : 0 .. Joints]
    BY <1>2 DEF Leave, Wake, ClockTick, shared, own, TypeOK
  <2>3. TypeOK' /\ Grid'
    BY <2>1, <2>2 DEF TypeOK, Grid, gathered
  <2> QED  BY <2>1, <2>3, ObserverKeeps
<1>3. CASE Observe
  <2>1. UNCHANGED <<shared, scheduler, ticks, control_error, reader, gathered,
                    report>>
        /\ observer' = "complete"
    BY <1>3 DEF Observe
  <2>2. tick.started \in Nat
    BY DEF TypeOK
  <2>3. tick' \in [started : Nat, invalid : 0 .. Joints, stale : 0 .. Joints]
    BY <1>3, <2>2, SomeJoints DEF Observe
  <2>4. TypeOK' /\ Grid'
    BY <2>1, <2>3 DEF TypeOK, Grid, shared, gathered
  <2> QED  BY <2>1, <2>4, ObserverKeeps DEF shared
<1> QED  BY <1>1, <1>2, <1>3

LEMMA CompleteSteps ==
  ASSUME BenchAssumption, IInv, Complete \/ CompleteThrows
  PROVE  IInv'
<1>1. scheduler' = CompleteCycle(scheduler, now)
      /\ UNCHANGED <<feedback, published, now, reader, gathered, report>>
      /\ observer' \in {"ended", "sleep"} /\ tick' \in {tick, NoTick}
      /\ ticks' \in {ticks, Append(ticks, Sampled)}
  BY DEF Complete, CompleteThrows, shared
<1>2. done' \in BOOLEAN /\ control_error' \in BOOLEAN
  BY DEF Complete, CompleteThrows, shared, IInv, TypeOK
<1>3. scheduler' \in Scheduler /\ Grid'
  BY <1>1, CycleTyped DEF Grid
<1>4. Sampled \in Tick
  <2>1. (now > scheduler.next + Period) \in BOOLEAN
    OBVIOUS
  <2>2. tick.invalid \in 0 .. Joints /\ tick.stale \in 0 .. Joints
    BY DEF IInv, TypeOK
  <2> QED  BY <2>1, <2>2 DEF Sampled, Tick
<1>5. ticks' \in Seq(Tick)
  <2>1. ticks \in Seq(Tick)
    BY DEF IInv, TypeOK
  <2>2. Append(ticks, Sampled) \in Seq(Tick)
    BY <1>4, <2>1, AppendProperties
  <2> QED  BY <1>1, <2>1, <2>2
<1>6. tick' \in [started : Nat, invalid : 0 .. Joints, stale : 0 .. Joints]
  BY <1>1, Constants DEF IInv, TypeOK, NoTick
<1>7. TypeOK'
  BY <1>1, <1>2, <1>3, <1>5, <1>6 DEF IInv, TypeOK, gathered
<1> QED  BY <1>1, <1>3, <1>7, ObserverKeeps

LEMMA Inductive == BenchAssumption /\ IInv /\ [Next]_vars => IInv'
<1> SUFFICES ASSUME BenchAssumption, IInv, [Next]_vars PROVE IInv'
  OBVIOUS
<1>1. CASE Reader
  BY <1>1, ReadSteps, PublishSteps, QuietReaderSteps DEF Reader
<1>2. CASE Observer
  BY <1>2, ObserverSteps, CompleteSteps DEF Observer
<1>3. CASE ClockTick
  BY <1>3, ObserverSteps
<1>4. CASE Over \/ UNCHANGED vars
  <2>1. UNCHANGED vars
    BY <1>4 DEF Over
  <2>2. TypeOK' /\ Grid'
    BY <2>1 DEF vars, shared, own, gathered, IInv, TypeOK, Grid
  <2> QED  BY <2>1, <2>2, ObserverKeeps DEF vars, shared
<1> QED  BY <1>1, <1>2, <1>3, <1>4 DEF Next

-----------------------------------------------------------------------------
(* The theorems *)

\* Every variable has its type in every reachable state, for any number of
\* servos and rounds: in particular at most Rounds * Joints samples are kept
\* (ReadOnlyBench.cpp:33-49).
THEOREM TypeCorrect == Spec => []TypeOK
<1>1. IInv => TypeOK
  BY DEF IInv
<1> QED  BY <1>1, BenchAssumption, Initially, Inductive, PTL DEF Spec

LEMMA Monotone ==
  ASSUME NEW a \in Int, NEW b \in Int, NEW p \in Nat, a <= b
  PROVE  a * p <= b * p
<1> DEFINE d == b - a
<1>1. d \in Nat /\ b = a + d
  OBVIOUS
<1> HIDE DEF d
<1>2. (a + d) * p = a * p + d * p
  BY <1>1
<1>3. d * p \in Nat
  BY <1>1
<1> QED  BY <1>1, <1>2, <1>3

\* The planned times that are over when a cycle ends are the next n, where n
\* is what completeCycle() has skipped.
LEMMA OverExact ==
  ASSUME BenchAssumption, IInv, NEW n \in Nat,
         now < scheduler.next + (n + 1) * Period,
         n > 0 => scheduler.next + n * Period <= now
  PROVE  OverBy(now) = 1 .. n
<1>1. now \in Nat /\ scheduler.next \in Nat /\ Period \in Nat /\ Period >= 1
  BY Constants DEF IInv, TypeOK, Grid
<1>2. ASSUME NEW k \in OverBy(now) PROVE k \in 1 .. n
  <2>1. k \in Nat /\ k >= 1 /\ scheduler.next + k * Period <= now
    BY <1>1 DEF OverBy
  <2>2. SUFFICES ASSUME n + 1 <= k PROVE FALSE
    BY <2>1
  <2>3. (n + 1) * Period <= k * Period
    BY <1>1, <2>1, <2>2, Monotone
  <2> QED  BY <1>1, <2>1, <2>3
<1>3. ASSUME NEW k \in 1 .. n PROVE k \in OverBy(now)
  <2>1. k * Period <= n * Period /\ k * Period \in Nat /\ n * Period \in Nat
    BY <1>1, Monotone
  <2>2. scheduler.next + k * Period <= now
    BY <1>1, <2>1
  <2>3. 1 * k <= Period * k
    BY <1>1, Monotone
  <2>4. k <= now
    BY <1>1, <2>1, <2>2, <2>3
  <2> QED  BY <2>2, <2>4 DEF OverBy
<1> QED  BY <1>2, <1>3

\* The planned times are accounted for, for any period and any overrun
\* (PeriodicScheduler.cpp:12-25).
THEOREM TimesAccounted == Spec => GridAccounted
<1>1. ASSUME BenchAssumption, IInv, [Next]_vars,
             observer = "complete", scheduler' # scheduler
      PROVE  /\ scheduler'.skipped =
                   scheduler.skipped + Cardinality(OverBy(now))
             /\ scheduler'.next =
                   scheduler.next + (1 + Cardinality(OverBy(now))) * Period
  <2>1. Complete \/ CompleteThrows
    BY <1>1 DEF Next, Reader, Observer, ClockTick, Over, Spawn, Loop, Read,
                Publish, SetDone, PublishThrows, Join, NewObserver, Leave, Wake,
                Observe, vars, own
  <2>2. scheduler' = CompleteCycle(scheduler, now)
    BY <2>1 DEF Complete, CompleteThrows
  <2>3. scheduler \in Scheduler /\ now \in Int /\ scheduler.period = Period
    BY <1>1 DEF IInv, TypeOK, Grid
  <2>4. PICK n \in Nat :
          /\ CompleteCycle(scheduler, now) =
               [period |-> scheduler.period,
                next |-> scheduler.next + (n + 1) * scheduler.period,
                skipped |-> scheduler.skipped + n]
          /\ now < scheduler.next + (n + 1) * scheduler.period
          /\ n > 0 => scheduler.next + n * scheduler.period <= now
    BY <2>3, CycleOnTheGrid
  <2>5. OverBy(now) = 1 .. n
    BY <1>1, <2>3, <2>4, OverExact
  <2>6. Cardinality(1 .. n) = n
    BY FS_Interval, 1 \in Int, n \in Int
  <2>7. n + 1 = 1 + n
    OBVIOUS
  <2> QED  BY <2>2, <2>3, <2>4, <2>5, <2>6, <2>7
<1>2. BenchAssumption /\ IInv /\ [Next]_vars =>
        [observer = "complete" /\ scheduler' # scheduler =>
           LET skips == Cardinality(OverBy(now))
           IN /\ scheduler'.skipped = scheduler.skipped + skips
              /\ scheduler'.next = scheduler.next + (1 + skips) * Period]_vars
  BY <1>1
<1> QED  BY <1>2, BenchAssumption, Initially, Inductive, PTL
            DEF Spec, GridAccounted

-----------------------------------------------------------------------------
(* What a cycle observes *)

\* What is published are the first readings.
LEMMA SamplesAreOf ==
  ASSUME BenchAssumption, IInv, NEW j \in Joint
  PROVE  SamplesOf(j) = Of(j, published)
<1> DEFINE n == published
<1>1. reads \in Seq(Sample) /\ n \in Nat /\ n <= Len(reads)
      /\ Len(reads) \in Nat
  BY LenProperties DEF IInv, TypeOK, Progress, Feedback
<1>2. \A i \in 1 .. n : reads[i] \in Sample
  BY <1>1, LenProperties
<1>3. SubSeq(reads, 1, n) \in Seq(Sample) /\ Len(SubSeq(reads, 1, n)) = n
  BY <1>1, <1>2, SubSeqProperties, 1 \in Int, n \in Int
<1>4. DOMAIN SubSeq(reads, 1, n) = 1 .. n
  BY <1>3, LenProperties
<1> QED  BY <1>4 DEF SamplesOf, Published, Of

\* The last published reading of a joint is what the buffer says of it.
LEMMA BufferIsLast ==
  ASSUME BenchAssumption, IInv, NEW j \in Joint
  PROVE  /\ SamplesOf(j) = {} => ~feedback.valid[j]
         /\ SamplesOf(j) # {} =>
              /\ feedback.valid[j] = LastOf(j).success
              /\ feedback.timestamp[j] = LastOf(j).completed
<1> DEFINE n == published
<1>1. n \in Nat
  BY DEF IInv, TypeOK
<1>5. SamplesOf(j) = Of(j, n)
  BY SamplesAreOf
<1>6. CASE Of(j, n) = {}
  BY <1>5, <1>6 DEF IInv, BufferSays, Says
<1>7. CASE Of(j, n) # {}
  <2>1. PICK i \in Of(j, n) : /\ \A k \in Of(j, n) : k <= i
                              /\ feedback.valid[j] = reads[i].success
                              /\ feedback.timestamp[j] = reads[i].completed
    BY <1>7 DEF IInv, BufferSays, Says
  <2>2. ASSUME NEW m \in Of(j, n), \A k \in Of(j, n) : k <= m PROVE m = i
    <3>1. m <= i /\ i <= m /\ m \in Int /\ i \in Int
      BY <1>1, <2>1, <2>2 DEF Of
    <3> QED  BY <3>1
  <2>3. (CHOOSE m \in SamplesOf(j) : \A k \in SamplesOf(j) : k <= m) = i
    BY <1>5, <2>1, <2>2
  <2> QED  BY <1>5, <2>1, <2>3 DEF LastOf
<1> QED  BY <1>5, <1>6, <1>7

\* A cycle observes what the readings say, for any interleaving of the two
\* threads and any clock (ReadOnlyBench.cpp:57-71, 106-116).
THEOREM ObservesTheReadings == Spec => ObservationSound
<1>1. ASSUME BenchAssumption, IInv, NEW j \in Joint
      PROVE  /\ Invalid(j) <=> ~Usable(j)
             /\ Usable(j) => feedback.timestamp[j] = LastOf(j).completed
  <2>1. feedback.timestamp[j] \in Nat /\ tick.started \in Nat
    BY <1>1 DEF IInv, TypeOK, Feedback
  <2>2. CASE SamplesOf(j) = {}
    BY <1>1, <2>2, BufferIsLast DEF Invalid, Usable
  <2>3. CASE SamplesOf(j) # {}
    <3>1. feedback.valid[j] = LastOf(j).success
          /\ feedback.timestamp[j] = LastOf(j).completed
      BY <1>1, <2>3, BufferIsLast
    <3> QED  BY <2>1, <2>3, <3>1 DEF Invalid, Usable
  <2> QED  BY <2>2, <2>3
<1>2. ASSUME BenchAssumption, IInv, [Next]_vars,
             observer = "observe", observer' = "complete"
      PROVE  /\ tick'.invalid = Cardinality({j \in Joint : ~Usable(j)})
             /\ tick'.stale = Cardinality({j \in Joint :
                  Usable(j) /\ tick.started - LastOf(j).completed > MaxAge})
  <2>1. Observe
    BY <1>2 DEF Next, Reader, Observer, ClockTick, Over, Spawn, Loop, Read,
                Publish, SetDone, PublishThrows, Join, NewObserver, Leave, Wake,
                Complete, CompleteThrows, vars, own
  <2>2. {j \in Joint : Invalid(j)} = {j \in Joint : ~Usable(j)}
    BY <1>1, <1>2
  <2>3. {j \in Joint : /\ ~Invalid(j)
                       /\ tick.started - feedback.timestamp[j] > MaxAge} =
        {j \in Joint :
           Usable(j) /\ tick.started - LastOf(j).completed > MaxAge}
    BY <1>1, <1>2
  <2> QED  BY <2>1, <2>2, <2>3 DEF Observe
<1>3. BenchAssumption /\ IInv /\ [Next]_vars =>
        [observer = "observe" /\ observer' = "complete" =>
           /\ tick'.invalid = Cardinality({j \in Joint : ~Usable(j)})
           /\ tick'.stale = Cardinality({j \in Joint :
                Usable(j) /\ tick.started - LastOf(j).completed > MaxAge})]_vars
  BY <1>2
<1> QED  BY <1>3, BenchAssumption, Initially, Inductive, PTL
            DEF Spec, ObservationSound
-----------------------------------------------------------------------------
(* The report *)

\* The servos are read in turn.
InTurn == \A i \in 1 .. Len(reads) : reads[i].joint = (i - 1) % Joints

\* The calling thread leaves its loops early only for an exception of the
\* control thread, and with that it does not return.
Ending ==
  /\ reader = "start" => observer = "none"
  /\ done =>
       control_error \/ reader \in {"join", "rethrow", "returned", "thrown"}
  /\ reader \in {"closing", "join"} => control_error \/ Len(reads) = All
  /\ reader \in {"closing", "join", "returned"} =>
       published = Len(reads)
  /\ reader = "returned" =>
       observer = "ended" /\ ~control_error /\ Len(reads) = All

\* A late cycle has skipped a planned time.
LateTicks == {i \in DOMAIN ticks : ticks[i].miss}
LateSkips ==
  /\ Cardinality(LateTicks) <= scheduler.skipped
  /\ observer \in {"none", "new"} => LateTicks = {}

Reported ==
  reader = "returned" =>
    report.misses <= report.skipped /\ report.stale <= Joints * Len(ticks)

Whole == InTurn /\ Ending /\ LateSkips /\ Reported

LEMMA WholeInitially == BenchAssumption /\ Init => Whole
<1> SUFFICES ASSUME BenchAssumption, Init PROVE Whole
  OBVIOUS
<1>1. Len(reads) = 0 /\ DOMAIN ticks = {} /\ scheduler.skipped = 0
  BY DEF Init, NewScheduler
<1>2. LateTicks = {}
  BY <1>1 DEF LateTicks
<1>3. Cardinality(LateTicks) = 0
  BY <1>2, FS_EmptySet
<1>4. InTurn
  BY <1>1 DEF InTurn
<1> QED  BY <1>1, <1>2, <1>3, <1>4 DEF Whole, Ending, LateSkips, Reported, Init

\* Reading goes round the servos.
LEMMA InTurnPreserved ==
  ASSUME BenchAssumption, IInv, InTurn, [Next]_vars
  PROVE  InTurn'
<1>1. reads \in Seq(Sample) /\ Len(reads) \in Nat
  BY LenProperties DEF IInv, TypeOK
<1>2. CASE \E ok \in BOOLEAN : Read(ok)
  <2>1. PICK ok \in BOOLEAN : Read(ok)
    BY <1>2
  <2> DEFINE new == [joint |-> Len(reads) % Joints, success |-> ok,
                     completed |-> now]
  <2>2. new \in Sample /\ new.joint = Len(reads) % Joints
    BY <1>1, Constants DEF Sample, Joint, IInv, TypeOK
  <2>3. reads' = Append(reads, new)
    BY <2>1 DEF Read
  <2> HIDE DEF new
  <2>4. /\ Len(reads') = Len(reads) + 1 /\ reads'[Len(reads) + 1] = new
        /\ \A i \in 1 .. Len(reads) : reads'[i] = reads[i]
    BY <1>1, <2>2, <2>3, AppendProperties
  <2>5. Len(reads) + 1 - 1 = Len(reads)
    BY <1>1
  <2>6. ASSUME NEW i \in 1 .. Len(reads) + 1
        PROVE  reads'[i].joint = (i - 1) % Joints
    <3>1. CASE i \in 1 .. Len(reads)
      BY <2>4, <3>1 DEF InTurn
    <3>2. CASE i = Len(reads) + 1
      BY <2>2, <2>4, <2>5, <3>2
    <3> QED  BY <1>1, <3>1, <3>2
  <2> QED  BY <2>4, <2>6 DEF InTurn
<1>3. CASE UNCHANGED reads
  BY <1>3 DEF InTurn
<1>4. (\E ok \in BOOLEAN : Read(ok)) \/ UNCHANGED reads
  BY DEF Next, Reader, Observer, ClockTick, Over, Spawn, Loop, Publish,
         SetDone,
         PublishThrows, Join, NewObserver, Leave, Wake, Observe, Complete,
         CompleteThrows, vars, gathered
<1> QED  BY <1>2, <1>3, <1>4

LEMMA EndingPreserved ==
  ASSUME BenchAssumption, IInv, Ending, [Next]_vars
  PROVE  Ending'
<1> USE DEF Ending, shared, own, gathered
<1>1. Len(reads) \in Nat
  BY LenProperties DEF IInv, TypeOK
<1>2. CASE Publish
  BY <1>2 DEF Publish
<1>9. CASE Loop
  BY <1>9 DEF Loop, IInv, Progress, All
<1>3. CASE Spawn \/ PublishThrows
  BY <1>3 DEF Spawn, PublishThrows
<1>8. ASSUME NEW ok \in BOOLEAN, Read(ok) PROVE Ending'
  BY <1>8 DEF Read
<1>4. CASE SetDone
  BY <1>4 DEF SetDone
<1>5. CASE Join
  BY <1>5 DEF Join
<1>6. CASE Observer
  BY <1>6 DEF Observer, NewObserver, Leave, Wake, Observe, Complete,
              CompleteThrows
<1>7. CASE ClockTick \/ Over \/ UNCHANGED vars
  BY <1>7 DEF ClockTick, Over, vars
<1> QED  BY <1>2, <1>3, <1>4, <1>5, <1>6, <1>7, <1>8, <1>9
         DEF Next, Reader

\* completeCycle() skips a planned time when the cycle was late, and never
\* takes one back.
LEMMA LateSkipsOne ==
  ASSUME BenchAssumption, IInv
  PROVE  LET s == CompleteCycle(scheduler, now)
         IN /\ s.skipped \in Nat
            /\ s.skipped >= scheduler.skipped + One(Sampled.miss)
<1> DEFINE s == CompleteCycle(scheduler, now)
<1>1. scheduler \in Scheduler /\ now \in Int /\ scheduler.period = Period
      /\ scheduler.next \in Nat /\ Period \in Nat /\ scheduler.skipped \in Nat
  BY Constants DEF IInv, TypeOK, Grid, Scheduler
<1>2. PICK n \in Nat :
        /\ s = [period |-> scheduler.period,
                next |-> scheduler.next + (n + 1) * scheduler.period,
                skipped |-> scheduler.skipped + n]
        /\ now < scheduler.next + (n + 1) * scheduler.period
  BY <1>1, CycleOnTheGrid
<1>3. s.skipped = scheduler.skipped + n
  BY <1>2
<1>4. ASSUME Sampled.miss PROVE n >= 1
  <2>1. now > scheduler.next + Period
    BY <1>4 DEF Sampled
  <2>2. SUFFICES ASSUME n = 0 PROVE FALSE
    BY <1>2
  <2>3. (n + 1) * scheduler.period = Period
    BY <1>1, <2>2
  <2> QED  BY <1>1, <1>2, <2>1, <2>3
<1> HIDE DEF s
<1>5. s.skipped >= scheduler.skipped + One(Sampled.miss)
  BY <1>1, <1>2, <1>3, <1>4 DEF One
<1>6. s.skipped \in Nat
  BY <1>1, <1>2, <1>3
<1> QED  BY <1>5, <1>6 DEF s

LEMMA LateSkipsPreserved ==
  ASSUME BenchAssumption, IInv, Ending, LateSkips, [Next]_vars
  PROVE  LateSkips'
<1>1. ticks \in Seq(Tick) /\ Len(ticks) \in Nat
      /\ DOMAIN ticks = 1 .. Len(ticks) /\ scheduler.skipped \in Nat
  BY LenProperties DEF IInv, TypeOK, Scheduler
<1>2. IsFiniteSet(LateTicks) /\ Cardinality(LateTicks) \in Nat
  BY <1>1, SomePlaces DEF LateTicks
<1>3. CASE Complete
  <2>1. scheduler' = CompleteCycle(scheduler, now)
        /\ ticks' = Append(ticks, Sampled)
    BY <1>3 DEF Complete
  <2>2. Sampled \in Tick
    <3>1. (now > scheduler.next + Period) \in BOOLEAN
      OBVIOUS
    <3> QED  BY <3>1 DEF Sampled, Tick, IInv, TypeOK
  <2>3. /\ DOMAIN ticks' = 1 .. Len(ticks) + 1
        /\ ticks'[Len(ticks) + 1] = Sampled
        /\ \A i \in 1 .. Len(ticks) : ticks'[i] = ticks[i]
    BY <1>1, <2>1, <2>2, AppendProperties, LenProperties
  <2>4. LateTicks' =
          LateTicks \cup (IF Sampled.miss THEN {Len(ticks) + 1} ELSE {})
    BY <1>1, <2>3 DEF LateTicks
  <2>5. Cardinality(LateTicks') <= Cardinality(LateTicks) + One(Sampled.miss)
    <3>1. Cardinality(LateTicks \cup {Len(ticks) + 1}) <=
            Cardinality(LateTicks) + 1
      <4>1. Cardinality(LateTicks \cup {Len(ticks) + 1}) =
              IF Len(ticks) + 1 \in LateTicks THEN Cardinality(LateTicks)
                                             ELSE Cardinality(LateTicks) + 1
        BY <1>2, FS_AddElement
      <4> QED  BY <1>2, <4>1
    <3>2. CASE Sampled.miss
      BY <2>4, <3>1, <3>2 DEF One
    <3>3. CASE ~Sampled.miss
      <4>1. LateTicks' = LateTicks
        BY <2>4, <3>3
      <4> QED  BY <1>2, <3>3, <4>1 DEF One
    <3> QED  BY <3>2, <3>3
  <2>6. /\ scheduler'.skipped \in Nat
        /\ scheduler'.skipped >= scheduler.skipped + One(Sampled.miss)
    BY <2>1, LateSkipsOne
  <2>7. One(Sampled.miss) \in Nat
    BY DEF One
  <2>8. IsFiniteSet(LateTicks')
    <3>1. IsFiniteSet(LateTicks \cup {Len(ticks) + 1})
      BY <1>2, FS_AddElement
    <3> QED  BY <1>2, <2>4, <3>1
  <2>9. Cardinality(LateTicks') \in Nat
    BY <2>8, FS_CardinalityType
  <2> QED  BY <1>1, <1>2, <2>5, <2>6, <2>7, <2>9, <1>3
           DEF LateSkips, Complete
<1>4. CASE CompleteThrows
  <2>1. scheduler' = CompleteCycle(scheduler, now) /\ UNCHANGED ticks
    BY <1>4 DEF CompleteThrows
  <2>2. /\ scheduler'.skipped \in Nat
        /\ scheduler'.skipped >= scheduler.skipped + One(Sampled.miss)
    BY <2>1, LateSkipsOne
  <2>3. One(Sampled.miss) \in Nat
    BY DEF One
  <2>4. LateTicks' = LateTicks
    BY <2>1 DEF LateTicks
  <2> QED
    BY <1>1, <1>2, <1>4, <2>2, <2>3, <2>4 DEF LateSkips, CompleteThrows
<1>5. CASE NewObserver
  \* The scheduler is made anew before the first cycle.
  <2>1. UNCHANGED ticks /\ scheduler'.skipped = 0
    BY <1>5 DEF NewObserver, NewScheduler
  <2>2. LateTicks = {} /\ LateTicks' = {}
    BY <1>5, <2>1 DEF LateSkips, LateTicks, NewObserver
  <2>3. Cardinality(LateTicks') = 0
    BY <2>2, FS_EmptySet
  <2> QED  BY <2>1, <2>2, <2>3 DEF LateSkips
<1>6. CASE /\ UNCHANGED <<ticks, scheduler>>
           /\ observer' \in {"none", "new"} => observer \in {"none", "new"}
  BY <1>6 DEF LateSkips, LateTicks
<1>7. \/ Complete \/ CompleteThrows \/ NewObserver
      \/ /\ UNCHANGED <<ticks, scheduler>>
         /\ observer' \in {"none", "new"} => observer \in {"none", "new"}
  BY DEF Next, Reader, Observer, ClockTick, Over, Spawn, Loop, Read,
         Publish, SetDone, PublishThrows, Join, Leave, Wake, Observe, vars,
         own, Ending
<1> QED  BY <1>3, <1>4, <1>5, <1>6, <1>7

\* The counters hold what they are computed of, and no more.
LEMMA StaleBounded ==
  ASSUME BenchAssumption, TypeOK
  PROVE  StaleSum <= Joints * Len(ticks)
<1>1. /\ ticks \in Seq(Tick) /\ Len(ticks) \in Nat
      /\ DOMAIN ticks = 1 .. Len(ticks) /\ Joints \in Nat
  BY LenProperties, Constants DEF TypeOK
<1>2. /\ IsFiniteSet(1 .. Len(ticks))
      /\ Cardinality(1 .. Len(ticks)) = Len(ticks)
      /\ IsFiniteSet(1 .. Joints) /\ Cardinality(1 .. Joints) = Joints
  BY <1>1, UpTo
<1>3. /\ IsFiniteSet((DOMAIN ticks) \X (1 .. Joints))
      /\ Cardinality((DOMAIN ticks) \X (1 .. Joints)) = Len(ticks) * Joints
  <2>1. /\ IsFiniteSet((1 .. Len(ticks)) \X (1 .. Joints))
        /\ Cardinality((1 .. Len(ticks)) \X (1 .. Joints)) =
             Cardinality(1 .. Len(ticks)) * Cardinality(1 .. Joints)
    BY <1>2, FS_Product
  <2> QED  BY <1>1, <1>2, <2>1
<1>4. StaleSum <= Cardinality((DOMAIN ticks) \X (1 .. Joints))
  BY <1>3, FS_Subset DEF StaleSum
<1>5. Len(ticks) * Joints = Joints * Len(ticks)
  BY <1>1
<1> QED  BY <1>3, <1>4, <1>5

LEMMA ReportedPreserved ==
  ASSUME BenchAssumption, IInv, Ending, LateSkips, Reported, [Next]_vars
  PROVE  Reported'
<1>1. CASE Join
  <2>1. UNCHANGED <<ticks, scheduler>>
    BY <1>1 DEF Join, own
  <2>2. SUFFICES ASSUME reader' = "returned"
                 PROVE  /\ Aggregate.misses <= Aggregate.skipped
                        /\ Aggregate.stale <= Joints * Len(ticks)
    BY <1>1, <2>1 DEF Join, Reported
  <2>3. Aggregate.misses = Cardinality(LateTicks)
    BY DEF Aggregate, Count, LateTicks
  <2> QED  BY <2>3, StaleBounded DEF Aggregate, LateSkips, IInv
<1>2. CASE reader = "returned"
  <2>1. UNCHANGED <<report, ticks>>
    BY <1>2 DEF Ending, Next, Reader, Observer, ClockTick, Over, Spawn, Loop,
                Read, Publish, SetDone, PublishThrows, Join, NewObserver, Leave,
                Wake, Observe, Complete, CompleteThrows, vars, own
  <2> QED  BY <1>2, <2>1 DEF Reported
<1>3. ASSUME ~Join, reader # "returned" PROVE reader' # "returned"
  BY <1>3 DEF Next, Reader, Observer, ClockTick, Over, Spawn, Loop, Read,
              Publish, SetDone, PublishThrows, NewObserver, Leave, Wake,
              Observe, Complete, CompleteThrows, vars
<1> QED  BY <1>1, <1>2, <1>3 DEF Reported

LEMMA WholeInductive ==
  BenchAssumption /\ IInv /\ Whole /\ [Next]_vars => Whole'
BY InTurnPreserved, EndingPreserved, LateSkipsPreserved, ReportedPreserved
   DEF Whole

\* Reading in turn through all rounds meets each joint once a round.
LEMMA RoundsOfJoint ==
  ASSUME BenchAssumption, NEW j \in Joint
  PROVE  Cardinality({i \in 1 .. All : (i - 1) % Joints = j}) = Rounds
<1> DEFINE S == {i \in 1 .. All : (i - 1) % Joints = j}
           f == [r \in 1 .. Rounds |-> (r - 1) * Joints + j + 1]
<1>1. /\ Joints \in Nat \ {0} /\ Rounds \in Nat \ {0} /\ j \in 0 .. Joints - 1
      /\ j \in Int /\ All = Rounds * Joints /\ All \in Nat
  BY Constants DEF Joint, All
<1>2. ASSUME NEW r \in 1 .. Rounds PROVE f[r] \in S
  <2>1. f[r] = (r - 1) * Joints + j + 1 /\ (r - 1) * Joints \in Nat
    BY <1>1
  <2>2. (r - 1) * Joints + Joints <= All
    <3>1. r * Joints <= Rounds * Joints
      BY <1>1, Monotone
    <3>2. r * Joints = (r - 1) * Joints + Joints
      BY <1>1, OneLess
    <3> QED  BY <1>1, <3>1, <3>2
  <2>3. f[r] \in 1 .. All
    BY <1>1, <2>1, <2>2
  <2>4. ((r - 1) * Joints + j) % Joints = j
    BY <1>1, Turns
  <2>5. f[r] - 1 = (r - 1) * Joints + j
    BY <1>1, <2>1
  <2> HIDE DEF f
  <2> QED  BY <2>3, <2>4, <2>5
<1>3. ASSUME NEW r \in 1 .. Rounds, NEW t \in 1 .. Rounds, f[r] = f[t]
      PROVE  r = t
  <2>1. (r - 1) * Joints = (t - 1) * Joints
    BY <1>1, <1>3
  <2>2. ASSUME NEW a \in 1 .. Rounds, NEW b \in 1 .. Rounds, a < b
        PROVE  (a - 1) * Joints < (b - 1) * Joints
    <3>1. a * Joints <= (b - 1) * Joints
      BY <1>1, <2>2, Monotone
    <3>2. a * Joints = (a - 1) * Joints + Joints
      BY <1>1, OneLess
    <3>3. (a - 1) * Joints \in Int /\ (b - 1) * Joints \in Int
      BY <1>1
    <3> QED  BY <1>1, <3>1, <3>2, <3>3
  <2>3. ~(r < t) /\ ~(t < r)
    BY <1>1, <2>1, <2>2
  <2> QED  BY <2>3
<1>4. ASSUME NEW i \in S PROVE \E r \in 1 .. Rounds : f[r] = i
  <2> DEFINE q == (i - 1) \div Joints
  <2>1. i \in 1 .. All /\ (i - 1) % Joints = j /\ i - 1 \in Nat
    BY <1>1
  <2>2. q \in Nat /\ Joints * q <= i - 1 /\ i - 1 < Joints * q + Joints
    BY <1>1, <2>1, Division
  <2>3. i - 1 = Joints * q + j
    BY <1>1, <2>1
  <2> HIDE DEF q
  <2>4. q + 1 <= Rounds
    <3>1. SUFFICES ASSUME Rounds <= q PROVE FALSE
      BY <1>1, <2>2
    <3>2. Rounds * Joints <= q * Joints
      BY <1>1, <2>2, <3>1, Monotone
    <3>3. q * Joints = Joints * q /\ Joints * q \in Int
      BY <1>1, <2>2
    <3> QED  BY <1>1, <2>1, <2>2, <3>2, <3>3
  <2>5. q + 1 \in 1 .. Rounds /\ (q + 1) - 1 = q
    BY <1>1, <2>2, <2>4
  <2>6. q * Joints = Joints * q /\ Joints * q \in Int
    BY <1>1, <2>2
  <2>7. f[q + 1] = q * Joints + j + 1
    BY <2>5
  <2>8. f[q + 1] = i
    BY <1>1, <2>1, <2>3, <2>6, <2>7
  <2> QED  BY <2>5, <2>8
<1>5. f \in [1 .. Rounds -> S]
  BY <1>2
<1> HIDE DEF f, S
<1>6. f \in Bijection(1 .. Rounds, S)
  BY <1>3, <1>4, <1>5 DEF Bijection, Injection, Surjection, IsInjective
<1>7. IsFiniteSet(1 .. Rounds) /\ Cardinality(1 .. Rounds) = Rounds
  BY <1>1, UpTo
<1>8. Cardinality(S) = Rounds
  BY <1>6, <1>7, FS_Bijection DEF ExistsBijection
<1> QED  BY <1>8 DEF S

\* A report is of a complete run, for any number of servos and rounds, any
\* period and clock and wherever the two threads throw
\* (ReadOnlyBench.cpp:33-49, 125-142).
THEOREM ReportsAreWhole == Spec => []ReportIsWhole
<1>1. ASSUME BenchAssumption, IInv, Whole, reader = "returned", NEW j \in Joint
      PROVE  Cardinality(SamplesOf(j)) = Rounds
  <2>1. Len(reads) = All /\ published = All
    BY <1>1 DEF Whole, Ending
  <2>2. SamplesOf(j) = Of(j, All)
    BY <1>1, <2>1, SamplesAreOf
  <2>3. Of(j, All) = {i \in 1 .. All : (i - 1) % Joints = j}
    BY <1>1, <2>1 DEF Whole, InTurn, Of
  <2> QED  BY <1>1, <2>2, <2>3, RoundsOfJoint
<1>2. BenchAssumption /\ IInv /\ Whole => ReportIsWhole
  BY <1>1 DEF ReportIsWhole, Whole, Ending, Reported, All
<1> QED  BY <1>2, BenchAssumption, Initially, Inductive, WholeInitially,
            WholeInductive, PTL DEF Spec

-----------------------------------------------------------------------------
(* Both threads come to their ends *)

\* How many steps the calling thread still has, in the worst case.
ReaderLeft ==
  CASE reader = "start" -> 3 * All + 4
    [] reader = "loop" -> 3 * (All - Len(reads)) + 3
    [] reader = "reading" -> 3 * (All - Len(reads)) + 2
    [] reader = "publish" -> 3 * (All - Len(reads)) + 4
    [] reader = "closing" -> 2
    [] reader \in {"join", "rethrow"} -> 1
    [] reader \in {"returned", "thrown"} -> 0

\* And the control thread, once done is set.
ObserverLeft ==
  CASE observer \in {"none", "ended"} -> 0
    [] observer = "sleep" -> 1
    [] observer \in {"new", "complete"} -> 2
    [] observer = "observe" -> 3

FewStepsLeft == ReaderLeft \in 0 .. 3 * All + 4 /\ ObserverLeft \in 0 .. 3

\* A thread that is joined has been made and has been told.
Told ==
  /\ observer = "none" => reader \in {"start", "thrown"}
  /\ reader \in {"join", "rethrow"} => done

\* Each step of the calling thread uses one up, whoever throws; done is never
\* taken back, and after it each step of the control thread uses one up too.
WindsDown ==
  /\ Reader => ReaderLeft' < ReaderLeft
  /\ done => done' /\ (Observer => ObserverLeft' < ObserverLeft)
  /\ Observer => UNCHANGED <<reader, reads>>

LEMMA ReaderWindsDown ==
  ASSUME BenchAssumption, IInv, Reader
  PROVE  ReaderLeft' < ReaderLeft
<1>1. /\ Len(reads) \in Nat /\ reads \in Seq(Sample) /\ Len(reads) <= All
      /\ All \in Nat \ {0}
  BY Constants, LenProperties DEF IInv, TypeOK, All
<1>2. CASE Spawn
  <2>1. /\ reader = "start" /\ reader' \in {"loop", "thrown"}
        /\ reads' = reads /\ Len(reads) >= 0
    BY <1>1, <1>2 DEF Spawn, gathered
  <2> QED  BY <1>1, <2>1 DEF ReaderLeft
<1>3. ASSUME NEW ok \in BOOLEAN, Read(ok)
      PROVE  ReaderLeft' < ReaderLeft
  <2> DEFINE new == [joint |-> Len(reads) % Joints, success |-> ok,
                     completed |-> now]
  <2>1. /\ reader = "reading" /\ reader' = "publish"
        /\ reads' = Append(reads, new)
    BY <1>3 DEF Read
  <2>2. new \in Sample
    BY <1>1, Constants DEF Sample, Joint, IInv, TypeOK
  <2> HIDE DEF new
  <2>3. Len(reads') = Len(reads) + 1
    BY <1>1, <2>1, <2>2, AppendProperties
  <2> QED  BY <1>1, <2>1, <2>3 DEF ReaderLeft
<1>4. CASE Publish
  <2>1. reader = "publish" /\ reader' = "loop" /\ reads' = reads
    BY <1>4 DEF Publish, gathered
  <2> QED  BY <1>1, <2>1 DEF ReaderLeft
<1>7. CASE Loop
  <2>1. reader = "loop" /\ reader' \in {"closing", "reading"}
        /\ reads' = reads
    BY <1>7 DEF Loop, gathered
  <2> QED  BY <1>1, <2>1 DEF ReaderLeft
<1>5. CASE SetDone \/ PublishThrows
  <2>1. \/ reader = "closing" /\ reader' = "join"
        \/ reader = "publish" /\ reader' = "rethrow"
    BY <1>5 DEF SetDone, PublishThrows
  <2> QED  BY <1>1, <2>1 DEF ReaderLeft
<1>6. CASE Join
  <2>1. reader \in {"join", "rethrow"} /\ reader' \in {"returned", "thrown"}
    BY <1>6 DEF Join
  <2> QED  BY <2>1 DEF ReaderLeft
<1> QED  BY <1>2, <1>3, <1>4, <1>5, <1>6, <1>7 DEF Reader

LEMMA BenchWindsDown ==
  ASSUME BenchAssumption, IInv, Next
  PROVE  WindsDown \/ UNCHANGED vars
<1>1. Reader => ReaderLeft' < ReaderLeft
  BY ReaderWindsDown
<1>2. ASSUME Observer PROVE UNCHANGED <<reader, reads>>
  BY <1>2 DEF Observer, NewObserver, Leave, Wake, Observe, Complete,
     CompleteThrows, gathered
<1>3. ASSUME done, Observer PROVE ObserverLeft' < ObserverLeft
  <2>1. \/ observer = "new" /\ observer' = "sleep"
        \/ observer = "sleep" /\ observer' = "ended"
        \/ observer = "observe" /\ observer' = "complete"
        \/ observer = "complete" /\ observer' = "ended"
    BY <1>3 DEF Observer, NewObserver, Leave, Wake, Observe, Complete,
       CompleteThrows
  <2> QED  BY <2>1 DEF ObserverLeft
<1>4. ASSUME done, ~UNCHANGED vars PROVE done'
  BY <1>4 DEF Next, Reader, Observer, ClockTick, Over, Spawn, Loop, Read,
     Publish, SetDone, PublishThrows, Join, NewObserver, Leave, Wake,
     Observe, Complete, CompleteThrows, shared
<1> QED  BY <1>1, <1>2, <1>3, <1>4 DEF WindsDown

LEMMA ToldPreserved ==
  ASSUME Told, [Next]_vars
  PROVE  Told'
<1> USE DEF Told, shared, own, gathered
<1>1. CASE Reader
  BY <1>1 DEF Reader, Spawn, Loop, Read, Publish, SetDone,
     PublishThrows, Join
<1>2. CASE Observer
  BY <1>2 DEF Observer, NewObserver, Leave, Wake, Observe, Complete,
     CompleteThrows
<1>3. CASE ClockTick \/ Over \/ UNCHANGED vars
  BY <1>3 DEF ClockTick, Over, vars
<1> QED  BY <1>1, <1>2, <1>3 DEF Next

\* run() has a bounded number of steps in it, for any number of servos and
\* rounds and wherever the two threads throw; it joins a thread that exists and
\* has been told to end, and one that has been told takes three steps at most:
\* the safety half of RunEnds, which only the clock can hold up
\* (ReadOnlyBench.cpp:33-139).
THEOREM RunTakesFewSteps ==
  Spec => /\ []FewStepsLeft /\ []Told
          /\ [][WindsDown]_vars
<1>1. Init => Told
  BY DEF Init, Told
<1>2. Told /\ [Next]_vars => Told'
  BY ToldPreserved
<1>3. ASSUME BenchAssumption, IInv PROVE FewStepsLeft
  <2>1. /\ Len(reads) \in Nat /\ Len(reads) <= All /\ All \in Nat \ {0}
        /\ reader = "publish" => Len(reads) >= 1
    BY <1>3, Constants, LenProperties
    DEF IInv, TypeOK, All, Progress, Feedback
  <2>2. ObserverLeft \in 0 .. 3
    BY <1>3 DEF IInv, TypeOK, ObserverLeft
  <2>3. ReaderLeft \in 0 .. 3 * All + 4
    <3>1. reader \in {"start", "loop", "reading", "publish", "closing",
                      "rethrow", "join", "returned", "thrown"}
      BY <1>3 DEF IInv, TypeOK
    <3>2. CASE reader \in {"loop", "reading"}
      BY <2>1, <3>2 DEF ReaderLeft
    <3>3. CASE reader = "publish"
      <4>1. ReaderLeft = 3 * (All - Len(reads)) + 4
        BY <3>3 DEF ReaderLeft
      <4> QED  BY <2>1, <3>3, <4>1
    <3>4. CASE reader \notin {"loop", "reading", "publish"}
      BY <2>1, <3>1, <3>4 DEF ReaderLeft
    <3> QED  BY <3>2, <3>3, <3>4
  <2> QED  BY <2>2, <2>3 DEF FewStepsLeft
<1>4. BenchAssumption /\ IInv /\ [Next]_vars => [WindsDown]_vars
  BY BenchWindsDown
<1> QED  BY <1>1, <1>2, <1>3, <1>4, BenchAssumption, Initially, Inductive, PTL
         DEF Spec
=============================================================================
