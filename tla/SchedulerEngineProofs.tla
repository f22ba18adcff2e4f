------------------------ MODULE SchedulerEngineProofs ------------------------
(***************************************************************************)
(* The engine of the HH scheduler never has two batches and never cuts a   *)
(* delay short, for every interval, backoff and jitter that its            *)
(* configuration allows and any number of failures.                        *)
(***************************************************************************)
EXTENDS SchedulerEngine, SequenceTheorems, WellFoundedInduction, TLAPS

-----------------------------------------------------------------------------
(* The delays of the scheduler engine.  Both recursive functions start from one number *)
(* and go on by one step: that they exist follows from a smallest counterexample. *)

LEMMA EngineNumbers ==
    /\ Interval \in Nat \ {0} /\ BackoffInitial \in Nat \ {0} /\ BackoffMax \in Nat
    /\ BackoffInitial <= BackoffMax
    /\ JitterPercent \in Nat /\ JitterPercent <= 100 /\ FailureLimit \in Nat
  BY ConfigAssumption

LEMMA SmallestNumber ==
    ASSUME NEW S \in SUBSET Nat, S # {}
    PROVE  \E x \in S : \A y \in S : x <= y
<1>1. PICK x \in S : \A y \in S : <<y, x>> \notin OpToRel(<, Nat)
  BY WFMin, NatLessThanWellFounded
<1>2. \A y \in S : ~(y < x)
  BY <1>1 DEF OpToRel
<1> QED
  BY <1>2

\* What holds of 1 and goes on from each number to the next holds up to n.
LEMMA UpTo ==
    ASSUME NEW n \in Nat, NEW S, 1 \in S,
           \A i \in 1..n : i # 1 /\ i - 1 \in S => i \in S
    PROVE  1..n \subseteq S
<1> DEFINE Bad == {i \in 1..n : i \notin S}
<1>1. Bad = {}
  <2> SUFFICES ASSUME Bad # {} PROVE FALSE
    OBVIOUS
  <2>1. Bad \in SUBSET Nat
    OBVIOUS
  <2>2. PICK i \in Bad : \A j \in Bad : i <= j
    <3> HIDE DEF Bad
    <3> QED
      BY <2>1, SmallestNumber
  <2>3. i \in 1..n /\ i # 1 /\ i \notin S
    OBVIOUS
  <2>4. i - 1 \in 1..n /\ ~(i <= i - 1)
    BY <2>3
  <2>5. i - 1 \in S
    BY <2>2, <2>4
  <2> QED
    BY <2>3, <2>5
<1> QED
  BY <1>1

\* h starts at a and goes on by step, n times.
Repeats(h, a, step, n) ==
    /\ h \in [1..n -> Nat]
    /\ \A i \in 1..n : h[i] = IF i = 1 THEN a ELSE step[h[i - 1]]

LEMMA OneMore ==
    ASSUME NEW a \in Nat, NEW step \in [Nat -> Nat], NEW n \in Nat, NEW h,
           Repeats(h, a, step, n)
    PROVE  \E k : Repeats(k, a, step, n + 1)
<1> DEFINE last == IF n = 0 THEN a ELSE step[h[n]]
           k == [i \in 1..(n + 1) |-> IF i <= n THEN h[i] ELSE last]
<1>1. last \in Nat
  BY DEF Repeats
<1>2. \A i \in 1..(n + 1) : (i <= n => i \in 1..n) /\ (~(i <= n) => i = n + 1)
  OBVIOUS
<1>3. k \in [1..(n + 1) -> Nat]
  <2>1. \A i \in 1..n : h[i] \in Nat
    BY DEF Repeats
  <2>2. \A i \in 1..(n + 1) : (IF i <= n THEN h[i] ELSE last) \in Nat
    <3> HIDE DEF last
    <3> QED
      BY <1>1, <1>2, <2>1
  <2> HIDE DEF last
  <2> QED
    BY <2>2
<1>4. \A i \in 1..(n + 1) : k[i] = IF i <= n THEN h[i] ELSE last
  BY Zenon
<1>5. ASSUME NEW i \in 1..(n + 1) PROVE k[i] = IF i = 1 THEN a ELSE step[k[i - 1]]
  <2>1. i = 1 \/ (i - 1 \in 1..n /\ i - 1 \in 1..(n + 1) /\ i - 1 <= n)
    OBVIOUS
  <2>2. i # 1 => k[i - 1] = h[i - 1]
    <3> HIDE DEF k, last
    <3> QED
      BY <1>4, <2>1
  <2>3. CASE i <= n
    <3>1. h[i] = IF i = 1 THEN a ELSE step[h[i - 1]]
      BY <1>2, <2>3 DEF Repeats
    <3> HIDE DEF k, last
    <3> QED
      BY <1>4, <2>2, <2>3, <3>1
  <2>4. CASE i = n + 1
    <3>1. last = IF i = 1 THEN a ELSE step[h[i - 1]]
      BY <2>4
    <3>2. k[i] = last
      <4> HIDE DEF k, last
      <4> QED
        BY <1>4, <2>4
    <3> HIDE DEF k, last
    <3> QED
      BY <2>2, <3>1, <3>2
  <2> QED
    BY <1>2, <2>3, <2>4
<1>6. Repeats(k, a, step, n + 1)
  <2> HIDE DEF k
  <2> QED
    BY <1>3, <1>5 DEF Repeats
<1> QED
  BY <1>6

LEMMA RepeatsExist ==
    ASSUME NEW a \in Nat, NEW step \in [Nat -> Nat]
    PROVE  \A n \in Nat : \E h : Repeats(h, a, step, n)
<1> DEFINE Bad == {n \in Nat : ~ \E h : Repeats(h, a, step, n)}
<1>1. 0 \notin Bad
  <2>1. Repeats([i \in 1..0 |-> a], a, step, 0)
    BY DEF Repeats
  <2> QED
    BY <2>1
<1>2. Bad = {}
  <2> SUFFICES ASSUME Bad # {} PROVE FALSE
    OBVIOUS
  <2>1. Bad \in SUBSET Nat
    OBVIOUS
  <2>2. PICK n \in Bad : \A m \in Bad : n <= m
    <3> HIDE DEF Bad
    <3> QED
      BY <2>1, SmallestNumber
  <2>3. n - 1 \in Nat /\ n - 1 \notin Bad /\ (n - 1) + 1 = n
    <3> HIDE DEF Bad
    <3> QED
      BY <1>1, <2>1, <2>2
  <2>4. PICK h : Repeats(h, a, step, n - 1)
    BY <2>3
  <2>5. \E k : Repeats(k, a, step, (n - 1) + 1)
    BY <2>3, <2>4, OneMore
  <2> QED
    BY <2>3, <2>5
<1> QED
  BY <1>2

Growing == [d \in Nat |-> Grow(d)]
Doubling == [d \in Nat |-> 2 * d]

LEMMA StepsAreNumbers == Growing \in [Nat -> Nat] /\ Doubling \in [Nat -> Nat]
<1>1. \A d \in Nat : Grow(d) \in Nat
  BY EngineNumbers DEF Grow
<1>2. \A d \in Nat : 2 * d \in Nat
  OBVIOUS
<1> QED
  BY <1>1, <1>2 DEF Growing, Doubling

LEMMA BackoffRepeats ==
    ASSUME NEW n \in Nat \ {0}
    PROVE  \E h : Repeats(h, BackoffInitial, Growing, n) /\ Backoff(n) = h[n]
<1> DEFINE Is(h) == h = [i \in 1..n |-> IF i = 1 THEN BackoffInitial ELSE Grow(h[i - 1])]
<1>1. PICK h : Repeats(h, BackoffInitial, Growing, n)
  BY RepeatsExist, StepsAreNumbers, EngineNumbers
<1>2. \A i \in 1..n : h[i] = IF i = 1 THEN BackoffInitial ELSE Grow(h[i - 1])
  <2> SUFFICES ASSUME NEW i \in 1..n, i # 1 PROVE h[i] = Grow(h[i - 1])
    BY <1>1 DEF Repeats
  <2>1. h[i - 1] \in Nat
    BY <1>1 DEF Repeats
  <2>2. Growing[h[i - 1]] = Grow(h[i - 1])
    BY <2>1, Zenon DEF Growing
  <2> QED
    BY <1>1, <2>2 DEF Repeats
<1>3. Is(h)
  <2>1. h = [i \in 1..n |-> h[i]]
    BY <1>1 DEF Repeats
  <2> QED
    BY <1>2, <2>1, Zenon
<1> DEFINE d == CHOOSE k : Is(k)
<1>4. Is(d)
  <2> HIDE DEF Is
  <2> QED
    BY <1>3, Zenon
<1>5. Backoff(n) = d[n]
  BY Zenon DEF Backoff
<1> HIDE DEF d
<1>6. \A i \in 1..n : d[i] = IF i = 1 THEN BackoffInitial ELSE Grow(d[i - 1])
  BY <1>4, Zenon
<1> DEFINE Same == {i \in 1..n : d[i] = h[i]}
<1>7. 1..n \subseteq Same
  <2>1. 1 \in Same
    BY <1>2, <1>6
  <2>2. \A i \in 1..n : i # 1 /\ i - 1 \in Same => i \in Same
    BY <1>2, <1>6
  <2> HIDE DEF Same
  <2> QED
    BY <2>1, <2>2, UpTo
<1> QED
  BY <1>1, <1>5, <1>7

LEMMA DoubledRepeats ==
    ASSUME NEW n \in Nat \ {0}
    PROVE  \E h : Repeats(h, BackoffInitial, Doubling, n) /\ Doubled(n) = h[n]
<1> DEFINE Is(h) == h = [i \in 1..n |-> IF i = 1 THEN BackoffInitial ELSE 2 * h[i - 1]]
<1>1. PICK h : Repeats(h, BackoffInitial, Doubling, n)
  BY RepeatsExist, StepsAreNumbers, EngineNumbers
<1>2. \A i \in 1..n : h[i] = IF i = 1 THEN BackoffInitial ELSE 2 * h[i - 1]
  <2> SUFFICES ASSUME NEW i \in 1..n, i # 1 PROVE h[i] = 2 * h[i - 1]
    BY <1>1 DEF Repeats
  <2>1. h[i - 1] \in Nat
    BY <1>1 DEF Repeats
  <2>2. Doubling[h[i - 1]] = 2 * h[i - 1]
    BY <2>1, Zenon DEF Doubling
  <2> QED
    BY <1>1, <2>2 DEF Repeats
<1>3. Is(h)
  <2>1. h = [i \in 1..n |-> h[i]]
    BY <1>1 DEF Repeats
  <2> QED
    BY <1>2, <2>1, Zenon
<1> DEFINE d == CHOOSE k : Is(k)
<1>4. Is(d)
  <2> HIDE DEF Is
  <2> QED
    BY <1>3, Zenon
<1>5. Doubled(n) = d[n]
  BY Zenon DEF Doubled
<1> HIDE DEF d
<1>6. \A i \in 1..n : d[i] = IF i = 1 THEN BackoffInitial ELSE 2 * d[i - 1]
  BY <1>4, Zenon
<1> DEFINE Same == {i \in 1..n : d[i] = h[i]}
<1>7. 1..n \subseteq Same
  <2>1. 1 \in Same
    BY <1>2, <1>6
  <2>2. \A i \in 1..n : i # 1 /\ i - 1 \in Same => i \in Same
    BY <1>2, <1>6
  <2> HIDE DEF Same
  <2> QED
    BY <2>1, <2>2, UpTo
<1> QED
  BY <1>1, <1>5, <1>7

\* The loop of backoff is the doubling, cut off at the maximum, for any number of failures.
LEMMA BackoffIsDoubling ==
    ASSUME NEW n \in Nat \ {0}
    PROVE  /\ Doubled(n) \in Nat
           /\ Backoff(n) = Smaller(BackoffMax, Doubled(n))
<1>1. PICK g : Repeats(g, BackoffInitial, Growing, n) /\ Backoff(n) = g[n]
  BY BackoffRepeats
<1>2. PICK h : Repeats(h, BackoffInitial, Doubling, n) /\ Doubled(n) = h[n]
  BY DoubledRepeats
<1> DEFINE Same == {i \in 1..n : g[i] = Smaller(BackoffMax, h[i])}
<1>3. 1 \in Same
  BY <1>1, <1>2, EngineNumbers DEF Repeats, Smaller
<1>4. ASSUME NEW i \in 1..n, i # 1, i - 1 \in Same PROVE i \in Same
  <2>1. g[i - 1] \in Nat /\ h[i - 1] \in Nat /\ g[i - 1] = Smaller(BackoffMax, h[i - 1])
    BY <1>1, <1>2, <1>4 DEF Repeats
  <2>2. g[i] = Grow(g[i - 1]) /\ h[i] = 2 * h[i - 1]
    <3>1. Growing[g[i - 1]] = Grow(g[i - 1]) /\ Doubling[h[i - 1]] = 2 * h[i - 1]
      BY <2>1, Zenon DEF Growing, Doubling
    <3> QED
      BY <1>1, <1>2, <1>4, <3>1 DEF Repeats
  <2>3. \A e \in Nat : Grow(Smaller(BackoffMax, e)) = Smaller(BackoffMax, 2 * e)
    BY EngineNumbers DEF Grow, Smaller
  <2> QED
    BY <2>1, <2>2, <2>3
<1>5. 1..n \subseteq Same
  <2> HIDE DEF Same
  <2> QED
    BY <1>3, <1>4, UpTo
<1>6. n \in 1..n
  OBVIOUS
<1> QED
  BY <1>1, <1>2, <1>5, <1>6 DEF Repeats

LEMMA LongestIsNumber == LongestBackoff \in Nat
<1>1. BackoffMax * (100 + JitterPercent) \in Nat
  BY EngineNumbers
<1>2. \A x \in Nat : x \div 100 \in Nat
  OBVIOUS
<1> QED
  BY <1>1, <1>2 DEF LongestBackoff

\* The jitter is monotone in the delay: a delay within the maximum stays within its share.
LEMMA JitterBounds ==
    ASSUME NEW d \in Nat, d <= BackoffMax, NEW r \in Jittered(d)
    PROVE  r \in Nat /\ r <= LongestBackoff /\ LongestBackoff \in Nat
<1> DEFINE up == 100 + JitterPercent
           down == 100 - JitterPercent
<1>1. up \in Nat /\ down \in Nat /\ BackoffMax \in Nat
  BY EngineNumbers
<1> HIDE DEF up, down
<1>2. d * down \in Nat /\ d * up \in Nat /\ BackoffMax * up \in Nat
  BY <1>1
<1>3. d * up <= BackoffMax * up
  BY <1>1
<1>4. \A x, y \in Nat : x <= y => x \div 100 <= y \div 100 /\ x \div 100 \in Nat
  OBVIOUS
<1>5. (d * up) \div 100 <= (BackoffMax * up) \div 100 /\ (d * down) \div 100 \in Nat
      /\ (d * up) \div 100 \in Nat /\ (BackoffMax * up) \div 100 \in Nat
  BY <1>2, <1>3, <1>4
<1>6. r \in ((d * down) \div 100)..((d * up) \div 100)
  BY DEF Jittered, up, down
<1>7. LongestBackoff = (BackoffMax * up) \div 100
  BY DEF LongestBackoff, up
<1> QED
  BY <1>5, <1>6, <1>7

-----------------------------------------------------------------------------
(* The scheduler engine *)

\* Time counts down the delay that is left together with the timer, which a tick finds at 0.
RestWithTimer == place = "select" => rest <= left

\* The bound of the model leaves room for the failure that is on its way.
RoomForFailure == done # <<>> /\ Head(done) = "failed" => failures < FailureLimit

EngineInv ==
    TypeOK /\ NoOverlap /\ CleanStopAfterBatch /\ RestWithTimer /\ RoomForFailure

LEMMA EmptyChannel == <<>> \in Seq(Outcome) /\ Len(<<>>) = 0
  BY EmptySeq

LEMMA EngineStarts == Init => EngineInv
<1> SUFFICES ASSUME Init PROVE EngineInv
  OBVIOUS
<1> USE EngineNumbers DEF Init
<1>1. TypeOK
  <2>1. done \in Seq(Outcome) /\ Len(done) <= 1
    BY EmptyChannel
  <2>2. batches \in Nat /\ active \in BOOLEAN
    OBVIOUS
  <2>3. left \in Nat /\ rest \in Nat /\ rest <= Interval /\ failures \in 0..FailureLimit
    OBVIOUS
  <2> QED
    BY <2>1, <2>2, <2>3, Zenon DEF TypeOK
<1>2. NoOverlap
  BY EmptyChannel DEF NoOverlap
<1>3. CleanStopAfterBatch /\ RestWithTimer /\ RoomForFailure
  BY DEF CleanStopAfterBatch, RestWithTimer, RoomForFailure
<1> QED
  BY <1>1, <1>2, <1>3 DEF EngineInv

\* The channel holds nothing, or one outcome.
LEMMA OneOutcome ==
    ASSUME TypeOK, done # <<>>
    PROVE  Len(done) = 1 /\ Head(done) \in Outcome /\ Tail(done) = <<>>
<1>1. done \in Seq(Outcome) /\ Len(done) <= 1
  BY DEF TypeOK
<1>2. Len(done) = 1
  BY <1>1, EmptySeq
<1>3. Tail(done) \in Seq(Outcome) /\ Len(Tail(done)) = 0
  BY <1>1, <1>2, HeadTailProperties
<1>4. Tail(done) = <<>>
  BY <1>3, EmptySeq
<1>5. Head(done) \in Outcome
  BY <1>1, HeadTailProperties
<1> QED
  BY <1>2, <1>4, <1>5

LEMMA TickKeeps == EngineInv /\ Tick => EngineInv'
<1> SUFFICES ASSUME EngineInv, Tick PROVE EngineInv'
  OBVIOUS
<1> USE EngineNumbers DEF EngineInv, Tick, Start
<1>1. TypeOK'
  <2>1. active' \in BOOLEAN
    BY Zenon DEF TypeOK
  <2>2. batches' \in Nat
    BY DEF TypeOK
  <2> QED
    BY <2>1, <2>2 DEF TypeOK
<1>2. NoOverlap'
  BY DEF NoOverlap, TypeOK
<1>3. CleanStopAfterBatch' /\ RoomForFailure'
  BY DEF CleanStopAfterBatch, RoomForFailure
<1>4. RestWithTimer'
  BY DEF RestWithTimer, TypeOK
<1> QED
  BY <1>1, <1>2, <1>3, <1>4

LEMMA ReceiveKeeps == EngineInv /\ Receive => EngineInv'
<1> SUFFICES ASSUME EngineInv, Receive PROVE EngineInv'
  OBVIOUS
<1> USE EngineNumbers DEF EngineInv, Receive
<1>1. Len(done) = 1 /\ Head(done) \in Outcome /\ done' = <<>> /\ Len(done') = 0
  BY OneOutcome, EmptyChannel
<1>2. failures' \in 0..FailureLimit
  BY DEF RoomForFailure, TypeOK
<1>3. rest' \in Nat /\ (rest' <= Interval \/ rest' <= LongestBackoff)
  <2>1. CASE Head(done) = "failed"
    <3>1. failures + 1 \in Nat \ {0}
      BY DEF TypeOK
    <3>2. Backoff(failures + 1) \in Nat /\ Backoff(failures + 1) <= BackoffMax
      BY <3>1, BackoffIsDoubling DEF Smaller
    <3>3. rest' \in Jittered(Backoff(failures + 1))
      BY <2>1
    <3> QED
      BY <3>2, <3>3, JitterBounds
  <2>2. CASE Head(done) # "failed"
    BY <2>2
  <2> QED
    BY <2>1, <2>2
<1>4. TypeOK'
  <2>1. done' \in Seq(Outcome) /\ Len(done') <= 1
    <3>1. done' \in Seq(Outcome)
      BY <1>1, EmptyChannel, Zenon
    <3>2. Len(done') <= 1
      <4> HIDE DEF Receive, EngineInv
      <4> QED
        BY <1>1
    <3> QED
      BY <3>1, <3>2
  <2>2. left' \in Nat /\ batches' \in Nat
    BY <1>3 DEF TypeOK, Reset
  <2>3. place' \in {"select", "waiting", "nil", "deadline"} /\ stopping' \in BOOLEAN
    BY Zenon DEF TypeOK
  <2>4. active' \in BOOLEAN
    BY Zenon
  <2> QED
    BY <1>2, <1>3, <2>1, <2>2, <2>3, <2>4, Zenon DEF TypeOK
<1>5. NoOverlap'
  <2>1. batches \in Nat /\ batches + Len(done) <= 1
    BY DEF NoOverlap, TypeOK
  <2>2. batches = 0
    BY <1>1, <2>1
  <2>3. batches' + Len(done') <= 1 /\ batches' + Len(done') # 1
    <3>1. batches' = 0 /\ Len(done') = 0
      BY <1>1, <2>2
    <3> HIDE DEF Receive, EngineInv
    <3> QED
      BY <3>1
  <2>4. ~active'
    BY Zenon
  <2> QED
    BY <2>3, <2>4, Zenon DEF NoOverlap
<1>6. CleanStopAfterBatch' /\ RoomForFailure'
  BY <1>1 DEF CleanStopAfterBatch, RoomForFailure
<1>7. RestWithTimer'
  BY <1>3 DEF RestWithTimer, Reset
<1> QED
  BY <1>4, <1>5, <1>6, <1>7

LEMMA StopKeeps == EngineInv /\ (Leave \/ Finish \/ GiveUp \/ StopSignal) => EngineInv'
<1> SUFFICES ASSUME EngineInv, Leave \/ Finish \/ GiveUp \/ StopSignal PROVE EngineInv'
  OBVIOUS
<1>1. CASE Leave
  <2>1. TypeOK' /\ NoOverlap'
    BY <1>1 DEF Leave, EngineInv, TypeOK, NoOverlap
  <2>2. ~active => batches = 0 /\ done = <<>>
    BY DEF EngineInv, TypeOK, NoOverlap
  <2> QED
    BY <1>1, <2>1, <2>2
       DEF Leave, EngineInv, CleanStopAfterBatch, RestWithTimer, RoomForFailure
<1>2. CASE Finish
  <2>1. Len(done) = 1 /\ done' = <<>> /\ Len(done') = 0
    BY <1>2, OneOutcome, EmptyChannel DEF Finish, EngineInv
  <2>2. batches = 0
    BY <2>1 DEF EngineInv, NoOverlap, TypeOK
  <2>3. TypeOK'
    <3>1. done' \in Seq(Outcome) /\ Len(done') <= 1
      BY <2>1, EmptyChannel
    <3>2. left' \in Nat /\ rest' \in Nat /\ batches' \in Nat /\ failures' \in 0..FailureLimit
          /\ (rest' <= Interval \/ rest' <= LongestBackoff)
      BY <1>2 DEF Finish, EngineInv, TypeOK
    <3>3. place' = "nil" /\ active' \in BOOLEAN /\ stopping' \in BOOLEAN
      BY <1>2, Zenon DEF Finish, EngineInv, TypeOK
    <3> QED
      BY <3>1, <3>2, <3>3, Zenon DEF TypeOK
  <2>4. NoOverlap'
    BY <1>2, <2>1, <2>2 DEF Finish, NoOverlap
  <2> QED
    BY <1>2, <2>1, <2>2, <2>3, <2>4
       DEF Finish, EngineInv, CleanStopAfterBatch, RestWithTimer, RoomForFailure
<1>3. CASE GiveUp
  BY <1>3 DEF GiveUp, EngineInv, TypeOK, NoOverlap, CleanStopAfterBatch,
              RestWithTimer, RoomForFailure
<1>4. CASE StopSignal
  BY <1>4 DEF StopSignal, EngineInv, TypeOK, NoOverlap, CleanStopAfterBatch,
              RestWithTimer, RoomForFailure
<1> QED
  BY <1>1, <1>2, <1>3, <1>4

LEMMA TimePassesKeeps == EngineInv /\ TimePasses => EngineInv'
<1> SUFFICES ASSUME EngineInv, TimePasses PROVE EngineInv'
  OBVIOUS
<1> USE DEF EngineInv, TimePasses
<1>1. TypeOK'
  <2>1. rest' \in Nat /\ rest' <= rest
    BY DEF TypeOK
  <2>2. rest' <= Interval \/ rest' <= LongestBackoff
    BY <2>1, EngineNumbers, LongestIsNumber DEF TypeOK
  <2> QED
    BY <2>1, <2>2 DEF TypeOK
<1>2. NoOverlap' /\ CleanStopAfterBatch' /\ RoomForFailure'
  BY DEF NoOverlap, CleanStopAfterBatch, RoomForFailure
<1>3. RestWithTimer'
  BY DEF RestWithTimer, TypeOK
<1> QED
  BY <1>1, <1>2, <1>3

LEMMA BatchEndsKeeps ==
    ASSUME NEW o \in Outcome, EngineInv, BatchEnds(o) PROVE EngineInv'
<1> USE DEF EngineInv, BatchEnds
<1>1. done' = <<o>> /\ Len(done') = 1 /\ done' \in Seq(Outcome) /\ Head(done') = o
  OBVIOUS
<1>2. batches = 1 /\ batches' = 0 /\ Len(done) = 0 /\ active
  BY DEF NoOverlap, TypeOK
<1>3. TypeOK'
  BY <1>1, <1>2 DEF TypeOK
<1>4. NoOverlap'
  BY <1>1, <1>2 DEF NoOverlap
<1>5. CleanStopAfterBatch'
  BY <1>2 DEF CleanStopAfterBatch
<1>6. RestWithTimer' /\ RoomForFailure'
  BY <1>1 DEF RestWithTimer, RoomForFailure
<1> QED
  BY <1>3, <1>4, <1>5, <1>6

LEMMA EngineKeeps == EngineInv /\ [Next]_vars => EngineInv'
<1> SUFFICES ASSUME EngineInv, [Next]_vars PROVE EngineInv'
  OBVIOUS
<1>1. CASE UNCHANGED vars
  BY <1>1 DEF vars, EngineInv, TypeOK, NoOverlap, CleanStopAfterBatch,
              RestWithTimer, RoomForFailure
<1> QED
  BY <1>1, TickKeeps, ReceiveKeeps, StopKeeps, TimePassesKeeps, BatchEndsKeeps DEF Next

LEMMA EngineInvariant == Spec => []EngineInv
  BY EngineStarts, EngineKeeps, PTL DEF Spec

\* The variables of the engine keep their types, and no delay exceeds the interval or the
\* longest backoff with its jitter.
THEOREM EngineTypes == Spec => []TypeOK
<1>1. EngineInv => TypeOK
  BY DEF EngineInv
<1> QED
  BY <1>1, EngineInvariant, PTL

\* However a tick, the end of a batch and a stop are ordered, Engine.Run never has two
\* batches, and its active flag says whether it has one.
THEOREM OneBatch == Spec => []NoOverlap
<1>1. EngineInv => NoOverlap
  BY DEF EngineInv
<1> QED
  BY <1>1, EngineInvariant, PTL

\* Run returns nil only when its batch has ended.
THEOREM CleanStop == Spec => []CleanStopAfterBatch
<1>1. EngineInv => CleanStopAfterBatch
  BY DEF EngineInv
<1> QED
  BY <1>1, EngineInvariant, PTL

\* No batch starts before the delay that the last outcome called for has passed, a tick
\* that had fired before the outcome came included: only a tick starts one.
THEOREM Delays == Spec => DelayRespected
<1>1. EngineInv /\ [Next]_vars => [batches' > batches => rest = 0]_vars
  <2> SUFFICES ASSUME EngineInv, Next, batches' > batches PROVE rest = 0
    BY DEF vars
  <2>1. batches \in Nat /\ rest \in Nat /\ left \in Nat
    BY DEF EngineInv, TypeOK
  <2>2. Tick
    <3>1. batches' # batches
      BY <2>1
    <3>2. ~ \E o \in Outcome : BatchEnds(o)
      BY <2>1 DEF BatchEnds
    <3> QED
      BY <3>1, <3>2
         DEF Next, Receive, Leave, Finish, GiveUp, TimePasses, StopSignal
  <2> QED
    BY <2>1, <2>2 DEF Tick, EngineInv, RestWithTimer
<1> QED
  BY <1>1, EngineInvariant, PTL DEF Spec, DelayRespected

\* After the n-th failure in a row the delay is BackoffInitial * 2^(n - 1), at most
\* BackoffMax, give or take the jitter, for every n: the loop of backoff stops short of
\* an overflow and of nothing else.
THEOREM Backoffs == Spec => BackoffDoubles
<1>1. EngineInv /\ [Next]_vars
        => [failures' > failures =>
                rest' \in Jittered(Smaller(BackoffMax, Doubled(failures')))]_vars
  <2> SUFFICES ASSUME EngineInv, Next, failures' > failures
               PROVE  rest' \in Jittered(Smaller(BackoffMax, Doubled(failures')))
    BY DEF vars
  <2>1. failures \in Nat
    BY EngineNumbers DEF EngineInv, TypeOK
  <2>2. Receive
    <3>1. failures' # failures
      BY <2>1
    <3> QED
      BY <3>1
         DEF Next, Tick, Leave, Finish, GiveUp, TimePasses, StopSignal, BatchEnds
  <2>3. Head(done) = "failed" /\ failures' = failures + 1
    BY <2>1, <2>2 DEF Receive
  <2>4. failures' \in Nat \ {0}
    BY <2>1, <2>3
  <2>5. rest' \in Jittered(Backoff(failures'))
    BY <2>2, <2>3 DEF Receive
  <2> QED
    BY <2>4, <2>5, BackoffIsDoubling
<1> QED
  BY <1>1, EngineInvariant, PTL DEF Spec, BackoffDoubles

=============================================================================
