------------------------ MODULE MarketSnapshotsProofs ------------------------
(***************************************************************************)
(* Theorems about MarketSnapshots, for any number of schedulers and        *)
(* operators, any calendar, any length of a week and any retention.        *)
(***************************************************************************)
EXTENDS MarketSnapshots, WellFoundedInduction, TLAPS

-----------------------------------------------------------------------------
(* Facts about numbers and days *)

LEMMA SmallestElement ==
    ASSUME NEW S \in SUBSET Nat, S # {}
    PROVE  Min(S) \in S /\ \A y \in S : Min(S) <= y
<1>1. PICK x \in S : \A y \in S : <<y, x>> \notin OpToRel(<, Nat)
  BY WFMin, NatLessThanWellFounded
<1>2. \A y \in S : ~(y < x)
  BY <1>1 DEF OpToRel
<1>3. \A y \in S : x <= y
  BY <1>2
<1> QED
  BY <1>3 DEF Min

LEMMA Division ==
    ASSUME NEW a \in Nat, NEW c \in Nat \ {0}
    PROVE  /\ a \div c \in Nat /\ a % c \in 0..(c - 1)
           /\ a = (c * (a \div c)) + (a % c)
  OBVIOUS

LEMMA DivisionShift ==
    ASSUME NEW a \in Nat, NEW c \in Nat \ {0}
    PROVE  (a + c) \div c = (a \div c) + 1
  OBVIOUS

LEMMA DivisionMonotone ==
    ASSUME NEW a \in Nat, NEW b \in Nat, NEW c \in Nat \ {0}, a <= b
    PROVE  a \div c <= b \div c
<1>1. c * (a \div c) < (c * (b \div c)) + c
  BY Division
<1>2. ASSUME NEW x \in Nat, NEW y \in Nat, c * x < (c * y) + c PROVE x <= y
  BY <1>2
<1> QED
  BY <1>1, <1>2, Division

LEMMA DayFacts ==
    /\ Day \subseteq Nat /\ Week \subseteq Nat /\ MaxDays \in Nat
    /\ \A d \in Day : d \in 0..MaxDays
    /\ 0 \in 0..MaxDays /\ 1 \in Day
<1>1. MaxDays \in Nat \ {0} /\ WeekLength \in Nat \ {0}
  BY MarketConstants
<1>2. (MaxDays + WeekLength - 1) \div WeekLength \in Nat
  BY <1>1, Division
<1> QED
  BY <1>1, <1>2 DEF Day, Week

LEMMA WeekOfType == \A d \in Day : WeekOf(d) \in Week
<1> SUFFICES ASSUME NEW d \in Day PROVE WeekOf(d) \in Week
  OBVIOUS
<1>1. /\ MaxDays \in Nat \ {0} /\ WeekLength \in Nat \ {0}
      /\ d - 1 \in Nat /\ MaxDays - 1 \in Nat /\ d - 1 <= MaxDays - 1
  BY MarketConstants DEF Day
<1> DEFINE a == (d - 1) \div WeekLength
           b == (MaxDays - 1) \div WeekLength
<1>2. a \in Nat /\ b \in Nat /\ a <= b
  BY <1>1, Division, DivisionMonotone
<1>3. ((MaxDays - 1) + WeekLength) \div WeekLength = b + 1
  BY <1>1, DivisionShift
<1>4. (MaxDays + WeekLength - 1) \div WeekLength = b + 1
  <2>1. MaxDays + WeekLength - 1 = (MaxDays - 1) + WeekLength
    BY <1>1
  <2> QED
    BY <1>3, <2>1
<1> HIDE DEF a, b
<1>5. WeekOf(d) = a + 1
  BY DEF WeekOf, a
<1> QED
  BY <1>2, <1>4, <1>5 DEF Week

-----------------------------------------------------------------------------
(* The inductive invariant *)

\* A process between its two transactions holds the lock of the task.
HoldsLock(p) ==
    /\ proc[p].pc \in {"select", "write"} => locks["daily"] = p
    /\ proc[p].pc = "rollup" => locks["weekly"] = p

\* What the fields of a process mean, whatever operators ask for.
Shape(p) ==
    /\ proc[p].pc = "idle" => proc[p] = Idle
    /\ proc[p].pc \in {"weekly", "rollup"} => proc[p].weeks # {}
    /\ proc[p].pc = "done" => proc[p].weeks = {}
    /\ proc[p].pc = "write" => proc[p].day \in complete
    /\ proc[p].pc = "clean" => p = Discovery
    /\ p \notin Operator => ~proc[p].backfill
    /\ proc[p].owed \subseteq complete
    /\ ~proc[p].backfill => proc[p].owed = {}

\* The cleanup took observations of published days only.
ObservationsKept == \A d \in found : d \in obs \/ dayRun[d] = "success"

\* Cycles are of past days, and the cleanup leaves the observations of yesterday's cycle,
\* the only one that a discovery publishes again.
Calendar ==
    /\ \A c \in complete : c < today
    /\ \A e \in found \ obs : e < today - 1

\* The discovery publishes a complete cycle that still has what it found.
InHand ==
    /\ proc[Discovery].pc \in {"daily", "select", "write"} =>
          /\ proc[Discovery].want \in complete
          /\ proc[Discovery].want \in found => proc[Discovery].want \in obs
    /\ proc[Discovery].pc = "write" => proc[Discovery].day = proc[Discovery].want
    /\ proc[Discovery].pc = "clean" => proc[Discovery].day \in complete

\* Without reruns: the cycle in hand is unpublished, unless the discovery asked for it,
\* and a backfill past its daily runs has left no cycle behind, past its weekly runs no
\* week.
Progress(p) ==
    /\ p # Discovery => proc[p].want = 0
    /\ p # Discovery /\ proc[p].pc = "write" => dayRun[proc[p].day] # "success"
    /\ proc[p].pc \in {"list", "weekly", "rollup", "done"} =>
          \A d \in proc[p].owed : dayRun[d] = "success"
    /\ proc[p].pc \in {"weekly", "rollup", "done"} =>
          \A d \in proc[p].owed \cap found :
              WeekOf(d) \in proc[p].weeks \/ d \in weekly[WeekOf(d)]

MarketInv ==
    /\ TypeOK
    /\ \A p \in Process : HoldsLock(p) /\ Shape(p)
    /\ ObservationsKept
    /\ Calendar
    /\ InHand
    /\ PublishedDayHasRows
    /\ reruns = 0 => \A p \in Process : Progress(p)

LEMMA InvImplies == MarketInv => BackfillCatchesUp
<1> SUFFICES ASSUME MarketInv, reruns = 0, NEW p \in Operator, proc[p].pc = "done",
                    NEW d \in proc[p].owed
             PROVE  /\ dayRun[d] = "success"
                    /\ d \in found => d \in daily /\ d \in weekly[WeekOf(d)]
  BY DEF BackfillCatchesUp
<1>1. p \in Process
  BY DEF Process
<1> QED
  BY <1>1 DEF MarketInv, Shape, Progress, PublishedDayHasRows

-----------------------------------------------------------------------------
(* Proofs *)

LEMMA MarketInit == Init => MarketInv
<1> SUFFICES ASSUME Init PROVE MarketInv
  OBVIOUS
<1>1. Idle \in Analytics
  BY DayFacts DEF Idle, Analytics
<1>2. TypeOK
  BY <1>1, DayFacts, MarketConstants DEF Init, TypeOK, RunStatus
<1>3. \A p \in Process : HoldsLock(p) /\ Shape(p) /\ Progress(p)
  BY DEF Init, HoldsLock, Shape, Progress, Idle
<1>4. ObservationsKept /\ PublishedDayHasRows /\ Calendar
  BY DEF Init, ObservationsKept, PublishedDayHasRows, Calendar
<1>5. InHand
  BY DEF Init, InHand, Idle, Process
<1> QED
  BY <1>2, <1>3, <1>4, <1>5 DEF MarketInv

\* Records of a process that the actions build
LEMMA IdleType == Idle \in Analytics /\ Idle.pc = "idle"
  BY DayFacts DEF Idle, Analytics

LEMMA WeeklyRecord ==
    ASSUME NEW k \in Week, NEW n, n = [Idle EXCEPT !.pc = "weekly", !.weeks = {k}]
    PROVE  /\ n \in Analytics /\ n.pc = "weekly" /\ n.weeks = {k} /\ ~n.backfill
           /\ n.owed = {} /\ n.want = 0
  BY DayFacts DEF Idle, Analytics

LEMMA AfterDailyType ==
    ASSUME TypeOK, NEW p \in Process, Shape(p), NEW skipped \in BOOLEAN
    PROVE  LET n == AfterDaily(p, skipped) IN
           /\ n \in Analytics
           /\ p \in Scheduler => n = [Idle EXCEPT !.pc = "weekly", !.weeks = {WeekOf(today)}]
           /\ p = Discovery => n = [Idle EXCEPT !.pc = "clean", !.day = proc[p].want]
           /\ p \in Operator /\ proc[p].backfill =>
                 n = [proc[p] EXCEPT !.pc = IF skipped THEN "list" ELSE "daily", !.day = 0]
           /\ p \in Operator /\ ~proc[p].backfill => n = Idle
<1>1. proc[p] \in Analytics /\ today \in Day
  BY DEF TypeOK
<1>2. WeekOf(today) \in Week
  BY <1>1, WeekOfType
<1>3. CASE p \in Scheduler
  <2>1. p \notin Operator /\ p # Discovery
    BY <1>3, MarketConstants
  <2>2. AfterDaily(p, skipped) = [Idle EXCEPT !.pc = "weekly", !.weeks = {WeekOf(today)}]
    BY <1>3, <2>1 DEF AfterDaily
  <2> QED
    BY <1>2, <1>3, <2>1, <2>2, WeeklyRecord
<1>4. CASE p \in Operator /\ proc[p].backfill
  <2>1. p \notin Scheduler /\ p # Discovery
    BY <1>4, MarketConstants
  <2>2. AfterDaily(p, skipped) = [proc[p] EXCEPT !.pc = IF skipped THEN "list" ELSE "daily", !.day = 0]
    BY <1>4, <2>1 DEF AfterDaily
  <2> QED
    BY <1>1, <1>4, <2>1, <2>2, DayFacts DEF Analytics
<1>5. CASE p \in Operator /\ ~proc[p].backfill
  <2>1. p \notin Scheduler /\ p # Discovery
    BY <1>5, MarketConstants
  <2>2. AfterDaily(p, skipped) = Idle
    BY <1>5, <2>1 DEF AfterDaily
  <2> QED
    BY <1>5, <2>1, <2>2, IdleType
<1>6. CASE p = Discovery
  <2>1. p \notin Scheduler /\ p \notin Operator
    BY <1>6, MarketConstants
  <2>2. AfterDaily(p, skipped) = [Idle EXCEPT !.pc = "clean", !.day = proc[p].want]
    BY <1>6, <2>1 DEF AfterDaily
  <2> QED
    BY <1>1, <1>6, <2>1, <2>2, DayFacts DEF Analytics, Idle
<1> QED
  BY <1>3, <1>4, <1>5, <1>6 DEF Process

\* What a process does that owes nothing: it has ended, failed (the discovery), or goes on
\* to roll up a week of its own.
Free(n) ==
    \/ n = Idle
    \/ n = [Idle EXCEPT !.pc = "failed"]
    \/ \E k \in Week : n = [Idle EXCEPT !.pc = "weekly", !.weeks = {k}]

\* An error ends a backfill; a scheduler goes on to its weekly run.
LEMMA AfterErrorType ==
    ASSUME TypeOK, NEW p \in Process, Shape(p)
    PROVE  Free(AfterError(p))
<1>1. WeekOf(today) \in Week
  BY WeekOfType DEF TypeOK
<1>2. CASE p \in Scheduler /\ proc[p].pc \in {"daily", "select", "write"}
  <2>1. AfterError(p) = AfterDaily(p, FALSE)
    BY <1>2, MarketConstants DEF AfterError
  <2> QED
    BY <1>1, <1>2, <2>1, AfterDailyType DEF Free
<1>3. CASE ~(p \in Scheduler /\ proc[p].pc \in {"daily", "select", "write"})
  BY <1>3 DEF AfterError, Free
<1> QED
  BY <1>2, <1>3

\* A step of another process, or of the discovery, leaves a process where it was: the
\* tables only grow, its locks stay its own, and a week is rolled up from all its days.
LEMMA OthersKeep ==
    ASSUME TypeOK, NEW q \in Process, HoldsLock(q), Shape(q), proc'[q] = proc[q],
           complete \subseteq complete',
           \A l \in {"daily", "weekly"} : locks[l] = q => locks'[l] = q
    PROVE  HoldsLock(q)' /\ Shape(q)'
  BY DEF HoldsLock, Shape

LEMMA OthersProgress ==
    ASSUME TypeOK, NEW q \in Process, Progress(q), proc'[q] = proc[q],
           \A d \in found : dayRun[d] = "success" => d \in daily,
           \A d \in Day : dayRun[d] = "success" => dayRun'[d] = "success",
           \A d \in proc[q].owed : d \in found' => d \in found,
           proc[q].pc = "write" /\ q # Discovery => dayRun'[proc[q].day] = dayRun[proc[q].day],
           \A k \in Week : weekly[k] \subseteq weekly'[k] \/ weekly'[k] = {d \in daily : WeekOf(d) = k}
    PROVE  Progress(q)'
<1>1. ASSUME NEW d \in proc[q].owed \cap found', proc[q].pc \in {"weekly", "rollup", "done"}
      PROVE  WeekOf(d) \in proc[q].weeks \/ d \in weekly'[WeekOf(d)]
  <2>1. d \in Day /\ d \in daily /\ d \in found
    BY <1>1 DEF TypeOK, Progress, Analytics
  <2>2. WeekOf(d) \in Week
    BY <2>1, WeekOfType
  <2> QED
    BY <1>1, <2>1, <2>2 DEF Progress
<1>2. proc[q].owed \subseteq Day
  BY DEF TypeOK, Analytics
<1> QED
  BY <1>1, <1>2 DEF Progress

\* A step of another process leaves the discovery with what it has in hand.
LEMMA OthersInHand ==
    ASSUME TypeOK, InHand, proc'[Discovery] = proc[Discovery], UNCHANGED <<complete, found, obs>>
    PROVE  InHand'
  BY DEF InHand

LEMMA ReleaseIs ==
    ASSUME TypeOK, NEW p \in Process
    PROVE  /\ Release(p) \in [{"daily", "weekly"} -> Process \cup {NoProcess}]
           /\ \A q \in Process \ {p}, l \in {"daily", "weekly"} : locks[l] = q => Release(p)[l] = q
  BY DEF TypeOK, Release

LEMMA FreeShape ==
    ASSUME NEW p \in Process, Free(proc'[p])
    PROVE  /\ proc'[p] \in Analytics /\ HoldsLock(p)' /\ Shape(p)' /\ Progress(p)'
           /\ p = Discovery => InHand'
<1>1. CASE proc'[p] = Idle
  BY <1>1, IdleType DEF Idle, HoldsLock, Shape, Progress, InHand
<1>2. ASSUME NEW k \in Week, proc'[p] = [Idle EXCEPT !.pc = "weekly", !.weeks = {k}]
      PROVE  /\ proc'[p] \in Analytics /\ HoldsLock(p)' /\ Shape(p)' /\ Progress(p)'
             /\ p = Discovery => InHand'
  <2>1. /\ proc'[p] \in Analytics /\ proc'[p].pc = "weekly" /\ proc'[p].weeks # {}
        /\ ~proc'[p].backfill /\ proc'[p].owed = {} /\ proc'[p].want = 0
    <3>1. proc'[p].weeks = {k} /\ {k} # {}
      BY <1>2 DEF Idle
    <3> QED
      BY <1>2, <3>1, DayFacts DEF Idle, Analytics
  <2> QED
    BY <2>1 DEF HoldsLock, Shape, Progress, InHand
<1>3. CASE proc'[p] = [Idle EXCEPT !.pc = "failed"]
  <2>1. /\ proc'[p] \in Analytics /\ proc'[p].pc = "failed"
        /\ ~proc'[p].backfill /\ proc'[p].owed = {} /\ proc'[p].want = 0
    BY <1>3, DayFacts DEF Idle, Analytics
  <2> QED
    BY <2>1 DEF HoldsLock, Shape, Progress, InHand
<1> QED
  BY <1>1, <1>2, <1>3 DEF Free

\* Steps that change nothing but the process itself, its locks and the bounds
LEMMA ProcessStep ==
    ASSUME MarketInv,
           NEW p \in Process, NEW n \in Analytics, proc' = [proc EXCEPT ![p] = n],
           UNCHANGED <<today, complete, found, obs, dayRun, daily, weekly>>,
           locks' \in [{"daily", "weekly"} -> Process \cup {NoProcess}],
           \A q \in Process \ {p}, l \in {"daily", "weekly"} : locks[l] = q => locks'[l] = q,
           reruns' \in 0..MaxReruns, faults' \in 0..MaxFaults, reruns' = 0 => reruns = 0,
           HoldsLock(p)', Shape(p)', p = Discovery => InHand', reruns' = 0 => Progress(p)'
    PROVE  MarketInv'
<1>0. TypeOK /\ ObservationsKept /\ PublishedDayHasRows /\ Calendar /\ InHand
  BY DEF MarketInv
<1>1. \A q \in Process \ {p} : proc'[q] = proc[q]
  BY <1>0 DEF TypeOK
<1>2. TypeOK'
  BY <1>0 DEF TypeOK
<1>3. ASSUME NEW q \in Process \ {p} PROVE HoldsLock(q)' /\ Shape(q)'
  BY <1>0, <1>1, OthersKeep DEF MarketInv
<1>4. ASSUME NEW q \in Process \ {p}, reruns' = 0 PROVE Progress(q)'
  BY <1>0, <1>1, <1>4, OthersProgress DEF MarketInv, PublishedDayHasRows
<1>5. ObservationsKept' /\ PublishedDayHasRows' /\ Calendar'
  BY <1>0 DEF ObservationsKept, PublishedDayHasRows, Calendar
<1>6. InHand'
  <2>1. Discovery \in Process
    BY DEF Process
  <2> QED
    BY <1>0, <1>1, <2>1, OthersInHand
<1> QED
  BY <1>2, <1>3, <1>4, <1>5, <1>6 DEF MarketInv

LEMMA MarketNext == MarketInv /\ [Next]_vars => MarketInv'
<1> SUFFICES ASSUME MarketInv, [Next]_vars PROVE MarketInv'
  OBVIOUS
<1> USE DEF ingestVars, tables
<1>0. /\ TypeOK /\ ObservationsKept /\ PublishedDayHasRows /\ Calendar /\ InHand
      /\ \A q \in Process : HoldsLock(q) /\ Shape(q)
      /\ reruns = 0 => \A q \in Process : Progress(q)
      /\ reruns = 0 => \A e \in found : dayRun[e] = "success" => e \in daily
  BY DEF MarketInv, PublishedDayHasRows
<1>d. /\ Discovery \in Process /\ Discovery \notin Scheduler /\ Discovery \notin Operator
      /\ \A q \in Process : q \in Scheduler \/ q \in Operator \/ q = Discovery
      /\ \A q \in Scheduler : q \notin Operator
  BY MarketConstants DEF Process
<1>1. CASE NextDay
  <2>1. today' \in Day /\ today' = today + 1 /\ today \in Nat /\ found \subseteq Nat
        /\ complete \subseteq Nat
    BY <1>0, <1>1, MarketConstants DEF NextDay, TypeOK, Day
  <2>2. Calendar'
    BY <1>0, <1>1, <2>1 DEF NextDay, Calendar
  <2> QED
    BY <1>0, <1>1, <2>1, <2>2 DEF NextDay, MarketInv, TypeOK, HoldsLock, Shape, Progress,
                            ObservationsKept, PublishedDayHasRows, InHand
<1>2. ASSUME NEW d \in Day, NEW empty \in BOOLEAN, CompleteCycle(d, empty) PROVE MarketInv'
  <2> DEFINE n == [Idle EXCEPT !.pc = "daily", !.want = d]
  <2>1. /\ complete' = complete \cup {d} /\ d < today /\ d \notin complete
        /\ found' = IF empty THEN found ELSE found \cup {d}
        /\ obs' = IF empty THEN obs ELSE obs \cup {d}
        /\ proc' = [proc EXCEPT ![Discovery] = n]
        /\ UNCHANGED <<today, dayRun, daily, weekly, locks, reruns, faults>>
    BY <1>2 DEF CompleteCycle, Publish, Day
  <2>2. n \in Analytics /\ n.pc = "daily" /\ n.want = d /\ ~n.backfill /\ n.owed = {}
    BY DayFacts DEF Idle, Analytics
  <2>3. proc'[Discovery] = n /\ \A q \in Process \ {Discovery} : proc'[q] = proc[q]
    BY <1>0, <1>d, <2>1 DEF TypeOK
  <2> HIDE DEF n
  <2>4. TypeOK'
    BY <1>0, <2>1, <2>2 DEF TypeOK
  <2>5. ASSUME NEW q \in Process PROVE HoldsLock(q)' /\ Shape(q)'
    <3>1. CASE q = Discovery
      BY <1>d, <2>2, <2>3, <3>1 DEF HoldsLock, Shape
    <3>2. CASE q # Discovery
      BY <1>0, <2>1, <2>3, <3>2, OthersKeep
    <3> QED
      BY <3>1, <3>2
  <2>6. dayRun[d] # "success"
    BY <1>0, <2>1 DEF TypeOK
  <2>7. ObservationsKept' /\ Calendar'
    BY <1>0, <2>1 DEF ObservationsKept, Calendar, TypeOK
  <2>8. InHand'
    BY <1>0, <2>1, <2>2, <2>3 DEF InHand, TypeOK
  <2>9. PublishedDayHasRows'
    BY <1>0, <2>1, <2>6 DEF PublishedDayHasRows
  <2>10. ASSUME NEW q \in Process, reruns' = 0 PROVE Progress(q)'
    <3>1. CASE q = Discovery
      BY <2>2, <2>3, <3>1 DEF Progress
    <3>2. CASE q # Discovery
      <4>1. \A e \in proc[q].owed : e \in found' => e \in found
        BY <1>0, <2>1 DEF Shape
      <4> QED
        BY <1>0, <2>1, <2>3, <2>10, <3>2, <4>1, OthersProgress
    <3> QED
      BY <3>1, <3>2
  <2> QED
    BY <2>4, <2>5, <2>7, <2>8, <2>9, <2>10 DEF MarketInv
<1>3. ASSUME NEW d \in Day, RetryCycle(d) PROVE MarketInv'
  <2> DEFINE n == [Idle EXCEPT !.pc = "daily", !.want = d]
  <2>1. /\ proc' = [proc EXCEPT ![Discovery] = n] /\ d = today - 1 /\ d \in complete
        /\ UNCHANGED <<today, complete, found, obs, dayRun, daily, weekly, locks, reruns, faults>>
    BY <1>3 DEF RetryCycle, Publish
  <2>2. n \in Analytics /\ n.pc = "daily" /\ n.want = d /\ ~n.backfill /\ n.owed = {}
    BY DayFacts DEF Idle, Analytics
  <2>3. proc'[Discovery] = n
    BY <1>0, <1>d, <2>1 DEF TypeOK
  <2> HIDE DEF n
  <2>4. HoldsLock(Discovery)' /\ Shape(Discovery)' /\ Progress(Discovery)'
    BY <1>d, <2>2, <2>3 DEF HoldsLock, Shape, Progress
  <2>5. d \in found => d \in obs
    BY <1>0, <2>1 DEF Calendar, Day
  <2>6. InHand'
    BY <2>1, <2>2, <2>3, <2>5 DEF InHand
  <2> QED
    BY <1>0, <1>d, <2>1, <2>2, <2>4, <2>6, ProcessStep DEF TypeOK
<1>4. ASSUME NEW p \in Process, Tick(p) PROVE MarketInv'
  <2> DEFINE n == [Idle EXCEPT !.pc = "daily"]
  <2>1. proc[p] = Idle /\ proc' = [proc EXCEPT ![p] = n]
    BY <1>0, <1>4 DEF Tick, Shape
  <2>2. n \in Analytics
    BY DayFacts DEF Idle, Analytics
  <2>3. proc'[p] = n
    BY <1>0, <2>1 DEF TypeOK
  <2>4. HoldsLock(p)' /\ Shape(p)' /\ Progress(p)'
    BY <1>4, <1>d, <2>3 DEF Tick, HoldsLock, Shape, Progress, Idle
  <2> QED
    BY <1>0, <1>4, <1>d, <2>1, <2>2, <2>4, ProcessStep DEF Tick, TypeOK
<1>5. ASSUME NEW p \in Process, StartBackfill(p) PROVE MarketInv'
  <2> DEFINE n == [Idle EXCEPT !.pc = "daily", !.backfill = TRUE, !.owed = complete]
  <2>1. n \in Analytics
    BY <1>0, DayFacts DEF Idle, Analytics, TypeOK
  <2>2. proc' = [proc EXCEPT ![p] = n] /\ proc'[p] = n /\ p # Discovery
    BY <1>0, <1>5, <1>d DEF StartBackfill, TypeOK
  <2>3. HoldsLock(p)' /\ Shape(p)' /\ Progress(p)'
    BY <1>5, <2>2 DEF StartBackfill, HoldsLock, Shape, Progress, Idle
  <2> QED
    BY <1>0, <1>5, <2>1, <2>2, <2>3, ProcessStep DEF StartBackfill, TypeOK
<1>6. ASSUME NEW p \in Process, NEW d \in Day, StartDaily(p, d) PROVE MarketInv'
  <2> DEFINE n == [Idle EXCEPT !.pc = "daily", !.want = d]
  <2>1. n \in Analytics
    BY DayFacts DEF Idle, Analytics
  <2>2. proc' = [proc EXCEPT ![p] = n] /\ proc'[p] = n /\ p # Discovery
    BY <1>0, <1>6, <1>d DEF StartDaily, TypeOK
  <2>3. HoldsLock(p)' /\ Shape(p)'
    BY <1>6, <2>2 DEF StartDaily, HoldsLock, Shape, Idle
  <2>4. reruns' \in 0..MaxReruns /\ reruns' # 0
    BY <1>0, <1>6, MarketConstants DEF StartDaily, TypeOK
  <2> QED
    BY <1>0, <1>6, <2>1, <2>2, <2>3, <2>4, ProcessStep DEF StartDaily, TypeOK
<1>7. ASSUME NEW p \in Process, NEW k \in Week, StartWeekly(p, k) PROVE MarketInv'
  <2> DEFINE n == [Idle EXCEPT !.pc = "weekly", !.weeks = {k}]
  <2>1. proc' = [proc EXCEPT ![p] = n] /\ proc'[p] = n
    BY <1>0, <1>7 DEF StartWeekly, TypeOK
  <2>2. /\ n \in Analytics /\ HoldsLock(p)' /\ Shape(p)' /\ Progress(p)'
        /\ p = Discovery => InHand'
    BY <2>1, FreeShape DEF Free
  <2> QED
    BY <1>0, <1>7, <2>1, <2>2, ProcessStep DEF StartWeekly, TypeOK
<1>8. ASSUME NEW p \in Process, NEW l \in {"daily", "weekly"},
             NEW to \in {"select", "rollup"}, l = "daily" <=> to = "select",
             WithLock(p, l, l, to)
      PROVE  MarketInv'
  <2>0. proc[p].pc = l /\ proc[p] \in Analytics
    BY <1>0, <1>8 DEF WithLock, TypeOK
  <2>1. CASE locks[l] = NoProcess
    <3> DEFINE n == [proc[p] EXCEPT !.pc = to]
    <3>1. n \in Analytics
      BY <1>8, <2>0 DEF Analytics
    <3>2. proc' = [proc EXCEPT ![p] = n] /\ proc'[p] = n
      BY <1>0, <1>8, <2>1 DEF WithLock, TypeOK
    <3>3. locks' = [locks EXCEPT ![l] = p] /\ UNCHANGED <<today, complete, found, obs, dayRun, daily, weekly, reruns, faults>>
      BY <1>8, <2>1 DEF WithLock
    <3>4. HoldsLock(p)'
      BY <1>0, <1>8, <2>0, <3>2, <3>3 DEF HoldsLock, TypeOK, Analytics
    <3>5. Shape(p)' /\ (reruns' = 0 => Progress(p)')
      BY <1>0, <1>8, <2>0, <3>2, <3>3 DEF Shape, Progress, Analytics
    <3>7. p = Discovery => InHand'
      BY <1>0, <1>8, <2>0, <3>2, <3>3 DEF InHand, Analytics
    <3>6. /\ locks' \in [{"daily", "weekly"} -> Process \cup {NoProcess}]
          /\ \A q \in Process \ {p}, m \in {"daily", "weekly"} : locks[m] = q => locks'[m] = q
      BY <1>0, <2>1, <3>3, MarketConstants DEF TypeOK
    <3> QED
      BY <1>0, <3>1, <3>2, <3>3, <3>4, <3>5, <3>6, <3>7, ProcessStep DEF TypeOK
  <2>2. CASE locks[l] # NoProcess
    <3>1. proc' = [proc EXCEPT ![p] = AfterError(p)] /\ proc'[p] = AfterError(p)
      BY <1>0, <1>8, <2>2 DEF WithLock, TypeOK
    <3>2. Free(proc'[p])
      BY <1>0, <3>1, AfterErrorType
    <3>3. /\ AfterError(p) \in Analytics /\ HoldsLock(p)' /\ Shape(p)' /\ Progress(p)'
          /\ p = Discovery => InHand'
      BY <3>1, <3>2, FreeShape
    <3> QED
      BY <1>0, <1>8, <2>2, <3>1, <3>3, ProcessStep DEF WithLock, TypeOK
  <2> QED
    BY <2>1, <2>2
<1>9. ASSUME NEW p \in Process, SelectCycle(p) PROVE MarketInv'
  <2>0. proc[p].pc = "select" /\ proc[p] \in Analytics /\ complete \subseteq Day
    BY <1>0, <1>9 DEF SelectCycle, TypeOK
  <2>1. CASE Eligible(p) # {}
    <3>1. Min(Eligible(p)) \in Eligible(p) /\ Eligible(p) \subseteq complete
      <4>1. Eligible(p) \subseteq complete
        BY DEF Eligible
      <4> QED
        BY <2>0, <2>1, <4>1, SmallestElement, DayFacts
    <3> DEFINE n == [proc[p] EXCEPT !.pc = "write", !.day = Min(Eligible(p))]
    <3>2. n \in Analytics
      BY <2>0, <3>1, DayFacts DEF Analytics
    <3>3. proc' = [proc EXCEPT ![p] = n] /\ proc'[p] = n
      BY <1>0, <1>9, <2>1 DEF SelectCycle, TypeOK
    <3>4. UNCHANGED <<today, complete, found, obs, dayRun, daily, weekly, locks, reruns, faults>>
      BY <1>9, <2>1 DEF SelectCycle
    <3>5. HoldsLock(p)' /\ Shape(p)'
      BY <1>0, <2>0, <3>1, <3>3, <3>4 DEF HoldsLock, Shape, Analytics
    <3>6. reruns' = 0 => Progress(p)'
      BY <1>0, <2>0, <3>1, <3>3, <3>4 DEF Progress, Eligible, Analytics
    <3>7. ASSUME p = Discovery PROVE InHand'
      <4>1. proc[p].want \in complete /\ (proc[p].want \in found => proc[p].want \in obs)
        BY <1>0, <2>0, <3>7 DEF InHand
      <4>2. proc[p].want # 0
        BY <2>0, <4>1 DEF Day
      <4>3. Min(Eligible(p)) = proc[p].want
        BY <3>1, <4>2 DEF Eligible
      <4>4. /\ proc'[p].pc = "write" /\ proc'[p].want = proc[p].want
            /\ proc'[p].day = Min(Eligible(p))
        BY <2>0, <3>3, ZenonT(30) DEF Analytics
      <4> QED
        BY <3>4, <3>7, <4>1, <4>3, <4>4 DEF InHand
    <3> QED
      BY <1>0, <3>2, <3>3, <3>4, <3>5, <3>6, <3>7, ProcessStep DEF TypeOK
  <2>2. CASE Eligible(p) = {}
    <3> DEFINE n == AfterDaily(p, TRUE)
    <3>1. /\ dayRun' = Skip(dayRun, today) /\ locks' = Release(p)
          /\ proc' = [proc EXCEPT ![p] = n] /\ proc'[p] = n
          /\ UNCHANGED <<today, complete, found, obs, daily, weekly, reruns, faults>>
      BY <1>0, <1>9, <2>2 DEF SelectCycle, TypeOK
    <3>2. /\ dayRun' \in [Day -> RunStatus]
          /\ \A d \in Day : dayRun[d] = "success" <=> dayRun'[d] = "success"
      BY <1>0, <3>1 DEF Skip, TypeOK, RunStatus
    <3>3. /\ n \in Analytics
          /\ p \in Scheduler => n = [Idle EXCEPT !.pc = "weekly", !.weeks = {WeekOf(today)}]
          /\ p = Discovery => n = [Idle EXCEPT !.pc = "clean", !.day = proc[p].want]
          /\ p \in Operator /\ proc[p].backfill => n = [proc[p] EXCEPT !.pc = "list", !.day = 0]
          /\ p \in Operator /\ ~proc[p].backfill => n = Idle
      BY <1>0, AfterDailyType
    <3>4. WeekOf(today) \in Week
      BY <1>0, WeekOfType DEF TypeOK
    <3> HIDE DEF n
    <3>5. /\ HoldsLock(p)' /\ Shape(p)' /\ (reruns' = 0 => Progress(p)')
          /\ p = Discovery => InHand'
      <4>1. CASE p \in Scheduler \/ (p \in Operator /\ ~proc[p].backfill)
        BY <3>1, <3>3, <3>4, <4>1, FreeShape DEF Free
      <4>2. CASE p \in Operator /\ proc[p].backfill
        <5>1. reruns = 0 => \A e \in proc[p].owed : dayRun'[e] = "success"
          BY <1>0, <1>d, <2>0, <2>2, <3>2, <4>2 DEF Eligible, Progress, Shape
        <5>2. /\ proc'[p].pc = "list" /\ proc'[p].owed = proc[p].owed
              /\ proc'[p].backfill /\ proc'[p].want = proc[p].want
          BY <2>0, <3>1, <3>3, <4>2, ZenonT(30) DEF Analytics
        <5> QED
          BY <1>0, <1>d, <3>1, <4>2, <5>1, <5>2 DEF HoldsLock, Shape, Progress
      <4>3. CASE p = Discovery
        <5>1. /\ proc'[p].pc = "clean" /\ proc'[p].day = proc[p].want
              /\ ~proc'[p].backfill /\ proc'[p].owed = {}
          BY <3>1, <3>3, <4>3 DEF Idle
        <5>2. proc[p].want \in complete
          BY <1>0, <2>0, <4>3 DEF InHand
        <5> QED
          BY <3>1, <4>3, <5>1, <5>2 DEF HoldsLock, Shape, Progress, InHand
      <4> QED
        BY <1>d, <4>1, <4>2, <4>3
    <3>6. \A q \in Process \ {p} : proc'[q] = proc[q]
      BY <1>0, <3>1 DEF TypeOK
    <3>7. TypeOK'
      <4>1. /\ daily' \subseteq {d \in found' : dayRun'[d] = "success"}
            /\ {d \in Day : dayRun'[d] = "success"} \subseteq complete'
        BY <1>0, <3>1, <3>2 DEF TypeOK
      <4> QED
        BY <1>0, <3>1, <3>2, <3>3, <4>1, ReleaseIs DEF TypeOK
    <3>8. ASSUME NEW q \in Process \ {p} PROVE HoldsLock(q)' /\ Shape(q)'
      <4>1. \A l \in {"daily", "weekly"} : locks[l] = q => locks'[l] = q
        BY <1>0, <3>1, <3>8, ReleaseIs
      <4>2. /\ TypeOK /\ q \in Process /\ HoldsLock(q) /\ Shape(q)
            /\ proc'[q] = proc[q] /\ complete \subseteq complete'
        BY <1>0, <3>1, <3>6, <3>8
      <4> QED
        BY <4>1, <4>2, OthersKeep, Zenon
    <3>9. ASSUME NEW q \in Process \ {p}, reruns' = 0 PROVE Progress(q)'
      <4>1. proc[q].pc # "write"
        BY <1>0, <2>0 DEF HoldsLock
      <4> QED
        BY <1>0, <3>1, <3>2, <3>6, <3>9, <4>1, OthersProgress
    <3>10. ObservationsKept' /\ PublishedDayHasRows' /\ Calendar'
      BY <1>0, <2>0, <3>1, <3>2 DEF ObservationsKept, PublishedDayHasRows, Calendar, TypeOK
    <3>11. InHand'
      BY <1>0, <1>d, <3>1, <3>5, <3>6, OthersInHand
    <3> QED
      BY <3>5, <3>7, <3>8, <3>9, <3>10, <3>11 DEF MarketInv
  <2> QED
    BY <2>1, <2>2
<1>10. ASSUME NEW p \in Process, WriteDaily(p) PROVE MarketInv'
  <2> DEFINE n == AfterDaily(p, FALSE)
             d == proc[p].day
  <2>0. proc[p].pc = "write" /\ proc[p] \in Analytics /\ d \in complete /\ d \in Day
    BY <1>0, <1>10 DEF WriteDaily, TypeOK, Shape
  <2>1. /\ dayRun' = [dayRun EXCEPT ![d] = "success"] /\ locks' = Release(p)
        /\ daily' = IF d \in obs THEN daily \cup {d} ELSE daily \ {d}
        /\ proc' = [proc EXCEPT ![p] = n] /\ proc'[p] = n
        /\ UNCHANGED <<today, complete, found, obs, weekly, reruns, faults>>
    BY <1>0, <1>10 DEF WriteDaily, TypeOK
  <2>2. /\ n \in Analytics
        /\ p \in Scheduler => n = [Idle EXCEPT !.pc = "weekly", !.weeks = {WeekOf(today)}]
        /\ p = Discovery => n = [Idle EXCEPT !.pc = "clean", !.day = proc[p].want]
        /\ p \in Operator /\ proc[p].backfill => n = [proc[p] EXCEPT !.pc = "daily", !.day = 0]
        /\ p \in Operator /\ ~proc[p].backfill => n = Idle
    BY <1>0, AfterDailyType
  <2>3. WeekOf(today) \in Week
    BY <1>0, WeekOfType DEF TypeOK
  <2> HIDE DEF n
  <2>4. /\ HoldsLock(p)' /\ Shape(p)' /\ (reruns' = 0 => Progress(p)')
        /\ p = Discovery => InHand'
    <3>1. CASE p \in Scheduler \/ (p \in Operator /\ ~proc[p].backfill)
      BY <2>1, <2>2, <2>3, <3>1, FreeShape DEF Free
    <3>2. CASE p \in Operator /\ proc[p].backfill
      <4>1. /\ proc'[p].pc = "daily" /\ proc'[p].owed = proc[p].owed
            /\ proc'[p].backfill /\ proc'[p].want = proc[p].want
        BY <2>0, <2>1, <2>2, <3>2, ZenonT(30) DEF Analytics
      <4> QED
        BY <1>0, <1>d, <2>1, <3>2, <4>1 DEF HoldsLock, Shape, Progress
    <3>3. CASE p = Discovery
      <4>1. /\ proc'[p].pc = "clean" /\ proc'[p].day = proc[p].want
            /\ ~proc'[p].backfill /\ proc'[p].owed = {}
        BY <2>1, <2>2, <3>3 DEF Idle
      <4>2. proc[p].want \in complete
        BY <1>0, <2>0, <3>3 DEF InHand
      <4> QED
        BY <2>1, <3>3, <4>1, <4>2 DEF HoldsLock, Shape, Progress, InHand
    <3> QED
      BY <1>d, <3>1, <3>2, <3>3
  <2>5. \A q \in Process \ {p} : proc'[q] = proc[q]
    BY <1>0, <2>1 DEF TypeOK
  <2>6. \A e \in Day : dayRun'[e] = IF e = d THEN "success" ELSE dayRun[e]
    BY <1>0, <2>1 DEF TypeOK
  <2>7. TypeOK'
    <3>1. dayRun' \in [Day -> RunStatus]
      BY <1>0, <2>1 DEF TypeOK, RunStatus
    <3>2. /\ daily' \subseteq {e \in found' : dayRun'[e] = "success"}
          /\ {e \in Day : dayRun'[e] = "success"} \subseteq complete'
      BY <1>0, <2>0, <2>1, <2>6 DEF TypeOK
    <3> QED
      BY <1>0, <2>1, <2>2, <3>1, <3>2, ReleaseIs DEF TypeOK
  <2>8. reruns = 0 => (d \in found => d \in obs)
    <3>1. CASE p # Discovery
      BY <1>0, <2>0, <3>1 DEF Progress, ObservationsKept
    <3>2. CASE p = Discovery
      BY <1>0, <2>0, <3>2 DEF InHand
    <3> QED
      BY <3>1, <3>2
  <2>9. ASSUME NEW q \in Process \ {p} PROVE HoldsLock(q)' /\ Shape(q)'
    BY <1>0, <2>1, <2>5, ReleaseIs, OthersKeep
  <2>10. ASSUME NEW q \in Process \ {p}, reruns' = 0 PROVE Progress(q)'
    <3>1. proc[q].pc # "write"
      BY <1>0, <2>0 DEF HoldsLock
    <3> QED
      BY <1>0, <2>1, <2>5, <2>6, <2>10, <3>1, OthersProgress
  <2>11. ObservationsKept' /\ PublishedDayHasRows' /\ Calendar'
    <3>1. found \subseteq Day
      BY <1>0 DEF TypeOK
    <3> QED
      BY <1>0, <2>0, <2>1, <2>6, <2>8, <3>1 DEF ObservationsKept, PublishedDayHasRows, Calendar
  <2>12. InHand'
    BY <1>0, <1>d, <2>1, <2>4, <2>5, OthersInHand
  <2> QED
    BY <2>4, <2>7, <2>9, <2>10, <2>11, <2>12 DEF MarketInv
<1>11. ASSUME NEW p \in Process, ListWeeks(p) PROVE MarketInv'
  <2> DEFINE n == [proc[p] EXCEPT !.weeks = WeeksToRoll,
                                  !.pc = IF WeeksToRoll = {} THEN "done" ELSE "weekly"]
  <2>0. proc[p].pc = "list" /\ proc[p] \in Analytics /\ daily \subseteq Day
    BY <1>0, <1>11 DEF ListWeeks, TypeOK
  <2>1. WeeksToRoll \subseteq Week
    BY <2>0, WeekOfType DEF WeeksToRoll
  <2>2. n \in Analytics
    BY <2>0, <2>1 DEF Analytics
  <2>3. proc' = [proc EXCEPT ![p] = n] /\ proc'[p] = n
    BY <1>0, <1>11 DEF ListWeeks, TypeOK
  <2>4. UNCHANGED <<today, complete, found, obs, dayRun, daily, weekly, locks, reruns, faults>>
    BY <1>11 DEF ListWeeks
  <2>5. HoldsLock(p)' /\ Shape(p)'
    BY <1>0, <2>0, <2>3, <2>4 DEF HoldsLock, Shape, Analytics
  <2>6. reruns' = 0 => Progress(p)'
    BY <1>0, <2>0, <2>3, <2>4 DEF Progress, WeeksToRoll, Analytics
  <2>7. p = Discovery => InHand'
    BY <2>0, <2>3 DEF InHand, Analytics
  <2> QED
    BY <1>0, <2>2, <2>3, <2>4, <2>5, <2>6, <2>7, ProcessStep DEF TypeOK
<1>12. ASSUME NEW p \in Process, WriteWeekly(p) PROVE MarketInv'
  <2> DEFINE k == Min(proc[p].weeks)
             left == proc[p].weeks \ {k}
             days == {d \in daily : WeekOf(d) = k}
             n == AfterWeekly(p)
  <2>0. /\ proc[p].pc = "rollup" /\ proc[p] \in Analytics /\ daily \subseteq found
        /\ proc[p].weeks # {} /\ proc[p].weeks \subseteq Week
    BY <1>0, <1>12 DEF WriteWeekly, TypeOK, Shape, Analytics
  <2>1. k \in proc[p].weeks /\ k \in Week
    BY <2>0, SmallestElement, DayFacts
  <2>2. /\ weekly' = IF days = {} THEN weekly ELSE [weekly EXCEPT ![k] = days]
        /\ locks' = Release(p)
        /\ proc' = [proc EXCEPT ![p] = n] /\ proc'[p] = n
        /\ UNCHANGED <<today, complete, found, obs, dayRun, daily, reruns, faults>>
    BY <1>0, <1>12 DEF WriteWeekly, TypeOK
  <2>3. n = IF left # {} THEN [proc[p] EXCEPT !.pc = "weekly", !.weeks = left]
            ELSE IF proc[p].backfill THEN [proc[p] EXCEPT !.pc = "done", !.weeks = {}]
            ELSE Idle
    BY DEF AfterWeekly
  <2> HIDE DEF n, k
  <2>4. n \in Analytics
    BY <2>0, <2>3, IdleType DEF Analytics
  <2>5. \A q \in Process \ {p} : proc'[q] = proc[q]
    BY <1>0, <2>2 DEF TypeOK
  <2>6. /\ weekly' \in [Week -> SUBSET found]
        /\ \A j \in Week : weekly'[j] = weekly[j] \/ weekly'[j] = {d \in daily : WeekOf(d) = j}
        /\ days # {} => weekly'[k] = days
    BY <1>0, <2>0, <2>1, <2>2 DEF TypeOK
  <2>7. TypeOK'
    BY <1>0, <2>2, <2>4, <2>6, ReleaseIs DEF TypeOK
  <2>8. HoldsLock(p)' /\ Shape(p)'
    <3>1. CASE n = Idle
      BY <2>2, <3>1 DEF HoldsLock, Shape, Idle
    <3>2. CASE n # Idle
      <4>1. /\ (n.pc = "weekly" /\ n.weeks # {}) \/ (n.pc = "done" /\ n.weeks = {})
            /\ n.owed = proc[p].owed /\ n.backfill = proc[p].backfill
        <5>1. CASE left # {}
          <6>1. n = [proc[p] EXCEPT !.pc = "weekly", !.weeks = left]
            BY <2>3, <5>1
          <6> QED
            BY <2>0, <5>1, <6>1 DEF Analytics
        <5>2. CASE left = {}
          <6>1. n = [proc[p] EXCEPT !.pc = "done", !.weeks = {}]
            BY <2>3, <3>2, <5>2
          <6> QED
            BY <2>0, <6>1 DEF Analytics
        <5> QED
          BY <5>1, <5>2
      <4> QED
        BY <1>0, <2>2, <4>1 DEF HoldsLock, Shape
    <3> QED
      BY <3>1, <3>2
  <2>9. reruns' = 0 => Progress(p)'
    <3> SUFFICES ASSUME reruns = 0 PROVE Progress(p)'
      BY <2>2
    <3>1. Progress(p)
      BY <1>0
    <3>2. CASE left = {} /\ ~proc[p].backfill
      BY <2>2, <2>3, <3>2 DEF Progress, Idle
    <3>3. CASE left # {} \/ proc[p].backfill
      <4>1. /\ n.owed = proc[p].owed /\ n.want = proc[p].want /\ n.weeks = left
            /\ n.pc \in {"weekly", "done"}
        BY <2>0, <2>3, <3>3 DEF Analytics
      <4>2. ASSUME NEW d \in proc[p].owed \cap found PROVE WeekOf(d) \in left \/ d \in weekly'[WeekOf(d)]
        <5>1. d \in daily /\ d \in Day /\ (WeekOf(d) \in proc[p].weeks \/ d \in weekly[WeekOf(d)])
          BY <1>0, <2>0, <3>1 DEF Progress, Analytics
        <5>2. WeekOf(d) \in Week
          BY <5>1, WeekOfType
        <5> QED
          BY <2>6, <5>1, <5>2
      <4> QED
        BY <2>0, <2>2, <3>1, <4>1, <4>2 DEF Progress
    <3> QED
      BY <3>2, <3>3
  <2>10. ASSUME NEW q \in Process \ {p} PROVE HoldsLock(q)' /\ Shape(q)'
    BY <1>0, <2>2, <2>5, ReleaseIs, OthersKeep
  <2>11. ASSUME NEW q \in Process \ {p}, reruns' = 0 PROVE Progress(q)'
    BY <1>0, <2>2, <2>5, <2>6, <2>11, OthersProgress
  <2>12. ObservationsKept' /\ PublishedDayHasRows' /\ Calendar'
    BY <1>0, <2>2 DEF ObservationsKept, PublishedDayHasRows, Calendar
  <2>13. InHand'
    <3>1. CASE p = Discovery
      <4>1. n.pc \in {"weekly", "done", "idle"}
        BY <2>0, <2>3 DEF Analytics, Idle
      <4> QED
        BY <2>2, <3>1, <4>1 DEF InHand
    <3> QED
      BY <1>0, <1>d, <2>2, <2>5, <3>1, OthersInHand
  <2> QED
    BY <2>7, <2>8, <2>9, <2>10, <2>11, <2>12, <2>13 DEF MarketInv
<1>13. ASSUME NEW p \in Process, EndBackfill(p) PROVE MarketInv'
  <2>1. proc' = [proc EXCEPT ![p] = Idle] /\ proc'[p] = Idle
    BY <1>0, <1>13 DEF EndBackfill, TypeOK
  <2>2. /\ Idle \in Analytics /\ HoldsLock(p)' /\ Shape(p)' /\ Progress(p)'
        /\ p = Discovery => InHand'
    BY <2>1, FreeShape DEF Free
  <2> QED
    BY <1>0, <1>13, <2>1, <2>2, ProcessStep DEF EndBackfill, TypeOK
<1>14. ASSUME NEW p \in Process, AnalyticsError(p) PROVE MarketInv'
  <2>1. /\ proc' = [proc EXCEPT ![p] = AfterError(p)] /\ proc'[p] = AfterError(p)
        /\ locks' = Release(p) /\ faults' \in 0..MaxFaults
        /\ UNCHANGED <<today, complete, found, obs, dayRun, daily, weekly, reruns>>
    BY <1>0, <1>14, MarketConstants DEF AnalyticsError, TypeOK
  <2>2. Free(proc'[p])
    BY <1>0, <2>1, AfterErrorType
  <2>3. /\ AfterError(p) \in Analytics /\ HoldsLock(p)' /\ Shape(p)' /\ Progress(p)'
        /\ p = Discovery => InHand'
    BY <2>1, <2>2, FreeShape
  <2> QED
    BY <1>0, <2>1, <2>3, ReleaseIs, ProcessStep DEF TypeOK
<1>15. ASSUME NEW p \in Process, CleanupDiscoveryObservations(p) PROVE MarketInv'
  <2>1. /\ obs' = obs \ Expired(p) /\ proc' = [proc EXCEPT ![p] = Idle] /\ proc'[p] = Idle
        /\ UNCHANGED <<today, complete, found, dayRun, daily, weekly, locks, reruns, faults>>
    BY <1>0, <1>15 DEF CleanupDiscoveryObservations, TypeOK
  <2>2. p = Discovery /\ proc[p].day \in complete
    BY <1>0, <1>15 DEF CleanupDiscoveryObservations, Shape, InHand
  <2>3. \A q \in Process \ {p} : proc'[q] = proc[q]
    BY <1>0, <2>1 DEF TypeOK
  <2>4. TypeOK'
    BY <1>0, <2>1, IdleType DEF TypeOK
  <2>5. /\ HoldsLock(p)' /\ Shape(p)' /\ Progress(p)'
        /\ p = Discovery => InHand'
    BY <2>1, FreeShape DEF Free
  <2>6. ASSUME NEW q \in Process \ {p} PROVE HoldsLock(q)' /\ Shape(q)'
    BY <1>0, <2>1, <2>3, OthersKeep
  <2>7. ASSUME NEW q \in Process \ {p}, reruns' = 0 PROVE Progress(q)'
    BY <1>0, <2>1, <2>3, <2>7, OthersProgress
  <2>8. ObservationsKept' /\ PublishedDayHasRows'
    BY <1>0, <2>1 DEF ObservationsKept, PublishedDayHasRows, Expired
  <2>9. Calendar'
    <3>1. /\ today \in Nat /\ complete \subseteq Nat /\ found \subseteq Nat /\ Retention \in Nat
      BY <1>0, DayFacts, MarketConstants DEF TypeOK
    <3>2. PICK c \in complete : c = proc[p].day
      BY <2>2
    <3>3. c < today /\ c \in Nat
      BY <1>0, <3>1 DEF Calendar
    <3>4. ASSUME NEW e \in Expired(p) \cap found PROVE e < today - 1
      <4>1. e < c - Retention
        BY <3>2 DEF Expired
      <4>2. e \in Nat
        BY <3>1
      <4>3. today \in Nat /\ Retention \in Nat
        BY <3>1
      <4> QED
        BY <3>3, <4>1, <4>2, <4>3
    <3> QED
      BY <1>0, <2>1, <3>4 DEF Calendar
  <2> QED
    BY <2>2, <2>4, <2>5, <2>6, <2>7, <2>8, <2>9 DEF MarketInv
<1>16. CASE UNCHANGED vars
  BY <1>0, <1>16 DEF vars, MarketInv, TypeOK, HoldsLock, Shape, Progress, ObservationsKept,
                     PublishedDayHasRows, Calendar, InHand
<1> QED
  <2>1. ASSUME NEW p \in Process, AnalyticsStep(p) PROVE MarketInv'
    <3>1. CASE TakeDailyLock(p)
      BY <1>8, <3>1 DEF TakeDailyLock
    <3>2. CASE TakeWeeklyLock(p)
      BY <1>8, <3>2 DEF TakeWeeklyLock
    <3> QED
      BY <1>9, <1>10, <1>11, <1>12, <1>13, <1>15, <2>1, <3>1, <3>2 DEF AnalyticsStep
  <2> QED
    BY <1>1, <1>2, <1>3, <1>4, <1>5, <1>6, <1>7, <1>14, <1>16, <2>1 DEF Next

\* The locks of the two tasks, what the fields of a process mean and what a backfill has
\* done so far, for every interleaving of schedulers, operators and the discovery.
THEOREM MarketInvariant == Spec => []MarketInv
  BY MarketInit, MarketNext, PTL DEF Spec

\* Every reachable state is well typed: only complete cycles are published
\* (analytics_runs), and only what a cycle found gives daily and weekly rows.
THEOREM TypeCorrect == Spec => []TypeOK
<1>1. MarketInv => TypeOK
  BY DEF MarketInv
<1> QED
  BY <1>1, MarketInvariant, PTL

\* Unless an operator asks for a cycle again, a successful day whose cycle found anything
\* has rows: the cleanup never takes observations that a daily run is still to read, the
\* second run of a discovery that failed included.
THEOREM PublishedRows == Spec => []PublishedDayHasRows
<1>1. MarketInv => PublishedDayHasRows
  BY DEF MarketInv
<1> QED
  BY <1>1, MarketInvariant, PTL

\* A backfill that ends leaves no complete cycle unpublished, and nothing that one found out
\* of the daily rows or the rollup of its week.
THEOREM Backfill == Spec => []BackfillCatchesUp
  BY InvImplies, MarketInvariant, PTL
=============================================================================
