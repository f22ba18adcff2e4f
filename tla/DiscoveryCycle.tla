--------------------------- MODULE DiscoveryCycle ---------------------------
(***************************************************************************)
(* The daily search discovery: one cycle per UTC day, made of partitions   *)
(* of HH search pages, resumed page by page until it is complete, then     *)
(* used to reconcile vacancy statuses and to build the daily snapshot      *)
(* (apps/ingest/internal/pipeline/discovery.go, the discovery functions of *)
(* apps/ingest/internal/store/pg.go and apps/ingest/cmd/discovery).        *)
(*                                                                         *)
(* A page of a partition stands for the vacancies on it.  A transaction is *)
(* one step; HH, the clock and other processes move between two of them.   *)
(***************************************************************************)
EXTENDS Integers, FiniteSets, Functions

CONSTANTS
    Process,       \* discovery processes (daily and -once)
    NoProcess,     \* advisory lock 549004804 is free
    Assistant,     \* a continuous assistant worker, which takes the same key
    MaxKeys,       \* bound: partition keys, numbered in the order of their hashes
    MaxPages,      \* pages HH serves of one search (2000 results / per page)
    MaxDays,       \* bound: days
    Retention,     \* days observations are kept (35 in the code)
    MaxDrifts,     \* bound: changes of the page count HH reports
    MaxReplans,    \* bound: changes of the partitions PlanIT finds
    MaxFaults,     \* bound: failed requests or statements, timeouts, crashes
    MaxLockLosses  \* bound: sessions that drop while holding the lock

ASSUME DiscoveryBounds ==
    /\ MaxKeys \in Nat \ {0} /\ MaxPages \in Nat /\ MaxDays \in Nat \ {0}
    /\ Retention \in Nat /\ MaxDrifts \in Nat /\ MaxReplans \in Nat
    /\ MaxFaults \in Nat /\ MaxLockLosses \in Nat
ASSUME NoProcessAssumption ==
    NoProcess \notin Process /\ Assistant \notin Process \cup {NoProcess}

VARIABLES
    today,      \* cycle_date that is due: the previous UTC day
    catalog,    \* partitions PlanIT would find now (role catalog and splits)
    hhPages,    \* [Key -> Nat]: pages HH reports for each search now
    cycle,      \* ingest_cycles, scope daily_discovery
    part,       \* ingest_cycle_partitions
    observed,   \* ingest_cycle_observations, as the pages they came from
    applied,    \* the cycle that last decided vacancies.is_active
    snapshots,  \* analytics_runs: days with a successful daily_snapshot
    lock,       \* holder of the discovery lock according to PostgreSQL
    proc,       \* local state of run() in each process
    drifts, replans, faults, lockLosses

envVars == <<today, catalog, hhPages, drifts, replans>>
dbVars  == <<cycle, part, observed, applied, snapshots>>
vars    == <<today, catalog, hhPages, cycle, part, observed, applied, snapshots,
             lock, proc, drifts, replans, faults, lockLosses>>

-----------------------------------------------------------------------------
(* Types *)

Key  == 1..MaxKeys
Day  == 1..MaxDays
Page == 0..(MaxPages - 1)

Cycle == [status: {"none", "running", "complete"}, partitions: Nat,
          completedPartitions: Int, expectedPages: Int, completedPages: Nat]

Partition == [status: {"absent", "pending", "running", "complete"},
              expected: 0..MaxPages, next: 0..MaxPages]

PC == {"idle", "locked", "planning", "starting", "picking", "searching", "resizing",
       "saving", "completing", "reconciling", "snapshotting", "cleaning"}

Run == [pc: PC, day: 0..MaxDays, plan: SUBSET Key, found: [Key -> 0..MaxPages],
        key: 0..MaxKeys, next: 0..MaxPages, expected: 0..MaxPages]

NoCycle == [status |-> "none", partitions |-> 0, completedPartitions |-> 0,
            expectedPages |-> 0, completedPages |-> 0]
NoPartition == [status |-> "absent", expected |-> 0, next |-> 0]
Idle == [pc |-> "idle", day |-> 0, plan |-> {}, found |-> [k \in Key |-> 0],
         key |-> 0, next |-> 0, expected |-> 0]

TypeOK ==
    /\ today \in Day
    /\ catalog \in SUBSET Key
    /\ hhPages \in [Key -> 0..MaxPages]
    /\ cycle \in [Day -> Cycle]
    /\ part \in [Day -> [Key -> Partition]]
    /\ observed \in [Day -> SUBSET (Key \X Page)]
    /\ applied \in 0..MaxDays
    /\ snapshots \in SUBSET Day
    /\ lock \in Process \cup {NoProcess, Assistant}
    /\ proc \in [Process -> Run]
    /\ drifts \in 0..MaxDrifts /\ replans \in 0..MaxReplans
    /\ faults \in 0..MaxFaults /\ lockLosses \in 0..MaxLockLosses

-----------------------------------------------------------------------------
(* The rows of a cycle *)

Keys(d) == {k \in Key : part[d][k].status # "absent"}
Incomplete(d) == {k \in Keys(d) : part[d][k].status # "complete"}

\* Mutant: the backlog is looked at only once today's cycle is complete.
PendingTodayFirst == {d \in Day : cycle[d].status = "running" /\ cycle[today].status = "complete"}

\* SELECT ... WHERE status = 'running' ORDER BY cycle_date LIMIT 1
Pending == {d \in Day : /\ cycle[d].status = "running"
                        /\ \A e \in Day : cycle[e].status = "running" => d <= e}

\* Mutant: the deltas of the two page counters are swapped.
AdvanceSwapped(c, pages, completed, partitions) ==
    IF c.status = "running"
    THEN [c EXCEPT !.expectedPages = @ + completed, !.completedPages = @ + pages,
                   !.completedPartitions = @ + partitions]
    ELSE c

\* Counters of a running cycle; updates of another one match no row.
Advance(c, pages, completed, partitions) ==
    IF c.status = "running"
    THEN [c EXCEPT !.expectedPages = @ + pages, !.completedPages = @ + completed,
                   !.completedPartitions = @ + partitions]
    ELSE c

\* The CHECK constraints of ingest_cycles; a statement that breaks one fails.
ChecksHold(c) ==
    /\ 0 <= c.expectedPages /\ c.completedPages <= c.expectedPages
    /\ 0 <= c.completedPartitions /\ c.completedPartitions <= c.partitions

Become(p, pc) == proc' = [proc EXCEPT ![p].pc = pc]

\* run() returns: the lock is released if this session still has it.
Leave(p) ==
    /\ proc' = [proc EXCEPT ![p] = Idle]
    /\ lock' = IF lock = p THEN NoProcess ELSE lock

-----------------------------------------------------------------------------
(* Environment *)

NextDay ==
    /\ today < MaxDays
    /\ today' = today + 1
    /\ UNCHANGED <<catalog, hhPages, drifts, replans, dbVars, lock, proc, faults, lockLosses>>

\* Vacancies of a search are archived or republished.
Drift(k, n) ==
    /\ drifts < MaxDrifts /\ drifts' = drifts + 1
    /\ n # hhPages[k]
    /\ hhPages' = [hhPages EXCEPT ![k] = n]
    /\ UNCHANGED <<today, catalog, replans, dbVars, lock, proc, faults, lockLosses>>

\* A role appears, or a search crosses the cap and is split differently.
Replan(S) ==
    /\ replans < MaxReplans /\ replans' = replans + 1
    /\ S # catalog /\ S # {}
    /\ catalog' = S
    /\ UNCHANGED <<today, hhPages, drifts, dbVars, lock, proc, faults, lockLosses>>

\* TryProcessLock of the assistant package: a continuous worker holds the key for as long
\* as it lives.
TryProcessLock ==
    /\ lock = NoProcess
    /\ lock' = Assistant
    /\ UNCHANGED <<envVars, dbVars, proc, faults, lockLosses>>

\* The worker is stopped, or dies, or its session drops.
ReleaseProcessLock ==
    /\ lock = Assistant
    /\ lock' = NoProcess
    /\ UNCHANGED <<envVars, dbVars, proc, faults, lockLosses>>

-----------------------------------------------------------------------------
(* run() *)

TryDiscoveryLock(p) ==
    /\ proc[p].pc = "idle"
    /\ lock = NoProcess
    /\ lock' = p
    /\ Become(p, "locked")
    /\ UNCHANGED <<envVars, dbVars, faults, lockLosses>>

PendingDiscoveryCycle(p) ==
    /\ proc[p].pc = "locked"
    /\ \E d \in IF Pending = {} THEN {today} ELSE Pending :
          proc' = [proc EXCEPT ![p] = [Idle EXCEPT !.pc = "planning", !.day = d]]
    /\ UNCHANGED <<envVars, dbVars, lock, faults, lockLosses>>

\* Probes every role and splits; a partition without results has no pages.  The probe of
\* a role that is not split has no dates, while its pages are searched up to the cutoff:
\* it counts as many pages, or more.  One step for many requests: searches change
\* independently of each other, so any mixture of answers is also that of an instant.
PlanIT(p) ==
    /\ proc[p].pc = "planning"
    /\ \E pages \in [catalog -> 0..MaxPages] :
          /\ \A k \in catalog : hhPages[k] <= pages[k]
          /\ proc' = [proc EXCEPT ![p] =
                [@ EXCEPT !.pc = "starting", !.plan = catalog,
                          !.found = [k \in Key |-> IF k \in catalog THEN pages[k] ELSE 0]]]
    /\ UNCHANGED <<envVars, dbVars, lock, faults, lockLosses>>

\* The cycle row is inserted once; a resumed one keeps its counters, while the
\* partitions of today's plan that it lacks are added.  The plan is not used again.
StartDiscoveryCycle(p) ==
    LET d == proc[p].day
        found == proc[p].found
        plan == proc[p].plan
    IN  /\ proc[p].pc = "starting"
        /\ cycle' = [cycle EXCEPT ![d] =
              IF @.status # "none" THEN @
              ELSE [status |-> "running", partitions |-> Cardinality(plan),
                    completedPartitions |-> Cardinality({k \in plan : found[k] = 0}),
                    expectedPages |-> SumFunctionOnSet(found, plan),
                    completedPages |-> 0]]
        /\ part' = [part EXCEPT ![d] = [k \in Key |->
              IF k \in plan /\ @[k].status = "absent"
              THEN [status |-> IF found[k] = 0 THEN "complete" ELSE "pending",
                    expected |-> found[k], next |-> 0]
              ELSE @[k]]]
        /\ proc' = [proc EXCEPT ![p] = [Idle EXCEPT !.pc = "picking", !.day = d]]
        /\ UNCHANGED <<envVars, observed, applied, snapshots, lock, faults, lockLosses>>

NextDiscoveryPartition(p) ==
    LET d == proc[p].day
    IN  /\ proc[p].pc = "picking"
        /\ \/ /\ Incomplete(d) = {}
              /\ Become(p, "completing")
           \/ \E k \in Incomplete(d) :
                /\ \A j \in Incomplete(d) : k <= j
                /\ proc' = [proc EXCEPT ![p] =
                      [@ EXCEPT !.pc = "searching", !.key = k, !.next = part[d][k].next,
                                !.expected = part[d][k].expected]]
        /\ UNCHANGED <<envVars, dbVars, lock, faults, lockLosses>>

\* A page count that differs from the plan is accepted at page zero only.
SearchVacancies(p) ==
    LET reported == hhPages[proc[p].key]
    IN  /\ proc[p].pc = "searching"
        /\ \/ /\ reported = proc[p].expected
              /\ Become(p, "saving") /\ lock' = lock
           \/ /\ reported # proc[p].expected /\ proc[p].next = 0
              /\ proc' = [proc EXCEPT ![p] = [@ EXCEPT !.pc = "resizing", !.expected = reported]]
              /\ lock' = lock
           \/ /\ reported # proc[p].expected /\ proc[p].next # 0
              /\ Leave(p)
        /\ UNCHANGED <<envVars, dbVars, faults, lockLosses>>

\* Mutant: the cycle's total is not adjusted to the new page count.
ResizedWithoutTotal(d, k, n) ==
    [cycle EXCEPT ![d] = Advance(@, 0, 0, IF n = 0 THEN 1 ELSE 0)]

\* ingest_cycles after the partition's page count is replaced
Resized(d, k, n) ==
    [cycle EXCEPT ![d] = Advance(@, n - part[d][k].expected, 0, IF n = 0 THEN 1 ELSE 0)]

SetDiscoveryExpectedPages(p) ==
    LET d == proc[p].day
        k == proc[p].key
        n == proc[p].expected
        settled == part[d][k].next # 0 \/ part[d][k].expected = n
    IN  /\ proc[p].pc = "resizing"
        /\ \/ /\ settled
              /\ Become(p, IF n = 0 THEN "picking" ELSE "saving")
              /\ UNCHANGED <<cycle, part, lock>>
           \/ /\ ~settled /\ ChecksHold(Resized(d, k, n)[d])
              /\ cycle' = Resized(d, k, n)
              /\ part' = [part EXCEPT ![d][k] =
                    [@ EXCEPT !.expected = n, !.status = IF n = 0 THEN "complete" ELSE "pending"]]
              /\ Become(p, IF n = 0 THEN "picking" ELSE "saving")
              /\ lock' = lock
           \/ /\ ~settled /\ ~ChecksHold(Resized(d, k, n)[d])
              /\ Leave(p)
              /\ UNCHANGED <<cycle, part>>
        /\ UNCHANGED <<envVars, observed, applied, snapshots, faults, lockLosses>>

\* Mutant: a page that was committed before is counted again.
AlreadyCommittedNever(p) == FALSE

\* next <= current: another run committed this page
AlreadyCommitted(p) == proc[p].next + 1 <= part[proc[p].day][proc[p].key].next

\* Mutant: pages are requested counting from one.
FetchedPageFromOne(p) == proc[p].next + 1

\* Page: part.NextPage, counting from zero
FetchedPage(p) == proc[p].next

\* One transaction: observations, then the partition and the cycle advance.
SaveDiscoveryPage(p) ==
    LET d == proc[p].day
        k == proc[p].key
        next == proc[p].next + 1
        last == next = part[d][k].expected
        moved == Advance(cycle[d], 0, 1, IF last THEN 1 ELSE 0)
        refused == next > part[d][k].expected \/ ~ChecksHold(moved)
    IN  /\ proc[p].pc = "saving"
        /\ \/ /\ AlreadyCommitted(p)
              /\ observed' = [observed EXCEPT ![d] = @ \cup {<<k, FetchedPage(p)>>}]
              /\ Become(p, "picking")
              /\ UNCHANGED <<cycle, part, lock>>
           \/ /\ ~AlreadyCommitted(p) /\ refused
              /\ Leave(p)
              /\ UNCHANGED <<cycle, part, observed>>
           \/ /\ ~AlreadyCommitted(p) /\ ~refused
              /\ observed' = [observed EXCEPT ![d] = @ \cup {<<k, FetchedPage(p)>>}]
              /\ part' = [part EXCEPT ![d][k] =
                    [@ EXCEPT !.next = next, !.status = IF last THEN "complete" ELSE "running"]]
              /\ cycle' = [cycle EXCEPT ![d] = moved]
              /\ Become(p, "picking")
              /\ lock' = lock
        /\ UNCHANGED <<envVars, applied, snapshots, faults, lockLosses>>

Completable(d) ==
    /\ cycle[d].status \in {"running", "complete"}
    /\ cycle[d].completedPages = cycle[d].expectedPages
    /\ cycle[d].completedPartitions = cycle[d].partitions
    /\ Incomplete(d) = {}

CompleteDiscoveryCycle(p) ==
    LET d == proc[p].day
    IN  /\ proc[p].pc = "completing"
        /\ \/ /\ Completable(d)
              /\ cycle' = [cycle EXCEPT ![d].status = "complete"]
              /\ Become(p, "reconciling") /\ lock' = lock
           \/ /\ ~Completable(d)
              /\ Leave(p) /\ cycle' = cycle
        /\ UNCHANGED <<envVars, part, observed, applied, snapshots, faults, lockLosses>>

\* Vacancies on an observed page become active, the others inactive.
ReconcileDiscoveryStatuses(p) ==
    /\ proc[p].pc = "reconciling"
    /\ applied' = IF cycle[proc[p].day].status = "complete" THEN proc[p].day ELSE applied
    /\ Become(p, "snapshotting")
    /\ UNCHANGED <<envVars, cycle, part, observed, snapshots, lock, faults, lockLosses>>

\* analyticsWorker.RunDaily with the cycle's id
RunDaily(p) ==
    /\ proc[p].pc = "snapshotting"
    /\ snapshots' = snapshots \cup {d \in {proc[p].day} : cycle[d].status = "complete"}
    /\ Become(p, "cleaning")
    /\ UNCHANGED <<envVars, cycle, part, observed, applied, lock, faults, lockLosses>>

\* Mutant: the retention boundary includes the cycle just published.
CleanupInclusive(p) ==
    /\ proc[p].pc = "cleaning"
    /\ observed' = [d \in Day |->
          IF d <= proc[p].day - Retention /\ d \in snapshots THEN {} ELSE observed[d]]
    /\ Leave(p)
    /\ UNCHANGED <<envVars, cycle, part, applied, snapshots, faults, lockLosses>>

CleanupDiscoveryObservations(p) ==
    /\ proc[p].pc = "cleaning"
    /\ observed' = [d \in Day |->
          IF d < proc[p].day - Retention /\ d \in snapshots THEN {} ELSE observed[d]]
    /\ Leave(p)
    /\ UNCHANGED <<envVars, cycle, part, applied, snapshots, faults, lockLosses>>

\* Mutant: only the cycle of the day that is due is looked at.
AnalyticsTickToday(d) ==
    /\ cycle[d].status = "complete" /\ d \notin snapshots
    /\ d = today
    /\ snapshots' = snapshots \cup {d}
    /\ UNCHANGED <<envVars, cycle, part, observed, applied, lock, proc, faults, lockLosses>>

\* The analytics scheduler: RunDaily without an id takes the oldest complete
\* cycle that has no snapshot.
AnalyticsTick(d) ==
    /\ cycle[d].status = "complete" /\ d \notin snapshots
    /\ \A e \in Day : cycle[e].status = "complete" /\ e \notin snapshots => d <= e
    /\ snapshots' = snapshots \cup {d}
    /\ UNCHANGED <<envVars, cycle, part, observed, applied, lock, proc, faults, lockLosses>>

-----------------------------------------------------------------------------
(* Failures *)

\* A request or statement fails, the answer of a commit is lost, the run times
\* out or the process dies: what is durable stays and the lock is freed.
Abort(p) ==
    /\ proc[p].pc # "idle"
    /\ faults < MaxFaults /\ faults' = faults + 1
    /\ Leave(p)
    /\ UNCHANGED <<envVars, dbVars, lockLosses>>

\* The session of the lock drops; run() goes on with other connections.
LoseLock(p) ==
    /\ lock = p
    /\ lockLosses < MaxLockLosses /\ lockLosses' = lockLosses + 1
    /\ lock' = NoProcess
    /\ UNCHANGED <<envVars, dbVars, proc, faults>>

-----------------------------------------------------------------------------
(* Specification *)

Init ==
    /\ today = 1
    /\ catalog \in SUBSET Key \ {{}}
    /\ hhPages \in [Key -> 0..MaxPages]
    /\ cycle = [d \in Day |-> NoCycle]
    /\ part = [d \in Day |-> [k \in Key |-> NoPartition]]
    /\ observed = [d \in Day |-> {}]
    /\ applied = 0
    /\ snapshots = {}
    /\ lock = NoProcess
    /\ proc = [p \in Process |-> Idle]
    /\ drifts = 0 /\ replans = 0 /\ faults = 0 /\ lockLosses = 0

RunStep(p) ==
    \/ PendingDiscoveryCycle(p)
    \/ PlanIT(p)
    \/ StartDiscoveryCycle(p)
    \/ NextDiscoveryPartition(p)
    \/ SearchVacancies(p)
    \/ SetDiscoveryExpectedPages(p)
    \/ SaveDiscoveryPage(p)
    \/ CompleteDiscoveryCycle(p)
    \/ ReconcileDiscoveryStatuses(p)
    \/ RunDaily(p)
    \/ CleanupDiscoveryObservations(p)

Next ==
    \/ NextDay
    \/ \E k \in Key, n \in 0..MaxPages : Drift(k, n)
    \/ \E S \in SUBSET Key : Replan(S)
    \/ TryProcessLock \/ ReleaseProcessLock
    \/ \E p \in Process : \/ TryDiscoveryLock(p)
                          \/ RunStep(p)
                          \/ Abort(p)
                          \/ LoseLock(p)
    \/ \E d \in Day : AnalyticsTick(d)

Spec == Init /\ [][Next]_vars

\* The daily process retries and never gives up; the analytics scheduler ticks.
\* HH, the clock, the assistant and faults owe nothing.
Fairness ==
    /\ \A p \in Process : WF_vars(TryDiscoveryLock(p)) /\ WF_vars(RunStep(p))
    /\ \A d \in Day : WF_vars(AnalyticsTick(d))

FairSpec == Spec /\ Fairness

-----------------------------------------------------------------------------
(* Properties *)

Covered(d) ==
    \A k \in Keys(d) :
        /\ part[d][k].status = "complete"
        /\ {k} \X (0..(part[d][k].expected - 1)) \subseteq observed[d]

\* 05-data-model.md: status "complete" is allowed only after the commit of all
\* search pages.  Every page of every partition of a complete cycle has been
\* observed, across aborted and resumed runs and page counts replaced at page
\* zero; old observations may have been cleaned up.  (A day that is run again
\* after its plan changed gets new partitions while it stays complete.)
CompleteIsCovered ==
    replans = 0 /\ lockLosses = 0 =>
        \A d \in Day : cycle[d].status = "complete" =>
            Covered(d) \/ (d < today - Retention /\ d \in snapshots)

\* A process about to deactivate every vacancy that its cycle did not see holds
\* a cycle whose pages are all there: ReconcileDiscoveryStatuses would otherwise
\* deactivate vacancies that were never looked for.
ReconcilesCovered ==
    lockLosses = 0 =>
        \A p \in Process : proc[p].pc = "reconciling" => Covered(proc[p].day)

\* The counters that completion compares agree with the partitions, also when
\* two processes commit the same page: otherwise CompleteDiscoveryCycle could
\* never succeed and the day would block all later ones.  (A plan that changes
\* while its day is running breaks them, and so does a page count that two
\* overlapping processes replace differently.)
CountersExact ==
    replans = 0 /\ (lockLosses = 0 \/ drifts = 0) =>
        \A d \in Day : cycle[d].status = "running" =>
            /\ cycle[d].partitions = Cardinality(Keys(d))
            /\ cycle[d].completedPartitions = Cardinality(Keys(d) \ Incomplete(d))
            /\ cycle[d].expectedPages = SumFunctionOnSet([k \in Key |-> part[d][k].expected], Keys(d))
            /\ cycle[d].completedPages = SumFunctionOnSet([k \in Key |-> part[d][k].next], Keys(d))

\* Vacancy statuses are never set back to those of an earlier day, although an
\* unfinished day is resumed after newer ones have become due.
StatusesNeverGoBack == [][lockLosses = 0 => applied' >= applied]_vars

\* A partition half committed with another page count than HH reports now.
Jammed(d) == \E k \in Incomplete(d) : part[d][k].next # 0 /\ hhPages[k] # part[d][k].expected

\* Whatever runs are aborted, a started day is completed, unless HH changes the
\* page count of a partition that is partly committed.  A continuous assistant
\* worker holds the same key, and every run is then skipped: the day completes
\* when the assistant comes and goes but finally stays away.
StartedDayCompletes ==
    <>[](lock # Assistant) =>
        \A d \in Day : cycle[d].status = "running" ~> cycle[d].status = "complete" \/ Jammed(d)

\* A complete day gets its snapshot, also when the discovery died before it or
\* the next day was due by then.
CompleteDayIsPublished == \A d \in Day : cycle[d].status = "complete" ~> d \in snapshots
=============================================================================
