--------------------------- MODULE MarketSnapshots ---------------------------
(***************************************************************************)
(* The analytics worker (apps/analytics) turns complete discovery cycles   *)
(* into daily snapshots and these into weekly rollups: its scheduler every *)
(* interval, an operator by -mode backfill, daily -cycle-id and weekly.    *)
(* The daily discovery (apps/ingest/cmd/discovery) completes the cycle of  *)
(* a past day, runs the daily snapshot of it in its own process and then   *)
(* removes the observations of old cycles that have their snapshot.        *)
(*                                                                         *)
(* A serializable transaction is one step.  A day has one cycle; day 1 is  *)
(* a Monday.  The rows of analytics_runs for weeks are left out: the       *)
(* worker writes and never reads them.                                     *)
(***************************************************************************)
EXTENDS Integers, FiniteSets, FiniteSetsExt

CONSTANTS
    Scheduler,      \* cmd/worker -mode scheduler
    Operator,       \* cmd/worker in the other modes
    Discovery,      \* the daily discovery; lock 549004804 lets one run at a time
    NoProcess,      \* an advisory lock is free
    MaxDays,        \* bound: days
    WeekLength,     \* days of a week (7)
    Retention,      \* days the observations of a snapshot are kept (35)
    MaxReruns,      \* bound: daily runs of a given cycle, by operators
    MaxFaults       \* bound: failed statements, serialization failures, timeouts

Process == Scheduler \cup Operator \cup {Discovery}
Day  == 1..MaxDays
Week == 1..((MaxDays + WeekLength - 1) \div WeekLength)
WeekOf(d) == (d - 1) \div WeekLength + 1      \* MondayUTC

ASSUME MarketConstants ==
    /\ NoProcess \notin Process /\ Scheduler \cap Operator = {}
    /\ Discovery \notin Scheduler \cup Operator
    /\ MaxDays \in Nat \ {0} /\ WeekLength \in Nat \ {0}
    /\ Retention \in Nat /\ MaxReruns \in Nat /\ MaxFaults \in Nat

VARIABLES
    today,
    complete,   \* set of days whose discovery cycle is complete
    found,      \* history: days whose cycle was completed with observations
    obs,        \* set of days with ingest_cycle_observations
    dayRun,     \* [Day -> status]: analytics_runs, daily_snapshot
    daily,      \* set of days with rows in vacancy_demand_daily
    weekly,     \* [Week -> SUBSET Day]: the days vacancy_demand_weekly was built from
    locks,      \* ["daily", "weekly"]: holders of 549004802 and 549004803
    proc,       \* local state of the analytics processes
    reruns, faults

ingestVars == <<today, complete, found, obs>>
tables     == <<dayRun, daily, weekly>>
vars == <<ingestVars, tables, locks, proc, reruns, faults>>

-----------------------------------------------------------------------------
(* Types *)

RunStatus == {"none", "skipped", "success"}

\* want is the cycle asked for, 0 for the oldest without a snapshot; day the cycle
\* selected; weeks those still to roll up, oldest first; owed (of a backfill) the cycles
\* complete when it started.
Analytics == [pc: {"idle", "daily", "select", "write", "list", "weekly", "rollup", "done",
                   "clean", "failed"},
              want: 0..MaxDays, day: 0..MaxDays, weeks: SUBSET Week, backfill: BOOLEAN,
              owed: SUBSET Day]
Idle == [pc |-> "idle", want |-> 0, day |-> 0, weeks |-> {}, backfill |-> FALSE, owed |-> {}]

\* Only complete cycles are published, and only what one found gives rows.
TypeOK ==
    /\ today \in Day /\ complete \subseteq Day /\ found \subseteq complete
    /\ obs \subseteq found
    /\ dayRun \in [Day -> RunStatus]
    /\ {d \in Day : dayRun[d] = "success"} \subseteq complete
    /\ daily \subseteq {d \in found : dayRun[d] = "success"}
    /\ weekly \in [Week -> SUBSET found]
    /\ locks \in [{"daily", "weekly"} -> Process \cup {NoProcess}]
    /\ proc \in [Process -> Analytics]
    /\ reruns \in 0..MaxReruns /\ faults \in 0..MaxFaults

Init ==
    /\ today = 1 /\ complete = {} /\ found = {} /\ obs = {}
    /\ dayRun = [d \in Day |-> "none"]
    /\ daily = {} /\ weekly = [k \in Week |-> {}]
    /\ locks = [l \in {"daily", "weekly"} |-> NoProcess]
    /\ proc = [p \in Process |-> Idle]
    /\ reruns = 0 /\ faults = 0

-----------------------------------------------------------------------------
(* The daily discovery, as the snapshots see it *)

NextDay ==
    /\ today < MaxDays
    /\ today' = today + 1
    /\ UNCHANGED <<complete, found, obs, tables, locks, proc, reruns, faults>>

\* RunDaily with the id of the cycle that the discovery has in hand
Publish(d) == proc' = [proc EXCEPT ![Discovery] = [Idle EXCEPT !.pc = "daily", !.want = d]]

\* The cycle of a past day becomes complete, in the order of the days; a day may be
\* missed.  A cycle whose searches found nothing completes without observations.
CompleteCycle(d, empty) ==
    /\ proc[Discovery].pc \in {"idle", "failed"}
    /\ d < today /\ \A e \in complete : e < d
    /\ complete' = complete \cup {d}
    /\ found' = IF empty THEN found ELSE found \cup {d}
    /\ obs' = IF empty THEN obs ELSE obs \cup {d}
    /\ Publish(d)
    /\ UNCHANGED <<today, tables, locks, reruns, faults>>

\* A discovery that failed after its cycle was complete is run again after RetryInterval;
\* when no other day is due it finds the cycle complete and publishes it again.
RetryCycle(d) ==
    /\ proc[Discovery].pc = "failed"
    /\ d = today - 1 /\ d \in complete
    /\ Publish(d)
    /\ UNCHANGED <<ingestVars, tables, locks, reruns, faults>>

-----------------------------------------------------------------------------
(* The analytics worker *)

Release(p) == [l \in DOMAIN locks |-> IF locks[l] = p THEN NoProcess ELSE locks[l]]

\* skipSQL: a success is never turned into a skip.
Skip(run, t) == [run EXCEPT ![t] = IF @ = "success" THEN @ ELSE "skipped"]

\* What follows RunDaily: the scheduler rolls up the current week, the discovery cleans
\* up, a backfill goes on until a run is skipped, a single run ends.
AfterDaily(p, skipped) ==
    CASE p \in Scheduler                            ->
            [Idle EXCEPT !.pc = "weekly", !.weeks = {WeekOf(today)}]
      [] p = Discovery                              ->
            [Idle EXCEPT !.pc = "clean", !.day = proc[p].want]
      [] p \in Operator /\ proc[p].backfill         ->
            [proc[p] EXCEPT !.pc = IF skipped THEN "list" ELSE "daily", !.day = 0]
      [] OTHER                                      -> Idle

\* What follows RunWeekly
AfterWeekly(p) ==
    LET left == proc[p].weeks \ {Min(proc[p].weeks)} IN
    IF left # {} THEN [proc[p] EXCEPT !.pc = "weekly", !.weeks = left]
    ELSE IF proc[p].backfill THEN [proc[p] EXCEPT !.pc = "done", !.weeks = {}]
    ELSE Idle

\* What follows an error: the scheduler goes on, the discovery may run again, the others
\* end.
AfterError(p) ==
    CASE p \in Scheduler /\ proc[p].pc \in {"daily", "select", "write"} -> AfterDaily(p, FALSE)
      [] p = Discovery -> [Idle EXCEPT !.pc = "failed"]
      [] OTHER         -> Idle

Tick(p) ==
    /\ p \in Scheduler /\ proc[p].pc = "idle"
    /\ proc' = [proc EXCEPT ![p].pc = "daily"]
    /\ UNCHANGED <<ingestVars, tables, locks, reruns, faults>>

StartBackfill(p) ==
    /\ p \in Operator /\ proc[p].pc = "idle"
    /\ proc' = [proc EXCEPT ![p] = [Idle EXCEPT !.pc = "daily", !.backfill = TRUE, !.owed = complete]]
    /\ UNCHANGED <<ingestVars, tables, locks, reruns, faults>>

StartDaily(p, d) ==
    /\ p \in Operator /\ proc[p].pc = "idle" /\ reruns < MaxReruns
    /\ reruns' = reruns + 1
    /\ proc' = [proc EXCEPT ![p] = [Idle EXCEPT !.pc = "daily", !.want = d]]
    /\ UNCHANGED <<ingestVars, tables, locks, faults>>

StartWeekly(p, k) ==
    /\ p \in Operator /\ proc[p].pc = "idle"
    /\ proc' = [proc EXCEPT ![p] = [Idle EXCEPT !.pc = "weekly", !.weeks = {k}]]
    /\ UNCHANGED <<ingestVars, tables, locks, reruns, faults>>

\* withLock: the lock is taken, or the run ends with ErrLockUnavailable.
WithLock(p, l, from, to) ==
    /\ proc[p].pc = from
    /\ IF locks[l] = NoProcess
       THEN /\ locks' = [locks EXCEPT ![l] = p]
            /\ proc' = [proc EXCEPT ![p].pc = to]
       ELSE /\ proc' = [proc EXCEPT ![p] = AfterError(p)]
            /\ UNCHANGED locks
    /\ UNCHANGED <<ingestVars, tables, reruns, faults>>

TakeDailyLock(p)  == WithLock(p, "daily", "daily", "select")
TakeWeeklyLock(p) == WithLock(p, "weekly", "weekly", "rollup")

\* Mutant: a day that was skipped once counts as done.
EligibleUntried(p) ==
    IF proc[p].want # 0 THEN complete \cap {proc[p].want}
    ELSE {d \in complete : dayRun[d] = "none"}

\* The complete cycles RunDaily may take: the one asked for, or all without a snapshot
Eligible(p) ==
    IF proc[p].want # 0 THEN complete \cap {proc[p].want}
    ELSE {d \in complete : dayRun[d] # "success"}

\* selectCycle, or recordSkip for today
SelectCycle(p) ==
    /\ proc[p].pc = "select"
    /\ IF Eligible(p) # {}
       THEN /\ proc' = [proc EXCEPT ![p].pc = "write", ![p].day = Min(Eligible(p))]
            /\ UNCHANGED <<dayRun, locks>>
       ELSE /\ dayRun' = Skip(dayRun, today)
            /\ locks' = Release(p)
            /\ proc' = [proc EXCEPT ![p] = AfterDaily(p, TRUE)]
    /\ UNCHANGED <<ingestVars, daily, weekly, reruns, faults>>

\* Mutant: the run is left running.
WriteDailyRunning(p) ==
    /\ proc[p].pc = "write"
    /\ dayRun' = [dayRun EXCEPT ![proc[p].day] = "running"]
    /\ daily' = IF proc[p].day \in obs THEN daily \cup {proc[p].day} ELSE daily \ {proc[p].day}
    /\ locks' = Release(p)
    /\ proc' = [proc EXCEPT ![p] = AfterDaily(p, FALSE)]
    /\ UNCHANGED <<ingestVars, weekly, reruns, faults>>

\* writeDaily: the rows of the day are replaced by the aggregate of its observations.
WriteDaily(p) ==
    /\ proc[p].pc = "write"
    /\ dayRun' = [dayRun EXCEPT ![proc[p].day] = "success"]
    /\ daily' = IF proc[p].day \in obs THEN daily \cup {proc[p].day} ELSE daily \ {proc[p].day}
    /\ locks' = Release(p)
    /\ proc' = [proc EXCEPT ![p] = AfterDaily(p, FALSE)]
    /\ UNCHANGED <<ingestVars, weekly, reruns, faults>>

\* Mutant: a backfill rolls up the weeks that have no rollup yet.
WeeksToRollNew == {WeekOf(d) : d \in {e \in daily : weekly[WeekOf(e)] = {}}}

\* The weeks of Backfill
WeeksToRoll == {WeekOf(d) : d \in daily}

ListWeeks(p) ==
    /\ proc[p].pc = "list"
    /\ proc' = [proc EXCEPT ![p].weeks = WeeksToRoll,
                            ![p].pc = IF WeeksToRoll = {} THEN "done" ELSE "weekly"]
    /\ UNCHANGED <<ingestVars, tables, locks, reruns, faults>>

\* writeWeekly: the rows of the week are replaced by the rollup of its daily rows; a
\* week without any is skipped.
WriteWeekly(p) ==
    LET k    == Min(proc[p].weeks)
        days == {d \in daily : WeekOf(d) = k} IN
    /\ proc[p].pc = "rollup"
    /\ weekly' = IF days = {} THEN weekly ELSE [weekly EXCEPT ![k] = days]
    /\ locks' = Release(p)
    /\ proc' = [proc EXCEPT ![p] = AfterWeekly(p)]
    /\ UNCHANGED <<ingestVars, dayRun, daily, reruns, faults>>

EndBackfill(p) ==
    /\ proc[p].pc = "done"
    /\ proc' = [proc EXCEPT ![p] = Idle]
    /\ UNCHANGED <<ingestVars, tables, locks, reruns, faults>>

\* Mutant: observations are removed by age alone.
ExpiredByAge(p) == {d \in obs : d < proc[p].day - Retention}

\* What CleanupDiscoveryObservations removes
Expired(p) == {d \in obs : d < proc[p].day - Retention /\ dayRun[d] = "success"}

CleanupDiscoveryObservations(p) ==
    /\ proc[p].pc = "clean"
    /\ obs' = obs \ Expired(p)
    /\ proc' = [proc EXCEPT ![p] = Idle]
    /\ UNCHANGED <<today, complete, found, tables, locks, reruns, faults>>

\* A failed statement, a serialization failure or a timeout; the transaction is undone.
AnalyticsError(p) ==
    /\ faults < MaxFaults /\ proc[p].pc \notin {"idle", "done", "failed"}
    /\ faults' = faults + 1
    /\ locks' = Release(p)
    /\ proc' = [proc EXCEPT ![p] = AfterError(p)]
    /\ UNCHANGED <<ingestVars, tables, reruns>>

-----------------------------------------------------------------------------
(* Specification *)

AnalyticsStep(p) ==
    \/ TakeDailyLock(p)
    \/ SelectCycle(p)
    \/ WriteDaily(p)
    \/ ListWeeks(p)
    \/ TakeWeeklyLock(p)
    \/ WriteWeekly(p)
    \/ EndBackfill(p)
    \/ CleanupDiscoveryObservations(p)

Next ==
    \/ NextDay
    \/ \E d \in Day, empty \in BOOLEAN : CompleteCycle(d, empty)
    \/ \E d \in Day : RetryCycle(d)
    \/ \E p \in Process :
        \/ Tick(p)
        \/ StartBackfill(p)
        \/ \E d \in Day : StartDaily(p, d)
        \/ \E k \in Week : StartWeekly(p, k)
        \/ AnalyticsStep(p)
        \/ AnalyticsError(p)

Spec == Init /\ [][Next]_vars

\* A scheduler ticks for ever and statements end; the discovery, the operators, the
\* calendar and faults owe nothing.
Fairness == \A p \in Process : WF_vars(Tick(p)) /\ WF_vars(AnalyticsStep(p))

FairSpec == Spec /\ Fairness

-----------------------------------------------------------------------------
(* Properties *)

\* The snapshot of a day is built from its observations, never from what the cleanup has
\* left of them: unless an operator asks for a cycle again, a successful day whose cycle
\* found anything has rows.  (A cycle that found nothing is published with no rows.)
PublishedDayHasRows ==
    reruns = 0 => \A d \in found : dayRun[d] = "success" => d \in daily

\* A backfill that ended without an error leaves no complete cycle behind: each is
\* published, and what it found is in the daily snapshots and in the rollup of its week,
\* whatever the scheduler and the discovery do meanwhile.
BackfillCatchesUp ==
    reruns = 0 =>
        \A p \in Operator : proc[p].pc = "done" =>
            \A d \in proc[p].owed :
                /\ dayRun[d] = "success"
                /\ d \in found => d \in daily /\ d \in weekly[WeekOf(d)]

\* Every complete cycle gets its daily snapshot, although days are skipped, locks are
\* denied and runs fail.
EveryCycleIsPublished == \A d \in Day : d \in complete ~> dayRun[d] = "success"
=============================================================================
