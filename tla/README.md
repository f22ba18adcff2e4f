# A TLA+ model of it-labor-pulse

it-labor-pulse collects IT vacancies from HH, aggregates them into daily and
weekly market snapshots, and offers a personal assistant that matches vacancies
against a user's preferences and sends the matches to Telegram. It is a set of
Go programs around one PostgreSQL database. Nearly everything that is hard in it
is a row of a table that several programs, goroutines and operators change with
single SQL statements, under session advisory locks and leases, while any of
them may stop between two statements. That is what these modules model.

## 1. Inventory

| Component | State it keeps | Operations | What is hard |
|---|---|---|---|
| Assistant run lifecycle (`libs/go-common/assistant/postgres.go`, `worker.go`, `apps/assistant/cmd/worker`) | `assistant_runs`: state, snapshot cutoff, cursor, counters, lease | queue, claim, scan a page, save progress, complete, heartbeat, pause, resume, supersede, recover | a worker that outlives its lock or its lease, statements that run after the run was taken away, a crash between a page's results and its progress |
| Preferences | immutable versions, `archived_at` | save, archive, current version | the current version may become an older one |
| Advisory locks (`advisory_lock.go`, `TryLock`, `TryProcessLock`, `withLock`, fx) | `pg_locks` | try, release, session end | keys are literals in four packages of one database; a session may drop while its process works on |
| Daily discovery (`pipeline/discovery.go`, `store/pg.go`, `cmd/discovery`) | `ingest_cycles`, `ingest_cycle_partitions`, `ingest_cycle_observations` | plan, start, next partition, resize, save page, complete, reconcile, cleanup | resuming, counters kept beside the rows they count, HH that changes under the plan, an old day finished late |
| Analytics (`apps/analytics`) | `analytics_runs`, daily and weekly tables | scheduler, daily, weekly, backfill | which cycle is published and when its observations may go, a backfill beside the scheduler |
| Incremental outbox (`postgres.go`, `worker.go`) | `assistant_work_items`: status, attempts, lease; `assistant_ai_jobs`, match results, deliveries | publish, claim, recover, supersede by revision, screen, store, complete, retry, dead-letter | leases, newer revisions, passes cut between two statements, rows claimed and not returned |
| AI batch analysis (`batch.go`, `deepseek.go`) | a call's items, its goroutines | pack, send in waves, retry, halve, merge | partial answers, retries inside halving, cancellation |
| Telegram delivery | `telegram_deliveries` | enqueue, claim, send, acknowledge, back off, dead letter | a send whose answer or acknowledgement is lost |
| Telegram linking | one-time tokens, `telegram_connections` | issue, consume, confirm, revoke | a token used twice or after a revocation |
| Worker process heartbeat | process row, local state | start, tick, set state, stop | a goroutine that reports after the stop |
| IT hydration (`pipeline/it_batch.go`, `runner.go`, `checkpoint`, `cmd/scheduler`, `cmd/ingest`) | `all_it` cycles, plan and page checkpoints | plan, batch loop, fetch and save a page, advance the plan, complete | budget cut-offs and resumption, results that shift between pages, a run by hand on the same checkpoints |
| HH scheduler engine | timer, active flag, failure count | tick, run, back off, shut down | a select over the end of a batch, a tick and the shutdown, a tick left in its channel |
| FX rates (`apps/fx`, `normalize/fx.go`) | `fx_rates`, `fx_sync_runs`, the converted salaries | load, convert, fetch, reconcile | an ingest that works for hours with the rates it loaded while a sync converts |
| Matcher and hard gates, normalisation | none | pure functions | the precedence of gates over the AI |
| HH client, BFF, web SPA | caches, HTTP | reads, requests | I/O and presentation |

The components meet in the database. Ingest changes the vacancies under a
running snapshot scan (`CreateVacancy`, `Deactivate`, `Reactivate` of
`AssistantRun`). The BFF and the operator's one-shot commands change
`assistant_runs` under a worker. Discovery triggers the analytics snapshot, which
the analytics scheduler may also build, and the snapshot is what lets the cleanup
delete observations. Ingest publishes the outbox rows that the assistant works
off and the salaries that the FX sync converts. All of them share the space of
advisory lock keys.

What makes each of them correct: a run loses no vacancy of its snapshot, has one
worker and one place in its user's queue, and ends; the scheduler never overlaps its batches
or cuts a delay short; a day is complete only with all its pages, statuses follow the
calendar, and a started day is completed and published; a hydration cycle that is
complete has read what was listed throughout it, whichever batches it took; an
outbox row is settled only when nobody waits for it and stays settled, and each
item of an AI call is decided once; every complete day is published from its own
observations; a salary ends up with the nearest earlier rate.

## 2. Modules

| Module | Models |
|---|---|
| `AssistantRun` | the run lifecycle, preferences versions, and the vacancies as a scan sees them |
| `DiscoveryCycle` | the daily discovery with its analytics snapshot and its cleanup |
| `SchedulerEngine` | the loop of the HH scheduler around a batch: timer, backoff, stop |
| `HydrationCycle` | the detail hydration: batches, plan and page checkpoints, cycle rows, the scheduler and the run by hand |
| `WorkItems` | the incremental path: ingest, outbox rows, the worker's pass, AI jobs, results and deliveries, the gates of the matcher |
| `Outbox` | the abstract specification that `WorkItems` implements |
| `AIBatch` | one call to the AI provider: packing, waves, retries, halving |
| `MarketSnapshots` | the analytics worker in its four modes beside the discovery's completions and cleanup |
| `FxRates` | the FX sync and the conversion of salaries by the ingest |
| `MC...` | the small sets of users, workers and processes for TLC |
| `AssistantRunProofs`, `SchedulerEngineProofs`, `DiscoveryCycleProofs`, `HydrationCycleProofs`, `WorkItemsProofs`, `AIBatchProofs`, `MarketSnapshotsProofs`, `FxRatesProofs` | theorems about the module they are named for |

In all of them one SQL statement or one transaction is one step, because that is
what PostgreSQL makes atomic; whatever the Go code does between two statements
only changes the local record of its process (`worker[w]`, `proc[p]`, `work[w]`), whose `pc`
is the statement that comes next. `AIBatch` is about one process and its
goroutines: its steps end at a request or its answer. Definitions whose comment begins with `Mutant`
are variants with a plausible bug; nothing refers to them, and substituting one
for the definition below it must break the property it is named for.

### AssistantRun

Vacancies are numbered by `(created_at, id)`, the order of the keyset cursor, so
`snapshot_cutoff` and the cursor are numbers. `RunOnce` is the sequence `TryLock`,
`ClaimAssistantRun`, `LoadUsers`, then `SnapshotCandidates`, one `ProcessCandidate`
per vacancy and `UpdateAssistantRunProgress` per page, until an empty page or
`PauseAtPageLimit`, and the deferred `CompleteAssistantRun` and `Unlock`. The heartbeat
goroutine (`HeartbeatAssistantRun`) extends the lease or cancels the context;
`Fail`, `LoseProgressAnswer`, `SkipStatement` and `Crash` are the ways a step can go
wrong, and `LoseLock` is a session that drops while it holds the lock and takes
nothing else of the process with it, because the work uses other pooled
connections. `scanned` and `steady` are history variables: which vacancies have a
result saved by the run, and which were active from its creation until now.

Abstracted: what a match says (every candidate gets one result), the AI counters
of the row, and the branch of `SnapshotCandidates` for AI retries, which selects
`error_code = 'provider_failed'`, a value that is never stored. The bulk
deactivation of a discovery is a sequence of single `Deactivate` steps, which has
all of its behaviours and more. A row whose ingest transaction began before the
cutoff and commits after it is a `Reactivate`.

### DiscoveryCycle

Days are numbered, partition keys are numbered in the order in which
`NextDiscoveryPartition` visits them, and a page stands for the vacancies on it:
`observed` is the set of pages whose observations are stored, and `applied` is the
day whose reconciliation set `is_active` last. `hhPages` and `catalog` are what HH
would answer now; `Drift` and `Replan` change them at any moment, also between two
requests of a run. The plan is one step although it is many requests: searches
change independently, so every mixture of answers is the answer of some instant.
`Abort` is every way `run()` can end early (an error, the request ceiling, the
timeout, a denied analytics lock, the death of the process). `FailDiscoveryCycle` is
never called, so a cycle has no `failed` state. `TryProcessLock` and `ReleaseProcessLock` are the
continuous assistant worker, which holds the key of the discovery as long as it runs. `PlanIT` takes for each
partition any page count from the one of the search on: the probe of a role that is not split has no
date bounds, so it finds at least what the search finds. `ChecksHold` are the CHECK constraints on the counters of a
cycle; a statement that would break one fails, and its run ends.

### SchedulerEngine

`Engine.Run` is a loop around a select, and one case of it is one step: `Tick`, `Receive` (with `backoff`), and `Leave` for the
cancelled context, which goes on to the second select (`Finish`, `GiveUp`). The goroutine of the batch sends its outcome
to a channel with room for one (`BatchEnds`). `left` is the timer; at 0 it has fired and its tick is in
the channel, from which `Reset` takes it. `rest` is a history variable: what remains of the delay that the last
outcome called for. What the batch does is `HydrationCycle`; a batch that finds the lock taken
ends as `locked`.

### HydrationCycle

`listing[q]` is what HH serves for the search of partition `q`, newest first; `Publish`
puts a vacancy in front and `Archive` takes one out, so pages shift in both
directions between two requests. `plan` is the checkpoint of `RunITBatch` (the JSON
of `itCycleCursor`), `page[q]` the checkpoint that `Runner.Run` keeps for a partition,
`cliNext` the one of `cmd/ingest -scope it`, and `cycle` the rows of `ingest_cycles`. A batch
is the sequence `TrySchedulerLock`, `GetCheckpoint`, for a new cycle `PlanIT`,
`StartCycle` and `StorePlan`, then for each partition `NextPartition`, pairs of
`FetchPage` and `SavePage`, `AdvancePlan` and `UpdateCycleProgress`, and after the last one
`CompleteCycle`, `ClosePlan` and `RunDaily`. `StartCli` enters the same loop without a
lock and without a cycle. A batch ends at the request budget, the partition limit
or the page limit (`Leave`), or anywhere (`Abort`: an error, an item that cannot be
normalized, a lost answer, the timeout, a crash). `stable[c]` and `hydrated[c]` are
history variables: what HH has listed ever since cycle `c` started, and what was on the
pages committed while it was running.

Abstracted: the vacancy rows and their outbox entries, which commit with the page
checkpoint; `MarkVacancyInactive` for a detail that is gone; the `ingest_runs` rows.
Partitions are searches without dates, which have the same scope in every cycle; one
that is split by date has a new scope, and so no old checkpoint, each time.
Two cycles never start within one second.

### WorkItems and Outbox

A row of `assistant_work_items` is one revision of a vacancy. `SaveRevision` publishes it
in the transaction of `upsertVacancy`, with gates of its own for each user; `TouchVacancy` is an ingest that finds
nothing new, and `SwitchVacancy` is `MarkVacancyInactive` or a reconciliation of the discovery. A pass of the worker is `Candidates` (lock, users and the one
statement that recovers expired leases, closes superseded rows and claims the oldest),
`Screen` for each pair of candidate and user, `Ask` and `Finish` for the jobs of each user
(`processAIJobs` groups them by preferences), the two statements of `SaveAIResult`
(`SaveAIJob`, `SaveAIResult`), `SaveDelivery`, and `Settle` (`CompleteWorkItem` or
`RetryWorkItem`). `Abort` ends a pass anywhere and leaves its rows in `processing`;
`LoseLock` drops the session of the lock only. A row that two parts of the claiming
statement update takes one of the changes, and PostgreSQL does not say which.
`order` is the order of `available_at`; a recovered row keeps its place.

`gates` says for each user how a revision meets the criteria; `Match` and
`ApplyHardGatePrecedence` are operators on it. `cleared` is a history variable: for which
users a worker found nothing left to do or stored a result; `failures` is another: how many failures of the provider
were saved for a row (`SaveAIFailure`). The attempts of a job would not do, because the store counts
results and hard rejects there as well. Abstracted: how a text
meets a criterion, the score (it decides nothing), the clock (leases and backoffs may
run out at any moment). Users have different preferences, AI and Telegram are
configured, and a row whose vacancy leaves the freshness window while it is open
keeps its verdict. `DeferWorkItem` is never called.

`Outbox` knows only that a revision is published, owed or settled, and how many tries
it took: it is settled when every user is cleared, a newer revision exists or
the tries are used up, and never reopened. `ImplementsOutbox` is the refinement, with
`processing`, `pending` and `failed` all mapped to owed.

### AIBatch

One call of `CompleteBatchDetailed`. Every batch the code handles is a slice of the items that keeps
their order, so a batch is a set of item numbers, and `Places(s, a, b)` is the slice of a batch
from its `a`-th item to its `b`-th. `packed` is fixed by `PackBatchItems` from arbitrary
token costs (`PackLoop[n]` are the variables of its loop after `n` items); a wave is a sequence of goroutines, each with the stack of
`completeBatchRecursive` (`todo`). Sending a request and its answer are two steps, so
goroutines interleave and the context may be cancelled in between. The provider
decides any subset of the items or fails with any category of the instance.
Delays, prompts and the JSON are left out; an answer that decides nothing of a single item is
an `invalid_response`.

### MarketSnapshots

A discovery cycle is a day; `complete`, `obs` and `dayRun` are what the database says of
it, `found` remembers the days whose cycle was completed with observations (a cycle whose searches found nothing
is completed and published without rows), `weekly[k]` the days the rollup of week `k` was built from. A transaction is one step.
The scheduler's tick is a daily run and the rollup of the current week, a backfill
is daily runs until one is skipped and then every week with daily rows; `owed`
remembers what was complete when it began. The discovery is a process here too: it completes the cycle of a past
day, runs `RunDaily` for it, and then removes the observations that are older than that day by
the retention and have their snapshot; after an error it may publish its last day again (`RetryCycle`). The weeks of a backfill are a set, rolled up
oldest first, as the query lists them.

### FxRates

`rates` are the dates of the stored rates, and a salary is the date of the rate it was
converted with. `Nearest` is both `resolveFX` and the SQL of `Reconcile`. `table[i]` is what an
ingest process loaded at its start. `BankDays` has a gap, so the bank answers a
request with the rate of an earlier day.

## 3. Runs

| Run | Instance | Result |
|---|---|---|
| `run_overlap` | 2 workers, 1 run, 2 vacancies, pages of 1, one fault, one lost lock | `TypeOK`, `SnapshotCoverage`, `SoleOwner`, `LifecycleRespected`, `CursorNeverMovesBack` hold |
| `run_control` | 1 worker, 2 runs, 2 rulesets, page limit 1, one fault, fairness | `OneActiveRunPerUser`, `QueueAdvances` hold |
| `work_overlap` | 2 workers, 1 vacancy with 2 revisions, 1 user, batches of 1, 2 attempts, one change of settings, one cut pass or lost lock | `TypeOK`, `AttemptsAreFailures`, `DeliveryBacked`, `MatchAnnounced`, `ImplementsOutbox` hold |
| `work_starved` | 1 worker, 3 vacancies, batches of 1, fairness | `NewRevisionIsAnalysed` is violated (finding) |
| `ai_batch` | 5 items, requests of up to 3, 2 goroutines, 2 attempts, one retried and one final category, fairness | `TypeOK`, `PackedByTheLimits`, `EachItemInOnePlace`, `EveryItemDecided`, `RequestsBounded`, `CallReturns` hold |
| `scheduler_engine` | interval 4, backoff from 1 to 7, jitter 50 %, up to 5 failures in a row | `NoOverlap`, `DelayRespected` hold |
| `discovery_overlap` | 2 processes and the assistant, 1 day, 2 partitions of up to 2 pages, one drift, one replan, one lost lock | `TypeOK`, `ReconcilesCovered`, `CountersExact` hold |
| `discovery_resume` | 1 process and the assistant, 2 days, 2 partitions of up to 2 pages, one drift, one fault, fairness | `CompleteIsCovered`, `StatusesNeverGoBack`, `StartedDayCompletes`, `CompleteDayIsPublished` hold |
| `hydration_resume` | 1 scheduler, 2 cycles, 2 partitions of up to 2 pages, one publication, one archival, two faults, fairness | `BatchesCoverTheCycle`, `OnlyCurrentPartitionInFlight`, `PlannedCycleCompletes` hold |
| `hydration_overlap` | 2 schedulers and a run by hand, 2 cycles, 2 partitions of up to 2 pages, one lost lock | `TypeOK`, `EveryPartitionVisited`, `CursorWithinDepth` hold |
| `market_backfill` | 1 scheduler, 1 operator, the discovery, 3 days in weeks of 2, retention 0, one rerun, one fault, fairness | `TypeOK`, `PublishedDayHasRows`, `BackfillCatchesUp`, `EveryCycleIsPublished` hold |
| `fx_sync` | 2 ingest processes, 4 days, one without a rate, 2 stores, windows of 2 and 1 days, one fault, fairness | `TypeOK`, `SyncConvertsWhatItFound`, `SalaryGetsNearestRate` hold |

Why the bounds are enough to be interesting. Two workers and one lost lock give
the overlap of an old and a new worker at every pair of statements. Two runs and two rulesets give one run superseded
and another queued behind it. Two pages per partition are needed for a
partition that is partly committed, two partitions for a cycle that is partly
complete, and two days for a backlog. One fault reaches every statement, because it may
happen at any of them; `Retention = 0` puts the retention boundary inside the
two days. Faults, lost locks, drifts and replans are bounded so that the fair
runs are about a system that is eventually left alone. Workers and processes
are interchangeable, so the runs without liveness use symmetry. In the hydration runs
pages hold one item and HH serves two, so that a search can be at the cap; a budget of
five requests and one partition per batch make every cycle take several batches,
and stop a run by hand inside a partition after it has paid for its plan. In the outbox two
revisions give a row that is superseded while it is held, two attempts one retry and one
dead letter, and two workers with one lost lock a late settlement at every place;
`work_starved` needs two inactive rows before an active one. Five items in requests of up
to three give a wave of two requests, a second wave, and a batch that is halved to a single item
and a pair. Three days in weeks of two give a week that is complete and one that is not, a day behind the
retention boundary and a day that was missed; the theorems hold for every calendar. The backoff of the
scheduler takes the values 1, 2, 4, 7, 7: it crosses the interval and reaches a maximum that is
no power of two times the first delay. `ai_batch` and `scheduler_engine` switch the deadlock check off, because the call and the
loop they model return; a polling process always has a next step.

Conditions in the properties. `SoleOwner`, `CursorNeverMovesBack` and most
discovery properties are claimed while no session has dropped with the lock in
its hands (`lockLosses = 0`): the code has no fencing token, and without the lock
they are false. `SnapshotCoverage` and `LifecycleRespected` need no such condition.
`StartedDayCompletes` is claimed for behaviours in which the assistant at last leaves the key alone
(`<>[](lock # Assistant)`): a continuous worker that keeps it makes every discovery trigger be skipped, and then no day is
finished (section 4). `CompleteIsCovered` is claimed while the plan has not changed either: a complete day that is started
again gets the partitions of the new plan and stays complete (section 4).
`CountersExact` is claimed while the plan of the day has not changed, and with lost
locks only while page counts do not change: two overlapping processes that both
resize a partition, one of them to zero pages, count it complete twice.
`BatchesCoverTheCycle` is claimed while nothing is archived: a vacancy that disappears
from an earlier page moves the rest up, and the one that crosses the boundary between
two requests is not seen. It needs, like `OnlyCurrentPartitionInFlight`, that only the
scheduler uses the checkpoints and keeps its lock. `CursorWithinDepth` needs no condition,
and `EveryPartitionVisited` only that nothing is archived. `PlannedCycleCompletes` is the one
liveness property of the hydration: without it the invariants would allow a plan that
no sequence of batches ever finishes. `DeliveryBacked` is claimed while no lock was lost (two
overlapping passes may store different answers), `MatchAnnounced` while no pass was cut: after
a cut between the result and its delivery the next pass finds the result and skips the user, and
the match is never announced. `PublishedDayHasRows` speaks of days whose cycle had observations: one that found nothing is published
with no rows, as the code does. It and `BackfillCatchesUp` are claimed while no
operator asks for a given cycle again: `-mode daily -cycle-id` of a cycle whose observations were
removed replaces its snapshot by nothing. `SalaryGetsNearestRate` speaks of salaries that stay
inside the sync's window of 35 days.

Fairness. `run_control`: workers poll on a ticker, the heartbeat goroutine ticks,
a cancelled context makes the next statement fail, and a lease nobody extends
expires; all are weakly fair. Users, operators, ingest and faults owe nothing.
It is assumed that the analytics task that shares key 549004802 does not hold
it for ever. `discovery_resume`: the daily process retries after
`RetryInterval` until a run succeeds, a run in progress takes its next step, and
the analytics scheduler ticks. A free lock is therefore taken if it stays free; the assistant, which takes and releases the same
key, owes nothing, not even its release. `hydration_resume`: the scheduler's timer is reset after
every batch, so a free lock is taken, and a batch takes its next step or is aborted by its
run timeout. `work_starved`: the continuous worker polls, its calls end, and leases and
backoffs run out. `market_backfill`: the scheduler ticks and statements end. `fx_sync`: the
daily scheduler starts a sync and its requests have timeouts. `ai_batch`: goroutines are scheduled
and the HTTP client has a timeout, so each request ends somehow. HH, the bank, the provider's
answers, operators, the clock and faults owe nothing.

## 4. Findings

- `work_starved`: `Candidates` claims the oldest rows and returns only those of active
  vacancies. A claimed row of an inactive one is settled by nobody; its lease expires, it is
  recovered with its old `available_at`, and is claimed first again. The statement that
  recovers a row cannot claim it as well, so one batch of such rows lets the others through
  every second time; with two batches' worth of them, and polls further apart than the
  10-minute lease (30 minutes by default), they alternate and nothing behind them is
  ever analysed.

### Divergences met while modelling

Each of these was confirmed on the models or by reading the code; none has a run of its own.

- `apps/analytics/worker/worker.go:19`: keys 549004802, 549004803 and 549004804 are each used for two
  unrelated tasks (assistant run and daily analytics, delivery and weekly analytics, assistant process
  and discovery). A running continuous assistant worker makes every discovery trigger be skipped,
  where line 23 says "ErrLockUnavailable means another analytics process owns the advisory lock."
- `apps/analytics/worker/worker.go:93`: the comment says that an empty id "selects the latest eligible completed all-IT cycle"; the
  statement takes the oldest one, and a `daily_discovery` one only, as the model does. For the same reason the snapshot that
  `apps/ingest/cmd/scheduler/main.go:104` asks for with the id of an `all_it` cycle is always recorded as skipped.
- `worker.go:413`: a page that fails after some candidates were counted leaves their count in the row and the
  cursor before the page; pause and resume scan the page again and count them twice.
  `postgres_integration_test.go:552` requires `stats.Processed` to equal the number of results.
- `pipeline/discovery.go:155`: once HH changes the page count of a partly committed partition every run of
  that day fails at the same check, and because the oldest running day goes first no later day is
  started (`Jammed` in `DiscoveryCycle`). `docs/runbooks/daily-discovery.md:53` says the next run continues the day.
- `cmd/ingest/main.go:268`: `-scope it` takes no lock and shares the page checkpoints with the scheduler. A run
  by hand that stops inside a partition makes the next cycle begin there, and that cycle is marked
  complete without the pages before, where `pg.go:303` says completion "proves full all-IT coverage". This is
  why `BatchesCoverTheCycle` is claimed without runs by hand.
- `apps/analytics/cmd/worker/main.go:103`: the scheduler rolls up the week of the current day only, but the
  snapshot of a Sunday is written on the Monday after it: no rollup it builds has all seven days, which
  `docs/architecture/00-overview.md:132` promises. A backfill or `-mode weekly` does build them.
- `postgres.go:1604`: `ClaimDeliveries` names its update target inside a JOIN condition of the FROM list, which
  PostgreSQL rejects.
- `apps/fx`: a rate that is corrected under the same date is not applied again (only the date is compared); an
  observation with a non-null rate asks for no new date; a sync that is told to stop between two dates
  leaves its row `running`.

Two more disagreements were met. `SupersedeAssistantRun` compares
preference versions with `<>`, so an older version supersedes a run once the newest is
archived, where `docs/architecture/03-api.md:521` says only a newer one does. And
`StartDiscoveryCycle` (`store/pg.go:354`, whose comment promises an "immutable partition plan")
adds the partitions of a later plan to a cycle that exists but keeps its status and counters,
so a complete cycle may hold unread partitions (TLC finds it with one replan, which is why
`CompleteIsCovered` is conditional) and a running one may become impossible to complete;
`ReconcilesCovered` shows that statuses are still reconciled from a covered day only.

## 5. Proofs

The theorems hold for every number of users, workers, runs, vacancies, partitions, pages,
days, versions and processes, every batch size, page limit, request budget and every bound on faults,
from the assumptions stated with the constants: bounds are naturals, batch sizes and the
first ruleset are positive, sets of actors are disjoint where the code has different programs, and the
"nobody" value is not a process. They are stated of `Spec`, so none of them uses fairness.

| Module | Theorem | States | Argument |
|---|---|---|---|
| `AssistantRun` | `TypeCorrect` | `[]TypeOK` | inductive as it stands |
| | `Coverage` | `[]SnapshotCoverage` | `CoverageInv` |
| | `Lifecycle` | `LifecycleRespected` | every step satisfies `RowStep` for every run |
| | `OneActive` | `[]OneActiveRunPerUser` | inductive with `TypeOK` |
| | `LockInvariant`, `OneOwner` | `[]SoleOwner` | `BusyHoldsLock` |
| | `CursorMonotone` | `CursorNeverMovesBack` | `CursorInv` with `CoverageInv` and `BusyHoldsLock` |
| `SchedulerEngine` | `OneBatch`, `CleanStop` | `[]NoOverlap`, `[]CleanStopAfterBatch` | `EngineInv` |
| | `Delays` | `DelayRespected` | `RestWithTimer` |
| | `Backoffs` | `BackoffDoubles` | `BackoffIsDoubling` |
| `DiscoveryCycle` | `DiscoveryInvariant`, `TypeCorrect` | `[]TypeOK` | the parts of the invariant below |
| | `Counters` | `[]CountersExact` | `PagesKept`, `Locked` and the lemmas on sums |
| | `Reconciliation` | `[]ReconcilesCovered` | `Rows`, `Locked` |
| | `Completeness` | `[]CompleteIsCovered` | `Rows`, `CompleteStays` |
| | `StatusOrder` | `StatusesNeverGoBack` | `Locked` |
| `HydrationCycle` | `HydrationInvariant`, `TypeCorrect` | `[]TypeOK` | the parts of the invariant below |
| | `CursorDepth` | `[]CursorWithinDepth` | `Depth` |
| | `InFlight` | `[]OnlyCurrentPartitionInFlight` | `Flight` |
| | `PartitionsVisited` | `[]EveryPartitionVisited` | `Visits`, `Served` |
| | `CycleCoverage` | `[]BatchesCoverTheCycle` | `Cover`, `Flight` |
| `WorkItems` | `WorkInvariant`, `TypeCorrect` | `[]TypeOK` | `WorkInv` |
| | `Attempts` | `[]AttemptsAreFailures` | `Failures` |
| | `Delivered` | `[]DeliveryBacked` | `Locked` |
| | `Announced` | `[]MatchAnnounced` | inductive with the rest of `WorkInv` |
| | `Refinement` | `ImplementsOutbox` | `WorkInv`, above all `Covers` |
| `AIBatch` | `CallInvariant`, `TypeCorrect` | `[]TypeOK` | `CallInv` |
| | `Packing` | `[]PackedByTheLimits` | `PackState` of the loop |
| | `OnePlace` | `[]EachItemInOnePlace` | `GoroutineOf`, `TopDone` |
| | `AllDecided` | `[]EveryItemDecided` | `Decided`, `WaveDecides` |
| | `Requests` | `[]RequestsBounded` | `GoroutineOf`, `TopReplaced` |
| `MarketSnapshots` | `MarketInvariant`, `TypeCorrect` | `[]TypeOK` | `MarketInv` |
| | `PublishedRows` | `[]PublishedDayHasRows` | `ObservationsKept`, `Calendar`, `InHand` |
| | `Backfill` | `[]BackfillCatchesUp` | `Progress` |
| `FxRates` | `SyncInvariant`, `TypeCorrect` | `[]TypeOK` | `SyncInv` |
| | `Conversion` | `[]SyncConvertsWhatItFound` | `UsedInWindow`, `DueIsFetched` |

How the larger proofs are laid out. Every action has one lemma that says what it does to each
variable, in the terms the invariant uses (`...Effect`; in `HydrationCycleProofs` and `WorkItemsProofs` their conclusions are
operators, and `EffectNext` gathers them). The invariant is a conjunction of named parts, and each part has one
lemma that goes through the effects, so that a step is read against one part at a time.

### AssistantRun

`SnapshotCoverage` speaks of rows only and is not inductive: a progress update
moves the durable cursor to the last vacancy of the worker's page. `CoverageInv` adds
what each worker knows: every steady vacancy up to its cursor, or up to the end of
its page and not in `todo`, has been saved, and a worker that is about to report
success has saved all of them. This must hold for a worker that lost its lock as well,
which is why coverage needs no mutual exclusion: results only accumulate, and
each worker's claim is about what it saw itself. The lemma `FirstBatchDownClosed` says
that a page has no gaps, and rests on finite cardinalities.

`CursorNeverMovesBack` does need the lock. `UpdateAssistantRunProgress` overwrites the cursor with what the
worker holds; that it is never behind the row follows only because, while no session drops, a worker
between its claim and its release holds the lock (`BusyHoldsLock`), and every other actor
leaves the cursor of a row alone or starts a row over (`CursorInv`).

### SchedulerEngine

`NoOverlap` is inductive with the types: the flag covers the batch and the outcome that nobody has received yet.
`DelayRespected` needs `RestWithTimer`, that the remaining delay is never longer than the timer, so that
a tick, which alone starts a batch, finds none left; it would fail if `Reset` left an old tick in the channel. `Backoffs` compares
the loop of `backoff`, which stops short of an overflow, with plain doubling. Both are recursive functions; that they exist
(`RepeatsExist`) and agree up to the maximum (`BackoffIsDoubling`) is shown by a smallest number that would be a counterexample.

### DiscoveryCycle

`DiscoveryInv` is `TypeOK` with what a day's rows say of each other (`Rows`), what a process remembers
correctly even after it lost the lock (`Memory`), what the lock adds (`Locked`: its holder is on the last
day started, in an incomplete partition, and no committed page has lost its observations), and three
conditional parts: `PlanKept` and `CompleteStays` while no plan changed, `PagesKept` while no page
count did. The hard case of coverage is the cleanup: it removes observations, and only of days that have
a snapshot and are past retention, hence the disjunction in `RowsOfDay`. `CountersExact`
relates a counter to a sum over partitions. The library has no facts on such sums, so the first
part of `DiscoveryCycleProofs` proves them: that a sum over a finite set exists and is unique, and what happens to it when a
summand changes or is added. An induction theorem cannot be cited, because it takes an operator; the
lemmas take the smallest set (by cardinality) that would be a counterexample and remove an element from it.

### HydrationCycle

`HydrationInv` has six parts besides the types. `Shape` says what the place of a batch says of its plan, `Depth` that
no checkpoint is past what HH serves, `Served` that there are items at every page a checkpoint
names, `Visits` that the first `done` partitions of a cycle were read, also by overlapping batches,
`Flight` that under the lock the batch's plan is the stored one and only the partition in hand has a page
checkpoint. `Cover` is the reason why resuming loses nothing: each item that was listed
throughout the cycle is already hydrated, or it is in a later partition, or it lies *behind* the checkpoint
in the listing (`Ahead`). A publication pushes items towards later pages, so `Ahead` survives it, and an
archival does not preserve it: this is where the proof shows that the condition `archived = 0` is needed.
`PageFacts` and `DepthCoversSearch` tie the page arithmetic (the ceiling of a division, the last page, the depth
limit) to positions in the listing, for every page size.

### WorkItems and the refinement of Outbox

A pass holds three lists (its rows, the pairs still to be screened, the jobs still to be asked) and takes
their first elements one by one, so most of the work is about sequences: `Shape` says what the step of a
pass says of its lists and that they name published rows, `Once` that they name each of them once.
`Covers` is what the refinement needs: for each row of a pass that has not failed and each user, the pair is cleared or
still in one of the lists. When the lists are empty the row is settled, and every user is
cleared, as `Outbox` demands; no lock is needed for this, because cleared pairs only accumulate. A pass
that comes late finds its row settled by another, and its statements match no row (`CompleteRow`,
`RetryRow`): such a step is invisible to `Outbox`. The claiming statement may settle any set of superseded rows in
one step, which is why `Settle` of `Outbox` takes a set.

`AttemptsAreFailures` compares the attempt counter of a row with the number of failures saved for it and is not inductive: a
pass saves a failure first and counts it on the row later. `Failures` adds the passes in between: the
attempts of a row and the passes that are still to count a failure are together at most the saved ones, unless
those have reached the limit, where both counters end. Two overlapping passes that both
failed are both in that set, so the count is right without the lock. `DeliveryBacked`
does need it: `Locked` says that, while no session drops, a pass in progress holds the lock, each job ahead of it has no
result yet, and each delivery is of a stored match or of one the gates decided; another
pass with the same pair could otherwise replace the match by its own answer.

The lemmas `NthFacts`, `WithinFacts`, `PairsFacts` and `UsersFacts` say what the selections of the claiming
statement and the product of rows and users contain, for sequences of any length. For them
`Within` is defined by positions and `Pairs` by division, because `SelectSeq` is defined by recursion, which
would need an induction of its own. The finite sets of users and workers and the existence of a
profile are assumed with the constants.

### AIBatch

The proof has two parts. The first is about `PackBatchItems`, the loop that fixes `packed`. `PackLoop` is a recursive
function on `0..N`, and no induction theorem can be cited for it, because these take an
operator; that the function exists (`TurnsExist`), and that its values satisfy the loop invariant
`PackState` (`PackLoopState`), is shown by a smallest number that would be a counterexample. `PackState` says that the
complete batches are in order and within the limits, that the batch being filled comes after
them and was refused by the last one, and that `used` is the number of its tokens. One turn either
adds the item (`ItemJoins`) or completes the batch and opens the next with it (`ItemOpens`). This part would
fail without the reset of `used`.

The second part is the inductive invariant `CallInv`. `GoroutineOf(g, b)` says of a goroutine that was given the
batch `b`: its stack holds batches with items, no item twice; what is on the stack, answered and given up
is `b`, without overlaps; and

    requests + MaxAttempts * Pending <= MaxAttempts * (2n - 1) + attempt

where `Pending`, twice the items on the stack less its batches, is how many batches the stack may still
become. `RequestsBounded` itself is not inductive; this is, because replacing the top of the stack by
the halves of what is left of it lowers `Pending` by at least one (`TopReplaced`), which pays for the attempts
made on it (`OneLessPays`). That a half is never empty, without which neither the stack nor the bound would
hold, rests on the places of the first and the last item (`FirstPlace`, `LastPlace`), and
`Pending` is not negative because a stack has no more batches than items (`StackSize`, by an injection). All ends
of a request are either the end of its top batch (`TopDone`) or keep it (`TopKept`). `Decided` says that the
items of the ended waves are exactly those that have an output or an error: `WaveDecides` adds a wave, whose goroutines
decide different items because the packing keeps the order.

### MarketSnapshots, FxRates

The cleanup takes observations of published days only (`ObservationsKept`), and a process that
is going to write a day by its own choice holds the lock and has a day that nobody published, so its rows are
still there. The discovery names its day, which may be published already, by the scheduler or by its own run before an
error: `InHand` says that this day still has its observations, because only days before it were removed, and
`Calendar` that what was removed is older than yesterday, the one day it may publish again. An operator's rerun may name any day and breaks exactly this. `Progress` says what a backfill has done at
each of its steps. In `FxRates` the lemmas `NearestIs` and `FetchedIs` characterise the two `CHOOSE`-like
operators over dates, and `DueIsFetched` says of each salary the sync found that its rate is stored or
about to be fetched, also for salaries the ingest converts in between with its old table.

### Only model-checked

Every safety invariant and every action property of the runs is stated by a theorem. The liveness properties
(`QueueAdvances`, `StartedDayCompletes`, `CompleteDayIsPublished`, `PlannedCycleCompletes`,
`EveryCycleIsPublished`, `SalaryGetsNearestRate`, `CallReturns`) stay with TLC: they rest
on fairness and `ENABLED`, which the proof system does not handle. So does the finding, which is a statement
about one instance.

## 6. Not modelled

Not modelled because they are data or I/O: the SQL aggregation of the snapshots, text
normalisation and amounts, prompts and JSON of the AI provider, the HH and CBR clients, the BFF's reads,
the web SPA. Telegram delivery is not modelled because its claiming statement is rejected by
PostgreSQL, so what the loop would do after it cannot be derived from the code; enqueueing is an
action of `WorkItems`. Telegram linking is a few single statements on one row, and the process heartbeat
a row that nothing reads to decide anything. The advisory locks
have no module of their own: each is part of the module whose programs take it, and of the shared keys only the one
that a process holds for its whole life (discovery and assistant) is modelled on both sides.
