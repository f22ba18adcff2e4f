---------------------------- MODULE AssistantRun ----------------------------
(***************************************************************************)
(* Manual snapshot analysis of the personal assistant: the rows of         *)
(* assistant_runs, the users and operators who queue, pause, resume,       *)
(* supersede and recover them, and the worker processes that claim a run   *)
(* under a session advisory lock and scan its vacancy snapshot page by     *)
(* page (libs/go-common/assistant/{postgres,worker}.go and                 *)
(* apps/assistant/cmd/worker/main.go).                                     *)
(*                                                                         *)
(* Vacancies are numbered in the order of (created_at, id); a run's        *)
(* snapshot_cutoff and keyset cursor are positions in that order.  Every   *)
(* SQL statement is one atomic step; everything between two statements of  *)
(* a worker interleaves with the other actors.                             *)
(***************************************************************************)
EXTENDS Integers, FiniteSets

CONSTANTS
    User,            \* assistant_users
    Worker,          \* worker processes (continuous and -once)
    NoWorker,        \* the run advisory lock is free
    MaxRuns,         \* bound: rows of assistant_runs
    MaxVacancies,    \* bound: vacancies ever created
    MaxVersions,     \* bound: preference versions per user
    MaxRulesets,     \* bound: deployed SpecializationRulesVersion values
    BatchSize,       \* opts.BatchSize, vacancies per page
    MaxSnapshotPages,\* opts.MaxSnapshotPages, 0 = unlimited
    MaxFaults,       \* bound: failed statements, cancellations and crashes
    MaxLockLosses    \* bound: sessions that drop while holding the run lock

ASSUME BoundsAssumption ==
    /\ MaxRuns \in Nat /\ MaxVacancies \in Nat /\ MaxVersions \in Nat
    /\ MaxRulesets \in Nat \ {0} /\ BatchSize \in Nat \ {0}
    /\ MaxSnapshotPages \in Nat /\ MaxFaults \in Nat /\ MaxLockLosses \in Nat
ASSUME NoWorkerAssumption == NoWorker \notin Worker

VARIABLES
    latest,     \* [User -> Nat]: newest vacancy_preferences.version
    archived,   \* [User -> SUBSET Nat]: versions with archived_at set
    ruleset,    \* SpecializationRulesVersion of the deployed binaries
    born,       \* number of vacancies created so far
    active,     \* vacancies with is_active and an active source
    runs,       \* assistant_runs, by creation order
    lock,       \* holder of advisory lock 549004802 according to PostgreSQL
    worker,     \* local state of RunOnce in each process
    faults, lockLosses,
    scanned,    \* history: vacancies with a result saved by the run
    steady      \* history: vacancies active from the run's creation until now

dbVars  == <<latest, archived, ruleset>>
vacVars == <<born, active>>
hist    == <<scanned, steady>>
vars    == <<latest, archived, ruleset, born, active, runs, lock, worker,
             faults, lockLosses, scanned, steady>>

-----------------------------------------------------------------------------
(* Types *)

RunId   == 1..MaxRuns
Vacancy == 1..MaxVacancies

Active   == {"queued", "running", "paused"}
RunState == Active \cup {"absent", "succeeded", "failed", "disabled", "superseded"}

Run == [state: RunState, user: User, pref: Nat, rules: Nat, cutoff: Nat,
        total: Nat, processed: Nat, cursor: Nat,
        lease: {"none", "held", "expired"}, from: RunState]

\* Between ClaimAssistantRun and CompleteAssistantRun: the heartbeat goroutine
\* runs and every statement uses the cancellable context.
Working == {"loading", "scanning", "processing", "pausing"}
PC == Working \cup {"idle", "locked", "finishing", "unlocking"}

Process == [pc: PC, run: Nat, cursor: Nat, processed: Nat, todo: SUBSET Vacancy,
            last: Nat, pages: Nat, ctx: {"live", "cancelled"},
            outcome: {"succeeded", "failed"}]

Idle == [pc |-> "idle", run |-> 0, cursor |-> 0, processed |-> 0, todo |-> {},
         last |-> 0, pages |-> 0, ctx |-> "live", outcome |-> "failed"]

TypeOK ==
    /\ latest \in [User -> Nat]
    /\ archived \in [User -> SUBSET Nat]
    /\ ruleset \in Nat
    /\ born \in 0..MaxVacancies
    /\ active \in SUBSET (1..born)
    /\ runs \in [RunId -> Run]
    /\ lock \in Worker \cup {NoWorker}
    /\ worker \in [Worker -> Process]
    /\ faults \in 0..MaxFaults
    /\ lockLosses \in 0..MaxLockLosses
    /\ scanned \in [RunId -> SUBSET Vacancy]
    /\ steady \in [RunId -> SUBSET Vacancy]

-----------------------------------------------------------------------------
(* Queries *)

\* version v is what "archived_at IS NULL ORDER BY version DESC LIMIT 1" returns
IsCurrent(u, v) ==
    /\ v \in 1..latest[u] \ archived[u]
    /\ \A x \in 1..latest[u] \ archived[u] : x <= v

ActiveRuns(u) == {r \in RunId : runs[r].state \in Active /\ runs[r].user = u}

\* Mutant: the partial unique index of migration 000025 is missing.
OneActiveIndexMissing(r) == TRUE

\* assistant_runs_one_active_per_user: a row of user u may become active
OneActiveIndex(r) == ActiveRuns(runs[r].user) \subseteq {r}

\* Mutant: only queued runs are claimed.
ClaimableIgnoringLease == {r \in RunId : runs[r].state = "queued"}

Claimable == {r \in RunId : \/ runs[r].state = "queued"
                            \/ runs[r].state = "running" /\ runs[r].lease = "expired"}

\* Mutant: the cursor is taken for the next row instead of the last one done.
SnapshotRowsSkippingOne(cutoff, cursor) == {p \in active : cursor + 1 < p /\ p <= cutoff}

\* WHERE is_active AND created_at <= cutoff AND (created_at, id) > cursor
SnapshotRows(cutoff, cursor) == {p \in active : cursor < p /\ p <= cutoff}

\* ORDER BY created_at, id LIMIT BatchSize
FirstBatch(rows) == {p \in rows : Cardinality({q \in rows : q < p}) < BatchSize}

Pausable(row) == \/ row.state \in {"queued", "running"}
                 \/ row.state = "failed" /\ row.processed < row.total

-----------------------------------------------------------------------------
(* Users, the BFF and the operator's one-shot commands *)

SavePreferences(u) ==
    /\ latest[u] < MaxVersions
    /\ latest' = [latest EXCEPT ![u] = @ + 1]
    /\ UNCHANGED <<archived, ruleset, vacVars, runs, lock, worker, faults, lockLosses, hist>>

ArchivePreference(u, v) ==
    /\ v \in 1..latest[u] \ archived[u]
    /\ archived' = [archived EXCEPT ![u] = @ \cup {v}]
    /\ UNCHANGED <<latest, ruleset, vacVars, runs, lock, worker, faults, lockLosses, hist>>

\* New binaries with another SpecializationRulesVersion.
DeployRuleset ==
    /\ ruleset < MaxRulesets
    /\ ruleset' = ruleset + 1
    /\ UNCHANGED <<latest, archived, vacVars, runs, lock, worker, faults, lockLosses, hist>>

\* A request id seen before returns the earlier run and changes nothing; this
\* is the branch of a fresh request.
QueueAnalysis(u, r, v) ==
    /\ runs[r].state = "absent"
    /\ \A q \in RunId : q < r => runs[q].state # "absent"
    /\ ActiveRuns(u) = {}
    /\ IsCurrent(u, v)
    /\ runs' = [runs EXCEPT ![r] =
          [state |-> "queued", user |-> u, pref |-> v, rules |-> ruleset,
           cutoff |-> born, total |-> Cardinality(active), processed |-> 0,
           cursor |-> 0, lease |-> "none", from |-> "absent"]]
    /\ steady' = [steady EXCEPT ![r] = active]
    /\ UNCHANGED <<dbVars, vacVars, lock, worker, faults, lockLosses, scanned>>

PauseAssistantRun(r) ==
    /\ Pausable(runs[r])
    /\ OneActiveIndex(r)
    /\ runs' = [runs EXCEPT ![r] = [@ EXCEPT !.state = "paused", !.lease = "none"]]
    /\ UNCHANGED <<dbVars, vacVars, lock, worker, faults, lockLosses, hist>>

ResumeAssistantRun(r) ==
    /\ runs[r].state = "paused"
    /\ runs' = [runs EXCEPT ![r] = [@ EXCEPT !.state = "queued", !.lease = "none"]]
    /\ UNCHANGED <<dbVars, vacVars, lock, worker, faults, lockLosses, hist>>

SupersedeAssistantRun(r, v) ==
    /\ runs[r].state \in Active \cup {"failed", "succeeded"}
    /\ IsCurrent(runs[r].user, v)
    /\ runs[r].pref # v \/ runs[r].rules # ruleset
    /\ runs[r].state = "succeeded" \/ runs[r].processed < runs[r].total
    /\ runs' = [runs EXCEPT ![r] =
          [@ EXCEPT !.state = "superseded", !.from = runs[r].state, !.lease = "none"]]
    /\ UNCHANGED <<dbVars, vacVars, lock, worker, faults, lockLosses, hist>>

\* worker -recover-run: one transaction that disables the user's active runs
\* and requeues the superseded one.
RecoverAssistantRun(r) ==
    /\ runs[r].state = "superseded" /\ runs[r].from = "running"
    /\ runs[r].processed < runs[r].total
    /\ runs' = [q \in RunId |->
          IF q = r THEN [runs[r] EXCEPT !.state = "queued", !.lease = "none", !.from = "absent"]
          ELSE IF q \in ActiveRuns(runs[r].user)
               THEN [runs[q] EXCEPT !.state = "disabled", !.lease = "none"]
               ELSE runs[q]]
    /\ UNCHANGED <<dbVars, vacVars, lock, worker, faults, lockLosses, hist>>

-----------------------------------------------------------------------------
(* Ingest, as the snapshot sees it *)

CreateVacancy ==
    /\ born < MaxVacancies
    /\ born' = born + 1
    /\ active' = active \cup {born + 1}
    /\ UNCHANGED <<dbVars, runs, lock, worker, faults, lockLosses, hist>>

Deactivate(p) ==
    /\ p \in active
    /\ active' = active \ {p}
    /\ steady' = [r \in RunId |-> steady[r] \ {p}]
    /\ UNCHANGED <<dbVars, born, runs, lock, worker, faults, lockLosses, scanned>>

\* Also a row whose ingest transaction began before the cutoff and commits now.
Reactivate(p) ==
    /\ p \in 1..born \ active
    /\ active' = active \cup {p}
    /\ UNCHANGED <<dbVars, born, runs, lock, worker, faults, lockLosses, hist>>

-----------------------------------------------------------------------------
(* RunOnce *)

\* RunOnce returns: its deferred calls stop the heartbeat, then complete the
\* claimed run with the stats, then release the lock.
Finishing(w, n, outcome) ==
    [Idle EXCEPT !.pc = "finishing", !.run = worker[w].run, !.processed = n,
                 !.outcome = outcome]

Unlocking == [Idle EXCEPT !.pc = "unlocking"]

\* Mutant: the answer of pg_try_advisory_lock is ignored.
TryLockUnchecked(w) ==
    /\ worker[w].pc = "idle"
    /\ lock' = w
    /\ worker' = [worker EXCEPT ![w].pc = "locked"]
    /\ UNCHANGED <<dbVars, vacVars, runs, faults, lockLosses, hist>>

TryLock(w) ==
    /\ worker[w].pc = "idle"
    /\ lock = NoWorker
    /\ lock' = w
    /\ worker' = [worker EXCEPT ![w].pc = "locked"]
    /\ UNCHANGED <<dbVars, vacVars, runs, faults, lockLosses, hist>>

\* Mutant: a reclaimed run is scanned from the start.
ClaimFromStart(w, r) ==
    /\ worker[w].pc = "locked"
    /\ r \in Claimable
    /\ \A q \in Claimable : r <= q
    /\ runs' = [runs EXCEPT ![r] = [@ EXCEPT !.state = "running", !.lease = "held"]]
    /\ worker' = [worker EXCEPT ![w] =
          [Idle EXCEPT !.pc = "loading", !.run = r, !.processed = runs[r].processed]]
    /\ UNCHANGED <<dbVars, vacVars, lock, faults, lockLosses, hist>>

ClaimAssistantRun(w, r) ==
    /\ worker[w].pc = "locked"
    /\ r \in Claimable
    /\ \A q \in Claimable : r <= q
    /\ runs' = [runs EXCEPT ![r] = [@ EXCEPT !.state = "running", !.lease = "held"]]
    /\ worker' = [worker EXCEPT ![w] =
          [Idle EXCEPT !.pc = "loading", !.run = r,
                       !.cursor = runs[r].cursor, !.processed = runs[r].processed]]
    /\ UNCHANGED <<dbVars, vacVars, lock, faults, lockLosses, hist>>

\* Nothing to claim: the incremental batch that follows touches no run.
ClaimNothing(w) ==
    /\ worker[w].pc = "locked"
    /\ Claimable = {}
    /\ worker' = [worker EXCEPT ![w] = Unlocking]
    /\ UNCHANGED <<dbVars, vacVars, runs, lock, faults, lockLosses, hist>>

\* UsersForAssistantRun: the preference row of a run is never deleted.
LoadUsers(w) ==
    /\ worker[w].pc = "loading" /\ worker[w].ctx = "live"
    /\ worker' = [worker EXCEPT ![w].pc = "scanning"]
    /\ UNCHANGED <<dbVars, vacVars, runs, lock, faults, lockLosses, hist>>

SnapshotCandidates(w) ==
    LET rows == SnapshotRows(runs[worker[w].run].cutoff, worker[w].cursor)
    IN  /\ worker[w].pc = "scanning" /\ worker[w].ctx = "live"
        /\ \/ /\ rows = {}
              /\ worker' = [worker EXCEPT ![w] = Finishing(w, worker[w].processed, "succeeded")]
           \/ \E last \in FirstBatch(rows) :
                /\ \A p \in FirstBatch(rows) : p <= last
                /\ worker' = [worker EXCEPT ![w] =
                      [@ EXCEPT !.pc = "processing", !.last = last, !.todo = FirstBatch(rows)]]
        /\ UNCHANGED <<dbVars, vacVars, runs, lock, faults, lockLosses, hist>>

\* One candidate of processCandidates: counted, matched and saved.
ProcessCandidate(w, p) ==
    /\ worker[w].pc = "processing" /\ worker[w].ctx = "live"
    /\ p \in worker[w].todo
    /\ \A q \in worker[w].todo : p <= q
    /\ worker' = [worker EXCEPT ![w] =
          [@ EXCEPT !.todo = worker[w].todo \ {p}, !.processed = worker[w].processed + 1]]
    /\ scanned' = [scanned EXCEPT ![worker[w].run] = @ \cup {p}]
    /\ UNCHANGED <<dbVars, vacVars, runs, lock, faults, lockLosses, steady>>

ProgressRow(row, w) ==
    [row EXCEPT !.processed = worker[w].processed, !.cursor = worker[w].last,
                !.lease = "held"]

AfterPage(w) ==
    IF MaxSnapshotPages > 0 /\ worker[w].pages + 1 >= MaxSnapshotPages
    THEN "pausing" ELSE "scanning"

UpdateAssistantRunProgress(w) ==
    LET r == worker[w].run
    IN  /\ worker[w].pc = "processing" /\ worker[w].ctx = "live"
        /\ worker[w].todo = {}
        /\ \/ /\ runs[r].state = "running"
              /\ runs' = [runs EXCEPT ![r] = ProgressRow(runs[r], w)]
              /\ worker' = [worker EXCEPT ![w] =
                    [@ EXCEPT !.pc = AfterPage(w), !.pages = worker[w].pages + 1,
                              !.cursor = worker[w].last]]
           \/ /\ runs[r].state # "running"
              /\ runs' = runs
              /\ worker' = [worker EXCEPT ![w] = Finishing(w, worker[w].processed, "failed")]
        /\ UNCHANGED <<dbVars, vacVars, lock, faults, lockLosses, hist>>

\* The page limit is reached: the worker pauses its own run; on success the
\* deferred CompleteAssistantRun is skipped.
PauseAtPageLimit(w) ==
    LET r == worker[w].run
    IN  /\ worker[w].pc = "pausing" /\ worker[w].ctx = "live"
        /\ \/ /\ Pausable(runs[r]) /\ OneActiveIndex(r)
              /\ runs' = [runs EXCEPT ![r] = [@ EXCEPT !.state = "paused", !.lease = "none"]]
              /\ worker' = [worker EXCEPT ![w] = Unlocking]
           \/ /\ ~(Pausable(runs[r]) /\ OneActiveIndex(r))
              /\ runs' = runs
              /\ worker' = [worker EXCEPT ![w] = Finishing(w, worker[w].processed, "failed")]
        /\ UNCHANGED <<dbVars, vacVars, lock, faults, lockLosses, hist>>

\* Mutant: CompleteAssistantRun without "AND state='running'".
CompletedRowUnguarded(row, w) ==
    [row EXCEPT !.state = worker[w].outcome, !.processed = worker[w].processed,
                !.lease = "none"]

\* CompleteAssistantRun, guarded by state='running'; zero rows is not an error.
CompletedRow(row, w) ==
    IF row.state = "running"
    THEN [row EXCEPT !.state = worker[w].outcome, !.processed = worker[w].processed,
                     !.lease = "none"]
    ELSE row

CompleteAssistantRun(w) ==
    /\ worker[w].pc = "finishing"
    /\ runs' = [runs EXCEPT ![worker[w].run] = CompletedRow(@, w)]
    /\ worker' = [worker EXCEPT ![w] = Unlocking]
    /\ UNCHANGED <<dbVars, vacVars, lock, faults, lockLosses, hist>>

Unlock(w) ==
    /\ worker[w].pc = "unlocking"
    /\ lock' = IF lock = w THEN NoWorker ELSE lock
    /\ worker' = [worker EXCEPT ![w] = Idle]
    /\ UNCHANGED <<dbVars, vacVars, runs, faults, lockLosses, hist>>

\* The heartbeat goroutine: extends the lease of a running run, otherwise
\* cancels the run's context and ends.
HeartbeatAssistantRun(w) ==
    LET r == worker[w].run
    IN  /\ worker[w].pc \in Working /\ worker[w].ctx = "live"
        /\ \/ /\ runs[r].state = "running"
              /\ runs' = [runs EXCEPT ![r].lease = "held"]
              /\ worker' = worker
           \/ /\ runs[r].state # "running"
              /\ runs' = runs
              /\ worker' = [worker EXCEPT ![w].ctx = "cancelled"]
        /\ UNCHANGED <<dbVars, vacVars, lock, faults, lockLosses, hist>>

-----------------------------------------------------------------------------
(* Failures *)

\* Mutant: the failing candidate is taken back although it was never counted.
FailedCountsTakenBack(w) == {worker[w].processed - 1}

\* What stats.Processed holds when RunOnce returns an error: a failed load
\* returns WorkerStats{}; a candidate is counted before its result is saved.
FailedCounts(w) ==
    IF worker[w].pc = "loading" THEN {0}
    ELSE {worker[w].processed} \cup
         (IF worker[w].todo # {} THEN {worker[w].processed + 1} ELSE {})

\* A cancelled context, or a statement that fails, ends the scan.
Fail(w, n) ==
    /\ worker[w].pc \in Working
    /\ n \in FailedCounts(w)
    /\ worker' = [worker EXCEPT ![w] = Finishing(w, n, "failed")]
    /\ \/ worker[w].ctx = "cancelled" /\ faults' = faults
       \/ faults < MaxFaults /\ faults' = faults + 1
    /\ UNCHANGED <<dbVars, vacVars, runs, lock, lockLosses, hist>>

\* The progress update commits and its answer is lost.
LoseProgressAnswer(w) ==
    LET r == worker[w].run
    IN  /\ worker[w].pc = "processing" /\ worker[w].todo = {}
        /\ runs[r].state = "running"
        /\ faults < MaxFaults /\ faults' = faults + 1
        /\ runs' = [runs EXCEPT ![r] = ProgressRow(runs[r], w)]
        /\ worker' = [worker EXCEPT ![w] = Finishing(w, worker[w].processed, "failed")]
        /\ UNCHANGED <<dbVars, vacVars, lock, lockLosses, hist>>

\* The claim or the final CompleteAssistantRun fails; both errors are dropped.
SkipStatement(w) ==
    /\ worker[w].pc \in {"locked", "finishing"}
    /\ faults < MaxFaults /\ faults' = faults + 1
    /\ worker' = [worker EXCEPT ![w] = Unlocking]
    /\ UNCHANGED <<dbVars, vacVars, runs, lock, lockLosses, hist>>

\* The process dies; PostgreSQL ends its session and frees the lock.
Crash(w) ==
    /\ worker[w].pc # "idle"
    /\ faults < MaxFaults /\ faults' = faults + 1
    /\ worker' = [worker EXCEPT ![w] = Idle]
    /\ lock' = IF lock = w THEN NoWorker ELSE lock
    /\ UNCHANGED <<dbVars, vacVars, runs, lockLosses, hist>>

\* The lock's session drops; RunOnce uses other pooled connections and goes on.
LoseLock(w) ==
    /\ lock = w
    /\ lockLosses < MaxLockLosses /\ lockLosses' = lockLosses + 1
    /\ lock' = NoWorker
    /\ UNCHANGED <<dbVars, vacVars, runs, worker, faults, hist>>

\* Ten minutes without a heartbeat or a progress update.
ExpireLease(r) ==
    /\ runs[r].state = "running" /\ runs[r].lease = "held"
    /\ runs' = [runs EXCEPT ![r].lease = "expired"]
    /\ UNCHANGED <<dbVars, vacVars, lock, worker, faults, lockLosses, hist>>

-----------------------------------------------------------------------------
(* Specification *)

Absent(u) == [state |-> "absent", user |-> u, pref |-> 0, rules |-> 0, cutoff |-> 0,
              total |-> 0, processed |-> 0, cursor |-> 0, lease |-> "none", from |-> "absent"]

Init ==
    /\ latest = [u \in User |-> 0]
    /\ archived = [u \in User |-> {}]
    /\ ruleset = 1
    /\ born = 0
    /\ active = {}
    /\ \E u \in User : runs = [r \in RunId |-> Absent(u)]
    /\ lock = NoWorker
    /\ worker = [w \in Worker |-> Idle]
    /\ faults = 0
    /\ lockLosses = 0
    /\ scanned = [r \in RunId |-> {}]
    /\ steady = [r \in RunId |-> {}]

UserStep ==
    \/ \E u \in User : SavePreferences(u)
    \/ \E u \in User, v \in 1..MaxVersions : ArchivePreference(u, v)
    \/ \E u \in User, r \in RunId, v \in 1..MaxVersions : QueueAnalysis(u, r, v)
    \/ \E r \in RunId, v \in 1..MaxVersions : SupersedeAssistantRun(r, v)

OperatorStep ==
    \/ DeployRuleset
    \/ \E r \in RunId : PauseAssistantRun(r)
    \/ \E r \in RunId : ResumeAssistantRun(r)
    \/ \E r \in RunId : RecoverAssistantRun(r)

IngestStep ==
    \/ CreateVacancy
    \/ \E p \in Vacancy : Deactivate(p)
    \/ \E p \in Vacancy : Reactivate(p)

RunOnceStep(w) ==
    \/ \E r \in RunId : ClaimAssistantRun(w, r)
    \/ ClaimNothing(w)
    \/ LoadUsers(w)
    \/ SnapshotCandidates(w)
    \/ \E p \in Vacancy : ProcessCandidate(w, p)
    \/ UpdateAssistantRunProgress(w)
    \/ PauseAtPageLimit(w)
    \/ CompleteAssistantRun(w)
    \/ Unlock(w)

FaultStep(w) ==
    \/ \E n \in FailedCounts(w) : Fail(w, n)
    \/ LoseProgressAnswer(w)
    \/ SkipStatement(w)
    \/ Crash(w)
    \/ LoseLock(w)

Next ==
    \/ UserStep
    \/ OperatorStep
    \/ IngestStep
    \/ \E w \in Worker : \/ TryLock(w)
                         \/ RunOnceStep(w)
                         \/ HeartbeatAssistantRun(w)
                         \/ FaultStep(w)
    \/ \E r \in RunId : ExpireLease(r)

Spec == Init /\ [][Next]_vars

\* Worker processes keep polling, the heartbeat goroutine keeps ticking, a
\* cancelled context is noticed and an abandoned lease runs out.  Users,
\* operators, ingest and faults owe nothing.
Fairness ==
    /\ \A w \in Worker : /\ WF_vars(TryLock(w))
                         /\ WF_vars(RunOnceStep(w))
                         /\ WF_vars(HeartbeatAssistantRun(w))
                         /\ WF_vars(worker[w].ctx = "cancelled" /\ \E n \in FailedCounts(w) : Fail(w, n))
    /\ \A r \in RunId : WF_vars(ExpireLease(r))

FairSpec == Spec /\ Fairness

-----------------------------------------------------------------------------
(* Properties *)

\* A user never has two runs that are queued, running or paused, whatever the
\* interleaving of QueueAnalysis, -pause-run on a failed run, -resume-run and
\* -recover-run.
OneActiveRunPerUser ==
    \A q, r \in RunId :
        /\ runs[q].state \in Active /\ runs[r].state \in Active
        /\ runs[q].user = runs[r].user
        => q = r

\* Every page of the run was recorded and the last one was empty.
FinishedScan(row) ==
    \/ row.state = "succeeded"
    \/ row.state = "superseded" /\ row.from = "succeeded"

\* No vacancy is lost by a scan that pages, crashes, is paused, resumed and
\* reclaimed, even by a worker that outlives its lock: a vacancy active since
\* the run was queued has a saved result once the durable cursor is past it,
\* and all of them have one when the run has succeeded.
SnapshotCoverage ==
    \A r \in RunId :
        /\ \A p \in steady[r] : p <= runs[r].cursor => p \in scanned[r]
        /\ FinishedScan(runs[r]) => steady[r] \subseteq scanned[r]

\* While no session drops with the lock in its hands, two workers are never
\* between claim and completion of the same run, whatever leases expire and
\* whatever operators pause, resume and recover: the statements that follow a
\* claim check only state='running', so this is what keeps them apart.
SoleOwner ==
    lockLosses = 0 => \A v, w \in Worker :
        /\ worker[v].pc \in Working \cup {"finishing"}
        /\ worker[w].pc \in Working \cup {"finishing"}
        /\ worker[v].run = worker[w].run
        => v = w

\* What one step may do to a run that is not running.
LifecycleStep ==
    \A r \in RunId :
        /\ runs[r].state \in RunState \ {"running", "absent"}
           => runs'[r].cursor = runs[r].cursor /\ runs'[r].processed = runs[r].processed
        /\ runs[r].state = "disabled" => runs'[r] = runs[r]
        /\ runs[r].state = "succeeded" => runs'[r].state \in {"succeeded", "superseded"}
        /\ runs[r].state = "superseded" /\ runs'[r].state # "superseded"
           => runs[r].from = "running" /\ runs'[r].state = "queued"

\* A worker that finishes late never touches a run that was paused,
\* superseded, disabled or completed meanwhile: progress moves only while the
\* run is running, a disabled run is final, a succeeded run can only be
\* superseded and only a run superseded while running comes back.
LifecycleRespected == [][LifecycleStep]_vars

\* The durable keyset cursor of a run never moves back (while no lock-holding
\* session drops), so a page that was recorded is never scanned again.
CursorNeverMovesBack ==
    [][lockLosses = 0 => \A r \in RunId : runs'[r].cursor >= runs[r].cursor]_vars

\* The run that the claim serves next: the oldest one queued or running.
Pending == {r \in RunId : runs[r].state \in {"queued", "running"}}
Head(r) == r \in Pending /\ \A q \in Pending : r <= q

\* The run that the claim serves next does not stay there for ever: despite
\* crashes, lost answers and a completion that failed, it ends, or an operator
\* takes it out or puts an older one before it.
QueueAdvances == \A r \in RunId : Head(r) ~> ~Head(r)
=============================================================================
