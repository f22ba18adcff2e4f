--------------------------- MODULE HydrationCycle ---------------------------
(***************************************************************************)
(* The detail hydration: a cycle over all IT partitions, cut into bounded  *)
(* batches that resume from two kinds of checkpoints, the plan with its    *)
(* next partition and the next page of each partition                      *)
(* (apps/ingest/internal/pipeline/it_batch.go and runner.go,               *)
(* internal/checkpoint, the cycle and page functions of internal/store/    *)
(* pg.go).  Batches are started by cmd/scheduler, under an advisory lock,  *)
(* and by hand with cmd/ingest -scope it, which has a plan checkpoint of   *)
(* its own but pages through the same partition checkpoints.               *)
(*                                                                         *)
(* A search without dates has the same scope in every cycle; partitions    *)
(* here are such searches.  A transaction is one step, and so is the       *)
(* search of a page with the details of its items.  The ingest_runs rows   *)
(* only record history and are left out.                                   *)
(***************************************************************************)
EXTENDS Integers, Sequences, FiniteSets

CONSTANTS
    Scheduler,      \* scheduler processes
    Cli,            \* processes of cmd/ingest -scope it
    NoWorker,       \* advisory lock 549004801 is free
    Partitions,     \* partitions of the plan
    PerPage,        \* items on a search page
    SearchCap,      \* results HH serves of one search (2000)
    HardMaxPages,   \* pages Runner.Run asks for of one search (100)
    MaxRequests,    \* INGEST_IT_MAX_REQUESTS
    MaxBatchParts,  \* INGEST_SCHEDULER_MAX_PARTITIONS_PER_BATCH
    MaxPagesPerPart,\* INGEST_MAX_PAGES
    MaxCycles,      \* bound: cycles
    MaxPublished,   \* bound: vacancies published after the start
    MaxArchived,    \* bound: vacancies archived
    MaxCliRuns,     \* bound: runs started by hand
    MaxFaults,      \* bound: failed requests or statements, timeouts, crashes
    MaxLockLosses   \* bound: sessions that drop while holding the lock

Worker == Scheduler \cup Cli

ASSUME HydrationConstants ==
    /\ NoWorker \notin Worker /\ Scheduler \cap Cli = {}
    /\ Partitions \in Nat \ {0} /\ PerPage \in Nat \ {0} /\ SearchCap \in Nat \ {0}
    /\ MaxBatchParts \in Nat \ {0} /\ MaxPagesPerPart \in Nat \ {0}
    /\ MaxCycles \in Nat \ {0} /\ MaxPublished \in Nat /\ MaxArchived \in Nat
    /\ MaxCliRuns \in Nat /\ MaxFaults \in Nat /\ MaxLockLosses \in Nat
\* Config.ValidateScheduler and the guard of planPartition
ASSUME BudgetAssumption ==
    MaxRequests \in Nat /\ MaxRequests >= PerPage + 1 /\ MaxRequests > Partitions
\* Assumed of the setting INGEST_PER_PAGE, which may be 1 to 100: below 20 the limit ends
\* a search before its last result and the partition still counts as complete.
ASSUME DepthAssumption == HardMaxPages \in Nat /\ HardMaxPages * PerPage >= SearchCap

VARIABLES
    listing,    \* [Part -> Seq(Item)]: what HH serves for each search, newest first
    plan,       \* checkpoint of scope it-cycle-v1: the plan and its next partition
    cliNext,    \* checkpoint of scope it-plan: partitions the CLI has done today
    page,       \* [Part -> Nat]: checkpoint of each partition, its next page
    cycle,      \* ingest_cycles, scope all_it
    lock,       \* holder of the scheduler lock according to PostgreSQL
    work,       \* local state of the batch of each process
    stable,     \* history: items listed ever since the cycle started
    hydrated,   \* history: items of the pages committed while the cycle was running
    published, archived, cliRuns, faults, lockLosses

envVars   == <<listing, published, archived>>
ghostVars == <<stable, hydrated>>
vars == <<listing, plan, cliNext, page, cycle, lock, work, stable, hydrated,
          published, archived, cliRuns, faults, lockLosses>>

-----------------------------------------------------------------------------
(* Types *)

Part  == 1..Partitions
Item  == 1..(SearchCap + MaxPublished)
Id    == 1..MaxCycles

Smaller(a, b) == IF a <= b THEN a ELSE b

\* ResolvePageLimit(0, perPage)
DepthPages == Smaller((SearchCap + PerPage - 1) \div PerPage, HardMaxPages)

\* itCycleCursor: cycle = 0 stands for a missing checkpoint, done is Next
Plan == [cycle: 0..MaxCycles, done: 0..Partitions, complete: BOOLEAN, found: [Part -> Nat]]
NoPlan == [cycle |-> 0, done |-> 0, complete |-> FALSE, found |-> [q \in Part |-> 0]]

Cycle == [status: {"none", "running", "complete"}, completed: 0..Partitions]

PC == {"idle", "locked", "planning", "starting", "storing", "choosing", "fetching",
       "saving", "advancing", "progressing", "completing", "closing", "snapshotting"}

Batch == [pc: PC, plan: Plan, remaining: Int, parts: 0..Partitions,
          idx: Nat, limit: Nat, pages: Nat, items: SUBSET Item, next: Nat, terminal: BOOLEAN]
Idle == [pc |-> "idle", plan |-> NoPlan, remaining |-> 0, parts |-> 0, idx |-> 0, limit |-> 0,
         pages |-> 0, items |-> {}, next |-> 0, terminal |-> FALSE]

TypeOK ==
    /\ listing \in [Part -> Seq(Item)]
    /\ plan \in Plan
    /\ cliNext \in 0..Partitions
    /\ page \in [Part -> Nat]
    /\ cycle \in [Id -> Cycle]
    /\ lock \in Scheduler \cup {NoWorker}
    /\ work \in [Worker -> Batch]
    /\ stable \in [Id -> SUBSET (Part \X Item)]
    /\ hydrated \in [Id -> SUBSET (Part \X Item)]
    /\ published \in 0..MaxPublished /\ archived \in 0..MaxArchived
    /\ cliRuns \in 0..MaxCliRuns /\ faults \in 0..MaxFaults /\ lockLosses \in 0..MaxLockLosses

-----------------------------------------------------------------------------
(* HH *)

Elements(s) == {s[i] : i \in 1..Len(s)}
Listed == {i \in Part \X Item : i[2] \in Elements(listing[i[1]])}

\* The n-th page of a search, counting from zero, and the page count it reports.
PageItems(q, n) == {listing[q][i] : i \in (n * PerPage + 1)..(n * PerPage + PerPage)
                                              \cap 1..Len(listing[q])}
ReportedPages(q) == (Len(listing[q]) + PerPage - 1) \div PerPage

Publish(q, v) ==
    /\ published < MaxPublished /\ published' = published + 1
    /\ Len(listing[q]) < SearchCap
    /\ v = SearchCap + published'
    /\ listing' = [listing EXCEPT ![q] = <<v>> \o @]
    /\ UNCHANGED <<plan, cliNext, page, cycle, lock, work, ghostVars, archived, cliRuns, faults, lockLosses>>

\* The items behind it move up.
Without(s, i) == [j \in 1..(Len(s) - 1) |-> IF j < i THEN s[j] ELSE s[j + 1]]

Archive(q, v) ==
    /\ archived < MaxArchived /\ archived' = archived + 1
    /\ \E i \in 1..Len(listing[q]) : /\ listing[q][i] = v
                                     /\ listing' = [listing EXCEPT ![q] = Without(@, i)]
    /\ stable' = [c \in Id |-> stable[c] \ {<<q, v>>}]
    /\ UNCHANGED <<plan, cliNext, page, cycle, lock, work, hydrated, published, cliRuns, faults, lockLosses>>

-----------------------------------------------------------------------------
(* A batch *)

Become(w, pc) == work' = [work EXCEPT ![w].pc = pc]

\* The batch returns, with or without an error: the lock is released if this
\* session still has it.
Leave(w) ==
    /\ work' = [work EXCEPT ![w] = Idle]
    /\ lock' = IF lock = w THEN NoWorker ELSE lock

\* WithLock: a scheduler that does not get the lock skips its tick.
TrySchedulerLock(w) ==
    /\ w \in Scheduler /\ work[w].pc = "idle"
    /\ lock = NoWorker
    /\ lock' = w
    /\ Become(w, "locked")
    /\ UNCHANGED <<envVars, plan, cliNext, page, cycle, ghostVars, cliRuns, faults, lockLosses>>

\* RunITBatch: an unfinished plan is continued, with the whole request budget.
GetCheckpoint(w) ==
    /\ work[w].pc = "locked"
    /\ work' = [work EXCEPT ![w] = [Idle EXCEPT
          !.pc = IF plan.cycle = 0 \/ plan.complete THEN "planning" ELSE "choosing",
          !.plan = plan, !.remaining = MaxRequests]]
    /\ UNCHANGED <<envVars, plan, cliNext, page, cycle, lock, ghostVars, cliRuns, faults, lockLosses>>

\* One request for the role catalog and one probe for each partition.
Planned == [NoPlan EXCEPT !.found = [q \in Part |-> Len(listing[q])]]
BudgetAfterPlan == MaxRequests - (1 + Partitions)

\* Mutant: a new plan keeps the next partition of the finished one.
PlanITKeepsNext(w) ==
    /\ work[w].pc = "planning"
    /\ work' = [work EXCEPT ![w] = [@ EXCEPT
          !.pc = "starting", !.plan = [Planned EXCEPT !.done = plan.done],
          !.remaining = BudgetAfterPlan]]
    /\ UNCHANGED <<envVars, plan, cliNext, page, cycle, lock, ghostVars, cliRuns, faults, lockLosses>>

PlanIT(w) ==
    /\ work[w].pc = "planning"
    /\ work' = [work EXCEPT ![w] = [@ EXCEPT
          !.pc = "starting", !.plan = Planned, !.remaining = BudgetAfterPlan]]
    /\ UNCHANGED <<envVars, plan, cliNext, page, cycle, lock, ghostVars, cliRuns, faults, lockLosses>>

\* cycle_end is the current second: a new row.  At the bound of MaxCycles the
\* batch ends here.
StartCycle(w) ==
    LET unused == {c \in Id : cycle[c].status = "none"}
    IN  /\ work[w].pc = "starting"
        /\ \/ /\ unused = {}
              /\ Leave(w)
              /\ UNCHANGED <<cycle, stable>>
           \/ \E c \in unused :
                /\ \A d \in unused : c <= d
                /\ cycle' = [cycle EXCEPT ![c] = [status |-> "running", completed |-> 0]]
                /\ stable' = [stable EXCEPT ![c] = Listed]
                /\ work' = [work EXCEPT ![w] = [@ EXCEPT !.pc = "storing", !.plan.cycle = c]]
                /\ lock' = lock
        /\ UNCHANGED <<envVars, plan, cliNext, page, hydrated, cliRuns, faults, lockLosses>>

StorePlan(w) ==
    /\ work[w].pc = "storing"
    /\ plan' = work[w].plan
    /\ Become(w, "choosing")
    /\ UNCHANGED <<envVars, cliNext, page, cycle, lock, ghostVars, cliRuns, faults, lockLosses>>

\* cmd/ingest -scope it: plans anew and takes up its own partition checkpoint.
StartCli(w) ==
    /\ cliRuns < MaxCliRuns /\ cliRuns' = cliRuns + 1
    /\ w \in Cli /\ work[w].pc = "idle"
    /\ work' = [work EXCEPT ![w] = [Idle EXCEPT
          !.pc = "choosing", !.plan = [Planned EXCEPT !.done = cliNext],
          !.remaining = BudgetAfterPlan]]
    /\ UNCHANGED <<envVars, plan, cliNext, page, cycle, lock, ghostVars, faults, lockLosses>>

-----------------------------------------------------------------------------
(* One partition *)

\* Pages of the partition this batch may fetch: those planned, those the budget
\* can pay for (one search and PerPage details each), and the configured limit.
Affordable(w) ==
    LET b == work[w]
        found == b.plan.found[b.plan.done + 1]
    IN  IF found = 0 /\ (b.remaining > 0 \/ w \in Cli) THEN 1 ELSE b.remaining \div (PerPage + 1)

PageLimit(w) ==
    LET b == work[w]
        planned == (b.plan.found[b.plan.done + 1] + PerPage - 1) \div PerPage
        funded == Smaller(IF planned = 0 THEN 1 ELSE planned, Affordable(w))
    IN  Smaller(DepthPages, IF w \in Cli THEN funded ELSE Smaller(funded, MaxPagesPerPart))

\* Mutant: a resumed partition starts over.
StartPageZero(q) == 0

\* ParseCursorPage of the partition's checkpoint; a missing one is page zero.
StartPage(q) == page[q]

\* Head of the partition loop and start of Runner.Run
NextPartition(w) ==
    LET b == work[w]
    IN  /\ b.pc = "choosing"
        /\ \/ /\ b.plan.done = Partitions
              /\ IF w \in Cli THEN Leave(w) ELSE Become(w, "completing") /\ lock' = lock
           \/ /\ b.plan.done < Partitions
              /\ Affordable(w) < 1 \/ (w \in Scheduler /\ b.parts >= MaxBatchParts)
              /\ Leave(w)
           \/ /\ b.plan.done < Partitions
              /\ Affordable(w) >= 1 /\ (w \in Scheduler => b.parts < MaxBatchParts)
              /\ work' = [work EXCEPT ![w] = [@ EXCEPT
                    !.pc = "fetching", !.idx = StartPage(b.plan.done + 1),
                    !.limit = PageLimit(w), !.pages = 0]]
              /\ lock' = lock
        /\ UNCHANGED <<envVars, plan, cliNext, page, cycle, ghostVars, cliRuns, faults, lockLosses>>

\* Mutant: the page after the last one is asked for.
TerminalLate(items, n, reported) == items = {} \/ (reported > 0 /\ n + 1 > reported)

\* Mutant: the last page is not asked for.
TerminalEarly(items, n, reported) == items = {} \/ (reported > 0 /\ n + 2 >= reported)

\* Mutant: the checkpoint is left behind the last page.
NextCursorNoWrap(n, last) == n + 1

\* checkpoint.Decide for a page whose items are all normalized or gone: whether
\* it is the last one, and the page that the checkpoint names next.
NextCursor(n, last) == IF last THEN 0 ELSE n + 1
Terminal(items, n, reported) == items = {} \/ (reported > 0 /\ n + 1 >= reported)

\* SearchVacancies and GetVacancyRaw; a run that has used up its pages ends the
\* batch, and so does a page with an item that fails (Abort).
FetchPage(w) ==
    LET b == work[w]
        q == b.plan.done + 1
        items == PageItems(q, b.idx)
        last == Terminal(items, b.idx, Smaller(ReportedPages(q), DepthPages))
    IN  /\ b.pc = "fetching"
        /\ \/ /\ b.pages < b.limit /\ b.idx < DepthPages
              /\ work' = [work EXCEPT ![w] = [@ EXCEPT
                    !.pc = "saving", !.pages = b.pages + 1, !.items = items, !.terminal = last,
                    !.next = NextCursor(b.idx, last),
                    !.remaining = b.remaining - (1 + Cardinality(items))]]
              /\ lock' = lock
           \/ /\ b.pages >= b.limit \/ b.idx >= DepthPages
              /\ Leave(w)
        /\ UNCHANGED <<envVars, plan, cliNext, page, cycle, ghostVars, cliRuns, faults, lockLosses>>

\* One transaction: the vacancies, their outbox rows and the page checkpoint.
SavePage(w) ==
    LET b == work[w]
        q == b.plan.done + 1
    IN  /\ b.pc = "saving"
        /\ page' = [page EXCEPT ![q] = b.next]
        /\ hydrated' = [c \in Id |-> IF cycle[c].status = "running"
                                     THEN hydrated[c] \cup ({q} \X b.items) ELSE hydrated[c]]
        /\ work' = [work EXCEPT ![w] = [@ EXCEPT
              !.pc = IF b.terminal THEN "advancing" ELSE "fetching",
              !.idx = b.next, !.items = {}, !.next = 0, !.terminal = FALSE]]
        /\ UNCHANGED <<envVars, plan, cliNext, cycle, lock, stable, cliRuns, faults, lockLosses>>

\* The partition is done: the plan checkpoint moves to the next one.
AdvancePlan(w) ==
    LET b == work[w]
        advanced == [b.plan EXCEPT !.done = @ + 1]
    IN  /\ b.pc = "advancing"
        /\ work' = [work EXCEPT ![w] = [@ EXCEPT
              !.pc = IF w \in Cli THEN "choosing" ELSE "progressing",
              !.plan = advanced, !.parts = b.parts + 1, !.idx = 0, !.limit = 0, !.pages = 0]]
        /\ IF w \in Cli
           THEN plan' = plan /\ cliNext' = advanced.done % Partitions
           ELSE plan' = advanced /\ cliNext' = cliNext
        /\ UNCHANGED <<envVars, page, cycle, lock, ghostVars, cliRuns, faults, lockLosses>>

\* Mutant: the partition after the finished one is reported too.
ReportAhead(w) == work[w].plan.done + 1

\* UpdateCycleProgress(ctx, cycle.CycleID, cycle.Next)
Report(w) == work[w].plan.done

\* An update that matches no running cycle is an error.
UpdateCycleProgress(w) ==
    LET b == work[w]
    IN  /\ b.pc = "progressing"
        /\ IF cycle[b.plan.cycle].status = "running"
           THEN /\ cycle' = [cycle EXCEPT ![b.plan.cycle].completed = Report(w)]
                /\ Become(w, "choosing") /\ lock' = lock
           ELSE Leave(w) /\ cycle' = cycle
        /\ UNCHANGED <<envVars, plan, cliNext, page, ghostVars, cliRuns, faults, lockLosses>>

CompleteCycle(w) ==
    /\ work[w].pc = "completing"
    /\ cycle' = [cycle EXCEPT ![work[w].plan.cycle] =
                    [status |-> "complete", completed |-> Partitions]]
    /\ Become(w, "closing")
    /\ UNCHANGED <<envVars, plan, cliNext, page, lock, ghostVars, cliRuns, faults, lockLosses>>

ClosePlan(w) ==
    /\ work[w].pc = "closing"
    /\ plan' = [work[w].plan EXCEPT !.complete = TRUE]
    /\ Become(w, "snapshotting")
    /\ UNCHANGED <<envVars, cliNext, page, cycle, lock, ghostVars, cliRuns, faults, lockLosses>>

\* analyticsWorker.RunDaily finds no daily_discovery cycle with this id and
\* records a skip; an error of it is only logged.
RunDaily(w) ==
    /\ work[w].pc = "snapshotting"
    /\ Leave(w)
    /\ UNCHANGED <<envVars, plan, cliNext, page, cycle, ghostVars, cliRuns, faults, lockLosses>>

-----------------------------------------------------------------------------
(* Failures *)

\* A request or statement fails, an item cannot be normalized, the answer of a
\* commit is lost, the run times out or the process dies: what is durable stays.
Abort(w) ==
    /\ work[w].pc # "idle"
    /\ faults < MaxFaults /\ faults' = faults + 1
    /\ Leave(w)
    /\ UNCHANGED <<envVars, plan, cliNext, page, cycle, ghostVars, cliRuns, lockLosses>>

\* The session of the lock drops; the batch goes on with the other connection.
LoseLock(w) ==
    /\ lock = w
    /\ lockLosses < MaxLockLosses /\ lockLosses' = lockLosses + 1
    /\ lock' = NoWorker
    /\ UNCHANGED <<envVars, plan, cliNext, page, cycle, work, ghostVars, cliRuns, faults>>

-----------------------------------------------------------------------------
(* Specification *)

Init ==
    /\ \E n \in [Part -> 0..SearchCap] : listing = [q \in Part |-> [i \in 1..n[q] |-> i]]
    /\ plan = NoPlan
    /\ cliNext = 0
    /\ page = [q \in Part |-> 0]
    /\ cycle = [c \in Id |-> [status |-> "none", completed |-> 0]]
    /\ lock = NoWorker
    /\ work = [w \in Worker |-> Idle]
    /\ stable = [c \in Id |-> {}]
    /\ hydrated = [c \in Id |-> {}]
    /\ published = 0 /\ archived = 0 /\ cliRuns = 0 /\ faults = 0 /\ lockLosses = 0

BatchStep(w) ==
    \/ GetCheckpoint(w)
    \/ PlanIT(w)
    \/ StartCycle(w)
    \/ StorePlan(w)
    \/ NextPartition(w)
    \/ FetchPage(w)
    \/ SavePage(w)
    \/ AdvancePlan(w)
    \/ UpdateCycleProgress(w)
    \/ CompleteCycle(w)
    \/ ClosePlan(w)
    \/ RunDaily(w)

Next ==
    \/ \E q \in Part, v \in Item : Publish(q, v) \/ Archive(q, v)
    \/ \E w \in Worker : \/ TrySchedulerLock(w)
                         \/ StartCli(w)
                         \/ BatchStep(w)
                         \/ Abort(w)
                         \/ LoseLock(w)

Spec == Init /\ [][Next]_vars

\* The scheduler ticks for ever and a batch ends within its run timeout; HH, the
\* operator and faults owe nothing.
Fairness == \A w \in Worker : WF_vars(TrySchedulerLock(w)) /\ WF_vars(BatchStep(w))

FairSpec == Spec /\ Fairness

-----------------------------------------------------------------------------
(* Properties *)

Complete == {c \in Id : cycle[c].status = "complete"}

\* Only batches under the lock have touched the checkpoints.
Undisturbed == cliRuns = 0 /\ lockLosses = 0

\* pg.go: CompleteCycle is the only transition that proves full all-IT coverage.
\* What HH listed throughout a complete cycle was hydrated during it.
CompleteProvesCoverage == \A c \in Complete : stable[c] \subseteq hydrated[c]

\* That holds across aborted and resumed batches and vacancies published between
\* two pages, as long as none is archived (the rest would move up a page) and
\* only the scheduler pages through the partitions.
BatchesCoverTheCycle == Undisturbed /\ archived = 0 => CompleteProvesCoverage

\* Between two batches only the partition whose turn it is has a page checkpoint
\* past zero; one left behind would make the next cycle skip the pages before it.
OnlyCurrentPartitionInFlight ==
    Undisturbed => \A q \in Part : page[q] # 0 => q = plan.done + 1 /\ ~plan.complete

\* Whoever overlaps, no cycle is completed without visiting each partition: the
\* plan moves on only after the last page of the partition was committed.
EveryPartitionVisited ==
    archived = 0 =>
        \A c \in Complete : {i[1] : i \in stable[c]} \subseteq {i[1] : i \in hydrated[c]}

\* No partition checkpoint reaches the depth HH serves: Runner.Run would fetch
\* nothing from it, never complete, and block the cycle for good.
CursorWithinDepth == \A q \in Part : page[q] < DepthPages

\* A planned cycle is completed, whatever batches are aborted or cut short by the
\* request budget, the partition limit or the page limit.
PlannedCycleCompletes ==
    \A c \in Id : plan.cycle = c /\ Undisturbed ~> c \in Complete \/ ~Undisturbed
=============================================================================
