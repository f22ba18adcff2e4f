------------------------------ MODULE WorkItems ------------------------------
(***************************************************************************)
(* The incremental path of the personal assistant.  The ingest publishes a *)
(* row of assistant_work_items for every new revision of a vacancy, in the *)
(* transaction that stores it (savePageInTx); the worker claims rows under *)
(* a lease, matches them for every user, has the rest analysed by the AI   *)
(* provider, stores results and deliveries, and completes or retries the   *)
(* rows (RunOnce without a manual run, processCandidates, processAIJobs;   *)
(* the store is libs/go-common/assistant/postgres.go).                     *)
(*                                                                         *)
(* A statement of the store is one step.  Time is left out: a lease may    *)
(* expire and a backoff may end at any moment.  The verdict of Match is a  *)
(* function of the revision (a vacancy does not grow older than the        *)
(* freshness criterion while its row is open).                             *)
(***************************************************************************)
EXTENDS Integers, Sequences, FiniteSets, SequencesExt

CONSTANTS
    Vacancy, User, Worker,
    NoWorker,       \* advisory lock 549004802 is free
    Profile,        \* the outcomes of the gates that revisions may have
    MaxRevision,    \* bound: revisions of a vacancy
    BatchSize,      \* ASSISTANT_BATCH_SIZE
    AttemptLimit,   \* attempts before an item is dead-lettered and a job given up (5)
    MaxChanges,     \* bound: changes of settings by the users
    MaxFaults       \* bound: errors, panics and crashes of workers, dropped lock sessions

ASSUME WorkItemConstants ==
    /\ IsFiniteSet(User) /\ IsFiniteSet(Worker) /\ NoWorker \notin Worker /\ Profile # {}
    /\ MaxRevision \in Nat \ {0} /\ BatchSize \in Nat \ {0} /\ AttemptLimit \in Nat \ {0}
    /\ MaxChanges \in Nat /\ MaxFaults \in Nat

VARIABLES
    revision,    \* [Vacancy -> Nat]: vacancies.analysis_revision, 0 before the first
    active,      \* [Vacancy -> BOOLEAN]: is_active and not deleted
    gates,       \* [User \X Item -> Profile]: how the revision meets the preferences
    item,        \* [Item -> WorkItem]: assistant_work_items
    order,       \* items whose available_at is past, by available_at
    job,         \* [User \X Item -> Job]: assistant_ai_jobs
    result,      \* [User \X Item -> decision]: vacancy_match_results, method ai
    matched,     \* set of <<user, item>>: rows of method deterministic
    delivery,    \* set of <<user, vacancy>>: telegram_deliveries
    ai,          \* [User -> BOOLEAN]: assistant_automation_settings.ai_enabled
    telegram,    \* [User -> BOOLEAN]: a verified, opted-in chat; telegram_enabled is set
    before,      \* [User -> SUBSET Vacancy]: collected_at lies before activation_at
    lock,        \* holder of the lock according to PostgreSQL
    work,        \* local state of each worker
    failures,    \* history: [Item -> Nat]: failures of the provider saved for the row
    cleared,     \* history: set of <<user, item>> a worker found nothing left to do for
    changes, faults, lockLost

vacancyVars  == <<revision, active, gates>>
settingsVars == <<ai, telegram, before, changes>>
resultVars   == <<job, failures, result, matched, delivery, cleared>>
boundVars    == <<faults, lockLost>>
vars == <<revision, active, gates, item, order, job, result, matched, delivery, ai, telegram,
          before, lock, work, failures, cleared, changes, faults, lockLost>>

-----------------------------------------------------------------------------
(* Types *)

Item == Vacancy \X (1..MaxRevision)
Pair == User \X Item

Gate == {"excluded_skill", "leadership", "specialization", "role", "salary", "region",
         "remote", "required_skill", "freshness"}
Decision == {"match", "review", "reject"}

\* "dead" is status done with dead_letter_at set; "absent" is no row.
Status   == {"absent", "pending", "processing", "failed", "done", "dead"}
WorkItem == [status: Status, attempts: 0..AttemptLimit, expired: BOOLEAN]
Absent   == [status |-> "absent", attempts |-> 0, expired |-> FALSE]
Job      == [status: {"none", "failed", "complete"}, attempts: 0..AttemptLimit]

PC == {"idle", "screen", "announce", "ask", "finish", "storejob", "storeresult", "settle"}

\* cur is the <<user, item>> in hand and verdict its decision; back is the loop to
\* continue when its result is stored.
Pass == [pc: PC, batch: Seq(Item), old: [User -> SUBSET Vacancy], todo: Seq(Pair),
         jobs: Seq(Pair), answer: [Pair -> Decision \cup {"none", "failed"}],
         cur: Seq(Pair), verdict: Decision, back: PC, failed: SUBSET Item]
Idle == [pc |-> "idle", batch |-> <<>>, old |-> [u \in User |-> {}], todo |-> <<>>,
         jobs |-> <<>>, answer |-> [p \in Pair |-> "none"], cur |-> <<>>, verdict |-> "reject",
         back |-> "screen", failed |-> {}]

TypeOK ==
    /\ revision \in [Vacancy -> 0..MaxRevision] /\ active \in [Vacancy -> BOOLEAN]
    /\ gates \in [Pair -> Profile]
    /\ item \in [Item -> WorkItem] /\ order \in Seq(Item)
    /\ job \in [Pair -> Job] /\ failures \in [Item -> 0..AttemptLimit]
    /\ result \in [Pair -> Decision \cup {"none"}]
    /\ matched \subseteq Pair /\ delivery \subseteq User \X Vacancy /\ cleared \subseteq Pair
    /\ ai \in [User -> BOOLEAN] /\ telegram \in [User -> BOOLEAN]
    /\ before \in [User -> SUBSET Vacancy]
    /\ lock \in Worker \cup {NoWorker} /\ work \in [Worker -> Pass]
    /\ changes \in 0..MaxChanges /\ faults \in 0..MaxFaults /\ lockLost \in BOOLEAN

-----------------------------------------------------------------------------
(* Sequences *)

\* The k-th smallest of the numbers P
Nth(P, k) == CHOOSE n \in P : Cardinality({m \in P : m <= n}) = k

\* The elements of s that are in S, in their order: SelectSeq, by positions
Within(s, S) ==
    LET P == {n \in DOMAIN s : s[n] \in S}
    IN  [k \in 1..Cardinality(P) |-> s[Nth(P, k)]]

-----------------------------------------------------------------------------
(* The matcher *)

\* Match: the gates are tried in turn, a conflict rejects at once, an unknown is
\* left to review.
Match(g) ==
    IF \E c \in Gate : g[c] = "conflict" THEN "reject"
    ELSE IF \E c \in Gate : g[c] = "unknown" THEN "review"
    ELSE "match"

Unknowns(g) == {c \in Gate : g[c] = "unknown"}

\* ApplyHardGatePrecedence: proven are the criteria the answer gives evidence for;
\* enrichIDListMatchEvidence assumes it for the criteria a match says nothing about,
\* so only a proof that failed is missing.
ApplyHardGatePrecedence(g, answer, proven) ==
    CASE Match(g) = "reject"                               -> "reject"
      [] Match(g) = "match"                                -> "match"
      [] Match(g) = "review" /\ answer # "match"           -> answer
      [] Match(g) = "review" /\ answer = "match"           ->
            IF Unknowns(g) \subseteq proven THEN "match" ELSE "review"

-----------------------------------------------------------------------------
(* The ingest *)

Init ==
    /\ revision = [v \in Vacancy |-> 0] /\ active = [v \in Vacancy |-> FALSE]
    /\ gates = [p \in Pair |-> CHOOSE g \in Profile : TRUE]   \* of no row yet
    /\ item = [i \in Item |-> Absent] /\ order = <<>>
    /\ job = [p \in Pair |-> [status |-> "none", attempts |-> 0]]
    /\ failures = [i \in Item |-> 0] /\ result = [p \in Pair |-> "none"]
    /\ matched = {} /\ delivery = {} /\ cleared = {}
    /\ ai = [u \in User |-> TRUE] /\ telegram = [u \in User |-> TRUE]
    /\ before = [u \in User |-> {}]
    /\ lock = NoWorker /\ work = [w \in Worker |-> Idle]
    /\ changes = 0 /\ faults = 0 /\ lockLost = FALSE

\* upsertVacancy with new content, and the row of the outbox in the same transaction; g
\* says how the new revision meets the preferences of each user.
SaveRevision(v, act, g) ==
    LET i == <<v, revision[v] + 1>> IN
    /\ revision[v] < MaxRevision
    /\ revision' = [revision EXCEPT ![v] = @ + 1]
    /\ active' = [active EXCEPT ![v] = act]
    /\ gates' = [p \in Pair |-> IF p[2] = i THEN g[p[1]] ELSE gates[p]]
    /\ item' = [item EXCEPT ![i] = [Absent EXCEPT !.status = "pending"]]
    /\ order' = Append(order, i)
    /\ before' = [u \in User |-> before[u] \ {v}]
    /\ UNCHANGED <<ai, telegram, changes, resultVars, lock, work, boundVars>>

\* upsertVacancy with the stored content: the vacancy is seen again, or reported
\* inactive; no row.
TouchVacancy(v, act) ==
    /\ revision[v] > 0
    /\ active' = [active EXCEPT ![v] = act]
    /\ before' = [u \in User |-> before[u] \ {v}]
    /\ UNCHANGED <<revision, gates, item, order, ai, telegram, changes, resultVars, lock, work,
                   boundVars>>

\* MarkVacancyInactive and ReconcileDiscoveryStatuses leave collected_at alone.
SwitchVacancy(v, act) ==
    /\ revision[v] > 0
    /\ active' = [active EXCEPT ![v] = act]
    /\ UNCHANGED <<revision, gates, item, order, settingsVars, resultVars, lock, work, boundVars>>

-----------------------------------------------------------------------------
(* Users *)

\* SaveAutomationSettings: activation_at is set when AI is switched on and cleared
\* when it is switched off, so it is later than anything observed so far.
SetAI(u, on) ==
    /\ changes < MaxChanges /\ ai[u] # on
    /\ ai' = [ai EXCEPT ![u] = on]
    /\ before' = [before EXCEPT ![u] = IF on THEN Vacancy ELSE {}]
    /\ work' = [w \in Worker |-> [work[w] EXCEPT !.old[u] = IF on THEN Vacancy ELSE {}]]
    /\ changes' = changes + 1
    /\ UNCHANGED <<vacancyVars, item, order, resultVars, telegram, lock, boundVars>>

\* RevokeTelegram, or SetTelegramOptIn of a verified chat
SetTelegram(u, on) ==
    /\ changes < MaxChanges /\ telegram[u] # on
    /\ telegram' = [telegram EXCEPT ![u] = on]
    /\ changes' = changes + 1
    /\ UNCHANGED <<vacancyVars, item, order, resultVars, ai, before, lock, work, boundVars>>

-----------------------------------------------------------------------------
(* The store *)

Open(i) == item[i].status \in {"pending", "failed"}
Stale(i) == i[2] < revision[i[1]]
Claimable == Within(order, {i \in Item : Open(i)})
FirstN(s, n) == SubSeq(s, 1, IF Len(s) < n THEN Len(s) ELSE n)

Recovered == {i \in Item : item[i].status = "processing" /\ item[i].expired}
Superseded == {i \in Item : Open(i) /\ Stale(i)}

\* Mutant: a lease that ran out counts as an attempt of the row.
RowInCounted(i, taken, claimed) ==
    CASE i \in Recovered ->
            [item[i] EXCEPT !.status = "pending", !.expired = FALSE, !.attempts = @ + 1]
      [] i \in claimed /\ (i \in taken \/ i \notin Superseded) ->
            [item[i] EXCEPT !.status = "processing"]
      [] i \in Superseded /\ ~(i \in claimed /\ i \in taken) ->
            [item[i] EXCEPT !.status = "done"]
      [] OTHER -> item[i]

\* Candidates: one statement on one snapshot.  It recovers expired leases, closes the
\* rows of older revisions and claims the oldest available rows; a row that two parts
\* touch takes only one of the changes, PostgreSQL does not say which (taken).
\* Rows recovered here can be claimed by the next statement at the earliest.
RowIn(i, taken, claimed) ==
    CASE i \in Recovered -> [item[i] EXCEPT !.status = "pending", !.expired = FALSE]
      [] i \in claimed /\ (i \in taken \/ i \notin Superseded) ->
            [item[i] EXCEPT !.status = "processing"]
      [] i \in Superseded /\ ~(i \in claimed /\ i \in taken) ->
            [item[i] EXCEPT !.status = "done"]
      [] OTHER -> item[i]

CandidatesIn(taken, claimed) == [i \in Item |-> RowIn(i, taken, claimed)]

\* ... and returns those of the current revision of an active vacancy.
Returned(i) == ~Stale(i) /\ active[i[1]]

\* Only whether attempts reached the limit is ever asked.
Capped(n) == IF n <= AttemptLimit THEN n ELSE AttemptLimit

\* AIResultExists
AIResultExists(p) ==
    \/ result[p] # "none"
    \/ job[p].status = "failed" /\ job[p].attempts >= AttemptLimit

\* SaveMatch inserts the deterministic result once and says whether it did.
SaveMatch(p) == matched \cup {p}
Created(p)   == p \notin matched

CompleteWorkItem(i) ==
    IF item[i].status = "processing"
    THEN [item EXCEPT ![i].status = "done", ![i].expired = FALSE] ELSE item

\* Mutant: the limit is tested against the attempts before this one.
RetryWorkItemLate(i) ==
    IF item[i].status = "processing"
    THEN [item EXCEPT ![i] = [status |-> IF @.attempts > AttemptLimit THEN "dead" ELSE "failed",
                              attempts |-> @.attempts + 1, expired |-> FALSE]]
    ELSE item

RetryWorkItem(i) ==
    IF item[i].status = "processing"
    THEN [item EXCEPT ![i] = [status |-> IF @.attempts + 1 >= AttemptLimit THEN "dead" ELSE "failed",
                              attempts |-> @.attempts + 1, expired |-> FALSE]]
    ELSE item

LeaseExpires(i) ==
    /\ item[i].status = "processing" /\ ~item[i].expired
    /\ item' = [item EXCEPT ![i].expired = TRUE]
    /\ UNCHANGED <<vacancyVars, order, resultVars, settingsVars, lock, work, boundVars>>

\* available_at of a failed item is reached: it is now the youngest available one.
BackoffEnds(i) ==
    /\ item[i].status = "failed" /\ i \notin Range(order)
    /\ order' = Append(order, i)
    /\ UNCHANGED <<vacancyVars, item, resultVars, settingsVars, lock, work, boundVars>>

-----------------------------------------------------------------------------
(* The worker *)

Free(w) == IF lock = w THEN NoWorker ELSE lock

\* Every pair of a claimed candidate and a user, in the order of the two loops.
Pairs(batch, users) ==
    [k \in 1..(Len(batch) * Len(users)) |->
        <<users[((k - 1) % Len(users)) + 1], batch[((k - 1) \div Len(users)) + 1]>>]

\* TryLock, no manual run to claim, Users, Candidates
Candidates(w) ==
    LET claimedSeq == FirstN(Claimable, BatchSize)
        claimed    == Range(claimedSeq)
        batch      == Within(claimedSeq, {i \in Item : Returned(i)}) IN
    /\ work[w].pc = "idle" /\ lock = NoWorker /\ User # {}
    /\ \E taken \in SUBSET (claimed \cap Superseded) : item' = CandidatesIn(taken, claimed)
    /\ order' = Within(order, {i \in Item : item'[i].status \in {"pending", "failed", "processing"}})
    /\ IF batch = <<>>
       THEN UNCHANGED <<lock, work>>
       ELSE /\ lock' = w
            /\ work' = [work EXCEPT ![w] =
                    [Idle EXCEPT !.pc = "screen", !.batch = batch, !.old = before,
                                 !.todo = Pairs(batch, SetToSeq(User))]]
    /\ UNCHANGED <<vacancyVars, resultVars, settingsVars, boundVars>>

\* The next step of a worker after the pair in hand: the loop it came from, the
\* provider when candidates are screened or a group of jobs is finished, the work
\* items when all answers are stored.
NextPc(me, back, todo, jobs) ==
    CASE back = "screen" /\ todo # <<>>                          -> "screen"
      [] (back # "screen" \/ todo = <<>>) /\ jobs = <<>>         -> "settle"
      [] OTHER -> IF me.answer[Head(jobs)] = "none" THEN "ask" ELSE "finish"

\* The pass with nothing in hand, back in its loop
Resume(me, back, todo, jobs) ==
    [me EXCEPT !.pc = NextPc(me, back, todo, jobs), !.todo = todo, !.jobs = jobs,
               !.cur = <<>>, !.verdict = "reject", !.back = "screen"]

\* The pass with pair p in hand, at step pc
Hold(me, pc, p, verdict, back, todo, jobs) ==
    [me EXCEPT !.pc = pc, !.todo = todo, !.jobs = jobs,
               !.cur = <<p>>, !.verdict = verdict, !.back = back]

\* The pass with the answers a to the first of its jobs
Answered(me, jobs, a) ==
    [me EXCEPT !.pc = "finish", !.jobs = jobs,
               !.answer = [p \in Pair |-> IF p \in DOMAIN a THEN a[p] ELSE "none"]]

\* One pair of processCandidates: settings, activation, Match, SaveMatch, then the
\* reasons to leave the AI out.  A hard reject is stored as a result of its own.
Screen(w) ==
    LET me   == work[w]
        todo == Tail(me.todo)
        p    == Head(me.todo)
        u    == p[1]
        d    == Match(gates[p])
        skip == p[2][1] \in me.old[u] IN
    /\ me.pc = "screen"
    /\ matched' = IF skip THEN matched ELSE SaveMatch(p)
    /\ IF skip \/ ~ai[u] \/ AIResultExists(p)
       THEN /\ cleared' = cleared \cup {p}
            /\ work' = [work EXCEPT ![w] =
                 IF ~skip /\ ~ai[u] /\ d = "match" /\ Created(p)
                 THEN Hold(me, "announce", p, d, "screen", todo, me.jobs)
                 ELSE Resume(me, "screen", todo, me.jobs)]
       ELSE /\ UNCHANGED cleared
            /\ work' = [work EXCEPT ![w] =
                 IF d = "reject" THEN Hold(me, "storejob", p, d, "screen", todo, me.jobs)
                 ELSE Resume(me, "screen", todo, Append(me.jobs, p))]
    /\ UNCHANGED <<vacancyVars, item, order, job, failures, result, delivery, settingsVars, lock,
                   boundVars>>

\* CompleteBatchDetailed of the provider for the next group of jobs, those of one user
\* (preferences differ): every job is answered or failed.
Ask(w) ==
    LET me    == work[w]
        u     == Head(me.jobs)[1]
        group == Within(me.jobs, {u} \X Item)
        rest  == Within(me.jobs, (User \ {u}) \X Item) IN
    /\ me.pc = "ask"
    /\ \E a \in [Range(group) -> Decision \cup {"failed"}] :
         work' = [work EXCEPT ![w] = Answered(me, group \o rest, a)]
    /\ UNCHANGED <<vacancyVars, item, order, resultVars, settingsVars, lock, boundVars>>

\* finish of processAIJobs for the next job: SaveAIFailure, or on to SaveAIResult
Finish(w) ==
    LET p    == Head(work[w].jobs)
        jobs == Tail(work[w].jobs)
        me   == [work[w] EXCEPT !.answer[p] = "none"]
        a    == work[w].answer[p] IN
    /\ work[w].pc = "finish"
    /\ \/ /\ a = "failed"
          /\ job' = [job EXCEPT ![p] = [status |-> "failed", attempts |-> Capped(@.attempts + 1)]]
          /\ failures' = [failures EXCEPT ![p[2]] = Capped(@ + 1)]
          /\ work' = [work EXCEPT ![w] = Resume([me EXCEPT !.failed = @ \cup {p[2]}],
                                                "finish", <<>>, jobs)]
       \/ /\ a # "failed"
          /\ \E proven \in SUBSET Unknowns(gates[p]) :
               work' = [work EXCEPT ![w] = Hold(me, "storejob", p,
                   ApplyHardGatePrecedence(gates[p], a, proven), "finish", <<>>, jobs)]
          /\ UNCHANGED <<job, failures>>
    /\ UNCHANGED <<vacancyVars, item, order, result, matched, delivery, cleared, settingsVars,
                   lock, boundVars>>

\* SaveAIResult, its first statement: assistant_ai_jobs
SaveAIJob(w) ==
    LET p == Head(work[w].cur) IN
    /\ work[w].pc = "storejob"
    /\ job' = [job EXCEPT ![p] = [status |-> "complete", attempts |-> Capped(@.attempts + 1)]]
    /\ work' = [work EXCEPT ![w].pc = "storeresult"]
    /\ UNCHANGED <<vacancyVars, item, order, failures, result, matched, delivery, cleared,
                   settingsVars, lock, boundVars>>

\* Mutant: a result to review is announced like a match.
SaveAIResultEager(w) ==
    LET me == work[w]
        p  == Head(me.cur) IN
    /\ me.pc = "storeresult"
    /\ result' = [result EXCEPT ![p] = me.verdict]
    /\ cleared' = cleared \cup {p}
    /\ work' = [work EXCEPT ![w].pc = "announce"]
    /\ UNCHANGED <<vacancyVars, item, order, job, failures, matched, delivery, settingsVars, lock,
                   boundVars>>

\* SaveAIResult, its second statement: vacancy_match_results; a match goes on to the
\* delivery, a stored reject back to the candidates.
SaveAIResult(w) ==
    LET me == work[w]
        p  == Head(me.cur) IN
    /\ me.pc = "storeresult"
    /\ result' = [result EXCEPT ![p] = me.verdict]
    /\ cleared' = cleared \cup {p}
    /\ work' = [work EXCEPT ![w] = IF me.verdict = "match" THEN [me EXCEPT !.pc = "announce"]
                                   ELSE Resume(me, me.back, me.todo, me.jobs)]
    /\ UNCHANGED <<vacancyVars, item, order, job, failures, matched, delivery, settingsVars, lock,
                   boundVars>>

\* Mutant: a vacancy that went inactive meanwhile is not announced.
SaveDeliveryActiveOnly(w) ==
    LET me == work[w]
        p  == Head(me.cur) IN
    /\ me.pc = "announce"
    /\ delivery' = IF telegram[p[1]] /\ active[p[2][1]]
                   THEN delivery \cup {<<p[1], p[2][1]>>} ELSE delivery
    /\ work' = [work EXCEPT ![w] = Resume(me, me.back, me.todo, me.jobs)]
    /\ UNCHANGED <<vacancyVars, item, order, job, failures, result, matched, cleared, settingsVars,
                   lock, boundVars>>

\* TelegramEligible and SaveDelivery
SaveDelivery(w) ==
    LET me == work[w]
        p  == Head(me.cur) IN
    /\ me.pc = "announce"
    /\ delivery' = IF telegram[p[1]] THEN delivery \cup {<<p[1], p[2][1]>>} ELSE delivery
    /\ work' = [work EXCEPT ![w] = Resume(me, me.back, me.todo, me.jobs)]
    /\ UNCHANGED <<vacancyVars, item, order, job, failures, result, matched, cleared, settingsVars,
                   lock, boundVars>>

\* Mutant: the failures of the provider are forgotten.
SettleBlindly(w) ==
    LET me == work[w]
        i  == Head(me.batch) IN
    /\ me.pc = "settle"
    /\ item' = CompleteWorkItem(i)
    /\ order' = Within(order, Item \ {i})
    /\ IF Len(me.batch) = 1
       THEN work' = [work EXCEPT ![w] = Idle] /\ lock' = Free(w)
       ELSE work' = [work EXCEPT ![w].batch = Tail(me.batch)] /\ UNCHANGED lock
    /\ UNCHANGED <<vacancyVars, resultVars, settingsVars, boundVars>>

\* RetryWorkItem or CompleteWorkItem of the next candidate, then the release
Settle(w) ==
    LET me == work[w]
        i  == Head(me.batch) IN
    /\ me.pc = "settle"
    /\ item' = IF i \in me.failed THEN RetryWorkItem(i) ELSE CompleteWorkItem(i)
    /\ order' = IF item'[i].status \in {"done", "dead"} \/ item'[i].attempts # item[i].attempts
                THEN Within(order, Item \ {i}) ELSE order
    /\ IF Len(me.batch) = 1
       THEN work' = [work EXCEPT ![w] = Idle] /\ lock' = Free(w)
       ELSE work' = [work EXCEPT ![w].batch = Tail(me.batch)] /\ UNCHANGED lock
    /\ UNCHANGED <<vacancyVars, resultVars, settingsVars, boundVars>>

\* A failed statement, a cancelled context, a panic or a crash ends the pass; the rows
\* stay in processing.
Abort(w) ==
    /\ faults < MaxFaults /\ work[w].pc # "idle"
    /\ faults' = faults + 1
    /\ work' = [work EXCEPT ![w] = Idle] /\ lock' = Free(w)
    /\ UNCHANGED <<vacancyVars, item, order, resultVars, settingsVars, lockLost>>

\* The session of the lock drops; the worker notices nothing.
LoseLock(w) ==
    /\ faults < MaxFaults /\ lock = w
    /\ faults' = faults + 1 /\ lockLost' = TRUE
    /\ lock' = NoWorker
    /\ UNCHANGED <<vacancyVars, item, order, resultVars, settingsVars, work>>

-----------------------------------------------------------------------------
(* Specification *)

WorkerStep(w) ==
    \/ Screen(w)
    \/ Ask(w)
    \/ Finish(w)
    \/ SaveAIJob(w)
    \/ SaveAIResult(w)
    \/ SaveDelivery(w)
    \/ Settle(w)

Next ==
    \/ \E v \in Vacancy, b \in BOOLEAN, g \in [User -> Profile] : SaveRevision(v, b, g)
    \/ \E v \in Vacancy, b \in BOOLEAN : TouchVacancy(v, b) \/ SwitchVacancy(v, b)
    \/ \E u \in User, b \in BOOLEAN : SetAI(u, b) \/ SetTelegram(u, b)
    \/ \E i \in Item : LeaseExpires(i) \/ BackoffEnds(i)
    \/ \E w \in Worker : Candidates(w) \/ WorkerStep(w) \/ Abort(w) \/ LoseLock(w)

Spec == Init /\ [][Next]_vars

\* The continuous worker polls for ever, its calls end, leases and backoffs run out;
\* the ingest, the users and faults owe nothing.
Fairness ==
    /\ \A w \in Worker : WF_vars(Candidates(w)) /\ WF_vars(WorkerStep(w))
    /\ \A i \in Item : WF_vars(LeaseExpires(i)) /\ WF_vars(BackoffEnds(i))

FairSpec == Spec /\ Fairness

-----------------------------------------------------------------------------
(* Properties *)

Published == {i \in Item : item[i].status # "absent"}

\* What a row is to those who wait for it
Phase(status) ==
    CASE status = "absent"          -> "absent"
      [] status \in {"done", "dead"} -> "settled"
      [] OTHER                      -> "owed"

\* The outbox of the abstract specification: a row is settled once no user waits for
\* it, a newer revision replaced it or its attempts are used up, and stays settled,
\* whatever workers overlap, crash or answer after their lease expired.
Abstract == INSTANCE Outbox WITH
    head    <- revision,
    state   <- [i \in Item |-> Phase(item[i].status)],
    tries   <- [i \in Item |-> item[i].attempts],
    cleared <- {i \in Item : User # {} /\ \A u \in User : <<u, i>> \in cleared}

ImplementsOutbox == Abstract!Spec

\* A row is retried, and in the end dead-lettered, only for failures of the provider:
\* every attempt counted on it (RetryWorkItem) has a failure of its own that was saved
\* before (SaveAIFailure).  Crashed passes, expired leases and late settlements of a
\* worker without its lock use up none.  The attempts of the jobs would not tell: the
\* store counts results and hard rejects there as well.
AttemptsAreFailures == \A i \in Item : item[i].attempts <= failures[i]

\* A delivery announces a match that is stored for its user: crashes and retries never
\* leave a delivery behind whose result says review or reject.
DeliveryBacked ==
    ~lockLost =>
        \A d \in delivery : \E i \in Published :
            /\ i[1] = d[2]
            /\ \/ result[<<d[1], i>>] = "match"
               \/ <<d[1], i>> \in matched /\ Match(gates[<<d[1], i>>]) = "match"

\* Without a pass that is cut short every stored match is announced to a user with a
\* chat.  (With one it is not: the next pass finds the result and skips the user.)
MatchAnnounced ==
    faults = 0 /\ changes = 0 =>
        \A p \in Pair : result[p] = "match" /\ telegram[p[1]] =>
            \/ <<p[1], p[2][1]>> \in delivery
            \/ \E w \in Worker : work[w].pc = "announce" /\ work[w].cur = <<p>>

\* ADR 015: after the opt-in, AI is applied to new or changed vacancies.  Once vacancies
\* are no longer switched on and off, the current revision of an active one is settled.
NewRevisionIsAnalysed ==
    \A v \in Vacancy, r \in 1..MaxRevision, S \in SUBSET Vacancy :
        v \in S /\ <>[](revision[v] = r /\ {x \in Vacancy : active[x]} = S) =>
            <>(item[<<v, r>>].status \in {"done", "dead"})
=============================================================================
