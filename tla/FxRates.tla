------------------------------- MODULE FxRates -------------------------------
(***************************************************************************)
(* The exchange rates.  The FX sync (apps/fx) fetches the rates of the     *)
(* Bank of Russia and converts the stored salaries whose nearest rate is   *)
(* another one; the ingest converts every salary it stores with the rates  *)
(* it loaded when its batch started.  Both write the same columns of       *)
(* vacancies, without a lock between them.                                 *)
(*                                                                         *)
(* A day has one vacancy, published that day with a salary in a foreign    *)
(* currency; its rate is the day of the rate it was converted with, 0 for  *)
(* none.  A rate is not corrected once fetched.  ingest_cycle_observations *)
(* are converted by a second statement of the same form.                   *)
(***************************************************************************)
EXTENDS Integers, FiniteSets, FiniteSetsExt

CONSTANTS
    Ingest,         \* processes that store vacancies
    MaxDays,        \* bound: days
    NeedWindow,     \* days back for which the sync looks for missing rates (35)
    RateWindow,     \* days a rate may be older than the publication (7)
    BankDays,       \* days for which the bank has set rates
    MaxStores,      \* bound: vacancies stored or changed
    MaxFaults       \* bound: syncs that fail, are stopped or die

Day == 1..MaxDays

ASSUME FxConstants ==
    /\ MaxDays \in Nat \ {0} /\ NeedWindow \in Nat /\ RateWindow \in Nat
    /\ BankDays \subseteq Day /\ 1 \in BankDays
    /\ MaxStores \in Nat /\ MaxFaults \in Nat

VARIABLES
    today,
    vac, obs,   \* [Day -> Salary]: vacancies and ingest_cycle_observations
    table,      \* [Ingest -> set of days]: rates loaded at the start of a batch
    rates,      \* set of days: fx_rates
    fx,         \* local state of the sync: the dates still to fetch, the step
    fxRun,      \* status of its latest row of fx_sync_runs
    due,        \* history: days whose vacancy the sync found and nobody stored since
    stores, faults

vars == <<today, vac, obs, table, rates, fx, fxRun, due, stores, faults>>

Salary == [there: BOOLEAN, rate: 0..MaxDays]
NoRow  == [there |-> FALSE, rate |-> 0]
Sync   == [pc: {"idle", "fetch", "vacancies", "observations", "finish"}, dates: SUBSET Day]
Idle   == [pc |-> "idle", dates |-> {}]

\* resolveFX, and the lateral join of Reconcile: the nearest earlier rate in the window
Nearest(R, d) == Max({0} \cup {r \in R : r <= d /\ r >= d - RateWindow})

\* Rates in use exist: a conversion never names a rate that was not fetched, or one of
\* after the publication.
TypeOK ==
    /\ today \in Day /\ vac \in [Day -> Salary] /\ obs \in [Day -> Salary]
    /\ \A d \in Day : {vac[d].rate, obs[d].rate} \subseteq {0} \cup {r \in rates : r <= d}
    /\ table \in [Ingest -> SUBSET rates] /\ rates \subseteq BankDays
    /\ fx \in Sync /\ due \subseteq Day /\ fxRun \in {"none", "running", "failed", "success"}
    /\ stores \in 0..MaxStores /\ faults \in 0..MaxFaults

Init ==
    /\ today = 1
    /\ vac = [d \in Day |-> NoRow] /\ obs = [d \in Day |-> NoRow]
    /\ table = [i \in Ingest |-> {}] /\ rates = {}
    /\ fx = Idle /\ fxRun = "none" /\ due = {}
    /\ stores = 0 /\ faults = 0

NextDay ==
    /\ today < MaxDays
    /\ today' = today + 1
    /\ UNCHANGED <<vac, obs, table, rates, fx, fxRun, due, stores, faults>>

-----------------------------------------------------------------------------
(* The ingest *)

\* LoadFXRates at the start of a batch
LoadFXRates(i) ==
    /\ table' = [table EXCEPT ![i] = rates]
    /\ UNCHANGED <<today, vac, obs, rates, fx, fxRun, due, stores, faults>>

\* normalizeSalary
Normalized(i, d) == [there |-> TRUE, rate |-> Nearest(table[i], d)]

\* A vacancy is stored for the first time or with new content, and so is the observation
\* of it by the daily discovery.
Store(i, d) ==
    /\ stores < MaxStores /\ d <= today
    /\ stores' = stores + 1
    /\ vac' = [vac EXCEPT ![d] = Normalized(i, d)]
    /\ obs' \in {obs, [obs EXCEPT ![d] = Normalized(i, d)]}
    /\ due' = due \ {d}
    /\ UNCHANGED <<today, table, rates, fx, fxRun, faults>>

-----------------------------------------------------------------------------
(* The sync *)

\* Client.Fetch: the bank answers with the rates in force on the date.
Fetched(d) == Max({b \in BankDays : b <= d})

\* Mutant: a vacancy that was converted once needs no rate.
NeededDatesMissing ==
    {d \in Day : d >= today - NeedWindow /\ \E f \in {vac, obs} : f[d].there /\ f[d].rate = 0}

\* A snapshot of the analytics worker adds its date, a past one, to what the salaries need.
NeededDates ==
    {d \in Day : d >= today - NeedWindow /\ (vac[d].there \/ (obs[d].there /\ obs[d].rate = 0))}

\* requestedDates of the scheduler, without -date, -from and -to
RequestedDates == NeededDates \cup {Max({1, today - 7}), today}

StartSync ==
    /\ fx.pc = "idle"
    /\ fx' = [pc |-> "fetch", dates |-> RequestedDates]
    /\ fxRun' = "running"
    /\ due' = {d \in Day : vac[d].there /\ d >= today - NeedWindow}
    /\ UNCHANGED <<today, vac, obs, table, rates, stores, faults>>

\* Mutant: the rates answered are stored under the date asked for.
FetchRatesAsAsked ==
    /\ fx.pc = "fetch"
    /\ rates' = rates \cup {Min(fx.dates)}
    /\ LET left == fx.dates \ {Min(fx.dates)} IN
       fx' = [pc |-> IF left = {} THEN "vacancies" ELSE "fetch", dates |-> left]
    /\ UNCHANGED <<today, vac, obs, table, fxRun, due, stores, faults>>

\* Fetch of the oldest date within its retries, and Upsert
FetchRates ==
    /\ fx.pc = "fetch"
    /\ rates' = rates \cup {Fetched(Min(fx.dates))}
    /\ LET left == fx.dates \ {Min(fx.dates)} IN
       fx' = [pc |-> IF left = {} THEN "vacancies" ELSE "fetch", dates |-> left]
    /\ UNCHANGED <<today, vac, obs, table, fxRun, due, stores, faults>>

\* Mutant: only salaries without any rate are converted.
RerateMissing(f) ==
    [d \in Day |-> IF f[d].there /\ f[d].rate = 0 THEN [f[d] EXCEPT !.rate = Nearest(rates, d)]
                   ELSE f[d]]

\* One statement of Reconcile: the salaries whose nearest rate is another one
Rerate(f) ==
    [d \in Day |-> IF f[d].there /\ Nearest(rates, d) \notin {0, f[d].rate}
                   THEN [f[d] EXCEPT !.rate = Nearest(rates, d)] ELSE f[d]]

ReconcileVacancies ==
    /\ fx.pc = "vacancies"
    /\ vac' = Rerate(vac)
    /\ fx' = [fx EXCEPT !.pc = "observations"]
    /\ UNCHANGED <<today, obs, table, rates, fxRun, due, stores, faults>>

ReconcileObservations ==
    /\ fx.pc = "observations"
    /\ obs' = Rerate(obs)
    /\ fx' = [fx EXCEPT !.pc = "finish"]
    /\ UNCHANGED <<today, vac, table, rates, fxRun, due, stores, faults>>

FinishRun ==
    /\ fx.pc = "finish"
    /\ fxRun' = "success" /\ fx' = Idle
    /\ UNCHANGED <<today, vac, obs, table, rates, due, stores, faults>>

\* The provider or the database fails and the run is closed as failed; or the process is
\* told to stop between two dates, or dies, and the row stays running.
SyncError ==
    /\ faults < MaxFaults /\ fx.pc # "idle"
    /\ faults' = faults + 1
    /\ fxRun' \in {"failed", "running"} /\ fx' = Idle
    /\ UNCHANGED <<today, vac, obs, table, rates, due, stores>>

-----------------------------------------------------------------------------
(* Specification *)

SyncStep == FetchRates \/ ReconcileVacancies \/ ReconcileObservations \/ FinishRun

Next ==
    \/ NextDay
    \/ \E i \in Ingest : LoadFXRates(i) \/ \E d \in Day : Store(i, d)
    \/ StartSync
    \/ SyncStep
    \/ SyncError

Spec == Init /\ [][Next]_vars

\* The daily scheduler starts a sync for ever and its requests end (25 seconds each);
\* the ingest, the calendar and faults owe nothing.
FairSpec == Spec /\ WF_vars(StartSync) /\ WF_vars(SyncStep)

-----------------------------------------------------------------------------
(* Properties *)

\* A sync converts every salary it found in its window with the nearest earlier rate of
\* the bank, whatever older rate it was converted with and whatever failed before.
SyncConvertsWhatItFound ==
    fx.pc \in {"observations", "finish"} =>
        \A d \in due : vac[d].rate = Nearest(BankDays, d)

\* A salary ends up with the nearest earlier rate of the Bank of Russia, although batches
\* that started before a sync store it with the rates they loaded, and later content
\* overwrites what a sync converted.
SalaryGetsNearestRate ==
    \A d \in Day :
        <>[](vac[d].there /\ d >= today - NeedWindow) => <>[](vac[d].rate = Nearest(BankDays, d))
=============================================================================
