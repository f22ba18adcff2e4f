---------------------------- MODULE FxRatesProofs ----------------------------
(***************************************************************************)
(* Theorems about FxRates, for any number of days, any calendar of the     *)
(* bank, any windows and any number of ingest processes.                   *)
(***************************************************************************)
EXTENDS FxRates, WellFoundedInduction, TLAPS

-----------------------------------------------------------------------------
(* Smallest and largest elements *)

LEMMA SmallestElement ==
    ASSUME NEW S \in SUBSET Nat, S # {}
    PROVE  \E x \in S : \A y \in S : x <= y
<1>1. PICK x \in S : \A y \in S : <<y, x>> \notin OpToRel(<, Nat)
  BY WFMin, NatLessThanWellFounded
<1>2. \A y \in S : ~(y < x)
  BY <1>1 DEF OpToRel
<1> QED
  BY <1>2

LEMMA MinIsLeast ==
    ASSUME NEW S \in SUBSET Nat, S # {}
    PROVE  Min(S) \in S /\ \A y \in S : Min(S) <= y
  BY SmallestElement DEF Min

LEMMA MaxIsGreatest ==
    ASSUME NEW n \in Nat, NEW S \in SUBSET (0..n), S # {}
    PROVE  Max(S) \in S /\ \A y \in S : Max(S) >= y
<1> DEFINE T == {n - y : y \in S}
<1>1. T \in SUBSET Nat /\ T # {}
  <2>1. \A y \in S : y \in 0..n /\ n - y \in Nat
    OBVIOUS
  <2>2. PICK y \in S : TRUE
    OBVIOUS
  <2>3. n - y \in T
    OBVIOUS
  <2> QED
    BY <2>1, <2>3
<1>2. PICK x \in T : \A z \in T : x <= z
  <2> HIDE DEF T
  <2> QED
    BY <1>1, SmallestElement
<1>3. PICK m \in S : x = n - m
  OBVIOUS
<1>4. \A y \in S : m >= y
  BY <1>2, <1>3
<1> QED
  BY <1>4 DEF Max

-----------------------------------------------------------------------------
(* The rates of a day *)

\* The rates a salary of day d may be converted with
InWindow(R, d) == {r \in R : r <= d /\ r >= d - RateWindow}

\* Nearest names the latest rate of the window, or none when the window is empty.
LEMMA NearestIs ==
    ASSUME NEW R \in SUBSET Day, NEW d \in Day
    PROVE  /\ Nearest(R, d) \in {0} \cup InWindow(R, d)
           /\ \A r \in InWindow(R, d) : Nearest(R, d) >= r
           /\ InWindow(R, d) # {} => Nearest(R, d) # 0
<1>1. {0} \cup InWindow(R, d) \in SUBSET (0..MaxDays) /\ MaxDays \in Nat
  <2>1. MaxDays \in Nat
    BY FxConstants
  <2>2. \A r \in R : r \in 0..MaxDays
    BY <2>1 DEF Day
  <2>3. 0 \in 0..MaxDays
    BY <2>1
  <2> QED
    BY <2>1, <2>2, <2>3 DEF InWindow
<1>2. Max({0} \cup InWindow(R, d)) = Nearest(R, d)
  BY DEF Nearest, InWindow
<1>3. /\ Nearest(R, d) \in {0} \cup InWindow(R, d)
      /\ \A r \in {0} \cup InWindow(R, d) : Nearest(R, d) >= r
  BY <1>1, <1>2, MaxIsGreatest
<1>4. \A r \in InWindow(R, d) : r > 0
  BY FxConstants DEF Day, InWindow
<1> QED
  BY <1>1, <1>3, <1>4

\* The bank answers with its latest rate up to the date.
LEMMA FetchedIs ==
    ASSUME NEW d \in Day
    PROVE  /\ Fetched(d) \in BankDays /\ Fetched(d) <= d
           /\ \A b \in BankDays : b <= d => b <= Fetched(d)
<1> DEFINE S == {b \in BankDays : b <= d}
<1>1. S \in SUBSET (0..MaxDays) /\ MaxDays \in Nat /\ S # {}
  <2>1. MaxDays \in Nat /\ \A b \in BankDays : b \in 0..MaxDays
    BY FxConstants DEF Day
  <2>2. 1 \in S
    BY FxConstants DEF Day
  <2> QED
    BY <2>1, <2>2
<1>2. Max(S) \in S /\ \A y \in S : Max(S) >= y
  <2> HIDE DEF S
  <2> QED
    BY <1>1, MaxIsGreatest
<1> QED
  BY <1>2, FxConstants DEF Fetched, Day

\* With that rate at hand the table decides like the full calendar of the bank.
LEMMA FetchedDecides ==
    ASSUME NEW R \in SUBSET BankDays, NEW d \in Day, Fetched(d) \in R
    PROVE  Nearest(R, d) = Nearest(BankDays, d)
<1>1. R \in SUBSET Day /\ BankDays \in SUBSET Day /\ Day \subseteq Nat
  BY FxConstants DEF Day
<1>2. \A r \in BankDays : r <= d => r <= Fetched(d)
  BY FetchedIs
<1>3. InWindow(R, d) \subseteq InWindow(BankDays, d) /\ InWindow(BankDays, d) \subseteq Nat
  BY <1>1 DEF InWindow
<1>4. CASE Fetched(d) \in InWindow(R, d)
  <2>1. ASSUME NEW S \in SUBSET BankDays, Fetched(d) \in S PROVE Nearest(S, d) = Fetched(d)
    <3>1. Fetched(d) \in InWindow(S, d)
      BY <1>4, <2>1 DEF InWindow
    <3>2. Nearest(S, d) \in InWindow(S, d) /\ Nearest(S, d) >= Fetched(d)
      BY <1>1, <3>1, NearestIs
    <3>3. Nearest(S, d) <= Fetched(d) /\ Nearest(S, d) \in Nat /\ Fetched(d) \in Nat
      BY <1>1, <1>2, <3>1, <3>2 DEF InWindow
    <3> QED
      BY <3>2, <3>3
  <2> QED
    BY <2>1
<1>5. CASE Fetched(d) \notin InWindow(R, d)
  <2>1. Fetched(d) < d - RateWindow /\ Fetched(d) \in Nat
    <3>1. Fetched(d) \in Nat /\ d \in Nat /\ RateWindow \in Nat /\ Fetched(d) <= d
      BY <1>1, FetchedIs, FxConstants
    <3>2. ~(Fetched(d) >= d - RateWindow)
      BY <1>5, <3>1 DEF InWindow
    <3> QED
      BY <3>1, <3>2
  <2>2. ASSUME NEW r \in InWindow(BankDays, d) PROVE FALSE
    <3>1. r \in Nat /\ r <= Fetched(d) /\ r >= d - RateWindow /\ d \in Nat /\ RateWindow \in Nat
      BY <1>1, <1>2, <2>2, FxConstants DEF InWindow
    <3> QED
      BY <2>1, <3>1
  <2>3. InWindow(R, d) = {} /\ InWindow(BankDays, d) = {}
    BY <1>3, <2>2
  <2> QED
    BY <1>1, <2>3, NearestIs
<1> QED
  BY <1>4, <1>5
-----------------------------------------------------------------------------
(* The inductive invariant *)

\* Rates in use lie in the window of their salary, so a salary for which the table has
\* no rate has none.
UsedInWindow(f) == \A d \in Day : f[d].rate \in {0} \cup InWindow(rates, d)

\* A running sync has fetched, or is about to fetch, the rate of every salary it found.
DueIsFetched ==
    fx.pc # "idle" =>
        \A d \in due : vac[d].there /\ (d \in fx.dates \/ Fetched(d) \in rates)

\* It asks for rates until no date is left.
DatesLeft == fx.pc = "fetch" <=> fx.dates # {}

SyncInv ==
    /\ TypeOK
    /\ UsedInWindow(vac) /\ UsedInWindow(obs)
    /\ DueIsFetched
    /\ DatesLeft
    /\ SyncConvertsWhatItFound

-----------------------------------------------------------------------------
(* Proofs *)

LEMMA DayFacts ==
    /\ Day \subseteq Nat /\ MaxDays \in Nat /\ BankDays \subseteq Day
    /\ \A d \in Day : d >= 1 /\ d <= MaxDays /\ d \in 0..MaxDays
    /\ 1 \in Day /\ 0 \in 0..MaxDays
  BY FxConstants DEF Day

LEMMA SyncInit == Init => SyncInv
<1> SUFFICES ASSUME Init PROVE SyncInv
  OBVIOUS
<1>1. TypeOK
  BY FxConstants, DayFacts DEF Init, TypeOK, NoRow, Salary, Sync, Idle
<1>2. UsedInWindow(vac) /\ UsedInWindow(obs) /\ DueIsFetched /\ DatesLeft /\ SyncConvertsWhatItFound
  BY DEF Init, NoRow, Idle, UsedInWindow, DueIsFetched, DatesLeft, SyncConvertsWhatItFound
<1> QED
  BY <1>1, <1>2 DEF SyncInv

\* The dates a sync asks for: days, today at least, and all days it then owes.
LEMMA RequestedDatesType ==
    ASSUME today \in Day
    PROVE  /\ RequestedDates \in SUBSET Day /\ RequestedDates # {}
           /\ \A d \in Day : vac[d].there /\ d >= today - NeedWindow => d \in RequestedDates
<1>1. Max({1, today - 7}) \in {1, today - 7} /\ Max({1, today - 7}) >= 1
  <2>1. today \in Nat /\ today >= 1
    BY DayFacts
  <2>2. \E x \in {1, today - 7} : \A y \in {1, today - 7} : x >= y
    BY <2>1
  <2>3. Max({1, today - 7}) \in {1, today - 7} /\ \A y \in {1, today - 7} : Max({1, today - 7}) >= y
    BY <2>2 DEF Max
  <2> QED
    BY <2>3
<1>2. Max({1, today - 7}) \in Day
  BY <1>1, FxConstants DEF Day
<1>3. NeededDates \subseteq Day
  BY DEF NeededDates
<1> QED
  BY <1>2, <1>3 DEF RequestedDates, NeededDates

LEMMA RerateType ==
    ASSUME rates \subseteq BankDays, NEW f \in [Day -> Salary],
           \A d \in Day : f[d].rate \in {0} \cup InWindow(rates, d)
    PROVE  /\ Rerate(f) \in [Day -> Salary]
           /\ \A d \in Day : /\ Rerate(f)[d].there = f[d].there
                             /\ Rerate(f)[d].rate \in {0} \cup InWindow(rates, d)
                             /\ f[d].there => Rerate(f)[d].rate = Nearest(rates, d)
<1> SUFFICES ASSUME NEW d \in Day
             PROVE  /\ Rerate(f)[d] \in Salary
                    /\ Rerate(f)[d].there = f[d].there
                    /\ Rerate(f)[d].rate \in {0} \cup InWindow(rates, d)
                    /\ f[d].there => Rerate(f)[d].rate = Nearest(rates, d)
  BY DEF Rerate
<1>1. rates \in SUBSET Day
  BY DayFacts
<1>2. /\ Nearest(rates, d) \in {0} \cup InWindow(rates, d)
      /\ InWindow(rates, d) # {} => Nearest(rates, d) # 0
  BY <1>1, NearestIs
<1>3. Nearest(rates, d) \in 0..MaxDays
  BY <1>1, <1>2, DayFacts DEF InWindow
<1>4. Rerate(f)[d] = IF f[d].there /\ Nearest(rates, d) \notin {0, f[d].rate}
                     THEN [f[d] EXCEPT !.rate = Nearest(rates, d)] ELSE f[d]
  BY DEF Rerate
<1>5. f[d] \in Salary /\ f[d].rate \in {0} \cup InWindow(rates, d)
  OBVIOUS
<1>6. CASE f[d].there /\ Nearest(rates, d) \notin {0, f[d].rate}
  <2>1. Rerate(f)[d] = [f[d] EXCEPT !.rate = Nearest(rates, d)]
    BY <1>4, <1>6
  <2> QED
    BY <1>2, <1>3, <1>5, <1>6, <2>1 DEF Salary
<1>7. CASE ~(f[d].there /\ Nearest(rates, d) \notin {0, f[d].rate})
  <2>1. Rerate(f)[d] = f[d]
    BY <1>4, <1>7
  <2>2. f[d].there => f[d].rate = Nearest(rates, d)
    BY <1>2, <1>5, <1>7
  <2> QED
    BY <1>5, <2>1, <2>2
<1> QED
  BY <1>6, <1>7

\* A day never stored before, or stored again by a batch, takes a rate of the table.
LEMMA NormalizedType ==
    ASSUME TypeOK, NEW i \in Ingest, NEW d \in Day
    PROVE  /\ Normalized(i, d) \in Salary
           /\ Normalized(i, d).rate \in {0} \cup InWindow(rates, d)
<1>1. table[i] \in SUBSET rates /\ rates \subseteq BankDays
  BY DEF TypeOK
<1>2. table[i] \in SUBSET Day
  BY <1>1, DayFacts
<1>3. Nearest(table[i], d) \in {0} \cup InWindow(table[i], d)
  BY <1>2, NearestIs
<1>4. Nearest(table[i], d) \in 0..MaxDays
  BY <1>2, <1>3, DayFacts DEF InWindow
<1>5. InWindow(table[i], d) \subseteq InWindow(rates, d)
  BY <1>1 DEF InWindow
<1> QED
  BY <1>3, <1>4, <1>5 DEF Normalized, Salary

LEMMA SyncNext == SyncInv /\ [Next]_vars => SyncInv'
<1> SUFFICES ASSUME SyncInv, [Next]_vars PROVE SyncInv'
  OBVIOUS
<1> USE DEF SyncInv
<1>1. CASE NextDay
  <2>1. today' \in Day
    BY <1>1, FxConstants DEF NextDay, TypeOK, Day
  <2> QED
    BY <1>1, <2>1 DEF NextDay, TypeOK, UsedInWindow, InWindow, DueIsFetched, DatesLeft,
                      SyncConvertsWhatItFound
<1>2. ASSUME NEW i \in Ingest, LoadFXRates(i) PROVE SyncInv'
  BY <1>2 DEF LoadFXRates, TypeOK, UsedInWindow, InWindow, DueIsFetched, DatesLeft,
              SyncConvertsWhatItFound
<1>3. ASSUME NEW i \in Ingest, NEW d \in Day, Store(i, d) PROVE SyncInv'
  <2>1. /\ vac' \in [Day -> Salary] /\ obs' \in [Day -> Salary]
        /\ UsedInWindow(vac)' /\ UsedInWindow(obs)'
        /\ \A e \in Day \ {d} : vac'[e] = vac[e]
    <3>1. UNCHANGED rates
      BY <1>3 DEF Store
    <3> QED
      BY <1>3, <3>1, NormalizedType DEF Store, TypeOK, UsedInWindow, InWindow
  <2>2. TypeOK'
    <3>1. \A e \in Day : {vac'[e].rate, obs'[e].rate} \subseteq {0} \cup {r \in rates' : r <= e}
      BY <2>1 DEF UsedInWindow, InWindow
    <3> QED
      BY <1>3, <2>1, <3>1, FxConstants DEF Store, TypeOK
  <2>3. DueIsFetched' /\ DatesLeft' /\ SyncConvertsWhatItFound'
    BY <1>3, <2>1 DEF Store, TypeOK, DueIsFetched, DatesLeft, SyncConvertsWhatItFound
  <2> QED
    BY <2>1, <2>2, <2>3
<1>4. CASE StartSync
  <2>1. /\ RequestedDates \in SUBSET Day /\ RequestedDates # {}
        /\ \A d \in Day : vac[d].there /\ d >= today - NeedWindow => d \in RequestedDates
    BY RequestedDatesType DEF TypeOK
  <2>2. TypeOK'
    BY <1>4, <2>1 DEF StartSync, TypeOK, Sync
  <2> QED
    BY <1>4, <2>1, <2>2 DEF StartSync, UsedInWindow, InWindow, DueIsFetched, DatesLeft,
                            SyncConvertsWhatItFound
<1>5. CASE FetchRates
  <2>1. fx.dates \in SUBSET Day /\ fx.dates # {} /\ fx.dates \in SUBSET Nat
    BY <1>5, DayFacts DEF FetchRates, DatesLeft, TypeOK, Sync
  <2> DEFINE m == Min(fx.dates)
             left == fx.dates \ {m}
  <2>2. m \in fx.dates /\ m \in Day
    BY <2>1, MinIsLeast
  <2>3. Fetched(m) \in BankDays
    BY <2>2, FetchedIs
  <2>4. /\ rates' = rates \cup {Fetched(m)}
        /\ fx' = [pc |-> IF left = {} THEN "vacancies" ELSE "fetch", dates |-> left]
        /\ UNCHANGED <<today, vac, obs, table, fxRun, due, stores, faults>>
    BY <1>5 DEF FetchRates
  <2> HIDE DEF m, left
  <2>5. fx' \in Sync /\ DatesLeft'
    BY <2>1, <2>4 DEF Sync, DatesLeft, left
  <2>6. TypeOK'
    BY <2>3, <2>4, <2>5 DEF TypeOK
  <2>7. UsedInWindow(vac)' /\ UsedInWindow(obs)'
    BY <2>4 DEF UsedInWindow, InWindow
  <2>8. DueIsFetched'
    <3>1. fx.pc = "fetch"
      BY <1>5 DEF FetchRates
    <3> QED
      BY <2>4, <3>1 DEF DueIsFetched, left
  <2>9. SyncConvertsWhatItFound'
    BY <2>4 DEF SyncConvertsWhatItFound
  <2> QED
    BY <2>5, <2>6, <2>7, <2>8, <2>9
<1>6. CASE ReconcileVacancies
  <2>1. /\ vac' \in [Day -> Salary]
        /\ \A d \in Day : /\ vac'[d].there = vac[d].there
                          /\ vac'[d].rate \in {0} \cup InWindow(rates, d)
                          /\ vac[d].there => vac'[d].rate = Nearest(rates, d)
    BY <1>6, RerateType DEF ReconcileVacancies, TypeOK, UsedInWindow
  <2>2. UNCHANGED <<today, obs, table, rates, fxRun, due, stores, faults>>
    BY <1>6 DEF ReconcileVacancies
  <2>3. fx' = [fx EXCEPT !.pc = "observations"] /\ fx \in Sync /\ fx.pc = "vacancies"
    BY <1>6 DEF ReconcileVacancies, TypeOK
  <2>4. UsedInWindow(vac)' /\ UsedInWindow(obs)'
    BY <2>1, <2>2 DEF UsedInWindow, InWindow
  <2>5. TypeOK'
    <3>1. \A d \in Day : {vac'[d].rate, obs'[d].rate} \subseteq {0} \cup {r \in rates' : r <= d}
      BY <2>4 DEF UsedInWindow, InWindow
    <3>2. fx' \in Sync
      BY <2>3 DEF Sync
    <3> QED
      BY <2>1, <2>2, <3>1, <3>2 DEF TypeOK
  <2>6. DueIsFetched' /\ DatesLeft'
    BY <2>1, <2>2, <2>3 DEF DueIsFetched, DatesLeft, Sync, TypeOK
  <2>7. SyncConvertsWhatItFound'
    <3> SUFFICES ASSUME NEW d \in due PROVE vac'[d].rate = Nearest(BankDays, d)
      BY <2>2 DEF SyncConvertsWhatItFound
    <3>1. d \in Day /\ vac[d].there /\ Fetched(d) \in rates /\ rates \in SUBSET BankDays
      BY <2>3 DEF TypeOK, DueIsFetched, DatesLeft
    <3> QED
      BY <2>1, <3>1, FetchedDecides
  <2> QED
    BY <2>4, <2>5, <2>6, <2>7
<1>7. CASE ReconcileObservations
  <2>1. /\ obs' \in [Day -> Salary]
        /\ \A d \in Day : obs'[d].rate \in {0} \cup InWindow(rates, d)
    BY <1>7, RerateType DEF ReconcileObservations, TypeOK, UsedInWindow
  <2>2. UNCHANGED <<today, vac, table, rates, fxRun, due, stores, faults>>
    BY <1>7 DEF ReconcileObservations
  <2>3. fx' = [fx EXCEPT !.pc = "finish"] /\ fx \in Sync /\ fx.pc = "observations"
    BY <1>7 DEF ReconcileObservations, TypeOK
  <2>4. UsedInWindow(vac)' /\ UsedInWindow(obs)'
    BY <2>1, <2>2 DEF UsedInWindow, InWindow
  <2>5. TypeOK'
    <3>1. \A d \in Day : {vac'[d].rate, obs'[d].rate} \subseteq {0} \cup {r \in rates' : r <= d}
      BY <2>4 DEF UsedInWindow, InWindow
    <3>2. fx' \in Sync
      BY <2>3 DEF Sync
    <3> QED
      BY <2>1, <2>2, <3>1, <3>2 DEF TypeOK
  <2>6. DueIsFetched' /\ DatesLeft' /\ SyncConvertsWhatItFound'
    BY <2>2, <2>3 DEF DueIsFetched, DatesLeft, Sync, TypeOK, SyncConvertsWhatItFound
  <2> QED
    BY <2>4, <2>5, <2>6
<1>8. CASE FinishRun \/ SyncError
  <2>1. /\ fx' = Idle /\ fxRun' \in {"success", "failed", "running"} /\ faults' \in 0..MaxFaults
        /\ UNCHANGED <<today, vac, obs, table, rates, due, stores>>
    BY <1>8, FxConstants DEF FinishRun, SyncError, TypeOK
  <2> QED
    BY <2>1 DEF Idle, Sync, TypeOK, UsedInWindow, InWindow, DueIsFetched, DatesLeft,
                SyncConvertsWhatItFound
<1>9. CASE UNCHANGED vars
  BY <1>9 DEF vars, TypeOK, UsedInWindow, InWindow, DueIsFetched, DatesLeft,
              SyncConvertsWhatItFound
<1> QED
  BY <1>1, <1>2, <1>3, <1>4, <1>5, <1>6, <1>7, <1>8, <1>9 DEF Next, SyncStep

\* Every conversion names a rate of the bank that was fetched and lies in the window of
\* the publication, whoever wrote the column last (Reconcile or normalizeSalary).
THEOREM SyncInvariant == Spec => []SyncInv
  BY SyncInit, SyncNext, PTL DEF Spec

\* Every reachable state is well typed; rates in use exist and are not of the future.
THEOREM TypeCorrect == Spec => []TypeOK
<1>1. SyncInv => TypeOK
  BY DEF SyncInv
<1> QED
  BY <1>1, SyncInvariant, PTL

\* After Reconcile a salary the sync found has the nearest earlier rate of the bank, for
\* any windows, any calendar and any ingests that store with older tables meanwhile.
THEOREM Conversion == Spec => []SyncConvertsWhatItFound
<1>1. SyncInv => SyncConvertsWhatItFound
  BY DEF SyncInv
<1> QED
  BY <1>1, SyncInvariant, PTL
=============================================================================
