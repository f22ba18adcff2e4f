------------------------- MODULE AssistantRunProofs -------------------------
(***************************************************************************)
(* Theorems about AssistantRun, for every set of users and workers and     *)
(* every value of the bounds.                                              *)
(***************************************************************************)
EXTENDS AssistantRun, FiniteSetTheorems, TLAPS

-----------------------------------------------------------------------------
(* Facts about the data *)

LEMMA ActiveFinite ==
    ASSUME TypeOK PROVE IsFiniteSet(active) /\ Cardinality(active) \in Nat
<1>1. IsFiniteSet(1..born)
  BY FS_Interval DEF TypeOK
<1> QED
  BY <1>1, FS_Subset, FS_CardinalityType DEF TypeOK

\* Every action that rewrites one row, or one worker, keeps the table's type.
LEMMA RowUpdate ==
    ASSUME runs \in [RunId -> Run], NEW r, NEW row, r \in RunId => row \in Run
    PROVE  [runs EXCEPT ![r] = row] \in [RunId -> Run]
  OBVIOUS

LEMMA RowStateType ==
    ASSUME NEW row \in Run, NEW s \in RunState, NEW l \in {"none", "held", "expired"}
    PROVE  /\ [row EXCEPT !.state = s, !.lease = l] \in Run
           /\ [row EXCEPT !.lease = l] \in Run
           /\ [row EXCEPT !.state = s, !.from = row.state, !.lease = l] \in Run
           /\ [row EXCEPT !.state = s, !.lease = l, !.from = "absent"] \in Run
  BY DEF Run, RunState

LEMMA ProgressRowType ==
    ASSUME TypeOK, NEW w \in Worker, NEW row \in Run
    PROVE  ProgressRow(row, w) \in Run
<1>1. worker[w].processed \in Nat /\ worker[w].last \in Nat
  BY DEF TypeOK, Process
<1> QED
  BY <1>1 DEF ProgressRow, Run

LEMMA WorkerUpdate ==
    ASSUME worker \in [Worker -> Process], NEW w \in Worker, NEW x \in Process
    PROVE  [worker EXCEPT ![w] = x] \in [Worker -> Process]
  OBVIOUS

LEMMA ProcessFieldType ==
    ASSUME NEW x \in Process, NEW pc \in PC, NEW t \in SUBSET Vacancy, NEW m \in Nat, NEW n \in Nat
    PROVE  /\ [x EXCEPT !.todo = t, !.processed = n] \in Process
           /\ [x EXCEPT !.pc = pc, !.last = n, !.todo = t] \in Process
           /\ [x EXCEPT !.pc = pc, !.pages = m, !.cursor = n] \in Process
  BY DEF Process

LEMMA IdleType == Idle \in Process
  BY DEF Idle, Process, PC

LEMMA FinishingType ==
    ASSUME TypeOK, NEW w \in Worker, NEW n \in Nat, NEW o \in {"succeeded", "failed"}
    PROVE  Finishing(w, n, o) \in Process
  BY DEF TypeOK, Finishing, Idle, Process, PC

LEMMA UnlockingType == Unlocking \in Process
  BY DEF Unlocking, Idle, Process, PC

\* LIMIT BatchSize keeps a prefix of the ordered rows.
LEMMA FirstBatchDownClosed ==
    ASSUME NEW rows \in SUBSET Nat, IsFiniteSet(rows),
           NEW p \in rows, NEW last \in FirstBatch(rows), p <= last
    PROVE  p \in FirstBatch(rows)
<1> DEFINE Below(x) == {q \in rows : q < x}
<1>1. Below(p) \subseteq Below(last)
  <2> SUFFICES ASSUME NEW q \in rows, q < p PROVE q < last
    OBVIOUS
  <2> QED
    BY DEF FirstBatch
<1>2. IsFiniteSet(Below(last))
  BY FS_Subset
<1>3. Cardinality(Below(p)) <= Cardinality(Below(last))
  BY <1>1, <1>2, FS_Subset
<1>4. Cardinality(Below(p)) \in Nat /\ Cardinality(Below(last)) \in Nat
  BY <1>1, <1>2, FS_Subset, FS_CardinalityType
<1>5. Cardinality(Below(last)) < BatchSize
  BY DEF FirstBatch
<1> QED
  BY <1>3, <1>4, <1>5, BoundsAssumption DEF FirstBatch

-----------------------------------------------------------------------------
(* Type correctness *)

LEMMA TypeInit == Init => TypeOK
<1> SUFFICES ASSUME Init PROVE TypeOK
  OBVIOUS
<1>1. runs \in [RunId -> Run]
  BY DEF Init, Absent, Run, RunState, Active
<1>2. worker \in [Worker -> Process]
  BY IdleType DEF Init
<1> QED
  BY <1>1, <1>2, BoundsAssumption DEF Init, TypeOK

LEMMA TypeNext == TypeOK /\ [Next]_vars => TypeOK'
<1> SUFFICES ASSUME TypeOK, [Next]_vars PROVE TypeOK'
  OBVIOUS
<1> USE DEF dbVars, vacVars, hist
<1>1. ASSUME NEW u \in User, SavePreferences(u) PROVE TypeOK'
  BY <1>1 DEF TypeOK, SavePreferences
<1>2. ASSUME NEW u \in User, NEW v \in 1..MaxVersions, ArchivePreference(u, v) PROVE TypeOK'
  BY <1>2, BoundsAssumption DEF TypeOK, ArchivePreference
<1>3. ASSUME NEW u \in User, NEW r \in RunId, NEW v \in 1..MaxVersions, QueueAnalysis(u, r, v)
      PROVE TypeOK'
  <2> DEFINE row == [state |-> "queued", user |-> u, pref |-> v, rules |-> ruleset,
           cutoff |-> born, total |-> Cardinality(active), processed |-> 0,
           cursor |-> 0, lease |-> "none", from |-> "absent"]
  <2>1. row \in Run
    BY ActiveFinite, BoundsAssumption DEF TypeOK, Run, RunState, Active
  <2>2. runs' = [runs EXCEPT ![r] = row]
    BY <1>3 DEF QueueAnalysis
  <2>3. runs' \in [RunId -> Run]
    BY <2>1, <2>2 DEF TypeOK
  <2>4. steady' \in [RunId -> SUBSET Vacancy]
    BY <1>3, BoundsAssumption DEF TypeOK, QueueAnalysis, Vacancy
  <2> QED
    BY <1>3, <2>3, <2>4 DEF TypeOK, QueueAnalysis
<1>4. ASSUME NEW r \in RunId, NEW v \in 1..MaxVersions, SupersedeAssistantRun(r, v) PROVE TypeOK'
  <2>1. runs' \in [RunId -> Run]
    <3>1. runs[r] \in Run /\ "superseded" \in RunState
      BY DEF TypeOK, RunState, Active
    <3>2. [runs[r] EXCEPT !.state = "superseded", !.from = runs[r].state, !.lease = "none"] \in Run
      BY <3>1, RowStateType
    <3> QED
      BY <1>4, <3>2, RowUpdate DEF TypeOK, SupersedeAssistantRun
  <2> QED
    BY <1>4, <2>1 DEF TypeOK, SupersedeAssistantRun
<1>5. CASE DeployRuleset
  BY <1>5 DEF TypeOK, DeployRuleset
<1>6. ASSUME NEW r \in RunId, PauseAssistantRun(r) PROVE TypeOK'
  <2>1. runs' \in [RunId -> Run]
    <3>1. runs[r] \in Run /\ "paused" \in RunState
      BY DEF TypeOK, RunState, Active
    <3>2. [runs[r] EXCEPT !.state = "paused", !.lease = "none"] \in Run
      BY <3>1, RowStateType
    <3> QED
      BY <1>6, <3>2, RowUpdate DEF TypeOK, PauseAssistantRun
  <2> QED
    BY <1>6, <2>1 DEF TypeOK, PauseAssistantRun
<1>7. ASSUME NEW r \in RunId, ResumeAssistantRun(r) PROVE TypeOK'
  <2>1. runs' \in [RunId -> Run]
    <3>1. runs[r] \in Run /\ "queued" \in RunState
      BY DEF TypeOK, RunState, Active
    <3>2. [runs[r] EXCEPT !.state = "queued", !.lease = "none"] \in Run
      BY <3>1, RowStateType
    <3> QED
      BY <1>7, <3>2, RowUpdate DEF TypeOK, ResumeAssistantRun
  <2> QED
    BY <1>7, <2>1 DEF TypeOK, ResumeAssistantRun
<1>8. ASSUME NEW r \in RunId, RecoverAssistantRun(r) PROVE TypeOK'
  <2>1. runs' \in [RunId -> Run]
    <3>1. \A q \in RunId : runs[q] \in Run
      BY DEF TypeOK
    <3>2. "queued" \in RunState /\ "disabled" \in RunState
      BY DEF RunState, Active
    <3>3. \A q \in RunId : /\ [runs[q] EXCEPT !.state = "queued", !.lease = "none", !.from = "absent"] \in Run
                           /\ [runs[q] EXCEPT !.state = "disabled", !.lease = "none"] \in Run
      BY <3>1, <3>2, RowStateType
    <3> QED
      BY <1>8, <3>1, <3>3 DEF RecoverAssistantRun
  <2> QED
    BY <1>8, <2>1 DEF TypeOK, RecoverAssistantRun
<1>9. CASE CreateVacancy
  BY <1>9, BoundsAssumption DEF TypeOK, CreateVacancy
<1>10. ASSUME NEW p \in Vacancy, Deactivate(p) PROVE TypeOK'
  BY <1>10 DEF TypeOK, Deactivate
<1>11. ASSUME NEW p \in Vacancy, Reactivate(p) PROVE TypeOK'
  BY <1>11 DEF TypeOK, Reactivate
<1>12. ASSUME NEW w \in Worker, TryLock(w) PROVE TypeOK'
  <2>1. worker' \in [Worker -> Process]
    BY <1>12 DEF TypeOK, TryLock, Process, PC
  <2> QED
    BY <1>12, <2>1 DEF TypeOK, TryLock
<1>13. ASSUME NEW w \in Worker, RunOnceStep(w) PROVE TypeOK'
  <2>1. ASSUME NEW r \in RunId, ClaimAssistantRun(w, r) PROVE TypeOK'
    <3>1. runs[r] \in Run /\ "running" \in RunState
      BY DEF TypeOK, RunState, Active
    <3>2. [runs[r] EXCEPT !.state = "running", !.lease = "held"] \in Run
      BY <3>1, RowStateType
    <3>3. runs' \in [RunId -> Run]
      BY <2>1, <3>2, RowUpdate DEF TypeOK, ClaimAssistantRun
    <3>4. runs[r].cursor \in Nat /\ runs[r].processed \in Nat /\ r \in Nat
      BY <3>1 DEF Run, RunId
    <3>5. [Idle EXCEPT !.pc = "loading", !.run = r,
                       !.cursor = runs[r].cursor, !.processed = runs[r].processed] \in Process
      BY <3>4 DEF Idle, Process, PC, Working
    <3>6. worker' \in [Worker -> Process]
      BY <2>1, <3>5, WorkerUpdate DEF TypeOK, ClaimAssistantRun
    <3> QED
      BY <2>1, <3>3, <3>6 DEF TypeOK, ClaimAssistantRun
  <2>2. CASE ClaimNothing(w)
    <3>1. worker' \in [Worker -> Process]
      BY <2>2, UnlockingType DEF TypeOK, ClaimNothing
    <3> QED
      BY <2>2, <3>1 DEF TypeOK, ClaimNothing
  <2>3. CASE LoadUsers(w)
    <3>1. worker' \in [Worker -> Process]
      BY <2>3 DEF TypeOK, LoadUsers, Process, PC, Working
    <3> QED
      BY <2>3, <3>1 DEF TypeOK, LoadUsers
  <2>4. CASE SnapshotCandidates(w)
    <3> DEFINE rows == SnapshotRows(runs[worker[w].run].cutoff, worker[w].cursor)
    <3>1. CASE worker' = [worker EXCEPT ![w] = Finishing(w, worker[w].processed, "succeeded")]
      BY <3>1, <2>4, FinishingType, WorkerUpdate DEF TypeOK, SnapshotCandidates, Process
    <3>2. ASSUME NEW last \in FirstBatch(rows),
                 worker' = [worker EXCEPT ![w] =
                     [@ EXCEPT !.pc = "processing", !.last = last, !.todo = FirstBatch(rows)]]
          PROVE  TypeOK'
      <4>1. FirstBatch(rows) \subseteq active
        BY DEF FirstBatch, SnapshotRows
      <4>2. active \subseteq Vacancy /\ Vacancy \subseteq Nat
        BY BoundsAssumption DEF TypeOK, Vacancy
      <4>3. [worker[w] EXCEPT !.pc = "processing", !.last = last, !.todo = FirstBatch(rows)] \in Process
        <5>1. worker[w] \in Process /\ "processing" \in PC
          BY DEF TypeOK, PC, Working
        <5>2. last \in Nat /\ FirstBatch(rows) \in SUBSET Vacancy
          BY <4>1, <4>2
        <5> QED
          BY <5>1, <5>2, ProcessFieldType
      <4>4. worker' \in [Worker -> Process]
        BY <3>2, <4>3, WorkerUpdate DEF TypeOK
      <4> QED
        BY <2>4, <4>4 DEF TypeOK, SnapshotCandidates
    <3> QED
      BY <2>4, <3>1, <3>2 DEF SnapshotCandidates
  <2>5. ASSUME NEW p \in Vacancy, ProcessCandidate(w, p) PROVE TypeOK'
    <3>0. [worker[w] EXCEPT !.todo = worker[w].todo \ {p}, !.processed = worker[w].processed + 1]
             \in Process
      <4>1. worker[w] \in Process
        BY DEF TypeOK
      <4>2. worker[w].todo \ {p} \in SUBSET Vacancy /\ worker[w].processed + 1 \in Nat
        BY <4>1 DEF Process
      <4> QED
        BY <4>1, <4>2, ProcessFieldType DEF PC
    <3>1. worker' \in [Worker -> Process]
      BY <2>5, <3>0, WorkerUpdate DEF TypeOK, ProcessCandidate
    <3> QED
      BY <2>5, <3>1 DEF TypeOK, ProcessCandidate
  <2>6. CASE UpdateAssistantRunProgress(w)
    <3>1. runs' \in [RunId -> Run]
      BY <2>6, ProgressRowType, RowUpdate DEF TypeOK, UpdateAssistantRunProgress
    <3>2. worker' \in [Worker -> Process]
      <4>1. AfterPage(w) \in PC
        BY DEF AfterPage, PC, Working
      <4>2. CASE runs[worker[w].run].state = "running"
        <5>1. [worker[w] EXCEPT !.pc = AfterPage(w), !.pages = worker[w].pages + 1,
                                !.cursor = worker[w].last] \in Process
          <6>1. worker[w] \in Process
            BY DEF TypeOK
          <6>2. worker[w].pages + 1 \in Nat /\ worker[w].last \in Nat
            BY <6>1 DEF Process
          <6> QED
            BY <4>1, <6>1, <6>2, ProcessFieldType
        <5> QED
          BY <2>6, <4>2, <5>1, WorkerUpdate DEF TypeOK, UpdateAssistantRunProgress
      <4>3. CASE runs[worker[w].run].state # "running"
        BY <2>6, <4>3, FinishingType, WorkerUpdate DEF TypeOK, UpdateAssistantRunProgress, Process
      <4> QED
        BY <4>2, <4>3
    <3> QED
      BY <2>6, <3>1, <3>2 DEF TypeOK, UpdateAssistantRunProgress
  <2>7. CASE PauseAtPageLimit(w)
    <3>1. runs' \in [RunId -> Run]
      <4> DEFINE r == worker[w].run
      <4>1. r \in RunId => [runs[r] EXCEPT !.state = "paused", !.lease = "none"] \in Run
        BY RowStateType DEF TypeOK, RunState, Active
      <4> QED
        BY <2>7, <4>1, RowUpdate DEF TypeOK, PauseAtPageLimit
    <3>2. worker' \in [Worker -> Process]
      <4>1. worker[w].processed \in Nat
        BY DEF TypeOK, Process
      <4> QED
        BY <2>7, <4>1, FinishingType, UnlockingType, WorkerUpdate DEF TypeOK, PauseAtPageLimit
    <3> QED
      BY <2>7, <3>1, <3>2 DEF TypeOK, PauseAtPageLimit
  <2>8. CASE CompleteAssistantRun(w)
    <3>0. worker[w].outcome \in RunState /\ worker[w].processed \in Nat
      BY DEF TypeOK, Process, RunState
    <3>1. ASSUME NEW row \in Run PROVE CompletedRow(row, w) \in Run
      BY <3>0 DEF CompletedRow, Run
    <3>2. runs' \in [RunId -> Run]
      BY <2>8, <3>1 DEF TypeOK, CompleteAssistantRun
    <3>3. worker' \in [Worker -> Process]
      BY <2>8, UnlockingType, WorkerUpdate DEF TypeOK, CompleteAssistantRun
    <3> QED
      BY <2>8, <3>2, <3>3 DEF TypeOK, CompleteAssistantRun
  <2>9. CASE Unlock(w)
    BY <2>9, IdleType, WorkerUpdate DEF TypeOK, Unlock
  <2> QED
    BY <1>13, <2>1, <2>2, <2>3, <2>4, <2>5, <2>6, <2>7, <2>8, <2>9 DEF RunOnceStep
<1>14. ASSUME NEW w \in Worker, HeartbeatAssistantRun(w) PROVE TypeOK'
  <2>1. runs' \in [RunId -> Run]
    <3> DEFINE r == worker[w].run
    <3>1. r \in RunId => [runs[r] EXCEPT !.lease = "held"] \in Run
      BY RowStateType DEF TypeOK, RunState
    <3> QED
      BY <1>14, <3>1, RowUpdate DEF TypeOK, HeartbeatAssistantRun
  <2>2. worker' \in [Worker -> Process]
    <3>1. [worker[w] EXCEPT !.ctx = "cancelled"] \in Process
      BY DEF TypeOK, Process
    <3> QED
      BY <1>14, <3>1, WorkerUpdate DEF TypeOK, HeartbeatAssistantRun
  <2> QED
    BY <1>14, <2>1, <2>2 DEF TypeOK, HeartbeatAssistantRun
<1>15. ASSUME NEW w \in Worker, FaultStep(w) PROVE TypeOK'
  <2>1. ASSUME NEW n \in FailedCounts(w), Fail(w, n) PROVE TypeOK'
    <3>1. n \in Nat
      BY DEF FailedCounts, TypeOK, Process
    <3>2. worker' \in [Worker -> Process]
      BY <2>1, <3>1, FinishingType, WorkerUpdate DEF TypeOK, Fail
    <3> QED
      BY <2>1, <3>2, BoundsAssumption DEF TypeOK, Fail
  <2>2. CASE LoseProgressAnswer(w)
    <3>1. runs' \in [RunId -> Run]
      BY <2>2, ProgressRowType, RowUpdate DEF TypeOK, LoseProgressAnswer
    <3>2. worker' \in [Worker -> Process]
      BY <2>2, FinishingType, WorkerUpdate DEF TypeOK, LoseProgressAnswer, Process
    <3> QED
      BY <2>2, <3>1, <3>2, BoundsAssumption DEF TypeOK, LoseProgressAnswer
  <2>3. CASE SkipStatement(w)
    BY <2>3, UnlockingType, WorkerUpdate, BoundsAssumption DEF TypeOK, SkipStatement
  <2>4. CASE Crash(w)
    BY <2>4, IdleType, WorkerUpdate, BoundsAssumption DEF TypeOK, Crash
  <2>5. CASE LoseLock(w)
    BY <2>5, BoundsAssumption DEF TypeOK, LoseLock
  <2> QED
    BY <1>15, <2>1, <2>2, <2>3, <2>4, <2>5 DEF FaultStep
<1>16. ASSUME NEW r \in RunId, ExpireLease(r) PROVE TypeOK'
  <2>1. runs' \in [RunId -> Run]
    BY <1>16 DEF TypeOK, ExpireLease, Run
  <2> QED
    BY <1>16, <2>1 DEF TypeOK, ExpireLease
<1>17. CASE UNCHANGED vars
  BY <1>17 DEF TypeOK, vars
<1> QED
  BY <1>1, <1>2, <1>3, <1>4, <1>5, <1>6, <1>7, <1>8, <1>9, <1>10, <1>11, <1>12, <1>13,
     <1>14, <1>15, <1>16, <1>17
  DEF Next, UserStep, OperatorStep, IngestStep

\* The rows, the vacancy table, the lock and every worker's local state keep
\* their types through all of the statements, failures and crashes.
THEOREM TypeCorrect == Spec => []TypeOK
  BY TypeInit, TypeNext, PTL DEF Spec

-----------------------------------------------------------------------------
(* No vacancy is lost *)

\* What the table says of run r.
RowCovered(r) ==
    /\ \A p \in steady[r] : /\ p \in active
                            /\ p <= runs[r].cutoff
                            /\ p <= runs[r].cursor => p \in scanned[r]
    /\ FinishedScan(runs[r]) => steady[r] \subseteq scanned[r]

\* What worker w knows of the run it works on: everything up to its own cursor
\* is saved, everything up to the end of its page is saved or still to do, and
\* it reports success only when everything is saved.
WorkerCovered(w) ==
    LET x == worker[w]
    IN  /\ x.pc \in Working \cup {"finishing"} =>
              x.run \in RunId /\ runs[x.run].state # "absent"
        /\ x.pc \in Working =>
              \A p \in steady[x.run] : p <= x.cursor => p \in scanned[x.run]
        /\ x.pc = "processing" =>
              \A p \in steady[x.run] : p <= x.last => p \in scanned[x.run] \cup x.todo
        /\ x.pc = "finishing" /\ x.outcome = "succeeded" =>
              steady[x.run] \subseteq scanned[x.run]

CoverageInv ==
    /\ TypeOK
    /\ \A r \in RunId : RowCovered(r)
    /\ \A w \in Worker : WorkerCovered(w)

LEMMA CoverageInit == Init => CoverageInv
<1> SUFFICES ASSUME Init PROVE CoverageInv
  OBVIOUS
<1>1. \A r \in RunId : RowCovered(r)
  BY DEF Init, RowCovered, FinishedScan, Absent
<1>2. \A w \in Worker : WorkerCovered(w)
  BY DEF Init, WorkerCovered, Idle, Working
<1> QED
  BY <1>1, <1>2, TypeInit DEF CoverageInv

\* A step keeps the invariant if the rows stay covered, an allocated run keeps
\* its results and gains no vacancy to cover, and the workers that moved are
\* covered.
LEMMA CoverageStep ==
    ASSUME CoverageInv, TypeOK',
           \A r \in RunId : RowCovered(r)',
           \A r \in RunId : runs[r].state # "absent" =>
               /\ runs'[r].state # "absent"
               /\ steady'[r] \subseteq steady[r]
               /\ scanned[r] \subseteq scanned'[r],
           \A w \in Worker : worker'[w] = worker[w] \/ WorkerCovered(w)'
    PROVE  CoverageInv'
<1>1. ASSUME NEW w \in Worker, worker'[w] = worker[w] PROVE WorkerCovered(w)'
  <2> DEFINE x == worker[w]
  <2>1. WorkerCovered(w)
    BY DEF CoverageInv
  <2>2. CASE x.pc \in Working \cup {"finishing"}
    <3>1. /\ x.run \in RunId /\ runs[x.run].state # "absent"
          /\ runs'[x.run].state # "absent"
          /\ steady'[x.run] \subseteq steady[x.run]
          /\ scanned[x.run] \subseteq scanned'[x.run]
      BY <2>1, <2>2 DEF WorkerCovered
    <3> QED
      BY <1>1, <2>1, <3>1 DEF WorkerCovered
  <2>3. CASE x.pc \notin Working \cup {"finishing"}
    BY <1>1, <2>3 DEF WorkerCovered, Working
  <2> QED
    BY <2>2, <2>3
<1> QED
  BY <1>1 DEF CoverageInv

\* The special case of a step that changes neither the vacancies nor the
\* results, leaves cutoff and cursor of every row alone and finishes no scan.
LEMMA CoverageFrame ==
    ASSUME CoverageInv, TypeOK', UNCHANGED <<scanned, steady>>, active \subseteq active',
           \A r \in RunId : /\ runs'[r].cutoff = runs[r].cutoff
                            /\ runs'[r].cursor = runs[r].cursor
                            /\ FinishedScan(runs'[r]) => FinishedScan(runs[r])
                            /\ runs[r].state # "absent" => runs'[r].state # "absent",
           \A w \in Worker : worker'[w] = worker[w] \/ WorkerCovered(w)'
    PROVE  CoverageInv'
<1>1. \A r \in RunId : RowCovered(r)'
  <2> SUFFICES ASSUME NEW r \in RunId PROVE RowCovered(r)'
    OBVIOUS
  <2>1. RowCovered(r)
    BY DEF CoverageInv
  <2> QED
    BY <2>1 DEF RowCovered, FinishedScan
<1> QED
  BY <1>1, CoverageStep

LEMMA CoverageNext == CoverageInv /\ [Next]_vars => CoverageInv'
<1> SUFFICES ASSUME CoverageInv, [Next]_vars PROVE CoverageInv'
  OBVIOUS
<1> USE DEF dbVars, vacVars, hist
<1>t. TypeOK /\ TypeOK'
  BY TypeNext DEF CoverageInv
<1>1. ASSUME NEW u \in User, SavePreferences(u) PROVE CoverageInv'
  BY <1>1, <1>t, CoverageFrame DEF SavePreferences
<1>2. ASSUME NEW u \in User, NEW v \in 1..MaxVersions, ArchivePreference(u, v)
      PROVE  CoverageInv'
  BY <1>2, <1>t, CoverageFrame DEF ArchivePreference
<1>3. ASSUME NEW u \in User, NEW r \in RunId, NEW v \in 1..MaxVersions, QueueAnalysis(u, r, v)
      PROVE  CoverageInv'
  <2>1. /\ runs'[r].state = "queued" /\ runs'[r].cutoff = born /\ runs'[r].cursor = 0
        /\ steady'[r] = active
        /\ active' = active /\ scanned' = scanned /\ worker' = worker
    BY <1>3, <1>t DEF QueueAnalysis, TypeOK
  <2>2. \A q \in RunId \ {r} : runs'[q] = runs[q] /\ steady'[q] = steady[q]
    BY <1>3, <1>t DEF QueueAnalysis, TypeOK
  <2>3. RowCovered(r)'
    <3>1. \A p \in active : p \in Nat /\ p <= born /\ ~(p <= 0)
      BY <1>t DEF TypeOK
    <3> QED
      BY <2>1, <3>1 DEF RowCovered, FinishedScan
  <2>4. \A q \in RunId : RowCovered(q)'
    BY <2>1, <2>2, <2>3 DEF CoverageInv, RowCovered, FinishedScan
  <2> QED
    BY <1>3, <1>t, <2>1, <2>2, <2>4, CoverageStep DEF QueueAnalysis
<1>4. ASSUME NEW r \in RunId, NEW v \in 1..MaxVersions, SupersedeAssistantRun(r, v)
      PROVE  CoverageInv'
  <2>1. \A q \in RunId : /\ runs'[q].cutoff = runs[q].cutoff
                         /\ runs'[q].cursor = runs[q].cursor
                         /\ FinishedScan(runs'[q]) => FinishedScan(runs[q])
                         /\ runs[q].state # "absent" => runs'[q].state # "absent"
    BY <1>4, <1>t DEF SupersedeAssistantRun, TypeOK, Run, FinishedScan
  <2> QED
    BY <1>4, <1>t, <2>1, CoverageFrame DEF SupersedeAssistantRun
<1>5. CASE DeployRuleset
  BY <1>5, <1>t, CoverageFrame DEF DeployRuleset
<1>6. ASSUME NEW r \in RunId, PauseAssistantRun(r) PROVE CoverageInv'
  <2>1. \A q \in RunId : /\ runs'[q].cutoff = runs[q].cutoff
                         /\ runs'[q].cursor = runs[q].cursor
                         /\ FinishedScan(runs'[q]) => FinishedScan(runs[q])
                         /\ runs[q].state # "absent" => runs'[q].state # "absent"
    BY <1>6, <1>t DEF PauseAssistantRun, TypeOK, Run, FinishedScan
  <2> QED
    BY <1>6, <1>t, <2>1, CoverageFrame DEF PauseAssistantRun
<1>7. ASSUME NEW r \in RunId, ResumeAssistantRun(r) PROVE CoverageInv'
  <2>1. \A q \in RunId : /\ runs'[q].cutoff = runs[q].cutoff
                         /\ runs'[q].cursor = runs[q].cursor
                         /\ FinishedScan(runs'[q]) => FinishedScan(runs[q])
                         /\ runs[q].state # "absent" => runs'[q].state # "absent"
    BY <1>7, <1>t DEF ResumeAssistantRun, TypeOK, Run, FinishedScan
  <2> QED
    BY <1>7, <1>t, <2>1, CoverageFrame DEF ResumeAssistantRun
<1>8. ASSUME NEW r \in RunId, RecoverAssistantRun(r) PROVE CoverageInv'
  <2>1. \A q \in RunId : /\ runs'[q].cutoff = runs[q].cutoff
                         /\ runs'[q].cursor = runs[q].cursor
                         /\ FinishedScan(runs'[q]) => FinishedScan(runs[q])
                         /\ runs[q].state # "absent" => runs'[q].state # "absent"
    <3> SUFFICES ASSUME NEW q \in RunId
                 PROVE  /\ runs'[q].cutoff = runs[q].cutoff
                        /\ runs'[q].cursor = runs[q].cursor
                        /\ FinishedScan(runs'[q]) => FinishedScan(runs[q])
                        /\ runs[q].state # "absent" => runs'[q].state # "absent"
      OBVIOUS
    <3>1. runs[q] \in Run
      BY <1>t DEF TypeOK
    <3>2. \/ runs'[q] = [runs[q] EXCEPT !.state = "queued", !.lease = "none", !.from = "absent"]
          \/ runs'[q] = [runs[q] EXCEPT !.state = "disabled", !.lease = "none"]
          \/ runs'[q] = runs[q]
      BY <1>8 DEF RecoverAssistantRun
    <3> QED
      BY <3>1, <3>2 DEF Run, FinishedScan
  <2> QED
    BY <1>8, <1>t, <2>1, CoverageFrame DEF RecoverAssistantRun
<1>9. CASE CreateVacancy
  BY <1>9, <1>t, CoverageFrame DEF CreateVacancy
<1>10. ASSUME NEW p \in Vacancy, Deactivate(p) PROVE CoverageInv'
  <2>1. \A r \in RunId : steady'[r] = steady[r] \ {p}
    BY <1>10 DEF Deactivate
  <2>2. active' = active \ {p} /\ runs' = runs /\ scanned' = scanned /\ worker' = worker
    BY <1>10 DEF Deactivate
  <2>3. \A r \in RunId : RowCovered(r)'
    BY <2>1, <2>2 DEF CoverageInv, RowCovered, FinishedScan
  <2> QED
    BY <1>t, <2>1, <2>2, <2>3, CoverageStep
<1>11. ASSUME NEW p \in Vacancy, Reactivate(p) PROVE CoverageInv'
  BY <1>11, <1>t, CoverageFrame DEF Reactivate
<1>12. ASSUME NEW w \in Worker, TryLock(w) PROVE CoverageInv'
  <2>1. WorkerCovered(w)'
    BY <1>12, <1>t DEF TryLock, WorkerCovered, Working, TypeOK, Process
  <2>2. \A x \in Worker \ {w} : worker'[x] = worker[x]
    BY <1>12, <1>t DEF TryLock, TypeOK
  <2> QED
    BY <1>12, <1>t, <2>1, <2>2, CoverageFrame DEF TryLock
<1>13. ASSUME NEW w \in Worker, RunOnceStep(w) PROVE CoverageInv'
  <2>1. ASSUME NEW r \in RunId, ClaimAssistantRun(w, r) PROVE CoverageInv'
    <3>1. \A q \in RunId : /\ runs'[q].cutoff = runs[q].cutoff
                           /\ runs'[q].cursor = runs[q].cursor
                           /\ FinishedScan(runs'[q]) => FinishedScan(runs[q])
                           /\ runs[q].state # "absent" => runs'[q].state # "absent"
      BY <2>1, <1>t DEF ClaimAssistantRun, TypeOK, Run, FinishedScan
    <3>2. /\ worker'[w].pc = "loading" /\ worker'[w].run = r
          /\ worker'[w].cursor = runs[r].cursor
          /\ runs'[r].state = "running"
          /\ \A x \in Worker \ {w} : worker'[x] = worker[x]
      BY <2>1, <1>t DEF ClaimAssistantRun, TypeOK, Run, Idle
    <3>3. WorkerCovered(w)'
      <4>1. \A p \in steady[r] : p <= runs[r].cursor => p \in scanned[r]
        BY DEF CoverageInv, RowCovered
      <4>2. steady' = steady /\ scanned' = scanned
        BY <2>1 DEF ClaimAssistantRun
      <4> QED
        BY <3>2, <4>1, <4>2 DEF WorkerCovered, Working
    <3> QED
      BY <2>1, <1>t, <3>1, <3>2, <3>3, CoverageFrame DEF ClaimAssistantRun
  <2>2. CASE ClaimNothing(w)
    <3>1. worker'[w].pc = "unlocking" /\ \A x \in Worker \ {w} : worker'[x] = worker[x]
      BY <2>2, <1>t DEF ClaimNothing, TypeOK, Unlocking, Idle
    <3>2. WorkerCovered(w)'
      BY <3>1 DEF WorkerCovered, Working
    <3> QED
      BY <2>2, <1>t, <3>1, <3>2, CoverageFrame DEF ClaimNothing
  <2>3. CASE LoadUsers(w)
    <3>1. /\ worker'[w].pc = "scanning"
          /\ worker'[w].run = worker[w].run /\ worker'[w].cursor = worker[w].cursor
          /\ \A x \in Worker \ {w} : worker'[x] = worker[x]
      BY <2>3, <1>t DEF LoadUsers, TypeOK, Process
    <3>2. WorkerCovered(w)'
      BY <2>3, <3>1 DEF LoadUsers, CoverageInv, WorkerCovered, Working
    <3> QED
      BY <2>3, <1>t, <3>1, <3>2, CoverageFrame DEF LoadUsers
  <2>4. CASE SnapshotCandidates(w)
    <3> DEFINE r == worker[w].run
               rows == SnapshotRows(runs[r].cutoff, worker[w].cursor)
    <3>1. /\ r \in RunId /\ runs[r].state # "absent"
          /\ \A p \in steady[r] : p <= worker[w].cursor => p \in scanned[r]
      BY <2>4 DEF SnapshotCandidates, CoverageInv, WorkerCovered, Working
    <3>2. \A p \in steady[r] : p \in active /\ p <= runs[r].cutoff
      BY <3>1 DEF CoverageInv, RowCovered
    <3>3. steady[r] \subseteq Nat /\ worker[w].cursor \in Nat /\ active \in SUBSET Nat
      BY <3>1, <1>t, BoundsAssumption DEF TypeOK, Vacancy, Process
    <3>4. \A p \in steady[r] : p \in scanned[r] \/ p \in rows
      BY <3>1, <3>2, <3>3 DEF SnapshotRows
    <3>5. UNCHANGED <<runs, active, scanned, steady>>
      BY <2>4 DEF SnapshotCandidates
    <3>6. CASE /\ rows = {}
               /\ worker' = [worker EXCEPT ![w] = Finishing(w, worker[w].processed, "succeeded")]
      <4>1. /\ worker'[w].pc = "finishing" /\ worker'[w].run = r
            /\ \A x \in Worker \ {w} : worker'[x] = worker[x]
        BY <3>6, <1>t DEF TypeOK, Finishing, Idle
      <4>2. WorkerCovered(w)'
        BY <3>1, <3>4, <3>5, <3>6, <4>1 DEF WorkerCovered, Working
      <4> QED
        BY <1>t, <3>5, <4>1, <4>2, CoverageFrame
    <3>7. ASSUME NEW last \in FirstBatch(rows),
                 worker' = [worker EXCEPT ![w] =
                     [@ EXCEPT !.pc = "processing", !.last = last, !.todo = FirstBatch(rows)]]
          PROVE  CoverageInv'
      <4>1. /\ worker'[w].pc = "processing" /\ worker'[w].run = r
            /\ worker'[w].cursor = worker[w].cursor /\ worker'[w].last = last
            /\ worker'[w].todo = FirstBatch(rows)
            /\ \A x \in Worker \ {w} : worker'[x] = worker[x]
        BY <3>7, <1>t DEF TypeOK, Process
      <4>2. IsFiniteSet(rows) /\ rows \in SUBSET Nat
        BY <1>t, <3>3, ActiveFinite, FS_Subset DEF SnapshotRows
      <4>3. \A p \in steady[r] : p <= last => p \in scanned[r] \cup FirstBatch(rows)
        BY <3>4, <4>2, FirstBatchDownClosed
      <4>4. WorkerCovered(w)'
        BY <3>1, <3>5, <4>1, <4>3 DEF WorkerCovered, Working
      <4> QED
        BY <1>t, <3>5, <4>1, <4>4, CoverageFrame
    <3> QED
      BY <2>4, <3>6, <3>7 DEF SnapshotCandidates
  <2>5. ASSUME NEW p \in Vacancy, ProcessCandidate(w, p) PROVE CoverageInv'
    <3> DEFINE r == worker[w].run
    <3>1. WorkerCovered(w) /\ r \in RunId
      BY <2>5 DEF ProcessCandidate, CoverageInv, WorkerCovered, Working
    <3>2. /\ worker'[w].pc = "processing" /\ worker'[w].run = r
          /\ worker'[w].cursor = worker[w].cursor /\ worker'[w].last = worker[w].last
          /\ worker'[w].todo = worker[w].todo \ {p}
          /\ \A x \in Worker \ {w} : worker'[x] = worker[x]
      BY <2>5, <1>t DEF ProcessCandidate, TypeOK, Process
    <3>3. /\ scanned'[r] = scanned[r] \cup {p}
          /\ \A q \in RunId : scanned[q] \subseteq scanned'[q]
          /\ steady' = steady /\ runs' = runs /\ active' = active
      BY <2>5, <3>1, <1>t DEF ProcessCandidate, TypeOK
    <3>4. WorkerCovered(w)'
      BY <2>5, <3>1, <3>2, <3>3 DEF ProcessCandidate, WorkerCovered, Working
    <3>5. \A q \in RunId : RowCovered(q)'
      BY <3>3 DEF CoverageInv, RowCovered, FinishedScan
    <3> QED
      BY <1>t, <3>2, <3>3, <3>4, <3>5, CoverageStep
  <2>6. CASE UpdateAssistantRunProgress(w)
    <3> DEFINE r == worker[w].run
    <3>1. WorkerCovered(w) /\ r \in RunId
      BY <2>6 DEF UpdateAssistantRunProgress, CoverageInv, WorkerCovered, Working
    <3>2. \A p \in steady[r] : p <= worker[w].last => p \in scanned[r]
      BY <2>6, <3>1 DEF UpdateAssistantRunProgress, WorkerCovered
    <3>3. UNCHANGED <<active, scanned, steady>>
      BY <2>6 DEF UpdateAssistantRunProgress
    <3>4. CASE runs[r].state = "running"
      <4>0. /\ runs' = [runs EXCEPT ![r] = ProgressRow(runs[r], w)]
            /\ worker' = [worker EXCEPT ![w] =
                  [@ EXCEPT !.pc = AfterPage(w), !.pages = worker[w].pages + 1,
                            !.cursor = worker[w].last]]
        BY <2>6, <3>4 DEF UpdateAssistantRunProgress
      <4>1. /\ runs'[r].state = "running" /\ runs'[r].cutoff = runs[r].cutoff
            /\ runs'[r].cursor = worker[w].last
            /\ \A q \in RunId \ {r} : runs'[q] = runs[q]
        BY <3>1, <3>4, <4>0, <1>t DEF ProgressRow, TypeOK, Run
      <4>2. /\ worker'[w].pc \in {"scanning", "pausing"} /\ worker'[w].run = r
            /\ worker'[w].cursor = worker[w].last
            /\ \A x \in Worker \ {w} : worker'[x] = worker[x]
        BY <4>0, <1>t DEF AfterPage, TypeOK, Process
      <4>3. WorkerCovered(w)'
        BY <3>1, <3>2, <3>3, <4>1, <4>2 DEF WorkerCovered, Working
      <4>4. \A q \in RunId : RowCovered(q)'
        BY <3>2, <3>3, <4>1 DEF CoverageInv, RowCovered, FinishedScan
      <4> QED
        BY <1>t, <3>3, <3>4, <4>1, <4>2, <4>3, <4>4, CoverageStep
    <3>5. CASE runs[r].state # "running"
      <4>0. /\ runs' = runs
            /\ worker' = [worker EXCEPT ![w] = Finishing(w, worker[w].processed, "failed")]
        BY <2>6, <3>5 DEF UpdateAssistantRunProgress
      <4>1. /\ worker'[w].pc = "finishing" /\ worker'[w].run = r
            /\ worker'[w].outcome = "failed" /\ runs' = runs
            /\ \A x \in Worker \ {w} : worker'[x] = worker[x]
        BY <4>0, <1>t DEF Finishing, Idle, TypeOK
      <4>2. WorkerCovered(w)'
        BY <2>6, <3>1, <4>1 DEF UpdateAssistantRunProgress, WorkerCovered, Working
      <4> QED
        BY <1>t, <3>3, <4>1, <4>2, CoverageFrame
    <3> QED
      BY <3>4, <3>5
  <2>7. CASE PauseAtPageLimit(w)
    <3> DEFINE r == worker[w].run
    <3>1. WorkerCovered(w) /\ r \in RunId /\ runs[r].state # "absent"
      BY <2>7 DEF PauseAtPageLimit, CoverageInv, WorkerCovered, Working
    <3>2. UNCHANGED <<active, scanned, steady>>
      BY <2>7 DEF PauseAtPageLimit
    <3>3. \A q \in RunId : /\ runs'[q].cutoff = runs[q].cutoff
                           /\ runs'[q].cursor = runs[q].cursor
                           /\ FinishedScan(runs'[q]) => FinishedScan(runs[q])
                           /\ runs[q].state # "absent" => runs'[q].state # "absent"
      <4>1. \/ runs' = [runs EXCEPT ![r] = [@ EXCEPT !.state = "paused", !.lease = "none"]]
            \/ runs' = runs
        BY <2>7 DEF PauseAtPageLimit
      <4> SUFFICES ASSUME NEW q \in RunId
                   PROVE  /\ runs'[q].cutoff = runs[q].cutoff
                          /\ runs'[q].cursor = runs[q].cursor
                          /\ FinishedScan(runs'[q]) => FinishedScan(runs[q])
                          /\ runs[q].state # "absent" => runs'[q].state # "absent"
        OBVIOUS
      <4>2. runs[q] \in Run /\ runs \in [RunId -> Run]
        BY <1>t DEF TypeOK
      <4>3. \/ runs'[q] = [runs[q] EXCEPT !.state = "paused", !.lease = "none"]
            \/ runs'[q] = runs[q]
        BY <4>1, <4>2
      <4> QED
        BY <4>2, <4>3 DEF Run, FinishedScan
    <3>4. /\ \/ worker'[w].pc = "unlocking"
             \/ worker'[w].pc = "finishing" /\ worker'[w].run = r /\ worker'[w].outcome = "failed"
          /\ \A x \in Worker \ {w} : worker'[x] = worker[x]
      <4>1. \/ worker' = [worker EXCEPT ![w] = Unlocking]
            \/ worker' = [worker EXCEPT ![w] = Finishing(w, worker[w].processed, "failed")]
        BY <2>7 DEF PauseAtPageLimit
      <4>2. CASE worker' = [worker EXCEPT ![w] = Unlocking]
        BY <4>2, <1>t DEF Unlocking, Idle, TypeOK
      <4>3. CASE worker' = [worker EXCEPT ![w] = Finishing(w, worker[w].processed, "failed")]
        BY <4>3, <1>t DEF Finishing, Idle, TypeOK
      <4> QED
        BY <4>1, <4>2, <4>3
    <3>5. WorkerCovered(w)'
      BY <3>1, <3>3, <3>4 DEF WorkerCovered, Working
    <3> QED
      BY <1>t, <3>2, <3>3, <3>4, <3>5, CoverageFrame
  <2>8. CASE CompleteAssistantRun(w)
    <3>0. PICK r \in RunId : r = worker[w].run
      BY <2>8 DEF CompleteAssistantRun, CoverageInv, WorkerCovered
    <3>1. worker[w].outcome = "succeeded" => steady[r] \subseteq scanned[r]
      BY <2>8, <3>0 DEF CompleteAssistantRun, CoverageInv, WorkerCovered
    <3>2. UNCHANGED <<active, scanned, steady>>
      BY <2>8 DEF CompleteAssistantRun
    <3>3. /\ runs'[r].cutoff = runs[r].cutoff /\ runs'[r].cursor = runs[r].cursor
          /\ runs'[r] # runs[r] => runs'[r].state = worker[w].outcome
          /\ \A q \in RunId \ {r} : runs'[q] = runs[q]
      BY <2>8, <3>0, <1>t DEF CompleteAssistantRun, CompletedRow, TypeOK, Run
    <3>4. worker[w].outcome \in {"succeeded", "failed"}
      BY <1>t DEF TypeOK, Process
    <3>5. RowCovered(r)'
      <4>1. RowCovered(r)
        BY <3>1 DEF CoverageInv
      <4>2. CASE runs'[r] = runs[r]
        BY <3>2, <4>1, <4>2 DEF RowCovered, FinishedScan
      <4>3. CASE runs'[r].state = worker[w].outcome
        BY <3>1, <3>2, <3>3, <3>4, <4>1, <4>3 DEF RowCovered, FinishedScan
      <4> QED
        BY <3>3, <4>2, <4>3
    <3>6. \A q \in RunId : RowCovered(q)'
      <4> SUFFICES ASSUME NEW q \in RunId \ {r} PROVE RowCovered(q)'
        BY <3>5
      <4>1. RowCovered(q) /\ runs'[q] = runs[q]
        BY <3>3 DEF CoverageInv
      <4> QED
        BY <3>2, <4>1 DEF RowCovered, FinishedScan
    <3>7. worker'[w].pc = "unlocking" /\ \A x \in Worker \ {w} : worker'[x] = worker[x]
      BY <2>8, <1>t DEF CompleteAssistantRun, Unlocking, Idle, TypeOK
    <3>8. WorkerCovered(w)'
      BY <3>7 DEF WorkerCovered, Working
    <3> QED
      BY <1>t, <3>2, <3>3, <3>4, <3>6, <3>7, <3>8, CoverageStep
  <2>9. CASE Unlock(w)
    <3>1. worker'[w].pc = "idle" /\ \A x \in Worker \ {w} : worker'[x] = worker[x]
      BY <2>9, <1>t DEF Unlock, Idle, TypeOK
    <3>2. WorkerCovered(w)'
      BY <3>1 DEF WorkerCovered, Working
    <3> QED
      BY <2>9, <1>t, <3>1, <3>2, CoverageFrame DEF Unlock
  <2> QED
    BY <1>13, <2>1, <2>2, <2>3, <2>4, <2>5, <2>6, <2>7, <2>8, <2>9 DEF RunOnceStep
<1>14. ASSUME NEW w \in Worker, HeartbeatAssistantRun(w) PROVE CoverageInv'
  <2> DEFINE r == worker[w].run
  <2>1. WorkerCovered(w) /\ r \in RunId
    BY <1>14 DEF HeartbeatAssistantRun, CoverageInv, WorkerCovered, Working
  <2>2. \A q \in RunId : /\ runs'[q].cutoff = runs[q].cutoff
                         /\ runs'[q].cursor = runs[q].cursor
                         /\ runs'[q].state = runs[q].state
                         /\ FinishedScan(runs'[q]) => FinishedScan(runs[q])
    BY <1>14, <2>1, <1>t DEF HeartbeatAssistantRun, TypeOK, Run, FinishedScan
  <2>3. /\ worker'[w].pc = worker[w].pc /\ worker'[w].run = worker[w].run
        /\ worker'[w].cursor = worker[w].cursor /\ worker'[w].last = worker[w].last
        /\ worker'[w].todo = worker[w].todo /\ worker'[w].outcome = worker[w].outcome
        /\ \A x \in Worker \ {w} : worker'[x] = worker[x]
    BY <1>14, <1>t DEF HeartbeatAssistantRun, TypeOK, Process
  <2>4. UNCHANGED <<active, scanned, steady>>
    BY <1>14 DEF HeartbeatAssistantRun
  <2>5. WorkerCovered(w)'
    BY <2>1, <2>2, <2>3, <2>4 DEF WorkerCovered, Working
  <2> QED
    BY <1>t, <2>2, <2>3, <2>4, <2>5, CoverageFrame
<1>15. ASSUME NEW w \in Worker, FaultStep(w) PROVE CoverageInv'
  <2>1. ASSUME NEW n \in FailedCounts(w), Fail(w, n) PROVE CoverageInv'
    <3>1. /\ worker'[w].pc = "finishing" /\ worker'[w].run = worker[w].run
          /\ worker'[w].outcome = "failed"
          /\ \A x \in Worker \ {w} : worker'[x] = worker[x]
      BY <2>1, <1>t DEF Fail, Finishing, Idle, TypeOK
    <3>2. WorkerCovered(w)'
      BY <2>1, <3>1 DEF Fail, CoverageInv, WorkerCovered, Working
    <3> QED
      BY <2>1, <1>t, <3>1, <3>2, CoverageFrame DEF Fail
  <2>2. CASE LoseProgressAnswer(w)
    <3> DEFINE r == worker[w].run
    <3>1. WorkerCovered(w) /\ r \in RunId
      BY <2>2 DEF LoseProgressAnswer, CoverageInv, WorkerCovered, Working
    <3>2. \A p \in steady[r] : p <= worker[w].last => p \in scanned[r]
      BY <2>2, <3>1 DEF LoseProgressAnswer, WorkerCovered
    <3>3. UNCHANGED <<active, scanned, steady>>
      BY <2>2 DEF LoseProgressAnswer
    <3>4. /\ runs'[r].state = "running" /\ runs'[r].cutoff = runs[r].cutoff
          /\ runs'[r].cursor = worker[w].last
          /\ \A q \in RunId \ {r} : runs'[q] = runs[q]
      BY <2>2, <3>1, <1>t DEF LoseProgressAnswer, ProgressRow, TypeOK, Run
    <3>5. \A q \in RunId : RowCovered(q)'
      BY <3>2, <3>3, <3>4 DEF CoverageInv, RowCovered, FinishedScan
    <3>6. /\ worker'[w].pc = "finishing" /\ worker'[w].run = r
          /\ worker'[w].outcome = "failed"
          /\ \A x \in Worker \ {w} : worker'[x] = worker[x]
      BY <2>2, <1>t DEF LoseProgressAnswer, Finishing, Idle, TypeOK
    <3>7. WorkerCovered(w)'
      BY <3>1, <3>4, <3>6 DEF WorkerCovered, Working
    <3> QED
      BY <1>t, <3>3, <3>4, <3>5, <3>6, <3>7, CoverageStep
  <2>3. CASE SkipStatement(w)
    <3>1. worker'[w].pc = "unlocking" /\ \A x \in Worker \ {w} : worker'[x] = worker[x]
      BY <2>3, <1>t DEF SkipStatement, Unlocking, Idle, TypeOK
    <3>2. WorkerCovered(w)'
      BY <3>1 DEF WorkerCovered, Working
    <3> QED
      BY <2>3, <1>t, <3>1, <3>2, CoverageFrame DEF SkipStatement
  <2>4. CASE Crash(w)
    <3>1. worker'[w].pc = "idle" /\ \A x \in Worker \ {w} : worker'[x] = worker[x]
      BY <2>4, <1>t DEF Crash, Idle, TypeOK
    <3>2. WorkerCovered(w)'
      BY <3>1 DEF WorkerCovered, Working
    <3> QED
      BY <2>4, <1>t, <3>1, <3>2, CoverageFrame DEF Crash
  <2>5. CASE LoseLock(w)
    BY <2>5, <1>t, CoverageFrame DEF LoseLock
  <2> QED
    BY <1>15, <2>1, <2>2, <2>3, <2>4, <2>5 DEF FaultStep
<1>16. ASSUME NEW r \in RunId, ExpireLease(r) PROVE CoverageInv'
  <2>1. \A q \in RunId : /\ runs'[q].cutoff = runs[q].cutoff
                         /\ runs'[q].cursor = runs[q].cursor
                         /\ FinishedScan(runs'[q]) => FinishedScan(runs[q])
                         /\ runs[q].state # "absent" => runs'[q].state # "absent"
    BY <1>16, <1>t DEF ExpireLease, TypeOK, Run, FinishedScan
  <2> QED
    BY <1>16, <1>t, <2>1, CoverageFrame DEF ExpireLease
<1>17. CASE UNCHANGED vars
  BY <1>17, <1>t, CoverageFrame DEF vars
<1> QED
  BY <1>1, <1>2, <1>3, <1>4, <1>5, <1>6, <1>7, <1>8, <1>9, <1>10, <1>11, <1>12, <1>13,
     <1>14, <1>15, <1>16, <1>17
  DEF Next, UserStep, OperatorStep, IngestStep

\* A vacancy that stays active from the moment a run is queued is never lost by
\* that run: it has a result once the durable cursor is past it, and every such
\* vacancy has one when the run succeeds.  This holds for any number of workers,
\* batch size, page limit, crash, lost answer and dropped lock session.
THEOREM Coverage == Spec => []SnapshotCoverage
<1>1. CoverageInv => SnapshotCoverage
  BY DEF CoverageInv, RowCovered, SnapshotCoverage
<1> QED
  BY <1>1, CoverageInit, CoverageNext, PTL DEF Spec

-----------------------------------------------------------------------------
(* The life of one row *)

\* Everything the statements of the system can do to row r in one step.
RowStep(r) ==
    LET old == runs[r]
        new == runs'[r]
        Kept == new.user = old.user /\ new.cursor = old.cursor /\ new.processed = old.processed
    IN  \/ new = old
        \/ old.state = "absent" /\ new.state = "queued"
        \/ Kept /\ old.state = "running" /\ new.state = "running"
        \/ Kept /\ old.state = "queued" /\ new.state = "running"
        \/ Kept /\ Pausable(old) /\ new.state = "paused"
        \/ Kept /\ old.state = "paused" /\ new.state = "queued"
        \/ /\ Kept /\ new.state = "superseded" /\ new.from = old.state
           /\ old.state \in Active \cup {"failed", "succeeded"}
        \/ Kept /\ old.state = "superseded" /\ old.from = "running" /\ new.state = "queued"
        \/ Kept /\ old.state \in Active /\ new.state = "disabled"
        \/ /\ old.state = "running" /\ new.user = old.user
           /\ new.state \in {"running", "succeeded", "failed"}

LEMMA RowStepNext == ASSUME TypeOK, [Next]_vars, NEW r \in RunId PROVE RowStep(r)
<1> USE DEF dbVars, vacVars, hist
<1>0. runs \in [RunId -> Run] /\ runs[r] \in Run
  BY DEF TypeOK
<1>f. ASSUME UNCHANGED runs PROVE RowStep(r)
  BY <1>f DEF RowStep
<1>1. ASSUME NEW u \in User, NEW q \in RunId, NEW v \in 1..MaxVersions, QueueAnalysis(u, q, v)
      PROVE  RowStep(r)
  BY <1>0, <1>1 DEF QueueAnalysis, RowStep
<1>2. ASSUME NEW q \in RunId, NEW v \in 1..MaxVersions, SupersedeAssistantRun(q, v)
      PROVE  RowStep(r)
  BY <1>0, <1>2 DEF SupersedeAssistantRun, RowStep, Run
<1>3. ASSUME NEW q \in RunId, PauseAssistantRun(q) PROVE RowStep(r)
  BY <1>0, <1>3 DEF PauseAssistantRun, RowStep, Run
<1>4. ASSUME NEW q \in RunId, ResumeAssistantRun(q) PROVE RowStep(r)
  BY <1>0, <1>4 DEF ResumeAssistantRun, RowStep, Run
<1>5. ASSUME NEW q \in RunId, RecoverAssistantRun(q) PROVE RowStep(r)
  <2>1. CASE q = r
    BY <1>0, <1>5, <2>1 DEF RecoverAssistantRun, RowStep, Run
  <2>2. CASE q # r /\ r \in ActiveRuns(runs[q].user)
    BY <1>0, <1>5, <2>2 DEF RecoverAssistantRun, ActiveRuns, RowStep, Run
  <2>3. CASE q # r /\ r \notin ActiveRuns(runs[q].user)
    BY <1>0, <1>5, <2>3 DEF RecoverAssistantRun, RowStep
  <2> QED
    BY <2>1, <2>2, <2>3
<1>6. ASSUME NEW w \in Worker, NEW q \in RunId, ClaimAssistantRun(w, q) PROVE RowStep(r)
  BY <1>0, <1>6 DEF ClaimAssistantRun, Claimable, RowStep, Run
<1>7. ASSUME NEW w \in Worker,
             UpdateAssistantRunProgress(w) \/ LoseProgressAnswer(w)
      PROVE  RowStep(r)
  <2>1. \/ runs' = runs
        \/ /\ runs[worker[w].run].state = "running"
           /\ runs' = [runs EXCEPT ![worker[w].run] = ProgressRow(runs[worker[w].run], w)]
    BY <1>7 DEF UpdateAssistantRunProgress, LoseProgressAnswer
  <2>2. \/ runs'[r] = runs[r]
        \/ runs[r].state = "running" /\ runs'[r] = ProgressRow(runs[r], w)
    BY <1>0, <2>1
  <2> QED
    BY <1>0, <2>2 DEF RowStep, ProgressRow, Run
<1>8. ASSUME NEW w \in Worker, PauseAtPageLimit(w) PROVE RowStep(r)
  <2>1. \/ runs' = runs
        \/ /\ Pausable(runs[worker[w].run])
           /\ runs' = [runs EXCEPT ![worker[w].run] = [@ EXCEPT !.state = "paused", !.lease = "none"]]
    BY <1>8 DEF PauseAtPageLimit
  <2>2. \/ runs'[r] = runs[r]
        \/ Pausable(runs[r]) /\ runs'[r] = [runs[r] EXCEPT !.state = "paused", !.lease = "none"]
    BY <1>0, <2>1
  <2> QED
    BY <1>0, <2>2 DEF RowStep, Run
<1>9. ASSUME NEW w \in Worker, CompleteAssistantRun(w) PROVE RowStep(r)
  <2>1. worker[w].outcome \in {"succeeded", "failed"}
    BY DEF TypeOK, Process
  <2>2. runs'[r] = runs[r] \/ runs'[r] = CompletedRow(runs[r], w)
    BY <1>0, <1>9 DEF CompleteAssistantRun
  <2> QED
    BY <1>0, <2>1, <2>2 DEF CompletedRow, RowStep, Run
<1>10. ASSUME NEW w \in Worker, HeartbeatAssistantRun(w) PROVE RowStep(r)
  <2>1. \/ runs' = runs
        \/ /\ runs[worker[w].run].state = "running"
           /\ runs' = [runs EXCEPT ![worker[w].run].lease = "held"]
    BY <1>10 DEF HeartbeatAssistantRun
  <2> QED
    BY <1>0, <2>1 DEF RowStep, Run
<1>11. ASSUME NEW q \in RunId, ExpireLease(q) PROVE RowStep(r)
  BY <1>0, <1>11 DEF ExpireLease, RowStep, Run
<1>12. ASSUME NEW w \in Worker, RunOnceStep(w) PROVE RowStep(r)
  BY <1>12, <1>f, <1>6, <1>7, <1>8, <1>9
  DEF RunOnceStep, ClaimNothing, LoadUsers, SnapshotCandidates, ProcessCandidate, Unlock
<1>13. ASSUME NEW w \in Worker, FaultStep(w) PROVE RowStep(r)
  BY <1>13, <1>f, <1>7 DEF FaultStep, Fail, SkipStatement, Crash, LoseLock
<1>14. CASE UserStep \/ OperatorStep \/ IngestStep
  BY <1>14, <1>f, <1>1, <1>2, <1>3, <1>4, <1>5
  DEF UserStep, OperatorStep, IngestStep, SavePreferences, ArchivePreference, DeployRuleset,
      CreateVacancy, Deactivate, Reactivate
<1>15. CASE UNCHANGED vars
  BY <1>15, <1>f DEF vars
<1> QED
  BY <1>f, <1>10, <1>11, <1>12, <1>13, <1>14, <1>15 DEF Next, TryLock

\* No statement of a late worker, an operator or a user touches the progress of
\* a run that is not running, revives a disabled or succeeded run, or brings
\* back a superseded run that was not superseded while running.
THEOREM Lifecycle == Spec => LifecycleRespected
<1>1. TypeOK /\ [Next]_vars => [LifecycleStep]_vars
  <2> SUFFICES ASSUME TypeOK, [Next]_vars PROVE LifecycleStep
    OBVIOUS
  <2> SUFFICES ASSUME NEW r \in RunId
               PROVE
        /\ runs[r].state \in RunState \ {"running", "absent"}
           => runs'[r].cursor = runs[r].cursor /\ runs'[r].processed = runs[r].processed
        /\ runs[r].state = "disabled" => runs'[r] = runs[r]
        /\ runs[r].state = "succeeded" => runs'[r].state \in {"succeeded", "superseded"}
        /\ runs[r].state = "superseded" /\ runs'[r].state # "superseded"
           => runs[r].from = "running" /\ runs'[r].state = "queued"
    BY DEF LifecycleStep
  <2> QED
    BY RowStepNext DEF RowStep, Pausable, Active
<1> QED
  BY <1>1, TypeCorrect, PTL DEF Spec, LifecycleRespected

-----------------------------------------------------------------------------
(* One active run per user *)

\* A step that activates no row and moves no row to another user.
LEMMA OneActiveFrame ==
    ASSUME OneActiveRunPerUser,
           \A r \in RunId : runs'[r].state \in Active =>
               runs[r].state \in Active /\ runs'[r].user = runs[r].user
    PROVE  OneActiveRunPerUser'
  BY DEF OneActiveRunPerUser, Active

\* A step that may activate row r because its user has no other active row.
LEMMA OneActiveRow ==
    ASSUME OneActiveRunPerUser, NEW r \in RunId, NEW u,
           runs'[r].user = u, ActiveRuns(u) \subseteq {r},
           \A q \in RunId \ {r} : runs'[q].state \in Active =>
               runs[q].state \in Active /\ runs'[q].user = runs[q].user
    PROVE  OneActiveRunPerUser'
  BY DEF OneActiveRunPerUser, ActiveRuns, Active

LEMMA OneActiveNext ==
    TypeOK /\ OneActiveRunPerUser /\ [Next]_vars => OneActiveRunPerUser'
<1> SUFFICES ASSUME TypeOK, OneActiveRunPerUser, [Next]_vars PROVE OneActiveRunPerUser'
  OBVIOUS
<1> USE DEF dbVars, vacVars, hist
<1>0. runs \in [RunId -> Run] /\ \A r \in RunId : runs[r] \in Run
  BY DEF TypeOK
<1>f. ASSUME UNCHANGED runs PROVE OneActiveRunPerUser'
  BY <1>f DEF OneActiveRunPerUser
<1>1. ASSUME NEW u \in User, NEW r \in RunId, NEW v \in 1..MaxVersions, QueueAnalysis(u, r, v)
      PROVE  OneActiveRunPerUser'
  <2>1. /\ runs'[r].user = u /\ ActiveRuns(u) \subseteq {r}
        /\ \A q \in RunId \ {r} : runs'[q] = runs[q]
    BY <1>0, <1>1 DEF QueueAnalysis
  <2> QED
    BY <2>1, OneActiveRow
<1>2. ASSUME NEW r \in RunId, NEW v \in 1..MaxVersions, SupersedeAssistantRun(r, v)
      PROVE  OneActiveRunPerUser'
  <2>1. /\ runs'[r].state = "superseded"
        /\ \A q \in RunId \ {r} : runs'[q] = runs[q]
    BY <1>0, <1>2 DEF SupersedeAssistantRun, Run
  <2> QED
    BY <2>1, OneActiveFrame DEF Active
<1>3. ASSUME NEW r \in RunId, PauseAssistantRun(r) PROVE OneActiveRunPerUser'
  <2>1. /\ runs'[r].user = runs[r].user /\ ActiveRuns(runs[r].user) \subseteq {r}
        /\ \A q \in RunId \ {r} : runs'[q] = runs[q]
    BY <1>0, <1>3 DEF PauseAssistantRun, OneActiveIndex, Run
  <2> QED
    BY <2>1, OneActiveRow
<1>4. ASSUME NEW r \in RunId, ResumeAssistantRun(r) PROVE OneActiveRunPerUser'
  <2>1. /\ runs[r].state \in Active /\ runs'[r].user = runs[r].user
        /\ \A q \in RunId \ {r} : runs'[q] = runs[q]
    BY <1>0, <1>4 DEF ResumeAssistantRun, Active, Run
  <2> QED
    BY <2>1, OneActiveFrame
<1>5. ASSUME NEW r \in RunId, RecoverAssistantRun(r) PROVE OneActiveRunPerUser'
  <2> DEFINE u == runs[r].user
  <2>1. runs'[r].user = u
    BY <1>0, <1>5 DEF RecoverAssistantRun, Run
  <2>2. \A q \in RunId \ {r} :
            runs'[q] = IF q \in ActiveRuns(u)
                       THEN [runs[q] EXCEPT !.state = "disabled", !.lease = "none"] ELSE runs[q]
    BY <1>5 DEF RecoverAssistantRun
  <2>3. \A q \in RunId \ {r} : runs'[q].state \in Active =>
            runs'[q] = runs[q] /\ runs[q].user # u
    <3> SUFFICES ASSUME NEW q \in RunId \ {r}, runs'[q].state \in Active
                 PROVE  runs'[q] = runs[q] /\ runs[q].user # u
      OBVIOUS
    <3>1. [runs[q] EXCEPT !.state = "disabled", !.lease = "none"].state \notin Active
      BY <1>0 DEF Run, Active
    <3>2. q \notin ActiveRuns(u) /\ runs'[q] = runs[q]
      BY <2>2, <3>1
    <3> QED
      BY <3>2 DEF ActiveRuns
  <2> QED
    BY <2>1, <2>3 DEF OneActiveRunPerUser
<1>6. ASSUME NEW w \in Worker, NEW r \in RunId, ClaimAssistantRun(w, r) PROVE OneActiveRunPerUser'
  <2>1. /\ runs[r].state \in Active /\ runs'[r].user = runs[r].user
        /\ \A q \in RunId \ {r} : runs'[q] = runs[q]
    BY <1>0, <1>6 DEF ClaimAssistantRun, Claimable, Active, Run
  <2> QED
    BY <2>1, OneActiveFrame
<1>7. ASSUME NEW w \in Worker, PauseAtPageLimit(w) PROVE OneActiveRunPerUser'
  <2>1. CASE runs' = runs
    BY <2>1, <1>f
  <2>2. CASE runs' # runs
    <3>1. /\ OneActiveIndex(worker[w].run)
          /\ runs' = [runs EXCEPT ![worker[w].run] = [@ EXCEPT !.state = "paused", !.lease = "none"]]
      BY <1>7, <2>2 DEF PauseAtPageLimit
    <3>2. PICK r \in RunId : r = worker[w].run
      BY <1>0, <2>2, <3>1
    <3>3. /\ runs'[r].user = runs[r].user /\ ActiveRuns(runs[r].user) \subseteq {r}
          /\ \A q \in RunId \ {r} : runs'[q] = runs[q]
      BY <1>0, <3>1, <3>2 DEF OneActiveIndex, Run
    <3> QED
      BY <3>3, OneActiveRow
  <2> QED
    BY <2>1, <2>2
<1>8. ASSUME NEW w \in Worker,
             \/ UpdateAssistantRunProgress(w) \/ LoseProgressAnswer(w)
             \/ CompleteAssistantRun(w) \/ HeartbeatAssistantRun(w)
      PROVE  OneActiveRunPerUser'
  <2> SUFFICES ASSUME NEW r \in RunId, runs'[r].state \in Active
               PROVE  runs[r].state \in Active /\ runs'[r].user = runs[r].user
    BY OneActiveFrame
  <2>1. \/ runs'[r] = runs[r]
        \/ runs[r].state = "running" /\ runs'[r] = ProgressRow(runs[r], w)
        \/ runs'[r] = CompletedRow(runs[r], w)
        \/ runs'[r] = [runs[r] EXCEPT !.lease = "held"]
    BY <1>0, <1>8 DEF UpdateAssistantRunProgress, LoseProgressAnswer, CompleteAssistantRun,
                      HeartbeatAssistantRun
  <2> QED
    BY <1>0, <2>1 DEF ProgressRow, CompletedRow, Run, Active
<1>9. ASSUME NEW r \in RunId, ExpireLease(r) PROVE OneActiveRunPerUser'
  <2>1. /\ runs[r].state \in Active /\ runs'[r].user = runs[r].user
        /\ \A q \in RunId \ {r} : runs'[q] = runs[q]
    BY <1>0, <1>9 DEF ExpireLease, Active, Run
  <2> QED
    BY <2>1, OneActiveFrame
<1>10. ASSUME NEW w \in Worker, RunOnceStep(w) PROVE OneActiveRunPerUser'
  BY <1>10, <1>f, <1>6, <1>7, <1>8
  DEF RunOnceStep, ClaimNothing, LoadUsers, SnapshotCandidates, ProcessCandidate, Unlock
<1>11. ASSUME NEW w \in Worker, FaultStep(w) PROVE OneActiveRunPerUser'
  BY <1>11, <1>f, <1>8 DEF FaultStep, Fail, SkipStatement, Crash, LoseLock
<1>12. CASE UserStep \/ OperatorStep \/ IngestStep
  BY <1>12, <1>f, <1>1, <1>2, <1>3, <1>4, <1>5
  DEF UserStep, OperatorStep, IngestStep, SavePreferences, ArchivePreference, DeployRuleset,
      CreateVacancy, Deactivate, Reactivate
<1>13. CASE UNCHANGED vars
  BY <1>13, <1>f DEF vars
<1> QED
  BY <1>f, <1>8, <1>9, <1>10, <1>11, <1>12, <1>13 DEF Next, TryLock

\* The partial unique index, the NOT EXISTS of QueueAnalysis and the disabling
\* transaction of -recover-run leave a user at most one queued, running or
\* paused run.
THEOREM OneActive == Spec => []OneActiveRunPerUser
<1>1. Init => OneActiveRunPerUser
  BY DEF Init, Absent, OneActiveRunPerUser, Active
<1> QED
  BY <1>1, OneActiveNext, TypeCorrect, PTL DEF Spec

-----------------------------------------------------------------------------
(* One worker between claim and completion *)

\* While no session dropped with the lock in its hands, the worker that is not
\* idle is the one that PostgreSQL names as the holder.
BusyHoldsLock == lockLosses = 0 => \A w \in Worker : worker[w].pc # "idle" => lock = w

\* SnapshotCandidates finds the scan finished or takes the next page.
LEMMA SnapshotMoves ==
    ASSUME TypeOK, NEW w \in Worker, SnapshotCandidates(w)
    PROVE  /\ \A v \in Worker \ {w} : worker'[v] = worker[v]
           /\ \/ worker'[w] = Finishing(w, worker[w].processed, "succeeded")
              \/ \E last \in Nat : \E page \in SUBSET Vacancy :
                    /\ worker[w].cursor < last
                    /\ worker'[w] = [worker[w] EXCEPT !.pc = "processing", !.last = last, !.todo = page]
<1> DEFINE rows == SnapshotRows(runs[worker[w].run].cutoff, worker[w].cursor)
<1>1. worker \in [Worker -> Process] /\ active \subseteq Vacancy /\ Vacancy \subseteq Nat
  BY BoundsAssumption DEF TypeOK, Vacancy
<1>2. CASE worker' = [worker EXCEPT ![w] = Finishing(w, worker[w].processed, "succeeded")]
  BY <1>1, <1>2
<1>3. ASSUME NEW last \in FirstBatch(rows),
             worker' = [worker EXCEPT ![w] =
                 [@ EXCEPT !.pc = "processing", !.last = last, !.todo = FirstBatch(rows)]]
      PROVE  /\ \A v \in Worker \ {w} : worker'[v] = worker[v]
             /\ last \in Nat /\ FirstBatch(rows) \in SUBSET Vacancy /\ worker[w].cursor < last
             /\ worker'[w] = [worker[w] EXCEPT !.pc = "processing", !.last = last, !.todo = FirstBatch(rows)]
  <2>1. FirstBatch(rows) \subseteq active /\ \A p \in FirstBatch(rows) : worker[w].cursor < p
    BY DEF FirstBatch, SnapshotRows
  <2> QED
    BY <1>1, <1>3, <2>1
<1>4. \/ worker' = [worker EXCEPT ![w] = Finishing(w, worker[w].processed, "succeeded")]
      \/ \E last \in FirstBatch(rows) :
            worker' = [worker EXCEPT ![w] =
                 [@ EXCEPT !.pc = "processing", !.last = last, !.todo = FirstBatch(rows)]]
  BY Zenon DEF SnapshotCandidates
<1> HIDE DEF rows
<1>5. CASE \E last \in FirstBatch(rows) :
            worker' = [worker EXCEPT ![w] =
                 [@ EXCEPT !.pc = "processing", !.last = last, !.todo = FirstBatch(rows)]]
  BY <1>3, <1>5, Zenon
<1> QED
  BY <1>2, <1>4, <1>5, Zenon

LEMMA BusyHoldsLockNext == TypeOK /\ BusyHoldsLock /\ [Next]_vars => BusyHoldsLock'
<1> SUFFICES ASSUME TypeOK, BusyHoldsLock, [Next]_vars PROVE BusyHoldsLock'
  OBVIOUS
<1> USE DEF dbVars, vacVars, hist
<1>0. worker \in [Worker -> Process] /\ lockLosses \in Nat
  BY BoundsAssumption DEF TypeOK
<1>i. Idle.pc = "idle"
  BY DEF Idle
<1>f. ASSUME UNCHANGED <<lock, lockLosses>>,
             \A w \in Worker : worker'[w].pc # "idle" => worker[w].pc # "idle"
      PROVE  BusyHoldsLock'
  BY <1>f DEF BusyHoldsLock
<1>1. ASSUME NEW w \in Worker, TryLock(w) PROVE BusyHoldsLock'
  <2>1. \A v \in Worker \ {w} : worker'[v] = worker[v]
    BY <1>0, <1>1 DEF TryLock
  <2>2. lockLosses = 0 => \A v \in Worker \ {w} : worker[v].pc = "idle"
    BY <1>1, NoWorkerAssumption DEF TryLock, BusyHoldsLock
  <2> QED
    BY <1>1, <2>1, <2>2 DEF TryLock, BusyHoldsLock
<1>2. ASSUME NEW w \in Worker, Unlock(w) \/ Crash(w) PROVE BusyHoldsLock'
  <2>1. /\ worker'[w].pc = "idle" /\ lockLosses' = lockLosses
        /\ \A v \in Worker \ {w} : worker'[v] = worker[v]
        /\ lock' = IF lock = w THEN NoWorker ELSE lock
    BY <1>0, <1>2, <1>i DEF Unlock, Crash
  <2> QED
    BY <2>1 DEF BusyHoldsLock
<1>3. ASSUME NEW w \in Worker, LoseLock(w) PROVE BusyHoldsLock'
  BY <1>0, <1>3 DEF LoseLock, BusyHoldsLock
<1>4. ASSUME NEW w \in Worker, RunOnceStep(w) PROVE BusyHoldsLock'
  <2>1. ASSUME NEW r \in RunId, ClaimAssistantRun(w, r) PROVE BusyHoldsLock'
    BY <1>0, <1>f, <2>1 DEF ClaimAssistantRun
  <2>2. ASSUME \/ ClaimNothing(w) \/ LoadUsers(w) \/ SnapshotCandidates(w)
               \/ (\E p \in Vacancy : ProcessCandidate(w, p))
               \/ UpdateAssistantRunProgress(w) \/ PauseAtPageLimit(w) \/ CompleteAssistantRun(w)
        PROVE  BusyHoldsLock'
    <3>1. /\ worker[w].pc # "idle" /\ lock' = lock /\ lockLosses' = lockLosses
          /\ \A v \in Worker \ {w} : worker'[v] = worker[v]
      <4>1. CASE ClaimNothing(w)
        BY <1>0, <4>1 DEF ClaimNothing
      <4>2. CASE LoadUsers(w)
        BY <1>0, <4>2 DEF LoadUsers
      <4>3. CASE SnapshotCandidates(w)
        BY <1>0, <4>3, SnapshotMoves DEF SnapshotCandidates
      <4>4. CASE \E p \in Vacancy : ProcessCandidate(w, p)
        BY <1>0, <4>4 DEF ProcessCandidate
      <4>5. CASE UpdateAssistantRunProgress(w)
        BY <1>0, <4>5 DEF UpdateAssistantRunProgress
      <4>6. CASE PauseAtPageLimit(w)
        BY <1>0, <4>6 DEF PauseAtPageLimit
      <4>7. CASE CompleteAssistantRun(w)
        BY <1>0, <4>7 DEF CompleteAssistantRun
      <4> QED
        BY <2>2, <4>1, <4>2, <4>3, <4>4, <4>5, <4>6, <4>7
    <3> QED
      BY <1>f, <3>1
  <2> QED
    BY <1>2, <1>4, <2>1, <2>2 DEF RunOnceStep
<1>5. ASSUME NEW w \in Worker, HeartbeatAssistantRun(w) PROVE BusyHoldsLock'
  <2>1. /\ worker[w].pc # "idle" /\ lock' = lock /\ lockLosses' = lockLosses
        /\ \A v \in Worker \ {w} : worker'[v] = worker[v]
    BY <1>0, <1>5 DEF HeartbeatAssistantRun, Working
  <2> QED
    BY <1>f, <2>1
<1>6. ASSUME NEW w \in Worker, FaultStep(w) PROVE BusyHoldsLock'
  <2>1. ASSUME (\E n \in FailedCounts(w) : Fail(w, n)) \/ LoseProgressAnswer(w) \/ SkipStatement(w)
        PROVE  BusyHoldsLock'
    <3>1. /\ worker[w].pc # "idle" /\ lock' = lock /\ lockLosses' = lockLosses
          /\ \A v \in Worker \ {w} : worker'[v] = worker[v]
      BY <1>0, <2>1 DEF Fail, LoseProgressAnswer, SkipStatement, Working
    <3> QED
      BY <1>f, <3>1
  <2> QED
    BY <1>2, <1>3, <1>6, <2>1 DEF FaultStep
<1>7. CASE UserStep \/ OperatorStep \/ IngestStep \/ (\E r \in RunId : ExpireLease(r))
  <2>1. UNCHANGED <<lock, lockLosses, worker>>
    <3>1. CASE UserStep
      BY <3>1, ZenonT(30) DEF UserStep, SavePreferences, ArchivePreference, QueueAnalysis,
                              SupersedeAssistantRun
    <3>2. CASE OperatorStep
      BY <3>2, ZenonT(30) DEF OperatorStep, DeployRuleset, PauseAssistantRun, ResumeAssistantRun,
                              RecoverAssistantRun
    <3>3. CASE IngestStep
      BY <3>3 DEF IngestStep, CreateVacancy, Deactivate, Reactivate
    <3>4. CASE \E r \in RunId : ExpireLease(r)
      BY <3>4 DEF ExpireLease
    <3> QED
      BY <1>7, <3>1, <3>2, <3>3, <3>4
  <2> QED
    BY <1>f, <2>1
<1>8. CASE UNCHANGED vars
  BY <1>8, <1>f DEF vars
<1> QED
  BY <1>1, <1>4, <1>5, <1>6, <1>7, <1>8 DEF Next

LEMMA BusyHoldsLockInit == Init => BusyHoldsLock
  BY DEF Init, Idle, BusyHoldsLock

\* While no session drops with the lock in its hands, a worker that has taken a run in
\* RunOnce holds the advisory lock of the assistant until it unlocks (postgres.go, TryLock).
THEOREM LockInvariant == Spec => []BusyHoldsLock
  BY BusyHoldsLockInit, BusyHoldsLockNext, TypeCorrect, PTL DEF Spec

\* While no session drops with the lock in its hands, two workers are never
\* between claim and completion of the same run: the statements after the claim
\* check only state='running', so the lock alone keeps two scans apart.
THEOREM OneOwner == Spec => []SoleOwner
<1>1. BusyHoldsLock => SoleOwner
  BY DEF BusyHoldsLock, SoleOwner, Working
<1> QED
  BY <1>1, LockInvariant, PTL

-----------------------------------------------------------------------------
(* The durable cursor *)

\* An absent row has no progress, and while the lock is intact the worker of a
\* run is not behind the run's durable cursor, nor its page behind the worker.
FreshRow(r) == runs[r].state = "absent" => runs[r].cursor = 0

NotBehind(w) ==
    LET x == worker[w]
    IN  /\ x.pc \in Working => runs[x.run].cursor <= x.cursor
        /\ x.pc = "processing" => x.cursor <= x.last

CursorInv ==
    /\ \A r \in RunId : FreshRow(r)
    /\ lockLosses = 0 => \A w \in Worker : NotBehind(w)

\* A step that moves no cursor of a row, allocates no row twice and keeps the
\* workers that moved in front.
LEMMA CursorFrame ==
    ASSUME CoverageInv, CursorInv, lockLosses' = 0 => lockLosses = 0,
           \A r \in RunId : /\ runs'[r].cursor = runs[r].cursor
                            /\ runs'[r].state = "absent" => runs[r].state = "absent",
           \A w \in Worker : worker'[w] = worker[w] \/ NotBehind(w)'
    PROVE  CursorInv'
<1>1. \A r \in RunId : FreshRow(r)'
  BY DEF CursorInv, FreshRow
<1>2. ASSUME lockLosses' = 0, NEW w \in Worker, worker'[w] = worker[w] PROVE NotBehind(w)'
  <2>1. NotBehind(w) /\ WorkerCovered(w)
    BY <1>2 DEF CursorInv, CoverageInv
  <2>2. CASE worker[w].pc \in Working
    BY <1>2, <2>1, <2>2 DEF NotBehind, WorkerCovered
  <2>3. CASE worker[w].pc \notin Working
    BY <1>2, <2>3 DEF NotBehind, Working
  <2> QED
    BY <2>2, <2>3
<1> QED
  BY <1>1, <1>2 DEF CursorInv

LEMMA RecoverKeeps ==
    ASSUME TypeOK, NEW r \in RunId, RecoverAssistantRun(r), NEW p \in RunId
    PROVE  /\ runs'[p].cursor = runs[p].cursor
           /\ runs'[p].state = "absent" => runs[p].state = "absent"
<1>0. runs \in [RunId -> Run]
  BY DEF TypeOK
<1>1. PICK requeued : requeued = [runs[r] EXCEPT !.state = "queued", !.lease = "none", !.from = "absent"]
  OBVIOUS
<1>2. PICK disabled : disabled = [runs[p] EXCEPT !.state = "disabled", !.lease = "none"]
  OBVIOUS
<1>3. /\ requeued.cursor = runs[r].cursor /\ requeued.state = "queued"
      /\ disabled.cursor = runs[p].cursor /\ disabled.state = "disabled"
  BY <1>0, <1>1, <1>2 DEF Run
<1>4. runs'[p] = IF p = r THEN requeued
                 ELSE IF p \in ActiveRuns(runs[r].user) THEN disabled ELSE runs[p]
  BY <1>1, <1>2, Zenon DEF RecoverAssistantRun
<1> QED
  BY <1>3, <1>4

\* The cursor of a row may only grow, and its own worker is the one to move it.
CursorGrows == lockLosses = 0 => \A r \in RunId : runs'[r].cursor >= runs[r].cursor

LEMMA CursorNext ==
    ASSUME CoverageInv, CoverageInv', BusyHoldsLock, CursorInv, [Next]_vars
    PROVE  CursorInv' /\ CursorGrows
<1> USE DEF dbVars, vacVars, hist
<1>0. /\ worker \in [Worker -> Process] /\ lockLosses \in Nat
      /\ runs \in [RunId -> Run] /\ runs' \in [RunId -> Run]
  BY BoundsAssumption DEF CoverageInv, TypeOK
<1>n. /\ \A r \in RunId : runs[r].cursor \in Nat
      /\ \A w \in Worker : worker[w].cursor \in Nat /\ worker[w].last \in Nat
  BY <1>0 DEF Run, Process
<1>f. ASSUME lockLosses' = 0 => lockLosses = 0,
             \A r \in RunId : /\ runs'[r].cursor = runs[r].cursor
                              /\ runs'[r].state = "absent" => runs[r].state = "absent",
             \A w \in Worker : worker'[w] = worker[w] \/ NotBehind(w)'
      PROVE  CursorInv' /\ CursorGrows
  BY <1>f, <1>n, CursorFrame DEF CursorGrows
<1>1. ASSUME NEW w \in Worker, NEW q \in RunId, ClaimAssistantRun(w, q) PROVE CursorInv' /\ CursorGrows
  <2>1. /\ \A r \in RunId : /\ runs'[r].cursor = runs[r].cursor
                            /\ runs'[r].state = "absent" => runs[r].state = "absent"
        /\ \A v \in Worker \ {w} : worker'[v] = worker[v]
        /\ lockLosses' = lockLosses
    BY <1>0, <1>1 DEF ClaimAssistantRun, Run
  <2>2. worker'[w].pc = "loading" /\ worker'[w].run = q /\ worker'[w].cursor = runs[q].cursor
    BY <1>0, <1>1 DEF ClaimAssistantRun, Idle
  <2>3. NotBehind(w)'
    BY <1>n, <2>1, <2>2 DEF NotBehind, Working
  <2> QED
    BY <1>f, <2>1, <2>3
<1>2. ASSUME NEW w \in Worker, SnapshotCandidates(w) PROVE CursorInv' /\ CursorGrows
  <2>1. /\ runs' = runs /\ lockLosses' = lockLosses /\ worker[w].pc = "scanning"
        /\ \A v \in Worker \ {w} : worker'[v] = worker[v]
    BY <1>2, SnapshotMoves DEF SnapshotCandidates, CoverageInv
  <2>2. ASSUME lockLosses = 0 PROVE NotBehind(w)'
    <3>1. NotBehind(w)
      BY <2>2 DEF CursorInv
    <3>2. CASE worker'[w] = Finishing(w, worker[w].processed, "succeeded")
      BY <3>2 DEF Finishing, Idle, NotBehind, Working
    <3>3. CASE worker'[w] # Finishing(w, worker[w].processed, "succeeded")
      <4>1. PICK last \in Nat, page \in SUBSET Vacancy :
                 /\ worker[w].cursor < last
                 /\ worker'[w] = [worker[w] EXCEPT !.pc = "processing", !.last = last, !.todo = page]
        BY <1>2, <3>3, SnapshotMoves, Zenon DEF CoverageInv
      <4>2. /\ worker'[w].cursor = worker[w].cursor /\ worker'[w].run = worker[w].run
            /\ worker'[w].last = last
        BY <1>0, <4>1 DEF Process
      <4> QED
        BY <1>n, <2>1, <3>1, <4>1, <4>2 DEF NotBehind, Working
    <3> QED
      BY <3>2, <3>3
  <2>3. CASE lockLosses = 0
    BY <1>f, <2>1, <2>2, <2>3
  <2>4. CASE lockLosses # 0
    BY <1>0, <2>1, <2>4 DEF CursorInv, CursorGrows, FreshRow
  <2> QED
    BY <2>3, <2>4
<1>3. ASSUME NEW w \in Worker, UpdateAssistantRunProgress(w) \/ LoseProgressAnswer(w)
      PROVE  CursorInv' /\ CursorGrows
  <2>1. PICK r \in RunId : r = worker[w].run
    BY <1>3 DEF CoverageInv, WorkerCovered, UpdateAssistantRunProgress, LoseProgressAnswer, Working
  <2>2. /\ worker[w].pc = "processing" /\ lockLosses' = lockLosses
        /\ \A v \in Worker \ {w} : worker'[v] = worker[v]
        /\ worker'[w].pc \in Working => worker'[w].run = r /\ worker'[w].cursor = worker[w].last
        /\ worker'[w].pc # "processing"
    <3>1. worker[w].pc = "processing" /\ lockLosses' = lockLosses
      BY <1>3 DEF UpdateAssistantRunProgress, LoseProgressAnswer
    <3>2. \/ worker' = [worker EXCEPT ![w] = Finishing(w, worker[w].processed, "failed")]
          \/ worker' = [worker EXCEPT ![w] =
                    [@ EXCEPT !.pc = AfterPage(w), !.pages = worker[w].pages + 1,
                              !.cursor = worker[w].last]]
      BY <1>3 DEF UpdateAssistantRunProgress, LoseProgressAnswer
    <3>3. AfterPage(w) # "processing"
      BY DEF AfterPage
    <3>4. CASE worker' = [worker EXCEPT ![w] = Finishing(w, worker[w].processed, "failed")]
      BY <1>0, <3>1, <3>4 DEF Finishing, Idle, Working
    <3>5. CASE worker' = [worker EXCEPT ![w] =
                    [@ EXCEPT !.pc = AfterPage(w), !.pages = worker[w].pages + 1,
                              !.cursor = worker[w].last]]
      <4>1. worker'[w] = [worker[w] EXCEPT !.pc = AfterPage(w), !.pages = worker[w].pages + 1,
                                           !.cursor = worker[w].last]
        BY <1>0, <3>5
      <4>2. /\ worker'[w].pc = AfterPage(w) /\ worker'[w].run = worker[w].run
            /\ worker'[w].cursor = worker[w].last
        BY <1>0, <4>1 DEF Process
      <4> QED
        BY <1>0, <2>1, <3>1, <3>3, <3>5, <4>2
    <3> QED
      BY <3>2, <3>4, <3>5
  <2>3. /\ \A q \in RunId \ {r} : runs'[q] = runs[q]
        /\ runs'[r] = runs[r] \/ runs'[r] = ProgressRow(runs[r], w)
    BY <1>0, <1>3, <2>1 DEF UpdateAssistantRunProgress, LoseProgressAnswer
  <2>4. runs'[r].state = runs[r].state /\ runs'[r].cursor \in {runs[r].cursor, worker[w].last}
    BY <1>0, <2>3 DEF ProgressRow, Run
  <2>5. \A q \in RunId : FreshRow(q)'
    <3>1. runs[r].state # "absent"
      BY <2>1, <2>2 DEF CoverageInv, WorkerCovered, Working
    <3> QED
      BY <2>3, <2>4, <3>1 DEF CursorInv, FreshRow
  <2>6. ASSUME lockLosses = 0
        PROVE  (\A v \in Worker : NotBehind(v)') /\ runs'[r].cursor >= runs[r].cursor
    <3>1. NotBehind(w) /\ lock = w
      BY <2>2, <2>6 DEF CursorInv, BusyHoldsLock
    <3>2. \A v \in Worker \ {w} : worker[v].pc = "idle"
      BY <2>6, <3>1 DEF BusyHoldsLock
    <3>3. \A v \in Worker \ {w} : NotBehind(v)'
      BY <2>2, <3>2 DEF NotBehind, Working
    <3>4. runs[r].cursor <= worker[w].last
      BY <1>n, <2>1, <2>2, <3>1 DEF NotBehind, Working
    <3>5. NotBehind(w)'
      BY <1>n, <2>2, <2>4, <3>4 DEF NotBehind
    <3> QED
      BY <1>n, <2>4, <3>3, <3>4, <3>5
  <2> QED
    BY <1>n, <2>2, <2>3, <2>5, <2>6 DEF CursorInv, CursorGrows
<1>4. ASSUME NEW w \in Worker, NEW p \in Vacancy, ProcessCandidate(w, p) PROVE CursorInv' /\ CursorGrows
  <2>1. /\ runs' = runs /\ lockLosses' = lockLosses
        /\ \A v \in Worker \ {w} : worker'[v] = worker[v]
        /\ worker'[w].pc = worker[w].pc /\ worker'[w].run = worker[w].run
        /\ worker'[w].cursor = worker[w].cursor /\ worker'[w].last = worker[w].last
    BY <1>0, <1>4 DEF ProcessCandidate, Process
  <2>2. lockLosses = 0 => NotBehind(w)'
    BY <2>1 DEF CursorInv, NotBehind
  <2>3. CASE lockLosses = 0
    BY <1>f, <2>1, <2>2, <2>3
  <2>4. CASE lockLosses # 0
    BY <1>0, <2>1, <2>4 DEF CursorInv, CursorGrows, FreshRow
  <2> QED
    BY <2>3, <2>4
<1>5. ASSUME NEW w \in Worker, LoadUsers(w) \/ HeartbeatAssistantRun(w) PROVE CursorInv' /\ CursorGrows
  <2>1. /\ lockLosses' = lockLosses
        /\ \A v \in Worker \ {w} : worker'[v] = worker[v]
        /\ worker[w].pc \in Working
        /\ \/ worker'[w].pc = worker[w].pc \/ worker'[w].pc = "scanning"
        /\ worker'[w].run = worker[w].run
        /\ worker'[w].cursor = worker[w].cursor /\ worker'[w].last = worker[w].last
    BY <1>0, <1>5 DEF LoadUsers, HeartbeatAssistantRun, Working, Process
  <2>2. \A r \in RunId : runs'[r].cursor = runs[r].cursor /\ runs'[r].state = runs[r].state
    BY <1>0, <1>5 DEF LoadUsers, HeartbeatAssistantRun, Run
  <2>3. lockLosses = 0 => NotBehind(w)'
    <3>1. worker[w].run \in RunId
      BY <2>1 DEF CoverageInv, WorkerCovered
    <3> QED
      BY <2>1, <2>2, <3>1 DEF CursorInv, NotBehind
  <2>4. CASE lockLosses = 0
    BY <1>f, <2>1, <2>2, <2>3, <2>4
  <2>5. CASE lockLosses # 0
    BY <1>0, <2>1, <2>2, <2>5 DEF CursorInv, CursorGrows, FreshRow
  <2> QED
    BY <2>4, <2>5
<1>6. ASSUME NEW w \in Worker,
             \/ TryLock(w) \/ ClaimNothing(w) \/ Unlock(w) \/ (\E n \in FailedCounts(w) : Fail(w, n))
             \/ SkipStatement(w) \/ Crash(w)
      PROVE  CursorInv' /\ CursorGrows
  <2>1. /\ runs' = runs /\ lockLosses' = lockLosses
        /\ \A v \in Worker \ {w} : worker'[v] = worker[v]
        /\ worker'[w].pc \notin Working
    <3>1. CASE TryLock(w)
      BY <1>0, <3>1 DEF TryLock, Working
    <3>2. CASE ClaimNothing(w) \/ SkipStatement(w)
      BY <1>0, <3>2 DEF ClaimNothing, SkipStatement, Unlocking, Idle, Working
    <3>3. CASE Unlock(w) \/ Crash(w)
      BY <1>0, <3>3 DEF Unlock, Crash, Idle, Working
    <3>4. CASE \E n \in FailedCounts(w) : Fail(w, n)
      BY <1>0, <3>4 DEF Fail, Finishing, Idle, Working
    <3> QED
      BY <1>6, <3>1, <3>2, <3>3, <3>4
  <2>2. NotBehind(w)'
    BY <2>1 DEF NotBehind, Working
  <2> QED
    BY <1>f, <2>1, <2>2
<1>7. ASSUME NEW w \in Worker, PauseAtPageLimit(w) \/ CompleteAssistantRun(w) PROVE CursorInv' /\ CursorGrows
  <2>1. /\ lockLosses' = lockLosses
        /\ \A v \in Worker \ {w} : worker'[v] = worker[v]
        /\ worker'[w].pc \notin Working
    <3>0. /\ Unlocking.pc = "unlocking"
          /\ \A n, o : Finishing(w, n, o).pc = "finishing"
      BY DEF Unlocking, Finishing, Idle
    <3>1. \E x : worker' = [worker EXCEPT ![w] = x] /\ x.pc \in {"unlocking", "finishing"}
      <4>1. CASE PauseAtPageLimit(w)
        <5>1. \/ worker' = [worker EXCEPT ![w] = Unlocking]
              \/ worker' = [worker EXCEPT ![w] = Finishing(w, worker[w].processed, "failed")]
          BY <4>1 DEF PauseAtPageLimit
        <5>2. CASE worker' = [worker EXCEPT ![w] = Unlocking]
          BY <3>0, <5>2
        <5>3. PICK x : x = Finishing(w, worker[w].processed, "failed")
          OBVIOUS
        <5>4. x.pc = "finishing"
          BY <3>0, <5>3
        <5> QED
          BY <5>1, <5>2, <5>3, <5>4
      <4>2. CASE CompleteAssistantRun(w)
        BY <3>0, <4>2, Zenon DEF CompleteAssistantRun
      <4> QED
        BY <1>7, <4>1, <4>2
    <3>2. lockLosses' = lockLosses
      BY <1>7 DEF PauseAtPageLimit, CompleteAssistantRun
    <3> QED
      BY <1>0, <3>1, <3>2 DEF Working
  <2>2. NotBehind(w)'
    BY <2>1 DEF NotBehind, Working
  <2>3. \A r \in RunId : \/ runs'[r] = runs[r]
                         \/ runs'[r] = CompletedRow(runs[r], w)
                         \/ runs'[r] = [runs[r] EXCEPT !.state = "paused", !.lease = "none"]
    BY <1>0, <1>7 DEF PauseAtPageLimit, CompleteAssistantRun
  <2>4. \A r \in RunId : /\ runs'[r].cursor = runs[r].cursor
                         /\ runs'[r].state = "absent" => runs[r].state = "absent"
    <3>1. worker[w].outcome # "absent"
      BY <1>0 DEF Process
    <3>2. ASSUME NEW r \in RunId
          PROVE  /\ CompletedRow(runs[r], w).cursor = runs[r].cursor
                 /\ CompletedRow(runs[r], w).state = "absent" => runs[r].state = "absent"
      BY <1>0, <3>1 DEF CompletedRow, Run
    <3>3. ASSUME NEW r \in RunId
          PROVE  runs'[r] = [runs[r] EXCEPT !.state = "paused", !.lease = "none"] =>
                   runs'[r].cursor = runs[r].cursor /\ runs'[r].state = "paused"
      BY <1>0 DEF Run
    <3> HIDE DEF CompletedRow
    <3> QED
      BY <2>3, <3>2, <3>3, Zenon
  <2> QED
    BY <1>f, <2>1, <2>2, <2>4
<1>8. ASSUME NEW w \in Worker, LoseLock(w) PROVE CursorInv' /\ CursorGrows
  BY <1>0, <1>n, <1>8 DEF LoseLock, CursorInv, CursorGrows, FreshRow
<1>9. ASSUME UNCHANGED <<runs, worker, lockLosses>> PROVE CursorInv' /\ CursorGrows
  BY <1>9, <1>f
<1>10. ASSUME NEW u \in User, NEW q \in RunId, NEW v \in 1..MaxVersions, QueueAnalysis(u, q, v)
       PROVE  CursorInv' /\ CursorGrows
  <2>1. runs[q].cursor = 0
    BY <1>10 DEF QueueAnalysis, CursorInv, FreshRow
  <2>2. \A r \in RunId : /\ runs'[r].cursor = runs[r].cursor
                         /\ runs'[r].state = "absent" => runs[r].state = "absent"
    BY <1>0, <1>10, <2>1 DEF QueueAnalysis
  <2> QED
    BY <1>f, <1>10, <2>2 DEF QueueAnalysis
<1>11. ASSUME NEW q \in RunId,
              \/ (\E v \in 1..MaxVersions : SupersedeAssistantRun(q, v))
              \/ PauseAssistantRun(q) \/ ResumeAssistantRun(q) \/ ExpireLease(q)
       PROVE  CursorInv' /\ CursorGrows
  <2>1. \A r \in RunId : /\ runs'[r].cursor = runs[r].cursor
                         /\ runs'[r].state = "absent" => runs[r].state = "absent"
    <3>1. CASE \E v \in 1..MaxVersions : SupersedeAssistantRun(q, v)
      BY <1>0, <3>1 DEF SupersedeAssistantRun, Run
    <3>2. CASE PauseAssistantRun(q)
      BY <1>0, <3>2 DEF PauseAssistantRun, Run
    <3>3. CASE ResumeAssistantRun(q)
      BY <1>0, <3>3 DEF ResumeAssistantRun, Run
    <3>4. CASE ExpireLease(q)
      BY <1>0, <3>4 DEF ExpireLease, Run
    <3> QED
      BY <1>11, <3>1, <3>2, <3>3, <3>4
  <2>2. UNCHANGED <<worker, lockLosses>>
    BY <1>11 DEF SupersedeAssistantRun, PauseAssistantRun, ResumeAssistantRun, ExpireLease
  <2> QED
    BY <1>f, <2>1, <2>2
<1>12. ASSUME NEW r \in RunId, RecoverAssistantRun(r) PROVE CursorInv' /\ CursorGrows
  <2>1. runs[r].state = "superseded" /\ UNCHANGED <<worker, lockLosses>>
    BY <1>12, Zenon DEF RecoverAssistantRun
  <2>2. ASSUME NEW p \in RunId
        PROVE  /\ runs'[p].cursor = runs[p].cursor
               /\ runs'[p].state = "absent" => runs[p].state = "absent"
    BY <1>12, RecoverKeeps DEF CoverageInv
  <2> QED
    BY <1>f, <2>1, <2>2
<1>13. ASSUME NEW w \in Worker, RunOnceStep(w) PROVE CursorInv' /\ CursorGrows
  BY <1>13, <1>1, <1>2, <1>3, <1>4, <1>5, <1>6, <1>7 DEF RunOnceStep
<1>14. ASSUME NEW w \in Worker, FaultStep(w) PROVE CursorInv' /\ CursorGrows
  BY <1>14, <1>3, <1>6, <1>8 DEF FaultStep
<1>15. CASE UserStep \/ OperatorStep \/ IngestStep
  BY <1>15, <1>9, <1>10, <1>11, <1>12
  DEF UserStep, OperatorStep, IngestStep, SavePreferences, ArchivePreference, DeployRuleset,
      CreateVacancy, Deactivate, Reactivate
<1>16. CASE UNCHANGED vars
  BY <1>16, <1>9 DEF vars
<1> QED
  BY <1>5, <1>6, <1>11, <1>13, <1>14, <1>15, <1>16 DEF Next

\* While no session drops with the lock in its hands, the durable cursor of a
\* run never moves back: a page that was recorded is never scanned again, even
\* when leases expire, runs are paused and resumed and answers are lost.
THEOREM CursorMonotone == Spec => CursorNeverMovesBack
<1>1. Init => CursorInv
  BY DEF Init, Absent, Idle, Working, CursorInv, FreshRow, NotBehind
<1>2. /\ CoverageInv /\ CoverageInv' /\ BusyHoldsLock /\ CursorInv /\ [Next]_vars
      => CursorInv' /\ [CursorGrows]_vars
  BY CursorNext
<1> QED
  BY <1>1, <1>2, CoverageInit, CoverageNext, LockInvariant, PTL
  DEF Spec, CursorNeverMovesBack, CursorGrows
=============================================================================
