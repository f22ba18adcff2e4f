------------------------ MODULE HydrationCycleProofs ------------------------
(***************************************************************************)
(* Theorems about HydrationCycle, for every number of partitions, page     *)
(* size, budget and bound, every listing of HH and every set of processes. *)
(***************************************************************************)
EXTENDS HydrationCycle, FiniteSetTheorems, SequenceTheorems, TLAPS

-----------------------------------------------------------------------------
(* The inductive invariant, in parts *)

\* Where the plan of a batch is in use, and where a partition is in hand.
Paging == {"fetching", "saving", "advancing"}
Owning == Paging \cup {"storing", "choosing", "progressing", "completing", "closing",
                       "snapshotting"}

\* A batch: what its position says of its plan.
ShapeOf(w) ==
    LET b == work[w]
    IN  /\ w \in Cli => b.pc \in {"idle", "choosing"} \cup Paging
        /\ b.parts <= b.plan.done
        /\ b.pc \in {"planning", "starting", "storing"} => b.parts = 0
        /\ b.pc \in {"starting", "storing"} => b.plan.done = 0
        /\ b.pc \in Paging => b.plan.done < Partitions
        /\ b.pc \in {"completing", "closing"} => b.plan.done = Partitions
        /\ b.pc \in Owning => /\ ~b.plan.complete
                              /\ w \in Scheduler => b.plan.cycle \in Id
                              /\ b.plan.cycle \in Id => cycle[b.plan.cycle].status # "none"
        /\ b.pc = "starting" => ~b.plan.complete

PlanShape ==
    /\ plan.cycle = 0 => plan.done = 0 /\ ~plan.complete
    /\ plan.cycle # 0 => cycle[plan.cycle].status # "none"
    /\ plan.complete => plan.done = Partitions

Shape == (\A w \in Worker : ShapeOf(w)) /\ PlanShape

\* No checkpoint, stored or about to be, reaches the depth HH serves.
Depth ==
    /\ CursorWithinDepth
    /\ \A w \in Worker : work[w].pc = "saving" => work[w].next < DepthPages

\* HH serves at most SearchCap items; while nothing is archived, what was listed when a
\* cycle started still is, and there are items at every page a checkpoint names.
Reaches(q, n) == n > 0 => n * PerPage < Len(listing[q])

ReachOf(w) ==
    LET b == work[w]
        q == b.plan.done + 1
    IN  /\ b.pc \in {"fetching", "saving"} => Reaches(q, b.idx)
        /\ b.pc = "saving" => Reaches(q, b.next)

Served ==
    /\ \A q \in Part : Len(listing[q]) <= SearchCap
    /\ archived = 0 => /\ \A c \in Id : stable[c] \subseteq Listed
                       /\ \A q \in Part : Reaches(q, page[q])
                       /\ \A w \in Worker : ReachOf(w)

\* The first n partitions were visited in cycle c, unless nothing was listed in them.
Touched(c, q) == \E v \in Item : <<q, v>> \in hydrated[c]
Awaited(c, q) == \E v \in Item : <<q, v>> \in stable[c]
Visited(c, n) == \A q \in Part : q <= n /\ Awaited(c, q) => Touched(c, q)

VisitsOf(w) ==
    LET b == work[w]
        c == b.plan.cycle
    IN  b.pc \in Owning /\ c \in Id =>
            /\ Visited(c, b.plan.done)
            /\ b.pc = "advancing" => Visited(c, b.plan.done + 1)
            /\ b.pc = "saving" /\ Awaited(c, b.plan.done + 1) => b.items # {}

Visits ==
    archived = 0 =>
        /\ \A c \in Complete : Visited(c, Partitions)
        /\ plan.cycle \in Id => Visited(plan.cycle, plan.done)
        /\ \A w \in Worker : VisitsOf(w)

\* Only the holder of the lock is in a batch; its plan is the stored one from the moment
\* it is stored, and only the partition in hand has a page checkpoint.
FlightOf(w) ==
    LET b == work[w]
        q == b.plan.done + 1
    IN  /\ b.pc # "idle" => lock = w
        /\ b.pc \in {"planning", "starting", "storing"} => plan.cycle = 0 \/ plan.complete
        /\ b.pc \in Owning \ {"storing", "snapshotting"} => b.plan = plan
        /\ b.pc = "storing" => cycle[b.plan.cycle].status = "running"
        /\ b.pc \in {"fetching", "saving"} => b.idx = page[q]
        /\ b.pc = "saving" /\ b.terminal => b.next = 0
        /\ b.pc = "advancing" => page[q] = 0

Flight ==
    Undisturbed =>
        /\ \A q \in Part : page[q] # 0 => q = plan.done + 1 /\ plan.cycle # 0 /\ ~plan.complete
        /\ plan.cycle # 0 /\ plan.done < Partitions => cycle[plan.cycle].status = "running"
        /\ \A w \in Worker : FlightOf(w)

\* Item v of search q lies behind its first n pages.
Ahead(q, v, n) == \E i \in 1..Len(listing[q]) : i > n * PerPage /\ listing[q][i] = v

\* Every item that a running cycle must hydrate is hydrated or lies ahead of the checkpoint.
CoverOf(w) ==
    LET b == work[w]
        c == b.plan.cycle
        q == b.plan.done + 1
    IN  /\ b.pc = "saving" =>
              \A v \in Item : <<q, v>> \in stable[c] =>
                  \/ <<q, v>> \in hydrated[c] \/ v \in b.items
                  \/ ~b.terminal /\ Ahead(q, v, b.next)
        /\ b.pc = "advancing" =>
              \A v \in Item : <<q, v>> \in stable[c] => <<q, v>> \in hydrated[c]

Cover ==
    Undisturbed /\ archived = 0 =>
        /\ \A c \in Complete : stable[c] \subseteq hydrated[c]
        /\ plan.cycle # 0 =>
              \A q \in Part, v \in Item : <<q, v>> \in stable[plan.cycle] =>
                  \/ <<q, v>> \in hydrated[plan.cycle]
                  \/ q > plan.done /\ Ahead(q, v, page[q])
        /\ \A w \in Worker : CoverOf(w)

HydrationInv == TypeOK /\ Shape /\ Depth /\ Served /\ Visits /\ Flight /\ Cover

-----------------------------------------------------------------------------
(* Arithmetic of pages *)

LEMMA Numbers ==
    /\ Partitions \in Nat \ {0} /\ PerPage \in Nat \ {0} /\ SearchCap \in Nat \ {0}
    /\ HardMaxPages \in Nat /\ MaxBatchParts \in Nat \ {0} /\ MaxPagesPerPart \in Nat \ {0}
    /\ MaxCycles \in Nat \ {0} /\ MaxPublished \in Nat /\ MaxArchived \in Nat /\ MaxRequests \in Nat
    /\ MaxCliRuns \in Nat /\ MaxFaults \in Nat /\ MaxLockLosses \in Nat
    /\ Part \subseteq Nat \ {0} /\ Item \subseteq Nat /\ Id \subseteq Nat \ {0}
  BY HydrationConstants, BudgetAssumption, DepthAssumption DEF Part, Item, Id

LEMMA Quotient ==
    ASSUME NEW n \in Int, NEW p \in Nat \ {0}
    PROVE  /\ n \div p \in Int
           /\ (n \div p) * p <= n
           /\ n < (n \div p) * p + p
  OBVIOUS

LEMMA Products ==
    ASSUME NEW a \in Int, NEW b \in Int, NEW p \in Nat \ {0}, a <= b
    PROVE  a * p <= b * p
  OBVIOUS

\* k is the number of pages of p items that hold n of them.
Counts(k, p, n) ==
    /\ k \in Nat /\ n <= k * p
    /\ n > 0 => k > 0
    /\ \A m \in Nat : m < k => m * p < n

LEMMA PageCount ==
    ASSUME NEW n \in Nat, NEW p \in Nat \ {0}, NEW k, k = (n + p - 1) \div p
    PROVE  Counts(k, p, n)
<1>1. k \in Int /\ k * p <= n + p - 1 /\ n + p - 1 < k * p + p
  BY Quotient
<1>2. k >= 0
  BY <1>1
<1>3. n > 0 => k > 0
  BY <1>1
<1>4. ASSUME NEW m \in Nat, m < k PROVE m * p < n
  <2>1. (m + 1) * p <= k * p
    BY <1>1, <1>4, Products
  <2>2. (m + 1) * p = m * p + p
    OBVIOUS
  <2> QED
    BY <1>1, <2>1, <2>2
<1> QED
  BY <1>1, <1>2, <1>3, <1>4 DEF Counts

\* ResolvePageLimit never stops short of the results HH serves.
LEMMA DepthCoversSearch ==
    DepthPages \in Nat /\ DepthPages > 0 /\ SearchCap <= DepthPages * PerPage
<1>1. PICK k : k = (SearchCap + PerPage - 1) \div PerPage
  OBVIOUS
<1>2. k \in Nat /\ SearchCap <= k * PerPage /\ k > 0
  BY <1>1, Numbers, PageCount DEF Counts
<1>3. DepthPages = IF k <= HardMaxPages THEN k ELSE HardMaxPages
  BY <1>1 DEF DepthPages, Smaller
<1>4. HardMaxPages > 0 /\ HardMaxPages * PerPage >= SearchCap
  BY Numbers, DepthAssumption
<1> QED
  BY <1>2, <1>3, <1>4, Numbers

\* A page of a search and what Terminal concludes from it.
LEMMA PageFacts ==
    ASSUME TypeOK, NEW q \in Part, Len(listing[q]) <= SearchCap, NEW n \in Nat, NEW last,
           last = Terminal(PageItems(q, n), n, Smaller(ReportedPages(q), DepthPages))
    PROVE  /\ PageItems(q, n) \subseteq Item /\ IsFiniteSet(PageItems(q, n))
           /\ \A i \in 1..Len(listing[q]) : n * PerPage < i /\ i <= n * PerPage + PerPage =>
                 listing[q][i] \in PageItems(q, n)
           /\ ~last => n + 1 < DepthPages /\ (n + 1) * PerPage < Len(listing[q])
           /\ last => \A i \in 1..Len(listing[q]) : i <= n * PerPage + PerPage
           /\ Reaches(q, n) /\ Len(listing[q]) > 0 => PageItems(q, n) # {}
<1> DEFINE s == listing[q]
           start == n * PerPage
<1>1. s \in Seq(Item) /\ Len(s) \in Nat /\ start \in Nat /\ PerPage \in Nat \ {0}
  BY Numbers DEF TypeOK
<1>2. \A i \in 1..Len(s) : s[i] \in Item
  BY <1>1
<1>3. PageItems(q, n) \subseteq Item
  BY <1>2 DEF PageItems
<1>4. IsFiniteSet(PageItems(q, n))
  <2>1. IsFiniteSet(Item)
    BY Numbers, FS_Interval DEF Item
  <2> QED
    BY <1>3, <2>1, FS_Subset
<1>5. \A i \in 1..Len(s) : start < i /\ i <= start + PerPage => s[i] \in PageItems(q, n)
  BY <1>1 DEF PageItems
<1>6. PICK k : k = ReportedPages(q)
  OBVIOUS
<1>7. /\ k \in Nat /\ Len(s) <= k * PerPage
      /\ Len(s) > 0 => k > 0
      /\ \A m \in Nat : m < k => m * PerPage < Len(s)
  <2>1. PICK m : m = Len(s)
    OBVIOUS
  <2>2. k = (m + PerPage - 1) \div PerPage /\ m \in Nat
    BY <1>1, <1>6, <2>1 DEF ReportedPages
  <2>3. Counts(k, PerPage, m)
    BY <2>2, Numbers, PageCount
  <2> QED
    BY <2>1, <2>3 DEF Counts
<1>8. PICK r \in Nat : r = Smaller(k, DepthPages)
  BY <1>7, DepthCoversSearch DEF Smaller
<1>9. last <=> PageItems(q, n) = {} \/ (r > 0 /\ n + 1 >= r)
  BY <1>6, <1>8 DEF Terminal
<1>10. r <= k /\ r <= DepthPages /\ (r = k \/ r = DepthPages)
  BY <1>7, <1>8, DepthCoversSearch DEF Smaller
<1>11. (n + 1) * PerPage = start + PerPage
  BY <1>1
<1>12. ASSUME ~last PROVE n + 1 < DepthPages /\ (n + 1) * PerPage < Len(s)
  <2>1. PageItems(q, n) # {}
    BY <1>9, <1>12
  <2>2. Len(s) > 0
    BY <1>1, <2>1 DEF PageItems
  <2>3. n + 1 < r
    BY <1>7, <1>9, <1>10, <1>12, <2>2, DepthCoversSearch
  <2> QED
    BY <1>7, <1>10, <2>3, DepthCoversSearch
<1>13. ASSUME last, NEW i \in 1..Len(s) PROVE i <= start + PerPage
  <2>1. CASE PageItems(q, n) = {}
    <3>1. ~(start < Len(s))
      <4> SUFFICES ASSUME start < Len(s) PROVE FALSE
        OBVIOUS
      <4>1. s[start + 1] \in PageItems(q, n)
        BY <1>1, <1>5
      <4> QED
        BY <2>1, <4>1
    <3> QED
      BY <1>1, <3>1
  <2>2. CASE PageItems(q, n) # {}
    <3>1. n + 1 >= r
      BY <1>9, <1>13, <2>2
    <3>2. r * PerPage <= (n + 1) * PerPage
      BY <1>1, <3>1, Products
    <3>3. Len(s) <= r * PerPage
      <4>1. CASE r = k
        BY <1>7, <4>1
      <4>2. CASE r = DepthPages
        BY <1>1, <4>2, DepthCoversSearch, Numbers
      <4> QED
        BY <1>10, <4>1, <4>2
    <3> QED
      BY <1>1, <1>8, <1>11, <3>2, <3>3
  <2> QED
    BY <2>1, <2>2
<1>14. ASSUME Reaches(q, n), Len(s) > 0 PROVE PageItems(q, n) # {}
  <2>1. start < Len(s)
    BY <1>1, <1>14 DEF Reaches
  <2>2. s[start + 1] \in PageItems(q, n)
    BY <1>1, <1>5, <2>1
  <2> QED
    BY <2>2
<1> QED
  BY <1>3, <1>4, <1>5, <1>12, <1>13, <1>14

-----------------------------------------------------------------------------
(* What the steps of a batch do *)

dataVars == <<listing, archived, plan, page, cycle, stable, hydrated>>
cleanVars == <<cliRuns, lockLosses>>

Others(w) == \A x \in Worker \ {w} : work'[x] = work[x]

\* A batch ends: at a limit, after its work, or by a failure.
Ends(w) ==
    /\ UNCHANGED dataVars /\ UNCHANGED cleanVars /\ Others(w) /\ work'[w] = Idle
    /\ lock' = IF lock = w THEN NoWorker ELSE lock

Locks(w) ==
    /\ UNCHANGED dataVars /\ UNCHANGED cleanVars /\ Others(w)
    /\ w \in Scheduler /\ work[w].pc = "idle" /\ lock = NoWorker /\ lock' = w
    /\ work'[w].pc = "locked" /\ work'[w].plan = work[w].plan /\ work'[w].parts = work[w].parts

Drops(w) ==
    /\ UNCHANGED dataVars /\ work' = work /\ lockLosses' = lockLosses + 1 /\ cliRuns' = cliRuns

Reads(w) ==
    /\ UNCHANGED dataVars /\ UNCHANGED cleanVars /\ Others(w) /\ lock' = lock
    /\ work[w].pc = "locked"
    /\ work'[w].pc = IF plan.cycle = 0 \/ plan.complete THEN "planning" ELSE "choosing"
    /\ work'[w].plan = plan /\ work'[w].parts = 0

Drafts(w) ==
    /\ UNCHANGED dataVars /\ UNCHANGED cleanVars /\ Others(w) /\ lock' = lock
    /\ work[w].pc = "planning" /\ work'[w].pc = "starting"
    /\ work'[w].plan = Planned /\ work'[w].parts = work[w].parts

Starts(w, c) ==
    /\ UNCHANGED <<listing, archived, plan, page, hydrated>> /\ UNCHANGED cleanVars
    /\ Others(w) /\ lock' = lock
    /\ work[w].pc = "starting" /\ work'[w].pc = "storing"
    /\ cycle[c].status = "none" /\ cycle'[c].status = "running" /\ stable'[c] = Listed
    /\ \A d \in Id \ {c} : cycle'[d] = cycle[d] /\ stable'[d] = stable[d]
    /\ work'[w].plan.cycle = c /\ work'[w].plan.done = work[w].plan.done
    /\ work'[w].plan.complete = work[w].plan.complete /\ work'[w].parts = work[w].parts

Stores(w) ==
    /\ UNCHANGED <<listing, archived, page, cycle, stable, hydrated>> /\ UNCHANGED cleanVars
    /\ Others(w) /\ lock' = lock
    /\ work[w].pc = "storing" /\ work'[w].pc = "choosing" /\ plan' = work[w].plan
    /\ work'[w].plan = work[w].plan /\ work'[w].parts = work[w].parts

Begins(w) ==
    /\ UNCHANGED dataVars /\ Others(w) /\ lock' = lock
    /\ cliRuns' = cliRuns + 1 /\ lockLosses' = lockLosses
    /\ w \in Cli /\ work[w].pc = "idle" /\ work'[w].pc = "choosing"
    /\ work'[w].plan.cycle = 0 /\ ~work'[w].plan.complete /\ work'[w].parts = 0
    /\ work'[w].plan.done \in 0..Partitions

Finishes(w) ==
    /\ UNCHANGED dataVars /\ UNCHANGED cleanVars /\ Others(w) /\ lock' = lock
    /\ w \in Scheduler /\ work[w].pc = "choosing" /\ work'[w].pc = "completing"
    /\ work[w].plan.done = Partitions
    /\ work'[w].plan = work[w].plan /\ work'[w].parts = work[w].parts

Opens(w) ==
    /\ UNCHANGED dataVars /\ UNCHANGED cleanVars /\ Others(w) /\ lock' = lock
    /\ work[w].pc = "choosing" /\ work'[w].pc = "fetching"
    /\ work[w].plan.done < Partitions /\ work'[w].idx = page[work[w].plan.done + 1]
    /\ work'[w].plan = work[w].plan /\ work'[w].parts = work[w].parts

Fetches(w) ==
    LET b == work[w]
        q == b.plan.done + 1
        last == Terminal(PageItems(q, b.idx), b.idx, Smaller(ReportedPages(q), DepthPages))
    IN  /\ UNCHANGED dataVars /\ UNCHANGED cleanVars /\ Others(w) /\ lock' = lock
        /\ b.pc = "fetching" /\ work'[w].pc = "saving"
        /\ work'[w].plan = b.plan /\ work'[w].parts = b.parts /\ work'[w].idx = b.idx
        /\ work'[w].items = PageItems(q, b.idx) /\ work'[w].terminal = last
        /\ work'[w].next = IF last THEN 0 ELSE b.idx + 1

Saves(w) ==
    LET b == work[w]
        q == b.plan.done + 1
    IN  /\ UNCHANGED <<listing, archived, plan, cycle, stable>> /\ UNCHANGED cleanVars
        /\ Others(w) /\ lock' = lock
        /\ b.pc = "saving" /\ work'[w].pc = IF b.terminal THEN "advancing" ELSE "fetching"
        /\ page'[q] = b.next /\ \A r \in Part \ {q} : page'[r] = page[r]
        /\ \A c \in Id : hydrated'[c] = IF cycle[c].status = "running"
                                        THEN hydrated[c] \cup ({q} \X b.items) ELSE hydrated[c]
        /\ work'[w].plan = b.plan /\ work'[w].parts = b.parts /\ work'[w].idx = b.next

Advances(w) ==
    LET b == work[w]
    IN  /\ UNCHANGED <<listing, archived, page, cycle, stable, hydrated>> /\ UNCHANGED cleanVars
        /\ Others(w) /\ lock' = lock
        /\ b.pc = "advancing"
        /\ work'[w].pc = IF w \in Cli THEN "choosing" ELSE "progressing"
        /\ plan' = IF w \in Cli THEN plan ELSE work'[w].plan
        /\ work'[w].plan.cycle = b.plan.cycle /\ work'[w].plan.done = b.plan.done + 1
        /\ work'[w].plan.complete = b.plan.complete /\ work'[w].parts = b.parts + 1

Reports(w) ==
    /\ UNCHANGED <<listing, archived, plan, page, stable, hydrated>> /\ UNCHANGED cleanVars
    /\ Others(w) /\ lock' = lock
    /\ work[w].pc = "progressing" /\ work'[w].pc = "choosing"
    /\ \A c \in Id : cycle'[c].status = cycle[c].status
    /\ work'[w].plan = work[w].plan /\ work'[w].parts = work[w].parts

Completes(w) ==
    LET c == work[w].plan.cycle
    IN  /\ UNCHANGED <<listing, archived, plan, page, stable, hydrated>> /\ UNCHANGED cleanVars
        /\ Others(w) /\ lock' = lock
        /\ work[w].pc = "completing" /\ work'[w].pc = "closing"
        /\ c \in Id => cycle'[c].status = "complete"
        /\ \A d \in Id \ {c} : cycle'[d] = cycle[d]
        /\ work'[w].plan = work[w].plan /\ work'[w].parts = work[w].parts

Closes(w) ==
    /\ UNCHANGED <<listing, archived, page, cycle, stable, hydrated>> /\ UNCHANGED cleanVars
    /\ Others(w) /\ lock' = lock
    /\ work[w].pc = "closing" /\ work'[w].pc = "snapshotting"
    /\ plan'.cycle = work[w].plan.cycle /\ plan'.done = work[w].plan.done /\ plan'.complete = TRUE
    /\ work'[w].plan = work[w].plan /\ work'[w].parts = work[w].parts

Publishes(q, v) ==
    /\ UNCHANGED <<archived, plan, page, cycle, stable, hydrated>> /\ UNCHANGED cleanVars
    /\ work' = work /\ lock' = lock
    /\ Len(listing[q]) < SearchCap /\ v \in Item
    /\ listing' = [listing EXCEPT ![q] = <<v>> \o @]

Archives(q) ==
    /\ UNCHANGED <<plan, page, cycle, hydrated>> /\ UNCHANGED cleanVars
    /\ work' = work /\ lock' = lock
    /\ archived' = archived + 1
    /\ \E i \in 1..Len(listing[q]) : listing' = [listing EXCEPT ![q] = Without(@, i)]
    /\ \A c \in Id : stable'[c] \subseteq stable[c]

Moves(w) ==
    \/ Ends(w) \/ Locks(w) \/ Reads(w) \/ Drafts(w) \/ (\E c \in Id : Starts(w, c))
    \/ Stores(w) \/ Begins(w) \/ Finishes(w) \/ Opens(w) \/ Fetches(w) \/ Saves(w)
    \/ Advances(w) \/ Reports(w) \/ Completes(w) \/ Closes(w)

\* Every step is one of these.
Effect ==
    \/ \E q \in Part, v \in Item : Publishes(q, v)
    \/ \E q \in Part : Archives(q)
    \/ \E w \in Worker : Drops(w) \/ Moves(w)
    \/ UNCHANGED <<dataVars, cleanVars, work, lock>>

LEMMA BatchFields ==
    ASSUME TypeOK, NEW w \in Worker
    PROVE  /\ work \in [Worker -> Batch] /\ work[w] \in Batch
           /\ work[w].plan \in Plan /\ work[w].plan.done \in 0..Partitions
           /\ work[w].plan.cycle \in 0..MaxCycles /\ work[w].plan.complete \in BOOLEAN
           /\ work[w].plan.found \in [Part -> Nat]
           /\ work[w].idx \in Nat /\ work[w].next \in Nat /\ work[w].items \subseteq Item
           /\ work[w].parts \in 0..Partitions /\ work[w].remaining \in Int /\ work[w].pages \in Nat
<1>1. work \in [Worker -> Batch] /\ work[w] \in Batch
  BY DEF TypeOK
<1>2. work[w].plan \in Plan
  BY <1>1 DEF Batch
<1> QED
  BY <1>1, <1>2 DEF Batch, Plan

LEMMA LeaveEnds ==
    ASSUME TypeOK, NEW w \in Worker, Leave(w), UNCHANGED dataVars, UNCHANGED cleanVars
    PROVE  Ends(w)
  BY BatchFields DEF Leave, Ends, Others

LEMMA BecomeEffect ==
    ASSUME TypeOK, NEW w \in Worker, NEW pc, Become(w, pc)
    PROVE  /\ Others(w) /\ work'[w].pc = pc
           /\ work'[w].plan = work[w].plan /\ work'[w].parts = work[w].parts
  BY BatchFields DEF Become, Others, Batch

LEMMA EnvEffect ==
    ASSUME TypeOK, NEW q \in Part, NEW v \in Item
    PROVE  /\ Publish(q, v) => Publishes(q, v)
           /\ Archive(q, v) => Archives(q)
<1> USE DEF dataVars, cleanVars, ghostVars
<1>1. Publish(q, v) => Publishes(q, v)
  BY DEF Publish, Publishes
<1>2. Archive(q, v) => Archives(q)
  <2> SUFFICES ASSUME Archive(q, v) PROVE Archives(q)
    OBVIOUS
  <2>1. \A c \in Id : stable'[c] \subseteq stable[c]
    BY DEF Archive
  <2>2. \E i \in 1..Len(listing[q]) : listing' = [listing EXCEPT ![q] = Without(@, i)]
    BY Zenon DEF Archive
  <2>3. UNCHANGED <<plan, page, cycle, hydrated, work, lock, cliRuns, lockLosses>> /\ archived' = archived + 1
    BY DEF Archive
  <2> QED
    BY <2>1, <2>2, <2>3 DEF Archives
<1> QED
  BY <1>1, <1>2

LEMMA LockEffect ==
    ASSUME TypeOK, NEW w \in Worker
    PROVE  /\ TrySchedulerLock(w) => Locks(w)
           /\ LoseLock(w) => Drops(w)
           /\ GetCheckpoint(w) => Reads(w)
<1> USE DEF dataVars, cleanVars, ghostVars, envVars
<1>1. TrySchedulerLock(w) => Locks(w)
  BY BecomeEffect DEF TrySchedulerLock, Locks
<1>2. LoseLock(w) => Drops(w)
  BY DEF LoseLock, Drops
<1>3. ASSUME GetCheckpoint(w) PROVE Reads(w)
  <2>1. Others(w)
    BY <1>3, BatchFields DEF GetCheckpoint, Others
  <2>2. work'[w] = [Idle EXCEPT
          !.pc = IF plan.cycle = 0 \/ plan.complete THEN "planning" ELSE "choosing",
          !.plan = plan, !.remaining = MaxRequests]
    BY <1>3, BatchFields DEF GetCheckpoint
  <2>3. /\ work'[w].pc = IF plan.cycle = 0 \/ plan.complete THEN "planning" ELSE "choosing"
        /\ work'[w].plan = plan /\ work'[w].parts = 0
    BY <2>2 DEF Idle
  <2> QED
    BY <1>3, <2>1, <2>3 DEF GetCheckpoint, Reads
<1> QED
  BY <1>1, <1>2, <1>3

LEMMA PlanEffect ==
    ASSUME TypeOK, NEW w \in Worker
    PROVE  /\ PlanIT(w) => Drafts(w)
           /\ StartCli(w) => Begins(w)
           /\ StorePlan(w) => Stores(w)
           /\ StartCycle(w) => Ends(w) \/ \E c \in Id : Starts(w, c)
<1> USE DEF dataVars, cleanVars, ghostVars, envVars
<1>0. /\ Planned.cycle = 0 /\ Planned.complete = FALSE /\ Planned.done = 0
      /\ \A n : /\ [Planned EXCEPT !.done = n].cycle = 0
                /\ [Planned EXCEPT !.done = n].complete = FALSE
                /\ [Planned EXCEPT !.done = n].done = n
  BY DEF Planned, NoPlan
<1>1. ASSUME PlanIT(w) PROVE Drafts(w)
  <2>1. Others(w)
    BY <1>1, BatchFields DEF PlanIT, Others
  <2>2. work'[w] = [work[w] EXCEPT !.pc = "starting", !.plan = Planned, !.remaining = BudgetAfterPlan]
    BY <1>1, BatchFields DEF PlanIT
  <2>3. work'[w].pc = "starting" /\ work'[w].plan = Planned /\ work'[w].parts = work[w].parts
    BY <2>2, BatchFields DEF Batch
  <2> QED
    BY <1>1, <2>1, <2>3 DEF PlanIT, Drafts
<1>2. ASSUME StartCli(w) PROVE Begins(w)
  <2>1. Others(w)
    BY <1>2, BatchFields DEF StartCli, Others
  <2>2. work'[w] = [Idle EXCEPT !.pc = "choosing", !.plan = [Planned EXCEPT !.done = cliNext],
                                !.remaining = BudgetAfterPlan]
    BY <1>2, BatchFields DEF StartCli
  <2>3. /\ work'[w].pc = "choosing" /\ work'[w].plan = [Planned EXCEPT !.done = cliNext]
        /\ work'[w].parts = 0
    BY <2>2 DEF Idle
  <2>4. cliNext \in 0..Partitions
    BY DEF TypeOK
  <2> QED
    BY <1>0, <1>2, <2>1, <2>3, <2>4 DEF StartCli, Begins
<1>3. ASSUME StorePlan(w) PROVE Stores(w)
  BY <1>3, BecomeEffect DEF StorePlan, Stores
<1>4. ASSUME StartCycle(w) PROVE Ends(w) \/ \E c \in Id : Starts(w, c)
  <2>0. /\ UNCHANGED <<envVars, plan, cliNext, page, hydrated, cliRuns, faults, lockLosses>>
        /\ work[w].pc = "starting"
    BY <1>4, Zenon DEF StartCycle
  <2>1. CASE Leave(w) /\ UNCHANGED <<cycle, stable>>
    BY <2>0, <2>1, LeaveEnds
  <2>2. ASSUME NEW c \in Id, cycle[c].status = "none",
               cycle' = [cycle EXCEPT ![c] = [status |-> "running", completed |-> 0]],
               stable' = [stable EXCEPT ![c] = Listed],
               work' = [work EXCEPT ![w] = [@ EXCEPT !.pc = "storing", !.plan.cycle = c]],
               lock' = lock
        PROVE  Starts(w, c)
    <3>1. Others(w)
      BY <2>2, BatchFields DEF Others
    <3>2. work'[w] = [work[w] EXCEPT !.pc = "storing", !.plan.cycle = c]
      BY <2>2, BatchFields
    <3>3. /\ work'[w].pc = "storing" /\ work'[w].plan = [work[w].plan EXCEPT !.cycle = c]
          /\ work'[w].parts = work[w].parts
      BY <3>2, BatchFields DEF Batch
    <3>4. /\ work'[w].plan.cycle = c /\ work'[w].plan.done = work[w].plan.done
          /\ work'[w].plan.complete = work[w].plan.complete
      BY <3>3, BatchFields DEF Plan
    <3>5. /\ cycle'[c].status = "running" /\ stable'[c] = Listed
          /\ \A d \in Id \ {c} : cycle'[d] = cycle[d] /\ stable'[d] = stable[d]
      BY <2>2 DEF TypeOK
    <3> QED
      BY <2>0, <2>2, <3>1, <3>3, <3>4, <3>5 DEF Starts
  <2>3. PICK unused : unused = {c \in Id : cycle[c].status = "none"}
    OBVIOUS
  <2>4. \/ Leave(w) /\ UNCHANGED <<cycle, stable>>
        \/ \E c \in unused :
                /\ cycle' = [cycle EXCEPT ![c] = [status |-> "running", completed |-> 0]]
                /\ stable' = [stable EXCEPT ![c] = Listed]
                /\ work' = [work EXCEPT ![w] = [@ EXCEPT !.pc = "storing", !.plan.cycle = c]]
                /\ lock' = lock
    BY <1>4, <2>3, Zenon DEF StartCycle
  <2>5. \A c \in unused : c \in Id /\ cycle[c].status = "none"
    BY <2>3
  <2> QED
    BY <2>1, <2>2, <2>4, <2>5, Zenon
<1> QED
  BY <1>1, <1>2, <1>3, <1>4

LEMMA PartitionInHand ==
    ASSUME TypeOK, Shape, NEW w \in Worker, work[w].pc \in Paging
    PROVE  work[w].plan.done + 1 \in Part
<1>1. work[w].plan.done < Partitions
  BY DEF Shape, ShapeOf
<1> QED
  BY <1>1, BatchFields, Numbers DEF Part

LEMMA ChooseEffect ==
    ASSUME TypeOK, NEW w \in Worker, NextPartition(w)
    PROVE  Ends(w) \/ Finishes(w) \/ Opens(w)
<1> USE DEF dataVars, cleanVars, ghostVars, envVars
<1>1. /\ work[w].pc = "choosing"
      /\ UNCHANGED dataVars /\ UNCHANGED cleanVars
  BY DEF NextPartition
<1>2. CASE Leave(w)
  BY <1>1, <1>2, LeaveEnds
<1>3. CASE w \notin Cli /\ work[w].plan.done = Partitions /\ Become(w, "completing") /\ lock' = lock
  BY <1>1, <1>3, BecomeEffect DEF Finishes, Worker
<1>4. CASE /\ work[w].plan.done < Partitions
           /\ work' = [work EXCEPT ![w] = [@ EXCEPT
                    !.pc = "fetching", !.idx = StartPage(work[w].plan.done + 1),
                    !.limit = PageLimit(w), !.pages = 0]]
           /\ lock' = lock
  <2>1. Others(w)
    BY <1>4, BatchFields DEF Others
  <2>2. work'[w] = [work[w] EXCEPT !.pc = "fetching", !.idx = StartPage(work[w].plan.done + 1),
                                   !.limit = PageLimit(w), !.pages = 0]
    BY <1>4, BatchFields
  <2>3. /\ work'[w].pc = "fetching" /\ work'[w].idx = StartPage(work[w].plan.done + 1)
        /\ work'[w].plan = work[w].plan /\ work'[w].parts = work[w].parts
    BY <2>2, BatchFields DEF Batch
  <2> QED
    BY <1>1, <1>4, <2>1, <2>3 DEF Opens, StartPage
<1> QED
  BY <1>2, <1>3, <1>4 DEF NextPartition

LEMMA FetchEffect ==
    ASSUME TypeOK, NEW w \in Worker, FetchPage(w)
    PROVE  Ends(w) \/ Fetches(w)
<1> USE DEF dataVars, cleanVars, ghostVars, envVars
<1>1. PICK b, q, items : b = work[w] /\ q = b.plan.done + 1 /\ items = PageItems(q, b.idx)
  OBVIOUS
<1>2. PICK last : last = Terminal(items, b.idx, Smaller(ReportedPages(q), DepthPages))
  OBVIOUS
<1>3. /\ b.pc = "fetching"
      /\ UNCHANGED dataVars /\ UNCHANGED cleanVars
  BY <1>1 DEF FetchPage
<1>4. CASE Leave(w)
  BY <1>3, <1>4, LeaveEnds
<1>5. CASE ~Leave(w)
  <2>1. /\ work' = [work EXCEPT ![w] = [@ EXCEPT
                    !.pc = "saving", !.pages = b.pages + 1, !.items = items, !.terminal = last,
                    !.next = NextCursor(b.idx, last),
                    !.remaining = b.remaining - (1 + Cardinality(items))]]
        /\ lock' = lock
    BY <1>1, <1>2, <1>5, Zenon DEF FetchPage
  <2>2. Others(w)
    BY <2>1, BatchFields DEF Others
  <2>3. work'[w] = [work[w] EXCEPT
                    !.pc = "saving", !.pages = b.pages + 1, !.items = items, !.terminal = last,
                    !.next = NextCursor(b.idx, last),
                    !.remaining = b.remaining - (1 + Cardinality(items))]
    BY <2>1, BatchFields
  <2>4. /\ work'[w].pc = "saving" /\ work'[w].plan = b.plan /\ work'[w].parts = b.parts
        /\ work'[w].idx = b.idx /\ work'[w].items = items /\ work'[w].terminal = last
        /\ work'[w].next = NextCursor(b.idx, last)
    BY <1>1, <2>3, BatchFields DEF Batch
  <2> QED
    BY <1>1, <1>2, <1>3, <2>1, <2>2, <2>4 DEF Fetches, NextCursor
<1> QED
  BY <1>4, <1>5

LEMMA SaveEffect ==
    ASSUME TypeOK, Shape, NEW w \in Worker, SavePage(w)
    PROVE  Saves(w)
<1> USE DEF dataVars, cleanVars, ghostVars, envVars
<1>1. PICK b, q : b = work[w] /\ q = b.plan.done + 1
  OBVIOUS
<1>2. q \in Part
  BY <1>1, PartitionInHand DEF SavePage, Paging
<1>3. /\ b.pc = "saving" /\ lock' = lock
      /\ UNCHANGED <<listing, archived, plan, cycle, stable>> /\ UNCHANGED cleanVars
  BY <1>1 DEF SavePage
<1>4. page'[q] = b.next /\ \A r \in Part \ {q} : page'[r] = page[r]
  BY <1>1, <1>2 DEF SavePage, TypeOK
<1>5. \A c \in Id : hydrated'[c] = IF cycle[c].status = "running"
                                   THEN hydrated[c] \cup ({q} \X b.items) ELSE hydrated[c]
  BY <1>1 DEF SavePage
<1>6. work' = [work EXCEPT ![w] = [@ EXCEPT
              !.pc = IF b.terminal THEN "advancing" ELSE "fetching",
              !.idx = b.next, !.items = {}, !.next = 0, !.terminal = FALSE]]
  BY <1>1 DEF SavePage
<1>7. Others(w)
  BY <1>6, BatchFields DEF Others
<1>8. work'[w] = [b EXCEPT !.pc = IF b.terminal THEN "advancing" ELSE "fetching",
              !.idx = b.next, !.items = {}, !.next = 0, !.terminal = FALSE]
  BY <1>1, <1>6, BatchFields
<1>9. /\ work'[w].pc = IF b.terminal THEN "advancing" ELSE "fetching"
      /\ work'[w].plan = b.plan /\ work'[w].parts = b.parts /\ work'[w].idx = b.next
  BY <1>1, <1>8, BatchFields DEF Batch
<1> QED
  BY <1>1, <1>3, <1>4, <1>5, <1>7, <1>9 DEF Saves

LEMMA AdvanceEffect ==
    ASSUME TypeOK, NEW w \in Worker, AdvancePlan(w)
    PROVE  Advances(w)
<1> USE DEF dataVars, cleanVars, ghostVars, envVars
<1>1. PICK b : b = work[w]
  OBVIOUS
<1>2. PICK advanced : advanced = [b.plan EXCEPT !.done = @ + 1]
  OBVIOUS
<1>3. /\ b.pc = "advancing" /\ lock' = lock
      /\ UNCHANGED <<listing, archived, page, cycle, stable, hydrated>> /\ UNCHANGED cleanVars
  BY <1>1 DEF AdvancePlan
<1>4. work' = [work EXCEPT ![w] = [@ EXCEPT
              !.pc = IF w \in Cli THEN "choosing" ELSE "progressing",
              !.plan = advanced, !.parts = b.parts + 1, !.idx = 0, !.limit = 0, !.pages = 0]]
  BY <1>1, <1>2 DEF AdvancePlan
<1>5. plan' = IF w \in Cli THEN plan ELSE advanced
  BY <1>1, <1>2 DEF AdvancePlan
<1>6. Others(w)
  BY <1>4, BatchFields DEF Others
<1>7. work'[w] = [work[w] EXCEPT
              !.pc = IF w \in Cli THEN "choosing" ELSE "progressing",
              !.plan = advanced, !.parts = b.parts + 1, !.idx = 0, !.limit = 0, !.pages = 0]
  BY <1>4, BatchFields
<1>8. /\ work'[w].pc = IF w \in Cli THEN "choosing" ELSE "progressing"
      /\ work'[w].plan = advanced /\ work'[w].parts = b.parts + 1
  BY <1>1, <1>7, BatchFields DEF Batch
<1>9. /\ advanced.cycle = b.plan.cycle /\ advanced.done = b.plan.done + 1
      /\ advanced.complete = b.plan.complete
  BY <1>1, <1>2, BatchFields DEF Plan
<1> QED
  BY <1>1, <1>3, <1>5, <1>6, <1>8, <1>9 DEF Advances

LEMMA CycleEffect ==
    ASSUME TypeOK, NEW w \in Worker
    PROVE  /\ UpdateCycleProgress(w) => Ends(w) \/ Reports(w)
           /\ CompleteCycle(w) => Completes(w)
           /\ ClosePlan(w) => Closes(w)
           /\ RunDaily(w) => Ends(w)
           /\ Abort(w) => Ends(w)
<1> USE DEF dataVars, cleanVars, ghostVars, envVars
<1>1. ASSUME UpdateCycleProgress(w) PROVE Ends(w) \/ Reports(w)
  <2>1. CASE cycle[work[w].plan.cycle].status = "running"
    <3>1. /\ cycle' = [cycle EXCEPT ![work[w].plan.cycle].completed = Report(w)]
          /\ Become(w, "choosing") /\ lock' = lock
      BY <1>1, <2>1 DEF UpdateCycleProgress
    <3>2. \A c \in Id : cycle'[c].status = cycle[c].status
      <4>1. cycle \in [Id -> Cycle]
        BY DEF TypeOK
      <4> QED
        BY <3>1, <4>1 DEF Cycle
    <3> QED
      BY <1>1, <3>1, <3>2, BecomeEffect DEF UpdateCycleProgress, Reports
  <2>2. CASE cycle[work[w].plan.cycle].status # "running"
    <3>1. Leave(w) /\ UNCHANGED dataVars /\ UNCHANGED cleanVars
      BY <1>1, <2>2 DEF UpdateCycleProgress
    <3> QED
      BY <3>1, LeaveEnds
  <2> QED
    BY <2>1, <2>2
<1>2. ASSUME CompleteCycle(w) PROVE Completes(w)
  <2>1. PICK c : c = work[w].plan.cycle
    OBVIOUS
  <2>2. (c \in Id => cycle'[c].status = "complete") /\ \A d \in Id \ {c} : cycle'[d] = cycle[d]
    BY <1>2, <2>1 DEF CompleteCycle, TypeOK
  <2>3. Become(w, "closing") /\ lock' = lock /\ work[w].pc = "completing"
    BY <1>2 DEF CompleteCycle
  <2>4. UNCHANGED <<listing, archived, plan, page, stable, hydrated>> /\ UNCHANGED cleanVars
    BY <1>2 DEF CompleteCycle
  <2>5. Others(w) /\ work'[w].pc = "closing" /\ work'[w].plan = work[w].plan /\ work'[w].parts = work[w].parts
    BY <2>3, BecomeEffect
  <2> QED
    BY <2>1, <2>2, <2>3, <2>4, <2>5 DEF Completes
<1>3. ASSUME ClosePlan(w) PROVE Closes(w)
  <2>1. plan' = [work[w].plan EXCEPT !.complete = TRUE]
    BY <1>3 DEF ClosePlan
  <2>2. /\ plan'.cycle = work[w].plan.cycle /\ plan'.done = work[w].plan.done
        /\ plan'.complete = TRUE
    BY <2>1, BatchFields DEF Plan
  <2> QED
    BY <1>3, <2>2, BecomeEffect DEF ClosePlan, Closes
<1>4. RunDaily(w) => Ends(w)
  BY LeaveEnds DEF RunDaily
<1>5. Abort(w) => Ends(w)
  BY LeaveEnds DEF Abort
<1> QED
  BY <1>1, <1>2, <1>3, <1>4, <1>5

LEMMA EffectNext == ASSUME TypeOK, Shape, [Next]_vars PROVE Effect
<1>1. CASE \E q \in Part, v \in Item : Publish(q, v) \/ Archive(q, v)
  BY <1>1, EnvEffect DEF Effect
<1>2. ASSUME NEW w \in Worker, BatchStep(w) PROVE Effect
  <2>1. \/ Ends(w) \/ Reads(w) \/ Drafts(w) \/ (\E c \in Id : Starts(w, c)) \/ Stores(w)
        \/ Finishes(w) \/ Opens(w) \/ Fetches(w) \/ Saves(w) \/ Advances(w)
        \/ Reports(w) \/ Completes(w) \/ Closes(w)
    BY <1>2, LockEffect, PlanEffect, ChooseEffect, FetchEffect, SaveEffect, AdvanceEffect, CycleEffect
    DEF BatchStep
  <2> QED
    BY <2>1 DEF Effect, Moves
<1>3. ASSUME NEW w \in Worker, TrySchedulerLock(w) \/ StartCli(w) \/ Abort(w) \/ LoseLock(w)
      PROVE  Effect
  BY <1>3, LockEffect, PlanEffect, CycleEffect DEF Effect, Moves
<1>4. CASE UNCHANGED vars
  BY <1>4 DEF vars, Effect, dataVars, cleanVars
<1> QED
  BY <1>1, <1>2, <1>3, <1>4 DEF Next

-----------------------------------------------------------------------------
(* Type correctness *)

LEMMA IdleType == Idle \in Batch /\ NoPlan \in Plan
  BY Numbers DEF Idle, Batch, PC, NoPlan, Plan

\* A step of a batch that moves it to a record of the right type keeps the table's type.
LEMMA MoveType ==
    ASSUME TypeOK, NEW w \in Worker, NEW b \in Batch, work' = [work EXCEPT ![w] = b]
    PROVE  work' \in [Worker -> Batch]
  BY DEF TypeOK

LEMMA LeaveType ==
    ASSUME TypeOK, NEW w \in Worker, Leave(w)
    PROVE  work' \in [Worker -> Batch] /\ lock' \in Scheduler \cup {NoWorker}
<1>1. work' = [work EXCEPT ![w] = Idle] /\ lock' = IF lock = w THEN NoWorker ELSE lock
  BY DEF Leave
<1>2. lock \in Scheduler \cup {NoWorker}
  BY DEF TypeOK
<1> QED
  BY <1>1, <1>2, IdleType, MoveType

LEMMA BecomeType ==
    ASSUME TypeOK, NEW w \in Worker, NEW pc \in PC, Become(w, pc)
    PROVE  work' \in [Worker -> Batch]
<1>1. work[w] \in Batch
  BY DEF TypeOK
<1>2. [work[w] EXCEPT !.pc = pc] \in Batch
  BY <1>1 DEF Batch
<1>3. work' = [work EXCEPT ![w] = [work[w] EXCEPT !.pc = pc]]
  BY DEF Become
<1> QED
  BY <1>2, <1>3, MoveType

LEMMA PlannedType == ASSUME TypeOK PROVE Planned \in Plan /\ BudgetAfterPlan \in Int
<1>1. \A q \in Part : Len(listing[q]) \in Nat
  BY DEF TypeOK
<1>2. PICK none, found : none = [q \in Part |-> 0] /\ found = [q \in Part |-> Len(listing[q])]
  OBVIOUS
<1>3. found \in [Part -> Nat]
  BY <1>1, <1>2
<1>4. NoPlan = [cycle |-> 0, done |-> 0, complete |-> FALSE, found |-> none]
  BY <1>2 DEF NoPlan
<1>5. Planned = [NoPlan EXCEPT !.found = found]
  BY <1>2 DEF Planned
<1>6. Planned = [cycle |-> 0, done |-> 0, complete |-> FALSE, found |-> found]
  BY <1>4, <1>5
<1> QED
  BY <1>3, <1>6, Numbers DEF Plan, BudgetAfterPlan

LEMMA PageLimitType ==
    ASSUME TypeOK, NEW w \in Worker, work[w].plan.done < Partitions, Affordable(w) >= 1
    PROVE  PageLimit(w) \in Nat
<1>1. PICK found : found = work[w].plan.found[work[w].plan.done + 1]
  OBVIOUS
<1>2. found \in Nat
  <2>1. work[w].plan.done + 1 \in Part
    BY BatchFields, Numbers DEF Part
  <2> QED
    BY <1>1, <2>1, BatchFields
<1>3. PICK planned : planned = (found + PerPage - 1) \div PerPage
  OBVIOUS
<1>4. planned \in Nat
  <2>1. Counts(planned, PerPage, found)
    BY <1>2, <1>3, Numbers, PageCount
  <2> QED
    BY <2>1 DEF Counts
<1>5. Affordable(w) \in Int
  <2>1. work[w].remaining \div (PerPage + 1) \in Int
    BY BatchFields, Numbers, Quotient
  <2> QED
    BY <2>1 DEF Affordable
<1>6. PICK funded : funded = Smaller(IF planned = 0 THEN 1 ELSE planned, Affordable(w))
  OBVIOUS
<1>7. funded \in Nat
  BY <1>4, <1>5, <1>6 DEF Smaller
<1>8. PageLimit(w) = Smaller(DepthPages, IF w \in Cli THEN funded ELSE Smaller(funded, MaxPagesPerPart))
  BY <1>1, <1>3, <1>6 DEF PageLimit
<1> QED
  BY <1>7, <1>8, Numbers, DepthCoversSearch DEF Smaller

LEMMA ListingType ==
    ASSUME TypeOK, NEW q \in Part, NEW v \in Item
    PROVE  /\ <<v>> \o listing[q] \in Seq(Item)
           /\ Len(<<v>> \o listing[q]) = Len(listing[q]) + 1
           /\ (<<v>> \o listing[q])[1] = v
           /\ \A i \in 1..Len(listing[q]) : (<<v>> \o listing[q])[i + 1] = listing[q][i]
           /\ \A i \in 1..Len(listing[q]) : /\ Without(listing[q], i) \in Seq(Item)
                                            /\ Len(Without(listing[q], i)) = Len(listing[q]) - 1
<1>1. PICK s \in Seq(Item) : s = listing[q]
  BY DEF TypeOK
<1>2. /\ <<v>> \o s \in Seq(Item) /\ Len(<<v>> \o s) = Len(s) + 1 /\ (<<v>> \o s)[1] = v
      /\ \A i \in 1..Len(s) : (<<v>> \o s)[i + 1] = s[i]
  OBVIOUS
<1>3. ASSUME NEW i \in 1..Len(s)
      PROVE  Without(s, i) \in Seq(Item) /\ Len(Without(s, i)) = Len(s) - 1
  <2>1. Len(s) - 1 \in Nat
    OBVIOUS
  <2>2. Without(s, i) \in [1..(Len(s) - 1) -> Item]
    BY DEF Without
  <2> QED
    BY <2>1, <2>2
<1> QED
  BY <1>1, <1>2, <1>3

LEMMA TypeInit == Init => TypeOK
<1> SUFFICES ASSUME Init PROVE TypeOK
  OBVIOUS
<1>1. listing \in [Part -> Seq(Item)]
  <2>1. PICK n \in [Part -> 0..SearchCap] : listing = [q \in Part |-> [i \in 1..n[q] |-> i]]
    BY DEF Init
  <2>2. ASSUME NEW q \in Part PROVE [i \in 1..n[q] |-> i] \in Seq(Item)
    <3>1. n[q] \in Nat /\ n[q] <= SearchCap
      BY Numbers
    <3>2. [i \in 1..n[q] |-> i] \in [1..n[q] -> Item]
      BY <3>1, Numbers DEF Item
    <3> QED
      BY <3>1, <3>2
  <2> QED
    BY <2>1, <2>2
<1>2. plan \in Plan /\ work \in [Worker -> Batch]
  BY IdleType DEF Init
<1>3. cycle \in [Id -> Cycle]
  BY Numbers DEF Init, Cycle
<1> QED
  BY <1>1, <1>2, <1>3, Numbers DEF Init, TypeOK

LEMMA TypeStep == ASSUME TypeOK, Shape, Served, [Next]_vars PROVE TypeOK'
<1> USE DEF envVars, ghostVars
<1>p. /\ "locked" \in PC /\ "planning" \in PC /\ "starting" \in PC /\ "storing" \in PC
      /\ "choosing" \in PC /\ "fetching" \in PC /\ "saving" \in PC /\ "advancing" \in PC
      /\ "progressing" \in PC /\ "completing" \in PC /\ "closing" \in PC /\ "snapshotting" \in PC
  BY DEF PC
<1>1. ASSUME NEW q \in Part, NEW v \in Item, Publish(q, v) PROVE TypeOK'
  <2>1. listing' \in [Part -> Seq(Item)]
    BY <1>1, ListingType DEF Publish, TypeOK
  <2>2. published' \in 0..MaxPublished
    BY <1>1, Numbers DEF Publish, TypeOK
  <2> QED
    BY <1>1, <2>1, <2>2 DEF Publish, TypeOK
<1>2. ASSUME NEW q \in Part, NEW v \in Item, Archive(q, v) PROVE TypeOK'
  <2>1. listing' \in [Part -> Seq(Item)]
    <3>1. PICK i \in 1..Len(listing[q]) : listing' = [listing EXCEPT ![q] = Without(listing[q], i)]
      BY <1>2, Zenon DEF Archive
    <3> QED
      BY <3>1, ListingType DEF TypeOK
  <2>2. archived' \in 0..MaxArchived
    BY <1>2, Numbers DEF Archive, TypeOK
  <2>3. stable' \in [Id -> SUBSET (Part \X Item)]
    BY <1>2 DEF Archive, TypeOK
  <2> QED
    BY <1>2, <2>1, <2>2, <2>3 DEF Archive, TypeOK
<1>3. ASSUME NEW w \in Worker, TrySchedulerLock(w) PROVE TypeOK'
  <2>1. work' \in [Worker -> Batch]
    BY <1>3, <1>p, BecomeType DEF TrySchedulerLock
  <2> QED
    BY <1>3, <2>1 DEF TrySchedulerLock, TypeOK
<1>4. ASSUME NEW w \in Worker, GetCheckpoint(w) PROVE TypeOK'
  <2>1. plan \in Plan /\ MaxRequests \in Int
    BY Numbers DEF TypeOK
  <2>2. [Idle EXCEPT !.pc = IF plan.cycle = 0 \/ plan.complete THEN "planning" ELSE "choosing",
                     !.plan = plan, !.remaining = MaxRequests] \in Batch
    <3>1. PICK pc \in PC : pc = IF plan.cycle = 0 \/ plan.complete THEN "planning" ELSE "choosing"
      BY <1>p
    <3>2. [Idle EXCEPT !.pc = pc, !.plan = plan, !.remaining = MaxRequests] \in Batch
      BY <2>1, IdleType DEF Batch
    <3> QED
      BY <3>1, <3>2
  <2>3. work' \in [Worker -> Batch]
    BY <1>4, <2>2, MoveType DEF GetCheckpoint
  <2> QED
    BY <1>4, <2>3 DEF GetCheckpoint, TypeOK
<1>5. ASSUME NEW w \in Worker, PlanIT(w) PROVE TypeOK'
  <2>1. [work[w] EXCEPT !.pc = "starting", !.plan = Planned, !.remaining = BudgetAfterPlan] \in Batch
    BY <1>p, PlannedType, BatchFields DEF Batch
  <2>2. work' \in [Worker -> Batch]
    BY <1>5, <2>1, MoveType DEF PlanIT
  <2> QED
    BY <1>5, <2>2 DEF PlanIT, TypeOK
<1>6. ASSUME NEW w \in Worker, StartCycle(w) PROVE TypeOK'
  <2>0. UNCHANGED <<envVars, plan, cliNext, page, hydrated, cliRuns, faults, lockLosses>>
    BY <1>6, Zenon DEF StartCycle
  <2>1. CASE Leave(w) /\ UNCHANGED <<cycle, stable>>
    BY <2>0, <2>1, LeaveType DEF TypeOK
  <2>2. ASSUME NEW c \in Id,
               cycle' = [cycle EXCEPT ![c] = [status |-> "running", completed |-> 0]],
               stable' = [stable EXCEPT ![c] = Listed],
               work' = [work EXCEPT ![w] = [@ EXCEPT !.pc = "storing", !.plan.cycle = c]],
               lock' = lock
        PROVE  TypeOK'
    <3>1. [status |-> "running", completed |-> 0] \in Cycle
      BY Numbers DEF Cycle
    <3>2. cycle' \in [Id -> Cycle] /\ stable' \in [Id -> SUBSET (Part \X Item)]
      BY <2>2, <3>1 DEF TypeOK, Listed
    <3>3. [work[w].plan EXCEPT !.cycle = c] \in Plan
      BY BatchFields, Numbers DEF Plan, Id
    <3>4. [work[w] EXCEPT !.pc = "storing", !.plan = [work[w].plan EXCEPT !.cycle = c]] \in Batch
      <4>1. PICK p \in Plan : p = [work[w].plan EXCEPT !.cycle = c]
        BY <3>3
      <4>2. [work[w] EXCEPT !.pc = "storing", !.plan = p] \in Batch
        BY <1>p, BatchFields DEF Batch
      <4> QED
        BY <4>1, <4>2
    <3>5. work' = [work EXCEPT ![w] = [work[w] EXCEPT !.pc = "storing",
                                                      !.plan = [work[w].plan EXCEPT !.cycle = c]]]
      BY <2>2, BatchFields DEF Batch
    <3>6. work' \in [Worker -> Batch]
      BY <3>4, <3>5, MoveType
    <3> QED
      BY <2>0, <2>2, <3>2, <3>6 DEF TypeOK
  <2> QED
    BY <1>6, <2>1, <2>2, Zenon DEF StartCycle
<1>7. ASSUME NEW w \in Worker, StorePlan(w) PROVE TypeOK'
  <2>1. work' \in [Worker -> Batch]
    BY <1>7, <1>p, BecomeType DEF StorePlan
  <2> QED
    BY <1>7, <2>1, BatchFields DEF StorePlan, TypeOK
<1>8. ASSUME NEW w \in Worker, StartCli(w) PROVE TypeOK'
  <2>1. [Planned EXCEPT !.done = cliNext] \in Plan /\ BudgetAfterPlan \in Int
    BY PlannedType DEF Plan, TypeOK
  <2>2. [Idle EXCEPT !.pc = "choosing", !.plan = [Planned EXCEPT !.done = cliNext],
                     !.remaining = BudgetAfterPlan] \in Batch
    <3>1. PICK p \in Plan : p = [Planned EXCEPT !.done = cliNext]
      BY <2>1
    <3>2. [Idle EXCEPT !.pc = "choosing", !.plan = p, !.remaining = BudgetAfterPlan] \in Batch
      BY <1>p, <2>1, IdleType DEF Batch
    <3> QED
      BY <3>1, <3>2
  <2>3. work' \in [Worker -> Batch]
    BY <1>8, <2>2, MoveType DEF StartCli
  <2>4. cliRuns' \in 0..MaxCliRuns
    <3>1. cliRuns \in 0..MaxCliRuns /\ cliRuns < MaxCliRuns /\ cliRuns' = cliRuns + 1
      BY <1>8 DEF StartCli, TypeOK
    <3> QED
      BY <3>1, Numbers
  <2> QED
    BY <1>8, <2>3, <2>4 DEF StartCli, TypeOK
<1>9. ASSUME NEW w \in Worker, NextPartition(w) PROVE TypeOK'
  <2>1. CASE Leave(w)
    BY <1>9, <2>1, LeaveType DEF NextPartition, TypeOK
  <2>2. CASE Become(w, "completing") /\ lock' = lock
    BY <1>9, <1>p, <2>2, BecomeType DEF NextPartition, TypeOK
  <2>3. CASE /\ work[w].plan.done < Partitions /\ Affordable(w) >= 1
             /\ work' = [work EXCEPT ![w] = [@ EXCEPT
                    !.pc = "fetching", !.idx = StartPage(work[w].plan.done + 1),
                    !.limit = PageLimit(w), !.pages = 0]]
             /\ lock' = lock
    <3>1. StartPage(work[w].plan.done + 1) \in Nat
      <4>1. work[w].plan.done + 1 \in Part
        <5>1. work[w].plan.done \in 0..Partitions /\ work[w].plan.done < Partitions
          BY <2>3, BatchFields
        <5> QED
          BY <5>1, Numbers DEF Part
      <4> QED
        BY <4>1 DEF StartPage, TypeOK
    <3>2. PageLimit(w) \in Nat
      BY <2>3, PageLimitType
    <3>3. [work[w] EXCEPT !.pc = "fetching", !.idx = StartPage(work[w].plan.done + 1),
                          !.limit = PageLimit(w), !.pages = 0] \in Batch
      BY <1>p, <3>1, <3>2, BatchFields DEF Batch
    <3>4. work' \in [Worker -> Batch]
      BY <2>3, <3>3, MoveType
    <3> QED
      BY <1>9, <2>3, <3>4 DEF NextPartition, TypeOK
  <2> QED
    BY <1>9, <2>1, <2>2, <2>3 DEF NextPartition
<1>10. ASSUME NEW w \in Worker, FetchPage(w) PROVE TypeOK'
  <2>1. CASE Leave(w)
    BY <1>10, <2>1, LeaveType DEF FetchPage, TypeOK
  <2>2. CASE ~Leave(w)
    <3>1. PICK b, q, items : b = work[w] /\ q = b.plan.done + 1 /\ items = PageItems(q, b.idx)
      OBVIOUS
    <3>2. PICK last : last = Terminal(items, b.idx, Smaller(ReportedPages(q), DepthPages))
      OBVIOUS
    <3>3. /\ work' = [work EXCEPT ![w] = [@ EXCEPT
                    !.pc = "saving", !.pages = b.pages + 1, !.items = items, !.terminal = last,
                    !.next = NextCursor(b.idx, last),
                    !.remaining = b.remaining - (1 + Cardinality(items))]]
          /\ lock' = lock
      BY <2>2, <1>10, <3>1, <3>2, Zenon DEF FetchPage
    <3>4. q \in Part
      BY <1>10, <3>1, PartitionInHand DEF FetchPage, Paging
    <3>5. items \in SUBSET Item /\ IsFiniteSet(items)
      BY <3>1, <3>4, PageFacts, BatchFields DEF Served
    <3>6. last \in BOOLEAN /\ NextCursor(b.idx, last) \in Nat
      BY <3>1, <3>2, BatchFields DEF Terminal, NextCursor
    <3>7. b.pages + 1 \in Nat /\ b.remaining - (1 + Cardinality(items)) \in Int /\ b \in Batch
      BY <3>1, <3>5, BatchFields, FS_CardinalityType
    <3>8. [work[w] EXCEPT
                    !.pc = "saving", !.pages = b.pages + 1, !.items = items, !.terminal = last,
                    !.next = NextCursor(b.idx, last),
                    !.remaining = b.remaining - (1 + Cardinality(items))] \in Batch
      <4>1. PICK n \in Nat, r \in Int, k \in Nat :
              /\ n = NextCursor(b.idx, last) /\ r = b.remaining - (1 + Cardinality(items))
              /\ k = b.pages + 1
        BY <3>6, <3>7
      <4>2. [b EXCEPT !.pc = "saving", !.pages = k, !.items = items, !.terminal = last,
                      !.next = n, !.remaining = r] \in Batch
        BY <1>p, <3>5, <3>6, <3>7 DEF Batch
      <4> QED
        BY <3>1, <4>1, <4>2
    <3>9. work' \in [Worker -> Batch]
      BY <3>3, <3>8, MoveType
    <3> QED
      BY <1>10, <3>3, <3>9 DEF FetchPage, TypeOK
  <2> QED
    BY <2>1, <2>2
<1>11. ASSUME NEW w \in Worker, SavePage(w) PROVE TypeOK'
  <2>1. PICK b, q : b = work[w] /\ q = b.plan.done + 1
    OBVIOUS
  <2>2. q \in Part /\ b \in Batch /\ b.next \in Nat /\ b.items \subseteq Item
    BY <1>11, <2>1, PartitionInHand, BatchFields DEF SavePage, Paging
  <2>3. page' \in [Part -> Nat]
    BY <1>11, <2>1, <2>2 DEF SavePage, TypeOK
  <2>4. hydrated' \in [Id -> SUBSET (Part \X Item)]
    <3>1. {q} \X b.items \subseteq Part \X Item
      BY <2>2
    <3>2. hydrated' = [c \in Id |-> IF cycle[c].status = "running"
                                     THEN hydrated[c] \cup ({q} \X b.items) ELSE hydrated[c]]
      BY <1>11, <2>1 DEF SavePage
    <3> QED
      BY <3>1, <3>2 DEF TypeOK
  <2>5. [work[w] EXCEPT !.pc = IF b.terminal THEN "advancing" ELSE "fetching",
              !.idx = b.next, !.items = {}, !.next = 0, !.terminal = FALSE] \in Batch
    <3>1. PICK pc \in PC : pc = IF b.terminal THEN "advancing" ELSE "fetching"
      BY <1>p
    <3>2. [b EXCEPT !.pc = pc, !.idx = b.next, !.items = {}, !.next = 0, !.terminal = FALSE] \in Batch
      BY <2>2 DEF Batch
    <3> QED
      BY <2>1, <3>1, <3>2
  <2>6. work' = [work EXCEPT ![w] = [work[w] EXCEPT
              !.pc = IF b.terminal THEN "advancing" ELSE "fetching",
              !.idx = b.next, !.items = {}, !.next = 0, !.terminal = FALSE]]
    BY <1>11, <2>1 DEF SavePage
  <2>7. work' \in [Worker -> Batch]
    BY <2>5, <2>6, MoveType
  <2> QED
    BY <1>11, <2>3, <2>4, <2>7 DEF SavePage, TypeOK
<1>12. ASSUME NEW w \in Worker, AdvancePlan(w) PROVE TypeOK'
  <2>1. PICK b : b = work[w]
    OBVIOUS
  <2>2. PICK advanced : advanced = [b.plan EXCEPT !.done = @ + 1]
    OBVIOUS
  <2>3. /\ b.plan.done < Partitions /\ b.parts <= b.plan.done /\ b \in Batch
        /\ b.plan \in Plan /\ b.plan.done \in 0..Partitions /\ b.parts \in 0..Partitions
    BY <1>12, <2>1, BatchFields DEF AdvancePlan, Shape, ShapeOf, Paging
  <2>4. b.plan.done + 1 \in 0..Partitions /\ b.parts + 1 \in 0..Partitions
    BY <2>3, Numbers
  <2>5. advanced \in Plan /\ advanced.done \in 0..Partitions
    BY <2>2, <2>3, <2>4 DEF Plan
  <2>6. work' = [work EXCEPT ![w] = [work[w] EXCEPT
              !.pc = IF w \in Cli THEN "choosing" ELSE "progressing",
              !.plan = advanced, !.parts = b.parts + 1, !.idx = 0, !.limit = 0, !.pages = 0]]
    BY <1>12, <2>1, <2>2 DEF AdvancePlan
  <2>7. [work[w] EXCEPT !.pc = IF w \in Cli THEN "choosing" ELSE "progressing",
              !.plan = advanced, !.parts = b.parts + 1, !.idx = 0, !.limit = 0, !.pages = 0] \in Batch
    <3>1. PICK pc \in PC : pc = IF w \in Cli THEN "choosing" ELSE "progressing"
      BY <1>p
    <3>2. PICK d \in 0..Partitions : d = b.parts + 1
      BY <2>4
    <3>3. [b EXCEPT !.pc = pc, !.plan = advanced, !.parts = d, !.idx = 0, !.limit = 0,
                    !.pages = 0] \in Batch
      BY <2>3, <2>5 DEF Batch
    <3> QED
      BY <2>1, <3>1, <3>2, <3>3
  <2>8. work' \in [Worker -> Batch]
    BY <2>6, <2>7, MoveType
  <2>9. plan' \in Plan /\ cliNext' \in 0..Partitions
    <3>1. CASE w \in Cli
      <4>1. plan' = plan /\ cliNext' = advanced.done % Partitions
        BY <1>12, <2>1, <2>2, <3>1 DEF AdvancePlan
      <4>2. advanced.done % Partitions \in 0..(Partitions - 1)
        BY <2>5, Numbers
      <4> QED
        BY <4>1, <4>2, Numbers DEF TypeOK
    <3>2. CASE w \notin Cli
      BY <1>12, <2>1, <2>2, <2>5, <3>2 DEF AdvancePlan, TypeOK
    <3> QED
      BY <3>1, <3>2
  <2> QED
    BY <1>12, <2>8, <2>9 DEF AdvancePlan, TypeOK
<1>13. ASSUME NEW w \in Worker, UpdateCycleProgress(w) PROVE TypeOK'
  <2>1. CASE /\ cycle' = [cycle EXCEPT ![work[w].plan.cycle].completed = Report(w)]
             /\ Become(w, "choosing") /\ lock' = lock
    <3>1. Report(w) \in 0..Partitions
      BY BatchFields DEF Report
    <3>2. cycle' \in [Id -> Cycle]
      BY <2>1, <3>1 DEF TypeOK, Cycle
    <3>3. work' \in [Worker -> Batch]
      BY <1>p, <2>1, BecomeType
    <3> QED
      BY <1>13, <2>1, <3>2, <3>3 DEF UpdateCycleProgress, TypeOK
  <2>2. CASE Leave(w) /\ cycle' = cycle
    BY <1>13, <2>2, LeaveType DEF UpdateCycleProgress, TypeOK
  <2> QED
    BY <1>13, <2>1, <2>2 DEF UpdateCycleProgress
<1>14. ASSUME NEW w \in Worker, CompleteCycle(w) PROVE TypeOK'
  <2>1. [status |-> "complete", completed |-> Partitions] \in Cycle
    BY Numbers DEF Cycle
  <2>2. cycle' \in [Id -> Cycle]
    BY <1>14, <2>1 DEF CompleteCycle, TypeOK
  <2>3. work' \in [Worker -> Batch]
    BY <1>14, <1>p, BecomeType DEF CompleteCycle
  <2> QED
    BY <1>14, <2>2, <2>3 DEF CompleteCycle, TypeOK
<1>15. ASSUME NEW w \in Worker, ClosePlan(w) PROVE TypeOK'
  <2>1. plan' \in Plan
    BY <1>15, BatchFields DEF ClosePlan, Plan
  <2>2. work' \in [Worker -> Batch]
    BY <1>15, <1>p, BecomeType DEF ClosePlan
  <2> QED
    BY <1>15, <2>1, <2>2 DEF ClosePlan, TypeOK
<1>16. ASSUME NEW w \in Worker, RunDaily(w) PROVE TypeOK'
  BY <1>16, LeaveType DEF RunDaily, TypeOK
<1>17. ASSUME NEW w \in Worker, Abort(w) PROVE TypeOK'
  BY <1>17, LeaveType, Numbers DEF Abort, TypeOK
<1>18. ASSUME NEW w \in Worker, LoseLock(w) PROVE TypeOK'
  BY <1>18, Numbers DEF LoseLock, TypeOK
<1>19. CASE UNCHANGED vars
  BY <1>19 DEF vars, TypeOK
<1> QED
  BY <1>1, <1>2, <1>3, <1>4, <1>5, <1>6, <1>7, <1>8, <1>9, <1>10, <1>11, <1>12, <1>13, <1>14,
     <1>15, <1>16, <1>17, <1>18, <1>19 DEF Next, BatchStep

-----------------------------------------------------------------------------
(* Shape *)

Began(c) == cycle[c].status # "none"

LEMMA StaysBegun ==
    ASSUME Effect, NEW c \in Id, Began(c)
    PROVE  Began(c)'
<1> USE DEF Began, dataVars
<1>1. CASE \E q \in Part, v \in Item : Publishes(q, v)
  BY <1>1 DEF Publishes
<1>2. CASE \E q \in Part : Archives(q)
  BY <1>2 DEF Archives
<1>3. ASSUME NEW w \in Worker, NEW d \in Id, Starts(w, d) PROVE Began(c)'
  BY <1>3 DEF Starts
<1>4. ASSUME NEW w \in Worker, Completes(w) PROVE Began(c)'
  <2>1. CASE c = work[w].plan.cycle
    BY <1>4, <2>1 DEF Completes
  <2>2. CASE c # work[w].plan.cycle
    BY <1>4, <2>2 DEF Completes
  <2> QED
    BY <2>1, <2>2
<1>5. ASSUME NEW w \in Worker, Reports(w) PROVE Began(c)'
  BY <1>5 DEF Reports
<1>6. ASSUME NEW w \in Worker,
             \/ Ends(w) \/ Locks(w) \/ Drops(w) \/ Reads(w) \/ Drafts(w) \/ Stores(w) \/ Begins(w)
             \/ Finishes(w) \/ Opens(w) \/ Fetches(w) \/ Saves(w) \/ Advances(w) \/ Closes(w)
      PROVE  Began(c)'
  BY <1>6 DEF Ends, Locks, Drops, Reads, Drafts, Stores, Begins, Finishes, Opens, Fetches, Saves,
              Advances, Closes
<1>7. CASE UNCHANGED <<dataVars, cleanVars, work, lock>>
  BY <1>7
<1> QED
  BY <1>1, <1>2, <1>3, <1>4, <1>5, <1>6, <1>7 DEF Effect, Moves

LEMMA ShapeFrame ==
    ASSUME Shape, Effect, TypeOK
    PROVE  /\ \A x \in Worker : work'[x] = work[x] => ShapeOf(x)'
           /\ plan' = plan => PlanShape'
<1>1. \A c \in Id : cycle[c].status # "none" => cycle'[c].status # "none"
  BY StaysBegun DEF Began
<1>2. ASSUME NEW x \in Worker, work'[x] = work[x] PROVE ShapeOf(x)'
  BY <1>1, <1>2 DEF Shape, ShapeOf
<1>3. ASSUME plan' = plan PROVE PlanShape'
  <2>1. plan.cycle \in 0..MaxCycles
    BY DEF TypeOK, Plan
  <2> QED
    BY <1>1, <1>3, <2>1, Numbers DEF Shape, PlanShape, Id
<1> QED
  BY <1>2, <1>3

LEMMA ShapeMove ==
    ASSUME TypeOK, Shape, Effect, NEW w \in Worker, Moves(w)
    PROVE  ShapeOf(w)'
<1>1. ShapeOf(w) /\ PlanShape
  BY DEF Shape
<1>2. \A c \in Id : cycle[c].status # "none" => cycle'[c].status # "none"
  BY StaysBegun DEF Began
<1>3. /\ plan \in Plan /\ plan.cycle \in 0..MaxCycles /\ plan.done \in 0..Partitions
      /\ work[w].plan.done \in 0..Partitions /\ work[w].parts \in 0..Partitions
      /\ work[w].plan.cycle \in 0..MaxCycles
      /\ Partitions \in Nat /\ MaxCycles \in Nat /\ 0 \notin Id
  BY BatchFields, Numbers DEF TypeOK, Plan, Id
<1>4. w \in Scheduler => w \notin Cli
  BY HydrationConstants
<1> USE DEF ShapeOf, Owning, Paging
<1>5. CASE Ends(w)
  BY <1>5, Numbers, <1>3 DEF Ends, Idle, NoPlan
<1>6. CASE Locks(w)
  BY <1>1, <1>4, <1>6 DEF Locks
<1>7. CASE Reads(w)
  <2>1. plan.cycle # 0 => plan.cycle \in Id
    BY <1>3 DEF Id
  <2> QED
    BY <1>1, <1>2, <1>3, <1>7, <2>1 DEF Reads, PlanShape
<1>8. CASE Drafts(w)
  <2>1. Planned.cycle = 0 /\ Planned.complete = FALSE /\ Planned.done = 0
    BY DEF Planned, NoPlan
  <2> QED
    BY <1>1, <1>3, <1>8, <2>1 DEF Drafts
<1>9. ASSUME NEW c \in Id, Starts(w, c) PROVE ShapeOf(w)'
  BY <1>1, <1>3, <1>9 DEF Starts
<1>10. CASE Stores(w)
  BY <1>1, <1>2, <1>3, <1>10 DEF Stores
<1>11. CASE Begins(w)
  BY <1>3, <1>4, <1>11 DEF Begins
<1>12. CASE Finishes(w)
  BY <1>1, <1>2, <1>3, <1>4, <1>12 DEF Finishes
<1>13. CASE Opens(w)
  BY <1>1, <1>2, <1>3, <1>13 DEF Opens
<1>14. CASE Fetches(w)
  BY <1>1, <1>2, <1>3, <1>14 DEF Fetches
<1>15. CASE Saves(w)
  BY <1>1, <1>2, <1>3, <1>15 DEF Saves
<1>16. CASE Advances(w)
  BY <1>1, <1>2, <1>3, <1>16 DEF Advances
<1>17. CASE Reports(w)
  BY <1>1, <1>2, <1>3, <1>17 DEF Reports
<1>18. CASE Completes(w)
  BY <1>1, <1>2, <1>3, <1>18 DEF Completes
<1>19. CASE Closes(w)
  BY <1>1, <1>2, <1>3, <1>19 DEF Closes
<1> QED
  BY <1>5, <1>6, <1>7, <1>8, <1>9, <1>10, <1>11, <1>12, <1>13, <1>14, <1>15, <1>16, <1>17, <1>18, <1>19
  DEF Moves

LEMMA MovesOne == ASSUME NEW w \in Worker, Moves(w) PROVE Others(w)
  BY DEF Moves, Ends, Locks, Reads, Drafts, Starts, Stores, Begins, Finishes, Opens, Fetches,
         Saves, Advances, Reports, Completes, Closes

LEMMA ShapeStep == ASSUME TypeOK, Shape, Effect PROVE Shape'
<1> USE DEF dataVars
<1>1. CASE \E q \in Part, v \in Item : Publishes(q, v)
  BY <1>1, ShapeFrame DEF Publishes, Shape
<1>2. CASE \E q \in Part : Archives(q)
  BY <1>2, ShapeFrame DEF Archives, Shape
<1>3. ASSUME NEW w \in Worker, Drops(w) PROVE Shape'
  BY <1>3, ShapeFrame DEF Drops, Shape
<1>4. CASE UNCHANGED <<dataVars, cleanVars, work, lock>>
  BY <1>4, ShapeFrame DEF Shape
<1>5. ASSUME NEW w \in Worker, Moves(w) PROVE Shape'
  <2>1. ShapeOf(w)'
    BY <1>5, ShapeMove
  <2>2. Others(w)
    BY <1>5, MovesOne
  <2>3. \A x \in Worker : ShapeOf(x)'
    BY <2>1, <2>2, ShapeFrame DEF Others
  <2>4. PlanShape'
    <3>0. work[w].plan.cycle \in 0..MaxCycles /\ work[w].plan.done \in 0..Partitions
          /\ w \in Scheduler \cup Cli /\ 0 \notin Id /\ Partitions \in Nat
      BY BatchFields, Numbers DEF Worker
    <3>1. CASE plan' = plan
      BY <3>1, ShapeFrame
    <3>2. CASE Stores(w)
      BY <2>1, <3>0, <3>2 DEF Stores, PlanShape, ShapeOf, Owning, Paging, Shape
    <3>3. CASE Advances(w)
      BY <2>1, <3>0, <3>1, <3>3 DEF Advances, PlanShape, ShapeOf, Owning, Paging, Shape
    <3>4. CASE Closes(w)
      BY <2>1, <3>0, <3>4 DEF Closes, PlanShape, ShapeOf, Owning, Paging, Shape
    <3> QED
      BY <1>5, <3>1, <3>2, <3>3, <3>4
      DEF Moves, Ends, Locks, Reads, Drafts, Starts, Begins, Finishes, Opens, Fetches, Saves,
          Reports, Completes
  <2> QED
    BY <2>3, <2>4 DEF Shape
<1> QED
  BY <1>1, <1>2, <1>3, <1>4, <1>5 DEF Effect

-----------------------------------------------------------------------------
(* Depth *)

\* Only Fetches and Saves concern a page that is about to be committed.
LEMMA NoPage ==
    ASSUME NEW w \in Worker, Moves(w), ~Fetches(w), ~Saves(w)
    PROVE  work'[w].pc # "saving" /\ page' = page /\ hydrated' = hydrated
<1> USE DEF dataVars
<1>1. CASE Ends(w)
  BY <1>1 DEF Ends, Idle
<1>2. CASE Locks(w) \/ Reads(w) \/ Drafts(w) \/ (\E c \in Id : Starts(w, c)) \/ Stores(w) \/ Begins(w)
  BY <1>2 DEF Locks, Reads, Drafts, Starts, Stores, Begins
<1>3. CASE Finishes(w) \/ Opens(w) \/ Advances(w) \/ Reports(w) \/ Completes(w) \/ Closes(w)
  BY <1>3 DEF Finishes, Opens, Advances, Reports, Completes, Closes
<1> QED
  BY <1>1, <1>2, <1>3 DEF Moves

LEMMA DepthStep == ASSUME TypeOK, Shape, Served, Depth, Effect PROVE Depth'
<1> USE DEF dataVars
<1>1. CASE page' = page /\ work' = work
  BY <1>1 DEF Depth, CursorWithinDepth
<1>2. ASSUME NEW w \in Worker, Fetches(w) PROVE Depth'
  <2>1. PICK b, q : b = work[w] /\ q = b.plan.done + 1
    OBVIOUS
  <2>2. PICK last : last = Terminal(PageItems(q, b.idx), b.idx, Smaller(ReportedPages(q), DepthPages))
    OBVIOUS
  <2>3. q \in Part /\ b.idx \in Nat
    BY <1>2, <2>1, PartitionInHand, BatchFields DEF Fetches, Paging
  <2>4. ~last => b.idx + 1 < DepthPages
    BY <2>2, <2>3, PageFacts DEF Served
  <2>5. work'[w].next = IF last THEN 0 ELSE b.idx + 1
    BY <1>2, <2>1, <2>2 DEF Fetches
  <2>6. work'[w].next < DepthPages
    BY <2>4, <2>5, DepthCoversSearch
  <2>7. Others(w) /\ page' = page
    BY <1>2 DEF Fetches
  <2> QED
    BY <2>6, <2>7 DEF Depth, CursorWithinDepth, Others
<1>3. ASSUME NEW w \in Worker, Saves(w) PROVE Depth'
  <2>1. Others(w) /\ work'[w].pc # "saving" /\ work[w].next < DepthPages
    BY <1>3 DEF Saves, Depth
  <2>2. PICK q : q = work[w].plan.done + 1
    OBVIOUS
  <2>3. page'[q] = work[w].next /\ \A r \in Part \ {q} : page'[r] = page[r]
    BY <1>3, <2>2 DEF Saves
  <2> QED
    BY <2>1, <2>3 DEF Depth, CursorWithinDepth, Others
<1>4. ASSUME NEW w \in Worker, Moves(w), ~Fetches(w), ~Saves(w) PROVE Depth'
  BY <1>4, NoPage, MovesOne DEF Depth, CursorWithinDepth, Others
<1> QED
  BY <1>1, <1>2, <1>3, <1>4 DEF Effect, Publishes, Archives, Drops

-----------------------------------------------------------------------------
(* Served *)

LEMMA PublishedListing ==
    ASSUME TypeOK, NEW q \in Part, NEW v \in Item, Publishes(q, v)
    PROVE  /\ listing'[q] = <<v>> \o listing[q] /\ \A r \in Part \ {q} : listing'[r] = listing[r]
           /\ Len(listing'[q]) = Len(listing[q]) + 1
           /\ \A r \in Part : /\ Len(listing[r]) \in Nat /\ Len(listing'[r]) \in Nat
                              /\ Len(listing'[r]) >= Len(listing[r])
           /\ Listed \subseteq Listed'
<1>1. listing'[q] = <<v>> \o listing[q] /\ \A r \in Part \ {q} : listing'[r] = listing[r]
  BY DEF Publishes, TypeOK
<1>2. /\ Len(listing'[q]) = Len(listing[q]) + 1
      /\ \A i \in 1..Len(listing[q]) : listing'[q][i + 1] = listing[q][i]
  BY <1>1, ListingType
<1>3. \A r \in Part : Len(listing[r]) \in Nat
  BY DEF TypeOK
<1>4. ASSUME NEW r \in Part PROVE Elements(listing[r]) \subseteq Elements(listing'[r])
  <2>1. CASE r = q
    <3> SUFFICES ASSUME NEW i \in 1..Len(listing[q]) PROVE listing[q][i] \in Elements(listing'[q])
      BY <2>1 DEF Elements
    <3>1. i + 1 \in 1..Len(listing'[q])
      BY <1>2, <1>3
    <3> QED
      BY <1>2, <3>1 DEF Elements
  <2>2. CASE r # q
    BY <1>1, <2>2
  <2> QED
    BY <2>1, <2>2
<1>5. Listed \subseteq Listed'
  BY <1>4 DEF Listed
<1> QED
  BY <1>1, <1>2, <1>3, <1>5

LEMMA MovesListing == ASSUME NEW w \in Worker, Moves(w) PROVE listing' = listing /\ archived' = archived
<1> USE DEF dataVars
<1>1. CASE Ends(w) \/ Locks(w) \/ Reads(w) \/ Drafts(w) \/ (\E c \in Id : Starts(w, c)) \/ Stores(w)
  BY <1>1 DEF Ends, Locks, Reads, Drafts, Starts, Stores
<1>2. CASE Begins(w) \/ Finishes(w) \/ Opens(w) \/ Fetches(w) \/ Saves(w)
  BY <1>2 DEF Begins, Finishes, Opens, Fetches, Saves
<1>3. CASE Advances(w) \/ Reports(w) \/ Completes(w) \/ Closes(w)
  BY <1>3 DEF Advances, Reports, Completes, Closes
<1> QED
  BY <1>1, <1>2, <1>3 DEF Moves

LEMMA LengthStep ==
    ASSUME TypeOK, Effect, \A q \in Part : Len(listing[q]) <= SearchCap
    PROVE  \A q \in Part : Len(listing'[q]) <= SearchCap
<1> USE DEF dataVars
<1>1. \A q \in Part : Len(listing[q]) \in Nat
  BY DEF TypeOK
<1>2. ASSUME NEW q \in Part, NEW v \in Item, Publishes(q, v)
      PROVE  \A r \in Part : Len(listing'[r]) <= SearchCap
  <2>1. Len(listing[q]) < SearchCap
    BY <1>2 DEF Publishes
  <2>2. /\ Len(listing'[q]) = Len(listing[q]) + 1
        /\ \A r \in Part \ {q} : listing'[r] = listing[r]
    BY <1>2, PublishedListing
  <2> QED
    BY <1>1, <2>1, <2>2, Numbers
<1>3. ASSUME NEW q \in Part, Archives(q) PROVE \A r \in Part : Len(listing'[r]) <= SearchCap
  <2>1. PICK i \in 1..Len(listing[q]) : listing' = [listing EXCEPT ![q] = Without(@, i)]
    BY <1>3 DEF Archives
  <2>2. listing'[q] = Without(listing[q], i) /\ \A r \in Part \ {q} : listing'[r] = listing[r]
    BY <2>1 DEF TypeOK
  <2>3. Len(Without(listing[q], i)) = Len(listing[q]) - 1
    BY <1>1 DEF Without
  <2> QED
    BY <1>1, <2>2, <2>3, Numbers
<1>4. ASSUME NEW w \in Worker, Moves(w) PROVE listing' = listing
  BY <1>4, MovesListing
<1> QED
  BY <1>2, <1>3, <1>4 DEF Effect, Drops

LEMMA ReachMove ==
    ASSUME TypeOK, Shape, Served, archived = 0, NEW w \in Worker, Moves(w)
    PROVE  ReachOf(w)' /\ \A q \in Part : Reaches(q, page[q])'
<1> USE DEF dataVars
<1>1. listing' = listing /\ archived' = archived
  BY MovesListing
<1>2. (\A q \in Part : Reaches(q, page[q])) /\ ReachOf(w)
  BY DEF Served
<1>3. \A q, n : Reaches(q, n)' <=> Reaches(q, n')
  BY <1>1 DEF Reaches
<1>4. CASE Fetches(w)
  <2>1. PICK b, q : b = work[w] /\ q = b.plan.done + 1
    OBVIOUS
  <2>2. PICK last : last = Terminal(PageItems(q, b.idx), b.idx, Smaller(ReportedPages(q), DepthPages))
    OBVIOUS
  <2>3. q \in Part /\ b.idx \in Nat
    BY <1>4, <2>1, PartitionInHand, BatchFields DEF Fetches, Paging
  <2>4. ~last => (b.idx + 1) * PerPage < Len(listing[q])
    BY <2>2, <2>3, PageFacts DEF Served
  <2>5. /\ work'[w].next = IF last THEN 0 ELSE b.idx + 1
        /\ work'[w].idx = b.idx /\ work'[w].plan = b.plan /\ page' = page
    BY <1>4, <2>1, <2>2 DEF Fetches
  <2>6. Reaches(q, b.idx)
    BY <1>2, <1>4, <2>1 DEF Fetches, ReachOf
  <2>7. Reaches(q, work'[w].next)
    BY <2>4, <2>5 DEF Reaches
  <2> QED
    BY <1>1, <1>2, <2>1, <2>5, <2>6, <2>7 DEF ReachOf, Reaches
<1>5. CASE Saves(w)
  <2>1. PICK q : q = work[w].plan.done + 1
    OBVIOUS
  <2>2. /\ page'[q] = work[w].next /\ \A r \in Part \ {q} : page'[r] = page[r]
        /\ work'[w].plan = work[w].plan /\ work'[w].idx = work[w].next /\ work'[w].pc # "saving"
    BY <1>5, <2>1 DEF Saves
  <2>3. Reaches(q, work[w].next)
    BY <1>2, <1>5, <2>1 DEF Saves, ReachOf
  <2> QED
    BY <1>1, <1>2, <2>1, <2>2, <2>3 DEF ReachOf, Reaches
<1>6. CASE Opens(w)
  <2>1. PICK q : q = work[w].plan.done + 1
    OBVIOUS
  <2>2. /\ page' = page /\ work'[w].plan = work[w].plan /\ work'[w].pc = "fetching"
        /\ work'[w].idx = page[q] /\ work[w].plan.done < Partitions
    BY <1>6, <2>1 DEF Opens
  <2>3. q \in Part
    <3>1. work[w].plan.done \in 0..Partitions
      BY BatchFields
    <3> QED
      BY <2>1, <2>2, <3>1, Numbers DEF Part
  <2> QED
    BY <1>1, <1>2, <2>1, <2>2, <2>3 DEF ReachOf, Reaches
<1>7. CASE ~Fetches(w) /\ ~Saves(w) /\ ~Opens(w)
  <2>1. page' = page
    BY <1>7, NoPage
  <2>2. work'[w].pc \notin {"fetching", "saving"}
    <3>1. CASE Ends(w)
      BY <3>1 DEF Ends, Idle
    <3>2. CASE Locks(w) \/ Reads(w) \/ Drafts(w) \/ (\E c \in Id : Starts(w, c)) \/ Stores(w) \/ Begins(w)
      BY <3>2 DEF Locks, Reads, Drafts, Starts, Stores, Begins
    <3>3. CASE Finishes(w) \/ Advances(w) \/ Reports(w) \/ Completes(w) \/ Closes(w)
      BY <3>3 DEF Finishes, Advances, Reports, Completes, Closes
    <3> QED
      BY <1>7, <3>1, <3>2, <3>3 DEF Moves
  <2> QED
    BY <1>1, <1>2, <2>1, <2>2 DEF ReachOf, Reaches
<1> QED
  BY <1>4, <1>5, <1>6, <1>7

LEMMA StableMove ==
    ASSUME TypeOK, Shape, NEW w \in Worker, Moves(w), NEW c \in Id
    PROVE  \/ stable'[c] = stable[c] /\ (Began(c)' => Began(c))
           \/ Starts(w, c)
<1> USE DEF dataVars, Began
<1>1. ASSUME NEW d \in Id, Starts(w, d), d # c PROVE stable'[c] = stable[c] /\ (Began(c)' => Began(c))
  BY <1>1 DEF Starts
<1>2. CASE Ends(w) \/ Locks(w) \/ Reads(w) \/ Drafts(w) \/ Stores(w) \/ Begins(w) \/ Finishes(w)
  BY <1>2 DEF Ends, Locks, Reads, Drafts, Stores, Begins, Finishes
<1>3. CASE Opens(w) \/ Fetches(w) \/ Saves(w) \/ Advances(w) \/ Reports(w) \/ Closes(w)
  BY <1>3 DEF Opens, Fetches, Saves, Advances, Reports, Closes
<1>4. CASE Completes(w)
  <2>1. stable' = stable /\ (c # work[w].plan.cycle => cycle'[c] = cycle[c])
    BY <1>4 DEF Completes
  <2>2. c = work[w].plan.cycle => cycle[c].status # "none"
    BY <1>4 DEF Completes, Shape, ShapeOf, Owning, Paging
  <2> QED
    BY <2>1, <2>2
<1> QED
  BY <1>1, <1>2, <1>3, <1>4 DEF Moves

LEMMA ServedStep == ASSUME TypeOK, Shape, Served, Effect PROVE Served'
<1> USE DEF dataVars
<1>1. \A q \in Part : Len(listing'[q]) <= SearchCap
  BY LengthStep DEF Served
<1> SUFFICES ASSUME archived' = 0
             PROVE  /\ \A c \in Id : stable'[c] \subseteq Listed'
                    /\ \A q \in Part : Reaches(q, page[q])'
                    /\ \A w \in Worker : ReachOf(w)'
  BY <1>1 DEF Served
<1>2. ~\E q \in Part : Archives(q)
  BY DEF Archives, TypeOK
<1>3. archived = 0
  BY <1>2, MovesListing DEF Effect, Publishes, Drops
<1>4. /\ \A c \in Id : stable[c] \subseteq Listed
      /\ \A q \in Part : Reaches(q, page[q])
      /\ \A w \in Worker : ReachOf(w)
  BY <1>3 DEF Served
<1>5. ASSUME NEW q \in Part, NEW v \in Item, Publishes(q, v)
      PROVE  /\ \A c \in Id : stable'[c] \subseteq Listed'
             /\ \A r \in Part : Reaches(r, page[r])'
             /\ \A w \in Worker : ReachOf(w)'
  <2>1. /\ \A r \in Part : Len(listing[r]) \in Nat /\ Len(listing'[r]) >= Len(listing[r])
        /\ Listed \subseteq Listed'
    BY <1>5, PublishedListing
  <2>2. stable' = stable /\ page' = page /\ work' = work
    BY <1>5 DEF Publishes
  <2>3. \A r \in Part, n \in Nat : Reaches(r, n) => (n > 0 => n * PerPage < Len(listing'[r]))
    <3>1. \A r \in Part : Len(listing'[r]) \in Nat
      BY <1>5, <2>1, PublishedListing
    <3> QED
      BY <2>1, <3>1, Numbers DEF Reaches
  <2>4. \A r \in Part : Reaches(r, page[r])'
    BY <1>4, <2>2, <2>3 DEF Reaches, TypeOK
  <2>5. ASSUME NEW w \in Worker PROVE ReachOf(w)'
    <3>1. PICK r : r = work[w].plan.done + 1
      OBVIOUS
    <3>2. CASE work[w].pc \notin {"fetching", "saving"}
      BY <2>2, <3>2 DEF ReachOf
    <3>3. CASE work[w].pc \in {"fetching", "saving"}
      <4>1. r \in Part /\ work[w].idx \in Nat /\ work[w].next \in Nat
        BY <3>1, <3>3, PartitionInHand, BatchFields DEF Paging
      <4> QED
        BY <1>4, <2>2, <2>3, <3>1, <4>1 DEF ReachOf, Reaches
    <3> QED
      BY <3>2, <3>3
  <2> QED
    BY <1>4, <2>1, <2>2, <2>4, <2>5
<1>6. ASSUME NEW w \in Worker, Moves(w)
      PROVE  /\ \A c \in Id : stable'[c] \subseteq Listed'
             /\ \A q \in Part : Reaches(q, page[q])'
             /\ \A x \in Worker : ReachOf(x)'
  <2>1. ReachOf(w)' /\ (\A q \in Part : Reaches(q, page[q])') /\ Others(w) /\ listing' = listing
    BY <1>3, <1>6, ReachMove, MovesOne, MovesListing
  <2>2. \A x \in Worker : ReachOf(x)'
    BY <1>4, <2>1 DEF ReachOf, Reaches, Others
  <2>3. \A c \in Id : stable'[c] = stable[c] \/ stable'[c] = Listed
    BY <1>6, StableMove DEF Starts
  <2>4. Listed' = Listed
    BY <2>1 DEF Listed
  <2> QED
    BY <1>4, <2>1, <2>2, <2>3, <2>4
<1>7. CASE UNCHANGED <<listing, stable, page, work>>
  BY <1>4, <1>7 DEF Listed, Reaches, ReachOf
<1> QED
  BY <1>2, <1>5, <1>6, <1>7 DEF Effect, Drops

-----------------------------------------------------------------------------
(* Visits *)

\* Once a cycle has begun, what was hydrated in it grows and what it awaits does not.
LEMMA HistoryGrows ==
    ASSUME TypeOK, Shape, Effect, NEW c \in Id, Began(c)
    PROVE  hydrated[c] \subseteq hydrated'[c] /\ stable'[c] \subseteq stable[c]
<1> USE DEF dataVars
<1>1. ASSUME NEW w \in Worker, Moves(w)
      PROVE  hydrated[c] \subseteq hydrated'[c] /\ stable'[c] \subseteq stable[c]
  <2>1. stable'[c] = stable[c]
    BY <1>1, StableMove DEF Starts, Began
  <2>2. hydrated[c] \subseteq hydrated'[c]
    <3>1. CASE Saves(w)
      <4>1. hydrated'[c] = hydrated[c]
            \/ hydrated'[c] = hydrated[c] \cup ({work[w].plan.done + 1} \X work[w].items)
        BY <3>1 DEF Saves
      <4> QED
        BY <4>1
    <3>2. CASE Fetches(w)
      BY <3>2 DEF Fetches
    <3>3. CASE ~Saves(w) /\ ~Fetches(w)
      BY <1>1, <3>3, NoPage
    <3> QED
      BY <3>1, <3>2, <3>3
  <2> QED
    BY <2>1, <2>2
<1>2. CASE hydrated' = hydrated /\ \A d \in Id : stable'[d] \subseteq stable[d]
  BY <1>2
<1> QED
  BY <1>1, <1>2 DEF Effect, Publishes, Archives, Drops

LEMMA VisitedStays ==
    ASSUME TypeOK, Shape, Effect, NEW c \in Id, Began(c), NEW n, Visited(c, n)
    PROVE  Visited(c, n)'
  BY HistoryGrows DEF Visited, Awaited, Touched

\* A cycle is completed by the batch whose plan it is.
LEMMA CompleteStep ==
    ASSUME TypeOK, Effect, NEW c \in Complete'
    PROVE  c \in Complete \/ \E w \in Worker : Completes(w) /\ c = work[w].plan.cycle
<1> USE DEF dataVars, Complete
<1>1. ASSUME NEW w \in Worker, Moves(w), ~Completes(w) PROVE c \in Complete
  <2>1. ASSUME NEW d \in Id, Starts(w, d) PROVE c \in Complete
    BY <2>1 DEF Starts
  <2>2. CASE Ends(w) \/ Locks(w) \/ Reads(w) \/ Drafts(w) \/ Stores(w) \/ Begins(w) \/ Finishes(w)
    BY <2>2 DEF Ends, Locks, Reads, Drafts, Stores, Begins, Finishes
  <2>3. CASE Opens(w) \/ Fetches(w) \/ Saves(w) \/ Advances(w) \/ Reports(w) \/ Closes(w)
    BY <2>3 DEF Opens, Fetches, Saves, Advances, Reports, Closes
  <2> QED
    BY <1>1, <2>1, <2>2, <2>3 DEF Moves
<1>2. ASSUME NEW w \in Worker, Completes(w), c # work[w].plan.cycle PROVE c \in Complete
  BY <1>2 DEF Completes
<1>3. CASE cycle' = cycle
  BY <1>3
<1> QED
  BY <1>1, <1>2, <1>3 DEF Effect, Publishes, Archives, Drops

LEMMA CompleteBegan == ASSUME NEW c \in Complete PROVE c \in Id /\ Began(c)
  BY DEF Complete, Began

LEMMA VisitsFrame ==
    ASSUME TypeOK, Shape, Effect, NEW x \in Worker, VisitsOf(x), work'[x] = work[x]
    PROVE  VisitsOf(x)'
<1>1. PICK b, c : b = work[x] /\ c = b.plan.cycle
  OBVIOUS
<1>2. CASE ~(b.pc \in Owning /\ c \in Id)
  BY <1>1, <1>2 DEF VisitsOf
<1>3. CASE b.pc \in Owning /\ c \in Id
  <2>1. Began(c)
    BY <1>1, <1>3 DEF Shape, ShapeOf, Began
  <2>2. \A n : Visited(c, n) => Visited(c, n)'
    BY <1>3, <2>1, VisitedStays
  <2>3. Awaited(c, b.plan.done + 1)' => Awaited(c, b.plan.done + 1)
    BY <1>3, <2>1, HistoryGrows DEF Awaited
  <2>4. Visited(c, b.plan.done) => Visited(c, b.plan.done)'
    BY <2>2
  <2>5. Visited(c, b.plan.done + 1) => Visited(c, b.plan.done + 1)'
    BY <2>2
  <2> QED
    BY <1>1, <1>3, <2>3, <2>4, <2>5 DEF VisitsOf
<1> QED
  BY <1>2, <1>3

LEMMA VisitsFetch ==
    ASSUME TypeOK, Shape, Served, Visits, Effect, archived = 0, NEW w \in Worker, Fetches(w)
    PROVE  VisitsOf(w)'
<1>1. PICK b, c, q : b = work[w] /\ c = b.plan.cycle /\ q = b.plan.done + 1
  OBVIOUS
<1>2. /\ b.pc = "fetching" /\ work'[w].pc = "saving" /\ work'[w].plan = b.plan
      /\ work'[w].items = PageItems(q, b.idx) /\ stable' = stable
  BY <1>1 DEF Fetches, dataVars
<1> SUFFICES ASSUME c \in Id
             PROVE  Visited(c, b.plan.done)' /\ (Awaited(c, q)' => PageItems(q, b.idx) # {})
  BY <1>1, <1>2 DEF VisitsOf
<1>3. Began(c) /\ q \in Part /\ b.idx \in Nat
  BY <1>1, <1>2, PartitionInHand, BatchFields DEF Shape, ShapeOf, Began, Owning, Paging
<1>4. Visited(c, b.plan.done)
  BY <1>1, <1>2 DEF Visits, VisitsOf, Owning, Paging
<1>5. Visited(c, b.plan.done)'
  BY <1>3, <1>4, VisitedStays
<1>6. ASSUME Awaited(c, q)' PROVE PageItems(q, b.idx) # {}
  <2>1. PICK v \in Item : <<q, v>> \in stable[c]
    BY <1>2, <1>6 DEF Awaited
  <2>2. <<q, v>> \in Listed
    BY <2>1 DEF Served
  <2>3. v \in Elements(listing[q])
    BY <2>2 DEF Listed
  <2>4. Len(listing[q]) > 0
    <3>1. PICK i \in 1..Len(listing[q]) : v = listing[q][i]
      BY <2>3 DEF Elements
    <3>2. Len(listing[q]) \in Nat
      BY <1>3 DEF TypeOK
    <3> QED
      BY <3>1, <3>2
  <2>5. Reaches(q, b.idx)
    BY <1>1, <1>2 DEF Served, ReachOf
  <2>6. Len(listing[q]) <= SearchCap
    BY <1>3 DEF Served
  <2> QED
    BY <1>3, <2>4, <2>5, <2>6, PageFacts
<1> QED
  BY <1>5, <1>6

LEMMA VisitsSave ==
    ASSUME TypeOK, Shape, Visits, Effect, archived = 0, NEW w \in Worker, Saves(w)
    PROVE  VisitsOf(w)'
<1>1. PICK b, c, q : b = work[w] /\ c = b.plan.cycle /\ q = b.plan.done + 1
  OBVIOUS
<1>2. /\ b.pc = "saving" /\ work'[w].pc \in {"advancing", "fetching"} /\ work'[w].plan = b.plan
      /\ stable' = stable
  BY <1>1 DEF Saves
<1> SUFFICES ASSUME c \in Id PROVE Visited(c, b.plan.done)' /\ Visited(c, q)'
  BY <1>1, <1>2 DEF VisitsOf
<1>3. Began(c) /\ q \in Part /\ b.plan.done \in 0..Partitions /\ b.items \subseteq Item
  BY <1>1, <1>2, PartitionInHand, BatchFields DEF Shape, ShapeOf, Began, Owning, Paging
<1>4. Visited(c, b.plan.done) /\ (Awaited(c, q) => b.items # {})
  BY <1>1, <1>2 DEF Visits, VisitsOf, Owning, Paging
<1>5. Visited(c, b.plan.done)'
  BY <1>3, <1>4, VisitedStays
<1>6. Awaited(c, q)' => Touched(c, q)'
  <2> SUFFICES ASSUME Awaited(c, q)' PROVE Touched(c, q)'
    OBVIOUS
  <2>1. Awaited(c, q)
    BY <1>2 DEF Awaited
  <2>2. CASE cycle[c].status = "running"
    <3>1. hydrated'[c] = hydrated[c] \cup ({q} \X b.items)
      BY <1>1, <2>2 DEF Saves
    <3>2. PICK v : v \in b.items
      BY <1>4, <2>1
    <3>3. v \in Item /\ <<q, v>> \in hydrated'[c]
      BY <1>3, <3>1, <3>2
    <3> QED
      BY <3>3 DEF Touched
  <2>3. CASE cycle[c].status # "running"
    <3>1. c \in Complete
      BY <1>3, <2>3 DEF Complete, Began, TypeOK, Cycle
    <3>2. Visited(c, Partitions)
      BY <3>1 DEF Visits
    <3>3. q <= Partitions
      BY <1>3, Numbers DEF Part
    <3>4. Touched(c, q)
      BY <1>3, <2>1, <3>2, <3>3 DEF Visited
    <3> QED
      BY <1>3, <3>4, HistoryGrows DEF Touched
  <2> QED
    BY <2>2, <2>3
<1>7. \A r \in Part : r <= q => r <= b.plan.done \/ r = q
  BY <1>1, <1>3, Numbers
<1>8. Visited(c, q)'
  BY <1>5, <1>6, <1>7 DEF Visited
<1> QED
  BY <1>5, <1>8

LEMMA VisitsMove ==
    ASSUME TypeOK, Shape, Served, Visits, Effect, archived = 0, NEW w \in Worker, Moves(w)
    PROVE  VisitsOf(w)' /\ (plan'.cycle \in Id => Visited(plan.cycle, plan.done)')
<1> USE DEF dataVars
<1>1. \A c \in Id : \A n : Began(c) /\ Visited(c, n) => Visited(c, n)'
  BY VisitedStays
<1>2. PICK b, c : b = work[w] /\ c = b.plan.cycle
  OBVIOUS
<1>3. /\ b.pc \in Owning /\ c \in Id => Began(c) /\ Visited(c, b.plan.done)
      /\ b.pc = "advancing" /\ c \in Id => Visited(c, b.plan.done + 1)
  BY <1>2 DEF Shape, ShapeOf, Began, Visits, VisitsOf, Owning, Paging
<1>4. PICK pc, pd : pc = plan.cycle /\ pd = plan.done
  OBVIOUS
<1>5. pc \in Id => Began(pc) /\ Visited(pc, pd)
  <2>1. pc \in Id => pc # 0
    BY Numbers
  <2> QED
    BY <1>4, <2>1 DEF Shape, PlanShape, Began, Visits
<1>6. plan' = plan => (plan'.cycle \in Id => Visited(plan.cycle, plan.done)')
  <2> SUFFICES ASSUME plan' = plan, pc \in Id PROVE Visited(pc, pd)'
    BY <1>4
  <2> QED
    BY <1>1, <1>5
<1>7. ASSUME work'[w].plan = b.plan, b.pc \in Owning, work'[w].pc \notin {"saving", "advancing"}
      PROVE  VisitsOf(w)'
  <2>1. PICK n : n = b.plan.done
    OBVIOUS
  <2>2. c \in Id => Visited(c, n)'
    BY <1>1, <1>3, <1>7, <2>1
  <2> QED
    BY <1>2, <1>7, <2>1, <2>2 DEF VisitsOf
<1>8. CASE Ends(w)
  BY <1>6, <1>8 DEF Ends, Idle, VisitsOf, Owning, Paging
<1>9. CASE Locks(w) \/ Drafts(w)
  BY <1>6, <1>9 DEF Locks, Drafts, VisitsOf, Owning, Paging
<1>10. CASE Reads(w)
  <2>1. work'[w].plan = plan /\ work'[w].pc \in {"planning", "choosing"} /\ plan' = plan
    BY <1>10 DEF Reads
  <2>2. pc \in Id => Visited(pc, pd)'
    BY <1>1, <1>5
  <2> QED
    BY <1>4, <1>6, <2>1, <2>2 DEF VisitsOf
<1>11. ASSUME NEW d \in Id, Starts(w, d)
       PROVE  VisitsOf(w)' /\ (plan'.cycle \in Id => Visited(plan.cycle, plan.done)')
  <2>1. /\ work'[w].plan.cycle = d /\ work'[w].plan.done = 0 /\ work'[w].pc = "storing"
        /\ plan' = plan
    BY <1>11 DEF Starts, Shape, ShapeOf
  <2>2. Visited(d, 0)'
    BY Numbers DEF Visited
  <2> QED
    BY <1>6, <2>1, <2>2 DEF VisitsOf
<1>12. CASE Stores(w)
  <2>1. /\ b.pc = "storing" /\ work'[w].pc = "choosing" /\ work'[w].plan = b.plan /\ plan' = b.plan
    BY <1>2, <1>12 DEF Stores
  <2>2. PICK n : n = b.plan.done
    OBVIOUS
  <2>3. c \in Id => Visited(c, n)'
    BY <1>1, <1>3, <2>1, <2>2 DEF Owning
  <2> QED
    BY <1>2, <1>7, <2>1, <2>2, <2>3 DEF Owning
<1>13. CASE Begins(w)
  <2>1. work'[w].plan.cycle \notin Id /\ plan' = plan
    BY <1>13, Numbers DEF Begins
  <2> QED
    BY <1>6, <2>1 DEF VisitsOf
<1>14. CASE Finishes(w) \/ Opens(w) \/ Reports(w) \/ Completes(w)
  BY <1>2, <1>6, <1>7, <1>14 DEF Finishes, Opens, Reports, Completes, Owning, Paging
<1>15. CASE Fetches(w)
  BY <1>6, <1>15, VisitsFetch DEF Fetches
<1>16. CASE Saves(w)
  BY <1>6, <1>16, VisitsSave DEF Saves
<1>17. CASE Advances(w)
  <2>1. PICK n : n = b.plan.done + 1
    OBVIOUS
  <2>2. /\ b.pc = "advancing" /\ work'[w].pc \in {"choosing", "progressing"}
        /\ work'[w].plan.cycle = c /\ work'[w].plan.done = n
        /\ plan' = plan \/ plan' = work'[w].plan
    BY <1>2, <1>17, <2>1 DEF Advances
  <2>3. c \in Id => Visited(c, n)'
    BY <1>1, <1>3, <2>1, <2>2 DEF Owning, Paging
  <2>4. VisitsOf(w)'
    BY <2>2, <2>3 DEF VisitsOf
  <2>5. plan' = work'[w].plan => (plan'.cycle \in Id => Visited(plan.cycle, plan.done)')
    BY <2>2, <2>3
  <2> QED
    BY <1>6, <2>2, <2>4, <2>5
<1>18. CASE Closes(w)
  <2>1. PICK n : n = b.plan.done
    OBVIOUS
  <2>2. /\ b.pc = "closing" /\ work'[w].pc = "snapshotting" /\ work'[w].plan = b.plan
        /\ plan'.cycle = c /\ plan'.done = n
    BY <1>2, <1>18, <2>1 DEF Closes
  <2>3. c \in Id => Visited(c, n)'
    BY <1>1, <1>3, <2>1, <2>2 DEF Owning
  <2> QED
    BY <1>7, <2>2, <2>3 DEF Owning
<1> QED
  BY <1>8, <1>9, <1>10, <1>11, <1>12, <1>13, <1>14, <1>15, <1>16, <1>17, <1>18 DEF Moves

LEMMA NotArchived ==
    ASSUME TypeOK, Effect, archived' = 0
    PROVE  archived = 0 /\ ~\E q \in Part : Archives(q)
<1>1. ~\E q \in Part : Archives(q)
  BY DEF Archives, TypeOK
<1> QED
  BY <1>1, MovesListing DEF Effect, Publishes, Drops, dataVars

LEMMA VisitsStep == ASSUME TypeOK, Shape, Served, Visits, Effect PROVE Visits'
<1> USE DEF dataVars
<1> SUFFICES ASSUME archived' = 0
             PROVE  /\ \A c \in Complete' : Visited(c, Partitions)'
                    /\ plan'.cycle \in Id => Visited(plan.cycle, plan.done)'
                    /\ \A x \in Worker : VisitsOf(x)'
  BY DEF Visits
<1>1. archived = 0 /\ ~\E q \in Part : Archives(q)
  BY NotArchived
<1>2. ASSUME NEW c \in Complete' PROVE Visited(c, Partitions)'
  <2>1. c \in Id /\ Began(c) /\ Visited(c, Partitions)
    <3>1. CASE c \in Complete
      BY <1>1, <3>1, CompleteBegan DEF Visits
    <3>2. ASSUME NEW w \in Worker, Completes(w), c = work[w].plan.cycle
          PROVE  c \in Id /\ Began(c) /\ Visited(c, Partitions)
      <4>1. c \in Id
        BY DEF Complete
      <4>2. work[w].pc = "completing"
        BY <3>2 DEF Completes
      <4>3. Began(c) /\ work[w].plan.done = Partitions
        BY <3>2, <4>1, <4>2 DEF Shape, ShapeOf, Owning, Began
      <4>4. Visited(c, Partitions)
        BY <1>1, <3>2, <4>1, <4>2, <4>3 DEF Visits, VisitsOf, Owning
      <4> QED
        BY <4>1, <4>3, <4>4
    <3> QED
      BY <3>1, <3>2, CompleteStep
  <2> QED
    BY <2>1, VisitedStays
<1>3. ASSUME NEW w \in Worker, Moves(w)
      PROVE  /\ plan'.cycle \in Id => Visited(plan.cycle, plan.done)'
             /\ \A x \in Worker : VisitsOf(x)'
  <2>1. VisitsOf(w)' /\ (plan'.cycle \in Id => Visited(plan.cycle, plan.done)')
    BY <1>1, <1>3, VisitsMove
  <2>2. Others(w)
    BY <1>3, MovesOne
  <2>3. \A x \in Worker \ {w} : VisitsOf(x)'
    BY <1>1, <2>2, VisitsFrame DEF Others, Visits
  <2> QED
    BY <2>1, <2>3
<1>4. ASSUME work' = work, plan' = plan
      PROVE  /\ plan'.cycle \in Id => Visited(plan.cycle, plan.done)'
             /\ \A x \in Worker : VisitsOf(x)'
  <2>1. \A x \in Worker : VisitsOf(x)'
    BY <1>1, <1>4, VisitsFrame DEF Visits
  <2>2. PICK c, n : c = plan.cycle /\ n = plan.done
    OBVIOUS
  <2>3. c \in Id => Began(c) /\ Visited(c, n)
    <3>1. c \in Id => c # 0
      BY Numbers
    <3> QED
      BY <1>1, <2>2, <3>1 DEF Shape, PlanShape, Began, Visits
  <2>4. c \in Id => Visited(c, n)'
    BY <2>3, VisitedStays
  <2> QED
    BY <1>4, <2>1, <2>2, <2>4
<1> QED
  BY <1>1, <1>2, <1>3, <1>4 DEF Effect, Publishes, Drops

-----------------------------------------------------------------------------
(* Flight *)

LEMMA NobodyHoldsIt == NoWorker \notin Worker
  BY HydrationConstants

\* Under Undisturbed a batch that is not over is a scheduler's, and the only one.
LEMMA Alone ==
    ASSUME TypeOK, Flight, Undisturbed, NEW w \in Worker, work[w].pc # "idle"
    PROVE  /\ lock = w /\ w \in Scheduler
           /\ \A x \in Worker \ {w} : work[x].pc = "idle"
<1>1. \A x \in Worker : work[x].pc # "idle" => lock = x
  BY DEF Flight, FlightOf
<1>2. lock = w
  BY <1>1
<1>3. w \in Scheduler
  BY <1>2, NobodyHoldsIt DEF TypeOK
<1> QED
  BY <1>1, <1>2, <1>3

LEMMA IdleFlight ==
    ASSUME NEW x \in Worker, work'[x].pc = "idle"
    PROVE  FlightOf(x)' /\ CoverOf(x)'
  BY DEF FlightOf, CoverOf, Owning, Paging

\* The parts of Flight that concern the stored plan.
OnlyItsPage == \A q \in Part : page[q] # 0 => q = plan.done + 1 /\ plan.cycle # 0 /\ ~plan.complete
PlanRuns == plan.cycle # 0 /\ plan.done < Partitions => cycle[plan.cycle].status = "running"

LEMMA FlightMove ==
    ASSUME TypeOK, Shape, Flight, Undisturbed, NEW w \in Worker, work[w].pc # "idle",
           Moves(w), ~Ends(w)
    PROVE  lock' = lock /\ OnlyItsPage' /\ PlanRuns' /\ FlightOf(w)'
<1> USE DEF dataVars
<1>1. PICK b, q, c : b = work[w] /\ q = b.plan.done + 1 /\ c = b.plan.cycle
  OBVIOUS
<1>2. /\ lock = w /\ OnlyItsPage /\ PlanRuns /\ FlightOf(w) /\ ShapeOf(w) /\ PlanShape
      /\ w \in Scheduler /\ w \notin Cli
  BY Alone, HydrationConstants DEF Flight, Shape, OnlyItsPage, PlanRuns
<1>3. /\ plan.cycle \in 0..MaxCycles /\ plan.done \in 0..Partitions /\ b.plan.done \in 0..Partitions
      /\ Partitions \in Nat /\ MaxCycles \in Nat /\ 0 \notin Id /\ Part = 1..Partitions
      /\ Id = 1..MaxCycles
  BY <1>1, BatchFields, Numbers DEF TypeOK, Plan, Part, Id
<1>4. b.pc \in Paging => q \in Part
  BY <1>1, PartitionInHand
<1>5. b.pc \in Owning => c \in Id /\ ~b.plan.complete
  BY <1>1, <1>2 DEF ShapeOf
<1>6. b.pc \in Owning \ {"storing", "snapshotting"} => b.plan = plan
  BY <1>1, <1>2 DEF FlightOf
<1>7. page' = page /\ plan' = plan /\ (\A d \in Id : cycle'[d].status = cycle[d].status)
        => OnlyItsPage' /\ PlanRuns'
  <2>1. plan.cycle # 0 => plan.cycle \in Id
    BY <1>3
  <2> QED
    BY <1>2, <2>1 DEF OnlyItsPage, PlanRuns
<1> USE DEF Owning, Paging
<1>8. CASE Locks(w) \/ Begins(w)
  BY <1>8 DEF Locks, Begins
<1>9. CASE Reads(w)
  BY <1>2, <1>7, <1>9 DEF Reads, FlightOf
<1>10. CASE Drafts(w)
  BY <1>2, <1>7, <1>10 DEF Drafts, FlightOf
<1>11. ASSUME NEW d \in Id, Starts(w, d)
       PROVE  lock' = lock /\ OnlyItsPage' /\ PlanRuns' /\ FlightOf(w)'
  <2>1. /\ lock' = lock /\ page' = page /\ plan' = plan /\ cycle[d].status = "none"
        /\ cycle'[d].status = "running" /\ \A e \in Id \ {d} : cycle'[e] = cycle[e]
        /\ work[w].pc = "starting" /\ work'[w].pc = "storing" /\ work'[w].plan.cycle = d
    BY <1>11 DEF Starts
  <2>2. plan.cycle # 0 => plan.cycle \in Id \ {d}
    BY <1>2, <1>3, <2>1 DEF PlanShape
  <2>3. OnlyItsPage' /\ PlanRuns'
    BY <1>2, <2>1, <2>2 DEF OnlyItsPage, PlanRuns
  <2> QED
    BY <1>2, <2>1, <2>3 DEF FlightOf
<1>12. CASE Stores(w)
  <2>1. /\ lock' = lock /\ page' = page /\ plan' = b.plan /\ cycle' = cycle
        /\ b.pc = "storing" /\ work'[w].pc = "choosing" /\ work'[w].plan = b.plan
    BY <1>1, <1>12 DEF Stores
  <2>2. \A r \in Part : page[r] = 0
    BY <1>1, <1>2, <2>1 DEF FlightOf, OnlyItsPage
  <2>3. cycle[b.plan.cycle].status = "running"
    BY <1>1, <1>2, <2>1 DEF FlightOf
  <2>4. OnlyItsPage' /\ PlanRuns'
    BY <2>1, <2>2, <2>3 DEF OnlyItsPage, PlanRuns
  <2> QED
    BY <1>2, <2>1, <2>4 DEF FlightOf
<1>13. CASE Finishes(w)
  BY <1>1, <1>2, <1>6, <1>7, <1>13 DEF Finishes, FlightOf
<1>14. CASE Opens(w)
  BY <1>1, <1>2, <1>6, <1>7, <1>14 DEF Opens, FlightOf
<1>15. CASE Fetches(w)
  <2>1. PICK last : last = Terminal(PageItems(q, b.idx), b.idx, Smaller(ReportedPages(q), DepthPages))
    OBVIOUS
  <2>2. /\ lock' = lock /\ page' = page /\ plan' = plan /\ cycle' = cycle
        /\ b.pc = "fetching" /\ work'[w].pc = "saving" /\ work'[w].plan = b.plan
        /\ work'[w].idx = b.idx /\ work'[w].terminal = last
        /\ work'[w].next = IF last THEN 0 ELSE b.idx + 1
    BY <1>1, <1>15, <2>1 DEF Fetches
  <2>3. b.idx = page[q]
    BY <1>1, <1>2, <2>2 DEF FlightOf
  <2> QED
    BY <1>1, <1>2, <1>6, <1>7, <2>2, <2>3 DEF FlightOf
<1>16. CASE Saves(w)
  <2>1. /\ lock' = lock /\ plan' = plan /\ cycle' = cycle
        /\ b.pc = "saving" /\ work'[w].pc = IF b.terminal THEN "advancing" ELSE "fetching"
        /\ page'[q] = b.next /\ \A r \in Part \ {q} : page'[r] = page[r]
        /\ work'[w].plan = b.plan /\ work'[w].idx = b.next
    BY <1>1, <1>16 DEF Saves
  <2>2. b.plan = plan /\ (b.terminal => b.next = 0) /\ c \in Id /\ ~b.plan.complete
    BY <1>1, <1>2, <1>5, <1>6, <2>1 DEF FlightOf
  <2>3. OnlyItsPage'
    BY <1>1, <1>2, <1>3, <2>1, <2>2 DEF OnlyItsPage
  <2>4. PlanRuns'
    BY <1>2, <2>1 DEF PlanRuns
  <2> QED
    BY <1>1, <1>2, <2>1, <2>2, <2>3, <2>4 DEF FlightOf
<1>17. CASE Advances(w)
  <2>1. /\ lock' = lock /\ page' = page /\ cycle' = cycle
        /\ b.pc = "advancing" /\ work'[w].pc = "progressing" /\ plan' = work'[w].plan
        /\ plan'.cycle = c /\ plan'.done = q /\ plan'.complete = b.plan.complete
    BY <1>1, <1>2, <1>17 DEF Advances
  <2>2. b.plan = plan /\ page[q] = 0 /\ ShapeOf(w)
    BY <1>1, <1>2, <1>6, <2>1 DEF FlightOf
  <2>3. \A r \in Part : page[r] = 0
    BY <1>1, <1>2, <2>2 DEF OnlyItsPage
  <2>4. OnlyItsPage'
    BY <2>1, <2>3 DEF OnlyItsPage
  <2>5. PlanRuns'
    BY <1>1, <1>2, <1>3, <2>1, <2>2 DEF PlanRuns
  <2> QED
    BY <1>2, <2>1, <2>4, <2>5 DEF FlightOf
<1>18. CASE Reports(w)
  BY <1>1, <1>2, <1>6, <1>7, <1>18 DEF Reports, FlightOf
<1>19. CASE Completes(w)
  <2>1. /\ lock' = lock /\ page' = page /\ plan' = plan
        /\ b.pc = "completing" /\ work'[w].pc = "closing" /\ work'[w].plan = b.plan
    BY <1>1, <1>19 DEF Completes
  <2>2. b.plan = plan /\ plan.done = Partitions
    BY <1>1, <1>2, <1>6, <2>1 DEF ShapeOf
  <2>3. OnlyItsPage' /\ PlanRuns'
    BY <1>2, <1>3, <2>1, <2>2 DEF OnlyItsPage, PlanRuns
  <2> QED
    BY <1>2, <2>1, <2>2, <2>3 DEF FlightOf
<1>20. CASE Closes(w)
  <2>1. /\ lock' = lock /\ page' = page /\ cycle' = cycle
        /\ b.pc = "closing" /\ work'[w].pc = "snapshotting"
        /\ plan'.cycle = c /\ plan'.done = b.plan.done
    BY <1>1, <1>20 DEF Closes
  <2>2. b.plan = plan /\ plan.done = Partitions
    BY <1>1, <1>2, <1>6, <2>1 DEF ShapeOf
  <2>3. \A r \in Part : page[r] = 0
    BY <1>2, <1>3, <2>2 DEF OnlyItsPage
  <2>4. OnlyItsPage' /\ PlanRuns'
    BY <1>3, <2>1, <2>2, <2>3 DEF OnlyItsPage, PlanRuns
  <2> QED
    BY <1>2, <2>1, <2>4 DEF FlightOf
<1> QED
  BY <1>8, <1>9, <1>10, <1>11, <1>12, <1>13, <1>14, <1>15, <1>16, <1>17, <1>18, <1>19, <1>20 DEF Moves

LEMMA MovesAwake ==
    ASSUME NEW w \in Worker, Moves(w), ~Ends(w), ~Locks(w), ~Begins(w)
    PROVE  work[w].pc # "idle"
<1>1. CASE Reads(w) \/ Drafts(w) \/ (\E c \in Id : Starts(w, c)) \/ Stores(w) \/ Finishes(w) \/ Opens(w)
  BY <1>1 DEF Reads, Drafts, Starts, Stores, Finishes, Opens
<1>2. CASE Fetches(w) \/ Saves(w) \/ Advances(w) \/ Reports(w) \/ Completes(w) \/ Closes(w)
  BY <1>2 DEF Fetches, Saves, Advances, Reports, Completes, Closes
<1> QED
  BY <1>1, <1>2 DEF Moves

LEMMA StaysClean ==
    ASSUME TypeOK, Effect, Undisturbed'
    PROVE  /\ Undisturbed
           /\ ~\E w \in Worker : Drops(w) \/ Begins(w)
<1> USE DEF Undisturbed, cleanVars
<1>1. cliRuns \in Nat /\ lockLosses \in Nat
  BY Numbers DEF TypeOK
<1>2. ~\E w \in Worker : Drops(w) \/ Begins(w)
  BY <1>1 DEF Drops, Begins
<1>3. ASSUME NEW w \in Worker, Moves(w), ~Begins(w) PROVE cliRuns' = cliRuns /\ lockLosses' = lockLosses
  <2>1. CASE Ends(w) \/ Locks(w) \/ Reads(w) \/ Drafts(w) \/ (\E c \in Id : Starts(w, c)) \/ Stores(w)
    BY <2>1 DEF Ends, Locks, Reads, Drafts, Starts, Stores
  <2>2. CASE Finishes(w) \/ Opens(w) \/ Fetches(w) \/ Saves(w)
    BY <2>2 DEF Finishes, Opens, Fetches, Saves
  <2>3. CASE Advances(w) \/ Reports(w) \/ Completes(w) \/ Closes(w)
    BY <2>3 DEF Advances, Reports, Completes, Closes
  <2> QED
    BY <1>3, <2>1, <2>2, <2>3 DEF Moves
<1> QED
  BY <1>2, <1>3 DEF Effect, Publishes, Archives

\* A step that only looks at the stored state keeps it.
LEMMA FlightSame ==
    ASSUME OnlyItsPage, PlanRuns, page' = page, plan' = plan, cycle' = cycle
    PROVE  OnlyItsPage' /\ PlanRuns'
  BY DEF OnlyItsPage, PlanRuns

LEMMA FlightStep == ASSUME TypeOK, Shape, Flight, Effect PROVE Flight'
<1> USE DEF dataVars
<1> SUFFICES ASSUME Undisturbed'
             PROVE  OnlyItsPage' /\ PlanRuns' /\ \A x \in Worker : FlightOf(x)'
  BY DEF Flight, OnlyItsPage, PlanRuns
<1>1. Undisturbed /\ ~\E w \in Worker : Drops(w) \/ Begins(w)
  BY StaysClean
<1>2. OnlyItsPage /\ PlanRuns /\ \A x \in Worker : FlightOf(x)
  BY <1>1 DEF Flight, OnlyItsPage, PlanRuns
<1>3. ASSUME page' = page, plan' = plan, cycle' = cycle, work' = work, lock' = lock
      PROVE  OnlyItsPage' /\ PlanRuns' /\ \A x \in Worker : FlightOf(x)'
  BY <1>2, <1>3, FlightSame DEF FlightOf
<1>4. ASSUME NEW w \in Worker, Ends(w)
      PROVE  OnlyItsPage' /\ PlanRuns' /\ \A x \in Worker : FlightOf(x)'
  <2>1. /\ page' = page /\ plan' = plan /\ cycle' = cycle /\ Others(w) /\ work'[w].pc = "idle"
        /\ lock' = IF lock = w THEN NoWorker ELSE lock
    BY <1>4 DEF Ends, Idle
  <2>2. ASSUME NEW x \in Worker PROVE FlightOf(x)'
    <3>1. CASE work'[x].pc = "idle"
      BY <3>1, IdleFlight
    <3>2. CASE work'[x].pc # "idle"
      <4>1. x # w /\ work'[x] = work[x]
        BY <2>1, <3>2 DEF Others
      <4>2. lock = x /\ FlightOf(x)
        BY <1>2, <3>2, <4>1 DEF FlightOf
      <4>3. lock' = lock
        BY <2>1, <4>1, <4>2
      <4> QED
        BY <2>1, <4>1, <4>2, <4>3 DEF FlightOf
    <3> QED
      BY <3>1, <3>2
  <2> QED
    BY <1>2, <2>1, <2>2, FlightSame
<1>5. ASSUME NEW w \in Worker, Locks(w)
      PROVE  OnlyItsPage' /\ PlanRuns' /\ \A x \in Worker : FlightOf(x)'
  <2>1. /\ page' = page /\ plan' = plan /\ cycle' = cycle /\ Others(w) /\ work'[w].pc = "locked"
        /\ lock = NoWorker /\ lock' = w
    BY <1>5 DEF Locks
  <2>2. \A x \in Worker : work[x].pc = "idle"
    BY <1>2, <2>1, NobodyHoldsIt DEF FlightOf
  <2>3. \A x \in Worker \ {w} : FlightOf(x)'
    BY <2>1, <2>2, IdleFlight DEF Others
  <2>4. FlightOf(w)'
    BY <2>1 DEF FlightOf, Owning, Paging
  <2> QED
    BY <1>2, <2>1, <2>3, <2>4, FlightSame
<1>6. ASSUME NEW w \in Worker, Moves(w), ~Ends(w), ~Locks(w)
      PROVE  OnlyItsPage' /\ PlanRuns' /\ \A x \in Worker : FlightOf(x)'
  <2>1. work[w].pc # "idle"
    BY <1>1, <1>6, MovesAwake
  <2>2. lock' = lock /\ OnlyItsPage' /\ PlanRuns' /\ FlightOf(w)'
    BY <1>1, <1>6, <2>1, FlightMove
  <2>3. \A x \in Worker \ {w} : work[x].pc = "idle" /\ work'[x] = work[x]
    BY <1>1, <1>6, <2>1, Alone, MovesOne DEF Others
  <2>4. \A x \in Worker \ {w} : FlightOf(x)'
    BY <2>3, IdleFlight
  <2> QED
    BY <2>2, <2>4
<1> QED
  BY <1>1, <1>3, <1>4, <1>5, <1>6 DEF Effect, Publishes, Archives

-----------------------------------------------------------------------------
(* Cover *)

\* The part of Cover that concerns the stored plan: what cycle c awaits is hydrated or
\* lies ahead, in the partitions after the first n.
Covered(c, n) ==
    \A q \in Part, v \in Item : <<q, v>> \in stable[c] =>
        \/ <<q, v>> \in hydrated[c]
        \/ q > n /\ Ahead(q, v, page[q])

LEMMA CoverParts ==
    ASSUME Cover, Undisturbed, archived = 0
    PROVE  /\ \A c \in Complete : stable[c] \subseteq hydrated[c]
           /\ plan.cycle # 0 => Covered(plan.cycle, plan.done)
           /\ \A w \in Worker : CoverOf(w)
  BY DEF Cover, Covered

LEMMA CoveredStays ==
    ASSUME TypeOK, Shape, Effect, NEW c \in Id, Began(c), NEW n, Covered(c, n),
           listing' = listing, page' = page
    PROVE  Covered(c, n)'
<1>1. hydrated[c] \subseteq hydrated'[c] /\ stable'[c] \subseteq stable[c]
  BY HistoryGrows
<1>2. \A q \in Part, v \in Item : Ahead(q, v, page[q])' <=> Ahead(q, v, page[q])
  BY DEF Ahead
<1> QED
  BY <1>1, <1>2 DEF Covered

\* A plan that is about to be stored has everything ahead of it.
LEMMA CoverStart ==
    ASSUME TypeOK, Served, archived = 0, NEW c \in Id, \A q \in Part : page[q] = 0
    PROVE  Covered(c, 0)
<1> SUFFICES ASSUME NEW q \in Part, NEW v \in Item, <<q, v>> \in stable[c]
             PROVE  q > 0 /\ Ahead(q, v, page[q])
  BY DEF Covered
<1>1. v \in Elements(listing[q])
  BY DEF Served, Listed
<1>2. PICK i \in 1..Len(listing[q]) : listing[q][i] = v
  BY <1>1 DEF Elements
<1>3. i > 0 * PerPage
  BY Numbers
<1> QED
  BY <1>2, <1>3, Numbers DEF Ahead

LEMMA CoverFetch ==
    ASSUME TypeOK, Shape, Served, Flight, Cover, Undisturbed, archived = 0,
           NEW w \in Worker, Fetches(w)
    PROVE  CoverOf(w)'
<1> USE DEF dataVars
<1>1. PICK b, c, q : b = work[w] /\ c = b.plan.cycle /\ q = b.plan.done + 1
  OBVIOUS
<1>2. PICK last : last = Terminal(PageItems(q, b.idx), b.idx, Smaller(ReportedPages(q), DepthPages))
  OBVIOUS
<1>3. /\ listing' = listing /\ stable' = stable /\ hydrated' = hydrated
      /\ b.pc = "fetching" /\ work'[w].pc = "saving" /\ work'[w].plan = b.plan
      /\ work'[w].items = PageItems(q, b.idx) /\ work'[w].terminal = last
      /\ work'[w].next = IF last THEN 0 ELSE b.idx + 1
  BY <1>1, <1>2 DEF Fetches
<1>4. /\ q \in Part /\ b.idx \in Nat /\ b.plan.done \in Nat /\ Len(listing[q]) \in Nat
  BY <1>1, <1>3, PartitionInHand, BatchFields, SMTT(30) DEF Paging, TypeOK
<1>5. b.plan = plan /\ b.idx = page[q]
  BY <1>1, <1>3 DEF Flight, FlightOf, Owning, Paging
<1>6. w \in Scheduler
  BY <1>1, <1>3, Alone
<1>7. plan.cycle # 0
  BY <1>1, <1>3, <1>5, <1>6, Numbers DEF Shape, ShapeOf, Owning, Paging
<1>8. Covered(plan.cycle, plan.done)
  BY <1>7, CoverParts
<1> SUFFICES ASSUME NEW v \in Item, <<q, v>> \in stable[c], <<q, v>> \notin hydrated[c],
                    v \notin PageItems(q, b.idx)
             PROVE  ~last /\ Ahead(q, v, b.idx + 1)
  BY <1>1, <1>3 DEF CoverOf, Ahead
<1>9. PICK i \in 1..Len(listing[q]) : i > b.idx * PerPage /\ listing[q][i] = v
  BY <1>1, <1>4, <1>5, <1>8 DEF Covered, Ahead
<1>10. i > b.idx * PerPage + PerPage
  <2>1. ~(b.idx * PerPage < i /\ i <= b.idx * PerPage + PerPage)
    BY <1>2, <1>4, <1>9, PageFacts DEF Served
  <2> QED
    BY <1>4, <1>9, <2>1, Numbers
<1>11. ~last
  <2>1. last => i <= b.idx * PerPage + PerPage
    BY <1>2, <1>4, PageFacts DEF Served
  <2> QED
    BY <1>4, <1>10, <2>1, Numbers
<1>12. (b.idx + 1) * PerPage = b.idx * PerPage + PerPage
  BY <1>4, Numbers
<1> QED
  BY <1>9, <1>10, <1>11, <1>12 DEF Ahead

LEMMA CoverSave ==
    ASSUME TypeOK, Shape, Flight, Cover, Undisturbed, archived = 0,
           NEW w \in Worker, Saves(w)
    PROVE  (plan'.cycle # 0 => Covered(plan.cycle, plan.done)') /\ CoverOf(w)'
<1>1. PICK b, c, q, n : b = work[w] /\ c = b.plan.cycle /\ q = b.plan.done + 1 /\ n = b.plan.done
  OBVIOUS
<1>2. /\ listing' = listing /\ stable' = stable /\ plan' = plan
      /\ b.pc = "saving" /\ work'[w].pc = IF b.terminal THEN "advancing" ELSE "fetching"
      /\ page'[q] = b.next /\ \A r \in Part \ {q} : page'[r] = page[r]
      /\ \A d \in Id : hydrated'[d] = IF cycle[d].status = "running"
                                      THEN hydrated[d] \cup ({q} \X b.items) ELSE hydrated[d]
      /\ work'[w].plan = b.plan
  BY <1>1 DEF Saves
<1>3. q \in Part /\ n \in Nat /\ n < Partitions
  BY <1>1, <1>2, PartitionInHand, BatchFields DEF Paging, Shape, ShapeOf
<1>4. b.plan = plan /\ w \in Scheduler
  BY <1>1, <1>2, Alone DEF Flight, FlightOf, Owning, Paging
<1>5. c \in Id /\ plan.cycle = c /\ c # 0
  BY <1>1, <1>2, <1>4, Numbers DEF Shape, ShapeOf, Owning, Paging
<1>6. cycle[c].status = "running"
  BY <1>1, <1>3, <1>4, <1>5 DEF Flight
<1>7. hydrated'[c] = hydrated[c] \cup ({q} \X b.items)
  BY <1>2, <1>5, <1>6
<1>8. Covered(c, n) /\ CoverOf(w)
  BY <1>1, <1>4, <1>5, CoverParts
<1>9. \A v \in Item : <<q, v>> \in stable[c] =>
          <<q, v>> \in hydrated'[c] \/ (~b.terminal /\ Ahead(q, v, b.next))
  <2>1. \A v \in Item : <<q, v>> \in stable[c] =>
            <<q, v>> \in hydrated[c] \/ v \in b.items \/ (~b.terminal /\ Ahead(q, v, b.next))
    BY <1>1, <1>2, <1>8 DEF CoverOf
  <2>2. \A v \in b.items : <<q, v>> \in {q} \X b.items
    OBVIOUS
  <2> QED
    BY <1>7, <2>1, <2>2
<1>10. \A r \in Part, v \in Item : \A m : Ahead(r, v, m) => \E i \in 1..Len(listing'[r]) :
                                           i > m * PerPage /\ listing'[r][i] = v
  BY <1>2 DEF Ahead
<1>11. Covered(c, n)'
  <2> SUFFICES ASSUME NEW r \in Part, NEW v \in Item, <<r, v>> \in stable'[c],
                      <<r, v>> \notin hydrated'[c]
               PROVE  r > n /\ Ahead(r, v, page[r])'
    BY DEF Covered
  <2>1. CASE r = q
    BY <1>1, <1>2, <1>3, <1>9, <1>10, <2>1 DEF Ahead
  <2>2. CASE r # q
    <3>1. r > n /\ Ahead(r, v, page[r]) /\ page'[r] = page[r]
      BY <1>2, <1>7, <1>8, <2>2 DEF Covered
    <3> QED
      BY <1>10, <3>1 DEF Ahead
  <2> QED
    BY <2>1, <2>2
<1>12. CoverOf(w)'
  BY <1>1, <1>2, <1>9 DEF CoverOf
<1> QED
  BY <1>1, <1>2, <1>4, <1>11, <1>12

LEMMA CoverMove ==
    ASSUME TypeOK, Shape, Served, Flight, Cover, Effect, Undisturbed, archived = 0,
           NEW w \in Worker, Moves(w), ~Begins(w)
    PROVE  (plan'.cycle # 0 => Covered(plan.cycle, plan.done)') /\ CoverOf(w)'
<1> USE DEF dataVars
<1>1. PICK b, c : b = work[w] /\ c = b.plan.cycle
  OBVIOUS
<1>2. PICK pc, pd : pc = plan.cycle /\ pd = plan.done
  OBVIOUS
<1>3. pc # 0 => pc \in Id /\ Began(pc) /\ Covered(pc, pd)
  <2>1. plan.cycle \in 0..MaxCycles
    BY DEF TypeOK, Plan
  <2> QED
    BY <1>2, <2>1, CoverParts, Numbers DEF Shape, PlanShape, Began, Id
<1>4. listing' = listing
  BY MovesListing
<1>5. page' = page /\ plan' = plan => (plan'.cycle # 0 => Covered(plan.cycle, plan.done)')
  <2> SUFFICES ASSUME page' = page, plan' = plan, pc # 0 PROVE Covered(pc, pd)'
    BY <1>2
  <2> QED
    BY <1>3, <1>4, CoveredStays
<1>6. CASE Ends(w)
  BY <1>5, <1>6, IdleFlight DEF Ends, Idle
<1>7. CASE Locks(w) \/ Reads(w) \/ Drafts(w) \/ (\E d \in Id : Starts(w, d))
  BY <1>5, <1>7 DEF Locks, Reads, Drafts, Starts, CoverOf
<1>8. CASE Finishes(w) \/ Opens(w) \/ Reports(w) \/ Completes(w)
  BY <1>5, <1>8 DEF Finishes, Opens, Reports, Completes, CoverOf
<1>9. CASE Stores(w)
  <2>1. /\ page' = page /\ plan' = b.plan /\ b.pc = "storing" /\ work'[w].pc = "choosing"
    BY <1>1, <1>9 DEF Stores
  <2>2. w \in Scheduler
    BY <1>1, <2>1, Alone
  <2>3. c \in Id /\ Began(c) /\ b.plan.done = 0
    BY <1>1, <2>1, <2>2 DEF Shape, ShapeOf, Owning, Began
  <2>4. \A q \in Part : page[q] = 0
    BY <1>1, <2>1 DEF Flight, FlightOf
  <2>5. Covered(c, 0)'
    BY <1>4, <2>1, <2>3, <2>4, CoverStart, CoveredStays
  <2> QED
    BY <1>1, <2>1, <2>3, <2>5 DEF CoverOf
<1>10. CASE Fetches(w)
  BY <1>5, <1>10, CoverFetch DEF Fetches
<1>11. CASE Saves(w)
  BY <1>11, CoverSave
<1>12. CASE Advances(w)
  <2>1. PICK q : q = b.plan.done + 1
    OBVIOUS
  <2>2. b.pc = "advancing" /\ page' = page
    BY <1>1, <1>12 DEF Advances
  <2>3. w \in Scheduler /\ w \notin Cli /\ b.plan = plan
    BY <1>1, <2>2, Alone, HydrationConstants DEF Flight, FlightOf, Owning, Paging
  <2>4. c \in Id /\ c = pc /\ b.plan.done = pd /\ c # 0
    BY <1>1, <1>2, <2>2, <2>3, Numbers DEF Shape, ShapeOf, Owning, Paging
  <2>5. plan'.cycle = c /\ plan'.done = q /\ work'[w].pc = "progressing"
    BY <1>1, <1>12, <2>1, <2>3 DEF Advances
  <2>6. \A v \in Item : <<q, v>> \in stable[c] => <<q, v>> \in hydrated[c]
    BY <1>1, <2>1, <2>2, CoverParts DEF CoverOf
  <2>7. \A r \in Part : r > pd => r = q \/ r > q
    <3>1. pd \in 0..Partitions
      BY <1>2 DEF TypeOK, Plan
    <3> QED
      BY <2>1, <2>4, <3>1, Numbers DEF Part
  <2>8. Covered(c, q)
    BY <1>3, <2>4, <2>6, <2>7 DEF Covered
  <2>9. Covered(c, q)'
    BY <1>3, <1>4, <2>2, <2>4, <2>8, CoveredStays
  <2> QED
    BY <2>5, <2>9 DEF CoverOf
<1>13. CASE Closes(w)
  <2>1. /\ page' = page /\ b.pc = "closing" /\ work'[w].pc = "snapshotting"
        /\ plan'.cycle = c /\ plan'.done = b.plan.done
    BY <1>1, <1>13 DEF Closes
  <2>2. b.plan = plan
    BY <1>1, <2>1 DEF Flight, FlightOf, Owning
  <2>3. pc # 0 => Covered(pc, pd)'
    BY <1>3, <1>4, <2>1, CoveredStays
  <2> QED
    BY <1>1, <1>2, <2>1, <2>2, <2>3 DEF CoverOf
<1> QED
  BY <1>6, <1>7, <1>8, <1>9, <1>10, <1>11, <1>12, <1>13 DEF Moves

\* A vacancy that is published moves the others of its search one place back.
LEMMA PublishedAhead ==
    ASSUME TypeOK, NEW p \in Part, NEW u \in Item, Publishes(p, u),
           NEW q \in Part, NEW v \in Item, NEW n \in Nat, Ahead(q, v, n)
    PROVE  \E i \in 1..Len(listing'[q]) : i > n * PerPage /\ listing'[q][i] = v
<1>1. PICK i \in 1..Len(listing[q]) : i > n * PerPage /\ listing[q][i] = v
  BY DEF Ahead
<1>2. n * PerPage \in Nat /\ Len(listing[q]) \in Nat
  BY Numbers DEF TypeOK
<1>3. CASE q = p
  <2>1. listing'[q] = <<u>> \o listing[q] /\ Len(listing'[q]) = Len(listing[q]) + 1
    BY <1>3, PublishedListing
  <2>2. listing'[q][i + 1] = listing[q][i]
    BY <2>1, ListingType, SMTT(30)
  <2>3. i + 1 \in 1..Len(listing'[q]) /\ i + 1 > n * PerPage
    BY <1>1, <1>2, <2>1
  <2> QED
    BY <1>1, <2>2, <2>3
<1>4. CASE q # p
  BY <1>1, <1>4, PublishedListing
<1> QED
  BY <1>3, <1>4

LEMMA CoverPublish ==
    ASSUME TypeOK, Shape, Flight, Cover, Undisturbed, archived = 0,
           NEW p \in Part, NEW u \in Item, Publishes(p, u)
    PROVE  /\ plan'.cycle # 0 => Covered(plan.cycle, plan.done)'
           /\ \A x \in Worker : CoverOf(x)'
<1>1. /\ plan' = plan /\ page' = page /\ stable' = stable /\ hydrated' = hydrated
      /\ work' = work
  BY DEF Publishes
<1>2. ASSUME NEW q \in Part, NEW v \in Item, NEW n \in Nat, Ahead(q, v, n)
      PROVE  \E i \in 1..Len(listing'[q]) : i > n * PerPage /\ listing'[q][i] = v
  BY <1>2, PublishedAhead
<1>3. plan'.cycle # 0 => Covered(plan.cycle, plan.done)'
  <2> SUFFICES ASSUME plan.cycle # 0, NEW q \in Part, NEW v \in Item,
                      <<q, v>> \in stable[plan.cycle], <<q, v>> \notin hydrated[plan.cycle]
               PROVE  q > plan.done /\ Ahead(q, v, page[q])'
    BY <1>1 DEF Covered
  <2>1. q > plan.done /\ Ahead(q, v, page[q])
    BY CoverParts DEF Covered
  <2>2. page[q] \in Nat
    BY DEF TypeOK
  <2> QED
    BY <1>1, <1>2, <2>1, <2>2, SMTT(30) DEF Ahead
<1>4. ASSUME NEW x \in Worker PROVE CoverOf(x)'
  <2>1. PICK b, c, q : b = work[x] /\ c = b.plan.cycle /\ q = b.plan.done + 1
    OBVIOUS
  <2>2. CoverOf(x)
    BY CoverParts
  <2>3. CASE b.pc = "saving"
    <3>1. q \in Part /\ b.next \in Nat
      BY <2>1, <2>3, PartitionInHand, BatchFields DEF Paging
    <3>2. \A v \in Item : Ahead(q, v, b.next) =>
              \E i \in 1..Len(listing'[q]) : i > b.next * PerPage /\ listing'[q][i] = v
      BY <1>2, <3>1
    <3> QED
      BY <1>1, <2>1, <2>2, <2>3, <3>2 DEF CoverOf, Ahead
  <2>4. CASE b.pc # "saving"
    BY <1>1, <2>1, <2>2, <2>4 DEF CoverOf
  <2> QED
    BY <2>3, <2>4
<1> QED
  BY <1>3, <1>4

LEMMA CoverStep == ASSUME TypeOK, Shape, Served, Flight, Cover, Effect PROVE Cover'
<1> USE DEF dataVars
<1> SUFFICES ASSUME Undisturbed', archived' = 0
             PROVE  /\ \A c \in Complete' : stable'[c] \subseteq hydrated'[c]
                    /\ plan'.cycle # 0 => Covered(plan.cycle, plan.done)'
                    /\ \A x \in Worker : CoverOf(x)'
  BY DEF Cover, Covered
<1>1. /\ Undisturbed /\ ~\E w \in Worker : Drops(w) \/ Begins(w)
      /\ archived = 0 /\ ~\E q \in Part : Archives(q)
  BY StaysClean, NotArchived
<1>2. ASSUME NEW c \in Complete' PROVE stable'[c] \subseteq hydrated'[c]
  <2>1. c \in Id
    BY DEF Complete
  <2>2. Began(c) /\ stable[c] \subseteq hydrated[c]
    <3>1. CASE c \in Complete
      BY <1>1, <3>1, CompleteBegan, CoverParts
    <3>2. ASSUME NEW w \in Worker, Completes(w), c = work[w].plan.cycle
          PROVE  Began(c) /\ stable[c] \subseteq hydrated[c]
      <4>1. work[w].pc = "completing"
        BY <3>2 DEF Completes
      <4>2. Began(c) /\ work[w].plan.done = Partitions /\ work[w].plan = plan
        BY <1>1, <2>1, <3>2, <4>1 DEF Shape, ShapeOf, Owning, Began, Flight, FlightOf
      <4>3. c # 0
        BY <2>1, Numbers
      <4>4. Covered(c, Partitions)
        BY <1>1, <3>2, <4>2, <4>3, CoverParts
      <4>5. \A q \in Part : ~(q > Partitions)
        BY Numbers DEF Part
      <4>6. \A q \in Part, v \in Item : <<q, v>> \in stable[c] => <<q, v>> \in hydrated[c]
        BY <4>4, <4>5 DEF Covered
      <4>7. stable[c] \subseteq Part \X Item
        BY <2>1 DEF TypeOK
      <4> QED
        BY <4>2, <4>6, <4>7
    <3> QED
      BY <3>1, <3>2, CompleteStep
  <2> QED
    BY <2>1, <2>2, HistoryGrows
<1>3. ASSUME NEW p \in Part, NEW u \in Item, Publishes(p, u)
      PROVE  /\ plan'.cycle # 0 => Covered(plan.cycle, plan.done)'
             /\ \A x \in Worker : CoverOf(x)'
  BY <1>1, <1>3, CoverPublish
<1>4. ASSUME NEW w \in Worker, Moves(w)
      PROVE  /\ plan'.cycle # 0 => Covered(plan.cycle, plan.done)'
             /\ \A x \in Worker : CoverOf(x)'
  <2>1. (plan'.cycle # 0 => Covered(plan.cycle, plan.done)') /\ CoverOf(w)'
    BY <1>1, <1>4, CoverMove
  <2>2. ASSUME NEW x \in Worker \ {w} PROVE CoverOf(x)'
    <3>1. work'[x] = work[x] /\ CoverOf(x)
      BY <1>1, <1>4, MovesOne, CoverParts DEF Others
    <3>2. CASE work[x].pc = "idle"
      BY <3>1, <3>2, IdleFlight
    <3>3. CASE work[x].pc # "idle"
      <4>1. work[w].pc = "idle"
        BY <1>1, <3>3, Alone
      <4>2. lock = x
        BY <1>1, <3>3, Alone
      <4>3. Ends(w)
        BY <1>1, <1>4, <4>1, <4>2, MovesAwake, NobodyHoldsIt DEF Locks
      <4> QED
        BY <3>1, <4>3 DEF Ends, CoverOf, Ahead
    <3> QED
      BY <3>2, <3>3
  <2> QED
    BY <2>1, <2>2
<1>5. CASE UNCHANGED <<listing, stable, hydrated, page, plan, work>>
  <2>1. /\ plan.cycle # 0 => Covered(plan.cycle, plan.done)
        /\ \A x \in Worker : CoverOf(x)
    BY <1>1, CoverParts
  <2>2. \A x \in Worker : CoverOf(x)'
    BY <1>5, <2>1 DEF CoverOf, Ahead
  <2>3. plan'.cycle # 0 => Covered(plan.cycle, plan.done)'
    BY <1>5, <2>1 DEF Covered, Ahead
  <2> QED
    BY <1>2, <2>2, <2>3
<1> QED
  BY <1>1, <1>2, <1>3, <1>4, <1>5 DEF Effect

-----------------------------------------------------------------------------
(* Theorems *)

LEMMA HydrationInit == Init => HydrationInv
<1> SUFFICES ASSUME Init PROVE HydrationInv
  OBVIOUS
<1>1. TypeOK
  BY TypeInit
<1>2. /\ plan.cycle = 0 /\ plan.done = 0 /\ plan.complete = FALSE
      /\ \A w \in Worker : work[w].pc = "idle" /\ work[w].parts = 0 /\ work[w].plan.done = 0
      /\ (\A q \in Part : page[q] = 0) /\ (\A c \in Id : stable[c] = {} /\ cycle[c].status = "none")
  BY DEF Init, NoPlan, Idle
<1>3. Shape
  BY <1>2, Numbers DEF Shape, ShapeOf, PlanShape, Owning, Paging
<1>4. Depth
  BY <1>2, DepthCoversSearch DEF Depth, CursorWithinDepth
<1>5. Served
  <2>1. \A q \in Part : Len(listing[q]) <= SearchCap
    <3>1. PICK n \in [Part -> 0..SearchCap] : listing = [q \in Part |-> [i \in 1..n[q] |-> i]]
      BY DEF Init
    <3>2. \A q \in Part : n[q] \in Nat /\ n[q] <= SearchCap
      BY <3>1, Numbers
    <3>3. \A q \in Part : Len(listing[q]) = n[q]
      BY <3>1, <3>2
    <3> QED
      BY <3>2, <3>3
  <2> QED
    BY <1>2, <2>1 DEF Served, ReachOf, Reaches
<1>6. Visits
  BY <1>2, Numbers DEF Visits, VisitsOf, Owning, Paging, Complete
<1>7. Flight
  BY <1>2 DEF Flight, FlightOf, Owning, Paging
<1>8. Cover
  BY <1>2 DEF Cover, CoverOf, Complete
<1> QED
  BY <1>1, <1>3, <1>4, <1>5, <1>6, <1>7, <1>8 DEF HydrationInv

LEMMA HydrationStep == HydrationInv /\ [Next]_vars => HydrationInv'
<1> SUFFICES ASSUME TypeOK, Shape, Depth, Served, Visits, Flight, Cover, [Next]_vars
             PROVE  HydrationInv'
  BY DEF HydrationInv
<1>1. Effect
  BY EffectNext
<1>2. TypeOK'
  BY TypeStep
<1> QED
  BY <1>1, <1>2, ShapeStep, DepthStep, ServedStep, VisitsStep, FlightStep, CoverStep DEF HydrationInv

\* The inductive invariant of the hydration: HydrationInv holds in every reachable state.
THEOREM HydrationInvariant == Spec => []HydrationInv
  BY HydrationInit, HydrationStep, PTL DEF Spec

\* Every variable keeps its type: in particular a batch never has a partition past the
\* last one in hand (it_batch.go stops at len(plan.Partitions)).
THEOREM TypeCorrect == Spec => []TypeOK
<1>1. HydrationInv => TypeOK
  BY DEF HydrationInv
<1> QED
  BY <1>1, HydrationInvariant, PTL

\* ResolvePageLimit and checkpoint.Decide together never commit a page checkpoint at or
\* past the depth HH serves, whoever overlaps and whatever is published or archived.
THEOREM CursorDepth == Spec => []CursorWithinDepth
<1>1. HydrationInv => CursorWithinDepth
  BY DEF HydrationInv, Depth
<1> QED
  BY <1>1, HydrationInvariant, PTL

\* Under the scheduler's lock only the partition whose turn it is has a page checkpoint.
THEOREM InFlight == Spec => []OnlyCurrentPartitionInFlight
<1>1. HydrationInv => OnlyCurrentPartitionInFlight
  BY DEF HydrationInv, Flight, OnlyCurrentPartitionInFlight
<1> QED
  BY <1>1, HydrationInvariant, PTL

\* CompleteCycle is reached only after each partition that listed something was visited,
\* even with the CLI in between and after the lock is lost.
THEOREM PartitionsVisited == Spec => []EveryPartitionVisited
<1>1. ASSUME HydrationInv PROVE EveryPartitionVisited
  <2> SUFFICES ASSUME archived = 0, NEW c \in Complete, NEW i \in stable[c]
               PROVE  \E j \in hydrated[c] : j[1] = i[1]
    BY DEF EveryPartitionVisited
  <2>1. Visited(c, Partitions)
    BY <1>1 DEF HydrationInv, Visits
  <2>2. PICK q \in Part, v \in Item : i = <<q, v>>
    BY <1>1 DEF HydrationInv, TypeOK, Complete
  <2>3. q <= Partitions /\ Awaited(c, q)
    BY <2>2, Numbers DEF Part, Awaited
  <2>4. PICK u \in Item : <<q, u>> \in hydrated[c]
    BY <2>1, <2>3 DEF Visited, Touched
  <2> QED
    BY <2>2, <2>4
<1> QED
  BY <1>1, HydrationInvariant, PTL

\* CompleteCycle proves full coverage, across aborted and resumed batches: what HH listed
\* throughout the cycle was hydrated while it ran.
THEOREM CycleCoverage == Spec => []BatchesCoverTheCycle
<1>1. HydrationInv => BatchesCoverTheCycle
  BY DEF HydrationInv, Cover, BatchesCoverTheCycle, CompleteProvesCoverage
<1> QED
  BY <1>1, HydrationInvariant, PTL
=============================================================================
