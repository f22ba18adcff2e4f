\* Aborted and resumed batches while vacancies are published and archived.
SPECIFICATION FairSpec
CONSTANTS
    s1 = s1
    s2 = s2
    c1 = c1
    NoWorker = NoWorker
    Scheduler <- OneScheduler
    Cli <- OneCli
    Partitions = 2
    PerPage = 1
    SearchCap = 2
    HardMaxPages = 2
    MaxRequests = 5
    MaxBatchParts = 1
    MaxPagesPerPart = 2
    MaxCycles = 2
    MaxPublished = 1
    MaxArchived = 1
    MaxCliRuns = 0
    MaxFaults = 2
    MaxLockLosses = 0
INVARIANT BatchesCoverTheCycle
INVARIANT OnlyCurrentPartitionInFlight
PROPERTY PlannedCycleCompletes
