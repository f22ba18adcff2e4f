\* Two schedulers, a dropped lock session, a run by hand.
SPECIFICATION Spec
CONSTANTS
    s1 = s1
    s2 = s2
    c1 = c1
    NoWorker = NoWorker
    Scheduler <- TwoSchedulers
    Cli <- OneCli
    Partitions = 2
    PerPage = 1
    SearchCap = 2
    HardMaxPages = 2
    MaxRequests = 5
    MaxBatchParts = 1
    MaxPagesPerPart = 2
    MaxCycles = 2
    MaxPublished = 0
    MaxArchived = 0
    MaxCliRuns = 1
    MaxFaults = 0
    MaxLockLosses = 1
SYMMETRY SchedulerSymmetry
INVARIANT TypeOK
INVARIANT EveryPartitionVisited
INVARIANT CursorWithinDepth
