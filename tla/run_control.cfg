\* Two runs, new binaries, crashes, lost answers and a page limit; every process
\* keeps polling.
SPECIFICATION FairSpec
CONSTANTS
    u1 = u1
    u2 = u2
    w1 = w1
    w2 = w2
    NoWorker = NoWorker
    User <- OneUser
    Worker <- OneWorker
    MaxRuns = 2
    MaxVacancies = 1
    MaxVersions = 1
    MaxRulesets = 2
    BatchSize = 1
    MaxSnapshotPages = 1
    MaxFaults = 1
    MaxLockLosses = 0
INVARIANT OneActiveRunPerUser
PROPERTY QueueAdvances
