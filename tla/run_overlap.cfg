\* Two workers on one snapshot, one of which may outlive its advisory lock, crashes and lost answers.
SPECIFICATION Spec
CONSTANTS
    u1 = u1
    u2 = u2
    w1 = w1
    w2 = w2
    NoWorker = NoWorker
    User <- OneUser
    Worker <- TwoWorkers
    MaxRuns = 1
    MaxVacancies = 2
    MaxVersions = 1
    MaxRulesets = 1
    BatchSize = 1
    MaxSnapshotPages = 0
    MaxFaults = 1
    MaxLockLosses = 1
SYMMETRY WorkerSymmetry
INVARIANT TypeOK
INVARIANT SnapshotCoverage
INVARIANT SoleOwner
PROPERTY LifecycleRespected
PROPERTY CursorNeverMovesBack
