\* Two workers, one of which may outlive its advisory lock, and a cut pass.
SPECIFICATION Spec
CONSTANTS
    v1 = v1
    v2 = v2
    v3 = v3
    u1 = u1
    w1 = w1
    w2 = w2
    NoWorker = NoWorker
    Vacancy <- OneVacancy
    User <- OneUser
    Worker <- TwoWorkers
    Profile <- Mixed
    MaxRevision = 2
    BatchSize = 1
    AttemptLimit = 2
    MaxChanges = 1
    MaxFaults = 1
SYMMETRY WorkerSymmetry
INVARIANT TypeOK
INVARIANT AttemptsAreFailures
INVARIANT DeliveryBacked
INVARIANT MatchAnnounced
PROPERTY ImplementsOutbox
