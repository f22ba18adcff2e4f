\* Two processes, a dropped lock session, a changing page count and plan.
SPECIFICATION Spec
CONSTANTS
    p1 = p1
    p2 = p2
    NoProcess = NoProcess
    Assistant = Assistant
    Process <- TwoProcesses
    MaxKeys = 2
    MaxPages = 2
    MaxDays = 1
    Retention = 0
    MaxDrifts = 1
    MaxReplans = 1
    MaxFaults = 0
    MaxLockLosses = 1
SYMMETRY ProcessSymmetry
INVARIANT TypeOK
INVARIANT ReconcilesCovered
INVARIANT CountersExact
