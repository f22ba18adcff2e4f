\* One process that always retries, over two days, against a page count that changes once.
SPECIFICATION FairSpec
CONSTANTS
    p1 = p1
    p2 = p2
    NoProcess = NoProcess
    Assistant = Assistant
    Process <- OneProcess
    MaxKeys = 2
    MaxPages = 2
    MaxDays = 2
    Retention = 0
    MaxDrifts = 1
    MaxReplans = 0
    MaxFaults = 1
    MaxLockLosses = 0
INVARIANT CompleteIsCovered
PROPERTY StatusesNeverGoBack
PROPERTY StartedDayCompletes
PROPERTY CompleteDayIsPublished
