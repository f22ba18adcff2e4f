\* A backoff that grows in five steps past the interval, with jitter down to nothing.
SPECIFICATION Spec
CONSTANTS
    Interval = 4
    BackoffInitial = 1
    BackoffMax = 7
    JitterPercent = 50
    FailureLimit = 5
CHECK_DEADLOCK FALSE
INVARIANT NoOverlap
PROPERTY DelayRespected
