\* Five items of two sizes, two goroutines, two attempts.
SPECIFICATION FairSpec
CONSTANTS
    N = 5
    Cost <- Costs
    Category <- Errors
    InputTokenBudget = 3
    MaxBatchSize = 3
    MaxConcurrency = 2
    MaxAttempts = 2
CHECK_DEADLOCK FALSE
INVARIANT TypeOK
INVARIANT PackedByTheLimits
INVARIANT EachItemInOnePlace
INVARIANT EveryItemDecided
INVARIANT RequestsBounded
PROPERTY CallReturns
