\* Scheduler and operator over two weeks, with missed days, a rerun and a fault.
SPECIFICATION FairSpec
CONSTANTS
    s1 = s1
    o1 = o1
    Discovery = Discovery
    NoProcess = NoProcess
    Scheduler <- OneScheduler
    Operator <- OneOperator
    MaxDays = 3
    WeekLength = 2
    Retention = 0
    MaxReruns = 1
    MaxFaults = 1
INVARIANT TypeOK
INVARIANT PublishedDayHasRows
INVARIANT BackfillCatchesUp
PROPERTY EveryCycleIsPublished
