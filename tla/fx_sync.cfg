\* A sync and two ingest processes over four days, one without rates of its own.
SPECIFICATION FairSpec
CONSTANTS
    i1 = i1
    i2 = i2
    Ingest <- TwoIngest
    BankDays <- Banks
    MaxDays = 4
    NeedWindow = 2
    RateWindow = 1
    MaxStores = 2
    MaxFaults = 1
INVARIANT TypeOK
INVARIANT SyncConvertsWhatItFound
PROPERTY SalaryGetsNearestRate
