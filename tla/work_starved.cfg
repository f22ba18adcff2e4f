\* Two vacancies that became inactive before they were analysed, and an active one.
SPECIFICATION FairSpec
CONSTANTS
    v1 = v1
    v2 = v2
    v3 = v3
    u1 = u1
    w1 = w1
    w2 = w2
    NoWorker = NoWorker
    Vacancy <- ThreeVacancies
    User <- OneUser
    Worker <- OneWorker
    Profile <- Plain
    MaxRevision = 1
    BatchSize = 1
    AttemptLimit = 2
    MaxChanges = 0
    MaxFaults = 0
PROPERTY NewRevisionIsAnalysed
