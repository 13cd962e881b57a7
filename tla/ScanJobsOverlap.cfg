CONSTANTS
    Versions = {v1}
    ExperimentVersions = {}
    LastBucket = 0
    Symbols = {s1, s2}
    Workers = {w1, w2, w3}
    MaxAttempts = 2
    NoJob = NoJob
    Schedulers = 1
    SlowWorkers = TRUE
    Backlog = TRUE
SPECIFICATION FairSpec
CHECK_DEADLOCK FALSE
INVARIANTS
    SucceededIsComplete
    UsageIsBacked
    RecoveryCanSeeIt
    AttemptsBounded
PROPERTIES
    Settles
