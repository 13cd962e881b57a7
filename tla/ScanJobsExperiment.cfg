CONSTANTS
    Versions = {v1}
    ExperimentVersions = {v1}
    LastBucket = 0
    Symbols = {s1, s2}
    Workers = {w1, w2}
    MaxAttempts = 2
    NoJob = NoJob
    Schedulers = 1
    SlowWorkers = FALSE
    Backlog = TRUE
SPECIFICATION Spec
SYMMETRY Interchangeable
CHECK_DEADLOCK FALSE
INVARIANTS
    SingleExecution
    CountsAgree
