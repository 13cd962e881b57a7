CONSTANTS
    Versions = {v1}
    ExperimentVersions = {}
    LastBucket = 1
    Symbols = {s1, s2}
    Workers = {w1, w2}
    MaxAttempts = 2
    NoJob = NoJob
    Schedulers = 1
    SlowWorkers = FALSE
    Backlog = FALSE
SPECIFICATION Spec
SYMMETRY Interchangeable
CHECK_DEADLOCK FALSE
INVARIANTS
    TypeOK
    CountsAgree
PROPERTIES
    TerminalIsFinal
    ImplementsLifecycle
