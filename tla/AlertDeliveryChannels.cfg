CONSTANTS
    t1 = t1
    t2 = t2
    e1 = e1
    AlertCount = 2
    Chosen = {"telegram", "email"}
    Passes = {t1, e1}
    ChannelOf <- OneEach
    BatchSize = 2
    MaxAttempts = 1
    Faults = {"crash", "uncaught"}
    MaxFaults = 1
    MaxLinkChanges = 1
    CycleEnds = TRUE
    Observed = {}
    Absent = Absent
SPECIFICATION FairSpec
CHECK_DEADLOCK FALSE
INVARIANTS
    TypeOK
    NeverOverstated
    SentIsCounted
PROPERTIES
    CounterSettles
