CONSTANTS
    t1 = t1
    t2 = t2
    e1 = e1
    AlertCount = 2
    Chosen = {"telegram"}
    Passes = {t1, t2}
    ChannelOf <- TwoTelegram
    BatchSize = 2
    MaxAttempts = 2
    Faults = {"crash", "uncaught"}
    MaxFaults = 1
    MaxLinkChanges = 1
    CycleEnds = FALSE
    Observed = {}
    Absent = Absent
SPECIFICATION FairSpec
CHECK_DEADLOCK FALSE
INVARIANTS
    RecordedIsReal
PROPERTIES
    Settles
