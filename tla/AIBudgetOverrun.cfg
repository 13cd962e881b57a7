CONSTANTS
    t1 = t1
    t2 = t2
    t3 = t3
    t4 = t4
    k1 = k1
    k2 = k2
    k3 = k3
    u1 = u1
    u2 = u2
    Turns = {t1, t2, t3}
    Keys = {k1, k2}
    Users = {u1}
    KeyOf <- ThreeTurns
    UserOf <- OneUser
    Durable = {k1}
    Sweeps = {s1}
    Scopes = {"global_daily"}
    Limit <- OneCeiling
    MaxConcurrent = 2
    Costs = {1}
    Days = 2
    MaxCrashes = 1
    MayOverrun = TRUE
    Metered = {}
    Absent = Absent
SPECIFICATION FairSpec
CHECK_DEADLOCK FALSE
INVARIANTS
    TypeOK
    NothingLeaks
PROPERTIES
    PromisesEnd
