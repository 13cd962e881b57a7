CONSTANTS
    t1 = t1
    t2 = t2
    t3 = t3
    t4 = t4
    k1 = k1
    k2 = k2
    k3 = k3
    u1 = u1
    u2 = u2
    Turns = {t1, t2, t3, t4}
    Keys = {k1, k2, k3}
    Users = {u1, u2}
    KeyOf <- FourTurns
    UserOf <- TwoUsers
    Durable = {k1, k2}
    Sweeps = {s1}
    Scopes = {"global_daily", "global_monthly", "user_messages_daily"}
    Limit <- Ceilings
    MaxConcurrent = 2
    Costs = {1}
    Days = 2
    MaxCrashes = 2
    MayOverrun = FALSE
    Metered = {}
    Absent = Absent
SPECIFICATION Spec
CHECK_DEADLOCK FALSE
INVARIANTS
    CountersAddUp
    CeilingHolds
PROPERTIES
    ImplementsBook
