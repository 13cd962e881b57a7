CONSTANTS
    t1 = t1
    t2 = t2
    t3 = t3
    t4 = t4
    k1 = k1
    k2 = k2
    k3 = k3
    u1 = u1
    u2 = u2
    Turns = {t1, t2, t3}
    Keys = {k1, k2}
    Users = {u1}
    KeyOf <- ThreeTurns
    UserOf <- OneUser
    Durable = {k1, k2}
    Sweeps = {}
    Scopes = {"user_daily"}
    Limit <- TurnCeiling
    MaxConcurrent = 2
    Costs = {1}
    Days = 1
    MaxCrashes = 0
    MayOverrun = FALSE
    Metered = {"user_daily"}
    Absent = Absent
SPECIFICATION Spec
CHECK_DEADLOCK FALSE
INVARIANTS
    BillWithinCeiling
