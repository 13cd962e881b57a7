CONSTANTS
    Monitors = {m1}
    ExperimentMonitors = {}
    Symbols = {s1, s2}
    LastCandle = 1
    ExpireAfter = 1
    CooldownTicks = 1
    HourTicks = 0
    HourlyMax = 1
    DayTicks = 2
    DailyBudget = 2
    WeekTicks = 2
    WeeklyBudget = 1
    TrialCap = 1
    Withheld = {TRUE, FALSE}
    Outcomes = {"confirmed", "near_miss", "forming"}
    Absent = Absent
    LastTick = 2
SPECIFICATION Spec
SYMMETRY Interchangeable
CHECK_DEADLOCK FALSE
INVARIANTS
    TypeOK
    OneOpenSetup
    PaceHolds
    WeekBudgetHolds
    RefusalIsExplained
