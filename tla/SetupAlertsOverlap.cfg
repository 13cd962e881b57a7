CONSTANTS
    Monitors = {m1}
    ExperimentMonitors = {m1}
    Symbols = {s1}
    LastCandle = 1
    ExpireAfter = 1
    CooldownTicks = 0
    HourTicks = 0
    HourlyMax = 2
    DayTicks = 1
    DailyBudget = 2
    WeekTicks = 2
    WeeklyBudget = 2
    TrialCap = 1
    Withheld = {FALSE}
    Outcomes = {"confirmed", "near_miss", "forming"}
    Absent = Absent
    LastTick = 1
SPECIFICATION FairSpec
CHECK_DEADLOCK FALSE
INVARIANTS
    HistoryIsALegalPath
    ConfirmationsAreAnswered
    SentMeansAlerted
PROPERTIES
    ClosedStaysClosed
    Closes
