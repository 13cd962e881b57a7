CONSTANTS
    r1 = r1
    r2 = r2
    r3 = r3
    r4 = r4
    m1 = m1
    m2 = m2
    Messages = {m1, m2}
    Clicks = {m2}
    Attempts = {r1, r2, r3, r4}
    MessageOf <- BothResent
    Broken = {}
    MaxTries = 1
    MaxFaults = 2
    MayResend = FALSE
    MayOverrun = FALSE
SPECIFICATION FairSpec
CHECK_DEADLOCK FALSE
INVARIANTS
    TypeOK
    AppliedOnRecord
    OneOwner
    AnsweredOnce
PROPERTIES
    PlansRespectApproval
    TurnsSettle
