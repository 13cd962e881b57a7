CONSTANTS
    r1 = r1
    r2 = r2
    r3 = r3
    r4 = r4
    m1 = m1
    m2 = m2
    Messages = {m1, m2}
    Clicks = {}
    Attempts = {r1, r2, r3}
    MessageOf <- Resent
    Broken = {}
    MaxTries = 3
    MaxFaults = 0
    MayResend = FALSE
    MayOverrun = FALSE
SPECIFICATION Spec
CHECK_DEADLOCK FALSE
PROPERTIES
    RebaseKeepsTheDraft
