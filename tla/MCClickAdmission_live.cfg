SPECIFICATION FairSpec
CONSTANTS
    i1 = i1
    i2 = i2
    q1 = q1
    q2 = q2
    q3 = q3
    Instances = {i1}
    Requests = {q1, q2, q3}
    Home <- mcAtOne
    Periods = 1
    Quotas <- mcTwo
    MaxGrant = 2
    Divisor = 1
    MaxAttempts = 2
    CalmMonthEnd = TRUE
    LostReplies = TRUE
    MaxEdits = 0
    MaxFaults = 1
PROPERTIES LeftoversComeBack EveryClickAnswered
CHECK_DEADLOCK FALSE
