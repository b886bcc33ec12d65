SPECIFICATION Spec
CONSTANTS
    i1 = i1
    i2 = i2
    q1 = q1
    q2 = q2
    q3 = q3
    Instances = {i1, i2}
    Requests = {q1, q2, q3}
    Home <- mcHome
    Periods = 2
    Quotas <- mcTwoOrNone
    MaxGrant = 2
    Divisor = 1
    MaxAttempts = 1
    CalmMonthEnd = TRUE
    LostReplies = FALSE
    MaxEdits = 1
    MaxFaults = 1
SYMMETRY RequestSymmetry
INVARIANT EveryUnitAccountedFor
PROPERTY ImplementsQuota
CHECK_DEADLOCK FALSE
