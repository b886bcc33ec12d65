SPECIFICATION Spec
CONSTANTS
    q1 = q1
    q2 = q2
    q3 = q3
    e1 = e1
    e2 = e2
    Requests = {q1, q2, q3}
    Humans = {q1, q2}
    Editors = {e1}
    Caps <- mcCaps
    DailyCaps <- mcCaps
    Lifetimes <- mcLifetimes
    QuotaLimit = 1
    DayLength = 2
    MaxTime = 2
    CalmMidnight = TRUE
    LostReplies = TRUE
    MaxEdits = 1
    MaxFaults = 1
SYMMETRY VisitSymmetry
INVARIANTS ReservationsAccounted CapsKept ExpiredStaysExpired
CHECK_DEADLOCK FALSE
