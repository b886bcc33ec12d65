SPECIFICATION Spec
CONSTANTS
    p1 = p1
    f1 = f1
    f2 = f2
    q1 = q1
    q2 = q2
    Purchases = {p1}
    Renewals = {}
    Amount <- mcAmount
    Refunds = {f1, f2}
    RefundOf <- mcRefundOf
    Total <- mcTotal
    Tokened <- mcCheckoutTokens
    InOrder = TRUE
    Requests = {q1, q2}
    ValueCap = 8
    RewardPercent = 0
    Quota = 5
    MaxEdits = 0
    MaxFaults = 0
SYMMETRY RequestSymmetry
INVARIANT RefundsConverge
CHECK_DEADLOCK FALSE
