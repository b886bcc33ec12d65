SPECIFICATION FairSpec
CONSTANTS
    d1 = d1
    q1 = q1
    r1 = r1
    Domains = {d1}
    Runs = {r1}
    Requests = {q1}
    Life = 2
    Horizon = 3
    Again = FALSE
    MaxDeaths = 0
PROPERTY LapseIsNoticed
CHECK_DEADLOCK FALSE
