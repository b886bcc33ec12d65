SPECIFICATION BenchSpec
CONSTANTS
    a1 = a1
    a2 = a2
    x1 = x1
    x2 = x2
    t1 = t1
    t2 = t2
    q1 = q1
    q2 = q2
    q3 = q3
    k1 = k1
    p1 = p1
    n1 = n1
    n2 = n2
    g1 = g1
    g2 = g2
    control = control
    Focus = {"stripe", "trial", "keys", "members", "handover", "signin", "password", "campaign", "alerts", "rate", "domains"}
    MaxSecrets = 1
    Dies = {"login", "renew", "disable", "enable"}
    Alone = {"enable", "disable"}
    Admins = {"admin", "second"}
    Proposers = {"admin"}
    MindsChange = FALSE
    Crowded = FALSE
    Third = FALSE
    Again = FALSE
SYMMETRY BenchSymmetry
INVARIANTS SalesSound RetriesAreSafe MembershipsSound SecondFactorOnce SupersededIsDead ReleasesSound ToldOnce BudgetKept DomainsSound
PROPERTY PublishedIsLive
CHECK_DEADLOCK FALSE
