SPECIFICATION FairBench
CONSTANTS
    a1 = a1
    a2 = a2
    l1 = l1
    l2 = l2
    l3 = l3
    h1 = h1
    nobody = nobody
    d1 = d1
    d2 = d2
    e1 = e1
    b1 = b1
    Focus = {"cache", "webhooks", "health"}
    Probed = {l1, l2, l3}
    Pressing = {}
    Take = 2
    SiteEvents = 1
PROPERTIES StaleNeverLasts EventuallySettled ProbedAgain
CHECK_DEADLOCK FALSE
