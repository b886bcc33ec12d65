SPECIFICATION FairSpec
CONSTANTS
    c1 = c1
    c2 = c2
    m1 = m1
    w1 = w1
    l1 = l1
    d1 = d1
    r1 = r1
    none = none
    Clicks = {c1, c2}
    Malformed = {m1}
    Workers = {w1}
    Links = {l1}
    Days = {d1}
    Refs = {}
    NoRef = none
    Personal = {}
    LinkOf <- mcOneLink
    DayOf <- mcDayOf
    RefOf <- mcNoRefs
    Humans = {c1, c2}
    Reserved = {c2}
    Excluded = {}
    Anonymised = {}
    Erasable = {}
    Deletable = {l1}
    MaxClicks <- mcCapOne
    BatchSize = 2
    MaxSends = 1
    MaxFaults = 1
INVARIANTS TypeOK NoLoss ChargedOnce FannedOutBeforeGone RollupsMatchEvents
PROPERTIES EventuallySettled ImplementsLedger
CHECK_DEADLOCK FALSE
