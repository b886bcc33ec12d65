SPECIFICATION BenchSpec
CONSTANTS
    a1 = a1
    a2 = a2
    a3 = a3
    l0 = l0
    l1 = l1
    l2 = l2
    l3 = l3
    h1 = h1
    nobody = nobody
    p1 = p1
    u1 = u1
    u2 = u2
    w0 = w0
    w1 = w1
    w2 = w2
    f1 = f1
    c1 = c1
    c2 = c2
    m1 = m1
    r1 = r1
    Focus = {"cache", "lossy", "editing", "lifecycle", "filing", "crossing", "edge", "health", "rules", "paths", "clicks", "crew"}
    EditedLinks = {l0}
    EditHorizon = 1
    Templates = FALSE
    CalmBoundary = TRUE
    FreeCodes = {"a", "b"}
    EdgeSnapshots = 2
    QueueFaults = 1
SYMMETRY BenchSymmetry
INVARIANTS CacheSound ShownIsServed OneLinkPerCode FolderInWorkspace NewerIsNeverCovered HealthSound ClicksAccountedFor
PROPERTIES TrashKeepsItsPromise
CHECK_DEADLOCK FALSE
