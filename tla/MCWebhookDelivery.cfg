SPECIFICATION Spec
CONSTANTS
    d1 = d1
    d2 = d2
    d3 = d3
    e1 = e1
    e2 = e2
    r1 = r1
    r2 = r2
    b1 = b1
    b2 = b2
    Deliveries = {d1, d2}
    Endpoints = {e1}
    EndpointOf <- mcOneEndpoint
    Runs = {r1, r2}
    Buttons = {b1}
    Unsafe = {e1}
    Take = 1
    MaxRetries = 2
    MinFailures = 1
    MaxEdits = 1
    MaxFaults = 1
SYMMETRY OneEndpointSymmetry
CONSTRAINT OneTrouble
INVARIANT EachAttemptOnce
PROPERTIES OneNoticePerDisable StaleNeverFinalizes
CHECK_DEADLOCK FALSE
