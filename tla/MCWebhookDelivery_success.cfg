SPECIFICATION Spec
CONSTANTS
    d1 = d1
    d2 = d2
    d3 = d3
    e1 = e1
    e2 = e2
    r1 = r1
    r2 = r2
    b1 = b1
    b2 = b2
    Deliveries = {d1}
    Endpoints = {e1}
    EndpointOf <- mcOneEndpoint
    Runs = {r1, r2}
    Buttons = {}
    Unsafe = {}
    Take = 1
    MaxRetries = 2
    MinFailures = 2
    MaxEdits = 0
    MaxFaults = 0
PROPERTY SuccessIsFinal
CHECK_DEADLOCK FALSE
