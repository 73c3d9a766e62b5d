SPECIFICATION Spec
CONSTANTS
    k1 = k1
    k2 = k2
    Keys = {k1}
    EventType <- MCTypesOne
    Policies <- MCPolicies
    Names <- MCNames
    NoRow = NoRow
    StaleTimeout = 1
    Replicas = {r1}
    MaxHold = 2
    Requests = {q1}
    MaxFaults = 1
    Clients = {}
    Overlap = FALSE
INVARIANTS
    InFlightIsBeingWorked
