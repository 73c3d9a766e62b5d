SPECIFICATION Spec
CONSTANTS
    k1 = k1
    k2 = k2
    Keys = {k1}
    EventType <- MCTypesOne
    Policies <- MCPolicies
    Names <- MCNames
    NoRow = NoRow
    StaleTimeout = 1
    Replicas = {r1}
    MaxHold = 2
    Requests = {q1, q2}
    MaxFaults = 0
    Clients = {"approve", "deny"}
    Overlap = TRUE
INVARIANTS
    DenialIsFinal
