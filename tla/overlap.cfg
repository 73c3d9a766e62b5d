SPECIFICATION PassageSpec
CONSTANTS
    k1 = k1
    k2 = k2
    q1 = q1
    q2 = q2
    Keys = {k1}
    EventType <- MCTypesOne
    Policies <- MCReleasePolicies
    Names <- MCNames
    NoRow = NoRow
    StaleTimeout = 0
    Replicas = {r1}
    MaxHold = 0
    Requests = {q1, q2}
    MaxFaults = 1
    Clients = {"approve", "delete", "retry"}
    Overlap = TRUE
SYMMETRY Same
INVARIANTS
    CallsAreEarned
    CompletionIsEarned
    PassageInv
