SPECIFICATION RolloutPassageSpec
CONSTANTS
    k1 = k1
    k2 = k2
    r1 = r1
    r2 = r2
    Keys = {k1}
    EventType <- MCTypesOne
    Policies <- MCAlertOnly
    NewPolicies <- MCPlanned
    Names <- MCNames
    NoRow = NoRow
    StaleTimeout = 0
    Replicas = {r1, r2}
    MaxHold = 1
    Requests = {q1}
    MaxFaults = 0
    Clients = {"approve"}
    Overlap = FALSE
SYMMETRY Replicated
CONSTRAINT PostedOnce
INVARIANTS
    RolloutSkipsNothing
    RolloutPassageInv
