SPECIFICATION FairRollout
CONSTANTS
    k1 = k1
    k2 = k2
    Keys = {k1}
    EventType <- MCTypesOne
    Policies <- MCDeployPolicies
    NewPolicies <- MCLeftOut
    Names <- MCNames
    NoRow = NoRow
    StaleTimeout = 1
    Replicas = {r1}
    MaxHold = 2
    Requests = {q1}
    MaxFaults = 0
    Clients = {}
    Overlap = FALSE
PROPERTIES
    ItemsComeToRest
