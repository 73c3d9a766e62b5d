SPECIFICATION FairRollout
CONSTANTS
    k1 = k1
    k2 = k2
    Keys = {k1, k2}
    EventType <- MCTypesTwo
    Policies <- MCAlertOnly
    NewPolicies <- MCAdded
    Names <- MCNames
    NoRow = NoRow
    StaleTimeout = 1
    Replicas = {r1}
    MaxHold = 2
    Requests = {q1}
    MaxFaults = 1
    Clients = {"approve", "deny", "delete", "retry"}
    Overlap = FALSE
PROPERTIES
    ItemsComeToRest
