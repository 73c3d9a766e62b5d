SPECIFICATION Spec
CONSTANTS
    k1 = k1
    k2 = k2
    Keys = {k1, k2}
    EventType <- MCTypesTwo
    Policies <- MCPolicies
    Names <- MCNames
    NoRow = NoRow
    StaleTimeout = 1
    Replicas = {r1}
    MaxHold = 2
    Requests = {q1, q2}
    MaxFaults = 2
    Clients = {"approve", "deny", "delete", "retry"}
    Overlap = FALSE
INVARIANTS
    TypeInv
    ApprovalGate
    PromptHasResults
    CompletedMeansAllRan
    NoLimbo
    DenialIsFinal
    DenialIsNotRetriable
    ManualMeansManual
    WorkerHoldsItem
    IInv
    GaugesPartitionItems
PROPERTIES
    ItemsFollowWorkflow
    PhaseMovesForward
    OnlyFinishedRowsGo
