SPECIFICATION Spec
CONSTANTS
    Coroutines = {c1, c2}
    Requests = {q1, q2}
INVARIANTS
    LifespanInv
    ProbesWhileServing
    UsersFindTables
    DisposeIsLast
PROPERTIES
    ShutdownEnds
