SPECIFICATION MCSpec
CONSTANTS
    c1 = c1
    c2 = c2
    c3 = c3
    c4 = c4
    Caller <- Callers4
    Concurrency = 1
    QueueLimit = 2
    SessionBurst = 1
    MaintenanceBurst = 2
INVARIANTS
    TypeOK
    WorkConserving
    BoundedBypass
PROPERTIES
    ImplementsGate
    EveryWaiterReturns
    CloseDrains
