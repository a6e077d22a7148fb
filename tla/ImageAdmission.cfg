SPECIFICATION FairSpec
CONSTANTS
    c1 = c1
    c2 = c2
    c3 = c3
    c4 = c4
    Client <- Clients3
    LimitSetting <- AllLimits
    QueueSetting <- Queues
INVARIANTS
    TypeOK
    WorkConserving
PROPERTIES
    NoOvertaking
    ImplementsGate
    EveryWaiterReturns
