SPECIFICATION FairSpec
CONSTANTS
    a1 = a1
    a2 = a2
    p1 = p1
    p2 = p2
    w1 = w1
    w2 = w2
    Auth <- Auths2
    Producer <- Producers1
    Worker <- Workers2
    Shared <- OneAuth
    QueueLimit = 1
    MaxVersion = 2
    MaxEvents = 3
    MaxFault = 1
CHECK_DEADLOCK FALSE
INVARIANTS
    TypeOK
    NothingForgotten
    HashNotAhead
PROPERTIES
    DrainedMeansDurable
    ImplementsStored
    EventuallyDurable
    CloseDrains
