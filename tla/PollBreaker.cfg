SPECIFICATION FairSpec
CONSTANTS
    c1 = c1
    c2 = c2
    c3 = c3
    Client <- Clients2
    LimitSetting <- OneTwo
    StallSetting <- NoStall
    DefaultStall = 1
    MaxPolls = 1
    MaxTime = 2
INVARIANTS
    TypeOK
    OwnHistory
PROPERTIES
    OpensWithoutCompletion
    BreakerCloses
