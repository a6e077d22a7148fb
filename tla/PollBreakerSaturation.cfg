SPECIFICATION Spec
CONSTANTS
    c1 = c1
    c2 = c2
    c3 = c3
    Client <- Clients3
    LimitSetting <- OnlyTwo
    StallSetting <- OneStall
    DefaultStall = 2
    MaxPolls = 1
    MaxTime = 2
PROPERTY
    OpensAfterContinuousSaturation
