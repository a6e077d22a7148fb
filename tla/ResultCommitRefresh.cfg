SPECIFICATION Spec
CONSTANTS
    m1 = m1
    m2 = m2
    r1 = r1
    r2 = r2
    Model <- Models2
    Request <- Requests1
    MaxClock = 4
INVARIANTS
    RefreshKept
CHECK_DEADLOCK FALSE
