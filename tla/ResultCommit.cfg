SPECIFICATION Spec
CONSTANTS
    m1 = m1
    m2 = m2
    r1 = r1
    r2 = r2
    Model <- Models2
    Request <- Requests2
    MaxClock = 3
INVARIANTS
    TypeOK
    FailureKept
    
    ReplacementFinal
SYMMETRY Symmetry
CHECK_DEADLOCK FALSE
