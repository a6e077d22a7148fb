\* One policy that never changes, two windows.
SPECIFICATION MCSpec
CONSTANTS
    r1 = r1
    r2 = r2
    r3 = r3
    a1 = a1
    a2 = a2
    Request <- Requests3
    Auth <- OneAuth
    Removable <- NoAuth
    LimitSetting = {1}
    MaxAttempts = 1
    MaxWindow = 1
    MaxGeneration = 1
    MaxChanges = 1
SYMMETRY RequestSymmetry
INVARIANTS WindowLimit
CHECK_DEADLOCK FALSE
