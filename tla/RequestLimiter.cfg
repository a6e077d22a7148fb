\* Two requests with retries on a limited and on an unlimited credential,
\* while the window ends, the policy changes or a credential is removed.
SPECIFICATION MCSpec
CONSTANTS
    r1 = r1
    r2 = r2
    r3 = r3
    a1 = a1
    a2 = a2
    Request <- Requests2
    Auth <- Auths2
    Removable <- OneAuth
    LimitSetting = {0, 2}
    MaxAttempts = 2
    MaxWindow = 1
    MaxGeneration = 2
    MaxChanges = 1
SYMMETRY RequestSymmetry
INVARIANTS
    TypeOK
    CountExact
    WithinLimit
    ConsumedByItsOwnAttempt
    ReachedTransportCounts
    NothingKept
CHECK_DEADLOCK FALSE
