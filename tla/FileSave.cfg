SPECIFICATION Spec
CONSTANTS
    c1 = c1
    c2 = c2
    f1 = f1
    Original = original
    Target = target
    None = none
    MaxFaults = 2
    MaxCrashes = 1
    Caller <- MCCaller
    Foreign <- MCForeign
SYMMETRY Symmetric
CHECK_DEADLOCK FALSE
INVARIANTS
    TypeOK
    NeverMissing
    RolledBackIsGone
    CommittedIsDurable
PROPERTY
    ForeignKept
