SPECIFICATION Spec
CONSTANTS
    a = a
    b = b
    c1 = c1
    c2 = c2
    c3 = c3
    Nobody = Nobody
    Call <- Calls
    Auth <- Auths
    IdKey <- Ids
    Accounts <- Contents
    EmailKeys <- Emails
    Linked <- InGraph
    Planned <- Plans
    Cancellable <- Impatient
    MaxStore = 1
INVARIANT CanonicalOrder
CHECK_DEADLOCK FALSE
