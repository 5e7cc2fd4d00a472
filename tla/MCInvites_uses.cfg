\* One use and two, with and without email confirmation, handlers one at a time and
\* two at a time.
SPECIFICATION Spec
CONSTANTS
    Browsers = {b1, b2}
    Workers = {g1, g2}
    Priced = TRUE
    Modes <- SomeModes
    MaxPayments = 2
    MaxUsers = 2
    MaxEvents = 1
    MaxReconciles = 1
    MaxEdits = 1
    MaxDeletes = 1
    Expires = TRUE
SYMMETRY Symmetry
INVARIANTS TypeOK LockedToPayer WithinLimit EachUseIsPaid 
PROPERTIES PaidInviteKept
CHECK_DEADLOCK FALSE
