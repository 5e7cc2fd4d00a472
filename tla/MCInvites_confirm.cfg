\* Sign-ups confirmed by email, one handler at a time.
SPECIFICATION Spec
CONSTANTS
    Browsers = {b1, b2}
    Workers = {g1}
    Priced = TRUE
    Modes <- Confirmed
    MaxPayments = 1
    MaxUsers = 2
    MaxEvents = 1
    MaxReconciles = 0
    MaxEdits = 0
    MaxDeletes = 0
    Expires = FALSE
INVARIANTS SeparatePayments
CHECK_DEADLOCK FALSE
