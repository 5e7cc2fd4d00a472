SPECIFICATION Spec
CONSTANTS
    Handlers = {h}
    Modes <- AfterADay
    Checkouts = {cs}
    Renewals = {in}
    NoTxn = NoTxn
    Period = 1
    MaxTime = 4
PROPERTIES DisabledBeforeDeleted
CHECK_DEADLOCK FALSE
