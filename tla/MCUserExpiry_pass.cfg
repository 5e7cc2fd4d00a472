SPECIFICATION FairSpec
CONSTANTS
    Handlers = {h}
    Modes <- Scenarios
    Checkouts = {cs}
    Renewals = {in}
    NoTxn = NoTxn
    Period = 1
    MaxTime = 3
INVARIANTS TypeOK LimitKept
PROPERTIES SubscriberKept NoticeGiven ExpiryTakesEffect
CHECK_DEADLOCK FALSE
