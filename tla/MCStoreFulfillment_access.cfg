SPECIFICATION FairSpec
CONSTANTS
    Sessions = {s1, s2}
    Renewals = {r1}
    Workers = {g1, g2}
    MaxUsers = 2
    MaxCodes = 2
    Budgets <- Scenarios
INVARIANTS TypeOK AccessAddsUp FulfilledIsGranted
PROPERTIES KeepsPromise EventuallyFulfilled
CHECK_DEADLOCK FALSE
