\* One handler at a time, a payment reported twice.
SPECIFICATION Spec
CONSTANTS
    Sessions = {s1}
    Renewals = {}
    Workers = {g1}
    MaxUsers = 2
    MaxCodes = 2
    Budgets <- ReportedTwice
INVARIANTS NoDuplicateCredit
CHECK_DEADLOCK FALSE
