\* One handler after the other, and two at a time.
SPECIFICATION Spec
CONSTANTS
    Amount = 2
    Workers = {g1, g2}
    Limits <- Behaviours
SYMMETRY Symmetry
INVARIANTS TypeOK NoFabricatedStatus
PROPERTIES ReconcileRepairs RefundUndoneOnlyBy
CHECK_DEADLOCK FALSE
