\* Two workers: an email goroutine and a refund event.
SPECIFICATION Spec
CONSTANTS
    Amount = 1
    Workers = {g1, g2}
    Limits <- EmailAndRefund
PROPERTY RefundOverridesEmailFailure
CHECK_DEADLOCK FALSE
