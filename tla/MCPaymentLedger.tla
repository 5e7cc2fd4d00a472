--------------------------- MODULE MCPaymentLedger ---------------------------
\* Instances of PaymentLedger for TLC.
EXTENDS PaymentLedger, TLC

Symmetry == Permutations(Workers)

\* Handlers one after the other, a reconciliation that may lose a fetch; and two at a
\* time, whose reads and writes of the row interleave, with a reconciliation or without.
Behaviours ==
    {[changes |-> 2, tasks |-> 3, reconciles |-> 2, failed |-> 1, mail |-> 1, overlap |-> FALSE],
     [changes |-> 3, tasks |-> 2, reconciles |-> 1, failed |-> 0, mail |-> 1, overlap |-> FALSE],
     [changes |-> 1, tasks |-> 2, reconciles |-> 1, failed |-> 0, mail |-> 1, overlap |-> TRUE],
     [changes |-> 2, tasks |-> 2, reconciles |-> 0, failed |-> 0, mail |-> 1, overlap |-> TRUE]}

\* An email goroutine and a refund event, both of which read the row before either writes it.
EmailAndRefund ==
    {[changes |-> 2, tasks |-> 3, reconciles |-> 0, failed |-> 0, mail |-> 1, overlap |-> TRUE]}

=============================================================================
