-------------------------- MODULE MCStoreFulfillment --------------------------
\* Instances of StoreFulfillment for TLC.
EXTENDS StoreFulfillment

Scenario(txns, existing, users, arrivals, failures, crashes, admin, overlap) ==
    [txns |-> txns, existing |-> existing, users |-> users, arrivals |-> arrivals,
     failures |-> failures, crashes |-> crashes, crashed |-> FALSE, admin |-> admin, overlap |-> overlap]

\* Every payment reported once; one payment of an existing user reported again and again,
\* across crashes; two handlers at a time, with a failed request, a crash, an administrator.
Scenarios ==
    LET one == CHOOSE s \in Sessions : TRUE
    IN  {Scenario(Txn, 0, 2, 1, 0, 0, 0, FALSE), Scenario({one}, 1, 1, 4, 0, 3, 0, FALSE),
         Scenario({one} \cup Renewals, 0, 1, 2, 1, 1, 1, TRUE)}

\* One handler at a time, a payment reported twice.
ReportedTwice == {Scenario(Sessions, 0, 2, 2, 0, 0, 0, FALSE)}

=============================================================================
