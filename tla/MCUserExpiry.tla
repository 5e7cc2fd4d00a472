----------------------------- MODULE MCUserExpiry -----------------------------
\* Instances of UserExpiry for TLC.
EXTENDS UserExpiry

Scenario(behaviour, days, overlap, changes, events, admin, pardons, fails, restarts) ==
    [behaviour |-> behaviour, days |-> days, overlap |-> overlap,
     bounds |-> [changes |-> changes, events |-> events, admin |-> admin, pardons |-> pardons,
                 fails |-> fails, restarts |-> restarts]]

Scenarios ==
    {Scenario("disable", 0, FALSE, 2, 2, 1, 1, 0, 0),   \* one after the other
     Scenario("disable", 1, FALSE, 2, 2, 1, 1, 0, 0),
     Scenario("disable", 1, FALSE, 2, 1, 0, 0, 1, 1),   \* with a failure and a restart
     Scenario("disable", 0, FALSE, 1, 1, 0, 0, 1, 1),
     Scenario("disable", 1, TRUE, 1, 2, 0, 0, 0, 0),    \* overlapping
     Scenario("disable", 1, TRUE, 1, 1, 1, 0, 0, 0),
     Scenario("disable", 0, TRUE, 0, 1, 1, 1, 0, 0),
     Scenario("delete", 0, TRUE, 2, 1, 0, 0, 0, 0)}

AfterADay == {Scenario("disable", 1, FALSE, 0, 1, 0, 0, 0, 0)}
=============================================================================
