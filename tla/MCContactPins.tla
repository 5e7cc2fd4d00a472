----------------------------- MODULE MCContactPins -----------------------------
\* Instances of ContactPins for TLC.
EXTENDS ContactPins, TLC

Scenario(kind, unique, checks, confirm, overlap, admin, edits, restarts) ==
    [kind |-> kind, unique |-> unique, checks |-> checks, confirm |-> confirm,
     overlap |-> overlap, bounds |-> [admin |-> admin, edits |-> edits, restarts |-> restarts]]

Scenarios ==
    {Scenario(kind, TRUE, TRUE, FALSE, FALSE, admin, 1, 0) :
         kind \in {"telegram", "discord"}, admin \in {0, 1}}   \* one after the other
    \cup {Scenario(kind, FALSE, FALSE, FALSE, FALSE, 1, 0, 1) : kind \in {"telegram", "discord"}}
    \cup {Scenario("telegram", TRUE, TRUE, TRUE, FALSE, 0, 0, 1),   \* with confirmation
          Scenario("matrix", TRUE, FALSE, FALSE, FALSE, 1, 1, 1),
          Scenario("matrix", TRUE, TRUE, TRUE, FALSE, 0, 1, 0)}
    \cup {Scenario(kind, TRUE, kind # "matrix", FALSE, TRUE, 1, 1, 0) :
             kind \in {"telegram", "discord", "matrix"}}       \* overlapping

\* Chat accounts, PINs, handlers and visitors are interchangeable.
Symmetry == Permutations(Chats) \cup Permutations(Pins) \cup Permutations(Handlers)
            \cup Permutations(Visitors)
=============================================================================
