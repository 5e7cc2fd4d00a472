----------------------------- MODULE MCInvites -----------------------------
EXTENDS Invites, TLC

Mode(uses, confirm, overlap, crashes) ==
    [uses |-> uses, confirm |-> confirm, overlap |-> overlap, crashes |-> crashes]

Confirmed == {Mode(2, TRUE, FALSE, 0)}

SomeModes ==
    {Mode(1, FALSE, FALSE, 0), Mode(2, FALSE, FALSE, 1), Mode(2, FALSE, TRUE, 0)} \cup Confirmed

Symmetry == Permutations(Workers) \cup Permutations(Browsers)

=============================================================================
