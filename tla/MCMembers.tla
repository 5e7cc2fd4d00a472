------------------------------ MODULE MCMembers ------------------------------
(* Few people, and two of whatever may overlap. *)
EXTENDS Members, TLC

\* The administrator of the settings, or those of Jellyfin.
MCLoginSettings ==
    {[jellyfin_login |-> FALSE, allow_all |-> FALSE, admin_only |-> FALSE],
     [jellyfin_login |-> TRUE, allow_all |-> FALSE, admin_only |-> TRUE]}

\* Passwords that opening the link sets, or the page, with a captcha or without.
MCResetSettings ==
    {[set_password |-> FALSE, captcha |-> FALSE, validate |-> TRUE, pins |-> 1, captchas |-> 0],
     [set_password |-> TRUE, captcha |-> FALSE, validate |-> TRUE, pins |-> 2, captchas |-> 0],
     [set_password |-> TRUE, captcha |-> TRUE, validate |-> FALSE, pins |-> 1, captchas |-> 1]}

MCSources == {[uses |-> 2, days |-> 0]}

\* Browsers, clients, askers, handlers and notifiers are any two, and so are the accounts
\* that change, and the rows of a subscription.
MCSymmetry == Permutations(Browsers) \cup Permutations(Holders) \cup Permutations(SubRows)

=============================================================================
