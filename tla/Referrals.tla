------------------------------ MODULE Referrals ------------------------------
(***************************************************************************)
(* Profiles and the referrals made with them (api-profiles.go, storage.go, *)
(* api-users.go, api-userpage.go, api-invites.go).                         *)
(*                                                                         *)
(* A referral is an invite of its own for a user who may refer others.  It *)
(* is made from an invite, from the template of a profile, which is such   *)
(* an invite without a user, or from the template named in the row of the  *)
(* user among the email addresses.  Nothing in the code writes that name   *)
(* any more: only rows of earlier versions have it.                        *)
(***************************************************************************)
EXTENDS Integers, FiniteSets, Maps

CONSTANTS
    Names, Referrers,
    Askers,                 \* requests for one's referral that may overlap
    Sources,                \* invites to refer with: records [uses, days]
    REFERRAL_EXPIRY_DAYS,
    LastDay, MaxCodes, MaxEdits     \* bounds

VARIABLES
    today,
    profiles,       \* name -> [default, template]
    setting,        \* the profiles SetDefaultProfile has still to write, and their rows
    referrals,      \* code -> [owner, byExpiry, days, exp, uses]
    rowKey,         \* user -> ReferralTemplateKey of the row among the email addresses
    members,        \* external: the users there are
    asker,          \* what each of them has read and not written
    lastCode,
    edits,          \* bounds what the administrator does with profiles
    promised,       \* history: users given a referral to keep
    withdrawn,      \* history: users it was taken from
    signedWith,     \* history: user -> the template of the profile of the sign-up
    raced,          \* history: users whose referral changed between a read and its write
    tangled         \* history: a profile changed while the default was set

referralVars == <<today, profiles, setting, referrals, rowKey, members, asker, lastCode, edits,
                  promised, withdrawn, signedWith, raced, tangled>>
grantVars == <<edits, promised, withdrawn, signedWith>>

NoCode == 0
NoOwner == "none"

ASSUME ReferralsAssumption ==
    /\ Sources \subseteq [uses : Nat, days : Nat] /\ REFERRAL_EXPIRY_DAYS \in Nat
    /\ NoOwner \notin Referrers

NotAsking == <<>>
Done == [name |-> NoOwner, rows |-> <<>>]

Own(u) == {c \in DOMAIN referrals : referrals[c].owner = u}
Expired(inv) == today > inv.exp
\* Until when a new one is good: as long as what it is made from, or REFERRAL_EXPIRY_DAYS.
Until(byExpiry, days) == today + (IF byExpiry THEN days ELSE REFERRAL_EXPIRY_DAYS)
Referral(owner, byExpiry, from) ==
    [owner |-> owner, byExpiry |-> byExpiry, uses |-> from.uses,
     days |-> Until(byExpiry, from.days) - today, exp |-> Until(byExpiry, from.days)]

\* Those whose referral is changed under a request that has read it.
Races(us) == raced' = raced \cup {u \in us : \E a \in Askers : asker[a] # NotAsking /\ asker[a].user = u}
Tangles == tangled' = (tangled \/ setting # Done)
Bounded(n) == lastCode + n <= MaxCodes /\ lastCode' = lastCode + n

-----------------------------------------------------------------------------
ReferralsInit ==
    /\ today = 0 /\ setting = Done /\ lastCode = 1 /\ edits = 0
    /\ profiles \in {<<>>, [n \in {CHOOSE m \in Names : TRUE} |-> [default |-> FALSE, template |-> 1]]}
    /\ \E byExpiry \in BOOLEAN, from \in Sources :
          referrals = [c \in {1} |-> Referral(NoOwner, byExpiry, from)]
    /\ members \in SUBSET Referrers
    /\ rowKey \in UNION {[us -> {NoCode, 1}] : us \in SUBSET members}
    /\ asker = [a \in Askers |-> NotAsking]
    /\ promised = {} /\ withdrawn = {} /\ signedWith = <<>> /\ raced = {} /\ tangled = FALSE

-----------------------------------------------------------------------------
(* Profiles.                                                               *)

profileOnly == <<today, setting, rowKey, members, asker, promised, withdrawn, signedWith, raced>>
Edits == edits < MaxEdits /\ edits' = edits + 1

\* CreateProfile writes the whole row, also of one there is.
CreateProfile(n) ==
    /\ profiles' = With(profiles, n, [default |-> FALSE, template |-> NoCode])
    /\ Tangles /\ Edits
    /\ UNCHANGED <<profileOnly, referrals, lastCode>>

DeleteProfile(n) ==
    /\ profiles' = Without(profiles, {n})
    /\ Tangles /\ Edits
    /\ UNCHANGED <<profileOnly, referrals, lastCode>>

\* ReplaceRawProfile under a new name: the row moves, over one that has the name.
ReplaceRawProfile(n, m) ==
    /\ n \in DOMAIN profiles /\ n # m
    /\ profiles' = Without(With(profiles, m, profiles[n]), {n})
    /\ Tangles /\ Edits
    /\ UNCHANGED <<profileOnly, referrals, lastCode>>

\* SetDefaultProfile writes every row again, one by one, from what it read.
SetDefaultProfile(n) ==
    /\ n \in DOMAIN profiles /\ setting = Done
    /\ setting' = [name |-> n, rows |-> profiles]
    /\ Edits
    /\ UNCHANGED <<today, profiles, referrals, rowKey, members, asker, lastCode, promised, withdrawn, signedWith,
                   raced, tangled>>

WriteDefault(n) ==
    /\ n \in DOMAIN setting.rows
    /\ profiles' = With(profiles, n, [setting.rows[n] EXCEPT !.default = (n = setting.name)])
    /\ setting' = IF DOMAIN setting.rows = {n} THEN Done
                  ELSE [setting EXCEPT !.rows = Without(@, {n})]
    /\ UNCHANGED <<today, referrals, rowKey, members, asker, lastCode, grantVars, raced, tangled>>

EnableReferralForProfile(n, from, byExpiry) ==
    /\ n \in DOMAIN profiles
    /\ Bounded(1)
    /\ referrals' = With(referrals, lastCode + 1, Referral(NoOwner, byExpiry, from))
    /\ profiles' = [profiles EXCEPT ![n].template = lastCode + 1]
    /\ Tangles /\ Edits
    /\ UNCHANGED profileOnly

DisableReferralForProfile(n) ==
    /\ n \in DOMAIN profiles
    /\ referrals' = Without(referrals, {profiles[n].template})
    /\ profiles' = [profiles EXCEPT ![n].template = NoCode]
    /\ Tangles /\ Edits
    /\ UNCHANGED <<profileOnly, lastCode>>

-----------------------------------------------------------------------------
(* Referrals of users.                                                     *)

userOnly == <<today, profiles, setting, members, asker, edits, tangled>>

\* EnableReferralForUsers, from the template of a profile or from an invite.
EnableReferralForUsers_Another(u, from, byExpiry) ==
    /\ Bounded(1)
    /\ referrals' = With(referrals, lastCode + 1, Referral(u, byExpiry, from))
    /\ promised' = IF byExpiry THEN promised \ {u} ELSE promised \cup {u}
    /\ withdrawn' = withdrawn \ {u}
    /\ Races({u})
    /\ UNCHANGED <<userOnly, rowKey, signedWith>>

EnableReferralForUsers(u, from, byExpiry) ==
    /\ Bounded(1)
    /\ referrals' = With(Without(referrals, Own(u)), lastCode + 1, Referral(u, byExpiry, from))
    /\ promised' = IF byExpiry THEN promised \ {u} ELSE promised \cup {u}
    /\ withdrawn' = withdrawn \ {u}
    /\ Races({u})
    /\ UNCHANGED <<userOnly, rowKey, signedWith>>

Templates == {referrals[profiles[n].template] :
                 n \in {m \in DOMAIN profiles : profiles[m].template \in DOMAIN referrals}}

NoKey(us) == rowKey' = [u \in DOMAIN rowKey |-> IF u \in us THEN NoCode ELSE rowKey[u]]

\* DisableReferralForUsers.
DisableReferralForUsers(u) ==
    /\ referrals' = Without(referrals, Own(u))
    /\ NoKey({u})
    /\ promised' = promised \ {u} /\ withdrawn' = withdrawn \cup {u}
    /\ signedWith' = Without(signedWith, {u})
    /\ Races({u})
    /\ UNCHANGED <<userOnly, lastCode>>

\* PostNewUserFromInvite, with a profile: the row is written without the template's name
\* (api-users.go:318); a referral that expires with its template begins at once.
SignUp(u, n) ==
    LET template == profiles[n].template
    IN  /\ u \notin members /\ n \in DOMAIN profiles
        /\ members' = members \cup {u}
        /\ template # NoCode
        /\ rowKey' = With(rowKey, u, NoCode)
        /\ IF template \in DOMAIN referrals /\ referrals[template].byExpiry
           THEN /\ Bounded(1)
                /\ referrals' = With(referrals, lastCode + 1, Referral(u, TRUE, referrals[template]))
                /\ UNCHANGED signedWith
           ELSE /\ signedWith' = With(signedWith, u, template)
                /\ UNCHANGED <<referrals, lastCode>>
        /\ UNCHANGED <<today, profiles, setting, asker, edits, promised, withdrawn, raced, tangled>>

\* GetMyReferral reads: an own one that is good is the answer; one that expired is to be
\* replaced; without any, the template is to be copied.
GetMyReferral(a, u) ==
    /\ asker[a] = NotAsking /\ u \in members
    /\ \/ \E c \in Own(u) :
             /\ Expired(referrals[c])
             /\ asker' = [asker EXCEPT ![a] = [user |-> u, code |-> c, inv |-> referrals[c]]]
       \/ /\ Own(u) = {} /\ u \in DOMAIN rowKey /\ rowKey[u] \in DOMAIN referrals
          /\ asker' = [asker EXCEPT ![a] = [user |-> u, code |-> NoCode, inv |-> referrals[rowKey[u]]]]
    /\ Races({u})
    /\ UNCHANGED <<today, profiles, setting, referrals, rowKey, members, lastCode, grantVars, tangled>>

WriteMyReferral(a) ==
    LET r == asker[a]
        days == IF r.code = NoCode /\ r.inv.byExpiry THEN r.inv.days ELSE REFERRAL_EXPIRY_DAYS
    IN  /\ r # NotAsking
        /\ asker' = [asker EXCEPT ![a] = NotAsking]
        /\ IF r.code # NoCode /\ r.inv.byExpiry
           THEN /\ referrals' = Without(referrals, {r.code})
                /\ NoKey({r.user})
                /\ UNCHANGED lastCode
           ELSE /\ Bounded(1)
                /\ referrals' = With(Without(referrals, {r.code}), lastCode + 1,
                                     [owner |-> r.user, byExpiry |-> r.inv.byExpiry, uses |-> r.inv.uses,
                                      days |-> days, exp |-> today + days])
                /\ UNCHANGED rowKey
        /\ raced' = raced \cup {u \in {r.user} : \E b \in Askers \ {a} : asker[b] # NotAsking /\ asker[b].user = u}
        /\ UNCHANGED <<today, profiles, setting, members, grantVars, tangled>>

\* deleteExpiredInvite of a referral.
Lapse(cs) ==
    LET owners == {referrals[c].owner : c \in cs}
    IN  /\ referrals' = Without(referrals, cs)
        /\ NoKey({referrals[c].owner : c \in {d \in cs : referrals[d].byExpiry}})
        /\ promised' = promised \ owners
        /\ Races(owners)
        /\ UNCHANGED <<userOnly, lastCode, withdrawn, signedWith>>

\* checkInvite, when somebody opens a referral or signs up with it: one that expired is
\* deleted, for good if no template is left to copy; so is one with its last use.
UseReferral(c) ==
    LET inv == referrals[c]
    IN  /\ inv.owner # NoOwner
        /\ IF Expired(inv) \/ inv.uses = 1
           THEN Lapse({c})
           ELSE /\ inv.uses # 0
                /\ referrals' = [referrals EXCEPT ![c].uses = @ - 1]
                /\ Races({inv.owner})
                /\ UNCHANGED <<userOnly, rowKey, lastCode, promised, withdrawn, signedWith>>

\* checkInvites leaves templates, and those that do not expire with them.
checkInvites ==
    LET expired == {c \in DOMAIN referrals : /\ referrals[c].owner # NoOwner /\ referrals[c].byExpiry
                                             /\ Expired(referrals[c])}
    IN  expired # {} /\ Lapse(expired)

DayPasses ==
    /\ today < LastDay /\ today' = today + 1
    /\ UNCHANGED <<profiles, setting, referrals, rowKey, members, asker, lastCode, grantVars, raced, tangled>>

ReferralsNext ==
    \/ \E n \in Names :
          \/ CreateProfile(n) \/ DeleteProfile(n) \/ SetDefaultProfile(n) \/ WriteDefault(n)
          \/ DisableReferralForProfile(n)
          \/ \E m \in Names : ReplaceRawProfile(n, m)
          \/ \E from \in Sources, byExpiry \in BOOLEAN : EnableReferralForProfile(n, from, byExpiry)
          \/ \E u \in Referrers : SignUp(u, n)
    \/ \E u \in members :
          \/ \E from \in Sources \cup Templates, byExpiry \in BOOLEAN : EnableReferralForUsers(u, from, byExpiry)
          \/ DisableReferralForUsers(u)
          \/ \E a \in Askers : GetMyReferral(a, u)
    \/ \E a \in Askers : WriteMyReferral(a)
    \/ \E c \in DOMAIN referrals : UseReferral(c)
    \/ checkInvites
    \/ DayPasses

-----------------------------------------------------------------------------
\* GetMyReferral, EnableReferralForUsers (api-userpage.go:756, api-users.go:644): a user has
\* one referral at a time; one given to keep lasts until it is taken back, used up or found
\* expired by somebody else first; after it was taken back nothing brings another.  Unless
\* it changed between a read and its write.
ReferralsOfUsers ==
    \A u \in Referrers \ raced :
        /\ Cardinality(Own(u)) <= 1
        /\ u \in promised => Own(u) # {}
        /\ u \in withdrawn => Own(u) = {} /\ (u \in DOMAIN rowKey => rowKey[u] = NoCode)

\* SetDefaultProfile and the others that write a row as they read it (api-profiles.go:138):
\* at most one profile is the default, and the templates of profiles are there and their own,
\* unless a profile changed while the default was set.
ProfilesInOrder ==
    ~tangled =>
        /\ setting = Done => Cardinality({n \in DOMAIN profiles : profiles[n].default}) <= 1
        /\ \A n, m \in DOMAIN profiles : profiles[n].template # NoCode =>
              /\ profiles[n].template \in DOMAIN referrals
              /\ profiles[n].template = profiles[m].template => n = m

ReferralsKept == ReferralsOfUsers /\ ProfilesInOrder

\* HasReferrals of MyDetails.
HasReferrals(u) == Own(u) # {} \/ (u \in DOMAIN rowKey /\ rowKey[u] \in DOMAIN referrals)

\* "Look for a template matching the key found in the user storage. Since this key is shared
\* between users in a profile, we make a copy" (api-userpage.go:764): who signed up with a
\* profile that has a template has referrals as long as the template is there.
ProfileReferralGiven ==
    \A u \in DOMAIN signedWith : signedWith[u] \in DOMAIN referrals => HasReferrals(u)

=============================================================================
