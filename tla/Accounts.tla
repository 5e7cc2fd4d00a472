------------------------------- MODULE Accounts -------------------------------
(***************************************************************************)
(* What the administrator and a user change about accounts: the rows among *)
(* the email addresses, written as they were read by several handlers      *)
(* (api-users.go, api-userpage.go), and the batches that enable, disable,  *)
(* delete or set up users one by one and tell what failed (api-users.go,   *)
(* users.go), while housekeeping removes what is left of deleted users     *)
(* (housekeeping-d.go).                                                    *)
(***************************************************************************)
EXTENDS Integers, FiniteSets, Maps

CONSTANTS
    Holders,
    Handlers,                   \* requests that may be handled at the same time
    Addresses, Labels,
    Confirmation,               \* {TRUE}, {FALSE} or both: email_confirmation is enabled
    MaxRequests, MaxFaults      \* bounds

VARIABLES
    confirm,
    exists,         \* external: the users of Jellyfin
    policy,         \* external: [template, disabled] of each of them
    cachedPolicy,   \* external: <<>>, or the policies as the Jellyfin client remembers them
    home,           \* external: [conf, prefs], the templates of the home screen
    ombiUser,       \* external: the users of Ombi
    role,           \* external: those with the role of the messenger's server
    row,            \* user -> [addr, contact, admin, label]
    serviceAddr,    \* external: the address Ombi and Jellyseerr have of each user
    links,          \* confirmation links under way: [user, addr]
    handler,        \* what each handler has read, and its batch
    sweep,          \* the rows clearEmails has still to look at
    want,           \* history: the row by what was asked last
    wantPolicy,     \* history: the same of the policy
    wiped,          \* history: users whose row was started anew
    asked,          \* history: the addresses asked for each user
    crossed,        \* history: users whose row changed between a read and its write
    outdated,       \* history: users whose policy was written beside another batch, or
                    \* changed at Jellyfin while the client remembered it
    unsynced,       \* history: users a service or the role could not follow for
    answer,         \* the last answer to a batch
    requests, faults

accountVars == <<confirm, exists, policy, home, ombiUser, role, row, serviceAddr, links, handler, sweep,
                 cachedPolicy, want, wantPolicy, wiped, asked, crossed, outdated, unsynced, answer,
                 requests, faults>>
jellyfinVars == <<exists, policy, cachedPolicy, wantPolicy, outdated, home, ombiUser, role>>

NoAddr == "none"
NoLabel == "none"
Idle == [kind |-> "idle"]
NewRow == [addr |-> NoAddr, contact |-> FALSE, admin |-> FALSE, label |-> NoLabel]
NoAnswer == [kind |-> "none"]
Row(u) == IF u \in DOMAIN row THEN row[u] ELSE NewRow
Fault == faults < MaxFaults /\ faults' = faults + 1

\* A write of u between a read and a write of another handler.
Overlaps(h, u) ==
    crossed' = crossed \cup
        {v \in {u} : \E g \in Handlers \ {h} : handler[g].kind = "row" /\ handler[g].user = u}

Requests == requests < MaxRequests /\ requests' = requests + 1

-----------------------------------------------------------------------------
AccountsInit ==
    /\ confirm \in Confirmation
    /\ exists = Holders
    /\ policy = [u \in Holders |-> [template |-> "own", disabled |-> FALSE]]
    /\ home = [u \in Holders |-> [conf |-> "own", prefs |-> "own"]]
    /\ cachedPolicy = <<>> /\ wantPolicy = policy /\ outdated = {}
    /\ ombiUser = Holders /\ role = Holders
    /\ \E a \in Addresses \cup {NoAddr} :
          /\ row = [u \in Holders |-> [NewRow EXCEPT !.addr = a, !.contact = (a # NoAddr)]]
          /\ asked = [u \in Holders |-> {a}]
          /\ serviceAddr = [u \in Holders |-> a]
    /\ links = {} /\ sweep = {}
    /\ handler = [h \in Handlers |-> Idle]
    /\ want = row /\ wiped = {}
    /\ crossed = {} /\ unsynced = {} /\ answer = NoAnswer
    /\ requests = 0 /\ faults = 0

-----------------------------------------------------------------------------
(* Rows: a handler reads the users and the row, then writes the row.       *)

Reads(h, u, change) ==
    /\ handler[h] = Idle /\ u \in exists
    /\ Requests
    /\ handler' = [handler EXCEPT ![h] = [kind |-> "row", user |-> u, seen |-> Row(u), change |-> change]]
    /\ UNCHANGED <<confirm, jellyfinVars, row, serviceAddr, sweep, want, wiped, crossed, unsynced, answer,
                   faults>>

SetAccountsAdmin(h, u, admin) ==
    Reads(h, u, [field |-> "admin", admin |-> admin]) /\ UNCHANGED <<links, asked>>
ModifyLabels(h, u, label) ==
    Reads(h, u, [field |-> "label", label |-> label]) /\ UNCHANGED <<links, asked>>
ModifyEmails(h, u, a) ==
    Reads(h, u, [field |-> "addr", addr |-> a])
    /\ asked' = [asked EXCEPT ![u] = @ \cup {a}] /\ UNCHANGED links

\* ModifyMyEmail sends a link, or acts at once.
ModifyMyEmail(h, u, a) ==
    /\ a # NoAddr
    /\ IF confirm
       THEN /\ handler[h] = Idle /\ u \in exists
            /\ Requests
            /\ links' = links \cup {[user |-> u, addr |-> a]}
            /\ UNCHANGED <<confirm, jellyfinVars, row, serviceAddr, handler, sweep, want, asked, crossed,
                           wiped, unsynced, answer, faults>>
       ELSE ModifyEmails(h, u, a)

\* confirmMyAction: a link is good for an hour, however often it is opened.
ConfirmMyAction(h, l) ==
    /\ l \in links
    /\ ModifyEmails(h, l.user, l.addr)

LinkExpires(l) ==
    /\ l \in links
    /\ links' = links \ {l}
    /\ UNCHANGED <<confirm, jellyfinVars, row, serviceAddr, handler, sweep, want, asked, crossed, unsynced,
                   wiped, answer, requests, faults>>

\* The row that is written for a change of what was read; modifyEmail starts a new one where
\* there is no address (api-users.go:1241).
Rewritten_Fresh(old, c) ==
    CASE c.field = "admin" -> [old EXCEPT !.admin = c.admin]
      [] c.field = "label" -> [old EXCEPT !.label = c.label]
      [] c.field = "addr"  -> [NewRow EXCEPT !.contact = TRUE, !.addr = c.addr]
Rewritten(old, c) ==
    CASE c.field = "admin" -> [old EXCEPT !.admin = c.admin]
      [] c.field = "label" -> [old EXCEPT !.label = c.label]
      [] c.field = "addr"  -> IF old.addr = NoAddr THEN [NewRow EXCEPT !.contact = TRUE, !.addr = c.addr]
                              ELSE [old EXCEPT !.addr = c.addr]

WriteRow(h) ==
    LET r == handler[h]  u == r.user
    IN  /\ r.kind = "row"
        /\ row' = With(row, u, Rewritten(r.seen, r.change))
        /\ want' = [want EXCEPT ![u][r.change.field] = r.change[r.change.field]]
        /\ wiped' = IF r.change.field = "addr" /\ r.seen.addr = NoAddr THEN wiped \cup {u} ELSE wiped
        /\ \/ /\ serviceAddr' = IF r.change.field = "addr" THEN [serviceAddr EXCEPT ![u] = r.change.addr]
                                ELSE serviceAddr
              /\ UNCHANGED <<unsynced, faults>>
           \/ /\ r.change.field = "addr" /\ Fault
              /\ unsynced' = unsynced \cup {u}
              /\ UNCHANGED serviceAddr
        /\ Overlaps(h, u)
        /\ handler' = [handler EXCEPT ![h] = Idle]
        /\ UNCHANGED <<confirm, jellyfinVars, links, sweep, asked, answer, requests>>

\* clearEmails lists the rows and asks Jellyfin for the user of each.
ClearEmails ==
    /\ sweep = {} /\ exists # Holders
    /\ sweep' = DOMAIN row /\ sweep # sweep'
    /\ UNCHANGED <<confirm, jellyfinVars, row, serviceAddr, links, handler, want, asked, crossed, unsynced,
                   wiped, answer, requests, faults>>

ClearEmail(u) ==
    /\ u \in sweep /\ sweep' = sweep \ {u}
    /\ row' = IF u \in exists THEN row ELSE Without(row, {u})
    /\ UNCHANGED <<confirm, jellyfinVars, serviceAddr, links, handler, want, asked, crossed, unsynced,
                   wiped, answer, requests, faults>>

-----------------------------------------------------------------------------
(* Batches.                                                                *)

NoErrors == [named |-> {}, unnamed |-> FALSE, homescreen |-> {}, ombi |-> {}]
Nobody == "nobody"

\* A server has finitely many users, and none of them is called this.
ASSUME AccountsAssumption == IsFiniteSet(Holders) /\ Nobody \notin Holders

BatchKinds == {"enable", "disable", "delete", "apply"}

Batch(h, kind, us, what) ==
    /\ handler[h] = Idle /\ us # {}
    /\ Requests
    /\ LET others == {g \in Handlers : handler[g].kind \in BatchKinds}
           new == [kind |-> kind, user |-> Nobody, all |-> us, left |-> us, what |-> what,
                   errors |-> NoErrors, done |-> {}, shared |-> others # {}, seen |-> <<>>]
       IN  handler' = [g \in Handlers |-> IF g = h THEN new
                                          ELSE IF g \in others THEN [handler[g] EXCEPT !.shared = TRUE]
                                          ELSE handler[g]]
    /\ UNCHANGED <<confirm, jellyfinVars, row, serviceAddr, links, sweep, want, asked, crossed, unsynced,
                   wiped, answer, faults>>

batchOnly == <<confirm, row, serviceAddr, links, sweep, want, wiped, asked, crossed,
               answer, requests>>
Outdates(b, u) == outdated' = IF b.shared THEN outdated \cup {u} ELSE outdated
Tells(b, section, u) == [b.errors EXCEPT ![section] = @ \cup {u}]

\* EnableDisableUsers reads a user; one it does not find has no name in the errors.
TakeUser(h, u) ==
    LET b == handler[h]
    IN  /\ b.kind \in {"enable", "disable"} /\ b.user = Nobody /\ u \in b.left
        /\ \/ /\ u \in exists
              /\ cachedPolicy' = IF cachedPolicy = <<>> THEN policy ELSE cachedPolicy
              /\ handler' = [handler EXCEPT ![h] = [b EXCEPT !.user = u, !.left = @ \ {u},
                                                              !.seen = cachedPolicy'[u]]]
              /\ UNCHANGED faults
           \/ /\ \/ u \notin exists /\ UNCHANGED faults
                 \/ Fault
              /\ handler' = [handler EXCEPT ![h].left = @ \ {u}, ![h].errors.unnamed = TRUE]
              /\ UNCHANGED cachedPolicy
        /\ UNCHANGED <<exists, policy, wantPolicy, outdated, home, ombiUser, role, unsynced, batchOnly>>

\* SetUserDisabled writes the whole policy; the role follows if it can.
SetUserDisabled(h) ==
    LET b == handler[h]  u == b.user  disabled == (b.kind = "disable")
        Settled(errors, done) ==
            handler' = [handler EXCEPT ![h] = [b EXCEPT !.user = Nobody, !.seen = <<>>,
                                                        !.errors = errors, !.done = done]]
    IN  /\ b.kind \in {"enable", "disable"} /\ u # Nobody
        /\ \/ /\ u \in exists
              /\ policy' = [policy EXCEPT ![u] = [b.seen EXCEPT !.disabled = disabled]]
              /\ \/ role' = (IF disabled THEN role \ {u} ELSE role \cup {u}) /\ UNCHANGED <<unsynced, faults>>
                 \/ Fault /\ unsynced' = unsynced \cup {u} /\ UNCHANGED role
              /\ wantPolicy' = [wantPolicy EXCEPT ![u].disabled = disabled]
              /\ Outdates(b, u)
              /\ Settled(b.errors, b.done \cup {u})
           \/ /\ \/ u \notin exists /\ UNCHANGED faults
                 \/ Fault
              /\ Settled(Tells(b, "named", u), b.done)
              /\ UNCHANGED <<policy, wantPolicy, role, outdated, unsynced>>
        /\ UNCHANGED <<exists, cachedPolicy, home, ombiUser, batchOnly>>

\* DeleteUsers and DeleteUser: Ombi first, whose failure is not told, then the role, then
\* Jellyfin; one that is not found is tried all the same, without an id.
DeleteUser(h, u) ==
    LET b == handler[h]
        Ends(errors, done) == handler' = [handler EXCEPT ![h].left = @ \ {u}, ![h].errors = errors,
                                                         ![h].done = done]
    IN  /\ b.kind = "delete" /\ u \in b.left
        /\ \/ /\ \/ u \notin exists /\ UNCHANGED faults
                 \/ Fault
              /\ Ends([Tells(b, "named", u) EXCEPT !.unnamed = TRUE], b.done)
              /\ UNCHANGED <<exists, ombiUser, role, unsynced>>
           \/ /\ u \in exists /\ Fault
              /\ \/ /\ ombiUser' = ombiUser \ {u} /\ role' = role \ {u}
                    /\ Ends(Tells(b, "named", u), b.done)
                    /\ UNCHANGED exists
                 \/ /\ exists' = exists \ {u} /\ Ends(b.errors, b.done \cup {u})
                    /\ \/ role' = role \ {u} /\ UNCHANGED ombiUser
                       \/ ombiUser' = ombiUser \ {u} /\ UNCHANGED role
              /\ unsynced' = unsynced \cup {u}
           \/ /\ u \in exists
              /\ exists' = exists \ {u} /\ ombiUser' = ombiUser \ {u} /\ role' = role \ {u}
              /\ Ends(b.errors, b.done \cup {u})
              /\ UNCHANGED <<unsynced, faults>>
        /\ UNCHANGED <<policy, cachedPolicy, wantPolicy, outdated, home, batchOnly>>

\* ApplySettings, of a profile: the policy, the home screen in two calls, Ombi.
ApplySettings(h, u) ==
    LET b == handler[h]
        Ends(errors, done) == handler' = [handler EXCEPT ![h].left = @ \ {u}, ![h].errors = errors,
                                                         ![h].done = done]
        new == [template |-> "profile", disabled |-> FALSE]
        Errors(fail) == [b.errors EXCEPT
            !.named = IF "policy" \in fail THEN @ \cup {u} ELSE @,
            !.homescreen = IF fail \cap {"conf", "prefs"} # {} THEN @ \cup {u} ELSE @,
            !.ombi = IF "ombi" \in fail THEN @ \cup {u} ELSE @]
    IN  /\ b.kind = "apply" /\ u \in b.left
        /\ \E fail \in SUBSET b.what :
              /\ IF u \in exists THEN Cardinality(fail) <= 1 ELSE fail = b.what
              /\ IF u \in exists /\ fail # {} THEN Fault ELSE UNCHANGED faults
              /\ policy' = IF "policy" \in b.what \ fail THEN [policy EXCEPT ![u] = new] ELSE policy
              /\ home' = [home EXCEPT ![u] =
                    [conf  |-> IF "conf" \in b.what \ fail THEN "profile" ELSE @.conf,
                     prefs |-> IF "prefs" \in b.what \ fail /\ "conf" \notin fail THEN "profile" ELSE @.prefs]]
              /\ Ends(Errors(fail), IF fail = {} THEN b.done \cup {u} ELSE b.done)
              /\ IF "policy" \in b.what \ fail
                 THEN wantPolicy' = [wantPolicy EXCEPT ![u] = new] /\ Outdates(b, u)
                 ELSE UNCHANGED <<wantPolicy, outdated>>
        /\ UNCHANGED <<exists, cachedPolicy, ombiUser, role, unsynced, batchOnly>>

\* The client's memory has a limit in time, and Jellyfin is administered without it too.
Forgets ==
    /\ cachedPolicy # <<>> /\ cachedPolicy' = <<>>
    /\ UNCHANGED <<confirm, exists, policy, wantPolicy, outdated, home, ombiUser, role, row, serviceAddr, links,
                   handler, sweep, want, asked, crossed, unsynced, wiped, answer, requests, faults>>

JellyfinEdits(u) ==
    /\ u \in exists /\ policy[u].template = "own"
    /\ Requests
    /\ policy' = [policy EXCEPT ![u].template = "edited"]
    /\ wantPolicy' = [wantPolicy EXCEPT ![u].template = "edited"]
    /\ outdated' = IF cachedPolicy = <<>> /\ \A h \in Handlers : ~(handler[h].kind \in BatchKinds /\ handler[h].user = u)
                   THEN outdated ELSE outdated \cup {u}
    /\ UNCHANGED <<confirm, exists, cachedPolicy, home, ombiUser, role, row, serviceAddr, links,
                   handler, sweep, want, asked, crossed, unsynced, wiped, answer, faults>>

\* The answer: DeleteUsers names nobody when it has as many errors as users.
Code_AllFailed(b) == IF Cardinality(b.errors.named) = Cardinality(b.all) THEN 500 ELSE 200
Code(b) ==
    LET e == b.errors
    IN  IF b.kind = "apply"
        THEN IF Cardinality(e.named) = Cardinality(b.all) \/ Cardinality(e.homescreen) = Cardinality(b.all)
             THEN 500 ELSE 200
        ELSE IF e.named # {} \/ e.unnamed THEN 500 ELSE 200
Listed(b) == Cardinality(b.errors.named) + (IF b.errors.unnamed THEN 1 ELSE 0)
BareAnswer(b) == b.kind = "delete" /\ Listed(b) = Cardinality(b.all)

Answer(h) ==
    LET b == handler[h]
    IN  /\ b.kind \in BatchKinds /\ b.left = {} /\ b.user = Nobody
        /\ answer' = [kind |-> b.kind, all |-> b.all, done |-> b.done, errors |-> b.errors, what |-> b.what,
                      code |-> Code(b), bare |-> BareAnswer(b),
                      still |-> b.all \cap exists]
        /\ handler' = [handler EXCEPT ![h] = Idle]
        /\ cachedPolicy' = <<>>
        /\ UNCHANGED <<confirm, exists, policy, wantPolicy, outdated, home, ombiUser, role,
                       row, serviceAddr, links, sweep, want, asked, crossed,
                       unsynced, wiped, requests, faults>>

Parts == {{"policy"}, {"conf", "prefs"}, {"policy", "conf", "prefs", "ombi"}}

AccountsNext ==
    \/ \E h \in Handlers :
          \/ \E u \in Holders :
                \/ \E admin \in BOOLEAN : SetAccountsAdmin(h, u, admin)
                \/ \E label \in Labels : ModifyLabels(h, u, label)
                \/ \E a \in Addresses \cup {NoAddr} : ModifyEmails(h, u, a) \/ ModifyMyEmail(h, u, a)
                \/ TakeUser(h, u) \/ DeleteUser(h, u) \/ ApplySettings(h, u)
          \/ \E l \in links : ConfirmMyAction(h, l)
          \/ \E us \in SUBSET Holders :
                \/ \E kind \in {"enable", "disable", "delete"} : Batch(h, kind, us, {})
                \/ \E what \in Parts : Batch(h, "apply", us, what)
          \/ WriteRow(h) \/ SetUserDisabled(h) \/ Answer(h)
    \/ \E l \in links : LinkExpires(l)
    \/ ClearEmails
    \/ Forgets
    \/ \E u \in Holders : ClearEmail(u) \/ JellyfinEdits(u)

-----------------------------------------------------------------------------
\* The handlers that write a row or a policy as they read it (api-users.go:1198, users.go:185):
\* an existing user has the admin flag, the label and the address asked last, and so have the
\* services the address, and Jellyfin the policy.  Not when two handlers crossed, a service
\* could not be reached, or the policy was changed behind what the client remembers; and an
\* address for a row without one takes the flag and the label (api-users.go:1244).
DetailsKept ==
    \A u \in exists :
        /\ u \notin crossed =>
              /\ Row(u).addr = want[u].addr
              /\ u \notin wiped => Row(u).admin = want[u].admin /\ Row(u).label = want[u].label
              /\ u \notin unsynced => serviceAddr[u] = Row(u).addr
        /\ Row(u).addr \in asked[u]
        /\ u \notin outdated => policy[u] = wantPolicy[u]

\* What a batch answers (api-users.go:419, 490, 1311): success when all of it was done, the
\* names of those it was not done for, unless they were not found; no single failure undoes a
\* user by halves, unless Ombi or the messenger was the one to fail.
BatchesTold ==
    /\ \A u \in Holders \ unsynced :
          /\ u \in ombiUser <=> u \in exists
          /\ u \in role => u \in exists /\ ~policy[u].disabled
    /\ LET e == answer.errors
       IN  /\ answer.kind \in {"enable", "disable"} =>
                 /\ answer.code = 200 <=> answer.done = answer.all
                 /\ ~e.unnamed => e.named = answer.all \ answer.done
           /\ answer.kind = "delete" =>
                 /\ answer.still \subseteq e.named
                 /\ answer.code = 200 <=> answer.done = answer.all
                 /\ answer.bare => answer.done = {} \/ e.unnamed
           /\ answer.kind = "apply" =>
                 /\ answer.code = 500 => answer.done = {}
                 /\ e.named \cup e.homescreen \cup e.ombi = answer.all \ answer.done

=============================================================================
