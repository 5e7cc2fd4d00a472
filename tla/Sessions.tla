------------------------------ MODULE Sessions ------------------------------
(***************************************************************************)
(* Logging in to the pages of the administrator and of a user (auth.go,    *)
(* user-auth.go, and the logouts of api.go and api-userpage.go).           *)
(*                                                                         *)
(* A token is what it says, signed: nothing of it is stored.  Who may use  *)
(* the tokens of the administrator, and which were given back, is kept in  *)
(* memory until the process ends.  Time is in units of BEARER_VALIDITY.    *)
(***************************************************************************)
EXTENDS Integers, FiniteSets

CONSTANTS
    People, Browsers,
    LoginSettings,              \* records [jellyfin_login, allow_all, admin_only]
    REFRESH_VALIDITY,           \* how long a refresh token lasts; others last 1
    LastTime, MaxStarts, MaxLogins, MaxChanges      \* bounds

ASSUME SessionsAssumption == REFRESH_VALIDITY \in Nat

VARIABLES
    clock, starts,
    login,              \* the settings
    account,            \* external: Jellyfin's users
    accountsAdmin,      \* EmailAddress.Admin of each
    adminUsers,         \* the ids that may use the page of the administrator
    invalidTokens,      \* the cookies that were given back
    lastId,             \* shortuuid.New()
    browser,            \* the tokens and cookies each browser has
    signedIn,           \* history: when each of them logged in, and out
    changes             \* bounds what others do

sessionVars == <<clock, starts, login, account, accountsAdmin, adminUsers, invalidTokens, lastId,
                 browser, signedIn, changes>>

BEARER_VALIDITY == 1
NoToken == [type |-> "none"]
Never == -1

Page == {"admin", "user"}       \* cookies "refresh" and "user-refresh"
NotYet == [start |-> 0, out |-> Never, outStart |-> 0]

-----------------------------------------------------------------------------
(* Tokens.                                                                 *)

Token(type, id, jfid, admin, validity) ==
    [type |-> type, id |-> id, jfid |-> jfid, admin |-> admin, exp |-> clock + validity]

CreateToken(id, jfid, admin) ==
    [bearer |-> Token("bearer", id, jfid, admin, BEARER_VALIDITY),
     refresh |-> Token("refresh", id, jfid, admin, REFRESH_VALIDITY)]

\* decodeValidateAuthHeader, decodeValidateRefreshCookie: exp is after now.
Valid(t, type) == t # NoToken /\ t.type = type /\ t.exp > clock
ValidCookie(t) == Valid(t, "refresh") /\ t \notin invalidTokens

authenticate_AnyUser(t) == Valid(t, "bearer") /\ t.admin
authenticate(t) == Valid(t, "bearer") /\ t.admin /\ t.id \in adminUsers

userAuthenticate(t) == login.jellyfin_login /\ Valid(t, "bearer")

canAccessAdminPage(p) ==
    \/ login.allow_all
    \/ accountsAdmin[p]
    \/ login.admin_only /\ account[p].administrator

-----------------------------------------------------------------------------
\* The process starts: without Jellyfin's users there is one administrator, with a new id.
LocalId == 1
FreshAdmins(id) == IF login.jellyfin_login THEN {} ELSE {id}

SessionsInit ==
    /\ clock = 0 /\ starts = 1 /\ changes = 0
    /\ login \in LoginSettings
    /\ account \in [People -> [enabled : {TRUE}, administrator : BOOLEAN]]
    /\ accountsAdmin = [p \in People |-> FALSE]
    /\ lastId = LocalId /\ adminUsers = FreshAdmins(LocalId)
    /\ invalidTokens = {}
    /\ browser = [b \in Browsers |-> [g \in Page |-> [bearer |-> NoToken, refresh |-> NoToken]]]
    /\ signedIn = [b \in Browsers |-> [g \in Page |-> NotYet]]

RestartSessions ==
    /\ starts < MaxStarts
    /\ starts' = starts + 1
    /\ lastId' = lastId + 1
    /\ adminUsers' = FreshAdmins(lastId + 1)
    /\ invalidTokens' = {}
    /\ UNCHANGED <<clock, login, account, accountsAdmin, browser, signedIn, changes>>

\* What a browser gets with an answer: a token, and the cookie.
Receive(b, g, tokens) == browser' = [browser EXCEPT ![b][g] = tokens]
Begins(b, g) == signedIn' = [signedIn EXCEPT ![b][g] = [NotYet EXCEPT !.start = starts]]

\* getTokenLogin with the name and password of the settings.
LoginLocal(b) ==
    /\ ~login.jellyfin_login
    /\ \E id \in adminUsers : Receive(b, "admin", CreateToken(id, "", TRUE))
    /\ Begins(b, "admin")
    /\ UNCHANGED <<clock, starts, login, account, accountsAdmin, adminUsers, invalidTokens, lastId, changes>>

\* getTokenLogin with those of a Jellyfin user: each login has an id of its own.
LoginAdmin(b, p) ==
    /\ login.jellyfin_login /\ lastId < MaxLogins
    /\ account[p].enabled
    /\ canAccessAdminPage(p)
    /\ lastId' = lastId + 1
    /\ adminUsers' = adminUsers \cup {lastId + 1}
    /\ Receive(b, "admin", CreateToken(lastId + 1, p, TRUE))
    /\ Begins(b, "admin")
    /\ UNCHANGED <<clock, starts, login, account, accountsAdmin, invalidTokens, changes>>

\* getTokenRefresh: neither the account nor its rights are looked at again.
Refresh(b) ==
    LET cookie == browser[b]["admin"].refresh
    IN  /\ ValidCookie(cookie)
        /\ Receive(b, "admin", CreateToken(cookie.id, cookie.jfid, TRUE))
        /\ UNCHANGED <<clock, starts, login, account, accountsAdmin, adminUsers, invalidTokens, lastId,
                       signedIn, changes>>

\* getUserTokenLogin, getUserTokenRefresh.
LoginUser(b, p) ==
    /\ login.jellyfin_login
    /\ account[p].enabled
    /\ Receive(b, "user", CreateToken(p, p, FALSE))
    /\ Begins(b, "user")
    /\ UNCHANGED <<clock, starts, login, account, accountsAdmin, adminUsers, invalidTokens, lastId, changes>>

RefreshUser(b) ==
    LET cookie == browser[b]["user"].refresh
    IN  /\ login.jellyfin_login
        /\ ValidCookie(cookie)
        /\ Receive(b, "user", CreateToken(cookie.jfid, cookie.jfid, FALSE))
        /\ UNCHANGED <<clock, starts, login, account, accountsAdmin, adminUsers, invalidTokens, lastId,
                       signedIn, changes>>

LogsOut(b, g) ==
    signedIn' = [signedIn EXCEPT ![b][g] = [start |-> @.start, out |-> clock, outStart |-> starts]]

\* Logout needs the cookie only, and takes it out of the browser.
Logout(b) ==
    /\ browser[b]["admin"].refresh # NoToken
    /\ invalidTokens' = invalidTokens \cup {browser[b]["admin"].refresh}
    /\ Receive(b, "admin", [browser[b]["admin"] EXCEPT !.refresh = NoToken])
    /\ LogsOut(b, "admin")
    /\ UNCHANGED <<clock, starts, login, account, accountsAdmin, adminUsers, lastId, changes>>

\* LogoutUser and ChangeMyPassword: the cookie named "refresh" is taken out of the browser,
\* of those below /my, where there is none; "user-refresh" stays.
LogoutUser(b) ==
    /\ userAuthenticate(browser[b]["user"].bearer)
    /\ browser[b]["user"].refresh # NoToken
    /\ invalidTokens' = invalidTokens \cup {browser[b]["user"].refresh}
    /\ LogsOut(b, "user")
    /\ UNCHANGED <<clock, starts, login, account, accountsAdmin, adminUsers, lastId, browser, changes>>

\* SetAccountsAdmin, and what is done at Jellyfin.
RightsChange(p) ==
    /\ changes < MaxChanges /\ changes' = changes + 1
    /\ \/ /\ accountsAdmin' = [accountsAdmin EXCEPT ![p] = ~@]
          /\ UNCHANGED account
       \/ /\ account' = [account EXCEPT ![p].enabled = ~@]
          /\ UNCHANGED accountsAdmin
    /\ UNCHANGED <<clock, starts, login, adminUsers, invalidTokens, lastId, browser, signedIn>>

\* A browser drops a cookie that has expired; an expired token is of no use either.
Lasting(t) == IF t # NoToken /\ t.exp > clock + 1 THEN t ELSE NoToken

TimeGoesOn ==
    /\ clock < LastTime /\ clock' = clock + 1
    /\ browser' = [b \in Browsers |-> [g \in Page |-> [bearer  |-> Lasting(browser[b][g].bearer),
                                                       refresh |-> Lasting(browser[b][g].refresh)]]]
    /\ UNCHANGED <<starts, login, account, accountsAdmin, adminUsers, invalidTokens, lastId,
                   signedIn, changes>>

SessionsNext ==
    \/ RestartSessions
    \/ \E b \in Browsers : \/ LoginLocal(b) \/ Refresh(b) \/ RefreshUser(b)
                           \/ Logout(b) \/ LogoutUser(b)
                           \/ \E p \in People : LoginAdmin(b, p) \/ LoginUser(b, p)
    \/ \E p \in People : RightsChange(p)
    \/ TimeGoesOn

-----------------------------------------------------------------------------
\* getTokenRefresh and the two logouts (auth.go:330): the page of the administrator answers
\* only a browser that logged in since the process began and has not logged out for longer
\* than a token lasts.  After a logout no cookie is good for another token until the next
\* login, the one that stays in the browser of a user not before a restart.  The ids a
\* cookie leads to are still known when it is used.
SessionsEnd ==
    \A b \in Browsers :
        LET admin == signedIn[b]["admin"]
            user  == signedIn[b]["user"]
            cookie(g) == browser[b][g].refresh
        IN  /\ authenticate(browser[b]["admin"].bearer) =>
                 /\ admin.start = starts
                 /\ admin.out = Never \/ clock - admin.out < BEARER_VALIDITY
            /\ admin.out # Never => ~ValidCookie(cookie("admin"))
            /\ user.out # Never /\ ValidCookie(cookie("user")) => user.outStart < starts
            /\ admin.start = starts /\ ValidCookie(cookie("admin")) => cookie("admin").id \in adminUsers

=============================================================================
