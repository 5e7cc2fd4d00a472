----------------------------- MODULE Members_proofs -----------------------------
(***************************************************************************)
(* Proofs about the parts of Members.  Sessions are over when they should  *)
(* be, for any number of browsers, logins and starts of the process; the   *)
(* notice of a cancelled subscription goes out once, for any number of     *)
(* handlers, rows and events; a password is changed only by a PIN that is  *)
(* good, for any users, requests, PINs and captchas; a user has one        *)
(* referral, for any users, profiles, templates and codes; what is said of *)
(* an account stays said, and a batch tells what it did not do, for any    *)
(* users, handlers and addresses.                                          *)
(***************************************************************************)
EXTENDS Members, FiniteSetTheorems, TLAPS

-----------------------------------------------------------------------------
(* Sessions.                                                               *)

Tokens == {NoToken} \cup [type : {"bearer", "refresh"}, id : Nat \cup People \cup {""},
                          jfid : People \cup {""}, admin : BOOLEAN, exp : Int]

Held == [bearer : Tokens, refresh : Tokens]

Login == [start : Nat, out : Int, outStart : Nat]

SessionsTypeOK ==
    /\ clock \in Nat /\ starts \in Nat \ {0} /\ lastId \in Nat
    /\ adminUsers \subseteq {id \in Nat : id <= lastId}
    /\ browser \in [Browsers -> [Page -> Held]]
    /\ signedIn \in [Browsers -> [Page -> Login]]

\* The token or cookie t of the administrator's page: its id is known only since the process
\* began, and after this browser logged in.
IdKnown(t, b) ==
    t # NoToken => /\ t.id \in Nat /\ t.id <= lastId
                   /\ t.id \in adminUsers => signedIn[b]["admin"].start = starts

\* After a logout there is no cookie, and the token that is left is over soon.
AdminSession(b) ==
    LET held == browser[b]["admin"]
        s    == signedIn[b]["admin"]
    IN  /\ IdKnown(held.bearer, b) /\ IdKnown(held.refresh, b)
        /\ held.bearer # NoToken => held.bearer.exp <= clock + 1
        /\ held.bearer # NoToken /\ s.out # Never => held.bearer.exp <= s.out + 1
        /\ s.out # Never => held.refresh = NoToken
        /\ held.refresh # NoToken /\ s.start = starts => held.refresh.id \in adminUsers
        /\ s.start <= starts

\* The cookie that stays is of no use until the process ends.
UserSession(b) ==
    LET cookie == browser[b]["user"].refresh
        s      == signedIn[b]["user"]
    IN  /\ s.out # Never /\ cookie # NoToken => cookie \in invalidTokens \/ s.outStart < starts
        /\ s.outStart <= starts

SessionsInv == SessionsTypeOK /\ \A b \in Browsers : AdminSession(b) /\ UserSession(b)

\* The promise follows.
LEMMA SessionsSafe == SessionsInv => SessionsEnd
<1> SUFFICES ASSUME SessionsInv, NEW b \in Browsers
             PROVE  /\ authenticate(browser[b]["admin"].bearer) =>
                         /\ signedIn[b]["admin"].start = starts
                         /\ signedIn[b]["admin"].out = Never
                              \/ clock - signedIn[b]["admin"].out < BEARER_VALIDITY
                    /\ signedIn[b]["admin"].out # Never => ~ValidCookie(browser[b]["admin"].refresh)
                    /\ signedIn[b]["user"].out # Never /\ ValidCookie(browser[b]["user"].refresh)
                         => signedIn[b]["user"].outStart < starts
                    /\ signedIn[b]["admin"].start = starts /\ ValidCookie(browser[b]["admin"].refresh)
                         => browser[b]["admin"].refresh.id \in adminUsers
  BY DEF SessionsEnd
<1>1. /\ signedIn[b]["admin"] \in Login /\ browser[b]["admin"].bearer \in Tokens /\ clock \in Nat
  BY DEF SessionsInv, SessionsTypeOK, Page, Held
<1>2. AdminSession(b) /\ UserSession(b)
  BY DEF SessionsInv
<1>3. browser[b]["admin"].bearer # NoToken => browser[b]["admin"].bearer.exp \in Int
  BY <1>1 DEF Tokens
<1>4. QED
  BY <1>1, <1>2, <1>3 DEF AdminSession, UserSession, IdKnown, authenticate, Valid, ValidCookie,
     BEARER_VALIDITY, Login

\* What a browser receives, and when it logs in and out.
LEMMA ReceiveSays ==
    ASSUME SessionsTypeOK, NEW b \in Browsers, NEW g \in Page, NEW tokens \in Held,
           Receive(b, g, tokens)
    PROVE  /\ browser' \in [Browsers -> [Page -> Held]] /\ browser'[b][g] = tokens
           /\ \A c \in Browsers, k \in Page : c # b \/ k # g => browser'[c][k] = browser[c][k]
  BY DEF SessionsTypeOK, Receive, Page

LEMMA BeginsSays ==
    ASSUME SessionsTypeOK, NEW b \in Browsers, NEW g \in Page, Begins(b, g)
    PROVE  /\ signedIn' \in [Browsers -> [Page -> Login]]
           /\ signedIn'[b][g] = [start |-> starts, out |-> Never, outStart |-> 0]
           /\ \A c \in Browsers, k \in Page : c # b \/ k # g => signedIn'[c][k] = signedIn[c][k]
<1>1. [NotYet EXCEPT !.start = starts] = [start |-> starts, out |-> Never, outStart |-> 0]
  BY DEF NotYet
<1>2. [start |-> starts, out |-> Never, outStart |-> 0] \in Login
  BY DEF SessionsTypeOK, Login, Never
<1>3. QED
  BY <1>1, <1>2 DEF SessionsTypeOK, Begins, Page

LEMMA LogsOutSays ==
    ASSUME SessionsTypeOK, NEW b \in Browsers, NEW g \in Page, LogsOut(b, g)
    PROVE  /\ signedIn' \in [Browsers -> [Page -> Login]]
           /\ signedIn'[b][g] = [start |-> signedIn[b][g].start, out |-> clock, outStart |-> starts]
           /\ \A c \in Browsers, k \in Page : c # b \/ k # g => signedIn'[c][k] = signedIn[c][k]
<1>1. signedIn[b][g] \in Login
  BY DEF SessionsTypeOK
<1>2. [start |-> signedIn[b][g].start, out |-> clock, outStart |-> starts] \in Login
  BY <1>1 DEF SessionsTypeOK, Login
<1>3. QED
  BY <1>2 DEF SessionsTypeOK, LogsOut, Page

LEMMA LaterIsInt ==
    ASSUME clock \in Nat
    PROVE  clock + 1 \in Int /\ clock + REFRESH_VALIDITY \in Int
  BY SessionsAssumption

LEMMA CreateSays ==
    ASSUME SessionsTypeOK, NEW id \in Nat \cup People \cup {""}, NEW jfid \in People \cup {""},
           NEW admin \in BOOLEAN
    PROVE  /\ CreateToken(id, jfid, admin) \in Held
           /\ CreateToken(id, jfid, admin).bearer.id = id
           /\ CreateToken(id, jfid, admin).refresh.id = id
           /\ CreateToken(id, jfid, admin).bearer.exp = clock + 1
<1>1. clock \in Nat /\ REFRESH_VALIDITY \in Nat
  BY SessionsAssumption DEF SessionsTypeOK
<1>2. ASSUME NEW type \in {"bearer", "refresh"}, NEW exp \in Int
      PROVE  [type |-> type, id |-> id, jfid |-> jfid, admin |-> admin, exp |-> exp] \in Tokens
  BY DEF Tokens
<1>3. /\ Token("bearer", id, jfid, admin, BEARER_VALIDITY) \in Tokens
      /\ Token("refresh", id, jfid, admin, REFRESH_VALIDITY) \in Tokens
  BY <1>1, <1>2, LaterIsInt DEF Token, BEARER_VALIDITY
<1>4. QED
  BY <1>1, <1>3 DEF CreateToken, Held, Token, BEARER_VALIDITY

\* The page a step is not about is as it was.
LEMMA UserStays ==
    ASSUME SessionsInv, NEW b \in Browsers, browser'[b]["user"] = browser[b]["user"],
           signedIn'[b]["user"] = signedIn[b]["user"], invalidTokens \subseteq invalidTokens',
           starts' = starts
    PROVE  UserSession(b)'
  BY DEF SessionsInv, UserSession

LEMMA AdminStays ==
    ASSUME SessionsInv, NEW b \in Browsers, browser'[b]["admin"] = browser[b]["admin"],
           signedIn'[b]["admin"] = signedIn[b]["admin"], starts' = starts, clock' = clock,
           lastId' \in Nat, lastId' >= lastId,
           adminUsers' = adminUsers \/ adminUsers' = adminUsers \cup {lastId + 1}
    PROVE  AdminSession(b)'
<1>1. AdminSession(b) /\ lastId \in Nat
  BY DEF SessionsInv, SessionsTypeOK
<1>2. \A t : IdKnown(t, b) => IdKnown(t, b)'
  BY <1>1 DEF IdKnown
<1>3. QED
  BY <1>1, <1>2 DEF AdminSession

\* A browser that has logged in on the page of the administrator.
LEMMA AdminBegins ==
    ASSUME SessionsInv, NEW b \in Browsers, NEW id \in Nat, NEW tokens \in Held,
           Receive(b, "admin", tokens), tokens.bearer.id = id, tokens.refresh.id = id,
           tokens.bearer.exp = clock + 1,
           \/ Begins(b, "admin") /\ id \in adminUsers'
           \/ UNCHANGED <<signedIn, adminUsers>> /\ signedIn[b]["admin"].out = Never
              /\ (id \in adminUsers <=> signedIn[b]["admin"].start = starts),
           id <= lastId', starts' = starts, clock' = clock
    PROVE  AdminSession(b)'
<1>2. browser'[b]["admin"] = tokens
  BY ReceiveSays DEF SessionsInv, Page
<1>3. /\ browser'[b]["admin"].bearer.id = id /\ browser'[b]["admin"].refresh.id = id
      /\ browser'[b]["admin"].bearer.exp = clock + 1
  BY <1>2
<1>4. /\ signedIn'[b]["admin"].out = Never /\ signedIn'[b]["admin"].start <= starts
      /\ id \in adminUsers' <=> signedIn'[b]["admin"].start = starts
  <2>1. CASE Begins(b, "admin") /\ id \in adminUsers'
    <3>1. signedIn'[b]["admin"] = [start |-> starts, out |-> Never, outStart |-> 0]
      BY <2>1, BeginsSays DEF SessionsInv, Page
    <3>2. starts \in Nat
      BY DEF SessionsInv, SessionsTypeOK
    <3>3. signedIn'[b]["admin"].start = starts /\ signedIn'[b]["admin"].out = Never
      BY <3>1
    <3>4. QED
      BY <2>1, <3>2, <3>3
  <2>2. CASE UNCHANGED <<signedIn, adminUsers>> /\ signedIn[b]["admin"].out = Never
             /\ (id \in adminUsers <=> signedIn[b]["admin"].start = starts)
    BY <2>2 DEF SessionsInv, AdminSession
  <2>3. QED
    BY <2>1, <2>2
<1>5. clock \in Nat /\ starts \in Nat
  BY DEF SessionsInv, SessionsTypeOK
<1>6. id <= lastId'
  OBVIOUS
<1>7. IdKnown(browser[b]["admin"].bearer, b)' /\ IdKnown(browser[b]["admin"].refresh, b)'
  BY <1>3, <1>4, <1>6 DEF IdKnown
<1>8. QED
  BY <1>3, <1>4, <1>5, <1>7 DEF AdminSession

\* The token of a cookie that is good is one of the same person.
LEMMA CookieSays ==
    ASSUME SessionsTypeOK, NEW b \in Browsers, NEW g \in Page, ValidCookie(browser[b][g].refresh)
    PROVE  /\ browser[b][g].refresh \in Tokens /\ browser[b][g].refresh # NoToken
           /\ browser[b][g].refresh.jfid \in People \cup {""}
<1>1. browser[b][g].refresh \in Tokens
  BY DEF SessionsTypeOK, Held
<1>2. browser[b][g].refresh # NoToken
  BY DEF ValidCookie, Valid
<1>3. QED
  BY <1>1, <1>2 DEF Tokens

\* A step of one page leaves the rest to itself.
LEMMA OtherPages ==
    ASSUME SessionsInv, NEW b \in Browsers, NEW g \in Page,
           \A c \in Browsers, k \in Page : c # b \/ k # g =>
               browser'[c][k] = browser[c][k] /\ signedIn'[c][k] = signedIn[c][k],
           starts' = starts, clock' = clock, invalidTokens \subseteq invalidTokens',
           lastId' \in Nat, lastId' >= lastId,
           adminUsers' = adminUsers \/ adminUsers' = adminUsers \cup {lastId + 1},
           g = "admin" => AdminSession(b)', g = "user" => UserSession(b)'
    PROVE  \A c \in Browsers : AdminSession(c)' /\ UserSession(c)'
<1> SUFFICES ASSUME NEW c \in Browsers PROVE AdminSession(c)' /\ UserSession(c)'
  OBVIOUS
<1>1. "admin" \in Page /\ "user" \in Page /\ (g = "admin" \/ g = "user")
  BY DEF Page
<1>2. AdminSession(c)'
  <2>1. CASE c = b /\ g = "admin"
    BY <2>1
  <2>2. CASE c # b \/ g # "admin"
    BY <1>1, <2>2, AdminStays
  <2>3. QED
    BY <2>1, <2>2
<1>3. UserSession(c)'
  <2>1. CASE c = b /\ g = "user"
    BY <2>1
  <2>2. CASE c # b \/ g # "user"
    BY <1>1, <2>2, UserStays
  <2>3. QED
    BY <2>1, <2>2
<1>4. QED
  BY <1>2, <1>3

\* Every step keeps the rest (auth.go:327, api.go:643).
LEMMA SessionsStep == ASSUME SessionsInv, SessionsNext PROVE SessionsInv'
<1> DEFINE Rest == \A c \in Browsers : AdminSession(c)' /\ UserSession(c)'
<1>0. /\ SessionsTypeOK /\ clock \in Nat /\ starts \in Nat /\ lastId \in Nat
      /\ \A id \in adminUsers : id \in Nat /\ id <= lastId
      /\ "admin" \in Page /\ "user" \in Page
      /\ \A b \in Browsers : AdminSession(b) /\ UserSession(b)
  BY DEF SessionsInv, SessionsTypeOK, Page
<1>1. ASSUME RestartSessions PROVE SessionsInv'
  <2>1. /\ adminUsers' \subseteq {lastId + 1} /\ lastId' = lastId + 1 /\ starts' = starts + 1
        /\ UNCHANGED <<clock, browser, signedIn>>
    BY <1>1 DEF RestartSessions, FreshAdmins
  <2>2. SessionsTypeOK'
    BY <1>0, <2>1 DEF SessionsTypeOK
  <2>3. ASSUME NEW b \in Browsers PROVE AdminSession(b)' /\ UserSession(b)'
    <3>1. signedIn[b]["admin"] \in Login /\ signedIn[b]["user"] \in Login
      BY <1>0 DEF SessionsTypeOK
    <3>2. \A t : IdKnown(t, b) => IdKnown(t, b)'
      BY <1>0, <2>1 DEF IdKnown
    <3>3. AdminSession(b)'
      BY <1>0, <2>1, <3>1, <3>2 DEF AdminSession, Login
    <3>4. UserSession(b)'
      BY <1>0, <2>1, <3>1 DEF UserSession, Login
    <3>5. QED
      BY <3>3, <3>4
  <2>4. QED
    BY <2>2, <2>3 DEF SessionsInv
<1>2. ASSUME NEW b \in Browsers, LoginLocal(b) PROVE SessionsInv'
  <2>1. PICK id \in adminUsers : Receive(b, "admin", CreateToken(id, "", TRUE))
    BY <1>2 DEF LoginLocal
  <2>2. Begins(b, "admin") /\ UNCHANGED <<clock, starts, adminUsers, invalidTokens, lastId>>
    BY <1>2 DEF LoginLocal
  <2>3. AdminSession(b)'
    BY <1>0, <2>1, <2>2, CreateSays, AdminBegins
  <2>4. SessionsTypeOK'
    BY <1>0, <2>1, <2>2, CreateSays, ReceiveSays, BeginsSays DEF SessionsTypeOK
  <2>5. Rest
    <3>1. \A c \in Browsers, k \in Page : c # b \/ k # "admin" => browser'[c][k] = browser[c][k]
      <4>1. PICK tokens \in Held : Receive(b, "admin", tokens)
        BY <1>0, <2>1, <2>2, CreateSays
      <4>2. QED
        BY <1>0, <4>1, ReceiveSays
    <3>2. \A c \in Browsers, k \in Page : c # b \/ k # "admin" => signedIn'[c][k] = signedIn[c][k]
      BY <1>0, <2>1, <2>2, BeginsSays
    <3>3. QED
      <4>1. lastId' \in Nat /\ lastId' >= lastId /\ adminUsers' = adminUsers
        BY <1>0, <2>2
      <4>2. invalidTokens \subseteq invalidTokens' /\ starts' = starts /\ clock' = clock
        BY <2>2
      <4>3. QED
        BY <1>0, <2>3, <3>1, <3>2, <4>1, <4>2, OtherPages
  <2>6. QED
    BY <2>4, <2>5 DEF SessionsInv
<1>3. ASSUME NEW b \in Browsers, NEW p \in People, LoginAdmin(b, p) PROVE SessionsInv'
  <2>1. /\ Receive(b, "admin", CreateToken(lastId + 1, p, TRUE)) /\ Begins(b, "admin")
        /\ lastId' = lastId + 1 /\ adminUsers' = adminUsers \cup {lastId + 1}
        /\ UNCHANGED <<clock, starts, invalidTokens>>
    BY <1>3 DEF LoginAdmin
  <2>2. lastId + 1 \in Nat /\ lastId + 1 <= lastId'
    BY <1>0, <2>1
  <2>3. AdminSession(b)'
    BY <1>0, <2>1, <2>2, CreateSays, AdminBegins
  <2>4. SessionsTypeOK'
    <3>1. browser' \in [Browsers -> [Page -> Held]] /\ signedIn' \in [Browsers -> [Page -> Login]]
      BY <1>0, <2>1, <2>2, CreateSays, ReceiveSays, BeginsSays
    <3>2. QED
      BY <1>0, <2>1, <2>2, <3>1 DEF SessionsTypeOK
  <2>5. Rest
    <3>1. \A c \in Browsers, k \in Page : c # b \/ k # "admin" => browser'[c][k] = browser[c][k]
      <4>1. PICK tokens \in Held : Receive(b, "admin", tokens)
        BY <1>0, <2>1, <2>2, CreateSays
      <4>2. QED
        BY <1>0, <4>1, ReceiveSays
    <3>2. \A c \in Browsers, k \in Page : c # b \/ k # "admin" => signedIn'[c][k] = signedIn[c][k]
      BY <1>0, <2>1, <2>2, BeginsSays
    <3>3. QED
      BY <1>0, <2>1, <2>2, <2>3, <3>1, <3>2, OtherPages
  <2>6. QED
    BY <2>4, <2>5 DEF SessionsInv
<1>4. ASSUME NEW b \in Browsers, Refresh(b) PROVE SessionsInv'
  <2> DEFINE cookie == browser[b]["admin"].refresh
  <2>1. /\ ValidCookie(cookie) /\ Receive(b, "admin", CreateToken(cookie.id, cookie.jfid, TRUE))
        /\ UNCHANGED <<clock, starts, adminUsers, invalidTokens, lastId, signedIn>>
    BY <1>4 DEF Refresh
  <2>2. cookie # NoToken /\ cookie.jfid \in People \cup {""}
    BY <1>0, <2>1, CookieSays
  <2>3. /\ cookie.id \in Nat /\ cookie.id <= lastId /\ signedIn[b]["admin"].out = Never
        /\ cookie.id \in adminUsers <=> signedIn[b]["admin"].start = starts
    BY <1>0, <2>2 DEF AdminSession, IdKnown
  <2>4. AdminSession(b)'
    BY <1>0, <2>1, <2>2, <2>3, CreateSays, AdminBegins
  <2>5. SessionsTypeOK'
    BY <1>0, <2>1, <2>2, <2>3, CreateSays, ReceiveSays DEF SessionsTypeOK
  <2>6. Rest
    <3>1. \A c \in Browsers, k \in Page : c # b \/ k # "admin" => browser'[c][k] = browser[c][k]
      <4>1. PICK tokens \in Held : Receive(b, "admin", tokens)
        BY <1>0, <2>1, <2>2, <2>3, CreateSays
      <4>2. QED
        BY <1>0, <4>1, ReceiveSays
    <3>2. \A c \in Browsers, k \in Page : c # b \/ k # "admin" => signedIn'[c][k] = signedIn[c][k]
      BY <2>1
    <3>3. QED
      BY <1>0, <2>1, <2>4, <3>1, <3>2, OtherPages
  <2>7. QED
    BY <2>5, <2>6 DEF SessionsInv
<1>5. ASSUME NEW b \in Browsers, NEW p \in People, LoginUser(b, p) PROVE SessionsInv'
  <2>1. /\ Receive(b, "user", CreateToken(p, p, FALSE)) /\ Begins(b, "user")
        /\ UNCHANGED <<clock, starts, adminUsers, invalidTokens, lastId>>
    BY <1>5 DEF LoginUser
  <2>2. UserSession(b)'
    BY <1>0, <2>1, BeginsSays DEF UserSession
  <2>3. SessionsTypeOK'
    BY <1>0, <2>1, CreateSays, ReceiveSays, BeginsSays DEF SessionsTypeOK
  <2>4. Rest
    <3>1. \A c \in Browsers, k \in Page : c # b \/ k # "user" => browser'[c][k] = browser[c][k]
      <4>1. CreateToken(p, p, FALSE) \in Held
        BY <1>0, CreateSays
      <4>2. PICK tokens \in Held : Receive(b, "user", tokens)
        BY <2>1, <4>1
      <4>3. QED
        BY <1>0, <4>2, ReceiveSays
    <3>2. \A c \in Browsers, k \in Page : c # b \/ k # "user" => signedIn'[c][k] = signedIn[c][k]
      BY <1>0, <2>1, BeginsSays
    <3>3. QED
      BY <1>0, <2>1, <2>2, <3>1, <3>2, OtherPages
  <2>5. QED
    BY <2>3, <2>4 DEF SessionsInv
<1>6. ASSUME NEW b \in Browsers, RefreshUser(b) PROVE SessionsInv'
  <2> DEFINE cookie == browser[b]["user"].refresh
  <2>1. /\ ValidCookie(cookie) /\ Receive(b, "user", CreateToken(cookie.jfid, cookie.jfid, FALSE))
        /\ UNCHANGED <<clock, starts, adminUsers, invalidTokens, lastId, signedIn>>
    BY <1>6 DEF RefreshUser
  <2>2. cookie # NoToken /\ cookie \notin invalidTokens /\ cookie.jfid \in People \cup {""}
    BY <1>0, <2>1, CookieSays DEF ValidCookie
  <2>3. UserSession(b)'
    BY <1>0, <2>1, <2>2 DEF UserSession
  <2>4. SessionsTypeOK'
    BY <1>0, <2>1, <2>2, CreateSays, ReceiveSays DEF SessionsTypeOK
  <2>5. Rest
    <3>1. \A c \in Browsers, k \in Page : c # b \/ k # "user" => browser'[c][k] = browser[c][k]
      <4>1. CreateToken(cookie.jfid, cookie.jfid, FALSE) \in Held
        BY <1>0, <2>2, CreateSays
      <4>2. PICK tokens \in Held : Receive(b, "user", tokens)
        BY <2>1, <4>1
      <4>3. QED
        BY <1>0, <4>2, ReceiveSays
    <3>2. \A c \in Browsers, k \in Page : c # b \/ k # "user" => signedIn'[c][k] = signedIn[c][k]
      BY <2>1
    <3>3. QED
      BY <1>0, <2>1, <2>3, <3>1, <3>2, OtherPages
  <2>6. QED
    BY <2>4, <2>5 DEF SessionsInv
<1>7. ASSUME NEW b \in Browsers, Logout(b) PROVE SessionsInv'
  <2> DEFINE left == [browser[b]["admin"] EXCEPT !.refresh = NoToken]
  <2>1. /\ Receive(b, "admin", left) /\ LogsOut(b, "admin") /\ invalidTokens \subseteq invalidTokens'
        /\ UNCHANGED <<clock, starts, adminUsers, lastId>>
    BY <1>7 DEF Logout
  <2>2. browser[b]["admin"] \in Held /\ signedIn[b]["admin"] \in Login
    BY <1>0 DEF SessionsTypeOK
  <2>3. left \in Held /\ left.refresh = NoToken /\ left.bearer = browser[b]["admin"].bearer
    BY <2>2 DEF Held, Tokens
  <2>4. /\ browser'[b]["admin"] = left
        /\ signedIn'[b]["admin"] = [start |-> signedIn[b]["admin"].start, out |-> clock, outStart |-> starts]
    BY <1>0, <2>1, <2>3, ReceiveSays, LogsOutSays
  <2>5. AdminSession(b)'
    BY <1>0, <2>1, <2>2, <2>3, <2>4 DEF AdminSession, IdKnown
  <2>6. SessionsTypeOK'
    BY <1>0, <2>1, <2>3, ReceiveSays, LogsOutSays DEF SessionsTypeOK
  <2>7. Rest
    <3>1. \A c \in Browsers, k \in Page : c # b \/ k # "admin" => browser'[c][k] = browser[c][k]
      BY <1>0, <2>1, <2>3, ReceiveSays
    <3>2. \A c \in Browsers, k \in Page : c # b \/ k # "admin" => signedIn'[c][k] = signedIn[c][k]
      BY <1>0, <2>1, LogsOutSays
    <3>3. QED
      BY <1>0, <2>1, <2>5, <3>1, <3>2, OtherPages
  <2>8. QED
    BY <2>6, <2>7 DEF SessionsInv
<1>8. ASSUME NEW b \in Browsers, LogoutUser(b) PROVE SessionsInv'
  <2>1. /\ LogsOut(b, "user") /\ invalidTokens' = invalidTokens \cup {browser[b]["user"].refresh}
        /\ UNCHANGED <<clock, starts, adminUsers, lastId, browser>>
    BY <1>8 DEF LogoutUser
  <2>2. signedIn'[b]["user"].outStart = starts
    <3>1. signedIn'[b]["user"] = [start |-> signedIn[b]["user"].start, out |-> clock, outStart |-> starts]
      BY <1>0, <2>1, LogsOutSays
    <3>2. QED
      BY <3>1
  <2>3. UserSession(b)'
    BY <1>0, <2>1, <2>2 DEF UserSession
  <2>4. SessionsTypeOK'
    BY <1>0, <2>1, LogsOutSays DEF SessionsTypeOK
  <2>5. Rest
    <3>1. \A c \in Browsers, k \in Page : c # b \/ k # "user" => browser'[c][k] = browser[c][k]
      BY <2>1
    <3>2. \A c \in Browsers, k \in Page : c # b \/ k # "user" => signedIn'[c][k] = signedIn[c][k]
      BY <1>0, <2>1, LogsOutSays
    <3>3. QED
      BY <1>0, <2>1, <2>3, <3>1, <3>2, OtherPages
  <2>6. QED
    BY <2>4, <2>5 DEF SessionsInv
<1>9. ASSUME NEW p \in People, RightsChange(p) PROVE SessionsInv'
  <2>1. UNCHANGED <<clock, starts, adminUsers, invalidTokens, lastId, browser, signedIn>>
    BY <1>9 DEF RightsChange
  <2>2. QED
    BY <1>0, <2>1 DEF SessionsInv, SessionsTypeOK, AdminSession, UserSession, IdKnown
<1>10. ASSUME TimeGoesOn PROVE SessionsInv'
  <2>1. /\ clock' = clock + 1 /\ UNCHANGED <<starts, adminUsers, invalidTokens, lastId, signedIn>>
        /\ browser' = [b \in Browsers |-> [g \in Page |->
                          [bearer  |-> Lasting(browser[b][g].bearer),
                           refresh |-> Lasting(browser[b][g].refresh)]]]
    BY <1>10 DEF TimeGoesOn
  <2>2. ASSUME NEW t \in Tokens
        PROVE  Lasting(t) \in Tokens /\ Lasting(t) \in {t, NoToken}
    BY DEF Lasting, Tokens
  <2>3. \A b \in Browsers, g \in Page :
            browser[b][g].bearer \in Tokens /\ browser[b][g].refresh \in Tokens
    BY <1>0 DEF SessionsTypeOK, Held
  <2>4. browser' \in [Browsers -> [Page -> Held]]
    BY <2>1, <2>2, <2>3 DEF Held
  <2>5. SessionsTypeOK'
    BY <1>0, <2>1, <2>4 DEF SessionsTypeOK
  <2>6. ASSUME NEW b \in Browsers PROVE AdminSession(b)' /\ UserSession(b)'
    <3>1. /\ browser'[b]["admin"].bearer = Lasting(browser[b]["admin"].bearer)
          /\ browser'[b]["admin"].refresh = Lasting(browser[b]["admin"].refresh)
          /\ browser'[b]["user"].refresh = Lasting(browser[b]["user"].refresh)
      BY <1>0, <2>1
    <3>2. browser'[b]["admin"].bearer = NoToken
      <4>1. CASE browser[b]["admin"].bearer = NoToken
        BY <3>1, <4>1 DEF Lasting
      <4>2. CASE browser[b]["admin"].bearer # NoToken
        <5>1. browser[b]["admin"].bearer.exp <= clock + 1 /\ browser[b]["admin"].bearer.exp \in Int
          BY <1>0, <2>3, <4>2 DEF AdminSession, Tokens
        <5>2. QED
          BY <1>0, <3>1, <5>1 DEF Lasting
      <4>3. QED
        BY <4>1, <4>2
    <3>3. /\ browser'[b]["admin"].refresh \in {browser[b]["admin"].refresh, NoToken}
          /\ browser'[b]["user"].refresh \in {browser[b]["user"].refresh, NoToken}
      BY <1>0, <2>2, <2>3, <3>1
    <3>4. AdminSession(b)'
      BY <1>0, <2>1, <3>2, <3>3 DEF AdminSession, IdKnown
    <3>5. UserSession(b)'
      BY <1>0, <2>1, <3>3 DEF UserSession
    <3>6. QED
      BY <3>4, <3>5
  <2>7. QED
    BY <2>5, <2>6 DEF SessionsInv
<1>11. QED
  BY <1>1, <1>2, <1>3, <1>4, <1>5, <1>6, <1>7, <1>8, <1>9, <1>10 DEF SessionsNext

LEMMA SessionsAtFirst == SessionsInit => SessionsInv
<1> SUFFICES ASSUME SessionsInit PROVE SessionsInv
  OBVIOUS
<1>1. /\ clock = 0 /\ starts = 1 /\ lastId = 1 /\ adminUsers \subseteq {1}
      /\ browser = [b \in Browsers |-> [g \in Page |-> [bearer |-> NoToken, refresh |-> NoToken]]]
      /\ signedIn = [b \in Browsers |-> [g \in Page |-> NotYet]]
  BY DEF SessionsInit, FreshAdmins, LocalId
<1>2. NotYet \in Login /\ [bearer |-> NoToken, refresh |-> NoToken] \in Held
  BY DEF NotYet, Never, Login, Held, Tokens
<1>3. SessionsTypeOK
  BY <1>1, <1>2 DEF SessionsTypeOK
<1>4. ASSUME NEW b \in Browsers PROVE AdminSession(b) /\ UserSession(b)
  BY <1>1 DEF AdminSession, UserSession, IdKnown, NotYet, Page
<1>5. QED
  BY <1>3, <1>4 DEF SessionsInv

\* Whoever logs in and out, and however often the process is started: the page of the
\* administrator answers no browser that has logged out for longer than a token lasts, or
\* whose login another process saw (getTokenRefresh, auth.go:327).
THEOREM SessionsAreOver == Spec => []LogoutsKept
<1> DEFINE Inv == topic = "sessions" => SessionsInv
<1>1. Init => Inv
  BY SessionsAtFirst DEF Init
<1>2. Inv /\ [Next]_vars => Inv'
  <2> SUFFICES ASSUME Inv, [Next]_vars PROVE Inv'
    OBVIOUS
  <2>1. CASE SignIns
    BY <2>1, SessionsStep DEF SignIns
  <2>2. CASE Resets \/ Referring \/ Changes \/ Notices
    BY <2>2 DEF Resets, Referring, Changes, Notices
  <2>3. CASE UNCHANGED vars
    BY <2>3 DEF vars, sessionVars, SessionsInv, SessionsTypeOK, AdminSession, UserSession, IdKnown
  <2>4. QED
    BY <2>1, <2>2, <2>3 DEF Next
<1>3. Inv => LogoutsKept
  BY SessionsSafe DEF LogoutsKept
<1>4. QED
  BY <1>1, <1>2, <1>3, PTL DEF Spec

-----------------------------------------------------------------------------
(* The notice of a cancelled subscription.                                 *)

Work == [pc : {"idle", "applies", "copied", "sends", "failed"}, notifies : BOOLEAN,
         todo : SUBSET SubRows, row : SubRows \cup {"none"}, copy : {"none", "zero", "set"}]

NoticesTypeOK ==
    /\ notifiedAt \in [SubRows -> {"absent", "zero", "set"}]
    /\ notifier \in [Notifiers -> Work]
    /\ mailed \in Nat
    /\ erased \in BOOLEAN /\ restored \in BOOLEAN /\ cutOff \in BOOLEAN

\* A row that was copied is there when the copy is stored.
CopiesOfRows ==
    \A n \in Notifiers : notifier[n].pc = "copied" =>
        /\ notifier[n].row \in SubRows
        /\ notifier[n].copy = "zero" \/ (notifier[n].copy = "set" /\ notifiedAt[notifier[n].row] # "absent")

Sending(n) == notifier[n].pc \in {"sends", "failed"}

\* While no stale copy has erased a mark, whoever sends an email is alone and has marked the
\* rows, and the mark of an email that was sent stays.
MarkHolds ==
    ~erased =>
        /\ mailed <= 1
        /\ \A n, m \in Notifiers : Sending(n) /\ Sending(m) => n = m
        /\ \A n \in Notifiers : Sending(n) => Notified /\ mailed = 0
        /\ mailed > 0 => Notified

NoticesInv == NoticesTypeOK /\ CopiesOfRows /\ MarkHolds /\ ToldOnce

\* What becomes of a goroutine.
LEMMA RestedIsWork == Rested \in Work /\ Rested.pc = "idle"
  BY DEF Rested, Work

\* Every step keeps the types (payments.go:255, stripe_subscription_notifications.go:102).
LEMMA NoticesType ==
    ASSUME NoticesTypeOK, CopiesOfRows, NoticesNext
    PROVE NoticesTypeOK'
<1>1. ASSUME NEW n \in Notifiers, Cancellation(n) PROVE NoticesTypeOK'
  <2>1. PICK todo \in SUBSET SubRows, says \in BOOLEAN : Works(n, todo, says)
    BY <1>1 DEF Cancellation, RowsThere
  <2>2. [Rested EXCEPT !.pc = "applies", !.todo = todo, !.notifies = says] \in Work
    BY DEF Rested, Work
  <2>3. QED
    BY <1>1, <2>1, <2>2 DEF Cancellation, Works, NoticesTypeOK
<1>2. ASSUME NEW n \in Notifiers, OtherWrite(n) PROVE NoticesTypeOK'
  <2>1. PICK r \in SubRows : Works(n, {r}, FALSE)
    BY <1>2 DEF OtherWrite
  <2>2. [Rested EXCEPT !.pc = "applies", !.todo = {r}, !.notifies = FALSE] \in Work
    BY DEF Rested, Work
  <2>3. QED
    BY <1>2, <2>1, <2>2 DEF OtherWrite, Works, NoticesTypeOK
<1>3. ASSUME NEW n \in Notifiers, CopyRow(n) PROVE NoticesTypeOK'
  <2>1. PICK r \in notifier[n].todo :
            notifier' = [notifier EXCEPT ![n] = Copied(notifier[n], r)]
    BY <1>3 DEF CopyRow
  <2>2. notifier[n] \in Work /\ r \in SubRows
    BY DEF NoticesTypeOK, Work
  <2>3. Copied(notifier[n], r) \in Work
    BY <2>2 DEF Work, Copied, NoticesTypeOK
  <2>4. QED
    BY <1>3, <2>1, <2>3 DEF CopyRow, NoticesTypeOK
<1>4. ASSUME NEW n \in Notifiers, StoreRow(n) PROVE NoticesTypeOK'
  <2>1. [notifier[n] EXCEPT !.pc = "applies", !.row = "none", !.copy = "none"] \in Work
    BY DEF NoticesTypeOK, Work
  <2>2. notifier' \in [Notifiers -> Work]
    BY <1>4, <2>1, RestedIsWork DEF StoreRow, NoticesTypeOK
  <2>3. notifiedAt' \in [SubRows -> {"absent", "zero", "set"}]
    <3>1. notifier[n].copy \in {"zero", "set"} \/ notifier[n].row \notin SubRows
      BY <1>4 DEF StoreRow, CopiesOfRows
    <3>2. QED
      BY <1>4, <3>1 DEF StoreRow, NoticesTypeOK
  <2>4. QED
    BY <1>4, <2>2, <2>3 DEF StoreRow, NoticesTypeOK
<1>5. ASSUME NEW n \in Notifiers, Reserve(n) PROVE NoticesTypeOK'
  BY <1>5, RestedIsWork DEF Reserve, MarkRows, NoticesTypeOK, Work
<1>6. ASSUME NEW n \in Notifiers, SendNotice(n) PROVE NoticesTypeOK'
  BY <1>6, RestedIsWork DEF SendNotice, NoticesTypeOK, Work
<1>7. ASSUME NEW n \in Notifiers, ClearNotified(n) PROVE NoticesTypeOK'
  BY <1>7, RestedIsWork DEF ClearNotified, MarkRows, NoticesTypeOK
<1>8. ASSUME EndsAndStarts PROVE NoticesTypeOK'
  BY <1>8, RestedIsWork DEF EndsAndStarts, NoticesTypeOK
<1>9. QED
  BY <1>1, <1>2, <1>3, <1>4, <1>5, <1>6, <1>7, <1>8 DEF NoticesNext

\* What a step of one goroutine does to it and leaves to the others.
LEMMA OthersStay ==
    ASSUME NoticesTypeOK, NEW n \in Notifiers,
           Cancellation(n) \/ OtherWrite(n) \/ CopyRow(n) \/ StoreRow(n) \/ Reserve(n)
             \/ SendNotice(n) \/ ClearNotified(n)
    PROVE \A m \in Notifiers \ {n} : notifier'[m] = notifier[m]
  BY DEF NoticesTypeOK, Cancellation, OtherWrite, Works, CopyRow, StoreRow, Reserve, SendNotice,
         ClearNotified

\* Every step keeps the rest (stripe_subscription_notifications.go:102 and :120).
LEMMA NoticesStep ==
    ASSUME NoticesInv, NoticesNext
    PROVE CopiesOfRows' /\ MarkHolds' /\ ToldOnce'
<1> USE DEF NoticesInv
<1>a. /\ notifiedAt \in [SubRows -> {"absent", "zero", "set"}] /\ mailed \in Nat
      /\ \A n \in Notifiers : notifier[n].todo \subseteq SubRows
  BY DEF NoticesTypeOK, Work
<1>1. ASSUME NEW n \in Notifiers, Cancellation(n) \/ OtherWrite(n)
      PROVE CopiesOfRows' /\ MarkHolds' /\ ToldOnce'
  <2>1. notifier'[n].pc = "applies" /\ notifier[n].pc = "idle"
    BY <1>1 DEF Cancellation, OtherWrite, Works, NoticesTypeOK, Rested
  <2>2. UNCHANGED <<notifiedAt, mailed, erased, restored, cutOff>>
    BY <1>1 DEF Cancellation, OtherWrite
  <2>3. QED
    BY <1>1, <2>1, <2>2, OthersStay DEF CopiesOfRows, MarkHolds, ToldOnce, Sending, Notified
<1>2. ASSUME NEW n \in Notifiers, CopyRow(n) PROVE CopiesOfRows' /\ MarkHolds' /\ ToldOnce'
  <2>1. PICK r \in notifier[n].todo :
            notifier' = [notifier EXCEPT ![n] = Copied(notifier[n], r)]
    BY <1>2 DEF CopyRow
  <2>2. /\ notifier'[n].pc = "copied" /\ notifier'[n].row = r
        /\ notifier'[n].copy = IF notifiedAt[r] = "absent" THEN "zero" ELSE notifiedAt[r]
    BY <2>1 DEF NoticesTypeOK, Work, Copied
  <2>3. notifier[n].pc = "applies" /\ UNCHANGED <<notifiedAt, mailed, erased, restored, cutOff>>
    BY <1>2 DEF CopyRow
  <2>4. QED
    BY <1>a, <1>2, <2>2, <2>3, OthersStay DEF CopiesOfRows, MarkHolds, ToldOnce, Sending, Notified
<1>3. ASSUME NEW n \in Notifiers, StoreRow(n) PROVE CopiesOfRows' /\ MarkHolds' /\ ToldOnce'
  <2>1. /\ notifier[n].pc = "copied" /\ notifier[n].row \in SubRows
        /\ notifier[n].copy = "zero"
             \/ (notifier[n].copy = "set" /\ notifiedAt[notifier[n].row] # "absent")
    BY <1>3 DEF StoreRow, CopiesOfRows
  <2>2. notifier'[n].pc \in {"applies", "idle"}
    BY <1>3, RestedIsWork DEF StoreRow, NoticesTypeOK, Work
  <2>3. /\ notifiedAt' = [notifiedAt EXCEPT ![notifier[n].row] = notifier[n].copy]
        /\ erased' = (erased \/ (notifiedAt[notifier[n].row] = "set" /\ notifier[n].copy = "zero"))
        /\ restored' = (restored \/ (notifiedAt[notifier[n].row] = "zero" /\ notifier[n].copy = "set"))
        /\ UNCHANGED <<mailed, cutOff>>
    BY <1>3 DEF StoreRow
  <2>4. CopiesOfRows'
    BY <1>a, <1>3, <2>1, <2>2, <2>3, OthersStay DEF CopiesOfRows
  <2>5. ~erased' => ~erased /\ (Notified => Notified')
    BY <1>a, <2>1, <2>3 DEF Notified
  <2>6. ~restored' => ~restored /\ (Notified' => Notified)
    BY <1>a, <2>1, <2>3 DEF Notified
  <2>7. \A m \in Notifiers : Sending(m)' <=> Sending(m)
    BY <1>3, <2>1, <2>2, OthersStay DEF Sending
  <2>8. MarkHolds'
    BY <2>3, <2>5, <2>7 DEF MarkHolds
  <2>9. ToldOnce'
    BY <2>3, <2>5, <2>6, <2>7 DEF ToldOnce, Sending
  <2>10. QED
    BY <2>4, <2>8, <2>9
<1>4. ASSUME NEW n \in Notifiers, Reserve(n) PROVE CopiesOfRows' /\ MarkHolds' /\ ToldOnce'
  <2>1. notifier[n].pc = "applies" /\ UNCHANGED <<mailed, erased, restored, cutOff>>
    BY <1>4 DEF Reserve
  <2>2. CASE notifier' = [notifier EXCEPT ![n] = Rested] /\ UNCHANGED notifiedAt
    <3>1. notifier'[n].pc = "idle"
      BY <2>2, RestedIsWork DEF NoticesTypeOK
    <3>2. QED
      BY <1>4, <2>1, <2>2, <3>1, OthersStay DEF CopiesOfRows, MarkHolds, ToldOnce, Sending, Notified
  <2>3. CASE /\ ~Notified /\ RowsThere # {} /\ MarkRows("set")
             /\ notifier' = [notifier EXCEPT ![n].pc = "sends"]
    <3>1. notifier'[n].pc = "sends"
      BY <2>3 DEF NoticesTypeOK, Work
    <3>2. Notified' /\ \A r \in SubRows : notifiedAt[r] # "absent" => notifiedAt'[r] # "absent"
      BY <1>a, <2>3 DEF MarkRows, RowsThere, Notified
    <3>3. ~erased => mailed = 0 /\ \A m \in Notifiers : ~Sending(m)
      BY <1>a, <2>3 DEF MarkHolds
    <3>4. \A m \in Notifiers : Sending(m)' => m = n \/ Sending(m)
      BY <1>4, OthersStay DEF Sending
    <3>5. CopiesOfRows'
      BY <1>4, <3>1, <3>2, OthersStay DEF CopiesOfRows
    <3>6. MarkHolds'
      BY <2>1, <3>2, <3>3, <3>4 DEF MarkHolds
    <3>7. ToldOnce'
      BY <2>1, <3>1, <3>2, <3>3 DEF ToldOnce
    <3>8. QED
      BY <3>5, <3>6, <3>7
  <2>4. QED
    BY <1>4, <2>2, <2>3 DEF Reserve
<1>5. ASSUME NEW n \in Notifiers, SendNotice(n) PROVE CopiesOfRows' /\ MarkHolds' /\ ToldOnce'
  <2>1. notifier[n].pc = "sends" /\ UNCHANGED <<notifiedAt, erased, restored, cutOff>>
    BY <1>5 DEF SendNotice
  <2>2. CASE mailed' = mailed + 1 /\ notifier' = [notifier EXCEPT ![n] = Rested]
    <3>1. notifier'[n].pc = "idle"
      BY <2>2, RestedIsWork DEF NoticesTypeOK
    <3>2. ~erased => mailed = 0 /\ Notified /\ \A m \in Notifiers \ {n} : ~Sending(m)
      BY <2>1 DEF MarkHolds, Sending
    <3>3. QED
      BY <1>a, <1>5, <2>1, <2>2, <3>1, <3>2, OthersStay DEF CopiesOfRows, MarkHolds, ToldOnce, Sending,
         Notified
  <2>3. CASE notifier' = [notifier EXCEPT ![n].pc = "failed"] /\ UNCHANGED mailed
    <3>1. notifier'[n].pc = "failed"
      BY <2>3 DEF NoticesTypeOK, Work
    <3>2. QED
      BY <1>5, <2>1, <2>3, <3>1, OthersStay DEF CopiesOfRows, MarkHolds, ToldOnce, Sending, Notified
  <2>4. QED
    BY <1>5, <2>2, <2>3 DEF SendNotice
<1>6. ASSUME NEW n \in Notifiers, ClearNotified(n) PROVE CopiesOfRows' /\ MarkHolds' /\ ToldOnce'
  <2>1. /\ notifier[n].pc = "failed" /\ MarkRows("zero") /\ UNCHANGED <<mailed, erased, restored, cutOff>>
        /\ notifier' = [notifier EXCEPT ![n] = Rested]
    BY <1>6 DEF ClearNotified
  <2>2. notifier'[n].pc = "idle"
    BY <2>1, RestedIsWork DEF NoticesTypeOK
  <2>3. ~Notified' /\ \A r \in SubRows : notifiedAt[r] # "absent" => notifiedAt'[r] # "absent"
    BY <1>a, <2>1 DEF MarkRows, RowsThere, Notified
  <2>4. ~erased => mailed = 0 /\ \A m \in Notifiers \ {n} : ~Sending(m)
    BY <2>1 DEF MarkHolds, Sending
  <2>5. QED
    BY <1>a, <1>6, <2>1, <2>2, <2>3, <2>4, OthersStay DEF CopiesOfRows, MarkHolds, ToldOnce, Sending
<1>7. ASSUME EndsAndStarts PROVE CopiesOfRows' /\ MarkHolds' /\ ToldOnce'
  <2>1. /\ \A n \in Notifiers : notifier'[n].pc = "idle"
        /\ cutOff' /\ UNCHANGED <<notifiedAt, mailed, erased, restored>>
    BY <1>7, RestedIsWork DEF EndsAndStarts
  <2>2. QED
    BY <2>1 DEF CopiesOfRows, MarkHolds, ToldOnce, Sending, Notified
<1>8. QED
  BY <1>1, <1>2, <1>3, <1>4, <1>5, <1>6, <1>7 DEF NoticesNext

LEMMA NoticesAtFirst == NoticesInit => NoticesInv
<1> SUFFICES ASSUME NoticesInit PROVE NoticesInv
  OBVIOUS
<1>1. \A n \in Notifiers : notifier[n] = Rested
  BY DEF NoticesInit
<1>2. NoticesTypeOK
  BY RestedIsWork DEF NoticesInit, NoticesTypeOK
<1>3. CopiesOfRows /\ MarkHolds /\ ToldOnce
  BY <1>1, RestedIsWork DEF NoticesInit, CopiesOfRows, MarkHolds, ToldOnce, Sending, Notified
<1>4. QED
  BY <1>2, <1>3 DEF NoticesInv

\* Of any number of handlers, rows, events and failures, a customer is told of the
\* cancellation once (notifyStripeSubscriptionCancellation,
\* stripe_subscription_notifications.go:13).
THEOREM TheCustomerIsToldOnce == Spec => []CustomerToldOnce
<1> DEFINE Inv == topic = "notices" => NoticesInv
<1>1. Init => Inv
  BY NoticesAtFirst DEF Init
<1>2. Inv /\ [Next]_vars => Inv'
  <2> SUFFICES ASSUME Inv, [Next]_vars PROVE Inv'
    OBVIOUS
  <2>1. CASE Notices
    BY <2>1, NoticesType, NoticesStep DEF Notices, NoticesInv
  <2>2. CASE SignIns \/ Resets \/ Referring \/ Changes
    BY <2>2 DEF SignIns, Resets, Referring, Changes
  <2>3. CASE UNCHANGED vars
    BY <2>3 DEF vars, noticeVars, NoticesInv, NoticesTypeOK, CopiesOfRows, MarkHolds, ToldOnce, Sending,
       Notified
  <2>4. QED
    BY <2>1, <2>2, <2>3 DEF Next
<1>3. Inv => CustomerToldOnce
  BY DEF CustomerToldOnce, NoticesInv
<1>4. QED
  BY <1>1, <1>2, <1>3, PTL DEF Spec

-----------------------------------------------------------------------------
(* Password resets.                                                        *)

Pwr == [user : Users, exp : Int]
Passwords == {Blank, Old} \cup {PIN(p) : p \in Nat} \cup {Chosen(p) : p \in Nat}
Captchas == [answer : Nat, generated : Nat]
Waiting == [step : {"reset", "file", "set", "ombi"}, via : {"page", "link"}, pin : Nat,
            at : Nat, new : Passwords]

\* A PIN that is kept, in memory or at Jellyfin, is as it was issued.
AsIssued(f) == \A p \in DOMAIN f : p \in Pins /\ f[p] = issued[p]

ResetsTypeOK ==
    /\ moment \in Nat /\ conf \in ResetSettings /\ captchas \in Nat
    /\ issued \in Seq(Pwr) /\ known \subseteq Pins
    /\ AsIssued(internalPWRs) /\ AsIssued(fileResets)
    /\ DOMAIN internalPWRs \cap DOMAIN fileResets = {}
    /\ password \in [Users -> Passwords] /\ ombi \in [Users -> Passwords]
    /\ changedBy \in [Users -> SUBSET [pin : Nat, at : Nat]]
    /\ request \in [Clients -> {NoRequest} \cup Waiting]
    /\ overlapped \subseteq Pins /\ usedUp \subseteq Pins

\* A request has a PIN that was good when it was found, and a password that is allowed.
RequestOK(c) ==
    LET r == request[c]
    IN  Active(c) =>
            /\ r.pin \in Pins /\ r.at <= moment
            /\ r.step = "reset" => r.pin \notin DOMAIN fileResets
            /\ r.step \in {"reset", "set"} => r.at <= issued[r.pin].exp
            /\ r.new = Blank => r.via = "page" /\ ~conf.validate
            /\ r.via = "link" => r.new = PIN(r.pin)

\* Two requests with the same PIN overlap.
TogetherOK ==
    \A c, d \in Clients : Active(c) /\ Active(d) /\ c # d /\ request[c].pin = request[d].pin
                              => request[c].pin \in overlapped

\* A PIN that was used is gone, and no request is about to use it.
UsedOK ==
    /\ reused \subseteq overlapped
    /\ \A p \in usedUp \ overlapped :
          /\ p \notin DOMAIN internalPWRs /\ p \notin DOMAIN fileResets
          /\ \A c \in Clients : Active(c) /\ request[c].pin = p => request[c].step # "reset"

ChangesOK ==
    \A u \in Users : \A ch \in changedBy[u] :
        ch.pin \in Pins /\ issued[ch.pin].user = u /\ ch.at <= issued[ch.pin].exp

Serves(c, u) == Active(c) /\ issued[request[c].pin].user = u
Past(c, u) == Serves(c, u) /\ request[c].step \in {"set", "ombi"}

OnePin(u) == \A x, y \in changedBy[u] : x.pin = y.pin

\* A password is blank only until the request that made it so has set another.
BlankOK(u) ==
    u \notin spoiled /\ conf.validate /\ password[u] = Blank =>
        \E c \in Clients : Serves(c, u) /\ request[c].step = "set"

\* A request past the reset has changed the password; its user's passwords are the same
\* again when it ends.
SameOK(u) ==
    u \notin spoiled =>
        /\ \A c \in Clients : Past(c, u) => \E ch \in changedBy[u] : ch.pin = request[c].pin
        /\ ~Mixed(u) /\ OnePin(u) =>
              /\ \A c \in Clients : Past(c, u) /\ request[c].step = "ombi" => password[u] = request[c].new
              /\ (\A c \in Clients : ~Past(c, u)) => ombi[u] = password[u]

\* A captcha that was shown is in memory, and in the copy a sweep is about to put in place.
KeptCaptchas(f) ==
    \A p \in DOMAIN shown :
        \/ p \in DOMAIN f /\ f[p] = shown[p]
        \/ shown[p].generated + CAPTCHA_VALIDITY <= moment
        \/ p \in lostCaptchas

CaptchasOK ==
    /\ \A p \in DOMAIN shown : shown[p] \in Captchas
    /\ KeptCaptchas(pwrCaptchas) /\ \A f \in copied : KeptCaptchas(f)

ResetsInv ==
    /\ ResetsTypeOK /\ TogetherOK /\ UsedOK /\ ChangesOK /\ CaptchasOK
    /\ \A c \in Clients : RequestOK(c)
    /\ \A u \in Users : BlankOK(u) /\ SameOK(u)

-----------------------------------------------------------------------------
(* What it is for.                                                         *)

\* A blank password is none of the others.
LEMMA NotBlank ==
    /\ Blank # Old /\ \A p : PIN(p) # Blank /\ Chosen(p) # Blank
    /\ Blank \in Passwords /\ Old \in Passwords
    /\ \A p \in Nat : PIN(p) \in Passwords /\ Chosen(p) \in Passwords
<1>1. Blank # Old /\ \A p : PIN(p) # Blank /\ Chosen(p) # Blank
  BY DEF Blank, Old, PIN, Chosen
<1>2. QED
  BY <1>1 DEF Passwords

\* What is kept by key.
LEMMA WithSays ==
    ASSUME NEW f, NEW x, NEW v
    PROVE  /\ DOMAIN With(f, x, v) = DOMAIN f \cup {x} /\ With(f, x, v)[x] = v
           /\ \A y \in DOMAIN f : y # x => With(f, x, v)[y] = f[y]
  BY DEF With

LEMMA WithoutSays ==
    ASSUME NEW f, NEW xs
    PROVE  /\ DOMAIN Without(f, xs) = DOMAIN f \ xs
           /\ \A y \in DOMAIN f \ xs : Without(f, xs)[y] = f[y]
  BY DEF Without, Restrict

\* A request, what it is about and who.
LEMMA RequestSays ==
    ASSUME ResetsTypeOK, NEW c \in Clients, RequestOK(c), Active(c)
    PROVE  /\ request[c] \in Waiting /\ request[c].pin \in Pins
           /\ issued[request[c].pin] \in Pwr /\ issued[request[c].pin].user \in Users
<1>1. request[c] \in Waiting
  BY DEF ResetsTypeOK, Active
<1>2. request[c].pin \in Pins
  BY DEF RequestOK
<1>3. issued[request[c].pin] \in Pwr
  BY <1>2 DEF ResetsTypeOK, Pins
<1>4. QED
  BY <1>1, <1>2, <1>3 DEF Pwr

\* One PIN is all there is when there are not two.
LEMMA OneOrTwo ==
    ASSUME ResetsTypeOK, ChangesOK, NEW u \in Users, ~TwoPins(u)
    PROVE  OnePin(u)
<1> DEFINE pins == {ch.pin : ch \in changedBy[u]}
<1>1. Pins = 1..Len(issued) /\ Len(issued) \in Nat
  BY DEF ResetsTypeOK, Pins
<1>2. IsFiniteSet(pins)
  <2>1. IsFiniteSet(Pins)
    BY <1>1, FS_Interval
  <2>2. pins \subseteq Pins
    BY DEF ChangesOK
  <2> QED BY <2>1, <2>2, FS_Subset
<1>3. ASSUME NEW x \in changedBy[u], NEW y \in changedBy[u], x.pin # y.pin PROVE FALSE
  <2>1. {x.pin, y.pin} \subseteq pins
    OBVIOUS
  <2>2. Cardinality({x.pin, y.pin}) = 2 /\ Cardinality(pins) \in Nat
    <3>1. IsFiniteSet({x.pin}) /\ Cardinality({x.pin}) = 1
      BY FS_Singleton
    <3>2. {x.pin, y.pin} = {x.pin} \cup {y.pin} /\ y.pin \notin {x.pin}
      BY <1>3
    <3>3. Cardinality({x.pin} \cup {y.pin}) = Cardinality({x.pin}) + 1
      BY <3>1, <3>2, FS_AddElement
    <3> QED BY <1>2, <3>1, <3>2, <3>3, FS_CardinalityType
  <2>3. Cardinality({x.pin, y.pin}) <= Cardinality(pins)
    BY <1>2, <2>1, FS_Subset
  <2> QED BY <2>2, <2>3 DEF TwoPins
<1> QED BY <1>3 DEF OnePin

\* The promise follows.
LEMMA ResetsSafe == ResetsInv => ResetsGuarded
<1> SUFFICES ASSUME ResetsInv PROVE ResetsGuarded
  OBVIOUS
<1>1. PinsHonoured
  BY DEF ResetsInv, ChangesOK, UsedOK, PinsHonoured
<1>2. CaptchasAnswerable
  BY DEF ResetsInv, CaptchasOK, KeptCaptchas, CaptchasAnswerable, verifyCaptcha
<1>3. ASSUME NEW u \in Users, ~Busy(u), u \notin spoiled, ~Mixed(u)
      PROVE  /\ password[u] = Blank => ~conf.validate
             /\ ~TwoPins(u) => ombi[u] = password[u]
  <2>1. \A c \in Clients : ~Serves(c, u)
    BY <1>3 DEF Busy, Serves
  <2>2. BlankOK(u) /\ SameOK(u)
    BY DEF ResetsInv
  <2>3. password[u] = Blank => ~conf.validate
    BY <1>3, <2>1, <2>2 DEF BlankOK
  <2>4. ~TwoPins(u) => ombi[u] = password[u]
    BY <1>3, <2>1, <2>2, OneOrTwo DEF SameOK, Past, ResetsInv
  <2> QED BY <2>3, <2>4
<1>4. PasswordsWhole
  BY <1>3 DEF PasswordsWhole
<1> QED BY <1>1, <1>2, <1>4 DEF ResetsGuarded

-----------------------------------------------------------------------------
(* PINs are issued.                                                        *)

\* More PINs are issued, those there were stay as they were, and nothing else happens.
Issues ==
    /\ issued' \in Seq(Pwr) /\ Pins \subseteq Pins' /\ \A p \in Pins : issued'[p] = issued[p]
    /\ known' \subseteq Pins'
    /\ \A p \in DOMAIN internalPWRs' : p \in Pins => p \in DOMAIN internalPWRs
    /\ \A p \in DOMAIN fileResets' : p \in Pins => p \in DOMAIN fileResets
    /\ AsIssued(internalPWRs)' /\ AsIssued(fileResets)'
    /\ DOMAIN internalPWRs' \cap DOMAIN fileResets' = {}
    /\ UNCHANGED <<moment, conf, pwrCaptchas, copied, password, ombi, request, changedBy, usedUp, reused,
                   overlapped, spoiled, shown, lostCaptchas, captchas>>

\* Requests have PINs that were issued before.
LEMMA IssueStep == ASSUME ResetsInv, Issues PROVE ResetsInv'
<1>1. ResetsTypeOK'
  BY DEF ResetsInv, ResetsTypeOK, Issues
<1>2. TogetherOK' /\ CaptchasOK'
  BY DEF ResetsInv, TogetherOK, CaptchasOK, KeptCaptchas, Active, Issues
<1>3. UsedOK'
  <2>1. UNCHANGED <<request, usedUp, reused, overlapped>>
    BY DEF Issues
  <2>2. ASSUME NEW p \in usedUp, p \notin overlapped
        PROVE  /\ p \notin DOMAIN internalPWRs' /\ p \notin DOMAIN fileResets'
               /\ \A c \in Clients : Active(c) /\ request[c].pin = p => request[c].step # "reset"
    <3>1. p \in Pins
      BY DEF ResetsInv, ResetsTypeOK
    <3> QED BY <2>2, <3>1 DEF ResetsInv, UsedOK, Issues
  <2>3. reused \subseteq overlapped
    BY DEF ResetsInv, UsedOK
  <2> QED BY <2>1, <2>2, <2>3 DEF UsedOK, Active
<1>4. ChangesOK'
  BY DEF ResetsInv, ChangesOK, Issues
<1>5. ASSUME NEW c \in Clients PROVE RequestOK(c)'
  BY DEF ResetsInv, RequestOK, Active, Issues
<1>6. ASSUME NEW u \in Users PROVE BlankOK(u)' /\ SameOK(u)'
  <2>1. BlankOK(u) /\ SameOK(u)
    BY DEF ResetsInv
  <2>2. UNCHANGED <<conf, password, ombi, request, changedBy, spoiled>>
    BY DEF Issues
  <2>3. \A c \in Clients : (Serves(c, u)' <=> Serves(c, u)) /\ (Past(c, u)' <=> Past(c, u))
    BY DEF ResetsInv, RequestOK, Serves, Past, Active, Issues
  <2>4. (Mixed(u)' <=> Mixed(u)) /\ (OnePin(u)' <=> OnePin(u))
    BY DEF ResetsInv, ResetsTypeOK, Mixed, OnePin, Issues
  <2>5. BlankOK(u)'
    BY <2>1, <2>2, <2>3 DEF BlankOK
  <2>6. SameOK(u)'
    BY <2>1, <2>2, <2>3, <2>4 DEF SameOK
  <2> QED BY <2>5, <2>6
<1> QED BY <1>1, <1>2, <1>3, <1>4, <1>5, <1>6 DEF ResetsInv

\* GenInternalReset issues the PINs of its users, in memory.
LEMMA GenSays ==
    ASSUME ResetsTypeOK, NEW us \in Seq(Users), GenInternalReset(us)
    PROVE  /\ issued' \in Seq(Pwr) /\ Len(issued') = Len(issued) + Len(us)
           /\ \A p \in Pins : p \in Pins' /\ issued'[p] = issued[p]
           /\ DOMAIN internalPWRs' = DOMAIN internalPWRs \cup (Len(issued) + 1)..(Len(issued) + Len(us))
           /\ AsIssued(internalPWRs)'
<1> DEFINE new == [i \in 1..Len(us) |-> [user |-> us[i], exp |-> moment + PIN_VALIDITY]]
           L == Len(issued)
           n == Len(us)
<1>1. issued' = issued \o new
      /\ internalPWRs' = [p \in DOMAIN internalPWRs \cup (L + 1)..(L + n) |->
                              IF p \in DOMAIN internalPWRs THEN internalPWRs[p] ELSE new[p - L]]
  BY DEF GenInternalReset
<1>2. n \in Nat /\ L \in Nat /\ issued \in Seq(Pwr) /\ Pins = 1..L /\ moment + PIN_VALIDITY \in Int
  BY ResetsAssumption DEF ResetsTypeOK, Pins
<1>3. new \in Seq(Pwr) /\ Len(new) = n
  <2>1. \A i \in 1..n : [user |-> us[i], exp |-> moment + PIN_VALIDITY] \in Pwr
    BY <1>2 DEF Pwr
  <2> QED BY <1>2, <2>1
<1> HIDE DEF new
<1>4. /\ issued' \in Seq(Pwr) /\ Len(issued') = L + n /\ DOMAIN issued' = 1..(L + n)
      /\ \A p \in 1..L : issued'[p] = issued[p]
      /\ \A p \in (L + 1)..(L + n) : issued'[p] = new[p - L]
  <2> HIDE DEF L, n
  <2>1. L = Len(issued) /\ n = Len(new)
    BY <1>3 DEF L
  <2>2. issued' \in Seq(Pwr) /\ Len(issued') = L + n /\ DOMAIN issued' = 1..(L + n)
    BY <1>1, <1>2, <1>3, <2>1
  <2>3. \A p \in 1..(L + n) : issued'[p] = IF p <= L THEN issued[p] ELSE new[p - L]
    BY <1>1, <1>2, <1>3, <2>1
  <2>4. \A p \in 1..L : issued'[p] = issued[p]
    BY <1>2, <2>3
  <2>5. \A p \in (L + 1)..(L + n) : issued'[p] = new[p - L]
    BY <1>2, <2>3
  <2> QED BY <2>2, <2>4, <2>5
<1>5. \A p \in DOMAIN internalPWRs : p \in Pins /\ internalPWRs[p] = issued[p]
  BY DEF ResetsTypeOK, AsIssued
<1>6. AsIssued(internalPWRs)'
  <2>1. ASSUME NEW p \in DOMAIN internalPWRs' PROVE p \in DOMAIN issued' /\ internalPWRs'[p] = issued'[p]
    BY <1>1, <1>2, <1>4, <1>5, <2>1
  <2> QED BY <2>1 DEF AsIssued, Pins
<1> QED BY <1>1, <1>2, <1>4, <1>6 DEF Pins

\* Whoever may have the link of a PIN, it was issued.
LEMMA IssuingOK ==
    ASSUME ResetsInv,
           \/ \E us \in UserLists : AdminPasswordReset(us)
           \/ \E u \in Users : ResetMyPassword(u) \/ FileReset(u)
    PROVE  ResetsInv'
<1>0. /\ ResetsTypeOK /\ Len(issued) \in Nat /\ Pins = 1..Len(issued) /\ known \subseteq Pins
      /\ AsIssued(fileResets) /\ AsIssued(internalPWRs)
      /\ DOMAIN internalPWRs \cap DOMAIN fileResets = {}
  BY DEF ResetsInv, ResetsTypeOK, Pins
<1>1. ASSUME NEW us \in Seq(Users), GenInternalReset(us), UNCHANGED fileResets,
             known' \subseteq known \cup (Len(issued) + 1)..(Len(issued) + Len(us)),
             UNCHANGED <<moment, conf, pwrCaptchas, copied, password, ombi, request, changedBy, usedUp,
                         reused, overlapped, spoiled, shown, lostCaptchas, captchas>>
      PROVE  Issues
  <2>1. /\ issued' \in Seq(Pwr) /\ Len(issued') = Len(issued) + Len(us)
        /\ \A p \in Pins : p \in Pins' /\ issued'[p] = issued[p]
        /\ DOMAIN internalPWRs' = DOMAIN internalPWRs \cup (Len(issued) + 1)..(Len(issued) + Len(us))
        /\ AsIssued(internalPWRs)'
    BY <1>0, <1>1, GenSays
  <2>2. Len(us) \in Nat /\ Pins' = 1..(Len(issued) + Len(us))
    BY <2>1 DEF Pins
  <2>3. known' \subseteq Pins'
    BY <1>0, <1>1, <2>2
  <2>4. AsIssued(fileResets)'
    BY <1>0, <1>1, <2>1 DEF AsIssued
  <2>5. DOMAIN internalPWRs' \cap DOMAIN fileResets' = {}
    BY <1>0, <1>1, <2>1, <2>2 DEF AsIssued
  <2>6. \A p \in DOMAIN internalPWRs' : p \in Pins => p \in DOMAIN internalPWRs
    BY <1>0, <2>1, <2>2
  <2> QED BY <1>1, <2>1, <2>3, <2>4, <2>5, <2>6 DEF Issues
<1>2. ASSUME NEW us \in UserLists, AdminPasswordReset(us) PROVE Issues
  <2>1. us \in Seq(Users) /\ Len(us) \in Nat
    <3>1. CASE us \in {<<u>> : u \in Users}
      <4>1. PICK u \in Users : us = <<u>> BY <3>1
      <4>2. <<u>> \in Seq(Users) /\ Len(<<u>>) = 1 OBVIOUS
      <4> QED BY <4>1, <4>2
    <3>2. CASE us \in {<<u, v>> : u, v \in Users}
      <4>1. PICK u \in Users, v \in Users : us = <<u, v>> BY <3>2
      <4>2. <<u, v>> \in Seq(Users) /\ Len(<<u, v>>) = 2 OBVIOUS
      <4> QED BY <4>1, <4>2
    <3> QED BY <3>1, <3>2 DEF UserLists
  <2> DEFINE part(k) == SubSeq(us, 1, k)
             linked(k) == {i \in 1..k : part(k)[i] \notin WithAddress \/ Len(us) = 1}
             link(k) == IF k = Len(us) /\ Cardinality(linked(k)) = 1
                        THEN {Len(issued) + i : i \in linked(k)} ELSE {}
             sent(k) == {Len(issued) + i : i \in {j \in 1..k : part(k)[j] \in WithAddress}}
  <2>2. PICK k \in 0..Len(us) :
           /\ GenInternalReset(part(k))
           /\ known' = known \cup link(k) \cup sent(k) \/ known' = known \cup link(k)
           /\ UNCHANGED <<moment, conf, fileResets, pwrCaptchas, copied, password, ombi, request, useVars,
                          overlapped, spoiled, shown, lostCaptchas, captchas>>
    BY <1>2 DEF AdminPasswordReset
  <2>3. part(k) \in Seq(Users) /\ Len(part(k)) = k
    BY <2>1
  <2>4. \A i \in 1..k : Len(issued) + i \in (Len(issued) + 1)..(Len(issued) + k)
    BY <1>0
  <2>5. known' \subseteq known \cup (Len(issued) + 1)..(Len(issued) + k)
    <3>1. link(k) \subseteq (Len(issued) + 1)..(Len(issued) + k)
      BY <2>4
    <3>2. sent(k) \subseteq (Len(issued) + 1)..(Len(issued) + k)
      BY <2>4
    <3> HIDE DEF link, sent
    <3> QED BY <2>2, <3>1, <3>2
  <2> HIDE DEF part
  <2> QED BY <1>1, <2>2, <2>3, <2>5 DEF useVars
<1>3. ASSUME NEW u \in Users, ResetMyPassword(u) PROVE Issues
  <2>1. <<u>> \in Seq(Users) /\ Len(<<u>>) = 1
    OBVIOUS
  <2>2. known' \subseteq known \cup (Len(issued) + 1)..(Len(issued) + 1)
    BY <1>0, <1>3 DEF ResetMyPassword
  <2> QED BY <1>1, <1>3, <2>1, <2>2 DEF ResetMyPassword, useVars
<1>4. ASSUME NEW u \in Users, FileReset(u) PROVE Issues
  <2> DEFINE p == Len(issued) + 1
             pwr == [user |-> u, exp |-> moment + PIN_VALIDITY]
  <2>1. /\ fileResets' = With(fileResets, p, pwr) /\ issued' = Append(issued, pwr)
        /\ known' \subseteq known \cup {p} /\ internalPWRs' = internalPWRs
        /\ UNCHANGED <<moment, conf, pwrCaptchas, copied, password, ombi, request, useVars, overlapped,
                       spoiled, shown, lostCaptchas, captchas>>
    BY <1>4 DEF FileReset
  <2>2. pwr \in Pwr
    BY <1>0, ResetsAssumption DEF ResetsTypeOK, Pwr
  <2> HIDE DEF pwr
  <2>3. /\ issued' \in Seq(Pwr) /\ DOMAIN issued' = 1..p /\ issued'[p] = pwr
        /\ \A q \in 1..Len(issued) : issued'[q] = issued[q]
    BY <1>0, <2>1, <2>2 DEF ResetsTypeOK
  <2>4. Pins' = 1..p /\ p \notin Pins /\ Pins \subseteq 1..p /\ p \in 1..p
    BY <1>0, <2>3 DEF Pins
  <2> HIDE DEF p
  <2>5. /\ DOMAIN fileResets' = DOMAIN fileResets \cup {p} /\ fileResets'[p] = pwr
        /\ \A y \in DOMAIN fileResets : y # p => fileResets'[y] = fileResets[y]
    BY <2>1 DEF With
  <2>6. AsIssued(fileResets)'
    BY <1>0, <2>3, <2>4, <2>5 DEF AsIssued
  <2>7. AsIssued(internalPWRs)'
    BY <1>0, <2>1, <2>3, <2>4 DEF AsIssued
  <2>8. DOMAIN internalPWRs' \cap DOMAIN fileResets' = {}
    BY <1>0, <2>1, <2>4, <2>5 DEF AsIssued
  <2> QED BY <1>0, <2>1, <2>3, <2>4, <2>5, <2>6, <2>7, <2>8 DEF Issues, useVars
<1> QED BY <1>2, <1>3, <1>4, IssueStep

-----------------------------------------------------------------------------
(* Captchas and the clock.                                                 *)

\* Steps that no request takes part in.
LEMMA RequestsStay ==
    ASSUME ResetsInv, moment' \in Nat, moment <= moment', captchas' \in Nat,
           UNCHANGED <<conf, internalPWRs, fileResets, password, ombi, request, useVars, overlapped,
                       spoiled, issued, known>>
    PROVE  /\ ResetsTypeOK' /\ TogetherOK' /\ UsedOK' /\ ChangesOK'
           /\ \A c \in Clients : RequestOK(c)'
           /\ \A u \in Users : BlankOK(u)' /\ SameOK(u)'
<1>1. ResetsTypeOK'
  BY DEF ResetsInv, ResetsTypeOK, AsIssued, Pins, useVars
<1>2. TogetherOK' /\ UsedOK' /\ ChangesOK'
  BY DEF ResetsInv, TogetherOK, UsedOK, ChangesOK, Active, Pins, useVars
<1>3. ASSUME NEW c \in Clients PROVE RequestOK(c)'
  <2>1. Active(c) => request[c].at \in Nat
    BY DEF ResetsInv, ResetsTypeOK, Active, Waiting
  <2>2. moment \in Nat
    BY DEF ResetsInv, ResetsTypeOK
  <2>3. RequestOK(c)
    BY DEF ResetsInv
  <2> QED BY <2>1, <2>2, <2>3 DEF RequestOK, Active, Pins
<1>4. ASSUME NEW u \in Users PROVE BlankOK(u)' /\ SameOK(u)'
  <2>1. BlankOK(u) /\ SameOK(u)
    BY DEF ResetsInv
  <2>2. \A c \in Clients : (Serves(c, u)' <=> Serves(c, u)) /\ (Past(c, u)' <=> Past(c, u))
    BY DEF Serves, Past, Active
  <2>3. (Mixed(u)' <=> Mixed(u)) /\ (OnePin(u)' <=> OnePin(u))
    BY DEF Mixed, OnePin, useVars
  <2>4. BlankOK(u)'
    BY <2>1, <2>2 DEF BlankOK
  <2>5. UNCHANGED changedBy
    BY DEF useVars
  <2>6. SameOK(u)'
    BY <2>1, <2>2, <2>3, <2>5 DEF SameOK
  <2> QED BY <2>4, <2>6
<1> QED BY <1>1, <1>2, <1>3, <1>4

\* The captcha that was shown is the one that is kept.
LEMMA CaptchaStep ==
    ASSUME ResetsInv, (\E p \in known : GenCaptcha(p)) \/ SweepCaptchas \/ MomentPasses
    PROVE  ResetsInv'
<1>0. /\ moment \in Nat /\ captchas \in Nat /\ CAPTCHA_VALIDITY \in Nat
      /\ CaptchasOK /\ \A p \in DOMAIN shown : shown[p] \in Captchas
      /\ \A p \in DOMAIN shown : shown[p].generated \in Nat
  BY ResetsAssumption DEF ResetsInv, ResetsTypeOK, CaptchasOK, Captchas
<1>1. /\ UNCHANGED <<conf, internalPWRs, fileResets, password, ombi, request, useVars, overlapped,
                     spoiled, issued, known>>
      /\ moment' \in {moment, moment + 1} /\ captchas' \in {captchas, captchas + 1}
  BY DEF GenCaptcha, SweepCaptchas, MomentPasses, historyVars
<1>2. moment' \in Nat /\ moment <= moment' /\ captchas' \in Nat
  BY <1>0, <1>1
<1>3. CASE MomentPasses
  <2>1. UNCHANGED <<pwrCaptchas, copied, shown, lostCaptchas>>
    BY <1>3 DEF MomentPasses, historyVars
  <2>2. ASSUME NEW f, KeptCaptchas(f) PROVE \A p \in DOMAIN shown :
             \/ p \in DOMAIN f /\ f[p] = shown[p]
             \/ shown[p].generated + CAPTCHA_VALIDITY <= moment'
             \/ p \in lostCaptchas
    BY <1>0, <1>2, <2>2 DEF KeptCaptchas
  <2>3. CaptchasOK'
    BY <1>0, <2>1, <2>2 DEF CaptchasOK, KeptCaptchas
  <2> QED BY <1>1, <1>2, <2>3, RequestsStay DEF ResetsInv
<1>4. CASE SweepCaptchas
  <2>1. UNCHANGED <<moment, shown, lostCaptchas>>
    BY <1>4 DEF SweepCaptchas, historyVars
  <2>2. CASE copied # NotSweeping
    <3>1. pwrCaptchas' \in copied /\ copied' = {}
      BY <1>4, <2>2 DEF SweepCaptchas, NotSweeping
    <3>2. CaptchasOK'
      BY <1>0, <2>1, <3>1 DEF CaptchasOK, KeptCaptchas
    <3> QED BY <1>1, <1>2, <3>2, RequestsStay DEF ResetsInv
  <2>3. CASE copied = NotSweeping
    <3> DEFINE left == {p \in DOMAIN pwrCaptchas : pwrCaptchas[p].generated + CAPTCHA_VALIDITY > moment}
               f == Restrict(pwrCaptchas, left)
    <3>1. copied' = {f} /\ UNCHANGED pwrCaptchas
      BY <1>4, <2>3 DEF SweepCaptchas
    <3>2. DOMAIN f = left /\ \A p \in left : f[p] = pwrCaptchas[p]
      BY DEF Restrict
    <3>3. ASSUME NEW p \in DOMAIN shown
          PROVE  \/ p \in DOMAIN f /\ f[p] = shown[p]
                 \/ shown[p].generated + CAPTCHA_VALIDITY <= moment
                 \/ p \in lostCaptchas
      BY <1>0, <3>2 DEF CaptchasOK, KeptCaptchas
    <3> HIDE DEF f
    <3>4. CaptchasOK'
      BY <1>0, <2>1, <3>1, <3>3 DEF CaptchasOK, KeptCaptchas
    <3> QED BY <1>1, <1>2, <3>4, RequestsStay DEF ResetsInv
  <2> QED BY <2>2, <2>3
<1>5. CASE \E p \in known : GenCaptcha(p)
  <2>1. PICK p \in known : GenCaptcha(p)
    BY <1>5
  <2> DEFINE made == [answer |-> captchas + 1, generated |-> moment]
  <2>2. /\ pwrCaptchas' = With(pwrCaptchas, p, made) /\ shown' = With(shown, p, made)
        /\ lostCaptchas' = IF copied = NotSweeping THEN lostCaptchas \ {p} ELSE lostCaptchas \cup {p}
        /\ UNCHANGED <<moment, copied>>
    BY <2>1 DEF GenCaptcha
  <2>3. made \in Captchas
    BY <1>0 DEF Captchas
  <2> HIDE DEF made
  <2>4. /\ DOMAIN pwrCaptchas' = DOMAIN pwrCaptchas \cup {p} /\ pwrCaptchas'[p] = made
        /\ \A q \in DOMAIN pwrCaptchas : q # p => pwrCaptchas'[q] = pwrCaptchas[q]
        /\ DOMAIN shown' = DOMAIN shown \cup {p} /\ shown'[p] = made
        /\ \A q \in DOMAIN shown : q # p => shown'[q] = shown[q]
    BY <2>2 DEF With
  <2>5. \A q \in DOMAIN shown' : shown'[q] \in Captchas
    BY <1>0, <2>3, <2>4
  <2>6. KeptCaptchas(pwrCaptchas)'
    BY <1>0, <2>2, <2>4 DEF CaptchasOK, KeptCaptchas
  <2>7. ASSUME NEW f \in copied' PROVE \A q \in DOMAIN shown' :
             \/ q \in DOMAIN f /\ f[q] = shown'[q]
             \/ shown'[q].generated + CAPTCHA_VALIDITY <= moment'
             \/ q \in lostCaptchas'
    BY <1>0, <2>2, <2>4 DEF CaptchasOK, KeptCaptchas, NotSweeping
  <2>8. CaptchasOK'
    BY <2>5, <2>6, <2>7 DEF CaptchasOK, KeptCaptchas
  <2> QED BY <1>1, <1>2, <2>8, RequestsStay DEF ResetsInv
<1> QED BY <1>3, <1>4, <1>5

\* A restart forgets requests and captchas, and the PINs in memory.
LEMMA ForgetStep == ASSUME ResetsInv, RestartResets PROVE ResetsInv'
<1>1. /\ internalPWRs' = <<>> /\ pwrCaptchas' = <<>> /\ copied' = NotSweeping
      /\ request' = [c \in Clients |-> NoRequest]
      /\ spoiled' = spoiled \cup {issued[request[c].pin].user : c \in {d \in Clients : Active(d)}}
      /\ lostCaptchas' = lostCaptchas \cup DOMAIN shown
      /\ UNCHANGED <<moment, conf, fileResets, password, ombi, issued, known, changedBy, usedUp, reused,
                     overlapped, shown, captchas>>
  BY DEF RestartResets, useVars
<1>2. DOMAIN internalPWRs' = {}
  BY <1>1
<1>3. \A c \in Clients : request'[c] = NoRequest /\ ~Active(c)'
  BY <1>1 DEF Active
<1>4. ResetsTypeOK'
  <2>1. request' \in [Clients -> {NoRequest} \cup Waiting]
    BY <1>1
  <2>2. AsIssued(internalPWRs)' /\ AsIssued(fileResets)' /\ DOMAIN internalPWRs' \cap DOMAIN fileResets' = {}
    BY <1>1, <1>2 DEF ResetsInv, ResetsTypeOK, AsIssued, Pins
  <2> QED BY <1>1, <2>1, <2>2 DEF ResetsInv, ResetsTypeOK, Pins
<1>5. TogetherOK' /\ ChangesOK' /\ \A c \in Clients : RequestOK(c)'
  BY <1>1, <1>3 DEF ResetsInv, TogetherOK, ChangesOK, RequestOK, Pins
<1>6. UsedOK'
  BY <1>1, <1>2, <1>3 DEF ResetsInv, UsedOK
<1>7. CaptchasOK'
  BY <1>1 DEF ResetsInv, CaptchasOK, KeptCaptchas, NotSweeping
<1>8. ASSUME NEW u \in Users PROVE BlankOK(u)' /\ SameOK(u)'
  <2>1. BlankOK(u) /\ SameOK(u)
    BY DEF ResetsInv
  <2>2. \A c \in Clients : ~Serves(c, u)' /\ ~Past(c, u)'
    BY <1>3 DEF Serves, Past
  <2>3. (Mixed(u)' <=> Mixed(u)) /\ (OnePin(u)' <=> OnePin(u))
    BY <1>1 DEF Mixed, OnePin
  <2>4. u \notin spoiled' => u \notin spoiled /\ \A c \in Clients : ~Serves(c, u) /\ ~Past(c, u)
    BY <1>1 DEF Serves, Past
  <2>5. BlankOK(u)'
    BY <1>1, <2>1, <2>2, <2>4 DEF BlankOK
  <2>6. SameOK(u)'
    BY <1>1, <2>1, <2>2, <2>3, <2>4 DEF SameOK
  <2> QED BY <2>5, <2>6
<1> QED BY <1>4, <1>5, <1>6, <1>7, <1>8 DEF ResetsInv

-----------------------------------------------------------------------------
(* Requests.                                                               *)

\* A request begins with a PIN that is good, and overlaps those that have the same.
LEMMA BeginStep ==
    ASSUME ResetsInv, NEW c \in Clients, NEW p \in known, NEW via \in {"page", "link"},
           NEW new \in Passwords, ~Active(c), Begin(c, p, via, new),
           p \in DOMAIN internalPWRs => internalPWRs[p].exp >= moment,
           new = Blank => via = "page" /\ ~conf.validate, via = "link" => new = PIN(p),
           UNCHANGED <<moment, conf, internalPWRs, fileResets, pwrCaptchas, copied, password, ombi,
                       useVars, spoiled, historyVars, captchas>>
    PROVE  ResetsInv'
<1> DEFINE r == [step |-> IF p \in DOMAIN internalPWRs THEN "reset" ELSE "file",
                 via |-> via, pin |-> p, at |-> moment, new |-> new]
<1>1. /\ request' = [request EXCEPT ![c] = r] /\ overlapped \subseteq overlapped'
      /\ overlapped' \subseteq overlapped \cup {p}
      /\ (\E d \in Clients : Active(d) /\ request[d].pin = p) => p \in overlapped'
  BY DEF Begin
<1>2. p \in Pins /\ p \in Nat /\ moment \in Nat
  BY DEF ResetsInv, ResetsTypeOK, Pins
<1>3. /\ r \in Waiting /\ r.pin = p /\ r.at = moment /\ r.via = via /\ r.new = new
      /\ r.step \in {"reset", "file"} /\ (r.step = "reset" <=> p \in DOMAIN internalPWRs)
      /\ r # NoRequest
  <2>1. r \in Waiting /\ r.step \in {"reset", "file"} /\ (r.step = "reset" <=> p \in DOMAIN internalPWRs)
    BY <1>2 DEF Waiting
  <2>2. NoRequest.step = "idle"
    BY DEF NoRequest
  <2> QED BY <2>1, <2>2
<1> HIDE DEF r
<1>4. /\ request'[c] = r /\ \A d \in Clients : d # c => request'[d] = request[d]
      /\ request' \in [Clients -> {NoRequest} \cup Waiting]
  BY <1>1, <1>3 DEF ResetsInv, ResetsTypeOK
<1>5. ResetsTypeOK'
  BY <1>1, <1>2, <1>4 DEF ResetsInv, ResetsTypeOK, AsIssued, Pins, useVars, historyVars
<1>6. TogetherOK'
  <2>1. ASSUME NEW d \in Clients, NEW e \in Clients, Active(d)', Active(e)', d # e,
               request'[d].pin = request'[e].pin
        PROVE  request'[d].pin \in overlapped'
    <3>1. CASE d # c /\ e # c
      BY <1>1, <1>4, <2>1, <3>1 DEF ResetsInv, TogetherOK, Active
    <3>2. CASE d = c
      BY <1>1, <1>3, <1>4, <2>1, <3>2 DEF Active
    <3>3. CASE e = c
      BY <1>1, <1>3, <1>4, <2>1, <3>3 DEF Active
    <3> QED BY <3>1, <3>2, <3>3
  <2> QED BY <2>1 DEF TogetherOK
<1>7. UsedOK'
  <2>1. ASSUME NEW q \in usedUp, q \notin overlapped'
        PROVE  /\ q \notin DOMAIN internalPWRs /\ q \notin DOMAIN fileResets
               /\ \A d \in Clients : Active(d)' /\ request'[d].pin = q => request'[d].step # "reset"
    <3>1. /\ q \notin DOMAIN internalPWRs /\ q \notin DOMAIN fileResets
          /\ \A d \in Clients : Active(d) /\ request[d].pin = q => request[d].step # "reset"
      BY <1>1, <2>1 DEF ResetsInv, UsedOK
    <3>2. ASSUME NEW d \in Clients, Active(d)', request'[d].pin = q PROVE request'[d].step # "reset"
      <4>1. CASE d = c
        BY <1>3, <1>4, <3>1, <3>2, <4>1
      <4>2. CASE d # c
        BY <1>4, <3>1, <3>2, <4>2 DEF Active
      <4> QED BY <4>1, <4>2
    <3> QED BY <3>1, <3>2
  <2>2. reused \subseteq overlapped'
    BY <1>1 DEF ResetsInv, UsedOK
  <2>3. UNCHANGED <<internalPWRs, fileResets, usedUp, reused>>
    BY DEF useVars
  <2> QED BY <2>1, <2>2, <2>3 DEF UsedOK
<1>8. ChangesOK' /\ CaptchasOK'
  BY DEF ResetsInv, ChangesOK, CaptchasOK, KeptCaptchas, Pins, useVars, historyVars
<1>9. ASSUME NEW d \in Clients PROVE RequestOK(d)'
  <2>1. UNCHANGED <<moment, conf, issued, fileResets>>
    BY DEF historyVars
  <2>2. CASE d # c
    BY <1>4, <2>1, <2>2 DEF ResetsInv, RequestOK, Active, Pins
  <2>3. CASE d = c
    <3>1. p \in DOMAIN internalPWRs =>
              /\ p \notin DOMAIN fileResets /\ internalPWRs[p] = issued[p] /\ moment <= issued[p].exp
      <4>1. p \in DOMAIN internalPWRs => internalPWRs[p] = issued[p] /\ issued[p] \in Pwr
        BY <1>2 DEF ResetsInv, ResetsTypeOK, AsIssued, Pins
      <4>2. p \in DOMAIN internalPWRs => p \notin DOMAIN fileResets
        BY DEF ResetsInv, ResetsTypeOK
      <4> QED BY <1>2, <4>1, <4>2 DEF Pwr
    <3>2. moment <= moment
      BY <1>2
    <3> QED BY <1>2, <1>3, <1>4, <2>1, <2>3, <3>1, <3>2 DEF RequestOK, Pins
  <2> QED BY <2>2, <2>3
<1>10. ASSUME NEW u \in Users PROVE BlankOK(u)' /\ SameOK(u)'
  <2>1. BlankOK(u) /\ SameOK(u)
    BY DEF ResetsInv
  <2>2. UNCHANGED <<conf, password, ombi, changedBy, spoiled, issued>>
    BY DEF useVars, historyVars
  <2>3. ASSUME NEW d \in Clients
        PROVE  /\ Serves(d, u) => Serves(d, u)' /\ request'[d] = request[d]
               /\ Past(d, u)' <=> Past(d, u)
    <3>1. CASE d = c
      BY <1>3, <1>4, <2>2, <3>1 DEF Serves, Past
    <3>2. CASE d # c
      BY <1>4, <2>2, <3>2 DEF Serves, Past, Active
    <3> QED BY <3>1, <3>2
  <2>4. (Mixed(u) => Mixed(u)') /\ (OnePin(u)' <=> OnePin(u))
    BY <1>1, <2>2 DEF Mixed, OnePin
  <2>5. BlankOK(u)'
    BY <2>1, <2>2, <2>3 DEF BlankOK
  <2>6. \A d \in Clients : Past(d, u) => request'[d] = request[d]
    BY <2>3 DEF Past
  <2>7. SameOK(u)'
    BY <2>1, <2>2, <2>3, <2>4, <2>6 DEF SameOK
  <2> QED BY <2>5, <2>7
<1> QED BY <1>5, <1>6, <1>7, <1>8, <1>9, <1>10 DEF ResetsInv

\* Requests begin with what was typed, or with the PIN of the link.
LEMMA BeginningOK ==
    ASSUME ResetsInv, NEW c \in Clients, NEW p \in known,
           \/ OpenLink(c, p)
           \/ \E new \in {Blank, Chosen(p)} : \E told \in 0..captchas : ResetSetPassword(c, p, new, told)
    PROVE  ResetsInv'
<1>0. p \in Pins /\ p \in Nat /\ PIN(p) \in Passwords /\ Chosen(p) \in Passwords /\ Blank \in Passwords
  BY NotBlank DEF ResetsInv, ResetsTypeOK, Pins
<1>1. CASE OpenLink(c, p)
  <2>1. /\ ~Active(c) /\ Begin(c, p, "link", PIN(p))
        /\ p \in DOMAIN internalPWRs => internalPWRs[p].exp >= moment
        /\ UNCHANGED <<moment, conf, internalPWRs, fileResets, pwrCaptchas, copied, password, ombi,
                       useVars, spoiled, historyVars, captchas>>
    BY <1>1 DEF OpenLink
  <2>2. PIN(p) # Blank
    BY NotBlank
  <2> QED BY <1>0, <2>1, <2>2, BeginStep
<1>2. ASSUME NEW new \in {Blank, Chosen(p)}, NEW told \in 0..captchas, ResetSetPassword(c, p, new, told)
      PROVE  ResetsInv'
  <2>1. /\ ~Active(c) /\ (conf.validate => new # Blank)
        /\ UNCHANGED <<moment, conf, fileResets, pwrCaptchas, copied, password, ombi, useVars, spoiled,
                       historyVars, captchas>>
    BY <1>2 DEF ResetSetPassword
  <2>2. CASE p \in DOMAIN internalPWRs /\ internalPWRs[p].exp < moment
    <3>1. internalPWRs' = Without(internalPWRs, {p}) /\ UNCHANGED <<request, overlapped>>
      BY <1>2, <2>2 DEF ResetSetPassword
    <3>2. DOMAIN internalPWRs' \subseteq DOMAIN internalPWRs
          /\ \A q \in DOMAIN internalPWRs' : internalPWRs'[q] = internalPWRs[q]
      BY <3>1 DEF Without, Restrict
    <3>3. AsIssued(internalPWRs)'
      BY <2>1, <3>2 DEF ResetsInv, ResetsTypeOK, AsIssued, Pins, historyVars
    <3>4. Issues
      BY <2>1, <3>1, <3>2, <3>3 DEF ResetsInv, ResetsTypeOK, AsIssued, Issues, Pins, useVars, historyVars
    <3> QED BY <3>4, IssueStep
  <2>3. CASE ~(p \in DOMAIN internalPWRs /\ internalPWRs[p].exp < moment)
    <3>1. Begin(c, p, "page", new) /\ UNCHANGED internalPWRs
      BY <1>2, <2>3 DEF ResetSetPassword
    <3>2. p \in DOMAIN internalPWRs => internalPWRs[p].exp >= moment
      <4>1. p \in DOMAIN internalPWRs => internalPWRs[p] = issued[p] /\ issued[p] \in Pwr
        BY <1>0 DEF ResetsInv, ResetsTypeOK, AsIssued, Pins
      <4>2. moment \in Nat
        BY DEF ResetsInv, ResetsTypeOK
      <4>3. p \in DOMAIN internalPWRs => internalPWRs[p].exp \in Int
        BY <4>1 DEF Pwr
      <4> QED BY <2>3, <4>2, <4>3
    <3>3. new \in Passwords
      BY <1>0
    <3> QED BY <2>1, <3>1, <3>2, <3>3, BeginStep
  <2> QED BY <2>2, <2>3
<1> QED BY <1>1, <1>2

\* A request goes on or ends: what it may touch, whatever step it takes.
Carries(c) ==
    LET r == request[c]  s == request'[c]  u == issued[r.pin].user
    IN  /\ request' \in [Clients -> {NoRequest} \cup Waiting]
        /\ \A d \in Clients : d # c => request'[d] = request[d]
        /\ s # NoRequest =>
              /\ s.pin = r.pin /\ s.at = r.at /\ s.new = r.new /\ s.via = r.via
              /\ s.step \in {"set", "ombi"} /\ (s.step = "set" => r.at <= issued[r.pin].exp)
        /\ DOMAIN internalPWRs' \subseteq DOMAIN internalPWRs
        /\ \A p \in DOMAIN internalPWRs' : internalPWRs'[p] = internalPWRs[p]
        /\ DOMAIN fileResets' \subseteq DOMAIN fileResets
        /\ \A p \in DOMAIN fileResets' : fileResets'[p] = fileResets[p]
        /\ password' \in [Users -> Passwords] /\ ombi' \in [Users -> Passwords]
        /\ \A v \in Users : v # u => /\ password'[v] = password[v] /\ ombi'[v] = ombi[v]
                                     /\ v \in spoiled' => v \in spoiled
        /\ spoiled \subseteq spoiled'
        /\ UNCHANGED <<moment, conf, pwrCaptchas, copied, overlapped, issued, known, shown, lostCaptchas, captchas>>

\* A change of the password of u that is put down to the request.
Credits(c, u) ==
    changedBy' = [changedBy EXCEPT ![u] = @ \cup {[pin |-> request[c].pin, at |-> request[c].at]}]

\* The step of a request becomes another.
LEMMA GoesSays ==
    ASSUME ResetsTypeOK, NEW c \in Clients, Active(c), NEW s \in {"set", "ombi"}, Goes(c, s)
    PROVE  /\ request' \in [Clients -> {NoRequest} \cup Waiting]
           /\ \A d \in Clients : d # c => request'[d] = request[d]
           /\ request'[c] # NoRequest
           /\ LET t == request'[c]  r == request[c]
              IN  t.pin = r.pin /\ t.at = r.at /\ t.new = r.new /\ t.via = r.via /\ t.step = s
<1> DEFINE r == request[c]
           t == [r EXCEPT !.step = s]
<1>1. r \in Waiting /\ request \in [Clients -> {NoRequest} \cup Waiting]
  BY DEF ResetsTypeOK, Active
<1>2. t \in Waiting /\ t.pin = r.pin /\ t.at = r.at /\ t.new = r.new /\ t.via = r.via /\ t.step = s
  BY <1>1 DEF Waiting
<1>3. request' = [request EXCEPT ![c] = t]
  BY DEF Goes
<1> HIDE DEF t
<1>4. request'[c] = t /\ \A d \in Clients : d # c => request'[d] = request[d]
  BY <1>1, <1>3
<1>5. NoRequest.step = "idle" /\ s # "idle"
  BY DEF NoRequest
<1>6. request' \in [Clients -> {NoRequest} \cup Waiting]
  BY <1>1, <1>2, <1>3
<1> QED BY <1>2, <1>4, <1>5, <1>6

\* A request ends.
LEMMA FinishedSays ==
    ASSUME ResetsTypeOK, NEW c \in Clients, Finished(c)
    PROVE  /\ request' \in [Clients -> {NoRequest} \cup Waiting]
           /\ \A d \in Clients : d # c => request'[d] = request[d]
           /\ request'[c] = NoRequest
  BY DEF ResetsTypeOK, Finished

\* Whatever step a request takes, most stays as it should be.
LEMMA CarryStep ==
    ASSUME ResetsInv, NEW c \in Clients, Active(c), Carries(c),
           \/ Uses(c)
           \/ UNCHANGED <<usedUp, reused>>,
           \/ UNCHANGED changedBy
           \/ Credits(c, issued[request[c].pin].user) /\ request[c].at <= issued[request[c].pin].exp
    PROVE  /\ ResetsTypeOK' /\ TogetherOK' /\ ChangesOK' /\ CaptchasOK'
           /\ \A d \in Clients : RequestOK(d)'
<1> DEFINE p == request[c].pin
           u == issued[p].user
           ch == [pin |-> request[c].pin, at |-> request[c].at]
<1>1. /\ request[c] \in Waiting /\ p \in Pins /\ u \in Users /\ ResetsTypeOK
      /\ RequestOK(c) /\ moment \in Nat /\ request[c].at \in Nat
  BY RequestSays DEF ResetsInv, ResetsTypeOK, Waiting
<1>2. Pins' = Pins /\ Pins \subseteq Nat
  BY DEF ResetsInv, ResetsTypeOK, Carries, Pins
<1>3. ch \in [pin : Nat, at : Nat] /\ ch.pin = p /\ ch.at = request[c].at
  BY <1>1, <1>2
<1>0. issued' = issued
  BY DEF Carries
<1>4. ASSUME UNCHANGED changedBy
      PROVE  changedBy' \in [Users -> SUBSET [pin : Nat, at : Nat]] /\ ChangesOK'
  <2>1. changedBy' \in [Users -> SUBSET [pin : Nat, at : Nat]]
    BY <1>1, <1>4 DEF ResetsTypeOK
  <2>2. ChangesOK'
    BY <1>0, <1>2, <1>4 DEF ResetsInv, ChangesOK
  <2> QED BY <2>1, <2>2
<1>5. ASSUME Credits(c, u), request[c].at <= issued[p].exp
      PROVE  changedBy' \in [Users -> SUBSET [pin : Nat, at : Nat]] /\ ChangesOK'
  <2> HIDE DEF ch, p, u
  <2>1. changedBy' = [changedBy EXCEPT ![u] = @ \cup {ch}] /\ changedBy \in [Users -> SUBSET [pin : Nat, at : Nat]]
    BY <1>1, <1>5 DEF Credits, ch, ResetsTypeOK
  <2>2. changedBy' \in [Users -> SUBSET [pin : Nat, at : Nat]]
    BY <1>3, <2>1
  <2>3. ASSUME NEW v \in Users, NEW x \in changedBy'[v]
        PROVE  x.pin \in Pins /\ issued[x.pin].user = v /\ x.at <= issued[x.pin].exp
    <3>1. x \in changedBy[v] \/ (v = u /\ x = ch)
      BY <1>1, <2>1, <2>3
    <3>2. CASE x \in changedBy[v]
      BY <3>2 DEF ResetsInv, ChangesOK
    <3>3. CASE v = u /\ x = ch
      BY <1>1, <1>3, <1>5, <3>3 DEF u
    <3> QED BY <3>1, <3>2, <3>3
  <2>4. ChangesOK'
    BY <1>0, <1>2, <2>3 DEF ChangesOK
  <2> QED BY <2>2, <2>4
<1>6. changedBy' \in [Users -> SUBSET [pin : Nat, at : Nat]] /\ ChangesOK'
  BY <1>4, <1>5
<1>7. ResetsTypeOK'
  <2>1. AsIssued(internalPWRs)' /\ AsIssued(fileResets)' /\ DOMAIN internalPWRs' \cap DOMAIN fileResets' = {}
    BY <1>1, <1>2 DEF Carries, ResetsTypeOK, AsIssued
  <2>2. usedUp' \subseteq Pins
    BY <1>1 DEF Uses, ResetsTypeOK
  <2>3. UNCHANGED <<moment, conf, captchas, issued, known, overlapped>>
    BY DEF Carries
  <2>4. request' \in [Clients -> {NoRequest} \cup Waiting]
        /\ password' \in [Users -> Passwords] /\ ombi' \in [Users -> Passwords]
    BY DEF Carries
  <2> QED BY <1>1, <1>2, <1>6, <2>1, <2>2, <2>3, <2>4 DEF ResetsTypeOK
<1>8. TogetherOK'
  <2>1. \A d \in Clients : Active(d)' => Active(d) /\ request'[d].pin = request[d].pin
    BY DEF Carries, Active
  <2> QED BY <2>1 DEF ResetsInv, TogetherOK, Carries
<1>9. CaptchasOK'
  BY DEF ResetsInv, CaptchasOK, KeptCaptchas, Carries
<1>10. ASSUME NEW d \in Clients PROVE RequestOK(d)'
  <2>1. RequestOK(d)
    BY DEF ResetsInv
  <2>2. UNCHANGED <<moment, conf, issued>> /\ DOMAIN fileResets' \subseteq DOMAIN fileResets
    BY DEF Carries
  <2>3. CASE d # c
    <3>1. request'[d] = request[d]
      BY <2>3 DEF Carries
    <3> QED BY <1>2, <2>1, <2>2, <3>1 DEF RequestOK, Active
  <2>4. CASE d = c
    <3>1. CASE request'[c] = NoRequest
      BY <2>4, <3>1 DEF RequestOK, Active
    <3>2. CASE request'[c] # NoRequest
      <4>1. /\ request'[c].pin = p /\ request'[c].at = request[c].at /\ request'[c].new = request[c].new
            /\ request'[c].via = request[c].via
            /\ request'[c].step \in {"set", "ombi"}
            /\ request'[c].step = "set" => request[c].at <= issued[p].exp
        BY <3>2 DEF Carries
      <4>2. /\ p \in Pins /\ request[c].at <= moment
            /\ request[c].new = Blank => request[c].via = "page" /\ ~conf.validate
            /\ request[c].via = "link" => request[c].new = PIN(p)
        BY <1>1 DEF RequestOK
      <4> HIDE DEF p, u
      <4> QED BY <1>2, <2>2, <2>4, <4>1, <4>2 DEF RequestOK
    <3> QED BY <3>1, <3>2
  <2> QED BY <2>3, <2>4
<1> QED BY <1>6, <1>7, <1>8, <1>9, <1>10

\* No PIN is used twice: it goes when it is used, and a request with the same one overlaps.
LEMMA UseStep ==
    ASSUME ResetsInv, NEW c \in Clients, Active(c), Carries(c),
           \/ UNCHANGED <<usedUp, reused>>
           \/ /\ Uses(c)
              /\ request[c].pin \notin usedUp \ overlapped
              /\ request[c].via = "page" =>
                     request[c].pin \notin DOMAIN internalPWRs' /\ request[c].pin \notin DOMAIN fileResets'
    PROVE  UsedOK'
<1> DEFINE p == request[c].pin
<1>1. UsedOK /\ TogetherOK
  BY DEF ResetsInv
<1>2. /\ DOMAIN internalPWRs' \subseteq DOMAIN internalPWRs /\ DOMAIN fileResets' \subseteq DOMAIN fileResets
      /\ overlapped' = overlapped
  BY DEF Carries
<1>3. ASSUME NEW d \in Clients, Active(d)', request'[d].step = "reset" PROVE d # c /\ Active(d) /\ request'[d] = request[d]
  BY <1>3 DEF Carries, Active
<1>4. /\ usedUp' \subseteq usedUp \cup {p} /\ reused' \subseteq reused \cup ({p} \cap usedUp)
      /\ UNCHANGED <<usedUp, reused>> \/ p \notin usedUp \ overlapped
      /\ UNCHANGED <<usedUp, reused>> \/ (p \notin DOMAIN internalPWRs' /\ p \notin DOMAIN fileResets')
  BY DEF Uses
<1> HIDE DEF p
<1>5. reused' \subseteq overlapped
  BY <1>1, <1>4 DEF UsedOK
<1>6. ASSUME NEW q \in usedUp', q \notin overlapped
      PROVE  /\ q \notin DOMAIN internalPWRs' /\ q \notin DOMAIN fileResets'
             /\ \A d \in Clients : Active(d)' /\ request'[d].pin = q => request'[d].step # "reset"
  <2>1. CASE q \in usedUp
    <3>1. /\ q \notin DOMAIN internalPWRs' /\ q \notin DOMAIN fileResets'
          /\ \A d \in Clients : Active(d) /\ request[d].pin = q => request[d].step # "reset"
      BY <1>1, <1>2, <1>6, <2>1 DEF UsedOK
    <3> QED BY <1>3, <3>1
  <2>2. CASE q \notin usedUp
    <3>1. q = p /\ q \notin DOMAIN internalPWRs' /\ q \notin DOMAIN fileResets'
      BY <1>4, <1>6, <2>2
    <3>2. ASSUME NEW d \in Clients, Active(d)', request'[d].pin = q, request'[d].step = "reset" PROVE FALSE
      <4>1. d # c /\ Active(d) /\ request[d].pin = q
        BY <1>3, <3>2
      <4> QED BY <1>1, <1>6, <3>1, <4>1 DEF TogetherOK, p
    <3> QED BY <3>1, <3>2
  <2> QED BY <2>1, <2>2
<1> QED BY <1>2, <1>5, <1>6 DEF UsedOK

\* Nothing happens to the other users.
LEMMA OtherUsersStay ==
    ASSUME ResetsInv, NEW c \in Clients, Active(c), Carries(c),
           NEW v \in Users, v # issued[request[c].pin].user, changedBy'[v] = changedBy[v]
    PROVE  BlankOK(v)' /\ SameOK(v)'
<1>1. BlankOK(v) /\ SameOK(v)
  BY DEF ResetsInv
<1>2. /\ UNCHANGED <<conf, issued, overlapped>>
      /\ password'[v] = password[v] /\ ombi'[v] = ombi[v]
      /\ v \notin spoiled' => v \notin spoiled
  BY DEF Carries
<1>3. \A d \in Clients : Serves(d, v)' => d # c /\ Serves(d, v) /\ request'[d] = request[d]
  BY DEF Carries, Serves, Active
<1>4. \A d \in Clients : Serves(d, v) => d # c /\ Serves(d, v)' /\ request'[d] = request[d]
  BY DEF Carries, Serves, Active
<1>5. \A d \in Clients : Past(d, v)' => Past(d, v) /\ request'[d] = request[d]
  BY <1>3 DEF Past
<1>6. \A d \in Clients : Past(d, v) => Past(d, v)'
  BY <1>4 DEF Past
<1>7. Mixed(v)' <=> Mixed(v)
  BY <1>2 DEF Mixed
<1>8. OnePin(v)' <=> OnePin(v)
  BY DEF OnePin
<1>9. BlankOK(v)'
  BY <1>1, <1>2, <1>4 DEF BlankOK
<1>10. SameOK(v)'
  BY <1>1, <1>2, <1>5, <1>6, <1>7, <1>8 DEF SameOK
<1> QED BY <1>9, <1>10

\* The password of the user is what the request made it, and nobody else's.
LEMMA ChangeStep ==
    ASSUME ResetsInv, NEW c \in Clients, Active(c), Carries(c), NEW value,
           NEW u \in Users, u = issued[request[c].pin].user, Credits(c, u), password'[u] = value,
           request'[c] # NoRequest,
           value = Blank => ~conf.validate \/ request'[c].step = "set",
           request'[c].step = "ombi" => value = request[c].new
    PROVE  \A v \in Users : BlankOK(v)' /\ SameOK(v)'
<1> DEFINE p == request[c].pin
           ch == [pin |-> request[c].pin, at |-> request[c].at]
<1>1. /\ u = issued[p].user /\ p \in Pins /\ changedBy \in [Users -> SUBSET [pin : Nat, at : Nat]]
      /\ TogetherOK
  BY RequestSays DEF ResetsInv, ResetsTypeOK
<1>2. changedBy' = [changedBy EXCEPT ![u] = @ \cup {ch}] /\ ch.pin = p
  BY DEF Credits
<1>3. /\ request'[c].pin = p /\ request'[c].new = request[c].new /\ request'[c].step \in {"set", "ombi"}
      /\ UNCHANGED <<conf, issued, overlapped>>
      /\ spoiled \subseteq spoiled'
      /\ \A d \in Clients : d # c => request'[d] = request[d]
  BY DEF Carries
<1>4. password'[u] = value /\ (request'[c].step = "ombi" => value = request'[c].new)
  BY <1>3
<1> HIDE DEF ch
<1>5. changedBy'[u] = changedBy[u] \cup {ch} /\ \A v \in Users : v # u => changedBy'[v] = changedBy[v]
  BY <1>1, <1>2
<1>6. ASSUME NEW v \in Users, v # u PROVE BlankOK(v)' /\ SameOK(v)'
  BY <1>5, <1>6, OtherUsersStay
<1>7. BlankOK(u) /\ SameOK(u)
  BY <1>1 DEF ResetsInv
<1>8. Serves(c, u)' /\ Past(c, u)'
  BY <1>3 DEF Serves, Past, Active
<1> HIDE DEF p
<1>9. BlankOK(u)'
  BY <1>3, <1>4, <1>8 DEF BlankOK
<1>10. ASSUME u \notin spoiled', NEW d \in Clients, Past(d, u)', d # c
       PROVE  Past(d, u) /\ request'[d] = request[d] /\ \E x \in changedBy[u] : x.pin = request[d].pin
  <2>1. request'[d] = request[d] /\ Past(d, u)
    BY <1>3, <1>10 DEF Past, Serves, Active
  <2> QED BY <1>3, <1>7, <1>10, <2>1 DEF SameOK
<1>11. ASSUME u \notin spoiled', ~Mixed(u)', OnePin(u)', NEW d \in Clients, Past(d, u)', d # c
       PROVE  FALSE
  <2>1. Past(d, u) /\ \E x \in changedBy[u] : x.pin = request[d].pin
    BY <1>10, <1>11
  <2>2. request[d].pin = p
    BY <1>2, <1>5, <1>11, <2>1 DEF OnePin
  <2>3. p \in overlapped /\ issued[p].user = u
    BY <1>1, <1>11, <2>1, <2>2 DEF TogetherOK, Past, Serves, p
  <2> QED BY <1>3, <1>11, <2>3 DEF Mixed
<1>12. SameOK(u)'
  <2>1. ASSUME u \notin spoiled', NEW d \in Clients, Past(d, u)'
        PROVE  \E x \in changedBy'[u] : x.pin = request'[d].pin
    <3>1. CASE d = c
      BY <1>2, <1>3, <1>5, <3>1
    <3>2. CASE d # c
      BY <1>5, <1>10, <2>1, <3>2
    <3> QED BY <3>1, <3>2
  <2>2. ASSUME u \notin spoiled', ~Mixed(u)', OnePin(u)', NEW d \in Clients, Past(d, u)', request'[d].step = "ombi"
        PROVE  password'[u] = request'[d].new
    <3>1. d = c
      BY <1>11, <2>2
    <3> QED BY <1>4, <2>2, <3>1
  <2> QED BY <1>8, <2>1, <2>2 DEF SameOK
<1> QED BY <1>6, <1>9, <1>12

\* A request that was spoilt says nothing of its user any more.
LEMMA SpoilStep ==
    ASSUME ResetsInv, NEW c \in Clients, Active(c), Carries(c),
           NEW u \in Users, u = issued[request[c].pin].user, u \in spoiled',
           \A v \in Users : v # u => changedBy'[v] = changedBy[v]
    PROVE  \A v \in Users : BlankOK(v)' /\ SameOK(v)'
<1>1. ASSUME NEW v \in Users, v # u PROVE BlankOK(v)' /\ SameOK(v)'
  BY <1>1, OtherUsersStay
<1>2. BlankOK(u)' /\ SameOK(u)'
  BY DEF BlankOK, SameOK, Carries
<1> QED BY <1>1, <1>2

\* ResetPasswordAdmin, of a PIN in memory.
LEMMA AdminStep == ASSUME ResetsInv, NEW c \in Clients, ResetAdmin(c) PROVE ResetsInv'
<1> DEFINE r == request[c]
           p == r.pin
<1>0. ResetsTypeOK /\ RequestOK(c) /\ UsedOK
  BY DEF ResetsInv
<1>u. PICK u \in Users : u = issued[p].user
  BY <1>0, RequestSays DEF ResetAdmin
<1>1. /\ Active(c) /\ r.step = "reset" /\ r \in Waiting /\ p \in Pins /\ u = issued[p].user
      /\ r.at <= issued[p].exp /\ p \notin DOMAIN fileResets
      /\ UNCHANGED <<moment, conf, fileResets, pwrCaptchas, copied, ombi, overlapped, issued, known, shown,
                     lostCaptchas, captchas>>
  BY <1>0, <1>u, RequestSays DEF ResetAdmin, RequestOK, historyVars
<1>2. p \notin usedUp \ overlapped
  BY <1>0, <1>1 DEF UsedOK
<1>3. CASE /\ Changed(c, u, Blank) /\ Uses(c)
           /\ internalPWRs' = Remaining(r)
           /\ Goes(c, "set")
           /\ UNCHANGED <<spoiled, resetFailures>>
  <2>1. /\ request' \in [Clients -> {NoRequest} \cup Waiting]
        /\ \A d \in Clients : d # c => request'[d] = request[d]
        /\ request'[c] # NoRequest /\ request'[c].pin = p /\ request'[c].at = r.at
        /\ request'[c].new = r.new /\ request'[c].via = r.via /\ request'[c].step = "set"
    BY <1>0, <1>1, <1>3, GoesSays
  <2>2. /\ DOMAIN internalPWRs' \subseteq DOMAIN internalPWRs
        /\ \A q \in DOMAIN internalPWRs' : internalPWRs'[q] = internalPWRs[q]
        /\ r.via = "page" => p \notin DOMAIN internalPWRs'
    <3>1. internalPWRs' = IF r.via = "page" THEN Without(internalPWRs, {p}) ELSE internalPWRs
      BY <1>3 DEF Remaining
    <3> HIDE DEF r, p
    <3> QED BY <3>1 DEF Without, Restrict
  <2>3. /\ password' = [password EXCEPT ![u] = Blank] /\ password \in [Users -> Passwords]
        /\ Blank \in Passwords /\ ombi \in [Users -> Passwords]
    BY <1>0, <1>3, NotBlank DEF Changed, ResetsTypeOK
  <2>4. /\ password' \in [Users -> Passwords] /\ password'[u] = Blank
        /\ \A v \in Users : v # u => password'[v] = password[v]
    BY <1>1, <2>3
  <2>5. Carries(c)
    BY <1>1, <1>3, <2>1, <2>2, <2>3, <2>4 DEF Carries
  <2>6. Credits(c, u)
    BY <1>3 DEF Changed, Credits
  <2>7. Uses(c)
    BY <1>3
  <2>8. UsedOK'
    BY <1>1, <1>2, <2>2, <2>5, <2>7, UseStep
  <2>9. ResetsTypeOK' /\ TogetherOK' /\ ChangesOK' /\ CaptchasOK' /\ \A d \in Clients : RequestOK(d)'
    BY <1>1, <2>5, <2>6, <2>7, CarryStep
  <2>10. \A v \in Users : BlankOK(v)' /\ SameOK(v)'
    BY <1>1, <2>1, <2>4, <2>5, <2>6, ChangeStep
  <2> QED BY <2>8, <2>9, <2>10 DEF ResetsInv
<1>4. CASE /\ MayFail /\ Spoils(u)
           /\ IF r.via = "page" THEN Finished(c) ELSE Goes(c, "ombi")
           /\ UNCHANGED <<password, changedBy, usedUp, reused, internalPWRs>>
  <2>1. /\ request' \in [Clients -> {NoRequest} \cup Waiting]
        /\ \A d \in Clients : d # c => request'[d] = request[d]
        /\ request'[c] # NoRequest =>
              /\ request'[c].pin = p /\ request'[c].at = r.at /\ request'[c].new = r.new
              /\ request'[c].via = r.via /\ request'[c].step = "ombi"
    BY <1>0, <1>1, <1>4, GoesSays, FinishedSays
  <2>2. /\ spoiled' = spoiled \cup {u} /\ password \in [Users -> Passwords] /\ ombi \in [Users -> Passwords]
    BY <1>0, <1>4 DEF Spoils, ResetsTypeOK
  <2>3. Carries(c)
    BY <1>1, <1>4, <2>1, <2>2 DEF Carries
  <2>4. UsedOK'
    BY <1>1, <1>4, <2>3, UseStep
  <2>5. ResetsTypeOK' /\ TogetherOK' /\ ChangesOK' /\ CaptchasOK' /\ \A d \in Clients : RequestOK(d)'
    BY <1>1, <1>4, <2>3, CarryStep
  <2>6. \A v \in Users : BlankOK(v)' /\ SameOK(v)'
    BY <1>1, <1>4, <2>2, <2>3, SpoilStep
  <2> QED BY <2>4, <2>5, <2>6 DEF ResetsInv
<1> QED BY <1>u, <1>3, <1>4 DEF ResetAdmin

\* ResetPassword of Jellyfin, of a PIN it wrote.
LEMMA FileStep == ASSUME ResetsInv, NEW c \in Clients, ResetByFile(c) PROVE ResetsInv'
<1> DEFINE r == request[c]
           p == r.pin
<1>0. ResetsTypeOK /\ RequestOK(c) /\ UsedOK
  BY DEF ResetsInv
<1>u. PICK u \in Users : u = issued[p].user
  BY <1>0, RequestSays DEF ResetByFile
<1>1. /\ Active(c) /\ r.step = "file" /\ r \in Waiting /\ p \in Pins /\ p \in Nat /\ u = issued[p].user
      /\ r.at <= moment /\ r.at \in Nat /\ moment \in Nat /\ issued[p].exp \in Int
      /\ r.new = Blank => r.via = "page" /\ ~conf.validate
      /\ r.via = "link" => r.new = PIN(p)
      /\ UNCHANGED <<moment, conf, internalPWRs, pwrCaptchas, copied, ombi, overlapped, issued, known, shown,
                     lostCaptchas, captchas>>
  <2>1. Active(c) /\ r.step = "file"
    BY DEF ResetByFile
  <2>2. r \in Waiting /\ p \in Pins /\ issued[p] \in Pwr /\ u = issued[p].user
    BY <1>0, <1>u, <2>1, RequestSays
  <2>3. r.at \in Nat /\ moment \in Nat /\ p \in Nat /\ issued[p].exp \in Int
    BY <1>0, <2>2 DEF Waiting, Pwr, ResetsTypeOK, Pins
  <2>4. /\ r.at <= moment
        /\ r.new = Blank => r.via = "page" /\ ~conf.validate
        /\ r.via = "link" => r.new = PIN(p)
    BY <1>0, <2>1 DEF RequestOK
  <2>5. UNCHANGED <<moment, conf, internalPWRs, pwrCaptchas, copied, ombi, overlapped, issued, known, shown,
                    lostCaptchas, captchas>>
    BY DEF ResetByFile, historyVars
  <2> QED BY <2>1, <2>2, <2>3, <2>4, <2>5
<1>2. /\ password \in [Users -> Passwords] /\ ombi \in [Users -> Passwords]
      /\ PIN(p) \in Passwords /\ PIN(p) # Blank
  BY <1>0, <1>1, NotBlank DEF ResetsTypeOK
<1>3. CASE /\ p \in DOMAIN fileResets /\ fileResets[p].exp >= moment
           /\ fileResets' = Without(fileResets, {p})
           /\ Changed(c, u, PIN(p)) /\ Uses(c)
           /\ CASE r.via = "link" -> Goes(c, "ombi") /\ UNCHANGED spoiled
                [] r.new = Blank  -> Finished(c) /\ Spoils(u)
                [] OTHER          -> Goes(c, "set") /\ UNCHANGED spoiled
           /\ UNCHANGED resetFailures
  <2>1. /\ p \notin DOMAIN internalPWRs /\ p \notin usedUp \ overlapped
        /\ fileResets[p] = issued[p] /\ issued[p].exp >= moment
    BY <1>0, <1>3 DEF UsedOK, ResetsTypeOK, AsIssued
  <2>2. r.at <= issued[p].exp
    BY <1>1, <2>1
  <2>3. /\ DOMAIN fileResets' = DOMAIN fileResets \ {p}
        /\ \A q \in DOMAIN fileResets' : fileResets'[q] = fileResets[q]
    <3>1. fileResets' = Without(fileResets, {p})
      BY <1>3
    <3> HIDE DEF r, p
    <3> QED BY <3>1 DEF Without, Restrict
  <2>4. password' = [password EXCEPT ![u] = PIN(p)] /\ Credits(c, u)
    BY <1>3 DEF Changed, Credits
  <2>5. /\ password' \in [Users -> Passwords] /\ password'[u] = PIN(p)
        /\ \A v \in Users : v # u => password'[v] = password[v]
    BY <1>1, <1>2, <2>4
  <2>6. \/ r.via = "link" /\ Goes(c, "ombi") /\ spoiled' = spoiled
        \/ Finished(c) /\ spoiled' = spoiled \cup {u}
        \/ Goes(c, "set") /\ spoiled' = spoiled
    BY <1>3 DEF Spoils
  <2>7. /\ request' \in [Clients -> {NoRequest} \cup Waiting]
        /\ \A d \in Clients : d # c => request'[d] = request[d]
        /\ request'[c] # NoRequest =>
              /\ request'[c].pin = p /\ request'[c].at = r.at /\ request'[c].new = r.new
              /\ request'[c].via = r.via /\ request'[c].step \in {"set", "ombi"}
              /\ request'[c].step = "ombi" => r.via = "link"
        /\ request'[c] = NoRequest => u \in spoiled'
    <3>1. CASE r.via = "link" /\ Goes(c, "ombi") /\ spoiled' = spoiled
      BY <1>0, <1>1, <3>1, GoesSays
    <3>2. CASE Finished(c) /\ spoiled' = spoiled \cup {u}
      BY <1>0, <3>2, FinishedSays
    <3>3. CASE Goes(c, "set") /\ spoiled' = spoiled
      BY <1>0, <1>1, <3>3, GoesSays
    <3> QED BY <2>6, <3>1, <3>2, <3>3
  <2>8. spoiled \subseteq spoiled' /\ \A v \in Users : v # u /\ v \in spoiled' => v \in spoiled
    BY <2>6
  <2>9. Uses(c)
    BY <1>3
  <2>10. Carries(c)
    BY <1>1, <1>2, <2>2, <2>3, <2>5, <2>7, <2>8 DEF Carries
  <2>11. UsedOK'
    BY <1>1, <2>1, <2>3, <2>9, <2>10, UseStep
  <2>12. ResetsTypeOK' /\ TogetherOK' /\ ChangesOK' /\ CaptchasOK' /\ \A d \in Clients : RequestOK(d)'
    BY <1>1, <2>2, <2>4, <2>9, <2>10, CarryStep
  <2>13. \A v \in Users : BlankOK(v)' /\ SameOK(v)'
    <3>1. CASE request'[c] # NoRequest
      BY <1>1, <1>2, <2>4, <2>5, <2>7, <2>10, <3>1, ChangeStep
    <3>2. CASE request'[c] = NoRequest
      <4>1. \A v \in Users : v # u => changedBy'[v] = changedBy[v]
        BY <1>0, <1>1, <2>4 DEF Credits, ResetsTypeOK
      <4> QED BY <1>1, <2>7, <2>10, <3>2, <4>1, SpoilStep
    <3> QED BY <3>1, <3>2
  <2> QED BY <2>11, <2>12, <2>13 DEF ResetsInv
<1>4. CASE Finished(c) /\ UNCHANGED <<fileResets, password, changedBy, usedUp, reused, spoiled>>
  <2>1. /\ request' \in [Clients -> {NoRequest} \cup Waiting]
        /\ \A d \in Clients : d # c => request'[d] = request[d]
        /\ request'[c] = NoRequest
    BY <1>0, <1>4, FinishedSays
  <2>2. Carries(c)
    BY <1>1, <1>2, <1>4, <2>1 DEF Carries
  <2>3. UsedOK'
    BY <1>1, <1>4, <2>2, UseStep
  <2>4. ResetsTypeOK' /\ TogetherOK' /\ ChangesOK' /\ CaptchasOK' /\ \A d \in Clients : RequestOK(d)'
    BY <1>1, <1>4, <2>2, CarryStep
  <2>5. ASSUME NEW v \in Users PROVE BlankOK(v)' /\ SameOK(v)'
    <3>1. CASE v # u
      BY <1>1, <1>4, <2>2, <3>1, OtherUsersStay
    <3>2. CASE v = u
      <4>1. BlankOK(u) /\ SameOK(u)
        BY <1>1 DEF ResetsInv
      <4>2. UNCHANGED <<conf, password, ombi, changedBy, spoiled, overlapped, issued>>
        BY <1>1, <1>4
      <4> HIDE DEF p
      <4>3. \A d \in Clients : Serves(d, u) /\ request[d].step = "set" =>
                                   Serves(d, u)' /\ request'[d] = request[d]
        BY <1>1, <2>1, <4>2 DEF Serves, Active
      <4>4. \A d \in Clients : (Past(d, u)' <=> Past(d, u)) /\ (Past(d, u) => request'[d] = request[d])
        BY <1>1, <2>1, <4>2 DEF Past, Serves, Active
      <4>5. (Mixed(u)' <=> Mixed(u)) /\ (OnePin(u)' <=> OnePin(u))
        BY <4>2 DEF Mixed, OnePin
      <4>6. BlankOK(u)'
        BY <4>1, <4>2, <4>3 DEF BlankOK
      <4>7. SameOK(u)'
        BY <4>1, <4>2, <4>4, <4>5 DEF SameOK
      <4> QED BY <3>2, <4>6, <4>7
    <3> QED BY <3>1, <3>2
  <2> QED BY <2>3, <2>4, <2>5 DEF ResetsInv
<1> QED BY <1>u, <1>3, <1>4 DEF ResetByFile

\* SetPassword: the user has the password that was typed.
LEMMA SetStep == ASSUME ResetsInv, NEW c \in Clients, SetPassword(c) PROVE ResetsInv'
<1> DEFINE r == request[c]
           p == r.pin
<1>0. ResetsTypeOK /\ RequestOK(c)
  BY DEF ResetsInv
<1>u. PICK u \in Users : u = issued[p].user
  BY <1>0, RequestSays DEF SetPassword
<1>1. /\ Active(c) /\ r.step = "set" /\ r \in Waiting /\ r.new \in Passwords
      /\ r.at <= issued[p].exp
      /\ r.new = Blank => ~conf.validate
      /\ UNCHANGED <<moment, conf, internalPWRs, fileResets, pwrCaptchas, copied, ombi, usedUp, reused,
                     overlapped, issued, known, shown, lostCaptchas, captchas>>
  <2>1. Active(c) /\ r.step = "set"
    BY DEF SetPassword
  <2>2. r \in Waiting
    BY <1>0, <2>1, RequestSays
  <2>3. r.new \in Passwords
    BY <2>2 DEF Waiting
  <2>4. r.at <= issued[p].exp /\ (r.new = Blank => ~conf.validate)
    BY <1>0, <2>1 DEF RequestOK
  <2>5. UNCHANGED <<moment, conf, internalPWRs, fileResets, pwrCaptchas, copied, ombi, usedUp, reused,
                    overlapped, issued, known, shown, lostCaptchas, captchas>>
    BY DEF SetPassword, historyVars
  <2> QED BY <2>1, <2>2, <2>3, <2>4, <2>5
<1>2. password \in [Users -> Passwords] /\ ombi \in [Users -> Passwords]
  BY <1>0 DEF ResetsTypeOK
<1>3. CASE Changed(c, u, r.new) /\ Goes(c, "ombi") /\ UNCHANGED <<spoiled, resetFailures>>
  <2>1. /\ request' \in [Clients -> {NoRequest} \cup Waiting]
        /\ \A d \in Clients : d # c => request'[d] = request[d]
        /\ request'[c] # NoRequest /\ request'[c].pin = p /\ request'[c].at = r.at
        /\ request'[c].new = r.new /\ request'[c].via = r.via /\ request'[c].step = "ombi"
    BY <1>0, <1>1, <1>3, GoesSays
  <2>2. password' = [password EXCEPT ![u] = r.new] /\ Credits(c, u)
    BY <1>3 DEF Changed, Credits
  <2>3. /\ password' \in [Users -> Passwords] /\ password'[u] = r.new
        /\ \A v \in Users : v # u => password'[v] = password[v]
    BY <1>1, <1>2, <2>2
  <2>4. Carries(c)
    BY <1>u, <1>1, <1>2, <1>3, <2>1, <2>3 DEF Carries
  <2>5. UsedOK'
    BY <1>1, <2>4, UseStep
  <2>6. ResetsTypeOK' /\ TogetherOK' /\ ChangesOK' /\ CaptchasOK' /\ \A d \in Clients : RequestOK(d)'
    BY <1>u, <1>1, <2>2, <2>4, CarryStep
  <2>7. \A v \in Users : BlankOK(v)' /\ SameOK(v)'
    BY <1>u, <1>1, <2>1, <2>2, <2>3, <2>4, ChangeStep
  <2> QED BY <2>5, <2>6, <2>7 DEF ResetsInv
<1>4. CASE /\ MayFail /\ Spoils(u)
           /\ IF r.via = "page" THEN Finished(c) ELSE Goes(c, "ombi")
           /\ UNCHANGED <<password, changedBy>>
  <2>1. /\ request' \in [Clients -> {NoRequest} \cup Waiting]
        /\ \A d \in Clients : d # c => request'[d] = request[d]
        /\ request'[c] # NoRequest =>
              /\ request'[c].pin = p /\ request'[c].at = r.at /\ request'[c].new = r.new
              /\ request'[c].via = r.via /\ request'[c].step = "ombi"
    BY <1>0, <1>1, <1>4, GoesSays, FinishedSays
  <2>2. spoiled' = spoiled \cup {u}
    BY <1>4 DEF Spoils
  <2>3. Carries(c)
    BY <1>u, <1>1, <1>2, <1>4, <2>1, <2>2 DEF Carries
  <2>4. UsedOK'
    BY <1>1, <2>3, UseStep
  <2>5. ResetsTypeOK' /\ TogetherOK' /\ ChangesOK' /\ CaptchasOK' /\ \A d \in Clients : RequestOK(d)'
    BY <1>1, <1>4, <2>3, CarryStep
  <2>6. \A v \in Users : BlankOK(v)' /\ SameOK(v)'
    BY <1>u, <1>1, <1>4, <2>2, <2>3, SpoilStep
  <2> QED BY <2>4, <2>5, <2>6 DEF ResetsInv
<1> QED BY <1>u, <1>3, <1>4 DEF SetPassword

\* The password of Ombi follows the one of Jellyfin.
LEMMA OmbiStep == ASSUME ResetsInv, NEW c \in Clients, SetOmbi(c) PROVE ResetsInv'
<1> DEFINE r == request[c]
           p == r.pin
<1>0. ResetsTypeOK /\ RequestOK(c)
  BY DEF ResetsInv
<1>u. PICK u \in Users : u = issued[p].user
  BY <1>0, RequestSays DEF SetOmbi
<1>1. /\ Active(c) /\ r.step = "ombi" /\ r \in Waiting /\ r.new \in Passwords
      /\ UNCHANGED <<moment, conf, internalPWRs, fileResets, pwrCaptchas, copied, password, changedBy, usedUp,
                     reused, overlapped, issued, known, shown, lostCaptchas, captchas>>
  <2>1. Active(c) /\ r.step = "ombi"
    BY DEF SetOmbi
  <2>2. r \in Waiting
    BY <1>0, <2>1, RequestSays
  <2>3. r.new \in Passwords
    BY <2>2 DEF Waiting
  <2>4. UNCHANGED <<moment, conf, internalPWRs, fileResets, pwrCaptchas, copied, password, changedBy, usedUp,
                    reused, overlapped, issued, known, shown, lostCaptchas, captchas>>
    BY DEF SetOmbi, historyVars, useVars
  <2> QED BY <2>1, <2>2, <2>3, <2>4
<1>2. password \in [Users -> Passwords] /\ ombi \in [Users -> Passwords]
  BY <1>0 DEF ResetsTypeOK
<1>3. /\ request' \in [Clients -> {NoRequest} \cup Waiting]
      /\ \A d \in Clients : d # c => request'[d] = request[d]
      /\ request'[c] = NoRequest
  BY <1>0, FinishedSays DEF SetOmbi
<1>4. \/ ombi' = [ombi EXCEPT ![u] = r.new] /\ spoiled' = spoiled
      \/ spoiled' = spoiled \cup {u} /\ ombi' = ombi
  BY <1>u DEF SetOmbi, Spoils
<1>5. /\ ombi' \in [Users -> Passwords] /\ \A v \in Users : v # u => ombi'[v] = ombi[v]
      /\ u \in spoiled' \/ (ombi'[u] = r.new /\ spoiled' = spoiled)
      /\ spoiled \subseteq spoiled' /\ \A v \in Users : v # u /\ v \in spoiled' => v \in spoiled
  BY <1>1, <1>2, <1>4
<1>6. Carries(c)
  BY <1>u, <1>1, <1>2, <1>3, <1>5 DEF Carries
<1>7. UsedOK'
  BY <1>1, <1>6, UseStep
<1>8. ResetsTypeOK' /\ TogetherOK' /\ ChangesOK' /\ CaptchasOK' /\ \A d \in Clients : RequestOK(d)'
  BY <1>1, <1>6, CarryStep
<1>9. ASSUME NEW v \in Users, v # u PROVE BlankOK(v)' /\ SameOK(v)'
  BY <1>u, <1>1, <1>6, <1>9, OtherUsersStay
<1>10. CASE u \in spoiled'
  <2>1. \A v \in Users : BlankOK(v)' /\ SameOK(v)'
    BY <1>u, <1>1, <1>6, <1>10, SpoilStep
  <2> QED BY <1>7, <1>8, <2>1 DEF ResetsInv
<1>11. CASE ombi'[u] = r.new /\ spoiled' = spoiled
  <2>1. BlankOK(u) /\ SameOK(u) /\ Past(c, u)
    BY <1>u, <1>1 DEF ResetsInv, Past, Serves
  <2>2. UNCHANGED <<conf, password, changedBy, overlapped, issued>>
    BY <1>1
  <2> HIDE DEF p
  <2>3. \A d \in Clients : Serves(d, u) /\ request[d].step = "set" =>
                               Serves(d, u)' /\ request'[d] = request[d]
    BY <1>1, <1>3, <2>2 DEF Serves, Active
  <2>4. \A d \in Clients : Past(d, u)' => Past(d, u) /\ request'[d] = request[d]
    BY <1>3, <2>2 DEF Past, Serves, Active
  <2>5. (Mixed(u)' <=> Mixed(u)) /\ (OnePin(u)' <=> OnePin(u))
    BY <2>2 DEF Mixed, OnePin
  <2>6. BlankOK(u)'
    BY <1>11, <2>1, <2>2, <2>3 DEF BlankOK
  <2>7. SameOK(u)'
    BY <1>1, <1>11, <2>1, <2>2, <2>4, <2>5 DEF SameOK
  <2>8. \A v \in Users : BlankOK(v)' /\ SameOK(v)'
    BY <1>9, <2>6, <2>7
  <2> QED BY <1>7, <1>8, <2>8 DEF ResetsInv
<1> QED BY <1>5, <1>10, <1>11

\* Every step keeps what it needs.
LEMMA ResetsStep == ResetsInv /\ ResetsNext => ResetsInv'
<1> SUFFICES ASSUME ResetsInv, ResetsNext PROVE ResetsInv'
  OBVIOUS
<1>1. CASE \/ \E us \in UserLists : AdminPasswordReset(us)
           \/ \E u \in Users : ResetMyPassword(u) \/ FileReset(u)
  BY <1>1, IssuingOK
<1>2. CASE (\E p \in known : GenCaptcha(p)) \/ SweepCaptchas \/ MomentPasses
  BY <1>2, CaptchaStep
<1>3. ASSUME NEW c \in Clients, NEW p \in known,
             \/ OpenLink(c, p)
             \/ \E new \in {Blank, Chosen(p)} : \E told \in 0..captchas : ResetSetPassword(c, p, new, told)
      PROVE  ResetsInv'
  BY <1>3, BeginningOK
<1>4. ASSUME NEW c \in Clients, ResetAdmin(c) \/ ResetByFile(c) \/ SetPassword(c) \/ SetOmbi(c)
      PROVE  ResetsInv'
  BY <1>4, AdminStep, FileStep, SetStep, OmbiStep
<1>5. CASE RestartResets
  BY <1>5, ForgetStep
<1> QED BY <1>1, <1>2, <1>3, <1>4, <1>5 DEF ResetsNext

\* It holds before anything is asked.
LEMMA ResetsAtFirst == ResetsInit => ResetsInv
<1> SUFFICES ASSUME ResetsInit PROVE ResetsInv
  OBVIOUS
<1>1. /\ moment = 0 /\ conf \in ResetSettings
      /\ internalPWRs = <<>> /\ fileResets = <<>> /\ pwrCaptchas = <<>> /\ copied = {}
      /\ password = [u \in Users |-> Old] /\ ombi = [u \in Users |-> Old]
      /\ request = [c \in Clients |-> NoRequest]
      /\ issued = <<>> /\ known = {} /\ changedBy = [u \in Users |-> {}]
      /\ usedUp = {} /\ reused = {} /\ overlapped = {} /\ spoiled = {} /\ shown = <<>> /\ captchas = 0
  BY DEF ResetsInit, NotSweeping
<1>2. DOMAIN internalPWRs = {} /\ DOMAIN fileResets = {} /\ DOMAIN shown = {} /\ issued \in Seq(Pwr)
  BY <1>1
<1>3. \A c \in Clients : ~Active(c)
  BY <1>1 DEF Active
<1>4. \A u \in Users : password[u] = Old /\ ombi[u] = Old /\ changedBy[u] = {} /\ Old # Blank
  BY <1>1, NotBlank
<1>5. ResetsTypeOK
  BY <1>1, <1>2, NotBlank DEF ResetsTypeOK, AsIssued
<1>6. TogetherOK /\ UsedOK /\ ChangesOK /\ CaptchasOK
  BY <1>1, <1>2, <1>3, <1>4 DEF TogetherOK, UsedOK, ChangesOK, CaptchasOK, KeptCaptchas
<1>7. \A c \in Clients : RequestOK(c)
  BY <1>3 DEF RequestOK
<1>8. \A u \in Users : BlankOK(u) /\ SameOK(u)
  BY <1>3, <1>4 DEF BlankOK, SameOK, Past, Serves
<1> QED BY <1>5, <1>6, <1>7, <1>8 DEF ResetsInv

\* Nor does a step of another part break it.
LEMMA ResetsRest == ASSUME ResetsInv, UNCHANGED resetVars PROVE ResetsInv'
<1>1. UNCHANGED <<moment, conf, internalPWRs, fileResets, pwrCaptchas, copied, password, ombi, request,
                  useVars, overlapped, spoiled, issued, known, shown, lostCaptchas, captchas>>
  BY DEF resetVars, useVars
<1>2. moment \in Nat /\ captchas \in Nat /\ moment <= moment
  BY DEF ResetsInv, ResetsTypeOK
<1>3. CaptchasOK'
  BY <1>1 DEF ResetsInv, CaptchasOK, KeptCaptchas
<1> QED BY <1>1, <1>2, <1>3, RequestsStay DEF ResetsInv

\* Whatever users, clients, administrators and Jellyfin do in whatever order, and however often
\* the process is started: a password changes only by a PIN of its user that was good when the
\* request found it, a PIN of the page is used once unless two requests overlap, a reset that was
\* carried through leaves no blank password and the same one at Ombi, and a captcha can be
\* answered until it is old (ResetSetPassword, api.go:107; clearPWRCaptchas, housekeeping-d.go:84).
THEOREM PasswordsByPIN == Spec => []ResetsByPIN
<1> DEFINE Inv == topic = "resets" => ResetsInv
<1>1. Init => Inv
  BY ResetsAtFirst DEF Init
<1>2. Inv /\ [Next]_vars => Inv'
  <2> SUFFICES ASSUME Inv, [Next]_vars PROVE Inv'
    OBVIOUS
  <2>1. CASE Resets
    BY <2>1, ResetsStep DEF Resets
  <2>2. CASE SignIns \/ Referring \/ Changes \/ Notices
    BY <2>2 DEF SignIns, Referring, Changes, Notices
  <2>3. CASE UNCHANGED vars
    BY <2>3, ResetsRest DEF vars
  <2>4. QED
    BY <2>1, <2>2, <2>3 DEF Next
<1>3. Inv => ResetsByPIN
  BY ResetsSafe DEF ResetsByPIN
<1>4. QED
  BY <1>1, <1>2, <1>3, PTL DEF Spec


-----------------------------------------------------------------------------
(* Referrals and profiles.                                                 *)

Ticket == [owner : Referrers \cup {NoOwner}, byExpiry : BOOLEAN, uses : Int, days : Int, exp : Int]
Profile == [default : BOOLEAN, template : Nat]
Ask == [user : Referrers, code : Nat, inv : Ticket]

\* Codes are given once; a template belongs to nobody.
ProfileRows(f) ==
    \A n \in DOMAIN f :
        /\ f[n] \in Profile /\ f[n].template <= lastCode
        /\ f[n].template \in DOMAIN referrals => referrals[f[n].template].owner = NoOwner

ReferralsTypeOK ==
    /\ today \in Int /\ lastCode \in Nat
    /\ \A c \in DOMAIN referrals : referrals[c] \in Ticket /\ c \in 1..lastCode
    /\ ProfileRows(profiles) /\ ProfileRows(setting.rows)
    /\ setting = [name |-> setting.name, rows |-> setting.rows]
    /\ members \subseteq Referrers /\ DOMAIN rowKey \subseteq members
    /\ asker \in [Askers -> {NotAsking} \cup Ask]

Asks(a, u) == asker[a] # NotAsking /\ asker[a].user = u

\* Who asks is a user, and what is to be replaced is theirs, if it is still there.
AskerOK(a) ==
    asker[a] # NotAsking =>
        /\ asker[a].user \in members /\ asker[a].code <= lastCode
        /\ asker[a].code \in DOMAIN referrals => asker[a].code \in Own(asker[a].user)

\* What was read is what there is.
StillSo(a, u) ==
    /\ u \notin withdrawn
    /\ asker[a].code # NoCode => asker[a].code \in Own(u) /\ referrals[asker[a].code] = asker[a].inv
    /\ asker[a].code = NoCode => Own(u) = {}

OwnOK(u) ==
    /\ \A c, d \in Own(u) : c = d
    /\ u \in promised => Own(u) # {} /\ \A c \in Own(u) : ~referrals[c].byExpiry
    /\ u \in withdrawn => Own(u) = {} /\ (u \in DOMAIN rowKey => rowKey[u] = NoCode)

UserOK(u) ==
    /\ u \notin members => Own(u) = {} /\ u \notin promised /\ u \notin withdrawn
    /\ u \notin raced =>
          /\ OwnOK(u)
          /\ \A a \in Askers : Asks(a, u) => StillSo(a, u)
          /\ \A a, b \in Askers : Asks(a, u) /\ Asks(b, u) => a = b

\* While the default is being set, rows are as they were read, or were written again.
SettingOK ==
    ~tangled =>
        /\ setting = Done => \A n, m \in DOMAIN profiles : profiles[n].default /\ profiles[m].default => n = m
        /\ setting # Done =>
              /\ \A n \in DOMAIN setting.rows : n \in DOMAIN profiles /\ profiles[n] = setting.rows[n]
              /\ \A n \in DOMAIN profiles \ DOMAIN setting.rows : profiles[n].default => n = setting.name
        /\ \A n, m \in DOMAIN profiles : profiles[n].template # NoCode =>
              /\ profiles[n].template \in DOMAIN referrals
              /\ profiles[n].template = profiles[m].template => n = m

ReferralsInv ==
    /\ ReferralsTypeOK /\ SettingOK
    /\ \A a \in Askers : AskerOK(a)
    /\ \A u \in Referrers : UserOK(u)

\* A referral that is made.
LEMMA ReferralSays ==
    ASSUME today \in Int, NEW o \in Referrers \cup {NoOwner}, NEW byExpiry \in BOOLEAN, NEW from,
           from.uses \in Int, from.days \in Int
    PROVE  LET r == Referral(o, byExpiry, from)
           IN  r \in Ticket /\ r.owner = o /\ r.byExpiry = byExpiry
<1> DEFINE until == Until(byExpiry, from.days)
<1>1. until \in Int
  BY ReferralsAssumption DEF Until
<1>2. until - today \in Int
  BY <1>1
<1> HIDE DEF until
<1>3. Referral(o, byExpiry, from) =
          [owner |-> o, byExpiry |-> byExpiry, uses |-> from.uses, days |-> until - today, exp |-> until]
  BY DEF Referral, until
<1> QED BY <1>1, <1>2, <1>3 DEF Ticket

\* Invites and templates have what a referral is made from.
LEMMA SourcesSay ==
    ASSUME ReferralsTypeOK, NEW from \in Sources \cup Templates
    PROVE  from.uses \in Int /\ from.days \in Int
<1>1. CASE from \in Sources
  BY <1>1, ReferralsAssumption
<1>2. CASE from \in Templates
  <2>1. from \in Ticket
    BY <1>2 DEF Templates, ReferralsTypeOK
  <2> QED BY <2>1 DEF Ticket
<1> QED BY <1>1, <1>2

\* Referrals come with new codes, and keep their owners.
Moves ==
    /\ lastCode' \in Nat /\ lastCode <= lastCode'
    /\ \A c \in DOMAIN referrals' :
          /\ referrals'[c] \in Ticket /\ c \in 1..lastCode'
          /\ c \in DOMAIN referrals => referrals'[c].owner = referrals[c].owner
          /\ c \notin DOMAIN referrals => c > lastCode

RowsAfter(f) ==
    \A n \in DOMAIN f :
        /\ f[n] \in Profile /\ f[n].template <= lastCode'
        /\ f[n].template \in DOMAIN referrals' => referrals'[f[n].template].owner = NoOwner

\* Templates are still nobody's.
LEMMA RowsStay ==
    ASSUME ReferralsTypeOK, Moves, NEW f, ProfileRows(f)
    PROVE  RowsAfter(f)
<1>1. lastCode \in Nat
  BY DEF ReferralsTypeOK
<1>2. ASSUME NEW n \in DOMAIN f
      PROVE  /\ f[n] \in Profile /\ f[n].template <= lastCode'
             /\ f[n].template \in DOMAIN referrals' => referrals'[f[n].template].owner = NoOwner
  <2>1. f[n] \in Profile /\ f[n].template \in Nat /\ f[n].template <= lastCode
    BY DEF ProfileRows, Profile
  <2>2. f[n].template <= lastCode'
    BY <1>1, <2>1 DEF Moves
  <2>3. f[n].template \in DOMAIN referrals' => f[n].template \in DOMAIN referrals
    BY <1>1, <2>1 DEF Moves
  <2>4. f[n].template \in DOMAIN referrals => referrals[f[n].template].owner = NoOwner
    BY DEF ProfileRows
  <2>5. f[n].template \in DOMAIN referrals' => referrals'[f[n].template].owner = NoOwner
    BY <2>3, <2>4 DEF Moves
  <2> QED BY <2>1, <2>2, <2>5
<1> QED BY <1>2 DEF RowsAfter

\* What an asker has read is still theirs.
LEMMA AskerStays ==
    ASSUME ReferralsTypeOK, Moves, NEW a \in Askers, AskerOK(a), asker'[a] = asker[a], members \subseteq members'
    PROVE  AskerOK(a)'
<1>1. CASE asker[a] = NotAsking
  BY <1>1 DEF AskerOK
<1>2. CASE asker[a] # NotAsking
  <2> DEFINE x == asker[a].code
             u == asker[a].user
  <2>1. lastCode \in Nat /\ x \in Nat
    BY <1>2 DEF ReferralsTypeOK, Ask
  <2>2. u \in members /\ x <= lastCode /\ (x \in DOMAIN referrals => referrals[x].owner = u)
    BY <1>2 DEF AskerOK, Own
  <2>3. x <= lastCode' /\ (x \in DOMAIN referrals' => x \in DOMAIN referrals)
    BY <2>1, <2>2 DEF Moves
  <2>4. x \in DOMAIN referrals' => referrals'[x].owner = u
    BY <2>2, <2>3 DEF Moves
  <2> QED BY <2>2, <2>3, <2>4 DEF AskerOK, Own
<1> QED BY <1>1, <1>2

\* Nothing happens to a user.
Untouched(u) ==
    /\ \A c \in DOMAIN referrals' : referrals'[c].owner = u => c \in Own(u) /\ referrals'[c] = referrals[c]
    /\ \A c \in Own(u) : c \in DOMAIN referrals' /\ referrals'[c] = referrals[c]
    /\ u \in members => u \in members'
    /\ u \in promised' => u \in promised
    /\ u \in withdrawn' <=> u \in withdrawn
    /\ u \in raced => u \in raced'
    /\ u \in DOMAIN rowKey' /\ rowKey'[u] # NoCode => u \in DOMAIN rowKey /\ rowKey'[u] = rowKey[u]
    /\ \A a \in Askers : asker'[a] # NotAsking /\ asker'[a].user = u => asker'[a] = asker[a]

LEMMA OwnerStays ==
    ASSUME NEW u \in Referrers, UserOK(u), Untouched(u)
    PROVE  UserOK(u)'
<1>1. Own(u)' = Own(u) /\ \A c \in Own(u) : referrals'[c] = referrals[c]
  BY DEF Own, Untouched
<1>2. u \notin members' => u \notin members /\ Own(u)' = {} /\ u \notin promised' /\ u \notin withdrawn'
  BY <1>1 DEF Untouched, UserOK
<1>3. ASSUME u \notin raced'
      PROVE  /\ OwnOK(u)'
             /\ \A a \in Askers : Asks(a, u)' => StillSo(a, u)'
             /\ \A a, b \in Askers : Asks(a, u)' /\ Asks(b, u)' => a = b
  <2>1. /\ OwnOK(u)
        /\ \A a \in Askers : Asks(a, u) => StillSo(a, u)
        /\ \A a, b \in Askers : Asks(a, u) /\ Asks(b, u) => a = b
    BY <1>3 DEF UserOK, Untouched
  <2>2. OwnOK(u)'
    BY <1>1, <2>1 DEF OwnOK, Untouched
  <2>3. \A a \in Askers : Asks(a, u)' => Asks(a, u) /\ asker'[a] = asker[a]
    BY DEF Asks, Untouched
  <2>4. ASSUME NEW a \in Askers, Asks(a, u)' PROVE StillSo(a, u)'
    <3>1. StillSo(a, u) /\ asker'[a] = asker[a]
      BY <2>1, <2>3, <2>4
    <3> QED BY <1>1, <3>1 DEF StillSo, Untouched
  <2> QED BY <2>1, <2>2, <2>3, <2>4
<1> QED BY <1>2, <1>3 DEF UserOK

\* A user whose referral changes is in a race with whoever asks for it.
LEMMA UserTouched ==
    ASSUME NEW u \in Referrers, u \in members',
           \A a \in Askers : asker'[a] # NotAsking /\ asker'[a].user = u => u \in raced',
           u \notin raced' => OwnOK(u)'
    PROVE  UserOK(u)'
  BY DEF UserOK, Asks

\* The profiles are left alone, and so are their templates.
LEMMA SettingStays ==
    ASSUME ReferralsTypeOK, SettingOK, UNCHANGED <<profiles, setting, tangled>>,
           \A c \in DOMAIN referrals : referrals[c].owner = NoOwner => c \in DOMAIN referrals'
    PROVE  SettingOK'
<1>1. \A n \in DOMAIN profiles : profiles[n].template \in DOMAIN referrals => profiles[n].template \in DOMAIN referrals'
  BY DEF ReferralsTypeOK, ProfileRows
<1> QED BY <1>1 DEF SettingOK

\* A step of one user, or of the clock.
LEMMA OwnerStep ==
    ASSUME ReferralsInv, Moves, UNCHANGED <<profiles, setting, tangled>>, today' \in Int,
           \A c \in DOMAIN referrals : referrals[c].owner = NoOwner => c \in DOMAIN referrals',
           members \subseteq members', members' \subseteq Referrers, DOMAIN rowKey' \subseteq members',
           asker' \in [Askers -> {NotAsking} \cup Ask],
           \A a \in Askers : asker'[a] = asker[a] \/ AskerOK(a)',
           \A u \in Referrers : Untouched(u) \/ UserOK(u)'
    PROVE  ReferralsInv'
<1>1. /\ ReferralsTypeOK /\ SettingOK /\ ProfileRows(profiles) /\ ProfileRows(setting.rows)
      /\ setting = [name |-> setting.name, rows |-> setting.rows]
  BY DEF ReferralsInv, ReferralsTypeOK
<1>2. RowsAfter(profiles) /\ RowsAfter(setting.rows)
  BY <1>1, RowsStay
<1>3. ProfileRows(profiles)' /\ ProfileRows(setting.rows)'
  BY <1>2 DEF RowsAfter, ProfileRows
<1>4. ReferralsTypeOK'
  BY <1>1, <1>3 DEF ReferralsTypeOK, Moves
<1>5. SettingOK'
  BY <1>1, SettingStays
<1>6. ASSUME NEW a \in Askers PROVE AskerOK(a)'
  BY <1>1, AskerStays DEF ReferralsInv
<1>7. ASSUME NEW u \in Referrers PROVE UserOK(u)'
  BY OwnerStays DEF ReferralsInv
<1> QED BY <1>4, <1>5, <1>6, <1>7 DEF ReferralsInv

\* A step of the administrator with profiles touches templates only.
LEMMA ProfileStep ==
    ASSUME ReferralsInv, Moves, UNCHANGED <<today, rowKey, members, asker, promised, withdrawn, raced>>,
           \A c \in DOMAIN referrals' : referrals'[c].owner # NoOwner =>
               c \in DOMAIN referrals /\ referrals'[c] = referrals[c],
           \A c \in DOMAIN referrals : referrals[c].owner # NoOwner =>
               c \in DOMAIN referrals' /\ referrals'[c] = referrals[c],
           RowsAfter(profiles'), RowsAfter(setting'.rows),
           setting' = [name |-> setting'.name, rows |-> setting'.rows], SettingOK'
    PROVE  ReferralsInv'
<1>1. ReferralsTypeOK /\ NoOwner \notin Referrers
  BY ReferralsAssumption DEF ReferralsInv
<1>2. ProfileRows(profiles)' /\ ProfileRows(setting.rows)'
  BY DEF RowsAfter, ProfileRows
<1>3. ReferralsTypeOK'
  BY <1>1, <1>2 DEF ReferralsTypeOK, Moves
<1>4. ASSUME NEW a \in Askers PROVE AskerOK(a)'
  BY <1>1, AskerStays DEF ReferralsInv
<1>5. ASSUME NEW u \in Referrers PROVE UserOK(u)'
  <2>1. Untouched(u)
    BY <1>1 DEF Untouched, Own
  <2> QED BY <2>1, OwnerStays DEF ReferralsInv
<1> QED BY <1>3, <1>4, <1>5 DEF ReferralsInv

-----------------------------------------------------------------------------
(* Profiles change.                                                        *)

\* What a row that is written or left says.
LEMMA RowKept ==
    ASSUME NEW f, NEW g, RowsAfter(f), \A n \in DOMAIN g : \E m \in DOMAIN f : g[n] = f[m]
    PROVE  RowsAfter(g)
  BY DEF RowsAfter

\* Referrals are as they were.
LEMMA MovesNot == ASSUME ReferralsTypeOK, UNCHANGED <<referrals, lastCode>> PROVE Moves
  BY DEF ReferralsTypeOK, Moves

\* Rows are made, deleted and renamed.
LEMMA RowsStep ==
    ASSUME ReferralsInv, NEW n \in Names, NEW m \in Names,
           CreateProfile(n) \/ DeleteProfile(n) \/ ReplaceRawProfile(n, m)
    PROVE  ReferralsInv'
<1>1. /\ ReferralsTypeOK /\ SettingOK /\ ProfileRows(profiles) /\ ProfileRows(setting.rows)
      /\ setting = [name |-> setting.name, rows |-> setting.rows]
  BY DEF ReferralsInv, ReferralsTypeOK
<1>2. /\ UNCHANGED <<today, setting, rowKey, members, asker, promised, withdrawn, raced, referrals, lastCode>>
      /\ tangled' = (tangled \/ setting # Done)
  BY DEF CreateProfile, DeleteProfile, ReplaceRawProfile, profileOnly, Tangles
<1>3. Moves /\ RowsAfter(profiles) /\ RowsAfter(setting.rows)
  BY <1>1, <1>2, MovesNot, RowsStay
<1>4. RowsAfter(profiles') /\ SettingOK'
  <2>1. CASE CreateProfile(n)
    <3> DEFINE new == [default |-> FALSE, template |-> NoCode]
    <3>1. /\ DOMAIN profiles' = DOMAIN profiles \cup {n} /\ profiles'[n] = new
          /\ \A k \in DOMAIN profiles : k # n => profiles'[k] = profiles[k]
      BY <2>1 DEF CreateProfile, With
    <3>2. /\ new \in Profile /\ ~new.default /\ new.template = 0 /\ 0 \notin DOMAIN referrals
          /\ new.template <= lastCode' /\ new.template \notin DOMAIN referrals'
      <4>1. 0 \notin DOMAIN referrals /\ lastCode \in Nat
        BY <1>1 DEF ReferralsTypeOK
      <4> QED BY <1>2, <4>1 DEF Profile, NoCode
    <3> HIDE DEF new
    <3>3. RowsAfter(profiles')
      BY <1>3, <3>1, <3>2 DEF RowsAfter
    <3>4. SettingOK'
      BY <1>1, <1>2, <3>1, <3>2 DEF SettingOK, NoCode
    <3> QED BY <3>3, <3>4
  <2>2. CASE DeleteProfile(n)
    <3>1. /\ DOMAIN profiles' = DOMAIN profiles \ {n} /\ \A k \in DOMAIN profiles' : profiles'[k] = profiles[k]
      BY <2>2 DEF DeleteProfile, Without, Restrict
    <3>2. RowsAfter(profiles')
      BY <1>3, <3>1 DEF RowsAfter
    <3>3. SettingOK'
      BY <1>1, <1>2, <3>1 DEF SettingOK
    <3> QED BY <3>2, <3>3
  <2>3. CASE ReplaceRawProfile(n, m)
    <3>1. /\ n \in DOMAIN profiles /\ n # m /\ DOMAIN profiles' = (DOMAIN profiles \cup {m}) \ {n}
          /\ profiles'[m] = profiles[n]
          /\ \A k \in DOMAIN profiles' : k # m => profiles'[k] = profiles[k]
      BY <2>3 DEF ReplaceRawProfile, With, Without, Restrict
    <3>2. RowsAfter(profiles')
      BY <1>3, <3>1 DEF RowsAfter
    <3>3. SettingOK'
      <4>1. CASE tangled'
        BY <4>1 DEF SettingOK
      <4>2. CASE ~tangled'
        <5>1. ~tangled /\ setting = Done /\ setting' = Done /\ referrals' = referrals
          BY <1>2, <4>2
        <5> DEFINE old(k) == IF k = m THEN n ELSE k
        <5>2. \A k \in DOMAIN profiles' : old(k) \in DOMAIN profiles /\ profiles'[k] = profiles[old(k)]
          BY <3>1
        <5>3. \A k, l \in DOMAIN profiles' : old(k) = old(l) => k = l
          BY <3>1
        <5> HIDE DEF old
        <5>4. /\ \A k, l \in DOMAIN profiles : profiles[k].default /\ profiles[l].default => k = l
              /\ \A k, l \in DOMAIN profiles : profiles[k].template # NoCode =>
                    /\ profiles[k].template \in DOMAIN referrals
                    /\ profiles[k].template = profiles[l].template => k = l
          BY <1>1, <5>1 DEF SettingOK
        <5>5. \A k, l \in DOMAIN profiles' : profiles'[k].default /\ profiles'[l].default => k = l
          BY <5>2, <5>3, <5>4
        <5>6. \A k, l \in DOMAIN profiles' : profiles'[k].template # NoCode =>
                    /\ profiles'[k].template \in DOMAIN referrals
                    /\ profiles'[k].template = profiles'[l].template => k = l
          BY <5>2, <5>3, <5>4
        <5> QED BY <5>1, <5>5, <5>6 DEF SettingOK
      <4> QED BY <4>1, <4>2
    <3> QED BY <3>2, <3>3
  <2> QED BY <2>1, <2>2, <2>3
<1> QED BY <1>1, <1>2, <1>3, <1>4, ProfileStep

\* SetDefaultProfile reads the rows, and writes them one by one.
LEMMA DefaultStep ==
    ASSUME ReferralsInv, NEW n \in Names, SetDefaultProfile(n) \/ WriteDefault(n)
    PROVE  ReferralsInv'
<1>1. /\ ReferralsTypeOK /\ SettingOK /\ ProfileRows(profiles) /\ ProfileRows(setting.rows)
      /\ setting = [name |-> setting.name, rows |-> setting.rows]
  BY DEF ReferralsInv, ReferralsTypeOK
<1>2. UNCHANGED <<today, rowKey, members, asker, promised, withdrawn, raced, referrals, lastCode, tangled>>
  BY DEF SetDefaultProfile, WriteDefault, grantVars
<1>3. Moves /\ RowsAfter(profiles) /\ RowsAfter(setting.rows)
  BY <1>1, <1>2, MovesNot, RowsStay
<1>4. Done.rows = <<>> /\ DOMAIN Done.rows = {} /\ Done = [name |-> Done.name, rows |-> Done.rows]
  BY DEF Done
<1>5. /\ RowsAfter(profiles') /\ RowsAfter(setting'.rows) /\ SettingOK'
      /\ setting' = [name |-> setting'.name, rows |-> setting'.rows]
  <2>1. CASE SetDefaultProfile(n)
    <3>1. setting' = [name |-> n, rows |-> profiles] /\ profiles' = profiles /\ n \in DOMAIN profiles
          /\ setting = Done
      BY <2>1 DEF SetDefaultProfile
    <3>2. setting'.rows = profiles /\ setting'.name = n /\ setting' # Done
      BY <1>4, <3>1
    <3>3. SettingOK'
      BY <1>1, <1>2, <3>1, <3>2 DEF SettingOK
    <3> QED BY <1>3, <3>1, <3>2, <3>3
  <2>2. CASE WriteDefault(n)
    <3> DEFINE rows == setting.rows
               put == [rows[n] EXCEPT !.default = (n = setting.name)]
    <3>1. /\ n \in DOMAIN rows /\ profiles' = With(profiles, n, put)
          /\ setting' = IF DOMAIN rows = {n} THEN Done ELSE [setting EXCEPT !.rows = Without(@, {n})]
      BY <2>2 DEF WriteDefault
    <3>2. /\ rows[n] \in Profile
          /\ rows[n].template <= lastCode'
          /\ rows[n].template \in DOMAIN referrals' => referrals'[rows[n].template].owner = NoOwner
      BY <1>3, <3>1 DEF RowsAfter
    <3>3. put \in Profile /\ put.default = (n = setting.name) /\ put.template = rows[n].template
      BY <3>2 DEF Profile
    <3>4. /\ DOMAIN profiles' = DOMAIN profiles \cup {n} /\ profiles'[n] = put
          /\ \A k \in DOMAIN profiles : k # n => profiles'[k] = profiles[k]
      BY <3>1 DEF With
    <3> HIDE DEF put
    <3>5. RowsAfter(profiles')
      BY <1>3, <3>2, <3>3, <3>4 DEF RowsAfter
    <3>6. \/ DOMAIN rows = {n} /\ setting' = Done
          \/ /\ DOMAIN rows # {n} /\ setting'.name = setting.name /\ setting'.rows = Without(rows, {n})
             /\ setting' = [name |-> setting'.name, rows |-> setting'.rows]
      <4>1. CASE DOMAIN rows = {n}
        BY <3>1, <4>1
      <4>2. CASE DOMAIN rows # {n}
        <5>1. setting' = [setting EXCEPT !.rows = Without(@, {n})]
          BY <3>1, <4>2
        <5>2. setting' = [name |-> setting.name, rows |-> Without(rows, {n})]
          BY <1>1, <5>1
        <5> QED BY <4>2, <5>2
      <4> QED BY <4>1, <4>2
    <3>7. /\ \A k \in DOMAIN setting'.rows : k \in DOMAIN rows /\ k # n /\ setting'.rows[k] = rows[k]
          /\ setting' # Done => \A k \in DOMAIN rows : k = n \/ k \in DOMAIN setting'.rows
      <4>1. CASE setting' = Done
        BY <1>4, <4>1
      <4>2. CASE setting'.rows = Without(rows, {n})
        BY <4>2 DEF Without, Restrict
      <4> QED BY <3>6, <4>1, <4>2
    <3>8. RowsAfter(setting'.rows)
      BY <1>3, <3>7 DEF RowsAfter
    <3>9. setting' = [name |-> setting'.name, rows |-> setting'.rows]
      BY <1>4, <3>6
    <3>10. SettingOK'
      <4>1. CASE tangled
        BY <1>2, <4>1 DEF SettingOK
      <4>2. CASE ~tangled
        <5>1. setting # Done
          BY <1>4, <3>1
        <5>2. /\ \A k \in DOMAIN rows : k \in DOMAIN profiles /\ profiles[k] = rows[k]
              /\ \A k \in DOMAIN profiles \ DOMAIN rows : profiles[k].default => k = setting.name
              /\ \A k, l \in DOMAIN profiles : profiles[k].template # NoCode =>
                    /\ profiles[k].template \in DOMAIN referrals
                    /\ profiles[k].template = profiles[l].template => k = l
          BY <1>1, <4>2, <5>1 DEF SettingOK
        <5>3. DOMAIN profiles' = DOMAIN profiles /\ \A k \in DOMAIN profiles : profiles'[k].template = profiles[k].template
          BY <3>1, <3>3, <3>4, <5>2
        <5>4. \A k, l \in DOMAIN profiles' : profiles'[k].template # NoCode =>
                    /\ profiles'[k].template \in DOMAIN referrals
                    /\ profiles'[k].template = profiles'[l].template => k = l
          BY <5>2, <5>3
        <5> HIDE DEF rows
        <5>5. ASSUME setting' = Done
              PROVE  \A k, l \in DOMAIN profiles' : profiles'[k].default /\ profiles'[l].default => k = l
          <6>1. DOMAIN rows = {n}
            <7>1. CASE setting'.rows = Without(rows, {n}) /\ DOMAIN rows # {n}
              <8>1. \A k \in DOMAIN rows : k = n
                BY <1>4, <5>5, <7>1 DEF Without, Restrict
              <8> QED BY <3>1, <8>1 DEF rows
            <7> QED BY <3>6, <7>1 DEF rows
          <6>2. \A k \in DOMAIN profiles' : profiles'[k].default => k = setting.name
            BY <3>3, <3>4, <5>2, <5>3, <6>1
          <6> QED BY <6>2
        <5>6. ASSUME setting' # Done
              PROVE  /\ setting'.name = setting.name
                     /\ \A k \in DOMAIN setting'.rows : k \in DOMAIN profiles' /\ profiles'[k] = setting'.rows[k]
                     /\ \A k \in DOMAIN profiles' \ DOMAIN setting'.rows : profiles'[k].default => k = setting'.name
          <6>1. setting'.name = setting.name
            BY <3>6, <5>6 DEF rows
          <6>2. \A k \in DOMAIN setting'.rows : k \in DOMAIN profiles' /\ profiles'[k] = setting'.rows[k]
            BY <3>4, <3>7, <5>2, <5>3 DEF rows
          <6>3. ASSUME NEW k \in DOMAIN profiles' \ DOMAIN setting'.rows, profiles'[k].default PROVE k = setting.name
            <7>1. CASE k = n
              BY <3>3, <3>4, <6>3, <7>1
            <7>2. CASE k # n
              <8>1. k \in DOMAIN profiles /\ k \notin DOMAIN rows /\ profiles'[k] = profiles[k]
                BY <3>4, <3>7, <5>3, <5>6, <6>3, <7>2 DEF rows
              <8> QED BY <5>2, <6>3, <8>1
            <7> QED BY <7>1, <7>2
          <6> QED BY <6>1, <6>2, <6>3
        <5> QED BY <1>2, <5>4, <5>5, <5>6 DEF SettingOK
      <4> QED BY <4>1, <4>2
    <3> QED BY <3>5, <3>8, <3>9, <3>10
  <2> QED BY <2>1, <2>2
<1> QED BY <1>1, <1>2, <1>3, <1>5, ProfileStep

\* Templates are made and taken back.
LEMMA TemplateStep ==
    ASSUME ReferralsInv, NEW n \in Names,
           \/ \E from \in Sources, byExpiry \in BOOLEAN : EnableReferralForProfile(n, from, byExpiry)
           \/ DisableReferralForProfile(n)
    PROVE  ReferralsInv'
<1>1. /\ ReferralsTypeOK /\ SettingOK /\ ProfileRows(profiles) /\ ProfileRows(setting.rows)
      /\ setting = [name |-> setting.name, rows |-> setting.rows]
      /\ lastCode \in Nat /\ today \in Int /\ \A c \in DOMAIN referrals : referrals[c] \in Ticket /\ c \in 1..lastCode
  BY DEF ReferralsInv, ReferralsTypeOK
<1>2. /\ UNCHANGED <<today, setting, rowKey, members, asker, promised, withdrawn, raced>>
      /\ tangled' = (tangled \/ setting # Done) /\ n \in DOMAIN profiles
  BY DEF EnableReferralForProfile, DisableReferralForProfile, profileOnly, Tangles
<1>3. /\ profiles[n] \in Profile
      /\ profiles[n].template \in DOMAIN referrals => referrals[profiles[n].template].owner = NoOwner
  BY <1>1, <1>2 DEF ProfileRows
<1>4. CASE \E from \in Sources, byExpiry \in BOOLEAN : EnableReferralForProfile(n, from, byExpiry)
  <2>1. PICK from \in Sources, byExpiry \in BOOLEAN : EnableReferralForProfile(n, from, byExpiry)
    BY <1>4
  <2> DEFINE new == Referral(NoOwner, byExpiry, from)
             code == lastCode + 1
             row0 == [profiles[n] EXCEPT !.template = code]
  <2>2. lastCode' = code /\ referrals' = With(referrals, code, new)
        /\ profiles' = [profiles EXCEPT ![n].template = code]
    BY <2>1 DEF EnableReferralForProfile, Bounded
  <2>3. new \in Ticket /\ new.owner = NoOwner
    BY <1>1, SourcesSay, ReferralSays
  <2>4. row0 \in Profile /\ row0.template = code /\ row0.default = profiles[n].default
    BY <1>1, <1>3 DEF Profile
  <2>5. /\ DOMAIN profiles' = DOMAIN profiles /\ profiles'[n] = row0
        /\ \A k \in DOMAIN profiles : k # n => profiles'[k] = profiles[k]
    BY <1>2, <2>2
  <2> HIDE DEF new, row0
  <2>6. /\ DOMAIN referrals' = DOMAIN referrals \cup {code} /\ referrals'[code] = new
        /\ \A c \in DOMAIN referrals : c # code => referrals'[c] = referrals[c]
    BY <2>2 DEF With
  <2>7. code \in Nat /\ code > lastCode /\ code # 0 /\ code \notin DOMAIN referrals
    BY <1>1
  <2>8. Moves
    BY <1>1, <2>2, <2>3, <2>6, <2>7 DEF Moves
  <2>9. RowsAfter(profiles) /\ RowsAfter(setting.rows)
    BY <1>1, <2>8, RowsStay
  <2>10. RowsAfter(profiles')
    <3>1. row0.template <= lastCode' /\ referrals'[row0.template].owner = NoOwner
      BY <2>2, <2>3, <2>4, <2>6, <2>7
    <3> QED BY <2>4, <2>5, <2>9, <3>1 DEF RowsAfter
  <2>11. SettingOK'
    <3>1. CASE tangled'
      BY <3>1 DEF SettingOK
    <3>2. CASE ~tangled'
      <4>1. ~tangled /\ setting = Done /\ setting' = Done
        BY <1>2, <3>2
      <4>2. /\ \A k, l \in DOMAIN profiles : profiles[k].default /\ profiles[l].default => k = l
            /\ \A k, l \in DOMAIN profiles : profiles[k].template # NoCode =>
                  /\ profiles[k].template \in DOMAIN referrals
                  /\ profiles[k].template = profiles[l].template => k = l
        BY <1>1, <4>1 DEF SettingOK
      <4>3. \A k \in DOMAIN profiles : profiles[k].template # code
        BY <1>1, <2>7 DEF ProfileRows, Profile
      <4>4. \A k, l \in DOMAIN profiles' : profiles'[k].default /\ profiles'[l].default => k = l
        BY <2>4, <2>5, <4>2
      <4> HIDE DEF code
      <4>5. \A k, l \in DOMAIN profiles' : profiles'[k].template # NoCode =>
                  /\ profiles'[k].template \in DOMAIN referrals'
                  /\ profiles'[k].template = profiles'[l].template => k = l
        BY <2>4, <2>5, <2>6, <4>2, <4>3
      <4> QED BY <4>1, <4>4, <4>5 DEF SettingOK
    <3> QED BY <3>1, <3>2
  <2>12. \A c \in DOMAIN referrals' : referrals'[c].owner # NoOwner => c \in DOMAIN referrals /\ referrals'[c] = referrals[c]
    BY <2>3, <2>6
  <2>13. \A c \in DOMAIN referrals : referrals[c].owner # NoOwner => c \in DOMAIN referrals' /\ referrals'[c] = referrals[c]
    BY <2>6, <2>7
  <2> QED BY <1>1, <1>2, <2>8, <2>9, <2>10, <2>11, <2>12, <2>13, ProfileStep
<1>5. CASE DisableReferralForProfile(n)
  <2> DEFINE row0 == [profiles[n] EXCEPT !.template = NoCode]
             t == profiles[n].template
  <2>1. lastCode' = lastCode /\ referrals' = Without(referrals, {t})
        /\ profiles' = [profiles EXCEPT ![n].template = NoCode]
    BY <1>5 DEF DisableReferralForProfile
  <2>2. row0 \in Profile /\ row0.template = 0 /\ row0.default = profiles[n].default
    BY <1>3 DEF Profile, NoCode
  <2>3. /\ DOMAIN profiles' = DOMAIN profiles /\ profiles'[n] = row0
        /\ \A k \in DOMAIN profiles : k # n => profiles'[k] = profiles[k]
    BY <1>2, <2>1
  <2>4. DOMAIN referrals' = DOMAIN referrals \ {t} /\ \A c \in DOMAIN referrals' : referrals'[c] = referrals[c]
    BY <2>1 DEF Without, Restrict
  <2>5. t \in DOMAIN referrals => referrals[t].owner = NoOwner
    BY <1>3
  <2> HIDE DEF row0
  <2>6. Moves
    BY <1>1, <2>1, <2>4 DEF Moves
  <2>7. RowsAfter(profiles) /\ RowsAfter(setting.rows)
    BY <1>1, <2>6, RowsStay
  <2>8. RowsAfter(profiles')
    <3>1. row0.template <= lastCode' /\ row0.template \notin DOMAIN referrals'
      BY <1>1, <2>1, <2>2, <2>4
    <3> QED BY <2>2, <2>3, <2>7, <3>1 DEF RowsAfter
  <2>9. SettingOK'
    <3>1. CASE tangled'
      BY <3>1 DEF SettingOK
    <3>2. CASE ~tangled'
      <4>1. ~tangled /\ setting = Done /\ setting' = Done
        BY <1>2, <3>2
      <4>2. /\ \A k, l \in DOMAIN profiles : profiles[k].default /\ profiles[l].default => k = l
            /\ \A k, l \in DOMAIN profiles : profiles[k].template # NoCode =>
                  /\ profiles[k].template \in DOMAIN referrals
                  /\ profiles[k].template = profiles[l].template => k = l
        BY <1>1, <4>1 DEF SettingOK
      <4>3. \A k, l \in DOMAIN profiles' : profiles'[k].default /\ profiles'[l].default => k = l
        BY <2>2, <2>3, <4>2
      <4>4. row0.template = NoCode
        BY <2>2 DEF NoCode
      <4>5. \A k, l \in DOMAIN profiles' : profiles'[k].template # NoCode =>
                  /\ profiles'[k].template \in DOMAIN referrals'
                  /\ profiles'[k].template = profiles'[l].template => k = l
        BY <1>2, <2>3, <2>4, <4>2, <4>4
      <4> QED BY <4>1, <4>3, <4>5 DEF SettingOK
    <3> QED BY <3>1, <3>2
  <2>10. \A c \in DOMAIN referrals' : referrals'[c].owner # NoOwner => c \in DOMAIN referrals /\ referrals'[c] = referrals[c]
    BY <2>4
  <2>11. \A c \in DOMAIN referrals : referrals[c].owner # NoOwner => c \in DOMAIN referrals' /\ referrals'[c] = referrals[c]
    BY <2>4, <2>5
  <2> QED BY <1>1, <1>2, <2>6, <2>7, <2>8, <2>9, <2>10, <2>11, ProfileStep
<1> QED BY <1>4, <1>5

-----------------------------------------------------------------------------
(* Referrals of users.                                                     *)

\* EnableReferralForUsers gives a new one for whatever there was.
LEMMA GiveStep ==
    ASSUME ReferralsInv, NEW u \in members, NEW from \in Sources \cup Templates, NEW byExpiry \in BOOLEAN,
           EnableReferralForUsers(u, from, byExpiry)
    PROVE  ReferralsInv'
<1> DEFINE new == Referral(u, byExpiry, from)
           code == lastCode + 1
<1>1. /\ ReferralsTypeOK /\ lastCode \in Nat /\ today \in Int /\ u \in Referrers /\ NoOwner \notin Referrers
      /\ \A c \in DOMAIN referrals : referrals[c] \in Ticket /\ c \in 1..lastCode
      /\ members \subseteq Referrers /\ DOMAIN rowKey \subseteq members
      /\ asker \in [Askers -> {NotAsking} \cup Ask]
  BY ReferralsAssumption DEF ReferralsInv, ReferralsTypeOK
<1>2. new \in Ticket /\ new.owner = u /\ new.byExpiry = byExpiry
  BY <1>1, SourcesSay, ReferralSays
<1> HIDE DEF new
<1>3. /\ lastCode' = code /\ referrals' = With(Without(referrals, Own(u)), code, new)
      /\ promised' = (IF byExpiry THEN promised \ {u} ELSE promised \cup {u})
      /\ withdrawn' = withdrawn \ {u}
      /\ raced' = raced \cup {v \in {u} : \E a \in Askers : asker[a] # NotAsking /\ asker[a].user = v}
      /\ UNCHANGED <<today, profiles, setting, members, asker, tangled, rowKey>>
  BY DEF EnableReferralForUsers, Bounded, Races, userOnly, new
<1>4. code \in Nat /\ code > lastCode /\ code \notin DOMAIN referrals
  BY <1>1
<1>5. /\ DOMAIN referrals' = (DOMAIN referrals \ Own(u)) \cup {code} /\ referrals'[code] = new
      /\ \A c \in DOMAIN referrals \ Own(u) : c # code => referrals'[c] = referrals[c]
  BY <1>3 DEF With, Without, Restrict
<1> HIDE DEF code
<1>6. Moves
  BY <1>1, <1>2, <1>3, <1>4, <1>5 DEF Moves
<1>7. \A c \in DOMAIN referrals : referrals[c].owner = NoOwner => c \in DOMAIN referrals'
  BY <1>1, <1>5 DEF Own
<1>8. Own(u)' = {code}
  BY <1>2, <1>4, <1>5 DEF Own
<1>9. UserOK(u)'
  <2>1. OwnOK(u)'
    BY <1>2, <1>3, <1>5, <1>8 DEF OwnOK
  <2> QED BY <1>1, <1>3, <2>1, UserTouched
<1>10. ASSUME NEW v \in Referrers, v # u PROVE Untouched(v)
  BY <1>2, <1>3, <1>4, <1>5, <1>10 DEF Untouched, Own
<1> QED BY <1>1, <1>3, <1>6, <1>7, <1>9, <1>10, OwnerStep

\* DisableReferralForUsers takes it, and the key.
LEMMA TakeStep ==
    ASSUME ReferralsInv, NEW u \in members, DisableReferralForUsers(u)
    PROVE  ReferralsInv'
<1>1. /\ ReferralsTypeOK /\ lastCode \in Nat /\ today \in Int /\ u \in Referrers /\ NoOwner \notin Referrers
      /\ \A c \in DOMAIN referrals : referrals[c] \in Ticket /\ c \in 1..lastCode
      /\ members \subseteq Referrers /\ DOMAIN rowKey \subseteq members
      /\ asker \in [Askers -> {NotAsking} \cup Ask]
  BY ReferralsAssumption DEF ReferralsInv, ReferralsTypeOK
<1>2. /\ lastCode' = lastCode /\ referrals' = Without(referrals, Own(u))
      /\ rowKey' = [v \in DOMAIN rowKey |-> IF v \in {u} THEN NoCode ELSE rowKey[v]]
      /\ promised' = promised \ {u} /\ withdrawn' = withdrawn \cup {u}
      /\ raced' = raced \cup {v \in {u} : \E a \in Askers : asker[a] # NotAsking /\ asker[a].user = v}
      /\ UNCHANGED <<today, profiles, setting, members, asker, tangled>>
  BY DEF DisableReferralForUsers, Races, NoKey, userOnly
<1>3. DOMAIN referrals' = DOMAIN referrals \ Own(u) /\ \A c \in DOMAIN referrals' : referrals'[c] = referrals[c]
  BY <1>2 DEF Without, Restrict
<1>4. Moves
  BY <1>1, <1>2, <1>3 DEF Moves
<1>5. \A c \in DOMAIN referrals : referrals[c].owner = NoOwner => c \in DOMAIN referrals'
  BY <1>1, <1>3 DEF Own
<1>6. Own(u)' = {}
  BY <1>3 DEF Own
<1>7. UserOK(u)'
  <2>1. OwnOK(u)'
    BY <1>2, <1>6 DEF OwnOK
  <2> QED BY <1>1, <1>2, <2>1, UserTouched
<1>8. ASSUME NEW v \in Referrers, v # u PROVE Untouched(v)
  BY <1>2, <1>3, <1>8 DEF Untouched, Own
<1>9. DOMAIN rowKey' \subseteq members'
  BY <1>1, <1>2
<1> QED BY <1>1, <1>2, <1>4, <1>5, <1>7, <1>8, <1>9, OwnerStep

\* A sign-up with a profile.
LEMMA SignUpStep ==
    ASSUME ReferralsInv, NEW u \in Referrers, NEW n \in Names, SignUp(u, n)
    PROVE  ReferralsInv'
<1> DEFINE template == profiles[n].template
           new == Referral(u, TRUE, referrals[template])
           code == lastCode + 1
<1>1. /\ ReferralsTypeOK /\ lastCode \in Nat /\ today \in Int /\ NoOwner \notin Referrers
      /\ \A c \in DOMAIN referrals : referrals[c] \in Ticket /\ c \in 1..lastCode
      /\ members \subseteq Referrers /\ DOMAIN rowKey \subseteq members
      /\ asker \in [Askers -> {NotAsking} \cup Ask]
      /\ \A a \in Askers : AskerOK(a)
  BY ReferralsAssumption DEF ReferralsInv, ReferralsTypeOK
<1>2. /\ u \notin members /\ members' = members \cup {u} /\ rowKey' = With(rowKey, u, NoCode)
      /\ UNCHANGED <<today, profiles, setting, asker, promised, withdrawn, raced, tangled>>
      /\ \/ /\ template \in DOMAIN referrals
            /\ lastCode' = code /\ referrals' = With(referrals, code, new)
         \/ UNCHANGED <<referrals, lastCode>>
  BY DEF SignUp, Bounded
<1>3. /\ DOMAIN rowKey' = DOMAIN rowKey \cup {u} /\ rowKey'[u] = NoCode
      /\ \A v \in DOMAIN rowKey : v # u => rowKey'[v] = rowKey[v]
  BY <1>2 DEF With
<1>4. Own(u) = {} /\ u \notin promised /\ u \notin withdrawn
  BY <1>2 DEF ReferralsInv, UserOK
<1>5. ASSUME NEW a \in Askers PROVE asker[a] # NotAsking => asker[a].user # u
  BY <1>1, <1>2 DEF AskerOK
<1>6. /\ Moves /\ \A c \in DOMAIN referrals : c \in DOMAIN referrals' /\ referrals'[c] = referrals[c]
      /\ \A c \in DOMAIN referrals' : c \in DOMAIN referrals \/ (c = code /\ referrals'[c].owner = u)
  <2>1. CASE UNCHANGED <<referrals, lastCode>>
    BY <1>1, <2>1, MovesNot
  <2>2. CASE /\ template \in DOMAIN referrals
             /\ lastCode' = code /\ referrals' = With(referrals, code, new)
    <3>1. referrals[template].uses \in Int /\ referrals[template].days \in Int
      BY <1>1, <2>2 DEF Ticket
    <3>2. new \in Ticket /\ new.owner = u
      BY <1>1, <3>1, ReferralSays
    <3> HIDE DEF new
    <3>3. code \in Nat /\ code > lastCode /\ code \notin DOMAIN referrals
      BY <1>1
    <3>4. /\ DOMAIN referrals' = DOMAIN referrals \cup {code} /\ referrals'[code] = new
          /\ \A c \in DOMAIN referrals : c # code => referrals'[c] = referrals[c]
      BY <2>2 DEF With
    <3> HIDE DEF code
    <3>5. Moves
      BY <1>1, <2>2, <3>2, <3>3, <3>4 DEF Moves
    <3> QED BY <3>2, <3>3, <3>4, <3>5
  <2> QED BY <1>2, <2>1, <2>2
<1> HIDE DEF code
<1>7. UserOK(u)'
  <2>1. OwnOK(u)'
    <3>1. \A c \in Own(u)' : c = code
      BY <1>4, <1>6 DEF Own
    <3> QED BY <1>2, <1>4, <3>1 DEF OwnOK
  <2> QED BY <1>2, <1>5, <2>1, UserTouched
<1>8. ASSUME NEW v \in Referrers, v # u PROVE Untouched(v)
  BY <1>2, <1>3, <1>6, <1>8 DEF Untouched, Own
<1>9. members \subseteq members' /\ members' \subseteq Referrers /\ DOMAIN rowKey' \subseteq members'
  BY <1>1, <1>2, <1>3
<1> QED BY <1>1, <1>2, <1>6, <1>7, <1>8, <1>9, OwnerStep

\* GetMyReferral reads what is to be replaced, or copied.
LEMMA AskStep ==
    ASSUME ReferralsInv, NEW a \in Askers, NEW u \in members, GetMyReferral(a, u)
    PROVE  ReferralsInv'
<1>1. /\ ReferralsTypeOK /\ lastCode \in Nat /\ today \in Int /\ u \in Referrers
      /\ \A c \in DOMAIN referrals : referrals[c] \in Ticket /\ c \in 1..lastCode
      /\ members \subseteq Referrers /\ DOMAIN rowKey \subseteq members
      /\ asker \in [Askers -> {NotAsking} \cup Ask] /\ UserOK(u)
  BY DEF ReferralsInv, ReferralsTypeOK
<1>2. /\ asker[a] = NotAsking
      /\ raced' = raced \cup {v \in {u} : \E b \in Askers : asker[b] # NotAsking /\ asker[b].user = v}
      /\ UNCHANGED <<today, profiles, setting, referrals, rowKey, members, lastCode, promised, withdrawn, tangled>>
  BY DEF GetMyReferral, Races, grantVars
<1>3. PICK x, i :
          /\ asker' = [asker EXCEPT ![a] = [user |-> u, code |-> x, inv |-> i]]
          /\ \/ x \in Own(u) /\ i = referrals[x]
             \/ x = NoCode /\ Own(u) = {} /\ u \in DOMAIN rowKey /\ rowKey[u] \in DOMAIN referrals /\ i = referrals[rowKey[u]]
  <2>1. CASE \E c \in Own(u) : asker' = [asker EXCEPT ![a] = [user |-> u, code |-> c, inv |-> referrals[c]]]
    BY <2>1
  <2>2. CASE /\ Own(u) = {} /\ u \in DOMAIN rowKey /\ rowKey[u] \in DOMAIN referrals
             /\ asker' = [asker EXCEPT ![a] = [user |-> u, code |-> NoCode, inv |-> referrals[rowKey[u]]]]
    BY <2>2
  <2> QED BY <2>1, <2>2 DEF GetMyReferral
<1> DEFINE r == [user |-> u, code |-> x, inv |-> i]
<1>4. /\ r \in Ask /\ r.user = u /\ r.code = x /\ r.inv = i /\ x <= lastCode /\ 0 \notin DOMAIN referrals
      /\ r # NotAsking /\ (x \in Own(u) => x # 0)
  <2>1. i \in Ticket
    BY <1>1, <1>3 DEF Own
  <2>2. x \in Nat /\ x <= lastCode /\ 0 \notin DOMAIN referrals /\ (x \in Own(u) => x # 0)
    BY <1>1, <1>3 DEF Own, NoCode
  <2>3. DOMAIN r = {"user", "code", "inv"} /\ DOMAIN NotAsking = {}
    BY DEF NotAsking
  <2>4. r # NotAsking
    BY <2>3
  <2> QED BY <1>1, <2>1, <2>2, <2>4 DEF Ask
<1> HIDE DEF r
<1>5. /\ asker'[a] = r /\ \A b \in Askers : b # a => asker'[b] = asker[b]
      /\ asker' \in [Askers -> {NotAsking} \cup Ask]
  BY <1>1, <1>3, <1>4 DEF r
<1>6. Moves
  BY <1>1, <1>2, MovesNot
<1>7. AskerOK(a)'
  <2>1. Own(u)' = Own(u)
    BY <1>2 DEF Own
  <2>2. x \in DOMAIN referrals => x \in Own(u)
    BY <1>3, <1>4 DEF NoCode
  <2> QED BY <1>2, <1>4, <1>5, <2>1, <2>2 DEF AskerOK
<1>8. UserOK(u)'
  <2>1. Own(u)' = Own(u) /\ u \in members'
    BY <1>2 DEF Own
  <2>2. ASSUME u \notin raced'
        PROVE  /\ OwnOK(u)'
               /\ \A b \in Askers : Asks(b, u)' => b = a
               /\ StillSo(a, u)'
    <3>1. u \notin raced /\ OwnOK(u) /\ \A b \in Askers : asker[b] # NotAsking => asker[b].user # u
      BY <1>1, <1>2, <2>2 DEF UserOK
    <3>2. OwnOK(u)'
      BY <1>2, <2>1, <3>1 DEF OwnOK
    <3>3. \A b \in Askers : Asks(b, u)' => b = a
      BY <1>5, <3>1 DEF Asks
    <3>4. u \notin withdrawn
      BY <1>3, <1>4, <3>1 DEF OwnOK, NoCode
    <3>5. StillSo(a, u)'
      BY <1>2, <1>3, <1>4, <1>5, <2>1, <3>4 DEF StillSo, NoCode
    <3> QED BY <3>2, <3>3, <3>5
  <2> QED BY <2>1, <2>2 DEF UserOK
<1>9. ASSUME NEW v \in Referrers, v # u PROVE Untouched(v)
  BY <1>2, <1>4, <1>5, <1>9 DEF Untouched, Own
<1>10. \A b \in Askers : asker'[b] = asker[b] \/ AskerOK(b)'
  BY <1>5, <1>7
<1> QED BY <1>1, <1>2, <1>5, <1>6, <1>8, <1>9, <1>10, OwnerStep

\* ... and writes what is to take its place.
LEMMA WriteStep ==
    ASSUME ReferralsInv, NEW a \in Askers, WriteMyReferral(a)
    PROVE  ReferralsInv'
<1> DEFINE r == asker[a]
           days == IF r.code = NoCode /\ r.inv.byExpiry THEN r.inv.days ELSE REFERRAL_EXPIRY_DAYS
           code == lastCode + 1
<1>1. /\ ReferralsTypeOK /\ lastCode \in Nat /\ today \in Int /\ NoOwner \notin Referrers
      /\ \A c \in DOMAIN referrals : referrals[c] \in Ticket /\ c \in 1..lastCode
      /\ members \subseteq Referrers /\ DOMAIN rowKey \subseteq members
      /\ asker \in [Askers -> {NotAsking} \cup Ask] /\ AskerOK(a)
      /\ r # NotAsking /\ r \in Ask /\ r.user \in Referrers /\ r.inv \in Ticket
  BY ReferralsAssumption DEF ReferralsInv, ReferralsTypeOK, WriteMyReferral, Ask
<1>u. PICK u \in Referrers : u = r.user
  BY <1>1
<1>2. u \in members /\ UserOK(u) /\ (r.code \in DOMAIN referrals => r.code \in Own(u))
  BY <1>u, <1>1 DEF AskerOK, ReferralsInv
<1> DEFINE new == [owner |-> u, byExpiry |-> r.inv.byExpiry, uses |-> r.inv.uses,
                   days |-> days, exp |-> today + days]
<1>3. /\ asker' = [asker EXCEPT ![a] = NotAsking]
      /\ raced' = raced \cup {v \in {u} : \E b \in Askers \ {a} : asker[b] # NotAsking /\ asker[b].user = v}
      /\ UNCHANGED <<today, profiles, setting, members, promised, withdrawn, tangled>>
      /\ \/ /\ r.code # NoCode /\ r.inv.byExpiry
            /\ referrals' = Without(referrals, {r.code}) /\ lastCode' = lastCode
            /\ rowKey' = [v \in DOMAIN rowKey |-> IF v \in {u} THEN NoCode ELSE rowKey[v]]
         \/ /\ ~(r.code # NoCode /\ r.inv.byExpiry)
            /\ referrals' = With(Without(referrals, {r.code}), code, new) /\ lastCode' = code
            /\ rowKey' = rowKey
  BY <1>u DEF WriteMyReferral, Bounded, NoKey, grantVars
<1>4. new \in Ticket /\ new.owner = u /\ new.byExpiry = r.inv.byExpiry
  <2>1. r.inv.byExpiry \in BOOLEAN /\ r.inv.uses \in Int /\ r.inv.days \in Int
    BY <1>1 DEF Ticket
  <2>2. days \in Int
    BY <2>1, ReferralsAssumption
  <2>3. today + days \in Int
    BY <1>1, <2>2
  <2> HIDE DEF days
  <2> QED BY <2>1, <2>2, <2>3 DEF Ticket
<1> HIDE DEF new
<1>5. code \in Nat /\ code > lastCode /\ code \notin DOMAIN referrals
  BY <1>1
<1>6. \A b \in Askers : IF b = a THEN asker'[b] = NotAsking ELSE asker'[b] = asker[b]
  BY <1>1, <1>3
<1>7. /\ asker' \in [Askers -> {NotAsking} \cup Ask]
      /\ \A b \in Askers : asker'[b] = asker[b] \/ AskerOK(b)'
  BY <1>1, <1>3, <1>6 DEF AskerOK
<1>8. /\ \A c \in DOMAIN referrals : c # r.code => c \in DOMAIN referrals' /\ referrals'[c] = referrals[c]
      /\ r.code \notin DOMAIN referrals' \/ r.code = code
      /\ \/ /\ r.code # NoCode /\ r.inv.byExpiry /\ lastCode' = lastCode
            /\ \A c \in DOMAIN referrals' : c \in DOMAIN referrals /\ c # r.code
         \/ /\ ~(r.code # NoCode /\ r.inv.byExpiry) /\ lastCode' = code
            /\ code \in DOMAIN referrals' /\ referrals'[code] = new
            /\ \A c \in DOMAIN referrals' : c = code \/ (c \in DOMAIN referrals /\ c # r.code)
  <2> HIDE DEF r, code
  <2>1. CASE /\ r.code # NoCode /\ r.inv.byExpiry
             /\ referrals' = Without(referrals, {r.code}) /\ lastCode' = lastCode
    BY <2>1 DEF Without, Restrict
  <2>2. CASE /\ ~(r.code # NoCode /\ r.inv.byExpiry)
             /\ referrals' = With(Without(referrals, {r.code}), code, new) /\ lastCode' = code
    <3>1. DOMAIN referrals' = (DOMAIN referrals \ {r.code}) \cup {code}
      BY <2>2 DEF With, Without, Restrict
    <3>2. referrals'[code] = new /\ \A c \in DOMAIN referrals \ {r.code} : c # code => referrals'[c] = referrals[c]
      BY <2>2 DEF With, Without, Restrict
    <3> QED BY <1>5, <2>2, <3>1, <3>2
  <2> QED BY <1>3, <2>1, <2>2
<1>9. Moves
  <2> HIDE DEF r
  <2> QED BY <1>1, <1>4, <1>5, <1>8 DEF Moves
<1>10. \A c \in DOMAIN referrals : referrals[c].owner = NoOwner => c \in DOMAIN referrals'
  BY <1>1, <1>2, <1>8 DEF Own
<1> HIDE DEF code
<1>11. UserOK(u)'
  <2>1. ASSUME u \notin raced' PROVE OwnOK(u)'
    <3>1. u \notin raced /\ OwnOK(u) /\ StillSo(a, u)
      BY <1>1, <1>2, <1>3, <1>u, <2>1 DEF UserOK, Asks
    <3>2. \A c \in Own(u) : c = r.code
      BY <3>1 DEF StillSo, OwnOK
    <3>3. u \notin withdrawn'
      BY <1>3, <3>1 DEF StillSo
    <3>4. CASE /\ r.code # NoCode /\ r.inv.byExpiry
               /\ \A c \in DOMAIN referrals' : c \in DOMAIN referrals /\ c # r.code
      <4>1. u \notin promised'
        BY <1>3, <3>1, <3>4 DEF StillSo, OwnOK
      <4>2. Own(u)' = {}
        BY <1>8, <3>2, <3>4 DEF Own
      <4> QED BY <3>3, <4>1, <4>2 DEF OwnOK
    <3>5. CASE /\ ~(r.code # NoCode /\ r.inv.byExpiry)
               /\ code \in DOMAIN referrals' /\ referrals'[code] = new
               /\ \A c \in DOMAIN referrals' : c = code \/ (c \in DOMAIN referrals /\ c # r.code)
      <4>1. Own(u)' = {code}
        BY <1>4, <1>8, <3>2, <3>5 DEF Own
      <4>2. u \in promised' => ~referrals'[code].byExpiry
        BY <1>3, <1>4, <3>1, <3>5 DEF StillSo, OwnOK
      <4> QED BY <3>3, <4>1, <4>2 DEF OwnOK
    <3> QED BY <1>8, <3>4, <3>5
  <2>2. \A b \in Askers : asker'[b] # NotAsking /\ asker'[b].user = u => u \in raced'
    BY <1>3, <1>6
  <2> QED BY <1>2, <1>3, <2>1, <2>2, UserTouched
<1>12. ASSUME NEW v \in Referrers, v # u PROVE Untouched(v)
  <2>1. \A c \in DOMAIN referrals' : referrals'[c].owner = v => c \in Own(v) /\ referrals'[c] = referrals[c]
    BY <1>4, <1>8, <1>12 DEF Own
  <2>2. \A c \in Own(v) : c \in DOMAIN referrals' /\ referrals'[c] = referrals[c]
    BY <1>2, <1>8, <1>12 DEF Own
  <2>3. \A b \in Askers : asker'[b] # NotAsking => asker'[b] = asker[b]
    BY <1>6
  <2>4. v \in DOMAIN rowKey' /\ rowKey'[v] # NoCode => v \in DOMAIN rowKey /\ rowKey'[v] = rowKey[v]
    BY <1>3
  <2> QED BY <1>3, <2>1, <2>2, <2>3, <2>4 DEF Untouched
<1>13. DOMAIN rowKey' \subseteq members'
  BY <1>1, <1>3
<1> QED BY <1>1, <1>3, <1>7, <1>9, <1>10, <1>11, <1>12, <1>13, OwnerStep

\* Referrals that are deleted, of some users at a time.
LEMMA LapseStep ==
    ASSUME ReferralsInv, NEW cs \in SUBSET DOMAIN referrals, \A c \in cs : referrals[c].owner # NoOwner, Lapse(cs)
    PROVE  ReferralsInv'
<1> DEFINE owners == {referrals[c].owner : c \in cs}
           late == {referrals[c].owner : c \in {d \in cs : referrals[d].byExpiry}}
<1>1. /\ ReferralsTypeOK /\ lastCode \in Nat /\ today \in Int
      /\ \A c \in DOMAIN referrals : referrals[c] \in Ticket /\ c \in 1..lastCode
      /\ members \subseteq Referrers /\ DOMAIN rowKey \subseteq members
      /\ asker \in [Askers -> {NotAsking} \cup Ask]
  BY DEF ReferralsInv, ReferralsTypeOK
<1>2. /\ lastCode' = lastCode /\ referrals' = Without(referrals, cs)
      /\ rowKey' = [v \in DOMAIN rowKey |-> IF v \in late THEN NoCode ELSE rowKey[v]]
      /\ promised' = promised \ owners
      /\ raced' = raced \cup {v \in owners : \E a \in Askers : asker[a] # NotAsking /\ asker[a].user = v}
      /\ UNCHANGED <<today, profiles, setting, members, asker, tangled, withdrawn>>
  BY DEF Lapse, Races, NoKey, userOnly
<1>3. DOMAIN referrals' = DOMAIN referrals \ cs /\ \A c \in DOMAIN referrals' : referrals'[c] = referrals[c]
  BY <1>2 DEF Without, Restrict
<1>4. Moves
  BY <1>1, <1>2, <1>3 DEF Moves
<1>5. \A c \in DOMAIN referrals : referrals[c].owner = NoOwner => c \in DOMAIN referrals'
  BY <1>3
<1> HIDE DEF late
<1>6. ASSUME NEW v \in Referrers, v \in owners PROVE UserOK(v)'
  <2>1. Own(v) # {} /\ Own(v)' \subseteq Own(v)
    BY <1>3, <1>6 DEF Own
  <2>2. UserOK(v) /\ v \in members'
    BY <1>2, <2>1 DEF ReferralsInv, UserOK
  <2>3. v \notin raced' => OwnOK(v)'
    BY <1>2, <1>6, <2>1, <2>2 DEF UserOK, OwnOK
  <2> QED BY <1>2, <1>6, <2>2, <2>3, UserTouched
<1>7. ASSUME NEW v \in Referrers, v \notin owners PROVE Untouched(v)
  BY <1>2, <1>3, <1>7 DEF Untouched, Own
<1>8. DOMAIN rowKey' \subseteq members'
  BY <1>1, <1>2
<1> QED BY <1>1, <1>2, <1>4, <1>5, <1>6, <1>7, <1>8, OwnerStep

\* checkInvite, of one referral.
LEMMA UseReferralStep ==
    ASSUME ReferralsInv, NEW c \in DOMAIN referrals, UseReferral(c)
    PROVE  ReferralsInv'
<1>1. CASE Lapse({c})
  BY <1>1, LapseStep DEF UseReferral
<1>2. CASE /\ referrals' = [referrals EXCEPT ![c].uses = @ - 1]
           /\ Races({referrals[c].owner})
           /\ UNCHANGED <<userOnly, rowKey, lastCode, promised, withdrawn, signedWith>>
  <2> DEFINE t == [referrals[c] EXCEPT !.uses = @ - 1]
  <2>1. /\ ReferralsTypeOK /\ lastCode \in Nat /\ today \in Int
        /\ \A d \in DOMAIN referrals : referrals[d] \in Ticket /\ d \in 1..lastCode
        /\ members \subseteq Referrers /\ DOMAIN rowKey \subseteq members
        /\ asker \in [Askers -> {NotAsking} \cup Ask]
    BY DEF ReferralsInv, ReferralsTypeOK
  <2>2. t \in Ticket /\ t.owner = referrals[c].owner /\ t.byExpiry = referrals[c].byExpiry
    <3>1. referrals[c] \in Ticket /\ referrals[c].uses \in Int
      BY <2>1 DEF Ticket
    <3> QED BY <3>1 DEF Ticket
  <2>3. referrals' = [referrals EXCEPT ![c] = t]
    BY <1>2
  <2> HIDE DEF t
  <2>4. /\ DOMAIN referrals' = DOMAIN referrals /\ referrals'[c] = t
        /\ \A d \in DOMAIN referrals : d # c => referrals'[d] = referrals[d]
    BY <2>3
  <2>u. PICK u \in Referrers : u = referrals[c].owner
    BY <2>1 DEF UseReferral, Ticket
  <2>5. /\ UNCHANGED <<today, profiles, setting, members, asker, tangled, rowKey, lastCode, promised, withdrawn>>
        /\ raced' = raced \cup {v \in {u} : \E a \in Askers : asker[a] # NotAsking /\ asker[a].user = v}
    BY <1>2, <2>u DEF Races, userOnly
  <2>6. Moves
    BY <2>1, <2>2, <2>4, <2>5 DEF Moves
  <2>7. Own(u)' = Own(u) /\ c \in Own(u) /\ \A d \in Own(u) : referrals'[d].byExpiry = referrals[d].byExpiry
    BY <2>2, <2>4, <2>u DEF Own
  <2>8. UserOK(u)'
    <3>1. UserOK(u) /\ u \in members'
      BY <2>5, <2>7 DEF ReferralsInv, UserOK
    <3>2. u \notin raced' => OwnOK(u)'
      BY <2>5, <2>7, <3>1 DEF UserOK, OwnOK
    <3> QED BY <2>5, <3>1, <3>2, UserTouched
  <2>9. ASSUME NEW v \in Referrers, v # u PROVE Untouched(v)
    BY <2>2, <2>4, <2>5, <2>u, <2>9 DEF Untouched, Own
  <2> QED BY <2>1, <2>4, <2>5, <2>6, <2>8, <2>9, OwnerStep
<1> QED BY <1>1, <1>2 DEF UseReferral

\* Every step keeps what is needed.
LEMMA ReferralsStep == ReferralsInv /\ ReferralsNext => ReferralsInv'
<1> SUFFICES ASSUME ReferralsInv, ReferralsNext PROVE ReferralsInv'
  OBVIOUS
<1>1. ASSUME NEW n \in Names,
             \/ CreateProfile(n) \/ DeleteProfile(n) \/ SetDefaultProfile(n) \/ WriteDefault(n)
             \/ DisableReferralForProfile(n)
             \/ \E m \in Names : ReplaceRawProfile(n, m)
             \/ \E from \in Sources, byExpiry \in BOOLEAN : EnableReferralForProfile(n, from, byExpiry)
             \/ \E u \in Referrers : SignUp(u, n)
      PROVE  ReferralsInv'
  BY <1>1, RowsStep, DefaultStep, TemplateStep, SignUpStep
<1>2. ASSUME NEW u \in members,
             \/ \E from \in Sources \cup Templates, byExpiry \in BOOLEAN : EnableReferralForUsers(u, from, byExpiry)
             \/ DisableReferralForUsers(u)
             \/ \E a \in Askers : GetMyReferral(a, u)
      PROVE  ReferralsInv'
  BY <1>2, GiveStep, TakeStep, AskStep
<1>3. CASE \E a \in Askers : WriteMyReferral(a)
  BY <1>3, WriteStep
<1>4. CASE \E c \in DOMAIN referrals : UseReferral(c)
  BY <1>4, UseReferralStep
<1>5. CASE checkInvites
  <2> DEFINE expired == {c \in DOMAIN referrals : /\ referrals[c].owner # NoOwner /\ referrals[c].byExpiry
                                                  /\ Expired(referrals[c])}
  <2>1. Lapse(expired)
    BY <1>5 DEF checkInvites
  <2>2. expired \in SUBSET DOMAIN referrals /\ \A c \in expired : referrals[c].owner # NoOwner
    OBVIOUS
  <2> HIDE DEF expired
  <2> QED BY <2>1, <2>2, LapseStep
<1>6. CASE DayPasses
  <2>1. /\ today' = today + 1
        /\ UNCHANGED <<profiles, setting, referrals, rowKey, members, asker, lastCode, promised, withdrawn,
                       raced, tangled>>
    BY <1>6 DEF DayPasses, grantVars
  <2>2. /\ ReferralsTypeOK /\ today \in Int /\ members \subseteq Referrers /\ DOMAIN rowKey \subseteq members
        /\ asker \in [Askers -> {NotAsking} \cup Ask]
    BY DEF ReferralsInv, ReferralsTypeOK
  <2>3. \A u \in Referrers : Untouched(u)
    BY <2>1 DEF Untouched, Own
  <2>4. Moves
    BY <2>1, <2>2, MovesNot
  <2> QED BY <2>1, <2>2, <2>3, <2>4, OwnerStep
<1> QED BY <1>1, <1>2, <1>3, <1>4, <1>5, <1>6 DEF ReferralsNext

\* Nor does a step of another part break it.
LEMMA ReferralsRest == ASSUME ReferralsInv, UNCHANGED referralVars PROVE ReferralsInv'
<1>1. UNCHANGED <<today, profiles, setting, referrals, rowKey, members, asker, lastCode, promised, withdrawn,
                  raced, tangled>>
  BY DEF referralVars
<1>2. /\ ReferralsTypeOK /\ today \in Int /\ members \subseteq Referrers /\ DOMAIN rowKey \subseteq members
      /\ asker \in [Askers -> {NotAsking} \cup Ask]
  BY DEF ReferralsInv, ReferralsTypeOK
<1>3. \A u \in Referrers : Untouched(u)
  BY <1>1 DEF Untouched, Own
<1>4. Moves
  BY <1>1, <1>2, MovesNot
<1> QED BY <1>1, <1>2, <1>3, <1>4, OwnerStep

\* It holds before anything is asked, whatever rows earlier versions left.
LEMMA ReferralsAtFirst == ReferralsInit => ReferralsInv
<1> SUFFICES ASSUME ReferralsInit PROVE ReferralsInv
  OBVIOUS
<1>1. /\ today = 0 /\ setting = Done /\ lastCode = 1
      /\ members \in SUBSET Referrers
      /\ asker = [a \in Askers |-> NotAsking]
      /\ promised = {} /\ withdrawn = {} /\ raced = {}
  BY DEF ReferralsInit
<1>2. PICK byExpiry \in BOOLEAN, from \in Sources : referrals = [c \in {1} |-> Referral(NoOwner, byExpiry, from)]
  BY DEF ReferralsInit
<1>3. /\ DOMAIN referrals = {1} /\ referrals[1] \in Ticket /\ referrals[1].owner = NoOwner
  <2>1. from.uses \in Int /\ from.days \in Int /\ today \in Int
    BY <1>1, ReferralsAssumption
  <2>2. Referral(NoOwner, byExpiry, from) \in Ticket /\ Referral(NoOwner, byExpiry, from).owner = NoOwner
    BY <2>1, ReferralSays
  <2> QED BY <1>2, <2>2
<1>4. PICK us \in SUBSET members : rowKey \in [us -> {NoCode, 1}]
  BY DEF ReferralsInit
<1>5. /\ \A n, m \in DOMAIN profiles : n = m
      /\ \A n \in DOMAIN profiles : profiles[n] = [default |-> FALSE, template |-> 1]
  <2> DEFINE x == CHOOSE m \in Names : TRUE
             plain == [default |-> FALSE, template |-> 1]
  <2>1. profiles = <<>> \/ profiles = [n \in {x} |-> plain]
    BY DEF ReferralsInit
  <2> HIDE DEF x, plain
  <2>2. CASE profiles = <<>>
    BY <2>2
  <2>3. CASE profiles = [n \in {x} |-> plain]
    BY <2>3 DEF plain
  <2> QED BY <2>1, <2>2, <2>3
<1>6. Done.rows = <<>> /\ DOMAIN Done.rows = {} /\ Done = [name |-> Done.name, rows |-> Done.rows]
  BY DEF Done
<1>7. \A n \in DOMAIN profiles : profiles[n] \in Profile /\ profiles[n].template = 1 /\ ~profiles[n].default
  <2> DEFINE plain == [default |-> FALSE, template |-> 1]
  <2>1. plain \in Profile /\ plain.template = 1 /\ plain.default = FALSE
    BY DEF Profile
  <2>2. \A n \in DOMAIN profiles : profiles[n] = plain
    BY <1>5
  <2> HIDE DEF plain
  <2>3. ASSUME NEW n \in DOMAIN profiles
        PROVE  profiles[n] \in Profile /\ profiles[n].template = 1 /\ profiles[n].default = FALSE
    BY <2>1, <2>2
  <2> QED BY <2>3
<1>8. ReferralsTypeOK
  <2>1. ProfileRows(profiles) /\ ProfileRows(setting.rows)
    BY <1>1, <1>3, <1>6, <1>7 DEF ProfileRows
  <2> QED BY <1>1, <1>3, <1>4, <1>6, <2>1 DEF ReferralsTypeOK
<1>9. SettingOK
  BY <1>1, <1>3, <1>5, <1>7 DEF SettingOK
<1>10. \A a \in Askers : AskerOK(a) /\ asker[a] = NotAsking
  BY <1>1 DEF AskerOK
<1>11. ASSUME NEW u \in Referrers PROVE UserOK(u)
  <2>1. Own(u) = {}
    BY <1>3, ReferralsAssumption DEF Own
  <2> QED BY <1>1, <1>10, <2>1 DEF UserOK, OwnOK, Asks
<1> QED BY <1>8, <1>9, <1>10, <1>11 DEF ReferralsInv

\* A set whose members are all the same has one at most.
LEMMA AtMostOne == ASSUME NEW S, \A x, y \in S : x = y PROVE Cardinality(S) <= 1
<1>1. CASE S = {}
  BY <1>1, FS_EmptySet
<1>2. ASSUME NEW x \in S PROVE Cardinality(S) <= 1
  <2>1. S = {x}
    BY <1>2
  <2>2. Cardinality({x}) = 1
    BY FS_Singleton
  <2> QED BY <2>1, <2>2
<1> QED BY <1>1, <1>2

\* The promise follows.
LEMMA ReferralsSafe == ReferralsInv => ReferralsKept
<1> SUFFICES ASSUME ReferralsInv PROVE ReferralsKept
  OBVIOUS
<1>1. ASSUME NEW u \in Referrers \ raced
      PROVE  /\ Cardinality(Own(u)) <= 1
             /\ u \in promised => Own(u) # {}
             /\ u \in withdrawn => Own(u) = {} /\ (u \in DOMAIN rowKey => rowKey[u] = NoCode)
  <2>1. OwnOK(u)
    BY DEF ReferralsInv, UserOK
  <2>2. Cardinality(Own(u)) <= 1
    BY <2>1, AtMostOne DEF OwnOK
  <2> QED BY <2>1, <2>2 DEF OwnOK
<1>2. ASSUME ~tangled, setting = Done
      PROVE  Cardinality({n \in DOMAIN profiles : profiles[n].default}) <= 1
  <2> DEFINE S == {n \in DOMAIN profiles : profiles[n].default}
  <2>1. \A x, y \in S : x = y
    BY <1>2 DEF ReferralsInv, SettingOK
  <2> HIDE DEF S
  <2>2. Cardinality(S) <= 1
    BY <2>1, AtMostOne
  <2> QED BY <2>2 DEF S
<1>3. ProfilesInOrder
  BY <1>2 DEF ReferralsInv, SettingOK, ProfilesInOrder
<1> QED BY <1>1, <1>3 DEF ReferralsKept, ReferralsOfUsers

\* Whatever administrators, users and the clock do in whatever order: who changed no referral
\* between a read and its write has one at most, keeps one given to keep, and gets none back
\* that was taken; of the profiles one at most is the default and no two share a template,
\* unless one changed while the default was set (GetMyReferral, api-userpage.go:756;
\* SetDefaultProfile, api-profiles.go:138).
THEOREM ReferralsHold == Spec => []OneReferral
<1> DEFINE Inv == topic = "referrals" => ReferralsInv
<1>1. Init => Inv
  BY ReferralsAtFirst DEF Init
<1>2. Inv /\ [Next]_vars => Inv'
  <2> SUFFICES ASSUME Inv, [Next]_vars PROVE Inv'
    OBVIOUS
  <2>1. CASE Referring
    BY <2>1, ReferralsStep DEF Referring
  <2>2. CASE SignIns \/ Resets \/ Changes \/ Notices
    BY <2>2 DEF SignIns, Resets, Changes, Notices
  <2>3. CASE UNCHANGED vars
    BY <2>3, ReferralsRest DEF vars
  <2>4. QED
    BY <2>1, <2>2, <2>3 DEF Next
<1>3. Inv => OneReferral
  BY ReferralsSafe DEF OneReferral
<1>4. QED
  BY <1>1, <1>2, <1>3, PTL DEF Spec


-----------------------------------------------------------------------------
(* Changes of accounts.                                                    *)

Addrs == Addresses \cup {NoAddr}
Rows == [addr : Addrs, contact : BOOLEAN, admin : BOOLEAN, label : Labels \cup {NoLabel}]
Policies == [template : {"own", "edited", "profile"}, disabled : BOOLEAN]
RowChange == [field : {"admin"}, admin : BOOLEAN] \cup [field : {"label"}, label : Labels]
             \cup [field : {"addr"}, addr : Addrs]
RowWork == [kind : {"row"}, user : Holders, seen : Rows, change : RowChange]
ErrorLists == [named : SUBSET Holders, unnamed : BOOLEAN, homescreen : SUBSET Holders,
               ombi : SUBSET Holders]
BatchWork == [kind : BatchKinds, user : Holders \cup {Nobody}, all : SUBSET Holders,
              left : SUBSET Holders, what : {{}} \cup Parts, errors : ErrorLists,
              done : SUBSET Holders, shared : BOOLEAN, seen : {<<>>} \cup Policies]
HandlerWork == {Idle} \cup RowWork \cup BatchWork

AccountsTypeOK ==
    /\ exists \subseteq Holders
    /\ policy \in [Holders -> Policies] /\ wantPolicy \in [Holders -> Policies]
    /\ cachedPolicy \in {<<>>} \cup [Holders -> Policies]
    /\ \A u \in DOMAIN row : row[u] \in Rows
    /\ want \in [Holders -> Rows] /\ serviceAddr \in [Holders -> Addrs]
    /\ asked \in [Holders -> SUBSET Addrs]
    /\ \A l \in links : l.user \in Holders /\ l.addr \in Addrs
    /\ handler \in [Handlers -> HandlerWork]

Revises(h, u) == handler[h].kind = "row" /\ handler[h].user = u
Batches(h) == handler[h].kind \in BatchKinds
Switches(h) == handler[h].kind \in {"enable", "disable"}

\* What is kept of a user, and what a handler is about to write.
RowOK(u) ==
    u \in exists =>
        /\ Row(u).addr \in asked[u]
        /\ \A h \in Handlers : Revises(h, u) =>
              /\ handler[h].seen.addr \in asked[u]
              /\ handler[h].change.field = "addr" => handler[h].change.addr \in asked[u]
        /\ u \notin crossed =>
              /\ \A h \in Handlers : Revises(h, u) => handler[h].seen = Row(u)
              /\ Row(u).addr = want[u].addr
              /\ u \notin wiped => Row(u).admin = want[u].admin /\ Row(u).label = want[u].label
              /\ u \notin unsynced => serviceAddr[u] = Row(u).addr

\* A batch that meets another knows it, and without one the client remembers nothing.
AloneOK ==
    /\ \A g, h \in Handlers : Batches(g) /\ Batches(h) /\ g # h => handler[h].shared
    /\ (\A h \in Handlers : ~Batches(h)) => cachedPolicy = <<>>

\* A batch that is alone writes the policy there is.
RememberedOK(u) ==
    u \notin outdated =>
        /\ policy[u] = wantPolicy[u]
        /\ \A h \in Handlers : Switches(h) /\ ~handler[h].shared =>
              /\ cachedPolicy # <<>> => cachedPolicy[u].template = policy[u].template
              /\ handler[h].user = u => handler[h].seen.template = policy[u].template

\* The services follow.
FollowedOK(u) ==
    u \notin unsynced =>
        /\ u \in ombiUser <=> u \in exists
        /\ u \in role => u \in exists /\ ~policy[u].disabled

\* Everybody of a batch is still to come, in hand, done or told; `there` are the users.
Told(b) == b.errors.named \cup b.errors.homescreen \cup b.errors.ombi
SwitchOK(b) ==
    /\ b.user # Nobody =>
          /\ b.seen \in Policies
          /\ b.user \in b.all /\ b.user \notin b.left \cup b.done \cup b.errors.named
    /\ b.errors.named \subseteq b.all /\ b.errors.named \cap (b.left \cup b.done) = {}
    /\ ~b.errors.unnamed => b.all \subseteq b.left \cup b.done \cup b.errors.named \cup {b.user}
    /\ b.errors.unnamed => \E x \in b.all : x \notin b.left \cup b.done \cup {b.user}
DeleteOK(b, there) ==
    /\ b.user = Nobody /\ b.all = b.left \cup b.done \cup b.errors.named
    /\ b.errors.named \cap (b.left \cup b.done) = {} /\ b.done \cap there = {}
    /\ b.errors.unnamed => b.errors.named # {}
ApplyOK(b) ==
    /\ b.user = Nobody /\ b.what \in Parts
    /\ b.all = b.left \cup b.done \cup Told(b) /\ Told(b) \cap (b.left \cup b.done) = {}
BatchOK(b, there) ==
    /\ b.left \subseteq b.all /\ b.done \subseteq b.all \ b.left
    /\ b.kind \in {"enable", "disable"} => SwitchOK(b)
    /\ b.kind = "delete" => DeleteOK(b, there)
    /\ b.kind = "apply" => ApplyOK(b)

AnswerOK ==
    LET e == answer.errors
    IN  /\ answer.kind \in {"enable", "disable"} =>
              /\ answer.code = 200 <=> answer.done = answer.all
              /\ ~e.unnamed => e.named = answer.all \ answer.done
        /\ answer.kind = "delete" =>
              /\ answer.still \subseteq e.named
              /\ answer.code = 200 <=> answer.done = answer.all
              /\ answer.bare => answer.done = {} \/ e.unnamed
        /\ answer.kind = "apply" =>
              /\ answer.code = 500 => answer.done = {}
              /\ e.named \cup e.homescreen \cup e.ombi = answer.all \ answer.done

AccountsInv ==
    /\ AccountsTypeOK /\ AloneOK /\ AnswerOK
    /\ \A u \in Holders : RowOK(u) /\ RememberedOK(u) /\ FollowedOK(u)
    /\ \A h \in Handlers : Batches(h) => BatchOK(handler[h], exists)

\* What a handler is at.
LEMMA WorkSays ==
    ASSUME AccountsTypeOK, NEW h \in Handlers
    PROVE  /\ handler[h].kind = "row" => handler[h] \in RowWork
           /\ Batches(h) => handler[h] \in BatchWork
           /\ Switches(h) => Batches(h)
           /\ handler[h] = Idle => ~Batches(h) /\ handler[h].kind # "row"
<1>1. handler[h] \in HandlerWork
  BY DEF AccountsTypeOK
<1>2. \A k \in BatchKinds : k # "row" /\ k # "idle"
  BY DEF BatchKinds
<1>3. \A w \in RowWork : w.kind = "row"
  BY DEF RowWork
<1>4. \A w \in BatchWork : w.kind \in BatchKinds
  BY DEF BatchWork
<1>5. Idle.kind = "idle"
  BY DEF Idle
<1>6. Switches(h) => Batches(h)
  BY DEF Switches, Batches, BatchKinds
<1>7. QED
  BY <1>1, <1>2, <1>3, <1>4, <1>5, <1>6 DEF HandlerWork, Batches

\* The row a user is known by.
LEMMA RowSays == ASSUME AccountsTypeOK, NEW u PROVE Row(u) \in Rows
  BY DEF AccountsTypeOK, Row, NewRow, Rows, Addrs

LEMMA RowWritten ==
    ASSUME NEW u, NEW r, row' = With(row, u, r)
    PROVE  /\ Row(u)' = r /\ \A v : v # u => Row(v)' = Row(v)
           /\ \A v \in DOMAIN row' : row'[v] = r \/ (v \in DOMAIN row /\ row'[v] = row[v])
  BY DEF With, Row

LEMMA RowRemoved ==
    ASSUME NEW u, row' = Without(row, {u})
    PROVE  /\ \A v : v # u => Row(v)' = Row(v)
           /\ \A v \in DOMAIN row' : v \in DOMAIN row /\ row'[v] = row[v]
  BY DEF Without, Restrict, Row

\* Nothing is said anew of a user whose row no step writes.
LEMMA RowStays ==
    ASSUME NEW u \in Holders, RowOK(u), u \in exists' => u \in exists,
           Row(u)' = Row(u), want'[u] = want[u], u \in wiped => u \in wiped',
           u \in crossed => u \in crossed', u \in unsynced => u \in unsynced',
           serviceAddr'[u] = serviceAddr[u], asked[u] \subseteq asked'[u],
           \A h \in Handlers : handler'[h].kind = "row" /\ handler'[h].user = u
                               => handler'[h] = handler[h]
    PROVE  RowOK(u)'
<1>1. \A h \in Handlers : Revises(h, u)' => Revises(h, u) /\ handler'[h] = handler[h]
  BY DEF Revises
<1>2. QED
  BY <1>1 DEF RowOK

\* The policy of a user that no step writes.
LEMMA PolicyStays ==
    ASSUME NEW u \in Holders, RememberedOK(u), u \in outdated => u \in outdated',
           policy'[u] = policy[u], wantPolicy'[u] = wantPolicy[u],
           cachedPolicy' = cachedPolicy \/ cachedPolicy' = <<>>,
           \A h \in Handlers : handler'[h].kind \in {"enable", "disable"} /\ ~handler'[h].shared =>
               /\ handler[h].kind \in {"enable", "disable"} /\ ~handler[h].shared
               /\ handler'[h].user = u => handler[h].user = u /\ handler'[h].seen = handler[h].seen
    PROVE  RememberedOK(u)'
  BY DEF RememberedOK, Switches

\* A batch that goes on is the same batch for the others.
LEMMA BatchGoesOn ==
    ASSUME AccountsInv, NEW h \in Handlers, Batches(h), NEW n \in BatchWork,
           handler' = [handler EXCEPT ![h] = n], n.kind = handler[h].kind, n.shared = handler[h].shared,
           exists' \subseteq exists, BatchOK(n, exists')
    PROVE  /\ handler' \in [Handlers -> HandlerWork] /\ handler'[h] = n
           /\ AloneOK'
           /\ \A g \in Handlers : Batches(g)' => BatchOK(handler'[g], exists')
           /\ \A g \in Handlers : handler'[g].kind = "row" => handler'[g] = handler[g]
           /\ \A g \in Handlers : g # h => handler'[g] = handler[g]
<1>1. handler \in [Handlers -> HandlerWork]
  BY DEF AccountsInv, AccountsTypeOK
<1>2. /\ handler' \in [Handlers -> HandlerWork] /\ handler'[h] = n
      /\ \A g \in Handlers : g # h => handler'[g] = handler[g]
  BY <1>1 DEF HandlerWork
<1>3. \A g \in Handlers : /\ Batches(g)' <=> Batches(g)
                          /\ handler'[g].shared = handler[g].shared
  BY <1>2 DEF Batches
<1>4. AloneOK'
  BY <1>3 DEF AccountsInv, AloneOK
<1>5. ASSUME NEW g \in Handlers, Batches(g), g # h
      PROVE  BatchOK(handler'[g], exists')
  BY <1>2, <1>5 DEF AccountsInv, BatchOK, DeleteOK
<1>6. n.kind # "row"
  BY DEF Batches, BatchKinds
<1>7. QED
  BY <1>2, <1>3, <1>4, <1>5, <1>6

\* A handler that takes up or leaves a row is no batch.
LEMMA RowsOnly ==
    ASSUME AccountsInv, NEW h \in Handlers, ~Batches(h), NEW n \in {Idle} \cup RowWork,
           handler' = [handler EXCEPT ![h] = n], UNCHANGED <<jellyfinVars, unsynced, answer>>
    PROVE  /\ handler' \in [Handlers -> HandlerWork] /\ handler'[h] = n
           /\ \A g \in Handlers : g # h => handler'[g] = handler[g]
           /\ AloneOK'
           /\ \A g \in Handlers : Batches(g)' => BatchOK(handler'[g], exists')
           /\ \A u \in Holders : RememberedOK(u)'
<1>1. handler \in [Handlers -> HandlerWork]
  BY DEF AccountsInv, AccountsTypeOK
<1>2. /\ handler' \in [Handlers -> HandlerWork] /\ handler'[h] = n
      /\ \A g \in Handlers : g # h => handler'[g] = handler[g]
  BY <1>1 DEF HandlerWork
<1>3. n.kind \notin BatchKinds
  BY DEF Idle, RowWork, BatchKinds
<1>4. \A g \in Handlers : /\ Batches(g)' => Batches(g) /\ handler'[g] = handler[g]
                          /\ Batches(g) => handler'[g] = handler[g]
  BY <1>2, <1>3 DEF Batches
<1>5. AloneOK'
  BY <1>4 DEF AccountsInv, AloneOK, Batches, jellyfinVars
<1>6. \A g \in Handlers : Batches(g)' => BatchOK(handler'[g], exists')
  BY <1>4 DEF AccountsInv, jellyfinVars
<1>7. ASSUME NEW u \in Holders PROVE RememberedOK(u)'
  <2>1. \A g \in Handlers : Switches(g)' => Switches(g) /\ handler'[g] = handler[g]
    BY <1>4 DEF Switches, Batches, BatchKinds
  <2>2. RememberedOK(u)
    BY DEF AccountsInv
  <2>3. QED
    BY <2>1, <2>2 DEF RememberedOK, jellyfinVars
<1>8. QED
  BY <1>2, <1>5, <1>6, <1>7

\* Reading a row.
LEMMA ReadsStep ==
    ASSUME AccountsInv, NEW h \in Handlers, NEW u \in Holders, NEW change \in RowChange,
           Reads(h, u, change), asked' \in [Holders -> SUBSET Addrs],
           \A v \in Holders : asked[v] \subseteq asked'[v],
           change.field = "addr" => change.addr \in asked'[u],
           \A l \in links' : l.user \in Holders /\ l.addr \in Addrs
    PROVE  AccountsInv'
<1> DEFINE n == [kind |-> "row", user |-> u, seen |-> Row(u), change |-> change]
<1>1. AccountsTypeOK /\ AnswerOK /\ \A v \in Holders : RowOK(v) /\ FollowedOK(v)
  BY DEF AccountsInv
<1>2. n \in RowWork /\ n.kind = "row" /\ n.user = u /\ n.seen = Row(u) /\ n.change = change
  BY <1>1, RowSays DEF RowWork
<1>3. ~Batches(h) /\ handler' = [handler EXCEPT ![h] = n]
      /\ UNCHANGED <<jellyfinVars, unsynced, answer>>
  BY <1>1, WorkSays DEF Reads
<1> HIDE DEF n
<1>4. /\ handler' \in [Handlers -> HandlerWork] /\ handler'[h] = n
      /\ \A g \in Handlers : g # h => handler'[g] = handler[g]
      /\ AloneOK'
      /\ \A g \in Handlers : Batches(g)' => BatchOK(handler'[g], exists')
      /\ \A v \in Holders : RememberedOK(v)'
  BY <1>2, <1>3, RowsOnly
<1>5. AccountsTypeOK'
  BY <1>1, <1>4 DEF AccountsTypeOK, Reads, jellyfinVars
<1>6. AnswerOK'
  BY <1>1, <1>3 DEF AnswerOK
<1>7. ASSUME NEW v \in Holders PROVE FollowedOK(v)'
  BY <1>1, <1>3 DEF FollowedOK, jellyfinVars
<1>8. \A v : Row(v)' = Row(v)
  BY DEF Reads, Row
<1>9. ASSUME NEW v \in Holders PROVE RowOK(v)'
  <2>1. CASE v # u
    BY <1>1, <1>2, <1>4, <1>8, <2>1, RowStays DEF Reads, jellyfinVars
  <2>2. CASE v = u
    <3>1. \A g \in Handlers : Revises(g, u)' => /\ g # h => Revises(g, u) /\ handler'[g] = handler[g]
                                                /\ g = h => handler'[g] = n
      BY <1>4 DEF Revises
    <3>2. QED
      BY <1>1, <1>2, <1>8, <2>2, <3>1 DEF RowOK, Reads, jellyfinVars
  <2>3. QED
    BY <2>1, <2>2
<1>10. QED
  BY <1>4, <1>5, <1>6, <1>7, <1>9 DEF AccountsInv, Batches

LEMMA EmailsStep ==
    ASSUME AccountsInv, NEW h \in Handlers, NEW u \in Holders, NEW a \in Addrs, ModifyEmails(h, u, a)
    PROVE  AccountsInv'
<1> DEFINE c == [field |-> "addr", addr |-> a]
<1>1. AccountsTypeOK
  BY DEF AccountsInv
<1>2. c \in RowChange /\ c.field = "addr" /\ c.addr = a
  BY DEF RowChange
<1>3. Reads(h, u, c) /\ links' = links /\ asked' = [asked EXCEPT ![u] = @ \cup {a}]
  BY DEF ModifyEmails
<1> HIDE DEF c
<1>4. /\ asked' \in [Holders -> SUBSET Addrs]
      /\ \A v \in Holders : asked[v] \subseteq asked'[v]
      /\ a \in asked'[u]
  BY <1>1, <1>3 DEF AccountsTypeOK
<1>5. \A l \in links' : l.user \in Holders /\ l.addr \in Addrs
  BY <1>1, <1>3 DEF AccountsTypeOK
<1>6. QED
  BY <1>2, <1>3, <1>4, <1>5, ReadsStep

LEMMA FlagStep ==
    ASSUME AccountsInv, NEW h \in Handlers, NEW u \in Holders,
           \/ \E admin \in BOOLEAN : SetAccountsAdmin(h, u, admin)
           \/ \E label \in Labels : ModifyLabels(h, u, label)
    PROVE  AccountsInv'
<1>1. AccountsTypeOK
  BY DEF AccountsInv
<1>2. PICK c \in RowChange : c.field # "addr" /\ Reads(h, u, c) /\ UNCHANGED <<links, asked>>
  <2>1. CASE \E admin \in BOOLEAN : SetAccountsAdmin(h, u, admin)
    <3>1. PICK admin \in BOOLEAN : SetAccountsAdmin(h, u, admin)
      BY <2>1
    <3>2. [field |-> "admin", admin |-> admin] \in RowChange
      BY DEF RowChange
    <3>3. QED
      BY <3>1, <3>2 DEF SetAccountsAdmin
  <2>2. CASE \E label \in Labels : ModifyLabels(h, u, label)
    <3>1. PICK label \in Labels : ModifyLabels(h, u, label)
      BY <2>2
    <3>2. [field |-> "label", label |-> label] \in RowChange
      BY DEF RowChange
    <3>3. QED
      BY <3>1, <3>2 DEF ModifyLabels
  <2>3. QED
    BY <2>1, <2>2
<1>3. QED
  BY <1>1, <1>2, ReadsStep DEF AccountsTypeOK

\* What is quiet: no handler moves, and no row, batch, policy or service.
LEMMA QuietStep ==
    ASSUME AccountsInv, UNCHANGED <<exists, policy, wantPolicy, outdated, ombiUser, role, row, want, wiped,
                                    crossed, unsynced, answer, serviceAddr, asked, handler>>,
           cachedPolicy' = cachedPolicy \/ cachedPolicy' = <<>>,
           \A l \in links' : l.user \in Holders /\ l.addr \in Addrs
    PROVE  AccountsInv'
<1>1. AccountsTypeOK'
  BY DEF AccountsInv, AccountsTypeOK
<1>2. AloneOK' /\ AnswerOK'
  BY DEF AccountsInv, AloneOK, AnswerOK, Batches
<1>3. ASSUME NEW u \in Holders PROVE RowOK(u)'
  BY RowStays DEF AccountsInv, Row
<1>4. ASSUME NEW u \in Holders PROVE RememberedOK(u)'
  BY PolicyStays DEF AccountsInv
<1>5. ASSUME NEW u \in Holders PROVE FollowedOK(u)'
  BY DEF AccountsInv, FollowedOK
<1>6. QED
  BY <1>1, <1>2, <1>3, <1>4, <1>5 DEF AccountsInv, Batches

LEMMA MyEmailStep ==
    ASSUME AccountsInv, NEW h \in Handlers, NEW u \in Holders, NEW a \in Addrs, ModifyMyEmail(h, u, a)
    PROVE  AccountsInv'
<1>1. CASE confirm
  <2>1. links' = links \cup {[user |-> u, addr |-> a]}
    BY <1>1 DEF ModifyMyEmail
  <2>2. \A l \in links' : l.user \in Holders /\ l.addr \in Addrs
    BY <2>1 DEF AccountsInv, AccountsTypeOK
  <2>3. QED
    BY <1>1, <2>2, QuietStep DEF ModifyMyEmail, jellyfinVars
<1>2. CASE ~confirm
  BY <1>2, EmailsStep DEF ModifyMyEmail
<1>3. QED
  BY <1>1, <1>2

LEMMA LinkStep ==
    ASSUME AccountsInv, \/ \E l \in links : LinkExpires(l)
                        \/ ClearEmails
                        \/ Forgets
    PROVE  AccountsInv'
<1>1. \A l \in links' : l \in links
  BY DEF LinkExpires, ClearEmails, Forgets
<1>2. \A l \in links' : l.user \in Holders /\ l.addr \in Addrs
  BY <1>1 DEF AccountsInv, AccountsTypeOK
<1>3. CASE \E l \in links : LinkExpires(l)
  BY <1>2, <1>3, QuietStep DEF LinkExpires, jellyfinVars
<1>4. CASE ClearEmails
  BY <1>2, <1>4, QuietStep DEF ClearEmails, jellyfinVars
<1>5. CASE Forgets
  BY <1>2, <1>5, QuietStep DEF Forgets
<1>6. QED
  BY <1>3, <1>4, <1>5

LEMMA ConfirmStep ==
    ASSUME AccountsInv, NEW h \in Handlers, NEW l \in links, ConfirmMyAction(h, l)
    PROVE  AccountsInv'
  BY EmailsStep DEF ConfirmMyAction, AccountsInv, AccountsTypeOK

\* Writing a row as it was read.
LEMMA RewrittenSays ==
    ASSUME NEW old \in Rows, NEW c \in RowChange
    PROVE  /\ Rewritten(old, c) \in Rows
           /\ c.field = "addr" => Rewritten(old, c).addr = c.addr
           /\ c.field # "addr" => Rewritten(old, c).addr = old.addr
<1>1. CASE c.field = "admin"
  <2>1. c.admin \in BOOLEAN
    BY <1>1 DEF RowChange
  <2>2. Rewritten(old, c) = [old EXCEPT !.admin = c.admin]
    BY <1>1 DEF Rewritten
  <2>3. QED
    BY <1>1, <2>1, <2>2 DEF Rows
<1>2. CASE c.field = "label"
  <2>1. c.label \in Labels
    BY <1>2 DEF RowChange
  <2>2. Rewritten(old, c) = [old EXCEPT !.label = c.label]
    BY <1>2 DEF Rewritten
  <2>3. QED
    BY <1>2, <2>1, <2>2 DEF Rows
<1>3. CASE c.field = "addr"
  <2>1. c.addr \in Addrs
    BY <1>3 DEF RowChange
  <2>2. Rewritten(old, c) = IF old.addr = NoAddr THEN [NewRow EXCEPT !.contact = TRUE, !.addr = c.addr]
                            ELSE [old EXCEPT !.addr = c.addr]
    BY <1>3 DEF Rewritten
  <2>3. QED
    BY <1>3, <2>1, <2>2 DEF Rows, NewRow
<1>4. QED
  BY <1>1, <1>2, <1>3 DEF RowChange

\* What was asked, against what is written.
AskedFor(w, c) == [w EXCEPT ![c.field] = c[c.field]]

LEMMA WantSays ==
    ASSUME NEW old \in Rows, NEW w \in Rows, NEW c \in RowChange, NEW x, x = AskedFor(w, c)
    PROVE  /\ x \in Rows
           /\ old.addr = w.addr => Rewritten(old, c).addr = x.addr
           /\ old.admin = w.admin /\ (c.field = "addr" => old.addr # NoAddr) => Rewritten(old, c).admin = x.admin
           /\ old.label = w.label /\ (c.field = "addr" => old.addr # NoAddr) => Rewritten(old, c).label = x.label
<1>1. CASE c.field = "admin"
  <2>1. c.admin \in BOOLEAN
    BY <1>1 DEF RowChange
  <2>2. Rewritten(old, c) = [old EXCEPT !.admin = c.admin] /\ x = [w EXCEPT !.admin = c.admin]
    BY <1>1 DEF Rewritten, AskedFor
  <2>3. QED
    BY <1>1, <2>1, <2>2 DEF Rows
<1>2. CASE c.field = "label"
  <2>1. c.label \in Labels
    BY <1>2 DEF RowChange
  <2>2. Rewritten(old, c) = [old EXCEPT !.label = c.label] /\ x = [w EXCEPT !.label = c.label]
    BY <1>2 DEF Rewritten, AskedFor
  <2>3. QED
    BY <1>2, <2>1, <2>2 DEF Rows
<1>3. CASE c.field = "addr"
  <2>1. c.addr \in Addrs
    BY <1>3 DEF RowChange
  <2>2. /\ Rewritten(old, c) = IF old.addr = NoAddr THEN [NewRow EXCEPT !.contact = TRUE, !.addr = c.addr]
                               ELSE [old EXCEPT !.addr = c.addr]
        /\ x = [w EXCEPT !.addr = c.addr]
    BY <1>3 DEF Rewritten, AskedFor
  <2>3. QED
    BY <1>3, <2>1, <2>2 DEF Rows, NewRow
<1>4. QED
  BY <1>1, <1>2, <1>3 DEF RowChange

LEMMA WriteRowStep == ASSUME AccountsInv, NEW h \in Handlers, WriteRow(h) PROVE AccountsInv'
<1>1. AccountsTypeOK /\ AnswerOK /\ \A v \in Holders : RowOK(v) /\ FollowedOK(v)
  BY DEF AccountsInv
<1>2. handler[h].kind = "row"
  BY DEF WriteRow
<1>a. PICK r \in RowWork : r = handler[h]
  BY <1>1, <1>2, WorkSays
<1>b. PICK u \in Holders : u = r.user
  BY DEF RowWork
<1>c. PICK n : n = Rewritten(r.seen, r.change)
  OBVIOUS
<1>3. /\ ~Batches(h)
      /\ r.seen \in Rows /\ r.change \in RowChange
  BY <1>2 DEF RowWork, Batches, BatchKinds
<1>4. /\ handler' = [handler EXCEPT ![h] = Idle] /\ UNCHANGED <<jellyfinVars, answer, links, asked>>
      /\ row' = With(row, u, n)
      /\ want' = [want EXCEPT ![u] = [want[u] EXCEPT ![r.change.field] = r.change[r.change.field]]]
      /\ wiped' = IF r.change.field = "addr" /\ r.seen.addr = NoAddr THEN wiped \cup {u} ELSE wiped
      /\ Overlaps(h, u)
      /\ \/ /\ serviceAddr' = IF r.change.field = "addr" THEN [serviceAddr EXCEPT ![u] = r.change.addr]
                              ELSE serviceAddr
            /\ UNCHANGED unsynced
         \/ /\ unsynced' = unsynced \cup {u} /\ UNCHANGED serviceAddr
  BY <1>a, <1>b, <1>c DEF WriteRow
<1>5. /\ n \in Rows
      /\ r.change.field = "addr" => n.addr = r.change.addr
      /\ r.change.field # "addr" => n.addr = r.seen.addr
  BY <1>3, <1>c, RewrittenSays
<1>6. want \in [Holders -> Rows]
  BY <1>1 DEF AccountsTypeOK
<1>7. /\ want'[u] \in Rows
      /\ r.seen.addr = want[u].addr => n.addr = want'[u].addr
      /\ (r.seen.admin = want[u].admin /\ (r.change.field = "addr" => r.seen.addr # NoAddr))
            => n.admin = want'[u].admin
      /\ (r.seen.label = want[u].label /\ (r.change.field = "addr" => r.seen.addr # NoAddr))
            => n.label = want'[u].label
  <2>1. want'[u] = [want[u] EXCEPT ![r.change.field] = r.change[r.change.field]]
    BY <1>3, <1>4, <1>6
  <2>2. want[u] \in Rows
    BY <1>3, <1>6
  <2>3. PICK x : x = want'[u]
    OBVIOUS
  <2>4. PICK w \in Rows : w = want[u]
    BY <2>2
  <2>5. x = AskedFor(w, r.change)
    BY <2>1, <2>3, <2>4 DEF AskedFor
  <2>6. /\ x \in Rows
        /\ r.seen.addr = w.addr => n.addr = x.addr
        /\ (r.seen.admin = w.admin /\ (r.change.field = "addr" => r.seen.addr # NoAddr))
              => n.admin = x.admin
        /\ (r.seen.label = w.label /\ (r.change.field = "addr" => r.seen.addr # NoAddr))
              => n.label = x.label
    BY <1>3, <1>c, <2>5, WantSays
  <2>7. QED
    BY <2>3, <2>4, <2>6
<1>8. want' \in [Holders -> Rows] /\ \A v \in Holders : v # u => want'[v] = want[v]
  BY <1>3, <1>4, <1>6, <1>7
<1>9. /\ Row(u)' = n /\ \A v : v # u => Row(v)' = Row(v)
      /\ \A v \in DOMAIN row' : row'[v] \in Rows
  <2>1. /\ \A v : v # u => Row(v)' = Row(v)
        /\ \A v \in DOMAIN row' : row'[v] = n \/ (v \in DOMAIN row /\ row'[v] = row[v])
    BY <1>4, RowWritten
  <2>2. Row(u)' = n
    BY <1>4 DEF Row, With
  <2>3. QED
    BY <1>1, <1>5, <2>1, <2>2 DEF AccountsTypeOK
<1>10. /\ serviceAddr' \in [Holders -> Addrs]
       /\ \A v \in Holders : v # u => serviceAddr'[v] = serviceAddr[v]
       /\ unsynced \subseteq unsynced'
       /\ u \notin unsynced' => u \notin unsynced
       /\ (u \notin unsynced' /\ r.change.field = "addr") => serviceAddr'[u] = r.change.addr
       /\ (u \notin unsynced' /\ r.change.field # "addr") => serviceAddr'[u] = serviceAddr[u]
  <2>1. r.change.field = "addr" => r.change.addr \in Addrs
    BY <1>3 DEF RowChange
  <2>2. serviceAddr \in [Holders -> Addrs]
    BY <1>1 DEF AccountsTypeOK
  <2>3. QED
    BY <1>3, <1>4, <2>1, <2>2
<1>11. /\ crossed \subseteq crossed'
       /\ u \notin crossed' => \A g \in Handlers \ {h} : ~Revises(g, u)
  BY <1>4 DEF Overlaps, Revises
<1>12. /\ handler' \in [Handlers -> HandlerWork] /\ handler'[h] = Idle
       /\ \A g \in Handlers : g # h => handler'[g] = handler[g]
  BY <1>1, <1>4 DEF AccountsTypeOK, HandlerWork
<1>13. ~(Idle.kind = "row")
  BY DEF Idle
<1>14. ASSUME NEW v \in Holders PROVE RowOK(v)'
  <2>1. CASE v # u
    <3>1. \A g \in Handlers : handler'[g].kind = "row" => handler'[g] = handler[g]
      BY <1>12, <1>13
    <3>2. RowOK(v) /\ exists' = exists /\ asked' = asked
      BY <1>1, <1>4 DEF jellyfinVars
    <3>3. v \in wiped => v \in wiped'
      BY <1>4
    <3>4. QED
      BY <2>1, <3>1, <3>2, <3>3, <1>8, <1>9, <1>10, <1>11, RowStays
  <2>2. CASE v = u
    <3> SUFFICES ASSUME u \in exists PROVE RowOK(u)'
      BY <1>4, <2>2 DEF RowOK, jellyfinVars
    <3>1. RowOK(u) /\ Revises(h, u)
      BY <1>1, <1>2, <1>a, <1>b DEF Revises
    <3>2. n.addr \in asked[u] /\ asked' = asked
      BY <3>1, <1>4, <1>5, <1>a DEF RowOK
    <3>3. \A g \in Handlers : Revises(g, u)' => g # h /\ Revises(g, u) /\ handler'[g] = handler[g]
      BY <1>12, <1>13 DEF Revises
    <3>4. ASSUME u \notin crossed'
          PROVE  /\ \A g \in Handlers : ~Revises(g, u)'
                 /\ n.addr = want'[u].addr
                 /\ u \notin wiped' => n.admin = want'[u].admin /\ n.label = want'[u].label
                 /\ u \notin unsynced' => serviceAddr'[u] = n.addr
      <4>1. \A g \in Handlers : ~Revises(g, u)'
        BY <1>11, <3>3, <3>4
      <4>2. /\ r.seen = Row(u) /\ Row(u).addr = want[u].addr
            /\ u \notin wiped => Row(u).admin = want[u].admin /\ Row(u).label = want[u].label
            /\ u \notin unsynced => serviceAddr[u] = Row(u).addr
        BY <1>11, <1>a, <3>1, <3>4 DEF RowOK
      <4>3. u \notin wiped' => u \notin wiped /\ (r.change.field = "addr" => r.seen.addr # NoAddr)
        BY <1>4
      <4>4. QED
        BY <1>5, <1>7, <1>10, <4>1, <4>2, <4>3
    <3>5. QED
      BY <1>9, <3>2, <3>3, <3>4, <3>1 DEF RowOK
  <2>3. QED
    BY <2>1, <2>2
<1>15. ASSUME NEW v \in Holders PROVE FollowedOK(v)'
  BY <1>1, <1>4, <1>10 DEF FollowedOK, jellyfinVars
<1>16. AccountsTypeOK'
  BY <1>1, <1>4, <1>8, <1>9, <1>10, <1>12 DEF AccountsTypeOK, jellyfinVars
<1>17. /\ AloneOK'
       /\ \A g \in Handlers : Batches(g)' => BatchOK(handler'[g], exists')
       /\ \A v \in Holders : RememberedOK(v)'
  <2>1. \A g \in Handlers : Batches(g)' => Batches(g) /\ handler'[g] = handler[g]
    BY <1>12 DEF Batches, Idle, BatchKinds
  <2>2. \A g \in Handlers : Batches(g) => handler'[g] = handler[g]
    BY <1>3, <1>12
  <2>3. AloneOK'
    BY <2>1, <2>2, <1>4 DEF AccountsInv, AloneOK, Batches, jellyfinVars
  <2>4. \A g \in Handlers : Batches(g)' => BatchOK(handler'[g], exists')
    BY <2>1, <1>4 DEF AccountsInv, jellyfinVars
  <2>5. ASSUME NEW v \in Holders PROVE RememberedOK(v)'
    <3>1. \A g \in Handlers : Switches(g)' => Switches(g) /\ handler'[g] = handler[g]
      BY <2>1 DEF Switches, Batches, BatchKinds
    <3>2. RememberedOK(v)
      BY DEF AccountsInv
    <3>3. QED
      BY <3>1, <3>2, <1>4 DEF RememberedOK, jellyfinVars
  <2>6. QED
    BY <2>3, <2>4, <2>5
<1>18. AnswerOK'
  BY <1>1, <1>4 DEF AnswerOK
<1>19. QED
  BY <1>14, <1>15, <1>16, <1>17, <1>18 DEF AccountsInv, Batches

LEMMA ClearStep == ASSUME AccountsInv, NEW u \in Holders, ClearEmail(u) PROVE AccountsInv'
<1>1. /\ row' = IF u \in exists THEN row ELSE Without(row, {u})
      /\ UNCHANGED <<exists, policy, wantPolicy, cachedPolicy, outdated, ombiUser, role, want, wiped, crossed,
                     unsynced, answer, serviceAddr, asked, handler, links>>
  BY DEF ClearEmail, jellyfinVars
<1>2. /\ \A v : v # u \/ u \in exists => Row(v)' = Row(v)
      /\ \A v \in DOMAIN row' : v \in DOMAIN row /\ row'[v] = row[v]
  <2>1. CASE u \in exists
    BY <1>1, <2>1 DEF Row
  <2>2. CASE u \notin exists
    BY <1>1, <2>2, RowRemoved
  <2>3. QED
    BY <2>1, <2>2
<1>3. AccountsTypeOK'
  BY <1>1, <1>2 DEF AccountsInv, AccountsTypeOK
<1>4. AloneOK' /\ AnswerOK'
  BY <1>1 DEF AccountsInv, AloneOK, AnswerOK, Batches
<1>5. ASSUME NEW v \in Holders PROVE RowOK(v)'
  <2>1. CASE v \in exists
    BY <1>1, <1>2, <2>1, RowStays DEF AccountsInv
  <2>2. CASE v \notin exists
    BY <1>1, <2>2 DEF RowOK
  <2>3. QED
    BY <2>1, <2>2
<1>6. ASSUME NEW v \in Holders PROVE RememberedOK(v)'
  BY <1>1, PolicyStays DEF AccountsInv
<1>7. ASSUME NEW v \in Holders PROVE FollowedOK(v)'
  BY <1>1 DEF AccountsInv, FollowedOK
<1>8. QED
  BY <1>1, <1>3, <1>4, <1>5, <1>6, <1>7 DEF AccountsInv, Batches

\* Beginning a batch.
LEMMA BatchStep ==
    ASSUME AccountsInv, NEW h \in Handlers, NEW us \in SUBSET Holders, NEW kind, NEW what,
           Batch(h, kind, us, what),
           \/ kind \in {"enable", "disable", "delete"} /\ what = {}
           \/ kind = "apply" /\ what \in Parts
    PROVE  AccountsInv'
<1>1. AccountsTypeOK /\ AnswerOK /\ \A v \in Holders : RowOK(v) /\ FollowedOK(v)
  BY DEF AccountsInv
<1>2. PICK others : others = {g \in Handlers : handler[g].kind \in BatchKinds}
  OBVIOUS
<1>3. PICK n : n = [kind |-> kind, user |-> Nobody, all |-> us, left |-> us, what |-> what,
                    errors |-> NoErrors, done |-> {}, shared |-> others # {}, seen |-> <<>>]
  OBVIOUS
<1>4. /\ handler[h] = Idle
      /\ handler' = [g \in Handlers |-> IF g = h THEN n
                                        ELSE IF g \in others THEN [handler[g] EXCEPT !.shared = TRUE]
                                        ELSE handler[g]]
      /\ UNCHANGED <<jellyfinVars, row, serviceAddr, links, want, asked, crossed, unsynced, wiped, answer>>
  BY <1>2, <1>3 DEF Batch
<1>5. kind \in BatchKinds /\ what \in {{}} \cup Parts
  BY DEF BatchKinds
<1>6. /\ n \in BatchWork /\ n.kind = kind /\ n.user = Nobody /\ n.shared = (others # {})
      /\ n.all = us /\ n.left = us /\ n.done = {} /\ n.errors = NoErrors /\ n.what = what
  BY <1>3, <1>5 DEF BatchWork, NoErrors, ErrorLists
<1>7. BatchOK(n, exists)
  BY <1>6 DEF BatchOK, SwitchOK, DeleteOK, ApplyOK, Told, NoErrors
<1>8. ASSUME NEW g \in others
      PROVE  /\ g \in Handlers /\ g # h /\ Batches(g) /\ handler[g] \in BatchWork
             /\ handler'[g] \in BatchWork /\ handler'[g].shared
             /\ handler'[g].kind = handler[g].kind
             /\ BatchOK(handler'[g], exists)
  <2>1. g \in Handlers /\ Batches(g) /\ g # h
    BY <1>1, <1>2, <1>4, WorkSays DEF Batches
  <2>2. handler[g] \in BatchWork /\ BatchOK(handler[g], exists)
    BY <1>1, <2>1, WorkSays DEF AccountsInv
  <2>3. PICK b \in BatchWork : b = handler[g]
    BY <2>2
  <2>4. PICK m : m = [b EXCEPT !.shared = TRUE]
    OBVIOUS
  <2>5. handler'[g] = m
    BY <1>4, <2>1, <2>3, <2>4
  <2>6. /\ m \in BatchWork /\ m.shared = TRUE /\ m.kind = b.kind /\ m.user = b.user /\ m.all = b.all
        /\ m.left = b.left /\ m.what = b.what /\ m.errors = b.errors /\ m.done = b.done /\ m.seen = b.seen
    BY <2>4 DEF BatchWork
  <2>7. BatchOK(m, exists)
    BY <2>2, <2>3, <2>6 DEF BatchOK, SwitchOK, DeleteOK, ApplyOK, Told
  <2>8. QED
    BY <2>1, <2>2, <2>3, <2>5, <2>6, <2>7
<1>9. ASSUME NEW g \in Handlers, g # h, g \notin others
      PROVE  handler'[g] = handler[g] /\ ~Batches(g) /\ handler[g] \in HandlerWork
  BY <1>1, <1>2, <1>4, <1>9 DEF Batches, AccountsTypeOK
<1>10. handler'[h] = n
  BY <1>4
<1>11. handler' \in [Handlers -> HandlerWork]
  <2>1. ASSUME NEW g \in Handlers PROVE handler'[g] \in HandlerWork
    BY <1>6, <1>8, <1>9, <1>10 DEF HandlerWork
  <2>2. QED
    BY <1>4, <2>1
<1>12. AccountsTypeOK'
  BY <1>1, <1>4, <1>11 DEF AccountsTypeOK, jellyfinVars
<1>13. \A g \in Handlers : Batches(g)' => g = h \/ (g # h /\ g \in others)
  BY <1>9 DEF Batches
<1>14. AloneOK'
  <2>1. ASSUME NEW f \in Handlers, NEW g \in Handlers, Batches(f)', Batches(g)', f # g
        PROVE  handler'[g].shared
    BY <1>6, <1>8, <1>10, <1>13, <2>1
  <2>2. Batches(h)'
    BY <1>5, <1>6, <1>10 DEF Batches
  <2>3. QED
    BY <2>1, <2>2 DEF AloneOK
<1>15. \A g \in Handlers : Batches(g)' => BatchOK(handler'[g], exists')
  BY <1>4, <1>7, <1>8, <1>10, <1>13 DEF jellyfinVars
<1>16. \A g \in Handlers : handler'[g].kind = "row" => handler'[g] = handler[g]
  <2>1. \A k \in BatchKinds : k # "row"
    BY DEF BatchKinds
  <2>2. QED
    BY <1>5, <1>6, <1>8, <1>9, <1>10, <2>1 DEF Batches
<1>17. ASSUME NEW v \in Holders PROVE RowOK(v)'
  BY <1>1, <1>4, <1>16, RowStays DEF jellyfinVars, Row
<1>18. ASSUME NEW v \in Holders PROVE RememberedOK(v)'
  <2>1. RememberedOK(v)
    BY DEF AccountsInv
  <2>2. ASSUME NEW g \in Handlers, Switches(g)', ~handler'[g].shared
        PROVE  cachedPolicy' = <<>> /\ handler'[g].user # v
    <3>1. Batches(g)'
      BY <2>2 DEF Switches, Batches, BatchKinds
    <3>2. g = h /\ others = {}
      BY <1>6, <1>8, <1>10, <1>13, <2>2, <3>1
    <3>3. \A f \in Handlers : ~Batches(f)
      BY <1>2, <3>2 DEF Batches
    <3>4. QED
      BY <1>4, <1>6, <1>10, <3>2, <3>3, AccountsAssumption DEF AccountsInv, AloneOK, jellyfinVars
  <2>3. QED
    BY <1>4, <2>1, <2>2 DEF RememberedOK, jellyfinVars
<1>19. ASSUME NEW v \in Holders PROVE FollowedOK(v)'
  BY <1>1, <1>4 DEF FollowedOK, jellyfinVars
<1>20. AnswerOK'
  BY <1>1, <1>4 DEF AnswerOK
<1>21. QED
  BY <1>12, <1>14, <1>15, <1>17, <1>18, <1>19, <1>20 DEF AccountsInv, Batches

\* What every step of a batch leaves alone.
LEMMA BatchLeaves ==
    ASSUME AccountsInv, NEW h \in Handlers, Batches(h), NEW n \in BatchWork,
           handler' = [handler EXCEPT ![h] = n], n.kind = handler[h].kind, n.shared = handler[h].shared,
           exists' \subseteq exists, BatchOK(n, exists'), batchOnly' = batchOnly,
           unsynced \subseteq unsynced',
           policy' \in [Holders -> Policies], wantPolicy' \in [Holders -> Policies],
           cachedPolicy' \in {<<>>} \cup [Holders -> Policies],
           \A v \in Holders : RememberedOK(v)' /\ FollowedOK(v)'
    PROVE  AccountsInv'
<1>1. AccountsTypeOK /\ AnswerOK /\ \A v \in Holders : RowOK(v)
  BY DEF AccountsInv
<1>2. /\ handler' \in [Handlers -> HandlerWork] /\ AloneOK'
      /\ \A g \in Handlers : Batches(g)' => BatchOK(handler'[g], exists')
      /\ \A g \in Handlers : handler'[g].kind = "row" => handler'[g] = handler[g]
  BY BatchGoesOn
<1>3. UNCHANGED <<row, serviceAddr, links, want, wiped, asked, crossed, answer>>
  BY DEF batchOnly
<1>4. AccountsTypeOK'
  BY <1>1, <1>2, <1>3 DEF AccountsTypeOK
<1>5. AnswerOK'
  BY <1>1, <1>3 DEF AnswerOK
<1>6. ASSUME NEW v \in Holders PROVE RowOK(v)'
  BY <1>1, <1>2, <1>3, RowStays DEF Row
<1>7. QED
  BY <1>2, <1>4, <1>5, <1>6 DEF AccountsInv, Batches

\* A batch of one kind, or one that meets another, is no reader of policies alone.
LEMMA OthersShare ==
    ASSUME AccountsInv, NEW h \in Handlers, Batches(h), NEW g \in Handlers, g # h, Switches(g)
    PROVE  handler[g].shared
  BY DEF AccountsInv, AloneOK, Switches, Batches, BatchKinds

\* A batch that enables or disables.
LEMMA TakeUserStep ==
    ASSUME AccountsInv, NEW h \in Handlers, NEW u \in Holders, TakeUser(h, u)
    PROVE  AccountsInv'
<1>1. AccountsTypeOK /\ \A v \in Holders : RememberedOK(v) /\ FollowedOK(v)
  BY DEF AccountsInv
<1>2. Switches(h) /\ Batches(h) /\ handler[h] \in BatchWork /\ BatchOK(handler[h], exists)
  <2>1. Switches(h)
    BY DEF TakeUser, Switches
  <2>2. QED
    BY <1>1, <2>1, WorkSays DEF AccountsInv
<1>3. PICK b \in BatchWork : b = handler[h]
  BY <1>2
<1>4. /\ b.kind \in {"enable", "disable"} /\ b.user = Nobody /\ u \in b.left
      /\ UNCHANGED <<exists, policy, wantPolicy, outdated, ombiUser, role, unsynced, batchOnly>>
  BY <1>3 DEF TakeUser
<1>5. SwitchOK(b) /\ b.left \subseteq b.all /\ b.done \subseteq b.all \ b.left /\ BatchOK(b, exists)
  BY <1>2, <1>3, <1>4 DEF BatchOK
<1>6. handler \in [Handlers -> HandlerWork]
  BY <1>1 DEF AccountsTypeOK
<1>7. ASSUME NEW v \in Holders PROVE FollowedOK(v)'
  BY <1>1, <1>4 DEF FollowedOK
<1>8. b.kind # "delete" /\ b.kind # "apply"
  BY <1>4
<1>9. CASE /\ u \in exists
           /\ cachedPolicy' = IF cachedPolicy = <<>> THEN policy ELSE cachedPolicy
           /\ handler' = [handler EXCEPT ![h] = [b EXCEPT !.user = u, !.left = @ \ {u},
                                                           !.seen = cachedPolicy'[u]]]
  <2>1. cachedPolicy' \in [Holders -> Policies]
    BY <1>1, <1>9 DEF AccountsTypeOK
  <2>2. PICK p \in Policies : p = cachedPolicy'[u]
    BY <2>1
  <2>3. PICK n : n = [b EXCEPT !.user = u, !.left = @ \ {u}, !.seen = p]
    OBVIOUS
  <2>4. /\ n \in BatchWork /\ n.kind = b.kind /\ n.user = u /\ n.all = b.all /\ n.left = b.left \ {u}
        /\ n.errors = b.errors /\ n.done = b.done /\ n.shared = b.shared /\ n.seen = p
    BY <2>3 DEF BatchWork
  <2>5. handler' = [handler EXCEPT ![h] = n]
    BY <1>9, <2>2, <2>3
  <2>6. u # Nobody
    BY AccountsAssumption
  <2>7. SwitchOK(n)
    <3>1. b.all \subseteq Holders
      BY DEF BatchWork
    <3>2. n.user \in n.all /\ n.user \notin n.left \cup n.done \cup n.errors.named
      BY <1>4, <1>5, <2>4 DEF SwitchOK
    <3>3. ~n.errors.unnamed => n.all \subseteq n.left \cup n.done \cup n.errors.named \cup {n.user}
      BY <1>4, <1>5, <2>4, <3>1, AccountsAssumption DEF SwitchOK
    <3>4. n.errors.unnamed => \E x \in n.all : x \notin n.left \cup n.done \cup {n.user}
      BY <1>4, <1>5, <2>4 DEF SwitchOK
    <3>5. QED
      BY <1>5, <2>2, <2>4, <3>2, <3>3, <3>4 DEF SwitchOK
  <2>8. BatchOK(n, exists')
    BY <1>4, <1>5, <1>8, <2>4, <2>7 DEF BatchOK
  <2>9. ASSUME NEW v \in Holders PROVE RememberedOK(v)'
    <3> SUFFICES ASSUME v \notin outdated PROVE RememberedOK(v)'
      BY <1>4 DEF RememberedOK
    <3>1. handler'[h] = n /\ \A g \in Handlers : g # h => handler'[g] = handler[g]
      BY <1>6, <2>5
    <3>2. policy[v] = wantPolicy[v] /\ policy' = policy /\ wantPolicy' = wantPolicy
      BY <1>1, <1>4 DEF RememberedOK
    <3>3. ASSUME NEW g \in Handlers, Switches(g)', ~handler'[g].shared
          PROVE  g = h /\ ~b.shared
      <4>1. CASE g = h
        BY <3>1, <3>3, <2>4, <4>1
      <4>2. CASE g # h
        <5>1. Switches(g) /\ ~handler[g].shared
          BY <3>1, <3>3, <4>2 DEF Switches
        <5>2. QED
          BY <1>2, <4>2, <5>1, OthersShare
      <4>3. QED
        BY <4>1, <4>2
    <3>4. (~b.shared /\ cachedPolicy # <<>>) => cachedPolicy[v].template = policy[v].template
      BY <1>1, <1>2, <1>3 DEF RememberedOK
    <3>5. ~b.shared => cachedPolicy'[v].template = policy[v].template
      BY <1>9, <3>4
    <3>6. (~b.shared /\ u = v) => p.template = policy[v].template
      BY <2>2, <3>5
    <3>7. QED
      BY <2>4, <3>1, <3>2, <3>3, <3>5, <3>6 DEF RememberedOK
  <2>10. policy' \in [Holders -> Policies] /\ wantPolicy' \in [Holders -> Policies]
    BY <1>1, <1>4 DEF AccountsTypeOK
  <2>11. QED
    BY <1>2, <1>3, <1>4, <1>7, <2>1, <2>4, <2>5, <2>8, <2>9, <2>10, BatchLeaves
<1>10. CASE /\ handler' = [handler EXCEPT ![h].left = @ \ {u}, ![h].errors.unnamed = TRUE]
            /\ UNCHANGED cachedPolicy
  <2>1. PICK e : e = [b.errors EXCEPT !.unnamed = TRUE]
    OBVIOUS
  <2>2. /\ e \in ErrorLists /\ e.named = b.errors.named /\ e.unnamed = TRUE
    BY <2>1 DEF BatchWork, ErrorLists
  <2>3. PICK n : n = [b EXCEPT !.left = @ \ {u}, !.errors = e]
    OBVIOUS
  <2>4. /\ n \in BatchWork /\ n.kind = b.kind /\ n.user = b.user /\ n.all = b.all /\ n.left = b.left \ {u}
        /\ n.errors = e /\ n.done = b.done /\ n.shared = b.shared /\ n.seen = b.seen
    BY <2>2, <2>3 DEF BatchWork
  <2>5. handler' = [handler EXCEPT ![h] = n]
    BY <1>3, <1>10, <2>1, <2>3
  <2>6. SwitchOK(n)
    <3>1. u \in b.all /\ u \notin b.done
      BY <1>4, <1>5
    <3>2. u \in n.all /\ u \notin n.left \cup n.done \cup {n.user}
      BY <1>4, <2>4, <3>1, AccountsAssumption
    <3>3. QED
      BY <1>4, <1>5, <2>2, <2>4, <3>2 DEF SwitchOK
  <2>7. BatchOK(n, exists')
    BY <1>4, <1>5, <1>8, <2>4, <2>6 DEF BatchOK
  <2>8. handler'[h] = n /\ \A g \in Handlers : g # h => handler'[g] = handler[g]
    BY <1>6, <2>5
  <2>9. ASSUME NEW v \in Holders PROVE RememberedOK(v)'
    <3>1. \A g \in Handlers : /\ handler'[g].kind = handler[g].kind /\ handler'[g].user = handler[g].user
                              /\ handler'[g].shared = handler[g].shared /\ handler'[g].seen = handler[g].seen
      BY <1>3, <2>4, <2>8
    <3>2. QED
      BY <1>1, <1>4, <1>10, <3>1, PolicyStays
  <2>10. /\ policy' \in [Holders -> Policies] /\ wantPolicy' \in [Holders -> Policies]
         /\ cachedPolicy' \in {<<>>} \cup [Holders -> Policies]
    BY <1>1, <1>4, <1>10 DEF AccountsTypeOK
  <2>11. QED
    BY <1>2, <1>3, <1>4, <1>7, <2>4, <2>5, <2>7, <2>9, <2>10, BatchLeaves
<1>11. QED
  BY <1>3, <1>9, <1>10 DEF TakeUser

LEMMA PoliciesSame ==
    ASSUME NEW p \in Policies, NEW q \in Policies, p.template = q.template, NEW d \in BOOLEAN
    PROVE  /\ [p EXCEPT !.disabled = d] = [q EXCEPT !.disabled = d]
           /\ [p EXCEPT !.disabled = d] \in Policies
           /\ [p EXCEPT !.disabled = d].template = p.template
           /\ [p EXCEPT !.disabled = d].disabled = d
  BY DEF Policies

LEMMA SwitchStep ==
    ASSUME AccountsInv, NEW h \in Handlers, SetUserDisabled(h)
    PROVE  AccountsInv'
<1>1. AccountsTypeOK /\ \A v \in Holders : RememberedOK(v) /\ FollowedOK(v)
  BY DEF AccountsInv
<1>2. Switches(h) /\ Batches(h) /\ handler[h] \in BatchWork /\ BatchOK(handler[h], exists)
  <2>1. Switches(h)
    BY DEF SetUserDisabled, Switches
  <2>2. QED
    BY <1>1, <2>1, WorkSays DEF AccountsInv
<1>3. PICK b \in BatchWork : b = handler[h]
  BY <1>2
<1>4. PICK u : u = b.user
  OBVIOUS
<1>5. PICK d \in BOOLEAN : d = (b.kind = "disable")
  OBVIOUS
<1>6. /\ b.kind \in {"enable", "disable"} /\ u # Nobody
      /\ UNCHANGED <<exists, cachedPolicy, batchOnly>>
  BY <1>3, <1>4 DEF SetUserDisabled
<1>7. SwitchOK(b) /\ b.left \subseteq b.all /\ b.done \subseteq b.all \ b.left
  BY <1>2, <1>3, <1>6 DEF BatchOK
<1>8. /\ u \in Holders /\ b.seen \in Policies
      /\ u \in b.all /\ u \notin b.left \cup b.done \cup b.errors.named
  BY <1>4, <1>6, <1>7 DEF SwitchOK, BatchWork
<1>9. handler \in [Handlers -> HandlerWork] /\ policy \in [Holders -> Policies]
      /\ wantPolicy \in [Holders -> Policies] /\ cachedPolicy \in {<<>>} \cup [Holders -> Policies]
  BY <1>1 DEF AccountsTypeOK
<1>10. b.kind # "delete" /\ b.kind # "apply"
  BY <1>6
<1>11. CASE /\ u \in exists
            /\ policy' = [policy EXCEPT ![u] = [b.seen EXCEPT !.disabled = d]]
            /\ \/ role' = (IF d THEN role \ {u} ELSE role \cup {u}) /\ UNCHANGED unsynced
               \/ unsynced' = unsynced \cup {u} /\ UNCHANGED role
            /\ wantPolicy' = [wantPolicy EXCEPT ![u].disabled = d]
            /\ Outdates(b, u) /\ UNCHANGED ombiUser
            /\ handler' = [handler EXCEPT ![h] = [b EXCEPT !.user = Nobody, !.seen = <<>>,
                                                           !.errors = b.errors, !.done = b.done \cup {u}]]
  <2>1. PICK n : n = [b EXCEPT !.user = Nobody, !.seen = <<>>, !.errors = b.errors, !.done = b.done \cup {u}]
    OBVIOUS
  <2>2. /\ n \in BatchWork /\ n.kind = b.kind /\ n.user = Nobody /\ n.all = b.all /\ n.left = b.left
        /\ n.errors = b.errors /\ n.done = b.done \cup {u} /\ n.shared = b.shared
    BY <1>8, <2>1 DEF BatchWork
  <2>3. handler' = [handler EXCEPT ![h] = n]
    BY <1>11, <2>1
  <2>4. SwitchOK(n)
    <3>1. ~n.errors.unnamed => n.all \subseteq n.left \cup n.done \cup n.errors.named \cup {n.user}
      BY <1>4, <1>7, <2>2 DEF SwitchOK
    <3>2. n.errors.unnamed => \E x \in n.all : x \notin n.left \cup n.done \cup {n.user}
      <4>1. b.all \subseteq Holders
        BY DEF BatchWork
      <4>2. QED
        BY <4>1, <1>4, <1>7, <2>2, AccountsAssumption DEF SwitchOK
    <3>3. QED
      BY <1>7, <1>8, <2>2, <3>1, <3>2 DEF SwitchOK
  <2>5. BatchOK(n, exists')
    BY <1>6, <1>7, <1>8, <1>10, <2>2, <2>4 DEF BatchOK
  <2>6. PICK p \in Policies : p = [b.seen EXCEPT !.disabled = d]
    BY <1>8, PoliciesSame
  <2>7. p.template = b.seen.template /\ p.disabled = d
    BY <1>8, <2>6, PoliciesSame
  <2>8. /\ policy' \in [Holders -> Policies] /\ policy'[u] = p
        /\ \A v \in Holders : v # u => policy'[v] = policy[v]
    BY <1>8, <1>9, <1>11, <2>6
  <2>9. /\ wantPolicy' \in [Holders -> Policies] /\ wantPolicy'[u] = [wantPolicy[u] EXCEPT !.disabled = d]
        /\ \A v \in Holders : v # u => wantPolicy'[v] = wantPolicy[v]
    <3>1. wantPolicy[u] \in Policies
      BY <1>8, <1>9
    <3>2. [wantPolicy[u] EXCEPT !.disabled = d] \in Policies
      BY <3>1, PoliciesSame
    <3>3. wantPolicy' = [wantPolicy EXCEPT ![u] = [wantPolicy[u] EXCEPT !.disabled = d]]
      BY <1>11
    <3>4. QED
      BY <1>8, <1>9, <3>2, <3>3
  <2>10. handler'[h] = n /\ \A g \in Handlers : g # h => handler'[g] = handler[g]
    BY <1>9, <2>3
  <2>11. ASSUME NEW v \in Holders PROVE RememberedOK(v)'
    <3> SUFFICES ASSUME v \notin outdated' PROVE RememberedOK(v)'
      BY DEF RememberedOK
    <3>1. v \notin outdated /\ (v = u => ~b.shared)
      BY <1>11 DEF Outdates
    <3>2. /\ policy[v] = wantPolicy[v]
          /\ ~b.shared => /\ cachedPolicy # <<>> => cachedPolicy[v].template = policy[v].template
                          /\ b.user = v => b.seen.template = policy[v].template
      BY <1>1, <1>2, <1>3, <3>1 DEF RememberedOK
    <3>3. policy'[v] = wantPolicy'[v] /\ (~b.shared => policy'[v].template = policy[v].template)
      <4>1. CASE v = u
        <5>1. b.seen.template = policy[u].template /\ policy[u] = wantPolicy[u]
          BY <1>4, <3>1, <3>2, <4>1
        <5>2. wantPolicy[u] \in Policies
          BY <1>8, <1>9
        <5>3. p = [wantPolicy[u] EXCEPT !.disabled = d]
          BY <1>8, <2>6, <5>1, <5>2, PoliciesSame
        <5>4. QED
          BY <2>7, <2>8, <2>9, <4>1, <5>1, <5>3
      <4>2. CASE v # u
        BY <2>8, <2>9, <3>2, <4>2
      <4>3. QED
        BY <4>1, <4>2
    <3>4. ASSUME NEW g \in Handlers, Switches(g)', ~handler'[g].shared
          PROVE  g = h /\ ~b.shared
      <4>1. CASE g = h
        BY <2>2, <2>10, <3>4, <4>1
      <4>2. CASE g # h
        <5>1. Switches(g) /\ ~handler[g].shared
          BY <2>10, <3>4, <4>2 DEF Switches
        <5>2. QED
          BY <1>2, <4>2, <5>1, OthersShare
      <4>3. QED
        BY <4>1, <4>2
    <3>5. handler'[h].user # v
      BY <2>2, <2>10, AccountsAssumption
    <3>6. cachedPolicy' = cachedPolicy
      BY <1>6
    <3>7. QED
      BY <3>2, <3>3, <3>4, <3>5, <3>6 DEF RememberedOK
  <2>12. ASSUME NEW v \in Holders PROVE FollowedOK(v)'
    <3>1. CASE v # u
      BY <1>1, <1>6, <1>11, <2>8, <3>1 DEF FollowedOK
    <3>2. CASE v = u
      <4>1. (role' = (IF d THEN role \ {u} ELSE role \cup {u}) /\ unsynced' = unsynced) \/ u \in unsynced'
        BY <1>11
      <4>2. u \in role' /\ u \notin unsynced' => ~d
        BY <4>1
      <4>3. FollowedOK(u) /\ (u \notin unsynced' => u \notin unsynced) /\ policy'[u].disabled = d
            /\ ombiUser' = ombiUser /\ exists' = exists /\ u \in exists
        BY <1>1, <1>6, <1>8, <1>11, <2>7, <2>8
      <4>4. QED
        BY <3>2, <4>2, <4>3 DEF FollowedOK
    <3>3. QED
      BY <3>1, <3>2
  <2>13. QED
    BY <1>2, <1>3, <1>6, <1>9, <1>11, <2>2, <2>3, <2>5, <2>8, <2>9, <2>11, <2>12, BatchLeaves
<1>12. CASE /\ handler' = [handler EXCEPT ![h] = [b EXCEPT !.user = Nobody, !.seen = <<>>,
                                                           !.errors = Tells(b, "named", u), !.done = b.done]]
            /\ UNCHANGED <<policy, wantPolicy, role, outdated, unsynced, ombiUser>>
  <2>1. PICK e : e = Tells(b, "named", u)
    OBVIOUS
  <2>2. e \in ErrorLists /\ e.named = b.errors.named \cup {u} /\ e.unnamed = b.errors.unnamed
    <3>1. b.errors \in ErrorLists
      BY DEF BatchWork
    <3>2. e = [b.errors EXCEPT !.named = @ \cup {u}]
      BY <2>1 DEF Tells
    <3>3. QED
      BY <1>8, <3>1, <3>2 DEF ErrorLists
  <2>3. PICK n : n = [b EXCEPT !.user = Nobody, !.seen = <<>>, !.errors = e, !.done = b.done]
    OBVIOUS
  <2>4. /\ n \in BatchWork /\ n.kind = b.kind /\ n.user = Nobody /\ n.all = b.all /\ n.left = b.left
        /\ n.errors = e /\ n.done = b.done /\ n.shared = b.shared
    BY <2>2, <2>3 DEF BatchWork
  <2>5. handler' = [handler EXCEPT ![h] = n]
    BY <1>12, <2>1, <2>3
  <2>6. SwitchOK(n)
    <3>1. ~n.errors.unnamed => n.all \subseteq n.left \cup n.done \cup n.errors.named \cup {n.user}
      BY <1>4, <1>7, <2>2, <2>4 DEF SwitchOK
    <3>2. n.errors.unnamed => \E x \in n.all : x \notin n.left \cup n.done \cup {n.user}
      <4>1. b.all \subseteq Holders
        BY DEF BatchWork
      <4>2. QED
        BY <4>1, <1>4, <1>7, <2>2, <2>4, AccountsAssumption DEF SwitchOK
    <3>3. n.errors.named \subseteq n.all /\ n.errors.named \cap (n.left \cup n.done) = {}
      BY <1>7, <1>8, <2>2, <2>4 DEF SwitchOK
    <3>4. QED
      BY <2>4, <3>1, <3>2, <3>3 DEF SwitchOK
  <2>7. BatchOK(n, exists')
    BY <1>6, <1>7, <1>10, <2>4, <2>6 DEF BatchOK
  <2>8. handler'[h] = n /\ \A g \in Handlers : g # h => handler'[g] = handler[g]
    BY <1>9, <2>5
  <2>9. ASSUME NEW v \in Holders PROVE RememberedOK(v)'
    <3>1. \A g \in Handlers : /\ handler'[g].kind = handler[g].kind
                              /\ handler'[g].shared = handler[g].shared
                              /\ handler'[g].user = v => handler[g].user = v /\ handler'[g].seen = handler[g].seen
      BY <1>3, <2>4, <2>8, AccountsAssumption
    <3>2. QED
      BY <1>1, <1>6, <1>12, <3>1, PolicyStays
  <2>10. ASSUME NEW v \in Holders PROVE FollowedOK(v)'
    BY <1>1, <1>6, <1>12 DEF FollowedOK
  <2>11. QED
    BY <1>2, <1>3, <1>6, <1>9, <1>12, <2>4, <2>5, <2>7, <2>9, <2>10, BatchLeaves
<1>13. QED
  <2>1. \/ /\ u \in exists
           /\ policy' = [policy EXCEPT ![u] = [b.seen EXCEPT !.disabled = d]]
           /\ \/ role' = (IF d THEN role \ {u} ELSE role \cup {u}) /\ UNCHANGED unsynced
              \/ unsynced' = unsynced \cup {u} /\ UNCHANGED role
           /\ wantPolicy' = [wantPolicy EXCEPT ![u].disabled = d]
           /\ Outdates(b, u) /\ UNCHANGED ombiUser
           /\ handler' = [handler EXCEPT ![h] = [b EXCEPT !.user = Nobody, !.seen = <<>>,
                                                          !.errors = b.errors, !.done = b.done \cup {u}]]
        \/ /\ handler' = [handler EXCEPT ![h] = [b EXCEPT !.user = Nobody, !.seen = <<>>,
                                                          !.errors = Tells(b, "named", u), !.done = b.done]]
           /\ UNCHANGED <<policy, wantPolicy, role, outdated, unsynced, ombiUser>>
    BY <1>3, <1>4, <1>5 DEF SetUserDisabled
  <2>2. QED
    BY <2>1, <1>11, <1>12

\* A batch that deletes.
LEMMA DeleteStep ==
    ASSUME AccountsInv, NEW h \in Handlers, NEW u \in Holders, DeleteUser(h, u)
    PROVE  AccountsInv'
<1>1. AccountsTypeOK /\ \A v \in Holders : RememberedOK(v) /\ FollowedOK(v)
  BY DEF AccountsInv
<1>2. handler[h].kind = "delete" /\ Batches(h) /\ handler[h] \in BatchWork /\ BatchOK(handler[h], exists)
  <2>1. Batches(h)
    BY DEF DeleteUser, Batches, BatchKinds
  <2>2. QED
    BY <1>1, <2>1, WorkSays DEF AccountsInv, DeleteUser
<1>3. PICK b \in BatchWork : b = handler[h]
  BY <1>2
<1>4. /\ b.kind = "delete" /\ u \in b.left
      /\ UNCHANGED <<policy, cachedPolicy, wantPolicy, outdated, batchOnly>>
  BY <1>3 DEF DeleteUser
<1>5. DeleteOK(b, exists) /\ b.left \subseteq b.all /\ b.done \subseteq b.all \ b.left
  BY <1>2, <1>3, <1>4 DEF BatchOK
<1>6. handler \in [Handlers -> HandlerWork] /\ policy \in [Holders -> Policies]
      /\ wantPolicy \in [Holders -> Policies] /\ cachedPolicy \in {<<>>} \cup [Holders -> Policies]
  BY <1>1 DEF AccountsTypeOK
<1>7. b.errors \in ErrorLists
  BY DEF BatchWork
\* Whatever becomes of the user, the batch is what it should be.
<1>8. ASSUME NEW e \in ErrorLists, NEW done,
             handler' = [handler EXCEPT ![h].left = @ \ {u}, ![h].errors = e, ![h].done = done],
             \/ done = b.done /\ e.named = b.errors.named \cup {u}
             \/ done = b.done \cup {u} /\ e = b.errors /\ u \notin exists',
             exists' \subseteq exists, unsynced \subseteq unsynced',
             \A v \in Holders : FollowedOK(v)'
      PROVE  AccountsInv'
  <2>1. PICK n : n = [b EXCEPT !.left = @ \ {u}, !.errors = e, !.done = done]
    OBVIOUS
  <2>2. /\ n \in BatchWork /\ n.kind = b.kind /\ n.user = b.user /\ n.all = b.all /\ n.left = b.left \ {u}
        /\ n.errors = e /\ n.done = done /\ n.shared = b.shared /\ n.seen = b.seen
    BY <1>8, <2>1 DEF BatchWork
  <2>3. handler' = [handler EXCEPT ![h] = n]
    BY <1>3, <1>8, <2>1
  <2>4. DeleteOK(n, exists')
    BY <1>4, <1>5, <1>8, <2>2 DEF DeleteOK
  <2>5. BatchOK(n, exists')
    BY <1>4, <1>5, <1>8, <2>2, <2>4 DEF BatchOK
  <2>6. handler'[h] = n /\ \A g \in Handlers : g # h => handler'[g] = handler[g]
    BY <1>6, <2>3
  <2>7. ASSUME NEW v \in Holders PROVE RememberedOK(v)'
    <3>1. \A g \in Handlers : /\ handler'[g].kind = handler[g].kind /\ handler'[g].user = handler[g].user
                              /\ handler'[g].shared = handler[g].shared /\ handler'[g].seen = handler[g].seen
      BY <1>3, <2>2, <2>6
    <3>2. QED
      BY <1>1, <1>4, <3>1, PolicyStays
  <2>8. QED
    BY <1>2, <1>3, <1>4, <1>6, <1>8, <2>2, <2>3, <2>5, <2>7, BatchLeaves
<1>9. ASSUME NEW v \in Holders,
             \/ UNCHANGED <<exists, ombiUser, role>>
             \/ u \in unsynced'
             \/ /\ u \notin exists' /\ u \notin ombiUser' /\ u \notin role',
             \A w \in Holders : w # u => /\ w \in exists' <=> w \in exists
                                         /\ w \in ombiUser' <=> w \in ombiUser
                                         /\ w \in role' <=> w \in role,
             unsynced \subseteq unsynced'
      PROVE  FollowedOK(v)'
  <2>1. policy' = policy /\ FollowedOK(v)
    BY <1>1, <1>4
  <2>2. v \notin unsynced' => v \notin unsynced
    BY <1>9
  <2>3. CASE v # u
    BY <1>9, <2>1, <2>2, <2>3 DEF FollowedOK
  <2>4. CASE v = u
    BY <1>9, <2>1, <2>2, <2>4 DEF FollowedOK
  <2>5. QED
    BY <2>3, <2>4
<1>10. PICK e : e = Tells(b, "named", u)
  OBVIOUS
<1>11. e \in ErrorLists /\ e.named = b.errors.named \cup {u}
  <2>1. e = [b.errors EXCEPT !.named = @ \cup {u}]
    BY <1>10 DEF Tells
  <2>2. QED
    BY <1>7, <2>1 DEF ErrorLists
<1>12. CASE handler' = [handler EXCEPT ![h].left = @ \ {u}, ![h].errors = [e EXCEPT !.unnamed = TRUE],
                                       ![h].done = b.done] /\ UNCHANGED <<exists, ombiUser, role, unsynced>>
  <2>1. PICK f : f = [e EXCEPT !.unnamed = TRUE]
    OBVIOUS
  <2>2. f \in ErrorLists /\ f.named = b.errors.named \cup {u}
    BY <1>11, <2>1 DEF ErrorLists
  <2>3. \A v \in Holders : FollowedOK(v)'
    BY <1>9, <1>12
  <2>4. QED
    BY <1>8, <1>12, <2>1, <2>2, <2>3
<1>13. CASE /\ handler' = [handler EXCEPT ![h].left = @ \ {u}, ![h].errors = e, ![h].done = b.done]
            /\ ombiUser' = ombiUser \ {u} /\ role' = role \ {u} /\ UNCHANGED exists
            /\ unsynced' = unsynced \cup {u}
  <2>1. \A v \in Holders : FollowedOK(v)'
    BY <1>9, <1>13
  <2>2. QED
    BY <1>8, <1>11, <1>13, <2>1
<1>14. CASE /\ handler' = [handler EXCEPT ![h].left = @ \ {u}, ![h].errors = b.errors,
                                          ![h].done = b.done \cup {u}]
            /\ exists' = exists \ {u}
            /\ \/ /\ unsynced' = unsynced \cup {u}
                  /\ \/ role' = role \ {u} /\ UNCHANGED ombiUser
                     \/ ombiUser' = ombiUser \ {u} /\ UNCHANGED role
               \/ ombiUser' = ombiUser \ {u} /\ role' = role \ {u} /\ UNCHANGED unsynced
  <2>1. unsynced \subseteq unsynced'
    BY <1>14
  <2>2. \A w \in Holders : w # u => /\ w \in exists' <=> w \in exists
                                    /\ w \in ombiUser' <=> w \in ombiUser
                                    /\ w \in role' <=> w \in role
    BY <1>14
  <2>3. u \in unsynced' \/ (u \notin exists' /\ u \notin ombiUser' /\ u \notin role')
    BY <1>14
  <2>4. \A v \in Holders : FollowedOK(v)'
    BY <1>9, <2>1, <2>2, <2>3
  <2>5. u \notin exists' /\ exists' \subseteq exists
    BY <1>14
  <2>6. QED
    BY <1>7, <1>8, <1>14, <2>1, <2>4, <2>5
<1>15. QED
  <2>1. \/ /\ handler' = [handler EXCEPT ![h].left = @ \ {u}, ![h].errors = [e EXCEPT !.unnamed = TRUE],
                                         ![h].done = b.done]
           /\ UNCHANGED <<exists, ombiUser, role, unsynced>>
        \/ /\ unsynced' = unsynced \cup {u}
           /\ \/ /\ ombiUser' = ombiUser \ {u} /\ role' = role \ {u}
                 /\ handler' = [handler EXCEPT ![h].left = @ \ {u}, ![h].errors = e, ![h].done = b.done]
                 /\ UNCHANGED exists
              \/ /\ exists' = exists \ {u}
                 /\ handler' = [handler EXCEPT ![h].left = @ \ {u}, ![h].errors = b.errors,
                                               ![h].done = b.done \cup {u}]
                 /\ \/ role' = role \ {u} /\ UNCHANGED ombiUser
                    \/ ombiUser' = ombiUser \ {u} /\ UNCHANGED role
        \/ /\ exists' = exists \ {u} /\ ombiUser' = ombiUser \ {u} /\ role' = role \ {u}
           /\ handler' = [handler EXCEPT ![h].left = @ \ {u}, ![h].errors = b.errors,
                                         ![h].done = b.done \cup {u}]
           /\ UNCHANGED unsynced
    BY <1>3, <1>10 DEF DeleteUser
  <2>2. QED
    BY <2>1, <1>12, <1>13, <1>14

\* A batch that sets up users by a profile.
LEMMA PartsSay ==
    ASSUME NEW what \in Parts
    PROVE  what # {} /\ \A p \in what : p = "policy" \/ p \in {"conf", "prefs"} \/ p = "ombi"
  BY DEF Parts

LEMMA ApplyStep ==
    ASSUME AccountsInv, NEW h \in Handlers, NEW u \in Holders, ApplySettings(h, u)
    PROVE  AccountsInv'
<1>1. AccountsTypeOK /\ \A v \in Holders : RememberedOK(v) /\ FollowedOK(v)
  BY DEF AccountsInv
<1>2. handler[h].kind = "apply" /\ Batches(h) /\ handler[h] \in BatchWork /\ BatchOK(handler[h], exists)
  <2>1. Batches(h)
    BY DEF ApplySettings, Batches, BatchKinds
  <2>2. QED
    BY <1>1, <2>1, WorkSays DEF AccountsInv, ApplySettings
<1>3. PICK b \in BatchWork : b = handler[h]
  BY <1>2
<1>4. PICK new : new = [template |-> "profile", disabled |-> FALSE]
  OBVIOUS
<1>5. /\ b.kind = "apply" /\ u \in b.left
      /\ UNCHANGED <<exists, cachedPolicy, ombiUser, role, unsynced, batchOnly>>
  BY <1>3 DEF ApplySettings
<1>6. PICK fail \in SUBSET b.what :
        /\ u \notin exists => fail = b.what
        /\ policy' = IF "policy" \in b.what \ fail THEN [policy EXCEPT ![u] = new] ELSE policy
        /\ handler' = [handler EXCEPT ![h].left = @ \ {u},
              ![h].errors = [b.errors EXCEPT
                  !.named = IF "policy" \in fail THEN @ \cup {u} ELSE @,
                  !.homescreen = IF fail \cap {"conf", "prefs"} # {} THEN @ \cup {u} ELSE @,
                  !.ombi = IF "ombi" \in fail THEN @ \cup {u} ELSE @],
              ![h].done = IF fail = {} THEN b.done \cup {u} ELSE b.done]
        /\ IF "policy" \in b.what \ fail
           THEN wantPolicy' = [wantPolicy EXCEPT ![u] = new] /\ Outdates(b, u)
           ELSE UNCHANGED <<wantPolicy, outdated>>
  BY <1>3, <1>4 DEF ApplySettings
<1>7. ApplyOK(b) /\ b.left \subseteq b.all /\ b.done \subseteq b.all \ b.left
  BY <1>2, <1>3, <1>5 DEF BatchOK
<1>8. handler \in [Handlers -> HandlerWork] /\ policy \in [Holders -> Policies]
      /\ wantPolicy \in [Holders -> Policies] /\ cachedPolicy \in {<<>>} \cup [Holders -> Policies]
  BY <1>1 DEF AccountsTypeOK
<1>9. b.errors \in ErrorLists
  BY DEF BatchWork
<1>10. PICK e : e = [b.errors EXCEPT
                        !.named = IF "policy" \in fail THEN @ \cup {u} ELSE @,
                        !.homescreen = IF fail \cap {"conf", "prefs"} # {} THEN @ \cup {u} ELSE @,
                        !.ombi = IF "ombi" \in fail THEN @ \cup {u} ELSE @]
  OBVIOUS
<1>11. /\ e \in ErrorLists
       /\ e.named = IF "policy" \in fail THEN b.errors.named \cup {u} ELSE b.errors.named
       /\ e.homescreen = IF fail \cap {"conf", "prefs"} # {} THEN b.errors.homescreen \cup {u}
                         ELSE b.errors.homescreen
       /\ e.ombi = IF "ombi" \in fail THEN b.errors.ombi \cup {u} ELSE b.errors.ombi
  BY <1>9, <1>10 DEF ErrorLists
<1>12. PICK told : told = e.named \cup e.homescreen \cup e.ombi
  OBVIOUS
<1>13. told = IF fail = {} THEN Told(b) ELSE Told(b) \cup {u}
  <2>1. CASE fail = {}
    BY <1>11, <1>12, <2>1 DEF Told
  <2>2. CASE fail # {}
    <3>1. PICK p \in fail : TRUE
      BY <2>2
    <3>2. b.what \in Parts /\ p \in b.what
      BY <1>7 DEF ApplyOK
    <3>3. p = "policy" \/ p \in {"conf", "prefs"} \/ p = "ombi"
      BY <3>2, PartsSay
    <3>4. "policy" \in fail \/ fail \cap {"conf", "prefs"} # {} \/ "ombi" \in fail
      BY <3>1, <3>3
    <3>5. u \in told
      BY <1>11, <1>12, <3>4
    <3>6. told \cup {u} = Told(b) \cup {u}
      BY <1>11, <1>12 DEF Told
    <3>7. QED
      BY <2>2, <3>5, <3>6
  <2>3. QED
    BY <2>1, <2>2
<1>14. PICK done : done = IF fail = {} THEN b.done \cup {u} ELSE b.done
  OBVIOUS
<1>15. PICK n : n = [b EXCEPT !.left = @ \ {u}, !.errors = e, !.done = done]
  OBVIOUS
<1>16. /\ n \in BatchWork /\ n.kind = b.kind /\ n.user = b.user /\ n.all = b.all /\ n.left = b.left \ {u}
       /\ n.errors = e /\ n.done = done /\ n.shared = b.shared /\ n.seen = b.seen /\ n.what = b.what
  BY <1>11, <1>14, <1>15 DEF BatchWork
<1>17. handler' = [handler EXCEPT ![h] = n]
  BY <1>3, <1>6, <1>10, <1>14, <1>15
<1>18. Told(n) = told
  BY <1>12, <1>16 DEF Told
<1>19. ApplyOK(n)
  BY <1>5, <1>7, <1>13, <1>14, <1>16, <1>18 DEF ApplyOK
<1>20. BatchOK(n, exists')
  BY <1>5, <1>7, <1>14, <1>16, <1>19 DEF BatchOK
<1>21. handler'[h] = n /\ \A g \in Handlers : g # h => handler'[g] = handler[g]
  BY <1>8, <1>17
<1>22. new \in Policies /\ new.disabled = FALSE
  BY <1>4 DEF Policies
<1>23. /\ policy' \in [Holders -> Policies] /\ wantPolicy' \in [Holders -> Policies]
       /\ outdated \subseteq outdated'
       /\ \A v \in Holders : \/ policy'[v] = policy[v] /\ wantPolicy'[v] = wantPolicy[v]
                             \/ policy'[v] = new /\ wantPolicy'[v] = new
  <2>1. CASE "policy" \in b.what \ fail
    <3>1. /\ policy' = [policy EXCEPT ![u] = new] /\ wantPolicy' = [wantPolicy EXCEPT ![u] = new]
          /\ outdated \subseteq outdated'
      BY <1>6, <2>1 DEF Outdates
    <3>2. QED
      BY <1>8, <1>22, <3>1
  <2>2. CASE "policy" \notin b.what \ fail
    BY <1>6, <1>8, <2>2
  <2>3. QED
    BY <2>1, <2>2
<1>24. ASSUME NEW v \in Holders PROVE RememberedOK(v)'
  <2> SUFFICES ASSUME v \notin outdated' PROVE RememberedOK(v)'
    BY DEF RememberedOK
  <2>1. policy'[v] = wantPolicy'[v]
    BY <1>1, <1>23 DEF RememberedOK
  <2>2. ASSUME NEW g \in Handlers, Switches(g)' PROVE handler'[g].shared
    <3>1. g # h
      BY <1>5, <1>16, <1>21, <2>2 DEF Switches
    <3>2. Switches(g) /\ handler'[g] = handler[g]
      BY <1>21, <2>2, <3>1 DEF Switches
    <3>3. QED
      BY <1>2, <3>1, <3>2, OthersShare
  <2>3. QED
    BY <2>1, <2>2 DEF RememberedOK
<1>25. ASSUME NEW v \in Holders PROVE FollowedOK(v)'
  <2>1. policy[v].disabled = FALSE => policy'[v].disabled = FALSE
    BY <1>22, <1>23
  <2>2. policy[v].disabled \in BOOLEAN /\ policy'[v].disabled \in BOOLEAN
    BY <1>8, <1>23 DEF Policies
  <2>3. QED
    BY <1>1, <1>5, <2>1, <2>2 DEF FollowedOK
<1>26. QED
  BY <1>2, <1>3, <1>5, <1>8, <1>16, <1>17, <1>20, <1>23, <1>24, <1>25, BatchLeaves

\* Jellyfin is administered without the application.
LEMMA EditStep == ASSUME AccountsInv, NEW u \in Holders, JellyfinEdits(u) PROVE AccountsInv'
<1>1. /\ AccountsTypeOK /\ AloneOK /\ AnswerOK
      /\ \A v \in Holders : RowOK(v) /\ RememberedOK(v) /\ FollowedOK(v)
  BY DEF AccountsInv
<1>2. /\ policy' = [policy EXCEPT ![u].template = "edited"]
      /\ wantPolicy' = [wantPolicy EXCEPT ![u].template = "edited"]
      /\ outdated \subseteq outdated'
      /\ u \notin outdated' => /\ cachedPolicy = <<>>
                               /\ \A g \in Handlers : ~(handler[g].kind \in BatchKinds /\ handler[g].user = u)
      /\ UNCHANGED <<exists, cachedPolicy, ombiUser, role, row, serviceAddr, links, handler, want, asked,
                     crossed, unsynced, wiped, answer>>
  BY DEF JellyfinEdits
<1>3. policy \in [Holders -> Policies] /\ wantPolicy \in [Holders -> Policies]
  BY <1>1 DEF AccountsTypeOK
<1>4. \A p \in Policies : [p EXCEPT !.template = "edited"] \in Policies
                          /\ [p EXCEPT !.template = "edited"].disabled = p.disabled
  BY DEF Policies
<1>5. /\ policy' \in [Holders -> Policies] /\ wantPolicy' \in [Holders -> Policies]
      /\ policy'[u] = [policy[u] EXCEPT !.template = "edited"]
      /\ wantPolicy'[u] = [wantPolicy[u] EXCEPT !.template = "edited"]
      /\ \A v \in Holders : v # u => policy'[v] = policy[v] /\ wantPolicy'[v] = wantPolicy[v]
      /\ \A v \in Holders : policy'[v].disabled = policy[v].disabled
  BY <1>2, <1>3, <1>4
<1>6. AccountsTypeOK'
  BY <1>1, <1>2, <1>5 DEF AccountsTypeOK
<1>7. AloneOK' /\ AnswerOK'
  BY <1>1, <1>2 DEF AloneOK, AnswerOK, Batches
<1>8. ASSUME NEW v \in Holders PROVE RowOK(v)'
  BY <1>1, <1>2, RowStays DEF Row
<1>9. ASSUME NEW v \in Holders PROVE FollowedOK(v)'
  BY <1>1, <1>2, <1>5 DEF FollowedOK
<1>10. ASSUME NEW v \in Holders PROVE RememberedOK(v)'
  <2>1. CASE v # u
    BY <1>1, <1>2, <1>5, <2>1, PolicyStays
  <2>2. CASE v = u
    <3> SUFFICES ASSUME u \notin outdated' PROVE RememberedOK(u)'
      BY <2>2 DEF RememberedOK
    <3>1. policy[u] = wantPolicy[u]
      BY <1>1, <1>2 DEF RememberedOK
    <3>2. \A g \in Handlers : Switches(g)' => handler'[g].user # u
      BY <1>2 DEF Switches, BatchKinds
    <3>3. QED
      BY <1>2, <1>5, <2>2, <3>1, <3>2 DEF RememberedOK
  <2>3. QED
    BY <2>1, <2>2
<1>11. QED
  BY <1>2, <1>6, <1>7, <1>8, <1>9, <1>10 DEF AccountsInv, Batches

\* As many as all of them are all of them.
LEMMA AllOfThem ==
    ASSUME NEW all \in SUBSET Holders, NEW some, some \subseteq all, Cardinality(some) = Cardinality(all)
    PROVE  some = all
<1>1. IsFiniteSet(all)
  BY AccountsAssumption, FS_Subset
<1>2. QED
  BY <1>1, FS_Subset

LEMMA CodeSays ==
    ASSUME NEW b \in BatchWork, NEW there, BatchOK(b, there), b.left = {}, b.user = Nobody
    PROVE  /\ b.kind \in {"enable", "disable"} =>
                 /\ Code(b) = 200 <=> b.done = b.all
                 /\ ~b.errors.unnamed => b.errors.named = b.all \ b.done
           /\ b.kind = "delete" =>
                 /\ b.all \cap there \subseteq b.errors.named
                 /\ Code(b) = 200 <=> b.done = b.all
                 /\ BareAnswer(b) => b.done = {} \/ b.errors.unnamed
           /\ b.kind = "apply" =>
                 /\ Code(b) = 500 => b.done = {}
                 /\ Told(b) = b.all \ b.done
<1>1. b.all \in SUBSET Holders /\ b.errors \in ErrorLists
  BY DEF BatchWork
<1>2. b.errors.unnamed \in BOOLEAN
  BY <1>1 DEF ErrorLists
<1>3. CASE b.kind \in {"enable", "disable"}
  <2>1. SwitchOK(b) /\ b.done \subseteq b.all
    BY <1>3 DEF BatchOK
  <2>2. ~b.errors.unnamed => b.errors.named = b.all \ b.done
    BY <1>1, <2>1, AccountsAssumption DEF SwitchOK
  <2>3. b.errors.unnamed => b.done # b.all
    BY <2>1 DEF SwitchOK
  <2>4. b.done = b.all => b.errors.named = {}
    BY <2>1 DEF SwitchOK
  <2>5. Code(b) = 200 <=> b.errors.named = {} /\ ~b.errors.unnamed
    BY <1>3 DEF Code
  <2>6. Code(b) = 200 <=> b.done = b.all
    BY <2>1, <2>2, <2>3, <2>4, <2>5
  <2>7. QED
    BY <1>3, <2>2, <2>6
<1>4. CASE b.kind = "delete"
  <2>1. DeleteOK(b, there)
    BY <1>4 DEF BatchOK
  <2>2. Code(b) = 200 <=> b.errors.named = {} /\ ~b.errors.unnamed
    BY <1>4 DEF Code
  <2>3. b.all \cap there \subseteq b.errors.named /\ b.errors.named = b.all \ b.done /\ b.done \subseteq b.all
        /\ (b.errors.unnamed => b.errors.named # {})
    BY <2>1 DEF DeleteOK
  <2>4. Code(b) = 200 <=> b.done = b.all
    BY <2>2, <2>3
  <2>5. ASSUME BareAnswer(b), ~b.errors.unnamed PROVE b.done = {}
    <3>1. IsFiniteSet(b.errors.named)
      BY <1>1, <2>3, AccountsAssumption, FS_Subset
    <3>2. Cardinality(b.errors.named) \in Nat
      BY <3>1, FS_CardinalityType
    <3>3. Cardinality(b.errors.named) = Cardinality(b.all)
      BY <2>5, <3>2 DEF BareAnswer, Listed
    <3>4. b.errors.named = b.all
      BY <1>1, <2>3, <3>3, AllOfThem
    <3>5. QED
      BY <2>3, <3>4
  <2>6. QED
    BY <1>4, <2>3, <2>4, <2>5
<1>5. CASE b.kind = "apply"
  <2>1. ApplyOK(b) /\ b.done \subseteq b.all
    BY <1>5 DEF BatchOK
  <2>2. Told(b) = b.all \ b.done
    BY <2>1 DEF ApplyOK
  <2>3. b.errors.named \subseteq b.all \ b.done /\ b.errors.homescreen \subseteq b.all \ b.done
    BY <2>2 DEF Told
  <2>4. ASSUME Code(b) = 500 PROVE b.done = {}
    <3>1. \/ Cardinality(b.errors.named) = Cardinality(b.all)
          \/ Cardinality(b.errors.homescreen) = Cardinality(b.all)
      BY <1>5, <2>4 DEF Code
    <3>2. b.errors.named = b.all \/ b.errors.homescreen = b.all
      BY <1>1, <2>3, <3>1, AllOfThem
    <3>3. QED
      BY <2>1, <2>3, <3>2
  <2>5. QED
    BY <1>5, <2>2, <2>4
<1>6. QED
  BY <1>3, <1>4, <1>5

\* The answer.
LEMMA AnswerStep == ASSUME AccountsInv, NEW h \in Handlers, Answer(h) PROVE AccountsInv'
<1>1. AccountsTypeOK /\ AloneOK /\ \A v \in Holders : RowOK(v) /\ RememberedOK(v) /\ FollowedOK(v)
  BY DEF AccountsInv
<1>2. Batches(h) /\ handler[h] \in BatchWork /\ BatchOK(handler[h], exists)
  <2>1. Batches(h)
    BY DEF Answer, Batches
  <2>2. QED
    BY <1>1, <2>1, WorkSays DEF AccountsInv
<1>3. PICK b \in BatchWork : b = handler[h]
  BY <1>2
<1>4. /\ b.kind \in BatchKinds /\ b.left = {} /\ b.user = Nobody
      /\ answer' = [kind |-> b.kind, all |-> b.all, done |-> b.done, errors |-> b.errors, what |-> b.what,
                    code |-> Code(b), bare |-> BareAnswer(b), still |-> b.all \cap exists]
      /\ handler' = [handler EXCEPT ![h] = Idle] /\ cachedPolicy' = <<>>
      /\ UNCHANGED <<exists, policy, wantPolicy, outdated, ombiUser, role, row, serviceAddr, links, want,
                     asked, crossed, unsynced, wiped>>
  BY <1>3 DEF Answer
<1>5. /\ handler' \in [Handlers -> HandlerWork] /\ handler'[h] = Idle
      /\ \A g \in Handlers : g # h => handler'[g] = handler[g]
  BY <1>1, <1>4 DEF AccountsTypeOK, HandlerWork
<1>6. /\ Idle.kind # "row" /\ Idle.kind \notin BatchKinds /\ ~(Idle.kind \in {"enable", "disable"})
  BY DEF Idle, BatchKinds
<1>7. AccountsTypeOK'
  BY <1>1, <1>4, <1>5 DEF AccountsTypeOK
<1>8. \A g \in Handlers : Batches(g)' => g # h /\ Batches(g) /\ handler'[g] = handler[g]
  BY <1>5, <1>6 DEF Batches
<1>9. AloneOK'
  BY <1>1, <1>4, <1>8 DEF AloneOK
<1>10. \A g \in Handlers : Batches(g)' => BatchOK(handler'[g], exists')
  BY <1>4, <1>8 DEF AccountsInv
<1>11. ASSUME NEW v \in Holders PROVE RowOK(v)'
  BY <1>1, <1>4, <1>5, <1>6, RowStays DEF Row
<1>12. ASSUME NEW v \in Holders PROVE RememberedOK(v)'
  BY <1>1, <1>4, <1>5, <1>6, PolicyStays
<1>13. ASSUME NEW v \in Holders PROVE FollowedOK(v)'
  BY <1>1, <1>4 DEF FollowedOK
<1>14. AnswerOK'
  <2>1. /\ answer'.kind = b.kind /\ answer'.all = b.all /\ answer'.done = b.done /\ answer'.errors = b.errors
        /\ answer'.code = Code(b) /\ answer'.bare = BareAnswer(b) /\ answer'.still = b.all \cap exists
    BY <1>4
  <2>2. BatchOK(b, exists)
    BY <1>2, <1>3
  <2>3. /\ b.kind \in {"enable", "disable"} =>
              /\ Code(b) = 200 <=> b.done = b.all
              /\ ~b.errors.unnamed => b.errors.named = b.all \ b.done
        /\ b.kind = "delete" =>
              /\ b.all \cap exists \subseteq b.errors.named
              /\ Code(b) = 200 <=> b.done = b.all
              /\ BareAnswer(b) => b.done = {} \/ b.errors.unnamed
        /\ b.kind = "apply" =>
              /\ Code(b) = 500 => b.done = {}
              /\ Told(b) = b.all \ b.done
    BY <1>4, <2>2, CodeSays
  <2>4. answer'.errors.named \cup answer'.errors.homescreen \cup answer'.errors.ombi = Told(b)
    BY <2>1 DEF Told
  <2>5. QED
    BY <2>1, <2>3, <2>4 DEF AnswerOK
<1>15. QED
  BY <1>7, <1>9, <1>10, <1>11, <1>12, <1>13, <1>14 DEF AccountsInv, Batches

LEMMA AccountsStep == ASSUME AccountsInv, AccountsNext PROVE AccountsInv'
<1>1. CASE \E h \in Handlers, u \in Holders :
              \/ \E admin \in BOOLEAN : SetAccountsAdmin(h, u, admin)
              \/ \E label \in Labels : ModifyLabels(h, u, label)
  BY <1>1, FlagStep
<1>2. CASE \E h \in Handlers, u \in Holders, a \in Addrs : ModifyEmails(h, u, a)
  BY <1>2, EmailsStep
<1>3. CASE \E h \in Handlers, u \in Holders, a \in Addrs : ModifyMyEmail(h, u, a)
  BY <1>3, MyEmailStep
<1>4. CASE \E h \in Handlers, u \in Holders : TakeUser(h, u)
  BY <1>4, TakeUserStep
<1>5. CASE \E h \in Handlers, u \in Holders : DeleteUser(h, u)
  BY <1>5, DeleteStep
<1>6. CASE \E h \in Handlers, u \in Holders : ApplySettings(h, u)
  BY <1>6, ApplyStep
<1>7. CASE \E h \in Handlers, l \in links : ConfirmMyAction(h, l)
  BY <1>7, ConfirmStep
<1>8. CASE \E h \in Handlers, us \in SUBSET Holders, kind \in {"enable", "disable", "delete"} :
              Batch(h, kind, us, {})
  BY <1>8, BatchStep
<1>9. CASE \E h \in Handlers, us \in SUBSET Holders, what \in Parts : Batch(h, "apply", us, what)
  BY <1>9, BatchStep
<1>10. CASE \E h \in Handlers : WriteRow(h)
  BY <1>10, WriteRowStep
<1>11. CASE \E h \in Handlers : SetUserDisabled(h)
  BY <1>11, SwitchStep
<1>12. CASE \E h \in Handlers : Answer(h)
  BY <1>12, AnswerStep
<1>13. CASE \/ \E l \in links : LinkExpires(l)
            \/ ClearEmails
            \/ Forgets
  BY <1>13, LinkStep
<1>14. CASE \E u \in Holders : ClearEmail(u)
  BY <1>14, ClearStep
<1>15. CASE \E u \in Holders : JellyfinEdits(u)
  BY <1>15, EditStep
<1>16. QED
  BY <1>1, <1>2, <1>3, <1>4, <1>5, <1>6, <1>7, <1>8, <1>9, <1>10, <1>11, <1>12, <1>13, <1>14, <1>15
     DEF AccountsNext, Addrs

LEMMA AccountsRest == ASSUME AccountsInv, UNCHANGED accountVars PROVE AccountsInv'
<1>1. \A l \in links' : l.user \in Holders /\ l.addr \in Addrs
  BY DEF accountVars, AccountsInv, AccountsTypeOK
<1>2. QED
  BY <1>1, QuietStep DEF accountVars

LEMMA AccountsAtFirst == AccountsInit => AccountsInv
<1> SUFFICES ASSUME AccountsInit PROVE AccountsInv
  OBVIOUS
<1>1. PICK a \in Addrs :
        /\ row = [u \in Holders |-> [NewRow EXCEPT !.addr = a, !.contact = (a # NoAddr)]]
        /\ asked = [u \in Holders |-> {a}]
        /\ serviceAddr = [u \in Holders |-> a]
  BY DEF AccountsInit, Addrs
<1>2. PICK r : r = [NewRow EXCEPT !.addr = a, !.contact = (a # NoAddr)]
  OBVIOUS
<1>3. r \in Rows /\ r.addr = a
  BY <1>2 DEF NewRow, Rows, Addrs
<1>4. \A u \in Holders : Row(u) = r /\ want[u] = r
  BY <1>1, <1>2 DEF Row, AccountsInit
<1>5. \A h \in Handlers : handler[h] = Idle
  BY DEF AccountsInit
<1>6. /\ Idle.kind # "row" /\ Idle.kind \notin BatchKinds /\ ~(Idle.kind \in {"enable", "disable"})
  BY DEF Idle, BatchKinds
<1>7. [template |-> "own", disabled |-> FALSE] \in Policies
  BY DEF Policies
<1>8. AccountsTypeOK
  BY <1>1, <1>2, <1>3, <1>7 DEF AccountsInit, AccountsTypeOK, HandlerWork
<1>9. AloneOK
  BY <1>5, <1>6 DEF AloneOK, Batches, AccountsInit
<1>10. AnswerOK
  BY DEF AnswerOK, AccountsInit, NoAnswer
<1>11. ASSUME NEW u \in Holders PROVE RowOK(u)
  BY <1>1, <1>3, <1>4, <1>5, <1>6 DEF RowOK, Revises
<1>12. ASSUME NEW u \in Holders PROVE RememberedOK(u)
  BY <1>5, <1>6 DEF RememberedOK, Switches, AccountsInit
<1>13. ASSUME NEW u \in Holders PROVE FollowedOK(u)
  BY <1>7 DEF FollowedOK, AccountsInit
<1>14. QED
  BY <1>5, <1>6, <1>8, <1>9, <1>10, <1>11, <1>12, <1>13 DEF AccountsInv, Batches

\* The promises follow.
LEMMA AccountsSafe == AccountsInv => DetailsKept /\ BatchesTold
<1> SUFFICES ASSUME AccountsInv PROVE DetailsKept /\ BatchesTold
  OBVIOUS
<1>1. exists \subseteq Holders
  BY DEF AccountsInv, AccountsTypeOK
<1>2. DetailsKept
  BY <1>1 DEF AccountsInv, RowOK, RememberedOK, DetailsKept
<1>3. BatchesTold
  BY DEF AccountsInv, AnswerOK, FollowedOK, BatchesTold
<1>4. QED
  BY <1>2, <1>3

LEMMA AccountsAlways == Spec => [](topic = "accounts" => AccountsInv)
<1> DEFINE Inv == topic = "accounts" => AccountsInv
<1>1. Init => Inv
  BY AccountsAtFirst DEF Init
<1>2. Inv /\ [Next]_vars => Inv'
  <2> SUFFICES ASSUME Inv, [Next]_vars PROVE Inv'
    OBVIOUS
  <2>1. CASE Changes
    BY <2>1, AccountsStep DEF Changes
  <2>2. CASE SignIns \/ Resets \/ Referring \/ Notices
    BY <2>2 DEF SignIns, Resets, Referring, Notices
  <2>3. CASE UNCHANGED vars
    BY <2>3, AccountsRest DEF vars
  <2>4. QED
    BY <2>1, <2>2, <2>3 DEF Next
<1>3. QED
  BY <1>1, <1>2, PTL DEF Spec

\* For any users, handlers, addresses and labels: the row, the services and Jellyfin's policy say
\* what was asked last, unless handlers crossed or a service failed (modifyEmail, api-users.go:1241;
\* SetUserDisabled, users.go:185).
THEOREM DetailsStay == Spec => []AccountDetails
<1>1. (topic = "accounts" => AccountsInv) => AccountDetails
  BY AccountsSafe DEF AccountDetails
<1>2. QED
  BY <1>1, AccountsAlways, PTL

\* For any users and batches: the answer tells whom it was not done for (EnableDisableUsers,
\* DeleteUsers, ApplySettings, api-users.go:419, 490, 1311).
THEOREM BatchesTell == Spec => []BatchAnswers
<1>1. (topic = "accounts" => AccountsInv) => BatchAnswers
  BY AccountsSafe DEF BatchAnswers
<1>2. QED
  BY <1>1, AccountsAlways, PTL

=============================================================================
