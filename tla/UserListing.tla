----------------------------- MODULE UserListing -----------------------------
(***************************************************************************)
(* Searching, sorting and paging the accounts and the activities           *)
(* (usercache.go, api-users.go, activitysort.go, api-activities.go).       *)
(*                                                                         *)
(* A text is a sequence of letters: a small letter is its place in the     *)
(* alphabet, a capital is Capital more.  A time is a day and an hour.      *)
(* The fields of an entry are grouped by type: text, flag and time.        *)
(***************************************************************************)
EXTENDS Integers, Sequences, FiniteSets, SequencesExt, Selections

CONSTANTS
    JellyfinUsers,      \* the orders in which Jellyfin may list the users
    UserRequests        \* records [field, ascending, terms, queries, limit] of a page's requests

VARIABLES
    userCache,      \* the list all requests share, and whether it is sorted by name
    userRequest,    \* what one page of the administrator asks for
    userPage,       \* the number of the part it asks for next
    userGot,        \* what it has got
    userEnd,        \* it was told that there is no more
    userMoved       \* the shared list has changed its order since the first part

userVars == <<userCache, userRequest, userPage, userGot, userEnd, userMoved>>

Capital == 100
Lower(s) == [i \in DOMAIN s |-> IF s[i] > Capital THEN s[i] - Capital ELSE s[i]]
Includes(s, term) == term \in SubSeqs(s)

\* The fields of an account, those that may be asked for as present, and those searched.
TextField == {"id", "name", "email", "telegram", "discord", "discord_id", "matrix", "label"}
FlagField == {"notify_email", "admin", "disabled", "notify_telegram", "notify_discord",
              "notify_matrix", "accounts_admin", "referrals_enabled"}
TimeField == {"last_active", "expiry"}
LinkField == {"email", "telegram", "discord", "matrix", "label"}
SearchField == {"name", "label", "email", "discord", "matrix", "telegram"}

NoTime == <<0, 0>>
LeftOut == -1      \* what a date of a query leaves out
NameField == "name"

\* Every list has all accounts, whose ids differ and have small letters only.
Accounts == UNION {ToSet(users) : users \in JellyfinUsers}

ASSUME UsersAssumption ==
    /\ \A u \in Accounts : /\ \A f \in TextField : u[f] \in Seq(Int)
                           /\ \A f \in FlagField : u[f] \in BOOLEAN
                           /\ \A f \in TimeField : u[f] \in Int \X Int
                           /\ \A i \in DOMAIN u.id : u.id[i] <= Capital
    /\ \A users \in JellyfinUsers :
          /\ users \in Seq(Accounts) /\ ToSet(users) = Accounts
          /\ \A i, j \in DOMAIN users : i # j => users[i].id # users[j].id
    /\ \A req \in UserRequests :
          /\ req.field \in TextField \cup FlagField \cup TimeField
          /\ req.ascending \in BOOLEAN /\ req.limit \in Nat \ {0}

-----------------------------------------------------------------------------
(* Comparing: -1, 0 or 1.                                                  *)

Sign(n) == IF n < 0 THEN -1 ELSE IF n = 0 THEN 0 ELSE 1

\* The first place at which they differ decides, and a prefix comes first.
CompareSeq(a, b) ==
    LET differ == {i \in DOMAIN a \cap DOMAIN b : a[i] # b[i]}
    IN  IF differ = {} THEN Sign(Len(a) - Len(b)) ELSE Sign(a[Min(differ)] - b[Min(differ)])

bool2int(b) == IF b THEN 1 ELSE 0

SortUsersBy(field, a, b) ==
    CASE field \in TextField -> CompareSeq(Lower(a[field]), Lower(b[field]))
      [] field \in FlagField -> Sign(bool2int(a[field]) - bool2int(b[field]))
      [] field \in TimeField -> CompareSeq(a[field], b[field])

\* slices.SortFunc sorts so few entries by insertion, which keeps the order of equal
\* ones; badgerhold sorts with the same library.
Sorted(list, Cmp(_, _)) ==
    LET before == {p \in (DOMAIN list) \X (DOMAIN list) :
                       \/ Cmp(list[p[1]], list[p[2]]) < 0
                       \/ Cmp(list[p[1]], list[p[2]]) = 0 /\ p[1] < p[2]}
        place  == Ranked(DOMAIN list, before)
    IN  [n \in DOMAIN list |-> list[place[n]]]

Sort(users, field, ascending) ==
    LET up == Sorted(users, LAMBDA a, b : SortUsersBy(field, a, b))
    IN  IF ascending THEN up ELSE Reverse(up)

\* A date a query asks for: what it leaves out is taken from the time it is compared to.
Whole(d, t) == <<IF d.day = LeftOut THEN t[1] ELSE d.day, IF d.hour = LeftOut THEN t[2] ELSE d.hour>>

CompareUnixWithOperator_Zero(d, t, op) == CompareSeq(t, Whole(d, t)) = op
CompareUnixWithOperator(d, t, op) == t # NoTime /\ CompareSeq(t, Whole(d, t)) = op

-----------------------------------------------------------------------------
(* Filtering.  A query has a flag, a text or a date for its class.         *)

Operator(q) == CASE q.op = "<" -> -1 [] q.op = "=" -> 0 [] q.op = ">" -> 1

TextFilter(q, u) ==
    IF q.class = "bool" /\ q.field \in LinkField
    THEN (u[q.field] # <<>>) = q.flag
    ELSE CompareSeq(Lower(u[q.field]), Lower(q.text)) = Operator(q)

FlagFilter(q, u) == Sign(bool2int(u[q.field]) - bool2int(q.flag)) = Operator(q)

TimeFilter(q, u) ==
    IF q.class = "bool" THEN (u[q.field] # NoTime) = q.flag
    ELSE CompareUnixWithOperator(q.date, u[q.field], Operator(q))

AsFilter(q, u) ==
    CASE q.field \in TextField -> TextFilter(q, u)
      [] q.field \in FlagField -> FlagFilter(q, u)
      [] q.field \in TimeField -> TimeFilter(q, u)

\* The web application sends its terms in small letters, and ids have no others.
MatchesSearch(u, term) ==
    Includes(u.id, term) \/ \E f \in SearchField : Includes(Lower(u[f]), term)

Filter_AnyTerm(users, terms, queries) ==
    Within(users, {u \in ToSet(users) : /\ terms # {} => \E t \in terms : MatchesSearch(u, t)
                                        /\ \A q \in queries : AsFilter(q, u)})
Filter(users, terms, queries) ==
    Within(users, {u \in ToSet(users) : /\ \A t \in terms : MatchesSearch(u, t)
                                        /\ \A q \in queries : AsFilter(q, u)})

-----------------------------------------------------------------------------
(* The handlers.  A cache is the list all requests share and whether it    *)
(* has been sorted by name, which is done in place.                        *)

GetUserDTOs(cache, sorted) ==
    IF sorted /\ ~cache.sorted
    THEN [list |-> Sort(cache.list, NameField, TRUE), sorted |-> TRUE]
    ELSE cache

\* The part of a list a page shows, and whether it says it is the last one.
Page_SkipsOne(list, page, limit) ==
    LET shown == SubSeq(list, page * limit + 1 + (IF page > 0 THEN 1 ELSE 0),
                        IF (page + 1) * limit < Len(list) THEN (page + 1) * limit ELSE Len(list))
    IN  [shown |-> shown, last |-> Len(shown) # limit]
Page(list, page, limit) ==
    LET shown == SubSeq(list, page * limit + 1,
                        IF (page + 1) * limit < Len(list) THEN (page + 1) * limit ELSE Len(list))
    IN  [shown |-> shown, last |-> Len(shown) # limit]

SearchUsers(cache, req, page) ==
    LET byName   == req.field = NameField
        dtos     == GetUserDTOs(cache, byName).list
        filtered == Filter(dtos, req.terms, req.queries)
        ordered  == IF ~byName THEN Sort(filtered, req.field, req.ascending)
                    ELSE IF req.ascending THEN filtered ELSE Reverse(filtered)
    IN  Page(ordered, page, req.limit)

GetFilteredUserCount(cache, req) == Len(Filter(cache.list, req.terms, req.queries))

-----------------------------------------------------------------------------
(* A page that asks for one part after the other, as one does that is      *)
(* scrolled down, while others do the same.                                *)

UsersInit ==
    /\ \E list \in JellyfinUsers, sorted \in BOOLEAN :
           userCache = GetUserDTOs([list |-> list, sorted |-> FALSE], sorted)
    /\ userRequest \in UserRequests
    /\ userPage = 0 /\ userGot = <<>>
    /\ userEnd = FALSE /\ userMoved = FALSE

AskForUsers ==
    /\ ~userEnd
    /\ LET part == SearchUsers(userCache, userRequest, userPage)
       IN  userGot' = userGot \o part.shown /\ userEnd' = part.last
    /\ userPage' = userPage + 1
    /\ userCache' = GetUserDTOs(userCache, userRequest.field = NameField)
    /\ UNCHANGED <<userRequest, userMoved>>

\* Another request sorts the list by name, or a synchronisation brings a new one.
OtherRequest ==
    /\ ~userEnd
    /\ \/ userCache' = GetUserDTOs(userCache, TRUE)
       \/ \E list \in JellyfinUsers : userCache' = [list |-> list, sorted |-> FALSE]
    /\ userMoved' = (userMoved \/ (userPage > 0 /\ userCache'.list # userCache.list))
    /\ UNCHANGED <<userRequest, userPage, userGot, userEnd>>

UsersNext == AskForUsers \/ OtherRequest

-----------------------------------------------------------------------------
Wanted(u, req) ==
    /\ \A q \in req.queries : AsFilter(q, u)
    /\ \A t \in req.terms : \E f \in SearchField \cup {"id"} : Includes(Lower(u[f]), t)

Ordered(list, field, ascending) ==
    \A i \in 1..(Len(list) - 1) :
        LET c == SortUsersBy(field, list[i], list[i + 1]) IN IF ascending THEN c <= 0 ELSE c >= 0

\* SearchUsers (api-users.go:1105): when a page was told that there is no more, it has
\* every account that satisfies all terms and queries, as many as the count said, none
\* twice and in the order it asked for - except where accounts are equal in it and another
\* request has changed the order of the shared list meanwhile.
UserPagesComplete ==
    userEnd =>
        LET all    == ToSet(userCache.list)
            wanted == {u \in all : Wanted(u, userRequest)}
            ties   == \E u, v \in wanted : u # v /\ SortUsersBy(userRequest.field, u, v) = 0
        IN  (userMoved => ~ties) =>
               /\ ToSet(userGot) = wanted /\ Len(userGot) = Cardinality(wanted)
               /\ GetFilteredUserCount(userCache, userRequest) = Len(userGot)
               /\ Ordered(userGot, userRequest.field, userRequest.ascending)

=============================================================================
