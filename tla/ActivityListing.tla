--------------------------- MODULE ActivityListing ---------------------------
(***************************************************************************)
(* The log of activities: queries on the database and their pages          *)
(* (activitysort.go, api-activities.go).  badgerhold is external: a query  *)
(* is a conjunction of criteria, and alternatives that were added to it    *)
(* with Or; a criterion added later joins the conjunction only.            *)
(***************************************************************************)
EXTENDS UserListing

CONSTANTS
    UserNames,          \* the names of the users Jellyfin has
    Logs,               \* the log at first: sequences of activities
    LaterActivities,    \* what may happen while a page is read
    ActivityRequests    \* records [field, ascending, terms, queries, limit]

VARIABLES activities, actRequest, actPage, actGot, actEnd, atFirst

actVars == <<activities, actRequest, actPage, actGot, actEnd, atFirst>>

ActivityType == {"creation", "deletion", "disabled", "enabled", "contactLinked", "contactUnlinked",
                 "changePassword", "resetPassword", "createInvite", "deleteInvite"}

SourceType == {"user", "admin", "anon", "daemon"}

\* The fields of the stored record that can be asked for or sorted by.
DBField == {"id", "type", "user_id", "source_type", "source", "invite_code", "value", "time", "ip"}
SearchedField == {"id", "user_id", "source", "invite_code", "value", "ip"}

\* A query for a type of activity is <type>:true or <type>:false.
TypeGetter == [accountCreation |-> "creation", accountDeletion |-> "deletion",
               accountDisabled |-> "disabled", accountEnabled |-> "enabled",
               contactLinked |-> "contactLinked", contactUnlinked |-> "contactUnlinked",
               passwordChange |-> "changePassword", passwordReset |-> "resetPassword",
               inviteCreated |-> "createInvite", inviteDeleted |-> "deleteInvite"]

\* Activities are logged as they happen, each later than the one before.
Activity == LaterActivities \cup UNION {ToSet(log) : log \in Logs}

ASSUME ActivitiesAssumption ==
    /\ \A act \in Activity : act.time \in Int \X Int
    /\ \A log \in Logs :
          /\ log \in Seq(Activity) /\ log # <<>>
          /\ \A i, j \in DOMAIN log : i < j => CompareSeq(log[i].time, log[j].time) < 0
    /\ \A req \in ActivityRequests : req.limit \in Nat \ {0} /\ req.ascending \in BOOLEAN

SourceIsUser(act) == act.source_type \in {"user", "admin"} /\ act.source # <<>>

\* jf: the names of the users Jellyfin has; one it has not has no name.
NameOf(jf, id) == IF id \in DOMAIN jf THEN jf[id] ELSE <<>>

MustGetUsername(jf, act) ==
    IF act.type \in {"creation", "deletion"} THEN act.value
    ELSE IF act.user_id = <<>> THEN <<>> ELSE NameOf(jf, act.user_id)

MustGetSourceUsername(jf, act) ==
    IF SourceIsUser(act) THEN NameOf(jf, act.source) ELSE <<>>

\* The words for the kind of source, as texts, and the gap between two words.
SourceText(type) == <<CASE type = "user" -> 51 [] type = "admin" -> 52
                        [] type = "anon" -> 53 [] type = "daemon" -> 54>>
Gap == <<99>>

-----------------------------------------------------------------------------
(* Criteria.                                                               *)

matchMentionedUsers(jf, act, q) ==
    Includes(Lower(MustGetUsername(jf, act) \o Gap \o MustGetSourceUsername(jf, act)), Lower(q.text))

matchActor(jf, act, q) ==
    LET named == act.source_type = "admin" \/ (act.source_type = "user" /\ SourceIsUser(act))
    IN  Includes(Lower(SourceText(act.source_type)
                       \o (IF named THEN Gap \o MustGetSourceUsername(jf, act) ELSE <<>>)),
                 Lower(q.text))

matchReferrer(jf, act, q) ==
    LET name == MustGetSourceUsername(jf, act)
    IN  /\ act.type = "creation" /\ act.source_type = "user" /\ SourceIsUser(act)
        /\ IF q.class = "bool" THEN (name # <<>>) = q.flag
           ELSE Includes(Lower(name), Lower(q.text))

matchTime(act, q) == CompareUnixWithOperator(q.date, act.time, Operator(q))

SpecialField(jf, act, q) ==
    CASE q.field = "mentionedUsers" -> matchMentionedUsers(jf, act, q)
      [] q.field = "actor"          -> matchActor(jf, act, q)
      [] q.field = "referrer"       -> matchReferrer(jf, act, q)
      [] q.field = "time"           -> matchTime(act, q)

\* AsDBQuery, or the special fields it leaves to others.
AsDBQuery(jf, act, q) ==
    CASE q.field \in DOMAIN TypeGetter -> (act.type = TypeGetter[q.field]) = q.flag
      [] q.field \in DBField \ {"time"} -> CompareSeq(act[q.field], q.text) = Operator(q)
      [] OTHER -> SpecialField(jf, act, q)

\* One alternative for each field that is searched, any of the terms being enough.
MatchesTerms(act, field, terms) == \E t \in terms : Includes(Lower(act[field]), t)

\* generateActivitiesQuery: the criteria of the queries join the first alternative.
Selects(jf, act, terms, queries) ==
    LET all == \A q \in queries : AsDBQuery(jf, act, q)
    IN  IF terms = {} THEN all
        ELSE \/ MatchesTerms(act, "id", terms) /\ all
             \/ \E f \in SearchedField \ {"id"} : MatchesTerms(act, f, terms)

-----------------------------------------------------------------------------
Found(jf, log, req) == Within(log, {a \in ToSet(log) : Selects(jf, a, req.terms, req.queries)})

\* GetActivities: sorting by a field the record has not is an error, which lists nothing.
GetActivities(jf, log, req, page) ==
    LET up == Sorted(Found(jf, log, req), LAMBDA a, b : CompareSeq(a[req.field], b[req.field]))
    IN  Page(IF req.field \notin DBField THEN <<>>
             ELSE IF req.ascending THEN up ELSE Reverse(up), page, req.limit)

GetFilteredActivityCount(jf, log, req) == Len(Found(jf, log, req))

-----------------------------------------------------------------------------
ListingInit ==
    /\ activities \in Logs /\ atFirst = Len(activities)
    /\ actRequest \in ActivityRequests
    /\ actPage = 0 /\ actGot = <<>> /\ actEnd = FALSE

AskForActivities ==
    /\ ~actEnd
    /\ LET part == GetActivities(UserNames, activities, actRequest, actPage)
       IN  actGot' = actGot \o part.shown /\ actEnd' = part.last
    /\ actPage' = actPage + 1
    /\ UNCHANGED <<activities, actRequest, atFirst>>

\* What happens next is later than everything in the log.
ActivityHappens ==
    /\ ~actEnd
    /\ \E act \in LaterActivities :
           /\ CompareSeq(Last(activities).time, act.time) < 0
           /\ activities' = Append(activities, act)
    /\ UNCHANGED <<actRequest, actPage, actGot, actEnd, atFirst>>

ListingNext == AskForActivities \/ ActivityHappens

-----------------------------------------------------------------------------
\* GetActivities (api-activities.go:120), by time and whatever happens while the parts are
\* read: no activity that was there at first is missed that satisfies the queries and has
\* all the terms; oldest first none is shown twice, and the number shown is the one
\* that was counted.  What terms and queries together let in besides is left open, as the
\* queries bind the first alternative only (generateActivitiesQuery, api-activities.go:90).
ActivityPagesComplete ==
    actEnd /\ actRequest.field = "time" =>
        LET meets(a) == /\ \A q \in actRequest.queries : AsDBQuery(UserNames, a, q)
                        /\ \A t \in actRequest.terms :
                               \E f \in SearchedField : Includes(Lower(a[f]), t)
        IN  /\ \A i \in 1..atFirst : meets(activities[i]) => activities[i] \in ToSet(actGot)
            /\ actRequest.terms = {} => \A i \in DOMAIN actGot : meets(actGot[i])
            /\ actRequest.ascending =>
                  /\ \A i, j \in DOMAIN actGot : i < j => CompareSeq(actGot[i].time, actGot[j].time) < 0
                  /\ GetFilteredActivityCount(UserNames, activities, actRequest) = Len(actGot)

=============================================================================
