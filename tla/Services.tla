------------------------------ MODULE Services ------------------------------
(***************************************************************************)
(* The parts of the application that work on data of their own and share   *)
(* no state with each other: the pages of accounts and of activities, the  *)
(* shared list of accounts behind them, the translations, the plans of the *)
(* store, the backups, the day timer, the cache of Jellyfin's activities   *)
(* and the last lines of the log.  A behaviour is one of any of them,      *)
(* chosen by `part`; the others are off.                                   *)
(***************************************************************************)
EXTENDS UserListing, ActivityListing, UserCache, Languages, Templates, PaymentPlans, Backups, DayTimer,
        ActivityCache, LineCache

VARIABLE part

Off == <<>>

UsersOff   == /\ userCache = Off /\ userRequest = Off /\ userPage = Off /\ userGot = Off
              /\ userEnd = Off /\ userMoved = Off
ListingOff == /\ activities = Off /\ actRequest = Off /\ actPage = Off /\ actGot = Off
              /\ actEnd = Off /\ atFirst = Off
SharedOff  == /\ version = Off /\ announced = Off /\ ref = Off /\ sorted = Off /\ list = Off
              /\ age = Off /\ syncing = Off /\ sorting = Off /\ asker = Off /\ sync = Off
              /\ reply = Off /\ askedTimes = Off /\ syncFailures = Off
LangOff    == disk = Off /\ langs = Off
TextOff    == text = Off
PlansOff   == stored = Off /\ currency = Off /\ monthly = Off /\ asked = Off
BackupsOff == /\ dir = Off /\ date = Off /\ commit = Off /\ settings = Off /\ made = Off
              /\ extra = Off /\ oneLess = Off
TimerOff   == /\ now = Off /\ begun = Off /\ since = Off /\ deltas = Off /\ lastFired = Off
              /\ fired = Off /\ regular = Off
JFLogOff   == /\ jfLog = Off /\ cache = Off /\ start = Off /\ end = Off /\ byEntryID = Off
              /\ byUserID = Off /\ total = Off /\ lastYieldingSync = Off /\ thisSync = Off
              /\ overrun = Off
LinesOff   == lines = Off /\ current = Off /\ written = Off

Init ==
    /\ part \in {"users", "activities", "shared", "languages", "texts", "plans", "backups", "timer", "jfLog", "lines"}
    /\ IF part = "users"      THEN UsersInit    ELSE UsersOff
    /\ IF part = "activities" THEN ListingInit  ELSE ListingOff
    /\ IF part = "shared"     THEN UserCacheInit ELSE SharedOff
    /\ IF part = "languages"  THEN LangInit     ELSE LangOff
    /\ IF part = "texts"      THEN TextInit     ELSE TextOff
    /\ IF part = "plans"      THEN PlansInit    ELSE PlansOff
    /\ IF part = "backups"    THEN BackupsInit  ELSE BackupsOff
    /\ IF part = "timer"      THEN TimerInit    ELSE TimerOff
    /\ IF part = "jfLog"      THEN ActivityInit ELSE JFLogOff
    /\ IF part = "lines"      THEN LinesInit    ELSE LinesOff

Users      == /\ part = "users" /\ UsersNext
              /\ UNCHANGED <<part, actVars, userCacheVars, langVars, text, planVars, backupVars, timerVars, cacheVars, lineVars>>
Activities == /\ part = "activities" /\ ListingNext
              /\ UNCHANGED <<part, userVars, userCacheVars, langVars, text, planVars, backupVars, timerVars, cacheVars, lineVars>>
Shared     == /\ part = "shared" /\ UserCacheNext
              /\ UNCHANGED <<part, userVars, actVars, langVars, text, planVars, backupVars, timerVars, cacheVars, lineVars>>
Translations == /\ part = "languages" /\ LangNext
                /\ UNCHANGED <<part, userVars, actVars, userCacheVars, text, planVars, backupVars, timerVars, cacheVars, lineVars>>
Texts      == /\ part = "texts" /\ TextNext
              /\ UNCHANGED <<part, userVars, actVars, userCacheVars, langVars, planVars, backupVars, timerVars, cacheVars, lineVars>>
Plans      == /\ part = "plans" /\ PlansNext
              /\ UNCHANGED <<part, userVars, actVars, userCacheVars, langVars, text, backupVars, timerVars, cacheVars, lineVars>>
BackupDir  == /\ part = "backups" /\ BackupsNext
              /\ UNCHANGED <<part, userVars, actVars, userCacheVars, langVars, text, planVars, timerVars, cacheVars, lineVars>>
Timer      == /\ part = "timer" /\ TimerNext
              /\ UNCHANGED <<part, userVars, actVars, userCacheVars, langVars, text, planVars, backupVars, cacheVars, lineVars>>
JFActivity == /\ part = "jfLog" /\ ActivityNext
              /\ UNCHANGED <<part, userVars, actVars, userCacheVars, langVars, text, planVars, backupVars, timerVars, lineVars>>
LogLines   == /\ part = "lines" /\ LinesNext
              /\ UNCHANGED <<part, userVars, actVars, userCacheVars, langVars, text, planVars, backupVars, timerVars, cacheVars>>

Next == \/ Users \/ Activities \/ Shared \/ Translations \/ Texts \/ Plans \/ BackupDir
        \/ Timer \/ JFActivity \/ LogLines

vars == <<part, userVars, actVars, userCacheVars, langVars, text, planVars, backupVars, timerVars, cacheVars, lineVars>>

Spec == Init /\ [][Next]_vars

-----------------------------------------------------------------------------
(* What each of them promises, when it is on.                              *)

\* A page of accounts gets all it asks for, once and in order (SearchUsers, api-users.go:1105).
UserPages == part = "users" => UserPagesComplete

\* A page of activities misses none while others happen (GetActivities, api-activities.go:120).
ActivityPages == part = "activities" => ActivityPagesComplete

\* "Only one sync will run at a time" (usercache.go:64), and no request is answered with a
\* list it had to wait for (MaybeSync, usercache.go:66).
SharedList == part = "shared" => OneSync /\ RepliesCurrent

\* No language lacks a text that English has (loadLang, storage.go:947), and values are
\* filled in wherever a text names them, and nowhere else (templateString, lang.go:173).
TextsComplete == /\ part = "languages" => LanguagesFilled
                 /\ part = "texts" => TextsFilled

\* Plans that were accepted are read back (savePaymentPlans, payment_plans.go:245), and a
\* plan of the store gives the access it offers (paymentPlanByID, payment_plans.go:229).
PlansKept == part = "plans" => ReadBack /\ AccessAsOffered

\* Backups are rotated by number and version (makeBackup, backups.go:186).
BackupsRotated == part = "backups" => BackupsKept

\* Reminders go out once and on their day (DayTimerSet.Check, timer.go:47).
RemindersSent == part = "timer" => RemindersOnTime

\* The activities of a user are the newest, once and in order (MaybeSync, jf_activity.go:117).
JFActivityKept == part = "jfLog" => RecentActivityKept

\* The page of the log shows its last lines (LineCache.String, linecache.go:46).
LogLinesKept == part = "lines" => LastLinesRead

=============================================================================
