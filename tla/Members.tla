------------------------------- MODULE Members -------------------------------
(***************************************************************************)
(* The parts of the application about the people who use it: sessions,     *)
(* password resets, referrals with their profiles, changes of accounts,    *)
(* and the notice of a cancelled subscription.  They share no state but    *)
(* what each of them models of it, so a behaviour is one of any of them,   *)
(* chosen by `topic`.                                                      *)
(***************************************************************************)
EXTENDS Sessions, PasswordResets, Referrals, Accounts, SubscriptionNotices

VARIABLE topic

Off == <<>>

SessionsOff ==
    /\ clock = Off /\ starts = Off /\ login = Off /\ account = Off /\ accountsAdmin = Off
    /\ adminUsers = Off /\ invalidTokens = Off /\ lastId = Off /\ browser = Off /\ signedIn = Off
    /\ changes = Off
ResetsOff ==
    /\ moment = Off /\ conf = Off /\ internalPWRs = Off /\ fileResets = Off /\ pwrCaptchas = Off
    /\ copied = Off /\ password = Off /\ ombi = Off /\ request = Off /\ issued = Off /\ known = Off
    /\ changedBy = Off /\ usedUp = Off /\ reused = Off /\ overlapped = Off /\ spoiled = Off /\ shown = Off
    /\ lostCaptchas = Off /\ captchas = Off /\ resetFailures = Off /\ resetStarts = Off
ReferralsOff ==
    /\ today = Off /\ profiles = Off /\ setting = Off /\ referrals = Off /\ rowKey = Off /\ members = Off
    /\ asker = Off /\ lastCode = Off /\ edits = Off /\ promised = Off /\ withdrawn = Off
    /\ signedWith = Off /\ raced = Off /\ tangled = Off
AccountsOff ==
    /\ confirm = Off /\ exists = Off /\ policy = Off /\ cachedPolicy = Off /\ home = Off /\ ombiUser = Off
    /\ role = Off /\ row = Off /\ serviceAddr = Off /\ links = Off /\ handler = Off /\ sweep = Off
    /\ want = Off /\ wantPolicy = Off /\ wiped = Off /\ asked = Off /\ crossed = Off /\ outdated = Off
    /\ unsynced = Off /\ answer = Off /\ requests = Off /\ faults = Off
NoticesOff ==
    /\ notifiedAt = Off /\ notifier = Off /\ mailed = Off /\ events = Off /\ writes = Off
    /\ erased = Off /\ restored = Off /\ cutOff = Off

Init ==
    /\ topic \in {"sessions", "resets", "referrals", "accounts", "notices"}
    /\ IF topic = "sessions"  THEN SessionsInit  ELSE SessionsOff
    /\ IF topic = "resets"    THEN ResetsInit    ELSE ResetsOff
    /\ IF topic = "referrals" THEN ReferralsInit ELSE ReferralsOff
    /\ IF topic = "accounts"  THEN AccountsInit  ELSE AccountsOff
    /\ IF topic = "notices"   THEN NoticesInit   ELSE NoticesOff

SignIns   == topic = "sessions"  /\ SessionsNext
             /\ UNCHANGED <<topic, resetVars, referralVars, accountVars, noticeVars>>
Resets    == topic = "resets"    /\ ResetsNext
             /\ UNCHANGED <<topic, sessionVars, referralVars, accountVars, noticeVars>>
Referring == topic = "referrals" /\ ReferralsNext
             /\ UNCHANGED <<topic, sessionVars, resetVars, accountVars, noticeVars>>
Changes   == topic = "accounts"  /\ AccountsNext
             /\ UNCHANGED <<topic, sessionVars, resetVars, referralVars, noticeVars>>
Notices   == topic = "notices"   /\ NoticesNext
             /\ UNCHANGED <<topic, sessionVars, resetVars, referralVars, accountVars>>

Next == SignIns \/ Resets \/ Referring \/ Changes \/ Notices

vars == <<topic, sessionVars, resetVars, referralVars, accountVars, noticeVars>>

Spec == Init /\ [][Next]_vars

-----------------------------------------------------------------------------
(* What each of them promises, when it is on.                              *)

\* A session ends when it should (getTokenRefresh, auth.go:327).
LogoutsKept == topic = "sessions" => SessionsEnd

\* A password changes only by a PIN that is good (ResetSetPassword, api.go:107).
ResetsByPIN == topic = "resets" => ResetsGuarded

\* A user who may refer others keeps one referral (GetMyReferral, api-userpage.go:756).
OneReferral == topic = "referrals" => ReferralsKept

\* Who signs up with a profile that has referrals may refer others (api-userpage.go:764).
ReferralByProfile == topic = "referrals" => ProfileReferralGiven

\* What is said of an account stays said (modifyEmail, api-users.go:1241).
AccountDetails == topic = "accounts" => DetailsKept

\* What a batch did not do, it tells (DeleteUsers, api-users.go:490).
BatchAnswers == topic = "accounts" => BatchesTold

\* Who cancels, or is cancelled, gets one email (notifyStripeSubscriptionCancellation,
\* stripe_subscription_notifications.go:13).
CustomerToldOnce == topic = "notices" => ToldOnce

=============================================================================
