------------------------------ MODULE UserExpiry ------------------------------
(***************************************************************************)
(* One account with a time limit, and everybody who moves the limit: the   *)
(* expiry daemon (user-d.go), payments (payments.go, api-stripe.go), the   *)
(* sign-up and the administrator (api-users.go).                           *)
(*                                                                         *)
(* A pass of the daemon works on two snapshots, of Jellyfin's users and of *)
(* the expiries, and gets to a user any time later.  It disables, deletes  *)
(* and stores by what the snapshots say, and asks for a subscription first.*)
(***************************************************************************)
EXTENDS Integers

CONSTANTS Handlers,     \* goroutines of requests that may run at the same time
          Modes,        \* configurations, see mode
          Checkouts,    \* purchases by checkout, found by the reconciliation as well
          Renewals,     \* purchases by renewal of the subscription
          NoTxn,        \* LastTransactionID = ""
          Period,       \* what a sign-up, a purchase or the administrator adds
          MaxTime       \* bound: the last day

Txn == Checkouts \cup Renewals

\* How often Stripe changes the subscription and sends an event; the administrator extends,
\* disables or deletes; he enables or removes the limit; a request fails; the process ends.
Bounds == [changes : Nat, events : Nat, admin : Nat, pardons : Nat, fails : Nat, restarts : Nat]

Mode == [behaviour : {"disable", "delete"}, days : Nat, overlap : BOOLEAN, bounds : Bounds]

ASSUME ExpiryAssumption ==
    /\ MaxTime \in Nat
    /\ Period \in Nat \ {0}
    /\ NoTxn \notin Txn
    /\ Modes \subseteq Mode

VARIABLES mode,      \* behaviour and delete_expired_after_days, which a restart may change,
                     \* whether handlers overlap, and the bounds
          now,       \* the day
          account,   \* the user at Jellyfin
          known,     \* the user's email address is stored, payments find the user by it
          expiry,    \* the stored UserExpiry
          stripe,    \* the subscription at Stripe
          row,       \* the subscription as the user's best payment row has it
          bought,    \* purchases Stripe was paid for
          fulfilled, \* purchases whose row is fulfilled
          daemon,    \* the pass of the expiry daemon
          worker,    \* what each request handler is doing
          budget,    \* what is left of the bounds
          loyal,     \* history: the row has been active since the pass began
          lapsed     \* history: the account has been disabled before

purchases == <<stripe, bought>>
history   == <<loyal, lapsed>>
state     == <<mode, now, account, known, expiry, stripe, row, bought, fulfilled, daemon,
               worker, budget>>
vars      == <<state, history>>

-----------------------------------------------------------------------------
Expiry == [there : BOOLEAN, at : Int, txn : Txn \cup {NoTxn}, pending : BOOLEAN]

NoExpiry == [there |-> FALSE, at |-> 0, txn |-> NoTxn, pending |-> FALSE]

Until(t) == [NoExpiry EXCEPT !.there = TRUE, !.at = t]

\* until is SubscriptionCancelAt, 0 if Stripe has set none.
Subscription == [status : {"none", "active", "canceling", "ended"}, until : Nat]

Account == {"absent", "enabled", "disabled", "gone"}

Pass == [pc : {"idle", "users", "expiries", "examine", "reconcile", "recover", "recheck",
               "reenable", "lapse", "disable", "delete", "settle"},
         seen : Account, copy : Expiry]

Worker == [pc : {"idle", "lookup", "read", "write", "reenable", "mark", "cut", "cutting",
                 "disable", "extend", "limit"},
           txn : Txn \cup {NoTxn}, copy : Expiry]

NoPass == [pc |-> "idle", seen |-> "absent", copy |-> NoExpiry]
Idle   == [pc |-> "idle", txn |-> NoTxn, copy |-> NoExpiry]

TypeOK ==
    /\ mode \in Mode
    /\ now \in 0..MaxTime
    /\ account \in Account /\ known \in BOOLEAN
    /\ expiry \in Expiry
    /\ stripe \in Subscription /\ row \in Subscription
    /\ bought \subseteq Txn /\ fulfilled \subseteq Txn
    /\ daemon \in Pass
    /\ worker \in [Handlers -> Worker]
    /\ budget \in Bounds
    /\ loyal \in BOOLEAN /\ lapsed \in BOOLEAN

Init ==
    /\ mode \in Modes
    /\ now = 0
    /\ \/ account = "absent" /\ known = FALSE /\ expiry = NoExpiry
       \/ account = "enabled" /\ known = TRUE /\ expiry = Until(0)
    /\ stripe = [status |-> "none", until |-> 0] /\ row = stripe
    /\ bought = {} /\ fulfilled = {}
    /\ daemon = NoPass
    /\ worker = [h \in Handlers |-> Idle]
    /\ budget = mode.bounds
    /\ loyal = FALSE /\ lapsed = FALSE

Exists == account \in {"enabled", "disabled"}

Spend(what) == budget[what] > 0 /\ budget' = [budget EXCEPT ![what] = @ - 1]

\* A request to Jellyfin that fails.
Fail == Spend("fails")

Quiet == daemon.pc = "idle" /\ \A h \in Handlers : worker[h].pc = "idle"

Start(h, rec) ==
    /\ worker[h].pc = "idle"
    /\ mode.overlap \/ Quiet
    /\ worker' = [worker EXCEPT ![h] = rec]

Go(h, pc) == worker' = [worker EXCEPT ![h].pc = pc]
End(h)    == worker' = [worker EXCEPT ![h] = Idle]

-----------------------------------------------------------------------------
(* Time, Stripe and the sign-up.                                           *)

TimePasses ==
    /\ now < MaxTime /\ now' = now + 1
    /\ UNCHANGED <<mode, known, account, expiry, purchases, row, fulfilled, daemon, worker, budget>>

\* (external) The account's owner subscribes, cancels, or the subscription ends.
SubscriptionChanges ==
    /\ \/ /\ stripe.status \in {"none", "ended"} /\ Exists
          /\ stripe' = [status |-> "active", until |-> 0]
       \/ /\ stripe.status = "active"
          /\ \E d \in {0, now + Period} : stripe' = [status |-> "canceling", until |-> d]
       \/ /\ stripe.status \in {"active", "canceling"}
          /\ stripe' = [status |-> "ended", until |-> 0]
    /\ Spend("changes")
    /\ UNCHANGED <<mode, now, known, account, expiry, bought, row, fulfilled, daemon, worker>>

\* (external) Stripe is paid for a checkout or a renewal.
Buys ==
    /\ \/ \E t \in Checkouts \ bought : Exists /\ bought' = bought \cup {t}
       \/ \E t \in Renewals \ bought : stripe.status = "active" /\ bought' = bought \cup {t}
    /\ UNCHANGED <<mode, now, known, account, expiry, stripe, row, fulfilled, daemon, worker,
                   budget>>

\* NewUserPostVerification creates the user, PostNewUserFromInvite stores the address ...
SignUp(h) ==
    /\ account = "absent" /\ account' = "enabled" /\ known' = TRUE
    /\ Start(h, [Idle EXCEPT !.pc = "limit"])
    /\ UNCHANGED <<mode, now, expiry, purchases, row, fulfilled, daemon, budget>>

\* ... and the expiry.
Limit(h) ==
    /\ worker[h].pc = "limit"
    /\ expiry' = Until(now + Period)
    /\ End(h)
    /\ UNCHANGED <<mode, now, known, account, purchases, row, fulfilled, daemon, budget>>

-----------------------------------------------------------------------------
(* Purchases.                                                              *)

Purchase_NoId(h) ==
    /\ \E t \in bought : Start(h, [Idle EXCEPT !.pc = IF t \in Checkouts THEN "lookup" ELSE "read"])
    /\ Spend("events")
    /\ UNCHANGED <<mode, now, known, account, expiry, purchases, row, fulfilled, daemon>>

\* handleStripeCheckoutCompleted, handleStripeInvoiceSucceeded
Purchase(h) ==
    /\ \E t \in bought :
           /\ known \/ t \in Checkouts
           /\ Start(h, [Idle EXCEPT !.txn = t,
                                  !.pc = IF ~known THEN "mark"
                                         ELSE IF t \in Checkouts THEN "lookup" ELSE "read"])
    /\ Spend("events")
    /\ UNCHANGED <<mode, now, known, account, expiry, purchases, row, fulfilled, daemon>>

\* fulfillStorePayment drops a user that Jellyfin does not return, for an invite.
Lookup(h) ==
    /\ worker[h].pc = "lookup"
    /\ \/ Exists /\ Go(h, "read") /\ UNCHANGED <<known, expiry, budget>>
       \/ /\ (~Exists /\ UNCHANGED budget) \/ (Exists /\ Fail)
          /\ known' = FALSE /\ expiry' = NoExpiry /\ Go(h, "mark")
    /\ UNCHANGED <<mode, now, account, purchases, row, fulfilled, daemon>>

\* extendPaidUserExpiry reads the expiry ...
ReadExpiry(h) ==
    /\ worker[h].pc = "read"
    /\ worker' = [worker EXCEPT ![h].copy = expiry,
                                ![h].pc = IF expiry.txn = worker[h].txn THEN "mark" ELSE "write"]
    /\ UNCHANGED <<mode, now, known, account, expiry, purchases, row, fulfilled, daemon, budget>>

\* The later of the expiry and now, plus a period.  Whether the account awaits its
\* deletion stays as it was.
Extended(e, t) ==
    [there |-> TRUE, at |-> (IF e.at < now THEN now ELSE e.at) + Period, txn |-> t,
     pending |-> e.pending]

\* ... and stores it.
WriteExpiry(h) ==
    /\ worker[h].pc = "write"
    /\ expiry' = Extended(worker[h].copy, worker[h].txn)
    /\ Go(h, "reenable")
    /\ UNCHANGED <<mode, now, known, account, purchases, row, fulfilled, daemon, budget>>

\* UserByID, SetUserDisabled: an error is only logged.
SetStatus(status) ==
    \/ Exists /\ account' = status /\ UNCHANGED budget
    \/ ~Exists /\ UNCHANGED <<account, budget>>
    \/ Exists /\ Fail /\ UNCHANGED account

\* reEnablePaidUser
ReEnable(h) ==
    /\ worker[h].pc = "reenable"
    /\ SetStatus("enabled") /\ Go(h, "mark")
    /\ UNCHANGED <<mode, now, known, expiry, purchases, row, fulfilled, daemon>>

\* markPaymentFulfilled
Mark(h) ==
    /\ worker[h].pc = "mark"
    /\ fulfilled' = fulfilled \cup {worker[h].txn}
    /\ End(h)
    /\ UNCHANGED <<mode, now, known, account, expiry, purchases, row, daemon, budget>>

\* customer.subscription.updated and .deleted, CancelMySubscription: the row is
\* brought up to date, and the user of an ended subscription is expired.
SubscriptionEvent(h) ==
    /\ stripe.status # "none"
    /\ row' = stripe
    /\ Start(h, IF stripe.status = "ended" /\ known THEN [Idle EXCEPT !.pc = "cut"] ELSE Idle)
    /\ Spend("events")
    /\ UNCHANGED <<mode, now, known, account, expiry, purchases, fulfilled, daemon>>

\* expirePaidUserNow reads the expiry ...
ReadCut(h) ==
    /\ worker[h].pc = "cut"
    /\ worker' = [worker EXCEPT ![h].copy = expiry, ![h].pc = "cutting"]
    /\ UNCHANGED <<mode, now, known, account, expiry, purchases, row, fulfilled, daemon, budget>>

\* ... stores it as just over ...
WriteCut(h) ==
    /\ worker[h].pc = "cutting"
    /\ expiry' = [worker[h].copy EXCEPT !.there = TRUE, !.at = now - 1]
    /\ Go(h, "disable")
    /\ UNCHANGED <<mode, now, known, account, purchases, row, fulfilled, daemon, budget>>

\* ... and expireStripeSubscriptionUser disables the user.
Disable(h) ==
    /\ worker[h].pc = "disable"
    /\ SetStatus("disabled") /\ End(h)
    /\ UNCHANGED <<mode, now, known, expiry, purchases, row, fulfilled, daemon>>

-----------------------------------------------------------------------------
(* The administrator.                                                      *)

\* EnableDisableUsers
AdminEnables ==
    /\ account = "disabled" /\ account' = "enabled"
    /\ Spend("pardons")
    /\ mode.overlap \/ Quiet
    /\ UNCHANGED <<mode, now, known, expiry, purchases, row, fulfilled, daemon, worker>>

\* EnableDisableUsers, DeleteUsers
AdminDisablesOrDeletes ==
    /\ Exists /\ account' \in {"disabled", "gone"}
    /\ Spend("admin")
    /\ mode.overlap \/ Quiet
    /\ UNCHANGED <<mode, now, known, expiry, purchases, row, fulfilled, daemon, worker>>

\* RemoveExpiry
RemoveExpiry ==
    /\ expiry.there /\ expiry' = NoExpiry
    /\ Spend("pardons")
    /\ mode.overlap \/ Quiet
    /\ UNCHANGED <<mode, now, known, account, purchases, row, fulfilled, daemon, worker>>

\* ExtendExpiry reads the expiry ...
StartExtension(h) ==
    /\ Exists
    /\ Start(h, [Idle EXCEPT !.pc = "extend",
                             !.copy = IF expiry.there THEN expiry ELSE [expiry EXCEPT !.at = now]])
    /\ Spend("admin")
    /\ UNCHANGED <<mode, now, known, account, expiry, purchases, row, fulfilled, daemon>>

\* ... and stores a new one: the transaction and the pending deletion are forgotten.
StoreExtension(h) ==
    /\ worker[h].pc = "extend"
    /\ expiry' = Until(worker[h].copy.at + Period)
    /\ End(h)
    /\ UNCHANGED <<mode, now, known, account, purchases, row, fulfilled, daemon, budget>>

-----------------------------------------------------------------------------
(* A pass of the daemon (checkUsers), as far as this account is concerned. *)

DaemonGoes(pc) == daemon' = [daemon EXCEPT !.pc = pc]
DaemonEnds     == daemon' = NoPass

\* Other users have expiries, so the pass is not over at once.
StartPass ==
    /\ daemon.pc = "idle" /\ DaemonGoes("users")
    /\ mode.overlap \/ Quiet
    /\ UNCHANGED <<mode, now, known, account, expiry, purchases, row, fulfilled, worker, budget>>

GetUsers ==
    /\ daemon.pc = "users"
    /\ \/ daemon' = [daemon EXCEPT !.pc = "expiries", !.seen = account] /\ UNCHANGED budget
       \/ Fail /\ DaemonEnds
    /\ UNCHANGED <<mode, now, known, account, expiry, purchases, row, fulfilled, worker>>

GetUserExpiries ==
    /\ daemon.pc = "expiries"
    /\ IF expiry.there THEN daemon' = [daemon EXCEPT !.pc = "examine", !.copy = expiry]
                       ELSE DaemonEnds
    /\ UNCHANGED <<mode, now, known, account, expiry, purchases, row, fulfilled, worker, budget>>

Examining == daemon.pc = "examine"
Listed    == daemon.seen \in {"enabled", "disabled"}
Over      == now > daemon.copy.at

DropOld ==
    /\ Examining /\ ~Listed
    /\ expiry' = NoExpiry
    /\ DaemonEnds
    /\ UNCHANGED <<mode, now, known, account, purchases, row, fulfilled, worker, budget>>

\* A reminder is recorded in the copy, which is stored.
Remind ==
    /\ Examining /\ Listed /\ ~Over
    /\ expiry' \in {expiry, daemon.copy}
    /\ DaemonEnds
    /\ UNCHANGED <<mode, now, known, account, purchases, row, fulfilled, worker, budget>>

Grants_UntilExpiry(sub, e) ==
    sub.status \in {"active", "canceling"} /\ (IF sub.until > 0 THEN sub.until ELSE e.at) > now

\* stripeSubscriptionGrantsUserAccess
Grants(sub, e) ==
    \/ sub.status = "active"
    \/ sub.status = "canceling" /\ (IF sub.until > 0 THEN sub.until ELSE e.at) > now

\* shouldSkipExpiredPaidUser looks at the row ...
CheckSubscription ==
    /\ Examining /\ Listed /\ Over
    /\ DaemonGoes(IF Grants(row, daemon.copy) THEN "reconcile" ELSE "lapse")
    /\ UNCHANGED <<mode, now, known, account, expiry, purchases, row, fulfilled, worker, budget>>

\* ... reconciles, unless Stripe cannot be reached ...
Reconcile ==
    /\ daemon.pc = "reconcile"
    /\ \/ DaemonGoes("recheck") /\ UNCHANGED row
       \/ DaemonGoes("recover") /\ row' = stripe
    /\ UNCHANGED <<mode, now, known, account, expiry, purchases, fulfilled, worker, budget>>

Missed == (bought \cap Checkouts) \ fulfilled

\* ... which fulfils the checkouts that were missed, as a purchase does ...
Recover ==
    /\ daemon.pc = "recover"
    /\ \E t \in Missed :
          /\ fulfilled' = fulfilled \cup {t}
          /\ \/ /\ known /\ Exists /\ expiry.txn # t
                /\ expiry' = Extended(expiry, t) /\ SetStatus("enabled") /\ UNCHANGED known
             \/ /\ ~known \/ (Exists /\ expiry.txn = t)
                /\ UNCHANGED <<known, account, expiry, budget>>
             \/ /\ known /\ ((~Exists /\ UNCHANGED budget) \/ (Exists /\ Fail))
                /\ known' = FALSE /\ expiry' = NoExpiry /\ UNCHANGED account
    /\ UNCHANGED <<mode, now, purchases, row, daemon, worker>>

Reconciled ==
    /\ daemon.pc = "recover" /\ Missed = {}
    /\ DaemonGoes("recheck")
    /\ UNCHANGED <<mode, now, known, account, expiry, purchases, row, fulfilled, worker, budget>>

\* ... and looks at it again.
Recheck ==
    /\ daemon.pc = "recheck" /\ ~Grants(row, daemon.copy)
    /\ DaemonGoes("lapse")
    /\ UNCHANGED <<mode, now, known, account, expiry, purchases, row, fulfilled, worker, budget>>

Spare_Forgets ==
    /\ daemon.pc = "recheck" /\ Grants(row, daemon.copy)
    /\ expiry' = IF daemon.copy.pending THEN NoExpiry ELSE expiry
    /\ IF daemon.seen = "disabled" THEN DaemonGoes("reenable") ELSE DaemonEnds
    /\ UNCHANGED <<mode, now, known, account, purchases, row, fulfilled, worker, budget>>

\* The account is spared; the copy of its expiry may be stored.
Spare ==
    /\ daemon.pc = "recheck" /\ Grants(row, daemon.copy)
    /\ expiry' = IF daemon.copy.pending THEN [daemon.copy EXCEPT !.pending = FALSE] ELSE expiry
    /\ IF daemon.seen = "disabled" THEN DaemonGoes("reenable") ELSE DaemonEnds
    /\ UNCHANGED <<mode, now, known, account, purchases, row, fulfilled, worker, budget>>

DaemonReEnables ==
    /\ daemon.pc = "reenable"
    /\ SetStatus("enabled") /\ DaemonEnds
    /\ UNCHANGED <<mode, now, known, expiry, purchases, row, fulfilled, worker>>

\* deleteAfterPeriod
Days == IF mode.behaviour = "delete" THEN 0 ELSE mode.days

\* A pending deletion is dropped if the setting is off ...
DropPending ==
    /\ daemon.pc = "lapse" /\ daemon.copy.pending /\ Days = 0
    /\ expiry' = NoExpiry
    /\ DaemonEnds
    /\ UNCHANGED <<mode, now, known, account, purchases, row, fulfilled, worker, budget>>

Lapse_WaitsAlways ==
    /\ daemon.pc = "lapse" /\ ~(daemon.copy.pending /\ Days = 0)
    /\ IF now <= daemon.copy.at + Days THEN DaemonEnds
       ELSE DaemonGoes(IF daemon.copy.pending \/ mode.behaviour = "delete"
                       THEN "delete" ELSE "disable")
    /\ UNCHANGED <<mode, now, known, account, expiry, purchases, row, fulfilled, worker, budget>>

\* ... and waits for its day otherwise.
Lapse ==
    /\ daemon.pc = "lapse" /\ ~(daemon.copy.pending /\ Days = 0)
    /\ IF daemon.copy.pending /\ now <= daemon.copy.at + Days THEN DaemonEnds
       ELSE DaemonGoes(IF daemon.copy.pending \/ mode.behaviour = "delete"
                       THEN "delete" ELSE "disable")
    /\ UNCHANGED <<mode, now, known, account, expiry, purchases, row, fulfilled, worker, budget>>

DaemonStrikes_GoesOn ==
    /\ daemon.pc \in {"disable", "delete"}
    /\ DaemonGoes("settle")
    /\ \/ /\ Exists
          /\ account' = IF daemon.pc = "disable" THEN "disabled" ELSE "gone"
          /\ UNCHANGED budget
       \/ ~Exists /\ UNCHANGED <<account, budget>>
       \/ Exists /\ Fail /\ UNCHANGED account
    /\ UNCHANGED <<mode, now, known, expiry, purchases, row, fulfilled, worker>>

\* SetUserDisabled or DeleteUser; after an error the pass goes on to the next user.
DaemonStrikes ==
    /\ daemon.pc \in {"disable", "delete"}
    /\ \/ /\ Exists
          /\ account' = IF daemon.pc = "disable" THEN "disabled" ELSE "gone"
          /\ DaemonGoes("settle") /\ UNCHANGED budget
       \/ ~Exists /\ DaemonEnds /\ UNCHANGED <<account, budget>>
       \/ Exists /\ Fail /\ DaemonEnds /\ UNCHANGED account
    /\ UNCHANGED <<mode, now, known, expiry, purchases, row, fulfilled, worker>>

\* The expiry has served, or awaits the deletion.
Settle ==
    /\ daemon.pc = "settle"
    /\ expiry' = IF Days = 0 \/ daemon.copy.pending THEN NoExpiry
                                                    ELSE [daemon.copy EXCEPT !.pending = TRUE]
    /\ DaemonEnds
    /\ UNCHANGED <<mode, now, known, account, purchases, row, fulfilled, worker, budget>>

-----------------------------------------------------------------------------
\* The process ends, and starts again with other settings perhaps.
Restart ==
    /\ Spend("restarts")
    /\ \E m \in Modes : mode' = [mode EXCEPT !.days = m.days]
    /\ daemon' = NoPass
    /\ worker' = [h \in Handlers |-> Idle]
    /\ UNCHANGED <<now, known, account, expiry, purchases, row, fulfilled>>

Daemon ==
    \/ StartPass \/ GetUsers \/ GetUserExpiries \/ DropOld \/ Remind
    \/ CheckSubscription \/ Reconcile \/ Recover \/ Reconciled \/ Recheck \/ Spare \/ DaemonReEnables
    \/ DropPending \/ Lapse \/ DaemonStrikes \/ Settle

Goes(h) ==
    \/ Limit(h) \/ Lookup(h) \/ ReadExpiry(h) \/ WriteExpiry(h) \/ ReEnable(h) \/ Mark(h)
    \/ ReadCut(h) \/ WriteCut(h) \/ Disable(h) \/ StoreExtension(h)

Others ==
    \/ TimePasses \/ SubscriptionChanges \/ Buys \/ Restart
    \/ AdminEnables \/ AdminDisablesOrDeletes \/ RemoveExpiry
    \/ \E h \in Handlers : SignUp(h) \/ Purchase(h) \/ SubscriptionEvent(h) \/ StartExtension(h)

\* What the history variables remember of a step.
Remember ==
    /\ loyal' = (row'.status = "active" /\ (loyal \/ daemon.pc = "idle"))
    /\ lapsed' = (lapsed \/ account' = "disabled")

Next == (Daemon \/ Others \/ \E h \in Handlers : Goes(h)) /\ Remember

Spec == Init /\ [][Next]_vars

\* The daemon's timer fires again and again, and a handler that runs goes on.
FairSpec == Spec /\ WF_state(Daemon) /\ \A h \in Handlers : WF_state(Goes(h))

-----------------------------------------------------------------------------
(* Properties.                                                             *)

\* A paying subscriber is left alone: the pass never disables or deletes an account
\* whose subscription was active, as far as the payment rows say, ever since the pass
\* began; whatever webhooks, a failed reconciliation or the administrator do meanwhile.
SubscriberKept == [][daemon.pc \in {"disable", "delete"} /\ account' # account => ~loyal]_vars

\* "delete_expired_after_days" gives notice: with behaviour "disable" the daemon deletes
\* nobody whose account has never been disabled.
NoticeGiven ==
    [][mode.behaviour = "disable" /\ daemon.pc = "delete" /\ account' = "gone" => lapsed]_vars

\* "When set, user accounts will be deleted this many days after expiring (if "Behaviour"
\* is "Disable user")" (config-base.yaml): what is deleted after the days had been
\* disabled on expiry.
DisabledBeforeDeleted ==
    [][mode.behaviour = "disable" /\ daemon.pc = "delete" /\ account' = "gone"
         => account = "disabled"]_vars

Undisturbed ==
    \A what \in {"fails", "restarts", "pardons"} : budget[what] = mode.bounds[what]

\* A limit is not lost: with handlers one after the other, and unless a request fails,
\* the process ends, or the administrator says so, an account that can be used has an expiry.
LimitKept == ~mode.overlap /\ Undisturbed /\ Quiet /\ account = "enabled" => expiry.there

Due ==
    /\ account = "enabled" /\ row.status \in {"none", "ended"}
    /\ expiry.there /\ now > expiry.at /\ ~expiry.pending

\* An account whose time is up does not stay as it is: it is disabled or deleted, or
\* its owner pays, or the administrator steps in.
ExpiryTakesEffect == Due ~> ~Due

=============================================================================
