# jfa-go in TLA+

jfa-go manages the accounts of a Jellyfin server: it hands out invites, creates
users from them, lets accounts expire, and, in this fork, sells access through
Stripe.  This directory specifies the parts of it where several actors touch the
same state, and those whose computations are easy to get wrong, model-checks them with
TLC and proves their main invariants with TLAPS.

    tlc -workers 2 -config MCPaymentLedger_ledger.cfg MCPaymentLedger
    tlapm StoreFulfillment_proofs.tla

`PROJECT.json` lists the runs, what each definition models (file, lines), the
hazards the properties are aimed at, and the theorems.

## The system

One Go process.  HTTP handlers run in goroutines of their own; daemons and tasks
(housekeeping, user expiry, Stripe reconciliation) run beside them; emails are sent
from further goroutines.  They share an embedded key-value database (badgerhold).
One call to it is atomic, and nothing larger is: a record is read, a copy is
changed, the copy is stored.  Jellyfin and Stripe are remote; every call may fail.

| component | state | operations | hard because |
|---|---|---|---|
| payment rows (`payments.go`, `api-stripe.go`, `stripe_reconcile.go`) | one row per checkout, renewal or unlock: status, paid and fulfilled dates, refund, subscription, email status | webhook handlers, reconciliation, cancellation, email goroutines, housekeeping | events are late, repeated, lost, reordered; unlocked read-modify-write |
| store fulfilment (`payments.go`, `api-users.go`) | expiries, email mappings, invites, Jellyfin users | credit an expiry, create or find an invite, redeem it, repair | duplicate delivery, crashes between steps, failed requests to Jellyfin |
| invites and pay-to-unlock (`api-invites.go`, `payment_lock.go`) | invites: uses left, expiry, payment status, lock cookie | check, use, delete, edit, pay, sign up | concurrent sign-ups, slow edits that store an old copy |
| user expiry daemon (`user-d.go`) | expiries, disabled and deleted users | one pass per minute over a snapshot | stale snapshot against payments and the administrator |
| daemons and restart (`generic-d.go`, `main.go`) | trigger and shutdown channels, a restart counter | trigger, shutdown, restart | unbuffered channels, goroutines that wait on each other |
| user cache (`usercache.go`) | the list of accounts, whether it is sorted, when it was made | get, invalidate, synchronise, sort, filter, page | one goroutine makes the list, another sorts it in place, others wait; invalidation meanwhile |
| accounts and batches (`api-users.go`, `users.go`) | rows with address, label, flags; policies; services that follow | edit a field, change an address, enable, disable, delete, apply settings | every edit stores the whole row; a batch fails in the middle |
| profiles and referrals (`api-profiles.go`, `api-userpage.go`) | profiles, templates, referral invites | enable, disable, ask for one's referral, renew | search and creation are two steps |
| activities (`api-activities.go`, `activitysort.go`) | the log | query, sort, page | the log grows between two pages |
| Jellyfin activity cache (`jf_activity.go`) | ring buffer, index by user | synchronise | wrap-around |
| contact-method PINs (`telegram.go`, `discord.go`, `matrix.go`) | issued and verified PINs | issue, verify, use, expire | bot and HTTP handlers share the maps |
| password resets (`pwreset.go`, `api.go`, `views.go`) | PINs, captchas, passwords at Jellyfin and Ombi | issue, redeem by page or by link, sweep | single use, expiry, two requests to Jellyfin for one reset |
| authentication (`auth.go`, `user-auth.go`) | ids of administrators, cookies given back | login, refresh, logout | tokens are not stored; what is, ends with the process |
| subscription notices (`stripe_subscription_notifications.go`) | a mark on every payment row of a subscription | reserve, send, take back | the mark is lost to a stale row |
| payment plans (`payment_plans.go`) | the plans of the store | save, read, look up | two names for one plan; what survives Stripe's metadata |
| translations (`storage.go`, `lang.go`) | texts by language | load, fall back, fill in values | several filesystems, fallbacks of fallbacks |
| backups (`backups.go`) | backup files | make, rotate, upload | kept by number and by version |
| day timer (`timer.go`) | time of the last reminder | is one due | boundaries of a day, irregular questions |
| log lines (`linecache`) | a ring of lines | write, read | wrap-around |
| email, announcements, updater, configuration, setup, frontend | settings, texts | rendering; HTTP clients | no coordination of their own |

How they interact: Stripe calls the webhook, which changes the payment row and then
runs the fulfilment; the reconciliation task asks Stripe for the same objects and
does the same to the same row, possibly at the same time.  Fulfilment writes expiries
and invites, which sign-ups, the expiry daemon, housekeeping and the administrator
write too.  Deleting an expired purchased invite marks its payment row for review.

What makes each correct:

* payment rows: a row never claims what was not so at Stripe; a refund or an ended
  subscription is not hidden again; a complete reconciliation repairs every lost event.
* fulfilment: a payment gives access at least once when it is marked fulfilled, and
  at most once; no time is lost; a mapping to an existing user is kept.
* invites: as many users as uses, each use of a paid invite paid for.
* expiry daemon: nobody is disabled or deleted whose time has not run out.
* daemons: a shutdown ends, a restart reaches every goroutine that waits for one.
* caches: as new as the last invalidation, in order, each entry once.
* accounts: a field keeps what was asked last; a batch says for whom it was not done.
* referrals: one for a user, until it is taken back; given to whom the profile says.
* PINs, resets, tokens: used once, by whom they were issued to, before they expire; a
  session is over after the logout.
* the notice of a cancellation: once, and again only if it was not sent.
* plans, translations, backups, reminders, logs: what was saved, said, made, due or
  written is what is read.

## Modules

| module | models |
|---|---|
| `PaymentRecord` | the row and the pure functions that fold Stripe's objects into it |
| `PaymentLedger` | one purchase: Stripe's side, its events, and every handler that writes the row |
| `PaidAccess` | abstract: a received payment gives access once |
| `StoreFulfillment` | what a payment gives: expiries, invites, sign-ups; refines `PaidAccess` where the code keeps its promise |
| `StoreFulfillment_proofs` | its inductive invariant and the theorems |
| `Invites` | one invite with a price: checkouts, unlocking, sign-ups, confirmation links, expiry, edits |
| `Invites_proofs` | its inductive invariants and the theorems |
| `UserExpiry` | one account with a limit: the pass of the expiry daemon against everybody who moves the limit |
| `UserExpiry_proofs` | its invariants and the theorems |
| `ContactPins` | PINs that link chat accounts: the bots against sign-ups, pages, administrator, housekeeping |
| `ContactPins_proofs` | its inductive invariant and the theorems |
| `Members` | composes the five parts about the people who use the application: |
| `Sessions` | logins, refreshes and logouts on both pages, restarts |
| `PasswordResets` | PINs of jfa-go and of Jellyfin, the page and the link, captchas, Ombi |
| `Referrals` | profiles with referrals, and the referrals of users |
| `Accounts` | rows written as they were read, batches over users, services that follow |
| `SubscriptionNotices` | the email about a cancelled subscription |
| `Members_proofs` | invariants of sessions and notices, and the theorems |
| `Services` | composes the parts with data of their own: |
| `UserListing`, `ActivityListing` | searching, sorting and paging accounts and activities |
| `UserCache` | the list of accounts all requests share |
| `Languages`, `Templates` | loading translations with fallbacks; filling values into texts |
| `PaymentPlans` | saving, reading and looking up plans |
| `Backups`, `DayTimer`, `ActivityCache`, `LineCache` | rotation; reminders; the two rings |
| `Listing_proofs` | sequences, sorting and selecting; invariants of the pages, of the backups and of texts with values filled in |
| `Services_proofs` | invariants of the other parts, and the theorems |
| `Maps`, `Selections` | partial functions, as the database has them; loops that keep some elements, and sorting |
| `MC...` | instances for TLC |

### PaymentRecord and PaymentLedger

`PaymentRecord` has one operator per `applyStripe...ToPayment`, `setPaymentLifecycleStatus`,
`clearPaymentLifecycleStatus`, `markPaymentFulfilled`, `markPaymentEmail`.  A Stripe
object is its id and the fields those functions branch on; a timestamp is whether it
is set; the row's price is `Amount`.

`PaymentLedger` puts them to work.  `stripe` is the truth (session, the payments of
the first invoice and of one renewal, refunds, subscription); `StripeChange` are the
external changes, each emitting the events Stripe sends for it, as snapshots of that
moment.  `events` is never consumed: delivery is unordered, repeated, or never.  A
worker carries the handler's step (`pc`), the snapshot, and, between `ReadRow` and
`WriteRow`, the copy of the row: `setPayment` locks nothing in between.  `Mutate` is
what each handler does to the copy, `Continue` the order of a handler's writes
(completed, plan, fulfilled, email ...).  `Reconcile` is the first pass over listed
sessions, `Recover` fulfilment of what was missed, `Load` the fetches of the second
pass, any of which may fail.  `was` is a history variable: all facts that ever held
at Stripe.

Abstracted: one reconciliation load sees one state of Stripe; cancellation at a chosen date only appears
as leaving the end of the period alone; refund events are those of pending and
succeeded refunds; the payment intent embedded in a listed invoice is not used when
the intent's own fetch fails; rows of renewals and of invite unlocks have fewer
writers and are left out.

### StoreFulfillment

One buyer, known by an email address.  `rows` is the part of the payment rows that
fulfilment reads and writes, `emails`, `expiries` and `invites` are the database
tables (`store`), `jellyfin` and `disabled` the Jellyfin server.  A handler is a
worker stepping through `fulfillStorePayment`: touch the row, find the user by email,
ask Jellyfin for it, (drop a stale mapping,) label, read the expiry, credit it,
re-enable, or search for the invite and create it, then mark the row.  Each database
or Jellyfin call is one step, so two handlers interleave at every call, a crash may
fall between any two, and a Jellyfin request may fail.  `granted` is a history
variable counting credits and invites per payment.  Time does not pass: an expiry is
the number of periods it lies ahead.

### Invites

One invite, the browsers that have its link, and the handlers that run for them.
`invite` is the stored record (is it there, how many uses, which payment unlocked it);
`buyer` and `cookie` are the payment lock of `payment_lock.go`: the row keeps the hash,
the browser the secret of its last checkout.  A worker is a handler between two calls
to the database and carries the copy of the invite it will store:

* `Event`, `Reconcile`, `ReadUnlock`, `Unlock`, `Mark`: the webhook or the reconciliation
  reports a payment and `fulfillStripeInviteUnlock` marks the invite;
* `SignUp`, `Authorize`, `Create`, `Check`, `Use`: `NewUserFromInvite`, which reads the
  invite three times (is it valid, is it paid by this browser, use it up);
  `OpenLink`: with email confirmation, the link joins at `Create`;
* `Expire`, `Preserve`, `GiveUp`, `Discard`: `deleteExpiredInvite`, which keeps an invite
  whose payment can be recovered; run by the sign-ups and the housekeeping daemon;
* `Edit`, `StoreEdited`: `EditInvite`, `SendInvite`, `GenCaptcha`, which store an old copy.

`mode` is chosen once, at the start: the number of uses, whether email confirmation is
on, whether handlers overlap, how often the process may crash.  So one run compares
what holds with handlers one after the other and what holds always.  `users` is a
history of who was let in, on which payment.

Abstracted: a payment row is whether it is fulfilled and whether it is flagged; the
invite's profile, label and recipients; captchas (only their write of the invite);
notifications of the administrators; referral invites, which are never sold.

### UserExpiry

One account, its stored expiry, and the subscription twice: at Stripe (`stripe`) and as
the user's payment row has it (`row`), which follows by events and reconciliations.
Days are numbers; an expiry carries the last transaction and `pending`, which is
`DeleteAfterPeriod`.

`daemon` is the pass of `checkUsers`.  It fetches Jellyfin's users (`GetUsers`), then the
expiries (`GetUserExpiries`), and keeps both as snapshots, `seen` and `copy`.  From
`Examining` on it is at this account, any time later, since other accounts come before
it.  It drops the expiry of a user it does not know, reminds, and otherwise asks for the
subscription: `CheckSubscription`, `Reconcile` and `Recover` (which may credit a missed
checkout in the middle of the pass), `Recheck`.  Then it spares the account, drops or
waits for a pending deletion, or strikes; `Settle` stores what it read at the beginning.

The handlers are sign-up (`SignUp`, `Limit`), a purchase by checkout or renewal (`Lookup`,
`ReadExpiry`, `WriteExpiry`, `ReEnable`, `Mark`), the events of the subscription
(`SubscriptionEvent`, then `ReadCut`, `WriteCut`, `Disable` when it has ended), and the
administrator, who enables, disables, deletes, extends and removes a limit.

`mode` is a configuration with its bounds: behaviour, days until the deletion, whether
the daemon and handlers overlap, how many changes, events, interventions, failures and
restarts there are.  A restart may change the number of days.  `loyal` and `lapsed` are
history: the row has been active since the pass began; the account has been disabled.

Abstracted: the user's policy is its disabled flag; a reminder is a write of the copy or
none; the user has at most one subscription; a purchase for an unknown address gives an
invite, which `StoreFulfillment` is about; extensions to a chosen date or counted from
an expiry in the past; when a reconciliation fails, it does so before it changes anything.

### ContactPins

PINs of Telegram, Discord and Matrix; `mode.kind` says which.  `tokens` are the issued and
`verified` the verified PINs, the maps that the bot and all handlers share; Matrix has only
the first, with the account the PIN was sent to.  `users` is Discord's map of the accounts
it knows: one that has sent `/start`, and one that `/lang` has replaced by an empty user.

`NewToken` shows a PIN on the form, to a user or to the administrator, `SendPin` is the bot's
`/pin`, `PinExpires` its time limit.  On a user's page `Poll`, `Drop`, `Unique` and `Link` are
the steps of `MyTelegramVerifiedInvite` and `MyDiscordVerifiedInvite`; `CheckMyPin`, `Link` and
`ForgetPin` those of `MatrixCheckMyPIN`.  A sign-up is `SignUp`, `Check`, and, at once or by the
confirmation link (`OpenLink`), `Create` and `Attach`.  `AddUser`, `Connect`, `UnlinkOrDelete`
are the administrator (and the user who unlinks), `ReadLink` and `StoreLink` an edit of the
preferences or the language, `Housekeep` the daemon, `Restart` the loss of all maps.

`mode` also has require_unique as the page (`unique`) and as the sign-up (`checks`) read it,
for Matrix two settings; email confirmation; overlap; and the bounds.  `told`, `spent`,
`uses` and `confirmed` are history.

Abstracted: a chat account is its id, its user name and its room; a PIN is used by whom it
was shown to; languages, roles and messages; a failure to send one.

### Members

Five modules that share no state but what each models of it.  `topic` chooses one in the
initial state, so that one run and one composed module say what all of them promise.

`Sessions`: a token is a record of what it says; a signature is taken as unforgeable.
`adminUsers` are the ids that may use the page of the administrator, `invalidTokens` the
cookies given back; both are lost in `RestartSessions`.  `LoginLocal` and `LoginAdmin` are
`getTokenLogin` with the name in the settings or that of a Jellyfin user, `Refresh` and
`RefreshUser` the refreshes, which look at neither the account nor its rights again.  `RightsChange` is what
the administrator does to either meanwhile.
`LogoutUser` (and `ChangeMyPassword`) take the cookie `refresh` out of the browser and leave
`user-refresh` there, which is why the property excludes that cookie after a restart.
`signedIn` is history.  Appends to the two unsynchronised lists are atomic here, and a
browser waits for an answer before its next request.

`PasswordResets`: `internalPWRs` are the PINs `AdminPasswordReset` or `ResetMyPassword` made,
`fileResets` those Jellyfin wrote to a file.  A request is a record with its step: `OpenLink`
or `ResetSetPassword` find the PIN, `ResetAdmin` blanks the password at Jellyfin and deletes
the PIN (`ResetByFile` is Jellyfin's own reset), `SetPassword` and `SetOmbi` set the new one.  `MomentPasses` lets PINs
and captchas expire, `SweepCaptchas` is housekeeping, which copies the map and stores the
copy.  `changedBy`, `spoiled`, `overlapped` are history.

`Referrals`: `referrals` are the invites that are referrals or templates of profiles,
`rowKey` the template named in a user's row.  `GetMyReferral` reads, then stores under a new
code (two steps); `EnableReferralForUsers`, profiles made, changed, deleted and made the
default; sign-ups; `checkInvites`.  No code writes `rowKey` any more (see Findings).

`Accounts`: the handlers that edit a row (flag, label, address of one's own or by the
administrator, with confirmation or without) read it and store all of it; `SetUserDisabled`
stores the policy that the client of Jellyfin remembers.  The batches enable, disable,
delete and apply settings step through users, and `answer` is what they say at the end.
Housekeeping clears the rows of deleted users.

`SubscriptionNotices`: the payment rows of one subscription have a mark.  A handler first
stores its rows (`CopyRow`, `StoreRow`, that is `setPayment`), then reserves the notice on
all rows under a mutex (`Reserve`), sends it, and takes the mark back when that fails.
`OtherWrite` is any other writer of a row, `EndsAndStarts` the end of the process.  Only
subscriptions whose customer has an address are modelled; the wording of the email and the
date it names are not.

### Services

Ten parts with data of their own, one of which `part` chooses in the initial state.

`UserListing` has `UserCache.Filter`, `Sort` and `SearchUsers`; `ActivityListing` the queries
that `generateActivitiesQuery` builds and how badgerhold reads them.  Texts are sequences of
letters, so that "contains" and "in any case" mean what they do in the code; a field is one
of each type.  A page is asked for after the other while other requests sort or make the
list anew, or activities happen.

`UserCache` is the synchronisation itself: what a list was made from is a version, and
`InvalidateWebUserCache` says that there is a newer one.  A slot is a request with the
goroutine it starts: `MaybeSync`, `List`, `ClaimSort`, `SortList`, `AwaitSort` and `Return` are
steps of the request, `BeginUserSync`, `Fetch`, `Publish`, `FinishUserSync`, `Spin` and
`SendStatus` those of the goroutine.

`Languages`: `disk` has the files of each kind in each filesystem; `loadLang` and the six
loaders are folds over them, with the fallback that is loaded on the way.  `Templates` is
`templateString` and `format` over all texts up to a length.  `PaymentPlans`: normalisation, the id made
of a name, validation, `SetPaymentPlans`, lookup, and the metadata a checkout carries.
`Backups`: names are sequences of tokens, printed, parsed and ordered as the code does.
`DayTimer.Check` over a sequence of questions.  `ActivityCache` and `LineCache` are rings
with the index arithmetic of the code.

Where the code does something odd that no line of the repository rules out, the property
names the case and excludes it (the history bit is in parentheses):

* the end of the ring of activities moves by one in a sync, not by as many entries as were
  overwritten, and the lists of a user are cut short until the next sync (`overrun`);
* two backups in one second have one name, and one more is deleted than should be (`oneLess`);
* the second file of a language is not read once it served as a fallback there (`Single`);
  only the page of password resets reads a fallback again, so that a language may lean on
  what its fallback was before (`MarksFallback`);
* an entry with neither of its two forms stays so, and is taken for whole by the languages that
  fall back on it (`Sources`);
* `format` reads past the end of a text of one letter (`Panicked`); nothing calls it;
* of kinds with only English a last filesystem without `en-us.json` is an error (`Fails`);
* a plan whose name is another's id hides it (`AccessAsOffered`);
* terms and queries of activities are joined by "or" where "and" is meant
  (api-activities.go:90), and the default order, by "name", lists nothing (:120);
* a list invalidated while it is made counts as new (`list.late`); who waits for another's
  failed sync gets the old list (`missed`); a sorter marks a list that came in place
  meanwhile as sorted (`list.intruding`);
* a stale copy of a row brings back or erases the mark of the notice (`restored`, `erased`).

Two more have no property: the goroutine of a synchronisation nobody waits for stays
blocked on its channel (usercache.go:161), and fallbacks in a circle are loaded forever.

## Runs

| run | bounds | shows |
|---|---|---|
| `ledger` | price 2 (a partial refund exists); one handler at a time with 2 changes at Stripe, 3 tasks, 2 reconciliations of which one fetch fails, or with 3 changes, 2 tasks, a reconciliation; two at a time with 1 change and a reconciliation, or 2 changes | types; no fabricated status; a complete reconciliation repairs the row; what can undo a refund |
| `ledger_lost_refund` | two workers, 3 tasks | expected violation: a stale email mark hides a refund |
| `store_access` | 2 checkouts and a renewal, reported once; one payment reported 4 times with 3 crashes; two handlers, fair, a failed request, a crash, an administrator | no period lost or made up; refines `PaidAccess`; fulfilled implies granted; a delivered checkout ends up fulfilled |
| `store_redelivery` | one worker, a checkout reported twice | expected violation: second credit after redeeming |
| `invites_uses` | two browsers, two workers, 2 payments; one use or two, with and without confirmation, overlap, a crash | who enters on which payment, how many, what becomes of a paid invite |
| `invites_confirm` | email confirmation, one handler at a time | expected violation: users are let in without paying |
| `expiry_pass` | eight configurations, one handler and the daemon, a checkout and a renewal, 4 days; fair | types; no limit is lost; a subscriber is kept; nobody is deleted who was never disabled; an expiry takes effect |
| `expiry_notice` | one configuration, one handler at a time, 5 days | expected violation: a customer is deleted without being disabled |
| `pins_link` | twelve configurations, two handlers and the bot, a user, two visitors, two chat accounts, two PINs | types; links are confirmed; a PIN links one account; require_unique is kept; no verified PIN is lost |
| `services` | 4 accounts in 3 orders, 4 activities and 2 later, pages of 1 to 3; 2 requests of the shared list, 2 versions, a failure; 4 languages in 1 or 2 filesystems, a fallback with a fallback; texts of 7 letters; 2 of 12 plans; 5 backups; 130 hours; rings of 3 | what each part of `Services` promises |
| `members` | two browsers, 2 starts; two clients, 2 PINs, a captcha, a failure; two names, a user, two askers; two accounts, two handlers, 2 requests, a fault; two notifiers, two rows, 3 events | what each part of `Members` promises |
| `referral_profile` | the same | expected violation: who signs up with a profile that has referrals gets none |

The bounds.  A lost update needs two workers and one read-write window; undoing a
status needs the change, its event and one older event, hence 3 tasks.
A second renewal or a third worker adds no new kind of snapshot: handlers compare a
row with one snapshot at a time.  In `store_*` two checkouts are the least for which
"the last transaction" and "the transaction before" differ, and two users the least
for an old and a new account of one address.  In `invites_*` two browsers are the
least for one to enter on the other's payment, and two payments the least for the
invite's payment and a browser's to differ; a counter of 1 and of 2 are the boundary
at which the invite is deleted and the case above it.  In `expiry_pass` a limit is one
day and a pending deletion another, so that within four days a limit runs out, is
extended, runs out again and the deletion is due.  The daemon and one handler are the
two actors whose steps interleave.  In `pins_link` two PINs and two visitors are the least
for a PIN, or a chat account, to come to two accounts; PINs, chat accounts, handlers and
visitors are symmetric, and there is no liveness in that run.

In `members` two of whatever may overlap, over two users or rows where one handler may
disturb another's; a cookie lasts longer than a token and as long as the run, so that one
can be used after a logout and a restart; `PIN_VALIDITY` 0 makes a PIN good in the moment it
was issued in, so that it can expire while a request is at work; a referral lasts to the end
of its day, and the run has two.  Browsers, changing accounts and rows are symmetric.  In
`services` rings of 3 wrap twice in 6 or 7 entries, also in one write; deltas of reminders
lie closer together, and further apart, than 18 hours and a day; questions come after 2, 6
or 20 hours, so that one may be late and the next one held back; version numbers and dates
have enough values for old and new files of one version; accounts with equal keys make
sorting ambiguous; filter values are at, above and below those of the accounts.

Deadlock checking is off in all of these: a run ends when its bounds are used up.

Fairness is assumed in `store_access` and `expiry_pass`: weak fairness of a started handler's
steps, because the Go scheduler runs every runnable goroutine, and, in the second, of
the daemon, whose timer starts a pass every minute (`main.go`).  Nothing is assumed about deliveries,
the administrator, crashes or Jellyfin's answers.  The other runs check safety only.

Refinement: `KeepsPromise` is the specification of `PaidAccess` under the mapping in
`StoreFulfillment` (which payments were received and which gave access), for the scenarios
in which the code keeps the promise; `store_redelivery` is the one in which it does not.

## Proofs

Assumptions on the constants are named where they are declared, and TLC evaluates them in
the runs.  A proof needs them as weak as stated: sets may have any size.

`StoreFulfillment_proofs` proves `Spec => []TypeOK` and `Spec => []FulfilledIsGranted`
from `FulfillmentAssumption`, `BudgetsAssumption` and `NoTxnAssumption` (the empty
transaction id is not an id).  `FulfilledIsGranted` alone
is not inductive: the row is written from what the worker remembers.  `IInv` adds that
a worker about to mark or relink has seen its grant (`WorkerOK`), that a copy it holds
was justified when read, and that what the duplicate checks trust, the last transaction
of an expiry and the payment of an invite, was granted (`ExpiriesOK`, `InvitesOK`).
Grants are never taken back, so all of it survives the steps of others.

Where handlers take turns it proves two things more.  `Spec => KeepsPromise`, that every step
is one of `PaidAccess` or none, needs that nothing is granted twice (`PInv`): Jellyfin knows
every user an address, a row or a worker names (`Known`), whoever is at work is alone and
works for a payment that was received (`Alone`, `Earned`), and a payment was either reported
once, so that who has not granted yet is the first to (`ReportedOnce`), or is the one payment of
the one user, whose expiry remembers it (`Remembered`).  Its hypothesis, `Promised`, is these
two scenarios.  `Spec => []AccessAddsUp` holds however often payments are reported, as long as no
request fails, the administrator does nothing, and nobody signs up where the process may
crash (`InTurn`): a sign-up between `use` and `expiry` holds a period that a crash loses.
Its invariant, `Books`, counts that period as owed; `InHand` says that an expiry read is the
one stored, and that who redeems has the invite and no expiry yet; `Numbered` that a new code
and a new user are new.  Sums are folds over finite sets, defined by recursion, about which
the prover knows nothing: `SumsExist`, `SumsAnyOrder` and `SumsAgree` prove what is needed (there
is such a function, the order does not matter, only the values do) by taking a least set,
or number, for which it fails, which a well-founded order has (`WFMin`).

`Invites_proofs` proves, from `InvitesAssumption` and `NoOneAssumption`, that `TypeOK`,
`LockedToPayer` and `ReportedIsAccountedFor` always hold.  For the second, `IInv` says
that a cookie is only made for its browser's own checkout, that every payment named by
the invite or by a copy in a handler's hands is settled (so a stale edit cannot bring
back anything unpaid), and that a handler at `create` has the right to be there.  For
the third, `AccInv` follows the event of each payment: its own webhook handler is at
work, or it has marked the row or flagged it.  It needs that a payment is dropped from
`review` only by a handler that takes it over, and that a reconciliation, which may end
without a flag, never is the only one in charge.

`WithinLimit`, `EachUseIsPaid` and the action property `PaidInviteKept` are about handlers one after
the other.  `SerialInv` follows the one at work (`Acting`): a copy that will be stored exists and
what is to expire is the stored invite (`KeptInv`); the users let in and the uses left, of the
invite and of the copy in its hands, make no more than the limit, with one more while a user was
created whose use is not stored (`LimitInv`); and there is a payment more than users while one is
on its way to the invite, marks it, or lets somebody in (`PaidInv`).  Both count a crash as
one, and only until the invite is too late, for a late one lets nobody in.

`UserExpiry_proofs` proves, from `ExpiryAssumption`, that `TypeOK`, `SubscriberKept` and
`NoticeGiven` hold.  `PassSteps` says where a pass can go in one step.  `Doubted`, a pass
from `lapse` on has seen the subscription inactive, is inductive with the types: there
are two ways to `lapse`, past the first look and past the second, and the history bit
goes down with the row.  For `NoticeGiven`, `Noticed` follows `pending` through every copy:
the stored expiry's, the pass's and each handler's imply `lapsed`, and a pass comes to
delete only with its copy's flag.

For `LimitKept`, `LimitInv` says of handlers one after the other, while no request has failed
and nobody was pardoned: an account that can be used has an expiry, unless the one handler at
work is its sign-up about to store it (`Limited`), and what the pass has read is still so, so that
what it is about to drop, store or enable leaves the account its limit (`PassLimited`).

`PaymentLedger_proofs` proves `TypeOK`, `NoFabricatedStatus` and the action properties
`RefundUndoneOnlyBy` and `ReconcileRepairs`.  `IInv` says of everything that carries a claim about
Stripe (the row, each event under way or delivered, what each worker has read, loaded
or is about to store) that the claim has been true at some time: `was` only grows, so what
is grounded stays so.  For the repair, `RInv` has the order of Stripe's objects in life
(`LifeOK`), that the ids the row and events name are ids of objects there (`KnownIds`), and what a
reconciliation that has loaded all of them knows at each of its steps (`RecallOK`).

`ContactPins_proofs` proves, from `PinsAssumption`, all five invariants of `pins_link`.
`PinsAssumption` says, beside the types of the modes, that the form and the page read the
same setting for every messenger but Matrix.  `Confirmed` is `LinkedConfirmed` with what
leads to a link: the chat account of a verified PIN, of a copy, of a worker about to link
and of a confirmation key was confirmed.  `PinsInOrder` has a PIN in one map only, shown to
one place.  `Once` and `StillFree` are about handlers one after the other (`Alone`): what a
handler has asked is still so when it acts; `Accounted` says where a PIN is whose sender was
told.

`Members_proofs` proves `LogoutsKept`, from `SessionsAssumption`, and `CustomerToldOnce`.
For the first, `AdminSession` ties what a browser holds to its last login: the id of a token
is known only since the process began and after that login, a token is over one unit of time
from now or from the logout, and after a logout there is no cookie; `UserSession` has the
cookie that stays in `invalidTokens` until a restart.  For the second, `MarkHolds`: unless a
stale copy has erased a mark, whoever sends is alone and has marked the rows, and the mark
of a sent email stays.

`PasswordsByPIN`, from `ResetsAssumption`: `ResetsInv` says of a PIN in a request's hands that it
was good for its user when found (`RequestOK`), that the pages' PINs were used once unless two
requests were at it together (`UsedOK`, `TogetherOK`), what stands between Jellyfin's blank password
and the new one (`BlankOK`, `SameOK`), and how old a captcha can be (`CaptchasOK`).

`ReferralsHold`, from `ReferralsAssumption`: codes are given once, a template belongs to nobody, what
a handler read of a user's referral is still so unless another changed it (`AskerOK`, `UserOK`), and
while the default profile is set the profiles are as they were read (`SettingOK`).

`DetailsStay` and `BatchesTell`, from `AccountsAssumption` (finitely many accounts, which the
numbers in an answer need): the row a handler has read is the stored one unless another
crossed it (`RowOK`); a batch that is alone writes the policy there is, and outside of a batch the
client remembers no policy (`AloneOK`, `RememberedOK`); the services follow the row (`FollowedOK`); and
of a batch everybody is still to come, in hand, done or told (`BatchOK`, `AnswerOK`).

`Services_proofs` proves, for every value of the constants, `UserPages`, `ActivityPages`,
`SharedList`, `LogLinesKept`, `RemindersSent`, `JFActivityKept`, `PlansKept`, `BackupsRotated`
and `TextsComplete`.  The parts share no variables: `PartSteps` says that the one that is on stays
on and moves by its own steps, and each theorem has an invariant of its part alone.

`Listing_proofs` has what they need of sequences.  Loops over slices are `FoldLeft`s, of which the
prover knows nothing: `TableExists` builds the table of their intermediate results, by taking the
least length without one (`LeastNat`), and `WithinIs` says of `Within` that it keeps the elements of
a set, all of them, in their order.  Sorting is `Ranked`, by how many come before: `RankedIs` says
that for a strict order of a finite set it has each element once, in order, and `Arranges`, with
`Sorted`, that a sequence is put in the order of a comparison, equal ones as they were.

* `UsersInv` (from `UsersAssumption`: every answer of Jellyfin has the same accounts, whose ids differ): what a
  page has got is the beginning of what it would be answered now.  That holds when another
  request has changed the order of the list only if no two accounts are equal in the order asked for,
  for then there is one order only; with ties it is not claimed, nor by `UserPages`.
* `ActivitiesInv` (from `ActivitiesAssumption`: activities are logged one after the other):
  oldest first the pages are a beginning of what is selected now.  Newest first
  each one that is logged moves the others on, and what was there at first is got already or in what is
  left; some come twice, none is missed.
* `SharedInv`: one request at a time makes the list and one sorts it
  (`OneSync`), and an answer has what was announced before it was asked for (`RepliesCurrent`).
  `Behind` says that what is known of versions only grows; `NewEnough` when the list, the one under way
  and the one a request has been given are current, and that who waits for a current one waits for
  somebody who makes it; `WellSorted` the same of its order, while lists come in place.
* `BackupsInv` (from `BackupsAssumption`: old files are older than the first backup, and no two say the
  same).  `MadeIsRead` and `UploadIsRead` say that a name that was made is read as what it was made from,
  token by token, so that the files and what they say are one for one.  `ListIs` puts them in order
  of their dates, `DeletesRun` follows the deletion file by file, and `Rotates` is what it does: each
  file that goes has enough newer ones, one of each version stays, and the rest is few enough.  The invariant
  needs two things beyond what is promised: a backup that is gone has as many newer ones as
  are kept (`NewestKept`), from then on and not only now; and one with the name the next backup
  will have, once deleted, has one more, since making it again brings back the name but not the room.
* `LinesKept` (from `LineAssumption`): the cell of the ring that is k behind `current` has the
  line written k ago, also in the middle of one `Put`.
* `TimerKept` (from `DayTimerAssumption`): what fired last, on which day, and for which delta;
  `CheckFinds` says which delta a check finds, and `DueAtLastCall` that with checks often enough and
  deltas of whole days (`WholeDays`) one comes at a time at which it is due.
* `RingKept(n)` (from `ActivityAssumption`), n the newest entry held: a cell holds the
  entry its number says, `byEntryID` finds it, and `end` is right until entries are overrun;
  then, with `OfKeeps`, what `Of` cuts out of a user's list are the entries overwritten.  `TakenIn`
  is the one step that changes these, `TakeIn`.
* `PlansInv` (from `PlansAssumption`): what was accepted is stored as `PlansFine`.  Trimming,
  lowering and cleaning a text leave it as it is the second time (`TrimStays`, `CleanStays`, `CurrencyIs`),
  so fine plans are acceptable and normalised to themselves (`FinePlansStay`), and are
  found by their ids (`FineIsOffered`).
* `LangInv` (from `LanguagesAssumption`: files are named once, say both forms of a quantity, and no
  fallbacks make a circle, on which the loader would go round forever): of each language of a kind
  that is loaded, `Promised` holds, the property in terms of its files and of the common texts.
  `Load` is a recursive function along fallbacks; `depth`, which
  there is without circles, bounds it, and `LoadGrows` says by the least depth that breaks it
  what one call adds: each language it comes to, made (`Made`) from its own file, the common texts,
  its fallback and English, and whole (`MadeWhole`).  `LoopInv` follows the files that had their
  turn (`TurnTaken`, `TurnSkipped`) through both loops: which files are marked, that what is loaded came
  from a file, and that one that leans on a fallback has its texts while that stays as it was.
* The texts with values (from `TextsAssumption`: values are texts, at least one is listed) need no
  invariant but their type.  `IsFlat` is what the first pieces of a flattened sequence make, so that
  the reference can be compared letter by letter: `NamedSoFar` and `NextSoFar` say that
  what the loop has put out at a letter is what the pieces make up to the last part that was replaced,
  and which brace or value it is at.

The two use `TurnsLead`, the steps of a `FoldLeft` one by one, whose table is built like that of `Within`.

Only model-checked: liveness under fairness (`EventuallyFulfilled`, `ExpiryTakesEffect`: TLAPS does no
ENABLED), and that the runs that expect a violation find one.  Every safety invariant and every safety
property of the steps that a run checks has a theorem.

## Findings

Five places where the repository says one thing and the code does another (`findings`):

* `ledger_lost_refund`: a test wants a refund to override an email failure; the stale
  write of the email goroutine does the reverse.
* `store_redelivery`: a comment says the last transaction prevents duplicate credits; a
  sign-up forgets it.
* `invites_confirm`: each use of a paid invite is said to need a payment; with email
  confirmation none is asked for.
* `expiry_notice`: users are disabled on expiry and deleted days later; a customer who pays
  while awaiting deletion keeps the mark of it, is not disabled when the paid time is
  over, and is deleted.
* `referral_profile`: a referral is to be made from the template of the profile a user signed
  up with, "found in the user storage"; the sign-up assigns the profile's key to itself and
  never to the user's row.

## Not modelled

* The loop of the daemons with its trigger and shutdown channels and the restart of the
  server (`generic-d.go`, `main.go`): restarts and crashes appear as steps of each module,
  which lose what is kept in memory.  The channels themselves have a buffer of one and a
  counter that nothing guards; three restarts at once, or a trigger that is not taken within
  five seconds, end in a fatal error of the shutdown.
* Migrations run once before anything else.  Loading a backup happens before the start.
* The map that confirmation keys are stored in (api-users.go:212) is one step to read or
  write; `Invites` and `ContactPins` model the keys.
* Rows of renewals and of invite unlocks as payment rows; refund-driven expiry
  (`expirePaidUserNow`) in `StoreFulfillment`.
* Messages of every kind, their wording and delivery: a send succeeds or fails.
  Announcements, custom content, settings pages, the updater, the clients of Ombi and
  Jellyseerr, proxies and the frontend keep no state that others race for.
* Enabling referrals for users with another mode than a profile or an invite; roles at
  Discord beyond having one; a restart in the middle of a batch.

## Plan

Done: payment rows, fulfilment, invites, expiry, PINs, `Members`, `Services`, and the proofs of
all their invariants.  Next:

1. `Daemon` (`generic-d.go`, `tasks.go`, `main.go`): trigger, shutdown and restart over
   unbuffered channels, with deadlock and progress.
2. Rows of renewals in `PaymentLedger`, and refunds that end an access in `StoreFulfillment`.
