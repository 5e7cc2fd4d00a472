------------------------------- MODULE Invites -------------------------------
(***************************************************************************)
(* One invite and everybody who uses it (api-invites.go, api-users.go,     *)
(* views.go, payment_lock.go, and the unlock part of api-stripe.go).       *)
(*                                                                         *)
(* An invite has a number of uses and may require a payment for each.      *)
(* A browser that pays gets a cookie that matches the payment it made; the *)
(* webhook marks the invite as paid; the next sign-up takes the mark away. *)
(* Every handler reads the invite and stores a changed copy of it in       *)
(* another step, and a stored copy brings back an invite that was deleted  *)
(* meanwhile.                                                              *)
(***************************************************************************)
EXTENDS Integers, FiniteSets

CONSTANTS Browsers,     \* people with the invite's link
          Workers,      \* goroutines that may run at the same time
          Priced,       \* RequiredPayment
          Modes,        \* what may be assumed, see mode
          MaxPayments,  \* bound: checkouts opened
          MaxUsers,     \* bound: users created
          MaxEvents,    \* bound: how often Stripe sends one payment's event
          MaxReconciles,\* bound: how often the reconciliation meets one payment
          MaxEdits,     \* bound: edits, sent messages and captchas
          MaxDeletes,   \* bound: deletions by the administrator
          Expires       \* whether the invite's time may run out

ASSUME InvitesAssumption ==
    /\ {MaxPayments, MaxUsers, MaxEvents, MaxReconciles} \subseteq Nat
    /\ {MaxEdits, MaxDeletes} \subseteq Nat
    /\ {Priced, Expires} \subseteq BOOLEAN
    /\ Modes \subseteq [uses : Nat, confirm : BOOLEAN, overlap : BOOLEAN, crashes : Nat]

Payment == 1..MaxPayments
None    == 0                 \* PaymentID = "", no cookie
NoOne   == "no one"

ASSUME NoOneAssumption == NoOne \notin Browsers

VARIABLES mode,      \* never changes: RemainingUses of the new invite, 0 for no limit,
                     \* whether email_confirmation is enabled, whether handlers overlap,
                     \* and the bound on crashes of the process
          invite,    \* the stored invite
          late,      \* ValidTill has passed
          opened,    \* checkouts opened so far
          buyer,     \* whose cookie holds the lock of a payment
          cookie,    \* the payment a browser's lock cookie was made for
          settled,   \* payments Stripe has received
          events,    \* how often Stripe has sent a payment's event
          checks,    \* how often the reconciliation has met a payment
          fulfilled, \* payment rows with FulfilledAt
          review,    \* payment rows with the status needs_review
          keys,      \* browsers with a confirmation key in memory
          users,     \* history: who was let in, and on what
          worker,    \* what each goroutine is doing
          budget     \* edits, deletions and crashes left

money == <<opened, buyer, cookie, settled, events, checks, fulfilled, review>>
vars  == <<mode, invite, late, money, keys, users, worker, budget>>

-----------------------------------------------------------------------------
\* PaymentStatus is "paid" exactly when PaymentID is set.
Invite == [there : BOOLEAN, uses : Nat, paidBy : Payment \cup {None}]

Gone == [there |-> FALSE, uses |-> 0, paidBy |-> None]

Step == {"idle", "unlock", "mark", "authorize", "create", "check", "use", "expire",
         "discard", "store"}

Worker == [pc : Step, by : Browsers \cup {NoOne}, payment : Payment \cup {None},
           copy : Invite, linked : BOOLEAN, via : {"webhook", "reconcile"}]

Idle == [pc |-> "idle", by |-> NoOne, payment |-> None, copy |-> Gone,
         linked |-> FALSE, via |-> "webhook"]

User == [id : 1..MaxUsers, by : Browsers, claim : Payment \cup {None}, invited : BOOLEAN]

TypeOK ==
    /\ mode \in Modes
    /\ invite \in Invite /\ late \in BOOLEAN
    /\ opened \in 0..MaxPayments
    /\ buyer \in [Payment -> Browsers \cup {NoOne}]
    /\ cookie \in [Browsers -> Payment \cup {None}]
    /\ settled \subseteq Payment /\ fulfilled \subseteq Payment /\ review \subseteq Payment
    /\ events \in [Payment -> 0..MaxEvents] /\ checks \in [Payment -> 0..MaxReconciles]
    /\ keys \subseteq Browsers
    /\ users \subseteq User
    /\ worker \in [Workers -> Worker]
    /\ budget \in [edits : 0..MaxEdits, deletes : 0..MaxDeletes, crashes : Nat]

\* GenerateInvite
Init ==
    /\ mode \in Modes
    /\ invite = [there |-> TRUE, uses |-> mode.uses, paidBy |-> None]
    /\ late = FALSE
    /\ opened = 0
    /\ buyer = [p \in Payment |-> NoOne]
    /\ cookie = [b \in Browsers |-> None]
    /\ settled = {} /\ fulfilled = {} /\ review = {}
    /\ events = [p \in Payment |-> 0] /\ checks = [p \in Payment |-> 0]
    /\ keys = {} /\ users = {}
    /\ worker = [g \in Workers |-> Idle]
    /\ budget = [edits |-> MaxEdits, deletes |-> MaxDeletes, crashes |-> mode.crashes]

Start(g, rec) ==
    /\ worker[g].pc = "idle"
    /\ mode.overlap \/ \A h \in Workers : worker[h].pc = "idle"
    /\ worker' = [worker EXCEPT ![g] = rec]

End(g)        == worker' = [worker EXCEPT ![g] = Idle]

-----------------------------------------------------------------------------
(* Paying for a use.                                                       *)

\* PostStripeCheckout: the checkout's random lock goes into the browser's cookie.
Checkout ==
    \E b \in Browsers :
        /\ invite.there /\ Priced /\ opened < MaxPayments
        /\ opened' = opened + 1
        /\ buyer' = [buyer EXCEPT ![opened + 1] = b]
        /\ cookie' = [cookie EXCEPT ![b] = opened + 1]
        /\ UNCHANGED <<mode, invite, late, settled, events, checks, fulfilled, review, keys, users, worker, budget>>

\* (external)
Pays ==
    \E p \in (1..opened) \ settled :
        /\ settled' = settled \cup {p}
        /\ UNCHANGED <<mode, invite, late, opened, buyer, cookie, events, checks, fulfilled, review,
                       keys, users, worker, budget>>

Begin(g, p, via) == Start(g, [Idle EXCEPT !.pc = "unlock", !.payment = p, !.via = via])

\* checkout.session.completed, delivered at least once: the row becomes paid.
Event(g) ==
    \E p \in settled :
        /\ events[p] < MaxEvents
        /\ events' = [events EXCEPT ![p] = @ + 1]
        /\ review' = review \ {p}
        /\ Begin(g, p, "webhook")
        /\ UNCHANGED <<mode, invite, late, opened, buyer, cookie, settled, checks, fulfilled,
                       keys, users, budget>>

\* The reconciliation flags a paid row without an invite, and fulfils one that is not.
Reconcile(g) ==
    \E p \in settled \ fulfilled :
        /\ checks[p] < MaxReconciles
        /\ checks' = [checks EXCEPT ![p] = @ + 1]
        /\ review' = IF invite.there THEN review ELSE review \cup {p}
        /\ Begin(g, p, "reconcile")
        /\ UNCHANGED <<mode, invite, late, opened, buyer, cookie, settled, events, fulfilled,
                       keys, users, budget>>

ReadUnlock_Ignores(g) ==
    LET k == worker[g]
    IN  /\ k.pc = "unlock" /\ ~k.copy.there
        /\ IF invite.there THEN worker' = [worker EXCEPT ![g].copy = invite] ELSE End(g)
        /\ UNCHANGED <<mode, invite, late, money, keys, users, budget>>

\* fulfillStripeInviteUnlock finds the invite; the webhook flags a payment without one.
ReadUnlock(g) ==
    LET k == worker[g]
    IN  /\ k.pc = "unlock" /\ ~k.copy.there
        /\ \/ invite.there /\ worker' = [worker EXCEPT ![g].copy = invite] /\ UNCHANGED review
           \/ /\ ~invite.there /\ End(g)
              /\ review' = IF k.via = "webhook" THEN review \cup {k.payment} ELSE review
        /\ UNCHANGED <<mode, invite, late, opened, buyer, cookie, settled, events, checks, fulfilled,
                       keys, users, budget>>

Unlock(g) ==
    LET k == worker[g]
    IN  /\ k.pc = "unlock" /\ k.copy.there
        /\ invite' = [k.copy EXCEPT !.paidBy = k.payment]
        /\ worker' = [worker EXCEPT ![g].pc = "mark", ![g].copy = Gone]
        /\ UNCHANGED <<mode, late, money, keys, users, budget>>

Mark(g) ==
    /\ worker[g].pc = "mark"
    /\ fulfilled' = fulfilled \cup {worker[g].payment}
    /\ review' = review \ {worker[g].payment}
    /\ End(g)
    /\ UNCHANGED <<mode, invite, late, opened, buyer, cookie, settled, events, checks, keys, users, budget>>

-----------------------------------------------------------------------------
(* Signing up.                                                             *)

\* paymentForInviteUnlock: the payment whose lock the cookie must match.
LockPayment_Latest(inv) == opened
LockPayment(inv) == inv.paidBy

\* validPaidInvitePaymentLock, for the payment the request's cookie was made for
MayEnter(p, inv) == inv.paidBy = None \/ p = LockPayment(inv)

\* NewUserFromInvite up to the email confirmation: the invite exists and is valid.
SignUp(g) ==
    \E b \in Browsers :
        /\ invite.there /\ ~late
        /\ IF mode.confirm
           THEN /\ worker[g].pc = "idle"
                /\ b \notin keys /\ keys' = keys \cup {b} /\ UNCHANGED worker
           ELSE Start(g, [Idle EXCEPT !.pc = "authorize", !.by = b, !.payment = cookie[b]]) /\ UNCHANGED keys
        /\ UNCHANGED <<mode, invite, late, money, users, budget>>

\* The second half reads the invite again, and an invite that has gone meanwhile
\* reads as a new one: nothing to pay, nothing that limits the user.
Authorize(g) ==
    LET k == worker[g]
        inv == IF invite.there THEN invite ELSE Gone
        pay == inv.there /\ Priced
    IN  /\ k.pc = "authorize"
        /\ \/ /\ pay => inv.paidBy # None /\ MayEnter(k.payment, inv)
              /\ worker' = [worker EXCEPT ![g].pc = "create", ![g].copy = inv]
           \/ /\ pay /\ (inv.paidBy = None \/ ~MayEnter(k.payment, inv))
              /\ End(g)
        /\ UNCHANGED <<mode, invite, late, money, keys, users, budget>>

\* InviteProxy with a confirmation key, NewUserFromConfirmationKey
OpenLink(g) ==
    \E b \in keys :
        /\ invite.there /\ MayEnter(cookie[b], invite)
        /\ Start(g, [Idle EXCEPT !.pc = "create", !.by = b, !.copy = invite, !.linked = TRUE])
        /\ UNCHANGED <<mode, invite, late, money, keys, users, budget>>

\* NewUserPostVerification; Jellyfin may refuse.
Create(g) ==
    LET k == worker[g]
    IN  /\ k.pc = "create"
        /\ \/ End(g) /\ UNCHANGED users
           \/ /\ Cardinality(users) < MaxUsers
              /\ users' = users \cup {[id |-> Cardinality(users) + 1, by |-> k.by,
                                       claim |-> k.copy.paidBy, invited |-> k.copy.there]}
              /\ worker' = [worker EXCEPT ![g].pc = "check", ![g].copy = Gone]
        /\ UNCHANGED <<mode, invite, late, money, keys, budget>>

\* The key is forgotten when the handler ends.
Done(g) ==
    /\ End(g)
    /\ keys' = IF worker[g].linked THEN keys \ {worker[g].by} ELSE keys

\* checkInvite(code, true) ...
Check(g) ==
    /\ worker[g].pc = "check"
    /\ IF invite.there
       THEN /\ worker' = [worker EXCEPT ![g].copy = invite, ![g].pc = IF late THEN "expire" ELSE "use"]
            /\ UNCHANGED keys
       ELSE Done(g)
    /\ UNCHANGED <<mode, invite, late, money, users, budget>>

Used_KeepsPayment(inv) ==
    IF inv.uses = 1 THEN Gone
    ELSE [inv EXCEPT !.uses = IF @ = 0 THEN 0 ELSE @ - 1]

Used_JustCounts(inv) == [inv EXCEPT !.uses = @ - 1, !.paidBy = None]

Used_NeverDeletes(inv) == [inv EXCEPT !.uses = IF @ = 0 THEN 0 ELSE @ - 1, !.paidBy = None]

\* The invite after a use: one use less, 0 meaning no limit, and to be paid for again.
Used(inv) ==
    IF inv.uses = 1 THEN Gone
    ELSE [inv EXCEPT !.uses = IF @ = 0 THEN 0 ELSE @ - 1, !.paidBy = None]

\* ... stores it.
Use(g) ==
    /\ worker[g].pc = "use"
    /\ invite' = Used(worker[g].copy)
    /\ Done(g)
    /\ UNCHANGED <<mode, late, money, users, budget>>

-----------------------------------------------------------------------------
(* Expiry.                                                                 *)

TimePasses ==
    /\ Expires /\ ~late
    /\ late' = TRUE
    /\ UNCHANGED <<mode, invite, money, keys, users, worker, budget>>

\* checkInvites, or checkInvite before a sign-up, finds the invite expired.
Expire(g) ==
    /\ invite.there /\ late
    /\ Start(g, [Idle EXCEPT !.pc = "expire", !.copy = invite])
    /\ UNCHANGED <<mode, invite, late, money, keys, users, budget>>

\* paymentForInvite: the invite's payment, else any row with its code.
Candidates_ByCode(inv) == 1..opened
Candidates(inv) == IF inv.paidBy # None THEN {inv.paidBy} ELSE 1..opened

\* paymentCanRecoverInvite, for rows without refunds: the payment is known as paid.
CanRecover(p) == events[p] + checks[p] > 0

\* preserveExpiredPaidInvite
Preserve(g) ==
    /\ worker[g].pc = "expire"
    /\ \E p \in Candidates(worker[g].copy) : CanRecover(p) /\ review' = review \cup {p}
    /\ Done(g)
    /\ UNCHANGED <<mode, invite, late, opened, buyer, cookie, settled, events, checks, fulfilled, users, budget>>

\* deleteExpiredInvite goes on to tell the administrators ...
GiveUp(g) ==
    LET found == Candidates(worker[g].copy)
    IN  /\ worker[g].pc = "expire"
        /\ found = {} \/ \E p \in found : ~CanRecover(p)
        /\ worker' = [worker EXCEPT ![g].pc = "discard"]
        /\ UNCHANGED <<mode, invite, late, money, keys, users, budget>>

\* ... and deletes whatever is stored by then.
Discard(g) ==
    /\ worker[g].pc = "discard"
    /\ invite' = Gone
    /\ Done(g)
    /\ UNCHANGED <<mode, late, money, users, budget>>

-----------------------------------------------------------------------------
(* The administrator and crashes.                                          *)

\* EditInvite, SendInvite and GenCaptcha read the invite ...
Edit(g) ==
    /\ budget.edits > 0 /\ budget' = [budget EXCEPT !.edits = @ - 1]
    /\ invite.there
    /\ Start(g, [Idle EXCEPT !.pc = "store", !.copy = invite])
    /\ UNCHANGED <<mode, invite, late, money, keys, users>>

\* ... and store it with a change of no concern here.
StoreEdited(g) ==
    /\ worker[g].pc = "store"
    /\ invite' = worker[g].copy
    /\ End(g)
    /\ UNCHANGED <<mode, late, money, keys, users, budget>>

DeleteInvite ==
    /\ budget.deletes > 0 /\ budget' = [budget EXCEPT !.deletes = @ - 1]
    /\ invite.there /\ invite' = Gone
    /\ UNCHANGED <<mode, late, money, keys, users, worker>>

\* Confirmation keys are kept in memory only.
Crash ==
    /\ budget.crashes > 0 /\ budget' = [budget EXCEPT !.crashes = @ - 1]
    /\ worker' = [g \in Workers |-> Idle]
    /\ keys' = {}
    /\ UNCHANGED <<mode, invite, late, money, users>>

-----------------------------------------------------------------------------
Handler(g) ==
    \/ Event(g) \/ Reconcile(g) \/ ReadUnlock(g) \/ Unlock(g) \/ Mark(g)
    \/ SignUp(g) \/ Authorize(g) \/ OpenLink(g) \/ Create(g) \/ Check(g) \/ Use(g)
    \/ Expire(g) \/ Preserve(g) \/ GiveUp(g) \/ Discard(g) \/ Edit(g) \/ StoreEdited(g)

Next == Checkout \/ Pays \/ TimePasses \/ DeleteInvite \/ Crash \/ \E g \in Workers : Handler(g)

Spec == Init /\ [][Next]_vars

-----------------------------------------------------------------------------
(* Properties.                                                             *)

\* "Paid invites are locked to the device that made the payment" (views.go): whoever is
\* let in on a payment is the one who paid it, and, without email confirmation, nobody
\* gets in by an invite that requires a payment on none.  However checkouts, redelivered
\* payments, stale edits and sign-ups overlap.
LockedToPayer ==
    \A u \in users :
        u.claim # None \/ (Priced /\ u.invited /\ ~mode.confirm)
            => u.claim \in settled /\ buyer[u.claim] = u.by

Crashed == mode.crashes - budget.crashes

\* With handlers one after the other no more users are let in than the invite has
\* uses, but for one per crash between the user's creation and the invite's use.  (With
\* email confirmation it fails: an expired invite that is preserved for its payment is
\* found and used by the links sent before, and not used up by them.)
WithinLimit ==
    ~mode.overlap /\ ~mode.confirm /\ mode.uses # 0
        => Cardinality(users) <= mode.uses + Crashed

Invited == {u \in users : u.invited}

\* "Multi-use paid invites require a separate payment for each use" (api-invites.go), of
\* those let in while the invite exists.
SeparatePayments == Priced => Cardinality(Invited) <= Cardinality(settled) + Crashed

\* What holds of it: with handlers one after the other, without email confirmation, and
\* as long as no payment is reported twice.
EachUseIsPaid ==
    ~mode.overlap /\ ~mode.confirm /\ (\A p \in Payment : events[p] + checks[p] <= 1)
        => SeparatePayments

\* A paid use is not lost: with handlers one after the other, only its use or the
\* administrator takes a paid invite away, however late it is.
PaidInviteKept ==
    [][~mode.overlap /\ invite.there /\ invite.paidBy # None /\ ~invite'.there =>
         budget'.deletes < budget.deletes
         \/ \E g \in Workers : worker[g].pc = "use"]_<<mode, invite, worker, budget>>

\* A paid checkout whose event arrived is accounted for: its invite was marked, or the
\* row is flagged for the administrator, or a handler is still at it.  Up to crashes,
\* and however events, reconciliations, deletions and expiry overlap.
ReportedIsAccountedFor ==
    Crashed = 0 =>
        \A p \in settled :
            events[p] > 0 =>
                \/ p \in fulfilled \cup review
                \/ \E g \in Workers : worker[g].pc \in {"unlock", "mark"} /\ worker[g].payment = p

=============================================================================
