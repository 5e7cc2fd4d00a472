---------------------------- MODULE PaymentLedger ----------------------------
(***************************************************************************)
(* One store purchase and everything that writes to its payment row.       *)
(*                                                                         *)
(* Stripe's own objects change on Stripe's side (external) and every       *)
(* change emits events: snapshots that reach the webhook in any order,     *)
(* late, more than once or never.  Each webhook request, the admin's       *)
(* reconciliation, and each email goroutine is a worker.  Every write of   *)
(* the row goes through setPayment, which reads the row, mutates a copy    *)
(* and stores it with no lock in between, so reading and writing are two   *)
(* steps here and another worker may write in the gap.                     *)
(*                                                                         *)
(* What granting the purchase does to invites and expiries is the module   *)
(* StoreFulfillment; here only its marks on the row appear.                *)
(***************************************************************************)
EXTENDS PaymentRecord, FiniteSets

CONSTANTS Workers,      \* goroutines that may run at the same time
          Limits        \* the bounds of the behaviours, see Limit

\* Changes on Stripe's side; handlers, reconciliations and emails started, and the
\* reconciliations among them; fetches that fail in one reconciliation; email goroutines
\* waiting to run; and whether handlers overlap.
Limit == [changes : Nat, tasks : Nat, reconciles : Nat, failed : Nat, mail : Nat,
          overlap : BOOLEAN]

ASSUME LedgerAssumption == Limits \subseteq Limit

VARIABLES stripe,   \* Stripe's objects for this purchase
          was,      \* history: every fact that has been true on Stripe's side
          changes,  \* how many times stripe has changed
          events,   \* events emitted so far; delivery does not consume them
          row,      \* the stored payment
          started,  \* how many tasks, and how many reconciliations, have started
          worker,   \* what each goroutine is doing
          mail,     \* purchase emails whose goroutine has not finished
          limit     \* the bounds of this behaviour, which never change

vars == <<stripe, was, changes, events, row, started, worker, mail, limit>>

-----------------------------------------------------------------------------
(* Stripe's side.  pay[c] is the state of payment c: for a subscription    *)
(* the payment of invoice c.  Only cards are accepted, so a session that   *)
(* is complete is paid.                                                    *)

PayState == {"none", "failed", "succeeded", "canceled"}

World == [recurring : BOOLEAN,
          session : {"open", "complete", "expired"},
          pay : [PaymentId -> PayState],
          refunded : [PaymentId -> 0..Amount],
          sub : SubStatus, atEnd : BOOLEAN]

NewWorld(r) == [recurring |-> r, session |-> "open",
                pay |-> [c \in PaymentId |-> "none"],
                refunded |-> [c \in PaymentId |-> 0],
                sub |-> "", atEnd |-> FALSE]

ChargeOf(w, c) ==
    IF w.pay[c] \in {"none", "canceled"} THEN NoCharge
    ELSE [id |-> c, status |-> w.pay[c], refunded |-> w.refunded[c]]

IntentOf(w, c) ==
    CASE w.pay[c] = "none"      -> NoIntent
      [] w.pay[c] = "failed"    -> [id |-> c, status |-> "requires_payment_method",
                                    charge |-> ChargeOf(w, c)]
      [] w.pay[c] = "succeeded" -> [id |-> c, status |-> "succeeded", charge |-> ChargeOf(w, c)]
      [] w.pay[c] = "canceled"  -> [id |-> c, status |-> "canceled", charge |-> NoCharge]

InvoiceOf(w, i) ==
    CASE ~w.recurring \/ w.pay[i] = "none"       -> NoInvoice
      [] w.recurring /\ w.pay[i] = "failed"      -> [id |-> i, status |-> "open"]
      [] w.recurring /\ w.pay[i] = "succeeded"   -> [id |-> i, status |-> "paid"]
      [] w.recurring /\ w.pay[i] = "canceled"    -> [id |-> i, status |-> "void"]

SubOf(w) == [exists |-> w.sub # "", status |-> w.sub, atEnd |-> w.atEnd]

\* The session as the reconciliation asks for it: its objects expanded.
SessionOf(w) ==
    [status |-> w.session, invoice |-> InvoiceOf(w, 1), sub |-> SubOf(w),
     intent |-> IF w.recurring THEN NoIntent ELSE IntentOf(w, 1)]

\* Objects inside a webhook's payload carry an id and nothing else.
SessionEvent(w) ==
    LET s == SessionOf(w)
    IN  [status |-> s.status,
         invoice |-> [id |-> s.invoice.id, status |-> ""],
         sub |-> [exists |-> s.sub.exists, status |-> "", atEnd |-> FALSE],
         intent |-> [id |-> s.intent.id, status |-> "", charge |-> NoCharge]]

IntentEvent(w, c) ==
    [IntentOf(w, c) EXCEPT !.charge = [id |-> @.id, status |-> "", refunded |-> 0]]

-----------------------------------------------------------------------------
(* Facts: what could justify a status of the row.                          *)

Fact == LifecycleStatus \cup {"paid", "failed"}

Observed(w, f) ==
    CASE f = "paid" -> w.session = "complete" \/ \E c \in PaymentId : w.pay[c] = "succeeded"
      [] f = "failed" -> \E c \in PaymentId : w.pay[c] = "failed"
      [] f = "payment_canceled" -> \E c \in PaymentId : w.pay[c] = "canceled"
      [] f = "checkout_expired" -> w.session = "expired"
      [] f = "refunded" -> \E c \in PaymentId : w.refunded[c] = Amount
      [] f = "partially_refunded" -> \E c \in PaymentId : w.refunded[c] \in 1..(Amount - 1)
      [] f = "subscription_past_due" ->
           w.sub = "past_due" \/ (w.recurring /\ \E c \in PaymentId : w.pay[c] = "failed")
      [] f = "subscription_lapsed" ->
           w.sub = "unpaid" \/ (w.recurring /\ \E c \in PaymentId : w.pay[c] = "canceled")
      [] f = "subscription_canceling" -> w.sub = "active" /\ w.atEnd
      [] f = "subscription_canceled" -> w.sub = "canceled"

FactsOf(w) == {f \in Fact : Observed(w, f)}

-----------------------------------------------------------------------------
EventType == {"checkout.session.completed", "checkout.session.expired",
              "invoice", "payment_intent", "charge", "refund", "subscription"}

\* of: the payment the event is about; amount: of the single refund created.
Event == [type : EventType, snap : World, of : PaymentId, amount : 0..Amount]

Write == {"completed", "expired", "invoice", "intent", "charge", "refund", "subscription",
          "recSession", "recStored", "plan", "fulfilled", "pending", "disabled",
          "not_applicable", "sent", "failed", "preserve", "relink"}

Step == Write \cup {"idle", "recover", "load"}

Object == {"session", "invoice", "sub", "intent", "charge"}

\* task tells where a fulfilment returns to; loaded, inv and of are what the
\* reconciliation managed to load.
Worker == [pc : Step, holds : BOOLEAN, seen : Row, snap : World,
           task : {"webhook", "listed", "stored"}, of : {0} \cup PaymentId,
           inv : {0} \cup PaymentId, amount : 0..Amount, loaded : SUBSET Object]

Idle == [pc |-> "idle", holds |-> FALSE, seen |-> NewRow, snap |-> NewWorld(FALSE),
         task |-> "webhook", of |-> 0, inv |-> 0, amount |-> 0, loaded |-> {}]

TypeOK ==
    /\ stripe \in World
    /\ was \subseteq Fact
    /\ limit \in Limits
    /\ changes \in 0..limit.changes
    /\ events \subseteq Event
    /\ row \in Row
    /\ started \in [tasks : 0..limit.tasks, reconciles : 0..limit.reconciles]
    /\ worker \in [Workers -> Worker]
    /\ mail \in 0..limit.mail

\* PostStripeCreateCheckout has stored the row before the buyer sees the page.
Init ==
    /\ stripe \in {NewWorld(r) : r \in BOOLEAN}
    /\ was = {}
    /\ changes = 0
    /\ events = {}
    /\ row = [NewRow EXCEPT !.status = "checkout_created", !.email = "not_started"]
    /\ started = [tasks |-> 0, reconciles |-> 0]
    /\ worker = [w \in Workers |-> Idle]
    /\ mail = 0
    /\ limit \in Limits

-----------------------------------------------------------------------------
(* Changes on Stripe's side (external).                                    *)

Becomes(w, emitted) ==
    /\ stripe' = w
    /\ was' = was \cup FactsOf(w)
    /\ events' = events \cup {[type |-> e[1], snap |-> w, of |-> e[2], amount |-> e[3]] : e \in emitted}

Change(w, emitted) ==
    /\ changes < limit.changes
    /\ changes' = changes + 1
    /\ Becomes(w, emitted)
    /\ UNCHANGED <<row, started, worker, mail, limit>>

CardDeclined ==
    /\ stripe.session = "open" /\ ~stripe.recurring
    /\ Change([stripe EXCEPT !.pay[1] = "failed"],
              {<<"payment_intent", 1, 0>>, <<"charge", 1, 0>>})

SessionExpires ==
    /\ stripe.session = "open"
    /\ Change([stripe EXCEPT !.session = "expired",
                             !.pay[1] = IF @ = "none" THEN @ ELSE "canceled"],
              {<<"checkout.session.expired", 1, 0>>, <<"payment_intent", 1, 0>>})

SessionPaid ==
    /\ stripe.session = "open"
    /\ Change([stripe EXCEPT !.session = "complete", !.pay[1] = "succeeded",
                             !.sub = IF stripe.recurring THEN "active" ELSE ""],
              {<<"checkout.session.completed", 1, 0>>, <<"payment_intent", 1, 0>>})

\* The rest of a charge is refunded, or a part of it.
Refunded ==
    \E c \in PaymentId : \E total \in (stripe.refunded[c] + 1)..Amount :
        /\ stripe.pay[c] = "succeeded"
        /\ Change([stripe EXCEPT !.refunded[c] = total],
                  {<<"charge", c, 0>>, <<"refund", c, total - stripe.refunded[c]>>})

\* The bank returns a refund.
RefundFails ==
    \E c \in PaymentId :
        /\ stripe.refunded[c] > 0
        /\ Change([stripe EXCEPT !.refunded[c] = 0], {<<"charge", c, 0>>})

CancelAtPeriodEnd ==
    /\ stripe.sub = "active"
    /\ Change([stripe EXCEPT !.atEnd = ~@], {<<"subscription", 1, 0>>})

RenewalDeclined ==
    /\ stripe.sub = "active" /\ stripe.pay[2] = "none"
    /\ Change([stripe EXCEPT !.sub = "past_due", !.pay[2] = "failed"],
              {<<"invoice", 2, 0>>, <<"subscription", 2, 0>>, <<"payment_intent", 2, 0>>})

\* A renewal that succeeds has a row of its own; this row sees the subscription.
RenewalPaid ==
    /\ stripe.sub \in {"active", "past_due"} /\ stripe.pay[2] \in {"none", "failed"}
    /\ Change([stripe EXCEPT !.sub = "active", !.pay[2] = "succeeded"],
              {<<"subscription", 2, 0>>, <<"payment_intent", 2, 0>>})

RenewalAbandoned ==
    /\ stripe.sub = "past_due"
    /\ Change([stripe EXCEPT !.sub = "unpaid", !.pay[2] = "canceled"],
              {<<"invoice", 2, 0>>, <<"subscription", 2, 0>>, <<"payment_intent", 2, 0>>})

SubscriptionEnds ==
    /\ stripe.sub \in {"active", "past_due", "unpaid"}
    /\ Change([stripe EXCEPT !.sub = "canceled"], {<<"subscription", 1, 0>>})

StripeChange ==
    \/ CardDeclined \/ SessionExpires \/ SessionPaid \/ Refunded \/ RefundFails
    \/ CancelAtPeriodEnd \/ RenewalDeclined \/ RenewalPaid \/ RenewalAbandoned
    \/ SubscriptionEnds

-----------------------------------------------------------------------------
(* Starting work.                                                          *)

Free(g) ==
    /\ worker[g].pc = "idle"
    /\ limit.overlap \/ \A h \in Workers : worker[h].pc = "idle"

Begin(g, rec) ==
    /\ Free(g)
    /\ started.tasks < limit.tasks
    /\ started' = [started EXCEPT !.tasks = @ + 1]
    /\ worker' = [worker EXCEPT ![g] = rec]

Task(pc, snap, of, amount) ==
    [Idle EXCEPT !.pc = pc, !.snap = snap, !.of = of, !.amount = amount]

\* Which handler an event starts, and whether setPaymentsByStripeIDs finds this row.
Handles(e, pc) ==
    \/ e.type = "checkout.session.completed" /\ pc = "completed"
    \/ e.type = "checkout.session.expired" /\ pc = "expired"
    \/ e.type = "invoice" /\ pc = "invoice" /\ row.hasSub
    \/ e.type = "subscription" /\ pc = "subscription" /\ row.hasSub
    \/ e.type = "payment_intent" /\ pc = "intent" /\ row.intent = e.of
    \/ e.type = "charge" /\ pc = "charge" /\ row.intent = e.of
    \/ e.type = "refund" /\ pc = "refund" /\ row.intent = e.of

Deliver(g) ==
    \E e \in events : \E pc \in Write :
        /\ Handles(e, pc)
        /\ Begin(g, Task(pc, e.snap, e.of, e.amount))
        /\ UNCHANGED <<stripe, was, changes, events, row, mail, limit>>

\* handleStripeRefundUpdated first asks Stripe for the charge as it is now.
DeliverRefundAsCharge(g) ==
    \E e \in events :
        /\ e.type = "refund" /\ row.intent = e.of
        /\ Begin(g, Task("charge", stripe, e.of, 0))
        /\ UNCHANGED <<stripe, was, changes, events, row, mail, limit>>

\* Both cancellation endpoints write what Stripe answered, like an event: canceled
\* now, at the end of the period, or (leaving the period's end alone) at a date.
ApplyCancellation(g) ==
    \E w \in {[stripe EXCEPT !.sub = "canceled"], [stripe EXCEPT !.atEnd = TRUE],
              [stripe EXCEPT !.atEnd = FALSE]} :
        /\ row.hasSub /\ row.sub # "canceled" /\ row.status # "subscription_canceled"
        /\ stripe.sub \in {"active", "past_due", "unpaid"}
        /\ Begin(g, Task("subscription", w, 1, 0))
        /\ changes' = IF w = stripe THEN changes ELSE changes + 1
        /\ changes' <= limit.changes
        /\ Becomes(w, IF w = stripe THEN {} ELSE {<<"subscription", 1, 0>>})
        /\ UNCHANGED <<row, mail, limit>>

Reconcile(g) ==
    /\ Free(g)
    /\ started.tasks < limit.tasks /\ started.reconciles < limit.reconciles
    /\ started' = [tasks |-> started.tasks + 1, reconciles |-> started.reconciles + 1]
    /\ worker' = [worker EXCEPT ![g] =
           [Task("recSession", stripe, 0, 0) EXCEPT !.task = "listed", !.loaded = {"session"}]]
    /\ UNCHANGED <<stripe, was, changes, events, row, mail, limit>>

EmailGoroutine(g) ==
    /\ mail > 0
    /\ mail' = mail - 1
    /\ \E pc \in {"sent", "failed"} : Begin(g, [Idle EXCEPT !.pc = pc])
    /\ UNCHANGED <<stripe, was, changes, events, row, limit>>

\* Housekeeping finds the purchased invite expired; the admin resends it.
PreserveExpiredInvite(g) ==
    /\ CanRecoverInvite(row)
    /\ \E pc \in {"preserve", "pending"} : Begin(g, [Idle EXCEPT !.pc = pc])
    /\ UNCHANGED <<stripe, was, changes, events, row, mail, limit>>

-----------------------------------------------------------------------------
(* setPayment: read, then mutate and write.                                *)

StoredState_InvoiceLast(k, p) ==
    LET has(o) == o \in k.loaded
        a == IF has("session") THEN ApplySession(SessionOf(k.snap), p) ELSE p
        b == IF has("sub") THEN ApplySubscription(SubOf(k.snap), a) ELSE a
        c == IF k.inv # 0 THEN ApplyInvoice(InvoiceOf(k.snap, k.inv), b) ELSE b
        d == IF k.of # 0 /\ has("intent") THEN ApplyIntent(IntentOf(k.snap, k.of), c) ELSE c
    IN  IF k.of # 0 /\ has("charge") THEN ApplyCharge(ChargeOf(k.snap, k.of), d) ELSE d

StoredState(k, p) ==
    LET has(o) == o \in k.loaded
        a == IF has("session") THEN ApplySession(SessionOf(k.snap), p) ELSE p
        b == IF k.inv # 0 THEN ApplyInvoice(InvoiceOf(k.snap, k.inv), a) ELSE a
        c == IF has("sub") THEN ApplySubscription(SubOf(k.snap), b) ELSE b
        d == IF k.of # 0 /\ has("intent") THEN ApplyIntent(IntentOf(k.snap, k.of), c) ELSE c
    IN  IF k.of # 0 /\ has("charge") THEN ApplyCharge(ChargeOf(k.snap, k.of), d) ELSE d

NeedsReview(p) == [p EXCEPT !.status = "needs_review"]

\* linked: some invite or Jellyfin user can still be found for the payment.
Mutate(k, p, linked) ==
    CASE k.pc = "completed" ->
           [ApplySession(SessionEvent(k.snap), p) EXCEPT !.status = "paid", !.paid = TRUE]
      [] k.pc = "expired" -> SetLifecycle(ApplySession(SessionEvent(k.snap), p), "checkout_expired")
      [] k.pc = "invoice" -> ApplyInvoice(InvoiceOf(k.snap, k.of), p)
      [] k.pc = "intent" -> ApplyIntent(IntentEvent(k.snap, k.of), p)
      [] k.pc = "charge" -> ApplyCharge(ChargeOf(k.snap, k.of), p)
      [] k.pc = "refund" -> ApplyRefund(k.of, k.amount, p)
      [] k.pc = "subscription" -> ApplySubscription(SubOf(k.snap), p)
      [] k.pc = "recSession" ->
           LET q == ApplySession(SessionOf(k.snap), p)
           IN  IF ~linked /\ k.snap.session = "complete" THEN NeedsReview(q) ELSE q
      [] k.pc = "recStored" ->
           LET q == StoredState(k, p)
           IN  IF ~linked /\ q.paid /\ q.status \notin LifecycleStatus THEN NeedsReview(q) ELSE q
      [] k.pc = "preserve" -> IF p.status \notin LifecycleStatus THEN NeedsReview(p) ELSE p
      [] k.pc = "fulfilled" -> MarkFulfilled(p)
      [] k.pc \in {"pending", "disabled", "not_applicable", "sent", "failed"} -> MarkEmail(k.pc, p)
      [] k.pc \in {"plan", "relink"} -> p

\* Where the handler goes once the write is done.  A grant is followed by an
\* email, by a mark that there is none, or (a duplicate) by nothing.
Return(k) == IF k.task = "listed" THEN {"load"} ELSE {"idle"}

Continue(k) ==
    CASE k.pc = "completed" -> {"plan"}
      [] k.pc = "plan" -> {"fulfilled"}
      [] k.pc = "relink" -> {"pending", "disabled"}
      [] k.pc = "fulfilled" -> {"pending", "disabled", "failed"} \cup Return(k)
           \cup (IF k.task = "webhook" THEN {} ELSE {"not_applicable"})
      [] k.pc \in {"pending", "disabled", "not_applicable", "sent", "failed"} -> Return(k)
      [] k.pc \in {"recSession", "recStored"} -> {"recover"}
      [] OTHER -> {"idle"}

ReadRow(g) ==
    /\ worker[g].pc \in Write /\ ~worker[g].holds
    /\ worker' = [worker EXCEPT ![g].holds = TRUE, ![g].seen = row]
    /\ UNCHANGED <<stripe, was, changes, events, row, started, mail, limit>>

\* What a task needs after a step: Recover still looks at the session it listed,
\* the marks of a fulfilment look at nothing but the row.
Moved(k, pc) ==
    CASE pc = "idle"    -> Idle
      [] pc = "recover" -> [k EXCEPT !.pc = pc, !.holds = FALSE, !.seen = NewRow]
      [] OTHER          -> [Idle EXCEPT !.pc = pc, !.task = k.task]

WriteRow(g) ==
    LET k == worker[g]
    IN  /\ k.pc \in Write /\ k.holds
        /\ k.pc = "pending" => mail < limit.mail
        /\ \E linked \in BOOLEAN : row' = Mutate(k, k.seen, linked)
        /\ \E pc \in Continue(k) : worker' = [worker EXCEPT ![g] = Moved(k, pc)]
        /\ mail' = IF k.pc = "pending" THEN mail + 1 ELSE mail
        /\ UNCHANGED <<stripe, was, changes, events, started, limit>>

-----------------------------------------------------------------------------
(* The reconciliation between its two writes.                              *)

\* fulfillRecoveredStripeCheckout: grant if nothing was granted yet; else, unless
\* the row has a lifecycle status, it may repair a stale link or confirm again.
Recover(g) ==
    LET k == worker[g]
        paid == "session" \in k.loaded /\ k.snap.session = "complete"
        next == CASE ~paid -> Return(k)
                  [] paid /\ ~row.fulfilled -> {"plan"}
                  [] OTHER -> Return(k) \cup (IF row.status \in LifecycleStatus THEN {}
                                              ELSE {"relink", "pending", "disabled", "failed"})
    IN  /\ k.pc = "recover"
        /\ \E pc \in next : worker' = [worker EXCEPT ![g] = Moved(k, pc)]
        /\ UNCHANGED <<stripe, was, changes, events, row, started, mail, limit>>

\* stripePaymentState.load: each object is fetched by the id the row or an
\* object fetched before gives, and any of the fetches may fail.
LatestInvoice(w) == IF w.pay[2] # "none" THEN 2 ELSE 1

Existing(w) == IF w.recurring THEN Object ELSE Object \ {"invoice", "sub"}

InvoiceToLoad(got, w) ==
    LET i == IF row.invoice # 0 THEN row.invoice
             ELSE IF "session" \in got THEN InvoiceOf(w, 1).id ELSE 0
    IN  CASE i # 0 /\ "invoice" \in got -> i
          [] (i = 0 \/ "invoice" \notin got) /\ "sub" \in got /\ w.sub # "" -> LatestInvoice(w)
          [] OTHER -> 0

Load(g) ==
    \E got \in SUBSET Existing(stripe) :
        LET k == worker[g]
            i == InvoiceToLoad(got, stripe)
            c == CASE row.intent # 0 -> row.intent
                   [] row.intent = 0 /\ ~stripe.recurring /\ "session" \in got -> 1
                   [] OTHER -> i
        IN  /\ k.pc = "load"
            /\ Cardinality(Existing(stripe) \ got) <= limit.failed
            /\ "sub" \in got => row.hasSub \/ "session" \in got \/ "invoice" \in got
            /\ worker' = [worker EXCEPT ![g] = [Moved(k, "recStored") EXCEPT
                              !.task = "stored", !.snap = stripe, !.loaded = got,
                              !.inv = i, !.of = c]]
            /\ UNCHANGED <<stripe, was, changes, events, row, started, mail, limit>>

-----------------------------------------------------------------------------
Next ==
    \/ StripeChange
    \/ \E g \in Workers :
         \/ Deliver(g) \/ DeliverRefundAsCharge(g) \/ ApplyCancellation(g)
         \/ Reconcile(g) \/ EmailGoroutine(g) \/ PreserveExpiredInvite(g)
         \/ ReadRow(g) \/ WriteRow(g) \/ Recover(g) \/ Load(g)

Spec == Init /\ [][Next]_vars

-----------------------------------------------------------------------------
(* Properties.                                                             *)

\* The fact that justifies a status.
Evidence(s) ==
    CASE s \in LifecycleStatus \cup {"failed"} -> {s}
      [] s \in {"paid", "fulfilled", "email_sent", "email_failed", "needs_review"} -> {"paid"}
      [] OTHER -> {}

Grounded(p) ==
    /\ Evidence(p.status) \subseteq was
    /\ p.paid => "paid" \in was
    /\ p.fulfilled => p.paid \/ "paid" \in was
    /\ p.refunded = Amount => "refunded" \in was
    /\ p.refunded \in 1..(Amount - 1) => "partially_refunded" \in was

\* However late, often or out of order Stripe's events arrive, and however the
\* unlocked read-modify-writes of setPayment overlap, the stored payment never
\* claims what has not been true at Stripe at some time: no status (refunded,
\* canceled, lapsed, past due, paid, ...), payment date or refunded amount is an
\* artefact of merging stale snapshots into stale rows.
NoFabricatedStatus == Grounded(row)

\* What a row should say about Stripe's objects w.
Agrees(p, w) ==
    /\ p.intent # 0 /\ w.pay[p.intent] = "succeeded" => p.refunded = w.refunded[p.intent]
    /\ p.intent # 0 /\ w.pay[p.intent] = "succeeded" /\ w.refunded[p.intent] = Amount
          => p.status = "refunded"
    /\ w.sub # "" => p.hasSub /\ p.sub = w.sub /\ p.atEnd = w.atEnd
    /\ w.sub = "past_due" => p.status \in RefundStatus \cup {"subscription_past_due"}
    /\ w.sub = "unpaid" => p.status \in {"refunded", "subscription_lapsed"}
    /\ w.sub = "canceled" => p.status \in {"refunded", "subscription_canceled"}
    /\ w.sub = "active" /\ w.atEnd => p.status \in RefundStatus \cup {"subscription_canceling"}
    /\ w.sub = "active" /\ ~w.atEnd => p.status \in RefundStatus \cup (Status \ LifecycleStatus)

\* A reconciliation that fetched everything repairs the row: when nobody wrote the
\* row and nothing changed at Stripe meanwhile, the row it stores agrees with
\* Stripe, whatever lost, late or overwritten updates it started from.
ReconcileRepairs ==
    [][\A g \in Workers :
         /\ worker[g].pc = "recStored" /\ worker[g].holds /\ ~worker'[g].holds
         /\ worker[g].loaded = Existing(stripe) /\ worker[g].seen = row /\ worker[g].snap = stripe
         => Agrees(row', stripe)]_vars

\* Only three things take a fully refunded payment out of "refunded": a worker that
\* read the row before the refund was stored, a checkout.session.completed event
\* (handleStripeCheckoutCompleted overwrites the status), and the first pass of the
\* reconciliation flagging it for review.  No other event, in any order, does.
RefundUndoneOnlyBy ==
    [][row.status = "refunded" /\ row'.status # "refunded" =>
         \E g \in Workers :
            /\ worker[g].holds /\ worker'[g] # worker[g]
            /\ \/ worker[g].seen.status # "refunded"
               \/ worker[g].pc \in {"completed", "recSession"}]_vars

\* What TestStripeRefundOverridesEmailFailure (stripe_test.go) says of one update:
\* a refund is not hidden by the failure of an email.
RefundOverridesEmailFailure ==
    [][row.status = "refunded" => row'.status # "email_failed"]_vars

=============================================================================
