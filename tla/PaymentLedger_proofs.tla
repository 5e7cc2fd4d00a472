------------------------- MODULE PaymentLedger_proofs -------------------------
(***************************************************************************)
(* Proofs about PaymentLedger, for any number of workers, any price and    *)
(* any bounds: the row and all that is read of it have their types, the    *)
(* row claims only what has been true at Stripe, a full refund is undone   *)
(* in three ways only, and a complete reconciliation repairs the row.      *)
(***************************************************************************)
EXTENDS PaymentLedger, TLAPS

-----------------------------------------------------------------------------
(* The inductive invariant.                                                *)

\* A status, or an amount refunded, that Stripe's facts justify.
PaidStatus == {"paid", "fulfilled", "email_sent", "email_failed", "needs_review"}

Claimed(F, s) ==
    /\ s \in LifecycleStatus \cup {"failed"} => s \in F
    /\ s \in PaidStatus => "paid" \in F

RefundClaimed(F, n) ==
    /\ n = Amount => "refunded" \in F
    /\ n \in 1..(Amount - 1) => "partially_refunded" \in F

\* A row, stored or in the hands of a worker, with nothing made up.
RowOK(F, p) ==
    /\ p \in Row
    /\ Claimed(F, p.status)
    /\ p.paid \/ p.fulfilled => "paid" \in F
    /\ RefundClaimed(F, p.refunded)

\* What one view of Stripe's objects shows has been noted.
SnapOK(F, w) == w \in World /\ FactsOf(w) \subseteq F

\* Stripe's objects change in order: a subscription and its renewal come after the
\* session is paid.
InOrder(w) ==
    /\ w \in World
    /\ w.sub # "" \/ w.pay[2] # "none" => w.session = "complete"
    /\ w.recurring => w.pay[1] # "failed"

StripeOK ==
    /\ SnapOK(was, stripe) /\ InOrder(stripe)
    /\ was \subseteq Fact
    /\ \A f \in {"subscription_past_due", "subscription_canceling"} : f \in was => "paid" \in was

EventOK(F, e) ==
    /\ e \in Event /\ SnapOK(F, e.snap)
    /\ e.type = "checkout.session.completed" => e.snap.session = "complete"
    /\ e.type = "checkout.session.expired" => e.snap.session = "expired"
    /\ e.type = "refund" => e.amount # 0 /\ RefundClaimed(F, e.amount)

\* Steps taken only for a payment that was received.
PaidStep == {"completed", "plan", "fulfilled", "pending", "disabled", "not_applicable", "sent",
             "failed", "preserve", "relink"}

WorkerOK(F, k) ==
    /\ k \in Worker /\ SnapOK(F, k.snap)
    /\ k.holds => RowOK(F, k.seen)
    /\ k.pc \in PaidStep => "paid" \in F
    /\ k.pc = "completed" => k.snap.session = "complete"
    /\ k.pc = "expired" => k.snap.session = "expired"
    /\ k.pc = "refund" => k.amount # 0 /\ RefundClaimed(F, k.amount)
    /\ k.pc \in {"invoice", "intent", "charge", "refund", "subscription"} => k.of \in PaymentId

CountsOK ==
    /\ limit \in Limits /\ changes \in 0..limit.changes
    /\ started \in [tasks : 0..limit.tasks, reconciles : 0..limit.reconciles]
    /\ mail \in 0..limit.mail /\ (mail > 0 => "paid" \in was)

IInv ==
    /\ StripeOK /\ CountsOK /\ RowOK(was, row)
    /\ \A e \in events : EventOK(was, e)
    /\ worker \in [Workers -> Worker] /\ \A g \in Workers : WorkerOK(was, worker[g])

-----------------------------------------------------------------------------
(* Lemmas about PaymentRecord: what the functions do to a row, with nothing *)
(* said of the facts that justify it.                                       *)

\* A price is not nothing.
LEMMA AmountSays == Amount \in Nat /\ Amount # 0 /\ 0 \in 0..Amount /\ Amount - 1 \in Nat
  BY AmountAssumption

\* A lifecycle status is taken or not, and nothing else changes (payments.go,
\* setPaymentLifecycleStatus).
LEMMA SetLifecycleSays ==
    ASSUME NEW p, NEW s
    PROVE SetLifecycle(p, s) \in {p, [p EXCEPT !.status = s]}
  BY DEF SetLifecycle

\* RaiseTo writes the status alone, and only over one of the listed statuses.
LEMMA RaiseToSays ==
    ASSUME NEW p, NEW s, NEW from
    PROVE RaiseTo(p, s, from) \in {p, [p EXCEPT !.status = s]}
  BY DEF RaiseTo

\* A status that is claimed may be stored.
LEMMA StatusOK ==
    ASSUME NEW F, NEW p, RowOK(F, p), NEW s \in Status, Claimed(F, s)
    PROVE RowOK(F, [p EXCEPT !.status = s])
  BY DEF RowOK, Row

\* A lifecycle status, raised or refused, is one that F holds.
LEMMA LifecycleOK ==
    ASSUME NEW F, NEW p, RowOK(F, p), NEW s \in LifecycleStatus \cup {"failed"}, s \in F
    PROVE RowOK(F, SetLifecycle(p, s))
<1>1. s \in Status /\ Claimed(F, s)
  BY DEF Status, LifecycleStatus, RefundStatus, Claimed, PaidStatus
<1>2. QED
  BY <1>1, StatusOK, SetLifecycleSays

\* "paid" is claimed of what F says was paid.
LEMMA RaiseToPaidOK ==
    ASSUME NEW F, NEW p, RowOK(F, p), NEW from, "paid" \in F
    PROVE RowOK(F, RaiseTo(p, "paid", from))
<1>1. "paid" \in Status /\ Claimed(F, "paid")
  BY DEF Status, LifecycleStatus, RefundStatus, Claimed
<1>2. QED
  BY <1>1, StatusOK, RaiseToSays

\* Fields that no fact has to justify.
LEMMA FieldsOK ==
    ASSUME NEW F, NEW p, RowOK(F, p)
    PROVE /\ \A i \in {0} \cup PaymentId : /\ RowOK(F, [p EXCEPT !.intent = i])
                                           /\ \A b \in BOOLEAN : RowOK(F, [p EXCEPT !.invoice = i, !.hasSub = b])
          /\ \A i \in {0} \cup PaymentId, n \in 0..Amount :
                RefundClaimed(F, n) => RowOK(F, [p EXCEPT !.intent = i, !.refunded = n])
          /\ \A s \in SubStatus, b \in BOOLEAN :
                RowOK(F, [p EXCEPT !.hasSub = TRUE, !.sub = s, !.atEnd = b])
          /\ "paid" \in F => RowOK(F, [p EXCEPT !.paid = TRUE])
          /\ \A e \in EmailStatus : RowOK(F, [p EXCEPT !.email = e])
<1>1. ASSUME NEW i \in {0} \cup PaymentId PROVE RowOK(F, [p EXCEPT !.intent = i])
  BY DEF RowOK, Row
<1>2. ASSUME NEW i \in {0} \cup PaymentId, NEW b \in BOOLEAN
      PROVE RowOK(F, [p EXCEPT !.invoice = i, !.hasSub = b])
  BY DEF RowOK, Row
<1>3. ASSUME NEW i \in {0} \cup PaymentId, NEW n \in 0..Amount, RefundClaimed(F, n)
      PROVE RowOK(F, [p EXCEPT !.intent = i, !.refunded = n])
  BY <1>3 DEF RowOK, Row
<1>4. ASSUME NEW s \in SubStatus, NEW b \in BOOLEAN
      PROVE RowOK(F, [p EXCEPT !.hasSub = TRUE, !.sub = s, !.atEnd = b])
  BY DEF RowOK, Row
<1>5. "paid" \in F => RowOK(F, [p EXCEPT !.paid = TRUE])
  BY DEF RowOK, Row
<1>6. ASSUME NEW e \in EmailStatus PROVE RowOK(F, [p EXCEPT !.email = e])
  BY DEF RowOK, Row
<1>7. QED
  BY <1>1, <1>2, <1>3, <1>4, <1>5, <1>6

\* applyStripeChargeToPayment
LEMMA ChargeOK ==
    ASSUME NEW F, NEW p, RowOK(F, p), NEW c \in Charge, RefundClaimed(F, c.refunded),
           c.status = "failed" => "failed" \in F
    PROVE RowOK(F, ApplyCharge(c, p))
<1> DEFINE q == [p EXCEPT !.intent = c.id, !.refunded = c.refunded]
           r == IF c.refunded = 0 THEN q
                ELSE SetLifecycle(q, IF c.refunded >= Amount
                                     THEN "refunded" ELSE "partially_refunded")
<1>1. RowOK(F, q)
  BY FieldsOK DEF Charge
<1>2. /\ c.refunded \in 0..Amount
      /\ c.refunded # 0 /\ c.refunded >= Amount => "refunded" \in F
      /\ c.refunded # 0 /\ ~(c.refunded >= Amount) => "partially_refunded" \in F
  <2>1. c.refunded \in 0..Amount
    BY DEF Charge
  <2>2. QED
    BY <2>1, AmountAssumption DEF RefundClaimed
<1>3. {"refunded", "partially_refunded"} \subseteq LifecycleStatus \cup {"failed"}
  BY DEF LifecycleStatus, RefundStatus
<1> HIDE DEF q
<1>4. RowOK(F, r)
  BY <1>1, <1>2, <1>3, LifecycleOK
<1> HIDE DEF r
<1>5. c.status = "failed" => RowOK(F, SetLifecycle(r, "failed"))
  BY <1>4, LifecycleOK
<1>6. ApplyCharge(c, p) = IF c.id = 0 THEN p
                          ELSE IF c.status = "failed" THEN SetLifecycle(r, "failed") ELSE r
  BY DEF ApplyCharge, r, q
<1>7. QED
  BY <1>4, <1>5, <1>6

\* applyStripePaymentIntentToPayment
LEMMA IntentOK ==
    ASSUME NEW F, NEW p, RowOK(F, p), NEW pi \in Intent, RefundClaimed(F, pi.charge.refunded),
           pi.charge.status = "failed" => "failed" \in F,
           pi.status = "succeeded" => "paid" \in F,
           pi.status = "canceled" => "payment_canceled" \in F,
           pi.status = "requires_payment_method" => "failed" \in F
    PROVE RowOK(F, ApplyIntent(pi, p))
<1> DEFINE q == ApplyCharge(pi.charge, [p EXCEPT !.intent = pi.id])
<1>1. RowOK(F, [p EXCEPT !.intent = pi.id]) /\ pi.charge \in Charge
  BY FieldsOK DEF Intent
<1>2. RowOK(F, q)
  BY <1>1, ChargeOK
<1>3. "payment_canceled" \in LifecycleStatus
  BY DEF LifecycleStatus
<1> HIDE DEF q
<1>4. pi.status = "succeeded" =>
        RowOK(F, RaiseTo([q EXCEPT !.paid = TRUE], "paid",
                      {"", "checkout_created", "payment_canceled", "failed"}))
  BY <1>2, FieldsOK, RaiseToPaidOK
<1>5. pi.status = "canceled" => RowOK(F, SetLifecycle(q, "payment_canceled"))
  BY <1>2, <1>3, LifecycleOK
<1>6. pi.status = "requires_payment_method" => RowOK(F, SetLifecycle(q, "failed"))
  BY <1>2, LifecycleOK
<1>7. \/ ApplyIntent(pi, p) = p
      \/ ApplyIntent(pi, p) = q
      \/ pi.status = "succeeded"
         /\ ApplyIntent(pi, p) = RaiseTo([q EXCEPT !.paid = TRUE], "paid",
                                         {"", "checkout_created", "payment_canceled", "failed"})
      \/ pi.status = "canceled" /\ ApplyIntent(pi, p) = SetLifecycle(q, "payment_canceled")
      \/ pi.status = "requires_payment_method" /\ ApplyIntent(pi, p) = SetLifecycle(q, "failed")
  BY DEF ApplyIntent, q
<1>8. QED
  BY <1>2, <1>4, <1>5, <1>6, <1>7

\* applyStripeInvoiceToPayment
LEMMA InvoiceOK ==
    ASSUME NEW F, NEW p, RowOK(F, p), NEW inv \in Invoice,
           inv.status = "paid" => "paid" \in F,
           inv.status = "open" => "subscription_past_due" \in F,
           inv.status = "void" => "subscription_lapsed" \in F
    PROVE RowOK(F, ApplyInvoice(inv, p))
<1> DEFINE q == [p EXCEPT !.invoice = inv.id, !.hasSub = @ \/ inv.status # ""]
           from == {"", "checkout_created", "failed", "subscription_past_due", "subscription_lapsed"}
<1>1. RowOK(F, q)
  <2>1. inv.id \in {0} \cup PaymentId /\ (p.hasSub \/ inv.status # "") \in BOOLEAN
    BY DEF Invoice, RowOK, Row
  <2>2. QED
    BY <2>1, FieldsOK
<1>2. {"subscription_past_due", "subscription_lapsed"} \subseteq LifecycleStatus
  BY DEF LifecycleStatus
<1> HIDE DEF q
<1>3. inv.status = "paid" => RowOK(F, RaiseTo([q EXCEPT !.paid = TRUE], "paid", from))
  BY <1>1, FieldsOK, RaiseToPaidOK
<1>4. inv.status = "open" => RowOK(F, SetLifecycle(q, "subscription_past_due"))
  BY <1>1, <1>2, LifecycleOK
<1>5. inv.status = "void" => RowOK(F, SetLifecycle(q, "subscription_lapsed"))
  BY <1>1, <1>2, LifecycleOK
<1>6. \/ ApplyInvoice(inv, p) = p
      \/ ApplyInvoice(inv, p) = q
      \/ inv.status = "paid" /\ ApplyInvoice(inv, p) = RaiseTo([q EXCEPT !.paid = TRUE], "paid", from)
      \/ inv.status = "open" /\ ApplyInvoice(inv, p) = SetLifecycle(q, "subscription_past_due")
      \/ inv.status = "void" /\ ApplyInvoice(inv, p) = SetLifecycle(q, "subscription_lapsed")
  BY DEF ApplyInvoice, q
<1>7. QED
  BY <1>1, <1>3, <1>4, <1>5, <1>6

\* restoredPaymentStatus: what a row that leaves a lifecycle status says F true.
LEMMA RestoredOK ==
    ASSUME NEW F, NEW p, RowOK(F, p)
    PROVE RestoredStatus(p) \in Status /\ Claimed(F, RestoredStatus(p))
  BY DEF RestoredStatus, RowOK, Row, Status, LifecycleStatus, RefundStatus, Claimed, PaidStatus

\* clearPaymentLifecycleStatus
LEMMA ClearLifecycleOK ==
    ASSUME NEW F, NEW p, RowOK(F, p)
    PROVE RowOK(F, ClearLifecycle(p))
  BY RestoredOK, StatusOK DEF ClearLifecycle

\* applyStripeSubscriptionToPayment
LEMMA SubscriptionOK ==
    ASSUME NEW F, NEW p, RowOK(F, p), NEW s \in Subscription,
           s.status = "canceled" => "subscription_canceled" \in F,
           s.status = "unpaid" => "subscription_lapsed" \in F,
           s.status = "past_due" => "subscription_past_due" \in F,
           s.status = "active" /\ s.atEnd => "subscription_canceling" \in F
    PROVE RowOK(F, ApplySubscription(s, p))
<1> DEFINE q == [p EXCEPT !.hasSub = TRUE, !.sub = s.status, !.atEnd = s.atEnd]
<1>1. RowOK(F, q)
  BY FieldsOK DEF Subscription
<1>2. {"subscription_canceled", "subscription_lapsed", "subscription_past_due",
       "subscription_canceling"} \subseteq LifecycleStatus
  BY DEF LifecycleStatus
<1> HIDE DEF q
<1>3. \A l \in LifecycleStatus : l \in F => RowOK(F, SetLifecycle(q, l))
  BY <1>1, LifecycleOK
<1>4. RowOK(F, ClearLifecycle(q))
  BY <1>1, ClearLifecycleOK
<1>5. \/ ApplySubscription(s, p) \in {p, q, ClearLifecycle(q)}
      \/ s.status = "canceled" /\ ApplySubscription(s, p) = SetLifecycle(q, "subscription_canceled")
      \/ s.status = "unpaid" /\ ApplySubscription(s, p) = SetLifecycle(q, "subscription_lapsed")
      \/ s.status = "past_due" /\ ApplySubscription(s, p) = SetLifecycle(q, "subscription_past_due")
      \/ s.status = "active" /\ s.atEnd
         /\ ApplySubscription(s, p) = SetLifecycle(q, "subscription_canceling")
  BY DEF ApplySubscription, q
<1>6. QED
  BY <1>1, <1>2, <1>3, <1>4, <1>5

\* applyStripeCheckoutSessionToPayment
LEMMA SessionOK ==
    ASSUME NEW F, NEW p, RowOK(F, p), NEW s \in Session,
           RefundClaimed(F, s.intent.charge.refunded),
           s.intent.charge.status = "failed" => "failed" \in F,
           s.intent.status = "succeeded" => "paid" \in F,
           s.intent.status = "canceled" => "payment_canceled" \in F,
           s.intent.status = "requires_payment_method" => "failed" \in F,
           s.invoice.status = "paid" => "paid" \in F,
           s.invoice.status = "open" => "subscription_past_due" \in F,
           s.invoice.status = "void" => "subscription_lapsed" \in F,
           s.sub.status = "canceled" => "subscription_canceled" \in F,
           s.sub.status = "unpaid" => "subscription_lapsed" \in F,
           s.sub.status = "past_due" => "subscription_past_due" \in F,
           s.sub.status = "active" /\ s.sub.atEnd => "subscription_canceling" \in F,
           s.status = "expired" => "checkout_expired" \in F,
           s.status = "complete" => "paid" \in F
    PROVE RowOK(F, ApplySession(s, p))
<1> DEFINE a == ApplyInvoice(s.invoice, p)
           b == ApplySubscription(s.sub, a)
           q == ApplyIntent(s.intent, b)
           r == [q EXCEPT !.paid = @ \/ s.status = "complete",
                          !.email = IF @ = "" THEN "not_started" ELSE @]
<1>1. s.invoice \in Invoice /\ s.sub \in Subscription /\ s.intent \in Intent
  BY DEF Session
<1>2. RowOK(F, a)
  BY <1>1, InvoiceOK
<1> HIDE DEF a
<1>3. RowOK(F, b)
  BY <1>1, <1>2, SubscriptionOK
<1> HIDE DEF b
<1>4. RowOK(F, q)
  BY <1>1, <1>3, IntentOK
<1> HIDE DEF q
<1>5. RowOK(F, r)
  BY <1>4 DEF RowOK, Row, EmailStatus
<1> HIDE DEF r
<1>6. /\ "checkout_expired" \in LifecycleStatus
      /\ "checkout_created" \in Status /\ Claimed(F, "checkout_created")
  BY DEF LifecycleStatus, RefundStatus, Status, Claimed, PaidStatus
<1>7. s.status = "expired" => RowOK(F, SetLifecycle(r, "checkout_expired"))
  BY <1>5, <1>6, LifecycleOK
<1>8. s.status = "complete" => RowOK(F, RaiseTo(r, "paid", {"", "checkout_created", "checkout_expired"}))
  BY <1>5, RaiseToPaidOK
<1>9. RowOK(F, RaiseTo(r, "checkout_created", {""}))
  <2>1. RowOK(F, [r EXCEPT !.status = "checkout_created"])
    BY <1>5, <1>6, StatusOK
  <2>2. QED
    BY <1>5, <2>1, RaiseToSays
<1>10. \/ s.status = "expired" /\ ApplySession(s, p) = SetLifecycle(r, "checkout_expired")
       \/ s.status = "complete"
          /\ ApplySession(s, p) = RaiseTo(r, "paid", {"", "checkout_created", "checkout_expired"})
       \/ ApplySession(s, p) = RaiseTo(r, "checkout_created", {""})
  BY DEF ApplySession, Session, a, b, q, r
<1>11. QED
  BY <1>7, <1>8, <1>9, <1>10

\* applyStripeRefundToPayment: the most that is known is a total that F refunded.
LEMMA RefundOK ==
    ASSUME NEW F, NEW p, RowOK(F, p), NEW id \in PaymentId, NEW n \in 0..Amount, n # 0, RefundClaimed(F, n)
    PROVE RowOK(F, ApplyRefund(id, n, p))
<1> DEFINE most == IF n > p.refunded THEN n ELSE p.refunded
           q == [p EXCEPT !.intent = id, !.refunded = most]
<1>1. p.refunded \in 0..Amount /\ RefundClaimed(F, p.refunded)
  BY DEF RowOK, Row
<1>2. most \in 0..Amount /\ most # 0 /\ RefundClaimed(F, most)
  BY <1>1, AmountAssumption
<1>3. RowOK(F, q)
  BY <1>2, FieldsOK
<1>4. /\ most >= Amount => "refunded" \in F
      /\ ~(most >= Amount) => "partially_refunded" \in F
  BY <1>2, AmountAssumption DEF RefundClaimed
<1>5. {"refunded", "partially_refunded"} \subseteq LifecycleStatus
  BY DEF LifecycleStatus, RefundStatus
<1> HIDE DEF most, q
<1>6. RowOK(F, SetLifecycle(q, IF most >= Amount THEN "refunded" ELSE "partially_refunded"))
  BY <1>3, <1>4, <1>5, LifecycleOK
<1>7. QED
  BY <1>6 DEF ApplyRefund, most, q

\* markPaymentFulfilled
LEMMA MarkFulfilledOK ==
    ASSUME NEW F, NEW p, RowOK(F, p), "paid" \in F
    PROVE RowOK(F, MarkFulfilled(p))
<1> DEFINE q == [p EXCEPT !.fulfilled = TRUE, !.email = IF @ = "" THEN "not_started" ELSE @]
<1>1. RowOK(F, q)
  BY DEF RowOK, Row, EmailStatus
<1>2. "fulfilled" \in Status /\ Claimed(F, "fulfilled")
  BY DEF Status, LifecycleStatus, RefundStatus, Claimed
<1> HIDE DEF q
<1>3. RowOK(F, [q EXCEPT !.status = "fulfilled"])
  BY <1>1, <1>2, StatusOK
<1>4. QED
  BY <1>1, <1>3 DEF MarkFulfilled, q

\* markPaymentEmail
LEMMA MarkEmailOK ==
    ASSUME NEW F, NEW p, RowOK(F, p), "paid" \in F,
           NEW e \in {"pending", "disabled", "not_applicable", "sent", "failed"}
    PROVE RowOK(F, MarkEmail(e, p))
<1> DEFINE q == [p EXCEPT !.email = e]
<1>1. RowOK(F, q)
  BY FieldsOK DEF EmailStatus
<1>2. \A s \in {"fulfilled", "email_sent", "email_failed"} : s \in Status /\ Claimed(F, s)
  BY DEF Status, LifecycleStatus, RefundStatus, Claimed
<1> HIDE DEF q
<1>3. \A s \in {"fulfilled", "email_sent", "email_failed"} : RowOK(F, [q EXCEPT !.status = s])
  BY <1>1, <1>2, StatusOK
<1>4. RowOK(F, RaiseTo(q, "fulfilled", {"", "paid", "checkout_created"}))
  BY <1>1, <1>3, RaiseToSays
<1>5. MarkEmail(e, p) \in {q, [q EXCEPT !.status = "email_sent"], [q EXCEPT !.status = "email_failed"],
                           RaiseTo(q, "fulfilled", {"", "paid", "checkout_created"})}
  BY DEF MarkEmail, q
<1>6. QED
  BY <1>1, <1>3, <1>4, <1>5

-----------------------------------------------------------------------------
(* Lemmas about Stripe's objects.                                          *)

\* What a view of Stripe's objects shows, one fact at a time.
LEMMA FactsSay ==
    ASSUME NEW w
    PROVE /\ "paid" \in FactsOf(w) <=>
               w.session = "complete" \/ \E c \in PaymentId : w.pay[c] = "succeeded"
          /\ "failed" \in FactsOf(w) <=> \E c \in PaymentId : w.pay[c] = "failed"
          /\ "payment_canceled" \in FactsOf(w) <=> \E c \in PaymentId : w.pay[c] = "canceled"
          /\ "checkout_expired" \in FactsOf(w) <=> w.session = "expired"
          /\ "refunded" \in FactsOf(w) <=> \E c \in PaymentId : w.refunded[c] = Amount
          /\ "partially_refunded" \in FactsOf(w) <=>
               \E c \in PaymentId : w.refunded[c] \in 1..(Amount - 1)
          /\ "subscription_past_due" \in FactsOf(w) <=>
               w.sub = "past_due" \/ (w.recurring /\ \E c \in PaymentId : w.pay[c] = "failed")
          /\ "subscription_lapsed" \in FactsOf(w) <=>
               w.sub = "unpaid" \/ (w.recurring /\ \E c \in PaymentId : w.pay[c] = "canceled")
          /\ "subscription_canceling" \in FactsOf(w) <=> w.sub = "active" /\ w.atEnd
          /\ "subscription_canceled" \in FactsOf(w) <=> w.sub = "canceled"
<1>1. \A f : f \in FactsOf(w) <=> f \in Fact /\ Observed(w, f)
  BY DEF FactsOf
<1>2. {"paid", "failed", "payment_canceled", "checkout_expired", "refunded", "partially_refunded",
       "subscription_past_due", "subscription_lapsed", "subscription_canceling",
       "subscription_canceled"} \subseteq Fact
  BY DEF Fact, LifecycleStatus, RefundStatus
<1>3. QED
  BY <1>1, <1>2 DEF Observed

\* Stripe's objects have the types of PaymentRecord.
LEMMA ObjectTypes ==
    ASSUME NEW w \in World
    PROVE /\ \A c \in PaymentId : /\ ChargeOf(w, c) \in Charge
                                  /\ IntentOf(w, c) \in Intent /\ IntentEvent(w, c) \in Intent
                                  /\ InvoiceOf(w, c) \in Invoice
          /\ SubOf(w) \in Subscription
          /\ SessionOf(w) \in Session /\ SessionEvent(w) \in Session
<1>1. ASSUME NEW c \in PaymentId
      PROVE /\ w.pay[c] \in PayState /\ w.refunded[c] \in 0..Amount /\ 1 \in PaymentId
            /\ w.session \in {"open", "complete", "expired"}
            /\ w.sub \in SubStatus /\ w.atEnd \in BOOLEAN /\ w.recurring \in BOOLEAN
  BY DEF World, PaymentId
<1>2. NoCharge \in Charge /\ NoIntent \in Intent /\ NoInvoice \in Invoice /\ 1 \in PaymentId
  BY AmountSays DEF NoCharge, NoIntent, NoInvoice, Charge, Intent, Invoice, PaymentId
<1>3. ASSUME NEW c \in PaymentId PROVE ChargeOf(w, c) \in Charge
  BY <1>1, <1>2 DEF ChargeOf, Charge, PayState
<1>4. ASSUME NEW c \in PaymentId PROVE IntentOf(w, c) \in Intent
  BY <1>1, <1>2, <1>3 DEF IntentOf, Intent, PayState
<1>5. ASSUME NEW c \in PaymentId PROVE InvoiceOf(w, c) \in Invoice
  BY <1>1, <1>2 DEF InvoiceOf, Invoice, PayState
<1>6. ASSUME NEW c \in PaymentId PROVE IntentEvent(w, c) \in Intent
  <2> DEFINE x == IntentOf(w, c)
             ch == [id |-> x.charge.id, status |-> "", refunded |-> 0]
  <2>1. x \in Intent
    BY <1>4
  <2>2. IntentEvent(w, c) = [x EXCEPT !.charge = ch]
    BY DEF IntentEvent
  <2>3. ch \in Charge
    BY <2>1, AmountSays DEF Intent, Charge
  <2> HIDE DEF x, ch
  <2>4. [x EXCEPT !.charge = ch] \in Intent
    BY <2>1, <2>3 DEF Intent
  <2>5. QED
    BY <2>2, <2>4
<1>7. SubOf(w) \in Subscription
  BY <1>1, <1>2 DEF SubOf, Subscription
<1>8. SessionOf(w) \in Session
  BY <1>1, <1>2, <1>4, <1>5, <1>7 DEF SessionOf, Session
<1>9. SessionEvent(w) \in Session
  <2> DEFINE s == SessionOf(w)
  <2>1. [id |-> s.invoice.id, status |-> ""] \in Invoice
    BY <1>8 DEF Session, Invoice
  <2>2. [exists |-> s.sub.exists, status |-> "", atEnd |-> FALSE] \in Subscription
    BY <1>8 DEF Session, Subscription, SubStatus
  <2>3. [id |-> s.intent.id, status |-> "", charge |-> NoCharge] \in Intent
    BY <1>2, <1>8 DEF Session, Intent
  <2>4. s.status \in {"open", "complete", "expired"}
    BY <1>8 DEF Session
  <2> HIDE DEF s
  <2>5. QED
    BY <2>1, <2>2, <2>3, <2>4 DEF SessionEvent, Session, s
<1>10. QED
  BY <1>3, <1>4, <1>5, <1>6, <1>7, <1>8, <1>9

\* What they say is a noted fact.
ChargeTold(F, c) == RefundClaimed(F, c.refunded) /\ (c.status = "failed" => "failed" \in F)

IntentTold(F, pi) ==
    /\ ChargeTold(F, pi.charge)
    /\ pi.status = "succeeded" => "paid" \in F
    /\ pi.status = "canceled" => "payment_canceled" \in F
    /\ pi.status = "requires_payment_method" => "failed" \in F

InvoiceTold(F, inv) ==
    /\ inv.status = "paid" => "paid" \in F
    /\ inv.status = "open" => "subscription_past_due" \in F
    /\ inv.status = "void" => "subscription_lapsed" \in F

SubTold(F, s) ==
    /\ s.status = "canceled" => "subscription_canceled" \in F
    /\ s.status = "unpaid" => "subscription_lapsed" \in F
    /\ s.status = "past_due" => "subscription_past_due" \in F
    /\ s.status = "active" /\ s.atEnd => "subscription_canceling" \in F

SessionTold(F, s) ==
    /\ IntentTold(F, s.intent) /\ InvoiceTold(F, s.invoice) /\ SubTold(F, s.sub)
    /\ s.status = "expired" => "checkout_expired" \in F
    /\ s.status = "complete" => "paid" \in F

LEMMA ObjectsTold ==
    ASSUME NEW F, NEW w, SnapOK(F, w)
    PROVE /\ \A c \in PaymentId : /\ ChargeTold(F, ChargeOf(w, c))
                                  /\ IntentTold(F, IntentOf(w, c)) /\ IntentTold(F, IntentEvent(w, c))
                                  /\ InvoiceTold(F, InvoiceOf(w, c))
          /\ SubTold(F, SubOf(w))
          /\ SessionTold(F, SessionOf(w)) /\ SessionTold(F, SessionEvent(w))
<1>0. w \in World /\ FactsOf(w) \subseteq F
  BY DEF SnapOK
<1>1. /\ \A c \in PaymentId : /\ w.pay[c] = "succeeded" => "paid" \in F
                              /\ w.pay[c] = "failed" => "failed" \in F
                              /\ w.pay[c] = "canceled" => "payment_canceled" \in F
                              /\ w.recurring /\ w.pay[c] = "failed" => "subscription_past_due" \in F
                              /\ w.recurring /\ w.pay[c] = "canceled" => "subscription_lapsed" \in F
                              /\ w.pay[c] \in PayState
      /\ 1 \in PaymentId
  BY <1>0, FactsSay DEF World, PaymentId
<1>2. \A c \in PaymentId : RefundClaimed(F, w.refunded[c])
  BY <1>0, FactsSay DEF RefundClaimed
<1>3. RefundClaimed(F, 0)
  BY AmountAssumption DEF RefundClaimed
<1>4. ASSUME NEW c \in PaymentId PROVE ChargeTold(F, ChargeOf(w, c))
  BY <1>1, <1>2, <1>3 DEF ChargeOf, NoCharge, ChargeTold
<1>5. ChargeTold(F, NoCharge) /\ IntentTold(F, NoIntent)
  BY <1>3 DEF ChargeTold, NoCharge, IntentTold, NoIntent
<1>6. ASSUME NEW c \in PaymentId PROVE IntentTold(F, IntentOf(w, c))
  BY <1>1, <1>4, <1>5 DEF IntentOf, PayState, IntentTold
<1>7. ASSUME NEW c \in PaymentId PROVE IntentTold(F, IntentEvent(w, c))
  <2>1. IntentOf(w, c) \in Intent
    BY <1>0, ObjectTypes
  <2>2. /\ IntentEvent(w, c).status = IntentOf(w, c).status
        /\ IntentEvent(w, c).charge.refunded = 0 /\ IntentEvent(w, c).charge.status = ""
    BY <2>1 DEF IntentEvent, Intent
  <2>3. QED
    BY <1>3, <1>6, <2>2 DEF IntentTold, ChargeTold
<1>8. ASSUME NEW c \in PaymentId PROVE InvoiceTold(F, InvoiceOf(w, c))
  BY <1>0, <1>1 DEF InvoiceOf, InvoiceTold, NoInvoice, PayState, World
<1>9. SubTold(F, SubOf(w))
  BY <1>0, FactsSay DEF SubOf, SubTold
<1>10. SessionTold(F, SessionOf(w))
  BY <1>0, <1>1, <1>5, <1>6, <1>8, <1>9, FactsSay DEF SessionOf, SessionTold
<1>11. SessionTold(F, SessionEvent(w))
  BY <1>0, <1>3, FactsSay DEF SessionEvent, SessionOf, SessionTold, IntentTold, InvoiceTold, SubTold,
     ChargeTold, NoCharge
<1>12. QED
  BY <1>4, <1>6, <1>7, <1>8, <1>9, <1>10, <1>11

-----------------------------------------------------------------------------
(* What a worker writes is justified.                                      *)

\* A session applied to a row.
LEMMA SessionApplied ==
    ASSUME NEW F, NEW p, RowOK(F, p), NEW s \in Session, SessionTold(F, s)
    PROVE RowOK(F, ApplySession(s, p))
  BY SessionOK DEF SessionTold, IntentTold, InvoiceTold, SubTold, ChargeTold

\* The other objects.
LEMMA ObjectApplied ==
    ASSUME NEW F, NEW p, RowOK(F, p), NEW w, SnapOK(F, w)
    PROVE /\ \A c \in PaymentId : /\ RowOK(F, ApplyCharge(ChargeOf(w, c), p))
                                  /\ RowOK(F, ApplyIntent(IntentOf(w, c), p))
                                  /\ RowOK(F, ApplyIntent(IntentEvent(w, c), p))
                                  /\ RowOK(F, ApplyInvoice(InvoiceOf(w, c), p))
          /\ RowOK(F, ApplySubscription(SubOf(w), p))
          /\ RowOK(F, ApplySession(SessionOf(w), p)) /\ RowOK(F, ApplySession(SessionEvent(w), p))
<1>1. w \in World
  BY DEF SnapOK
<1>2. ASSUME NEW c \in PaymentId
      PROVE /\ RowOK(F, ApplyCharge(ChargeOf(w, c), p)) /\ RowOK(F, ApplyInvoice(InvoiceOf(w, c), p))
            /\ RowOK(F, ApplyIntent(IntentOf(w, c), p)) /\ RowOK(F, ApplyIntent(IntentEvent(w, c), p))
  <2>1. RowOK(F, ApplyCharge(ChargeOf(w, c), p))
    BY <1>1, ObjectTypes, ObjectsTold, ChargeOK DEF ChargeTold
  <2>2. RowOK(F, ApplyInvoice(InvoiceOf(w, c), p))
    BY <1>1, ObjectTypes, ObjectsTold, InvoiceOK DEF InvoiceTold
  <2>3. RowOK(F, ApplyIntent(IntentOf(w, c), p))
    BY <1>1, ObjectTypes, ObjectsTold, IntentOK DEF IntentTold, ChargeTold
  <2>4. RowOK(F, ApplyIntent(IntentEvent(w, c), p))
    BY <1>1, ObjectTypes, ObjectsTold, IntentOK DEF IntentTold, ChargeTold
  <2>5. QED
    BY <2>1, <2>2, <2>3, <2>4
<1>3. RowOK(F, ApplySubscription(SubOf(w), p))
  BY <1>1, ObjectTypes, ObjectsTold, SubscriptionOK DEF SubTold
<1>4. RowOK(F, ApplySession(SessionOf(w), p)) /\ RowOK(F, ApplySession(SessionEvent(w), p))
  BY <1>1, ObjectTypes, ObjectsTold, SessionApplied
<1>5. QED
  BY <1>2, <1>3, <1>4

\* applyStripePaymentStateToPayment
LEMMA StoredStateOK ==
    ASSUME NEW F, NEW p, RowOK(F, p), NEW k \in Worker, SnapOK(F, k.snap)
    PROVE RowOK(F, StoredState(k, p))
<1> DEFINE w == k.snap
           a == IF "session" \in k.loaded THEN ApplySession(SessionOf(w), p) ELSE p
           b == IF k.inv # 0 THEN ApplyInvoice(InvoiceOf(w, k.inv), a) ELSE a
           c == IF "sub" \in k.loaded THEN ApplySubscription(SubOf(w), b) ELSE b
           d == IF k.of # 0 /\ "intent" \in k.loaded THEN ApplyIntent(IntentOf(w, k.of), c) ELSE c
<1>1. k.inv \in {0} \cup PaymentId /\ k.of \in {0} \cup PaymentId
  BY DEF Worker
<1>2. RowOK(F, a)
  BY ObjectApplied
<1> HIDE DEF a
<1>3. RowOK(F, b)
  BY <1>1, <1>2, ObjectApplied
<1> HIDE DEF b
<1>4. RowOK(F, c)
  BY <1>3, ObjectApplied
<1> HIDE DEF c
<1>5. RowOK(F, d)
  BY <1>1, <1>4, ObjectApplied
<1> HIDE DEF d
<1>6. RowOK(F, IF k.of # 0 /\ "charge" \in k.loaded THEN ApplyCharge(ChargeOf(w, k.of), d) ELSE d)
  BY <1>1, <1>5, ObjectApplied
<1>7. QED
  BY <1>6 DEF StoredState, a, b, c, d

\* Every mutation leaves a justified row justified (payments.go, setPayment).
LEMMA MutateOK ==
    ASSUME NEW F, NEW k, WorkerOK(F, k), k.holds, k.pc \in Write, NEW linked \in BOOLEAN
    PROVE RowOK(F, Mutate(k, k.seen, linked))
<1> DEFINE p == k.seen
<1>0. RowOK(F, p) /\ SnapOK(F, k.snap) /\ k \in Worker
  BY DEF WorkerOK
<1>1. "paid" \in F => \A q : RowOK(F, q) => RowOK(F, NeedsReview(q))
  <2>1. "needs_review" \in Status /\ ("paid" \in F => Claimed(F, "needs_review"))
    BY DEF Status, LifecycleStatus, RefundStatus, Claimed
  <2>2. QED
    BY <2>1, StatusOK DEF NeedsReview
<1> HIDE DEF p
<1>2. CASE k.pc = "completed"
  <2>1. "paid" \in F /\ RowOK(F, ApplySession(SessionEvent(k.snap), p))
    BY <1>0, <1>2, ObjectApplied DEF WorkerOK, PaidStep
  <2>2. RowOK(F, [ApplySession(SessionEvent(k.snap), p) EXCEPT !.status = "paid", !.paid = TRUE])
    BY <2>1 DEF RowOK, Row, Status, LifecycleStatus, RefundStatus, Claimed
  <2>3. QED
    BY <1>2, <2>2 DEF Mutate, p
<1>3. CASE k.pc = "expired"
  <2>1. "checkout_expired" \in F
    BY <1>0, <1>3, FactsSay DEF WorkerOK, SnapOK
  <2>2. RowOK(F, SetLifecycle(ApplySession(SessionEvent(k.snap), p), "checkout_expired"))
    BY <1>0, <2>1, ObjectApplied, LifecycleOK DEF LifecycleStatus
  <2>3. QED
    BY <1>3, <2>2 DEF Mutate, p
<1>4. CASE k.pc \in {"invoice", "intent", "charge", "subscription"}
  BY <1>0, <1>4, ObjectApplied DEF Mutate, p, WorkerOK
<1>5. CASE k.pc = "refund"
  <2>1. k.amount \in 0..Amount
    BY <1>0 DEF Worker
  <2>2. QED
    BY <1>0, <1>5, <2>1, RefundOK DEF Mutate, p, WorkerOK
<1>6. CASE k.pc = "recSession"
  <2> DEFINE q == ApplySession(SessionOf(k.snap), p)
  <2>1. RowOK(F, q)
    BY <1>0, ObjectApplied
  <2>2. k.snap.session = "complete" => "paid" \in F
    BY <1>0, FactsSay DEF SnapOK
  <2> HIDE DEF q
  <2>3. QED
    BY <1>1, <1>6, <2>1, <2>2 DEF Mutate, p, q
<1>7. CASE k.pc = "recStored"
  <2> DEFINE q == StoredState(k, p)
  <2>1. RowOK(F, q)
    BY <1>0, StoredStateOK
  <2>2. q.paid => "paid" \in F
    BY <2>1 DEF RowOK
  <2> HIDE DEF q
  <2>3. QED
    BY <1>1, <1>7, <2>1, <2>2 DEF Mutate, p, q
<1>8. CASE k.pc \in {"pending", "disabled", "not_applicable", "sent", "failed"}
  BY <1>0, <1>8, MarkEmailOK DEF Mutate, p, WorkerOK, PaidStep
<1>9. CASE k.pc \in {"preserve", "fulfilled", "plan", "relink"}
  BY <1>0, <1>1, <1>9, MarkFulfilledOK DEF Mutate, p, WorkerOK, PaidStep
<1>10. QED
  BY <1>2, <1>3, <1>4, <1>5, <1>6, <1>7, <1>8, <1>9 DEF Write

-----------------------------------------------------------------------------
(* Stripe changes: what was justified stays so, and what is new is noted.   *)

\* What F justifies, every larger set of facts justifies.
LEMMA Grows ==
    ASSUME NEW F, NEW G, F \subseteq G
    PROVE /\ \A p : RowOK(F, p) => RowOK(G, p)
          /\ \A w : SnapOK(F, w) => SnapOK(G, w)
          /\ \A e : EventOK(F, e) => EventOK(G, e)
          /\ \A k : WorkerOK(F, k) => WorkerOK(G, k)
<1>1. \A n : RefundClaimed(F, n) => RefundClaimed(G, n)
  BY DEF RefundClaimed
<1>2. \A p : RowOK(F, p) => RowOK(G, p)
  BY <1>1 DEF RowOK, Claimed
<1>3. \A w : SnapOK(F, w) => SnapOK(G, w)
  BY DEF SnapOK
<1>4. \A e : EventOK(F, e) => EventOK(G, e)
  BY <1>1, <1>3 DEF EventOK
<1>5. \A k : WorkerOK(F, k) => WorkerOK(G, k)
  BY <1>1, <1>2, <1>3 DEF WorkerOK
<1>6. QED
  BY <1>2, <1>3, <1>4, <1>5

\* A fact that needs a payment was noted after one.
LEMMA AfterPaid ==
    ASSUME NEW w, InOrder(w), NEW f \in {"subscription_past_due", "subscription_canceling"},
           f \in FactsOf(w)
    PROVE "paid" \in FactsOf(w)
<1>1. PaymentId = {1, 2}
  BY DEF PaymentId
<1>2. w.sub # "" \/ (w.recurring /\ \E c \in PaymentId : w.pay[c] = "failed")
  BY FactsSay
<1>3. w.session = "complete"
  BY <1>1, <1>2 DEF InOrder
<1>4. QED
  BY <1>3, FactsSay

\* An event as Change emits it.
Emitted(w, e) == [type |-> e[1], snap |-> w, of |-> e[2], amount |-> e[3]]

Noted(F, w, emitted) == \A e \in emitted : EventOK(F, Emitted(w, e))

LEMMA PlainEvent ==
    ASSUME NEW F, NEW w, SnapOK(F, w), NEW c \in PaymentId,
           NEW t \in {"payment_intent", "charge", "invoice", "subscription"}
    PROVE EventOK(F, Emitted(w, <<t, c, 0>>))
<1>1. Emitted(w, <<t, c, 0>>) = [type |-> t, snap |-> w, of |-> c, amount |-> 0]
  BY DEF Emitted
<1>2. 0 \in 0..Amount /\ w \in World
  BY AmountSays DEF SnapOK
<1>3. QED
  BY <1>1, <1>2 DEF EventOK, Event, EventType

\* A change on Stripe's side that respects its order, and whose events are noted, keeps
\* what is said of Stripe and of the events ...
LEMMA ChangeOK ==
    ASSUME IInv, NEW w, InOrder(w), NEW emitted, Noted(was \cup FactsOf(w), w, emitted),
           Becomes(w, emitted)
    PROVE StripeOK' /\ was \subseteq was' /\ \A e \in events' : EventOK(was', e)
<1>1. stripe' = w /\ was' = was \cup FactsOf(w)
      /\ events' = events \cup {Emitted(w, e) : e \in emitted}
  BY DEF Becomes, Emitted
<1>2. SnapOK(was', w)
  BY <1>1 DEF SnapOK, InOrder
<1>3. was' \subseteq Fact
  BY <1>1 DEF IInv, StripeOK, FactsOf
<1>4. \A f \in {"subscription_past_due", "subscription_canceling"} : f \in was' => "paid" \in was'
  BY <1>1, AfterPaid DEF IInv, StripeOK
<1>5. StripeOK'
  BY <1>1, <1>2, <1>3, <1>4 DEF StripeOK
<1>6. \A e \in events : EventOK(was', e)
  BY <1>1, Grows DEF IInv
<1>7. \A e \in events' : EventOK(was', e)
  BY <1>1, <1>6 DEF Noted
<1>8. QED
  BY <1>1, <1>5, <1>7

\* ... and with it the whole invariant, since it leaves everything else alone.
LEMMA ChangeKeeps ==
    ASSUME IInv, NEW w, InOrder(w), NEW emitted, Noted(was \cup FactsOf(w), w, emitted),
           Change(w, emitted)
    PROVE IInv'
<1>1. StripeOK' /\ was \subseteq was' /\ \A e \in events' : EventOK(was', e)
  BY ChangeOK DEF Change
<1>2. changes < limit.changes /\ changes' = changes + 1
      /\ UNCHANGED <<row, started, worker, mail, limit>>
  BY DEF Change
<1>3. limit.changes \in Nat
  BY LedgerAssumption DEF IInv, CountsOK, Limit
<1>4. CountsOK'
  BY <1>1, <1>2, <1>3 DEF IInv, CountsOK
<1>5. RowOK(was', row') /\ worker' \in [Workers -> Worker]
      /\ \A g \in Workers : WorkerOK(was', worker'[g])
  BY <1>1, <1>2, Grows DEF IInv
<1>6. QED
  BY <1>1, <1>4, <1>5 DEF IInv

\* The view a change leads to is noted with it.
LEMMA NewView ==
    ASSUME NEW w, InOrder(w), NEW F
    PROVE SnapOK(F \cup FactsOf(w), w)
  BY DEF SnapOK, InOrder

\* One lemma per change on Stripe's side: the new view is in order, and the events
\* show what it makes true.
LEMMA CardDeclinedKeeps == ASSUME IInv, CardDeclined PROVE IInv'
<1> DEFINE w == [stripe EXCEPT !.pay[1] = "failed"]
           emitted == {<<"payment_intent", 1, 0>>, <<"charge", 1, 0>>}
<1>1. InOrder(w)
  <2>1. stripe \in World /\ InOrder(stripe) /\ ~stripe.recurring
    BY DEF IInv, StripeOK, InOrder, CardDeclined
  <2>2. [stripe.pay EXCEPT ![1] = "failed"] \in [PaymentId -> PayState]
    BY <2>1 DEF World, PaymentId, PayState
  <2>3. w \in World
    BY <2>1, <2>2 DEF World
  <2>4. w.pay[2] = stripe.pay[2] /\ w.sub = stripe.sub /\ w.session = stripe.session /\ w.recurring = stripe.recurring
    BY <2>1 DEF World, PaymentId
  <2>5. QED
    BY <2>1, <2>3, <2>4 DEF InOrder
<1>2. Noted(was \cup FactsOf(w), w, emitted)
  BY <1>1, NewView, PlainEvent DEF Noted, PaymentId
<1>3. Change(w, emitted)
  BY DEF CardDeclined
<1> HIDE DEF w, emitted
<1>4. QED
  BY <1>1, <1>2, <1>3, ChangeKeeps

LEMMA SessionExpiresKeeps == ASSUME IInv, SessionExpires PROVE IInv'
<1> DEFINE w == [stripe EXCEPT !.session = "expired",
                               !.pay[1] = IF @ = "none" THEN @ ELSE "canceled"]
           emitted == {<<"checkout.session.expired", 1, 0>>, <<"payment_intent", 1, 0>>}
<1>1. InOrder(w)
  <2>1. stripe \in World /\ InOrder(stripe) /\ stripe.session = "open"
    BY DEF IInv, StripeOK, InOrder, SessionExpires
  <2>2. [stripe.pay EXCEPT ![1] = IF @ = "none" THEN @ ELSE "canceled"] \in [PaymentId -> PayState]
    BY <2>1 DEF World, PaymentId, PayState
  <2>3. w \in World
    BY <2>1, <2>2 DEF World, SubStatus
  <2>4. /\ w.pay = [stripe.pay EXCEPT ![1] = IF @ = "none" THEN @ ELSE "canceled"] /\ w.session = "expired"
        /\ w.recurring = stripe.recurring /\ w.sub = stripe.sub
    BY <2>1 DEF World
  <2> HIDE DEF w
  <2>5. /\ w.pay[1] \in {"none", "canceled"} /\ w.pay[2] = stripe.pay[2]
        /\ w.session = "expired"
    BY <2>1, <2>4 DEF World, PaymentId
  <2>6. QED
    BY <2>1, <2>3, <2>4, <2>5 DEF InOrder
<1>2. Noted(was \cup FactsOf(w), w, emitted)
  <2>1. Emitted(w, <<"checkout.session.expired", 1, 0>>)
        = [type |-> "checkout.session.expired", snap |-> w, of |-> 1, amount |-> 0]
    BY DEF Emitted
  <2>2. 0 \in 0..Amount /\ 1 \in PaymentId
    BY AmountSays DEF PaymentId
  <2>3. w.session = "expired"
    BY DEF IInv, StripeOK, InOrder, World
  <2>4. SnapOK(was \cup FactsOf(w), w)
    BY <1>1, NewView
  <2> HIDE DEF w
  <2>5. EventOK(was \cup FactsOf(w), Emitted(w, <<"checkout.session.expired", 1, 0>>))
    <3>1. w \in World
      BY <1>1 DEF InOrder
    <3>2. QED
      BY <2>1, <2>2, <2>3, <2>4, <3>1 DEF EventOK, Event, EventType
  <2>6. QED
    BY <2>4, <2>5, PlainEvent DEF Noted, PaymentId, emitted
<1>3. Change(w, emitted)
  BY DEF SessionExpires
<1> HIDE DEF w, emitted
<1>4. QED
  BY <1>1, <1>2, <1>3, ChangeKeeps

LEMMA SessionPaidKeeps == ASSUME IInv, SessionPaid PROVE IInv'
<1> DEFINE w == [stripe EXCEPT !.session = "complete", !.pay[1] = "succeeded",
                               !.sub = IF stripe.recurring THEN "active" ELSE ""]
           emitted == {<<"checkout.session.completed", 1, 0>>, <<"payment_intent", 1, 0>>}
<1>1. InOrder(w)
  <2>1. stripe \in World /\ InOrder(stripe) /\ stripe.session = "open"
    BY DEF IInv, StripeOK, InOrder, SessionPaid
  <2>2. [stripe.pay EXCEPT ![1] = "succeeded"] \in [PaymentId -> PayState]
    BY <2>1 DEF World, PaymentId, PayState
  <2>3. w \in World
    BY <2>1, <2>2 DEF World, SubStatus
  <2>4. /\ w.pay = [stripe.pay EXCEPT ![1] = "succeeded"] /\ w.session = "complete"
        /\ w.recurring = stripe.recurring
    BY <2>1 DEF World
  <2> HIDE DEF w
  <2>5. w.pay[1] = "succeeded" /\ w.session = "complete"
    BY <2>1, <2>4 DEF World, PaymentId
  <2>6. QED
    BY <2>1, <2>3, <2>4, <2>5 DEF InOrder
<1>2. Noted(was \cup FactsOf(w), w, emitted)
  <2>1. Emitted(w, <<"checkout.session.completed", 1, 0>>)
        = [type |-> "checkout.session.completed", snap |-> w, of |-> 1, amount |-> 0]
    BY DEF Emitted
  <2>2. 0 \in 0..Amount /\ 1 \in PaymentId
    BY AmountSays DEF PaymentId
  <2>3. w.session = "complete"
    BY DEF IInv, StripeOK, InOrder, World
  <2>4. SnapOK(was \cup FactsOf(w), w)
    BY <1>1, NewView
  <2> HIDE DEF w
  <2>5. EventOK(was \cup FactsOf(w), Emitted(w, <<"checkout.session.completed", 1, 0>>))
    <3>1. w \in World
      BY <1>1 DEF InOrder
    <3>2. QED
      BY <2>1, <2>2, <2>3, <2>4, <3>1 DEF EventOK, Event, EventType
  <2>6. QED
    BY <2>4, <2>5, PlainEvent DEF Noted, PaymentId, emitted
<1>3. Change(w, emitted)
  BY DEF SessionPaid
<1> HIDE DEF w, emitted
<1>4. QED
  BY <1>1, <1>2, <1>3, ChangeKeeps

LEMMA CancelAtPeriodEndKeeps == ASSUME IInv, CancelAtPeriodEnd PROVE IInv'
<1> DEFINE w == [stripe EXCEPT !.atEnd = ~@]
           emitted == {<<"subscription", 1, 0>>}
<1>1. InOrder(w)
  <2>1. stripe \in World /\ InOrder(stripe) /\ stripe.sub = "active"
    BY DEF IInv, StripeOK, InOrder, CancelAtPeriodEnd
  <2>2. w \in World
    BY <2>1 DEF World, SubStatus
  <2>3. /\ w.pay = stripe.pay /\ w.session = stripe.session /\ w.recurring = stripe.recurring /\ w.sub = stripe.sub
    BY <2>1 DEF World
  <2>4. QED
    BY <2>1, <2>2, <2>3, <2>3 DEF InOrder
<1>2. Noted(was \cup FactsOf(w), w, emitted)
  BY <1>1, NewView, PlainEvent DEF Noted, PaymentId
<1>3. Change(w, emitted)
  BY DEF CancelAtPeriodEnd
<1> HIDE DEF w, emitted
<1>4. QED
  BY <1>1, <1>2, <1>3, ChangeKeeps

LEMMA SubscriptionEndsKeeps == ASSUME IInv, SubscriptionEnds PROVE IInv'
<1> DEFINE w == [stripe EXCEPT !.sub = "canceled"]
           emitted == {<<"subscription", 1, 0>>}
<1>1. InOrder(w)
  <2>1. stripe \in World /\ InOrder(stripe) /\ stripe.sub # ""
    BY DEF IInv, StripeOK, InOrder, SubscriptionEnds
  <2>2. w \in World
    BY <2>1 DEF World, SubStatus
  <2>3. /\ w.pay = stripe.pay /\ w.session = stripe.session /\ w.recurring = stripe.recurring
    BY <2>1 DEF World
  <2>4. QED
    BY <2>1, <2>2, <2>3, <2>3 DEF InOrder
<1>2. Noted(was \cup FactsOf(w), w, emitted)
  BY <1>1, NewView, PlainEvent DEF Noted, PaymentId
<1>3. Change(w, emitted)
  BY DEF SubscriptionEnds
<1> HIDE DEF w, emitted
<1>4. QED
  BY <1>1, <1>2, <1>3, ChangeKeeps

LEMMA RenewalDeclinedKeeps == ASSUME IInv, RenewalDeclined PROVE IInv'
<1> DEFINE w == [stripe EXCEPT !.sub = "past_due", !.pay[2] = "failed"]
           emitted == {<<"invoice", 2, 0>>, <<"subscription", 2, 0>>, <<"payment_intent", 2, 0>>}
<1>1. InOrder(w)
  <2>1. stripe \in World /\ InOrder(stripe) /\ stripe.sub # ""
    BY DEF IInv, StripeOK, InOrder, RenewalDeclined
  <2>2. [stripe.pay EXCEPT ![2] = "failed"] \in [PaymentId -> PayState]
    BY <2>1 DEF World, PaymentId, PayState
  <2>3. w \in World
    BY <2>1, <2>2 DEF World, SubStatus
  <2>4. /\ w.pay = [stripe.pay EXCEPT ![2] = "failed"] /\ w.session = stripe.session
        /\ w.recurring = stripe.recurring
    BY <2>1 DEF World
  <2> HIDE DEF w
  <2>5. w.pay[1] = stripe.pay[1]
    <3>1. 1 \in PaymentId
      BY DEF PaymentId
    <3>2. stripe.pay \in [PaymentId -> PayState]
      BY <2>1 DEF World
    <3>3. QED
      BY <2>4, <3>1, <3>2
  <2>6. QED
    BY <2>1, <2>3, <2>4, <2>5 DEF InOrder
<1>2. Noted(was \cup FactsOf(w), w, emitted)
  BY <1>1, NewView, PlainEvent DEF Noted, PaymentId
<1>3. Change(w, emitted)
  BY DEF RenewalDeclined
<1> HIDE DEF w, emitted
<1>4. QED
  BY <1>1, <1>2, <1>3, ChangeKeeps

LEMMA RenewalPaidKeeps == ASSUME IInv, RenewalPaid PROVE IInv'
<1> DEFINE w == [stripe EXCEPT !.sub = "active", !.pay[2] = "succeeded"]
           emitted == {<<"subscription", 2, 0>>, <<"payment_intent", 2, 0>>}
<1>1. InOrder(w)
  <2>1. stripe \in World /\ InOrder(stripe) /\ stripe.sub # ""
    BY DEF IInv, StripeOK, InOrder, RenewalPaid
  <2>2. [stripe.pay EXCEPT ![2] = "succeeded"] \in [PaymentId -> PayState]
    BY <2>1 DEF World, PaymentId, PayState
  <2>3. w \in World
    BY <2>1, <2>2 DEF World, SubStatus
  <2>4. /\ w.pay = [stripe.pay EXCEPT ![2] = "succeeded"] /\ w.session = stripe.session
        /\ w.recurring = stripe.recurring
    BY <2>1 DEF World
  <2> HIDE DEF w
  <2>5. w.pay[1] = stripe.pay[1]
    <3>1. 1 \in PaymentId
      BY DEF PaymentId
    <3>2. stripe.pay \in [PaymentId -> PayState]
      BY <2>1 DEF World
    <3>3. QED
      BY <2>4, <3>1, <3>2
  <2>6. QED
    BY <2>1, <2>3, <2>4, <2>5 DEF InOrder
<1>2. Noted(was \cup FactsOf(w), w, emitted)
  BY <1>1, NewView, PlainEvent DEF Noted, PaymentId
<1>3. Change(w, emitted)
  BY DEF RenewalPaid
<1> HIDE DEF w, emitted
<1>4. QED
  BY <1>1, <1>2, <1>3, ChangeKeeps

LEMMA RenewalAbandonedKeeps == ASSUME IInv, RenewalAbandoned PROVE IInv'
<1> DEFINE w == [stripe EXCEPT !.sub = "unpaid", !.pay[2] = "canceled"]
           emitted == {<<"invoice", 2, 0>>, <<"subscription", 2, 0>>, <<"payment_intent", 2, 0>>}
<1>1. InOrder(w)
  <2>1. stripe \in World /\ InOrder(stripe) /\ stripe.sub # ""
    BY DEF IInv, StripeOK, InOrder, RenewalAbandoned
  <2>2. [stripe.pay EXCEPT ![2] = "canceled"] \in [PaymentId -> PayState]
    BY <2>1 DEF World, PaymentId, PayState
  <2>3. w \in World
    BY <2>1, <2>2 DEF World, SubStatus
  <2>4. /\ w.pay = [stripe.pay EXCEPT ![2] = "canceled"] /\ w.session = stripe.session
        /\ w.recurring = stripe.recurring
    BY <2>1 DEF World
  <2> HIDE DEF w
  <2>5. w.pay[1] = stripe.pay[1]
    <3>1. 1 \in PaymentId
      BY DEF PaymentId
    <3>2. stripe.pay \in [PaymentId -> PayState]
      BY <2>1 DEF World
    <3>3. QED
      BY <2>4, <3>1, <3>2
  <2>6. QED
    BY <2>1, <2>3, <2>4, <2>5 DEF InOrder
<1>2. Noted(was \cup FactsOf(w), w, emitted)
  BY <1>1, NewView, PlainEvent DEF Noted, PaymentId
<1>3. Change(w, emitted)
  BY DEF RenewalAbandoned
<1> HIDE DEF w, emitted
<1>4. QED
  BY <1>1, <1>2, <1>3, ChangeKeeps

\* A refund brings the charge's total to Amount, or to less: either is noted, and a
\* part that was refunded before had been.
LEMMA RefundedKeeps == ASSUME IInv, Refunded PROVE IInv'
<1>1. PICK c \in PaymentId : \E total \in (stripe.refunded[c] + 1)..Amount :
        /\ stripe.pay[c] = "succeeded"
        /\ Change([stripe EXCEPT !.refunded[c] = total],
                  {<<"charge", c, 0>>, <<"refund", c, total - stripe.refunded[c]>>})
  BY DEF Refunded
<1>2. PICK total \in (stripe.refunded[c] + 1)..Amount :
        Change([stripe EXCEPT !.refunded[c] = total],
               {<<"charge", c, 0>>, <<"refund", c, total - stripe.refunded[c]>>})
  BY <1>1
<1> DEFINE w == [stripe EXCEPT !.refunded[c] = total]
           n == total - stripe.refunded[c]
           emitted == {<<"charge", c, 0>>, <<"refund", c, n>>}
<1>3. stripe \in World /\ SnapOK(was, stripe) /\ InOrder(stripe)
  BY DEF IInv, StripeOK, InOrder
<1>4. stripe.refunded[c] \in 0..Amount /\ total \in 1..Amount /\ n \in 1..Amount
      /\ (stripe.refunded[c] = 0 => n = total) /\ (stripe.refunded[c] # 0 => n # Amount)
  <2>1. stripe.refunded[c] \in 0..Amount
    BY <1>3 DEF World
  <2>2. QED
    BY <1>2, <2>1, AmountAssumption
<1>5. InOrder(w)
  <2>1. [stripe.refunded EXCEPT ![c] = total] \in [PaymentId -> 0..Amount]
    BY <1>3, <1>4 DEF World
  <2>2. w \in World
    BY <1>3, <2>1 DEF World
  <2>3. /\ w.pay = stripe.pay /\ w.session = stripe.session /\ w.recurring = stripe.recurring
        /\ w.sub = stripe.sub
    BY <1>3 DEF World
  <2>4. QED
    BY <1>3, <2>2, <2>3 DEF InOrder
<1>6. RefundClaimed(was \cup FactsOf(w), n)
  <2>1. w.refunded[c] = total
    BY <1>3 DEF World
  <2>2. stripe.refunded[c] \in 1..(Amount - 1) => "partially_refunded" \in was
    BY <1>3, FactsSay DEF SnapOK
  <2> HIDE DEF w, n
  <2>3. /\ total = Amount => "refunded" \in FactsOf(w)
        /\ total \in 1..(Amount - 1) => "partially_refunded" \in FactsOf(w)
    <3>1. /\ w.refunded[c] = Amount => "refunded" \in FactsOf(w)
          /\ w.refunded[c] \in 1..(Amount - 1) => "partially_refunded" \in FactsOf(w)
      BY FactsSay
    <3>2. QED
      BY <2>1, <3>1
  <2>4. n = Amount => total = Amount
    BY <1>4
  <2>5. n \in 1..(Amount - 1) => total \in 1..(Amount - 1) \/ stripe.refunded[c] \in 1..(Amount - 1)
    <3> SUFFICES ASSUME n \in 1..(Amount - 1), total = Amount PROVE stripe.refunded[c] \in 1..(Amount - 1)
      BY <1>4, AmountAssumption
    <3> QED
      BY <1>4, AmountAssumption DEF n
  <2>6. QED
    BY <2>2, <2>3, <2>4, <2>5 DEF RefundClaimed
<1>7. EventOK(was \cup FactsOf(w), Emitted(w, <<"refund", c, n>>))
  <2>1. n \in 0..Amount /\ n # 0 /\ w \in World
    <3>1. n \in 1..Amount /\ w \in World
      BY <1>4, <1>5 DEF InOrder
    <3> HIDE DEF n, w
    <3>2. QED
      BY <3>1, AmountAssumption
  <2>2. Emitted(w, <<"refund", c, n>>) = [type |-> "refund", snap |-> w, of |-> c, amount |-> n]
    BY DEF Emitted
  <2> HIDE DEF w, n
  <2>3. Emitted(w, <<"refund", c, n>>) \in Event /\ SnapOK(was \cup FactsOf(w), w)
    <3>1. Emitted(w, <<"refund", c, n>>) \in Event
      BY <2>1, <2>2 DEF Event, EventType
    <3>2. SnapOK(was \cup FactsOf(w), w)
      BY <2>1 DEF SnapOK
    <3>3. QED
      BY <3>1, <3>2
  <2>4. QED
    BY <1>6, <2>1, <2>2, <2>3 DEF EventOK
<1>8. EventOK(was \cup FactsOf(w), Emitted(w, <<"charge", c, 0>>))
  BY <1>5, NewView, PlainEvent
<1>9. Change(w, emitted)
  BY <1>2
<1> HIDE DEF w, n
<1>10. Noted(was \cup FactsOf(w), w, emitted)
  BY <1>7, <1>8 DEF Noted
<1> HIDE DEF emitted
<1>11. QED
  BY <1>5, <1>9, <1>10, ChangeKeeps

LEMMA RefundFailsKeeps == ASSUME IInv, RefundFails PROVE IInv'
<1>1. PICK c \in PaymentId : Change([stripe EXCEPT !.refunded[c] = 0], {<<"charge", c, 0>>})
  BY DEF RefundFails
<1> DEFINE w == [stripe EXCEPT !.refunded[c] = 0]
<1>2. InOrder(w)
  <2>1. stripe \in World /\ InOrder(stripe) /\ 0 \in 0..Amount
    BY AmountSays DEF IInv, StripeOK, InOrder
  <2>2. [stripe.refunded EXCEPT ![c] = 0] \in [PaymentId -> 0..Amount]
    BY <2>1 DEF World
  <2>3. w \in World
    BY <2>1, <2>2 DEF World
  <2>4. /\ w.pay = stripe.pay /\ w.session = stripe.session /\ w.recurring = stripe.recurring
        /\ w.sub = stripe.sub
    BY <2>1 DEF World
  <2>5. QED
    BY <2>1, <2>3, <2>4 DEF InOrder
<1>3. Noted(was \cup FactsOf(w), w, {<<"charge", c, 0>>})
  BY <1>2, NewView, PlainEvent DEF Noted
<1> HIDE DEF w
<1>4. QED
  BY <1>1, <1>2, <1>3, ChangeKeeps DEF w

LEMMA StripeChangeKeeps == ASSUME IInv, StripeChange PROVE IInv'
  BY CardDeclinedKeeps, SessionExpiresKeeps, SessionPaidKeeps, RefundedKeeps, RefundFailsKeeps,
     CancelAtPeriodEndKeeps, RenewalDeclinedKeeps, RenewalPaidKeeps, RenewalAbandonedKeeps,
     SubscriptionEndsKeeps DEF StripeChange

-----------------------------------------------------------------------------
(* Steps of the workers.                                                   *)

\* A purchase starts with nothing true of it.
LEMMA NothingYet ==
    ASSUME NEW r \in BOOLEAN
    PROVE /\ InOrder(NewWorld(r)) /\ FactsOf(NewWorld(r)) = {}
          /\ \A F : SnapOK(F, NewWorld(r))
<1>1. /\ [c \in PaymentId |-> "none"] \in [PaymentId -> PayState]
      /\ [c \in PaymentId |-> 0] \in [PaymentId -> 0..Amount]
  BY AmountSays DEF PayState
<1>2. NewWorld(r) \in World
  BY <1>1 DEF NewWorld, World, SubStatus
<1>3. /\ 1 \in PaymentId /\ 2 \in PaymentId
      /\ \A c \in PaymentId : NewWorld(r).pay[c] = "none" /\ NewWorld(r).refunded[c] = 0
      /\ NewWorld(r).sub = "" /\ NewWorld(r).session = "open"
  BY DEF NewWorld, PaymentId
<1>4. 0 # Amount /\ 0 \notin 1..(Amount - 1)
  BY AmountAssumption
<1>5. FactsOf(NewWorld(r)) = {}
  <2> DEFINE w == NewWorld(r)
  <2>0. /\ \A c \in PaymentId : w.pay[c] = "none" /\ w.refunded[c] = 0
        /\ w.sub = "" /\ w.session = "open"
    BY <1>3
  <2> HIDE DEF w
  <2>1. FactsOf(w) \subseteq {"paid", "failed", "payment_canceled", "checkout_expired", "refunded",
            "partially_refunded", "subscription_past_due", "subscription_lapsed",
            "subscription_canceling", "subscription_canceled"}
    BY DEF FactsOf, Fact, LifecycleStatus, RefundStatus
  <2>2. /\ "paid" \notin FactsOf(w) /\ "failed" \notin FactsOf(w)
        /\ "payment_canceled" \notin FactsOf(w) /\ "checkout_expired" \notin FactsOf(w)
        /\ "subscription_past_due" \notin FactsOf(w) /\ "subscription_lapsed" \notin FactsOf(w)
        /\ "subscription_canceling" \notin FactsOf(w) /\ "subscription_canceled" \notin FactsOf(w)
    BY <2>0, FactsSay
  <2>3. "refunded" \notin FactsOf(w) /\ "partially_refunded" \notin FactsOf(w)
    <3>1. \A c \in PaymentId : w.refunded[c] # Amount /\ w.refunded[c] \notin 1..(Amount - 1)
      BY <2>0, <1>4
    <3>2. QED
      BY <3>1, FactsSay
  <2>4. QED
    BY <2>1, <2>2, <2>3 DEF w
<1>6. QED
  BY <1>2, <1>3, <1>5 DEF InOrder, SnapOK

\* A free goroutine claims nothing.
LEMMA IdleSays ==
    /\ Idle \in Worker
    /\ Idle.pc = "idle" /\ Idle.holds = FALSE /\ Idle.snap = NewWorld(FALSE)
    /\ \A F : WorkerOK(F, Idle)
<1>1. NewRow \in Row /\ NewWorld(FALSE) \in World /\ 0 \in 0..Amount
  BY NothingYet, AmountSays DEF NewRow, Row, Status, EmailStatus, SubStatus, InOrder
<1>2. Idle \in Worker
  BY <1>1 DEF Idle, Worker, Step
<1>3. Idle.pc = "idle" /\ Idle.holds = FALSE /\ Idle.snap = NewWorld(FALSE)
  BY DEF Idle
<1>4. \A F : WorkerOK(F, Idle)
  BY <1>2, <1>3, NothingYet DEF WorkerOK, PaidStep
<1>5. QED
  BY <1>2, <1>3, <1>4

\* A goroutine that marks the row: it carries no view of Stripe.
LEMMA MarkOK ==
    ASSUME NEW F, "paid" \in F, NEW pc \in {"sent", "failed", "preserve", "pending"}
    PROVE WorkerOK(F, [Idle EXCEPT !.pc = pc])
<1> DEFINE k == [Idle EXCEPT !.pc = pc]
<1>1. k \in Worker /\ k.pc = pc /\ k.holds = FALSE /\ k.snap = NewWorld(FALSE)
  BY IdleSays DEF Worker, Step, Write
<1> HIDE DEF k
<1>2. WorkerOK(F, k)
  BY <1>1, NothingYet DEF WorkerOK
<1>3. QED
  BY <1>2 DEF k

\* A task that starts, or goes on, with nothing read.
LEMMA TaskOK ==
    ASSUME NEW F, NEW pc \in Step, NEW w, SnapOK(F, w), NEW c \in {0} \cup PaymentId,
           NEW n \in 0..Amount,
           pc \in PaidStep => "paid" \in F,
           pc = "completed" => w.session = "complete",
           pc = "expired" => w.session = "expired",
           pc = "refund" => n # 0 /\ RefundClaimed(F, n),
           pc \in {"invoice", "intent", "charge", "refund", "subscription"} => c \in PaymentId
    PROVE WorkerOK(F, Task(pc, w, c, n))
<1>1. w \in World
  BY DEF SnapOK
<1>2. Task(pc, w, c, n) \in Worker
  BY <1>1, IdleSays DEF Task, Worker
<1>3. /\ Task(pc, w, c, n).pc = pc /\ Task(pc, w, c, n).snap = w /\ Task(pc, w, c, n).of = c
      /\ Task(pc, w, c, n).amount = n /\ Task(pc, w, c, n).holds = FALSE
  BY IdleSays DEF Task, Worker
<1>4. QED
  BY <1>2, <1>3 DEF WorkerOK

\* One worker changes, and perhaps the row.
LEMMA WorkerKeeps ==
    ASSUME IInv, NEW g \in Workers, NEW k, WorkerOK(was, k), worker' = [worker EXCEPT ![g] = k],
           UNCHANGED <<stripe, was, events>>, RowOK(was, row'), CountsOK'
    PROVE IInv'
<1>1. worker' \in [Workers -> Worker]
  BY DEF IInv, WorkerOK
<1>2. \A h \in Workers : WorkerOK(was, worker'[h])
  BY DEF IInv
<1>3. StripeOK' /\ was' = was /\ events' = events
  BY DEF IInv, StripeOK
<1>4. RowOK(was', row') /\ \A e \in events' : EventOK(was', e)
  BY <1>3 DEF IInv
<1>5. QED
  BY <1>1, <1>2, <1>3, <1>4 DEF IInv

\* A task that starts changes one worker and a counter.
LEMMA BeginKeeps ==
    ASSUME IInv, NEW g \in Workers, NEW k, WorkerOK(was, k), Begin(g, k),
           UNCHANGED <<stripe, was, changes, events, row, limit>>,
           mail' \in 0..limit.mail, mail' > 0 => "paid" \in was
    PROVE IInv'
<1>1. /\ worker' = [worker EXCEPT ![g] = k] /\ RowOK(was, row')
  BY DEF Begin, IInv
<1>2. limit \in Limit
  BY LedgerAssumption DEF IInv, CountsOK
<1>3. started' \in [tasks : 0..limit.tasks, reconciles : 0..limit.reconciles]
  BY <1>2 DEF Begin, IInv, CountsOK, Limit
<1>4. CountsOK'
  BY <1>3 DEF IInv, CountsOK
<1>5. QED
  BY <1>1, <1>4, WorkerKeeps

\* The task a delivered event starts is what EventOK says of the event.
LEMMA DeliverKeeps == ASSUME IInv, NEW g \in Workers, Deliver(g) PROVE IInv'
<1>1. PICK e \in events, pc \in Write :
        /\ Handles(e, pc) /\ Begin(g, Task(pc, e.snap, e.of, e.amount))
        /\ UNCHANGED <<stripe, was, changes, events, row, mail, limit>>
  BY DEF Deliver
<1>2. EventOK(was, e) /\ SnapOK(was, e.snap) /\ e.of \in PaymentId /\ e.amount \in 0..Amount
  BY DEF IInv, EventOK, Event
<1>3. e.snap.session = "complete" => "paid" \in was
  BY <1>2, FactsSay DEF SnapOK
<1>4. /\ pc \in {"completed", "expired", "invoice", "subscription", "intent", "charge", "refund"}
      /\ pc = "completed" => e.type = "checkout.session.completed"
      /\ pc = "expired" => e.type = "checkout.session.expired"
      /\ pc = "refund" => e.type = "refund"
  BY <1>1 DEF Handles
<1>5. pc \in Step /\ (pc \in PaidStep => pc = "completed")
  BY <1>4 DEF Step, PaidStep
<1>6. WorkerOK(was, Task(pc, e.snap, e.of, e.amount))
  BY <1>2, <1>3, <1>4, <1>5, TaskOK DEF EventOK
<1>7. mail' \in 0..limit.mail /\ (mail' > 0 => "paid" \in was)
  BY <1>1 DEF IInv, CountsOK
<1>8. QED
  BY <1>1, <1>6, <1>7, BeginKeeps

LEMMA DeliverRefundAsChargeKeeps ==
    ASSUME IInv, NEW g \in Workers, DeliverRefundAsCharge(g) PROVE IInv'
<1>1. PICK e \in events : /\ Begin(g, Task("charge", stripe, e.of, 0))
                          /\ UNCHANGED <<stripe, was, changes, events, row, mail, limit>>
  BY DEF DeliverRefundAsCharge
<1>2. e.of \in PaymentId /\ SnapOK(was, stripe) /\ 0 \in 0..Amount
  BY AmountSays DEF IInv, EventOK, Event, StripeOK
<1>3. WorkerOK(was, Task("charge", stripe, e.of, 0))
  BY <1>2, TaskOK DEF Step, Write, PaidStep
<1>4. mail' \in 0..limit.mail /\ (mail' > 0 => "paid" \in was)
  BY <1>1 DEF IInv, CountsOK
<1>5. QED
  BY <1>1, <1>3, <1>4, BeginKeeps

LEMMA EmailGoroutineKeeps == ASSUME IInv, NEW g \in Workers, EmailGoroutine(g) PROVE IInv'
<1>1. PICK pc \in {"sent", "failed"} : Begin(g, [Idle EXCEPT !.pc = pc])
  BY DEF EmailGoroutine
<1>2. /\ mail > 0 /\ mail' = mail - 1
      /\ UNCHANGED <<stripe, was, changes, events, row, limit>>
  BY DEF EmailGoroutine
<1>3. limit.mail \in Nat /\ mail \in 0..limit.mail /\ "paid" \in was
  BY <1>2, LedgerAssumption DEF IInv, CountsOK, Limit
<1>4. WorkerOK(was, [Idle EXCEPT !.pc = pc])
  BY <1>3, MarkOK
<1>5. mail' \in 0..limit.mail
  BY <1>2, <1>3
<1>6. QED
  BY <1>1, <1>2, <1>3, <1>4, <1>5, BeginKeeps

\* An invite is recovered only for a row that was paid for.
LEMMA RecoverablePaid == ASSUME IInv, CanRecoverInvite(row) PROVE "paid" \in was
<1>1. RowOK(was, row) /\ StripeOK
  BY DEF IInv
<1>2. CASE row.paid
  BY <1>1, <1>2 DEF RowOK
<1>3. CASE row.status \in PaidStatus
  BY <1>1, <1>3 DEF RowOK, Claimed
<1>4. CASE row.status \in {"subscription_canceling", "subscription_past_due"}
  BY <1>1, <1>4 DEF RowOK, Claimed, StripeOK, LifecycleStatus
<1>5. QED
  BY <1>2, <1>3, <1>4 DEF CanRecoverInvite, PaidStatus

LEMMA PreserveExpiredInviteKeeps ==
    ASSUME IInv, NEW g \in Workers, PreserveExpiredInvite(g) PROVE IInv'
<1>1. PICK pc \in {"preserve", "pending"} : Begin(g, [Idle EXCEPT !.pc = pc])
  BY DEF PreserveExpiredInvite
<1>2. UNCHANGED <<stripe, was, changes, events, row, mail, limit>> /\ "paid" \in was
  BY RecoverablePaid DEF PreserveExpiredInvite
<1>3. WorkerOK(was, [Idle EXCEPT !.pc = pc])
  BY <1>2, MarkOK
<1>4. mail' \in 0..limit.mail
  BY <1>2 DEF IInv, CountsOK
<1>5. QED
  BY <1>1, <1>2, <1>3, <1>4, BeginKeeps

LEMMA ReconcileKeeps == ASSUME IInv, NEW g \in Workers, Reconcile(g) PROVE IInv'
<1> DEFINE t == Task("recSession", stripe, 0, 0)
           k == [t EXCEPT !.task = "listed", !.loaded = {"session"}]
<1>1. WorkerOK(was, t)
  BY TaskOK, AmountSays DEF IInv, StripeOK, Step, Write, PaidStep
<1>2. t.pc = "recSession"
  BY IdleSays DEF Task, Worker
<1> HIDE DEF t
<1>3. k \in Worker /\ k.pc = t.pc /\ k.holds = t.holds /\ k.seen = t.seen /\ k.snap = t.snap
  BY <1>1 DEF WorkerOK, Worker, Object
<1> HIDE DEF k
<1>4. WorkerOK(was, k)
  BY <1>1, <1>2, <1>3 DEF WorkerOK, PaidStep
<1>5. limit \in Limit
  BY LedgerAssumption DEF IInv, CountsOK
<1>6. started' \in [tasks : 0..limit.tasks, reconciles : 0..limit.reconciles]
  BY <1>5 DEF Reconcile, IInv, CountsOK, Limit
<1>7. /\ worker' = [worker EXCEPT ![g] = k]
      /\ UNCHANGED <<stripe, was, changes, events, row, mail, limit>>
  BY DEF Reconcile, k, t
<1>8. CountsOK'
  BY <1>6, <1>7 DEF IInv, CountsOK
<1>9. RowOK(was, row')
  BY <1>7 DEF IInv
<1>10. QED
  BY <1>4, <1>7, <1>8, <1>9, WorkerKeeps

\* The answer to a cancellation is a change like any other, and an event at once.
LEMMA ApplyCancellationKeeps == ASSUME IInv, NEW g \in Workers, ApplyCancellation(g) PROVE IInv'
<1>1. PICK w \in {[stripe EXCEPT !.sub = "canceled"], [stripe EXCEPT !.atEnd = TRUE],
                  [stripe EXCEPT !.atEnd = FALSE]} :
        /\ Begin(g, Task("subscription", w, 1, 0))
        /\ changes' = IF w = stripe THEN changes ELSE changes + 1
        /\ changes' <= limit.changes
        /\ Becomes(w, IF w = stripe THEN {} ELSE {<<"subscription", 1, 0>>})
  BY DEF ApplyCancellation
<1>2. stripe.sub # "" /\ UNCHANGED <<row, mail, limit>>
  BY DEF ApplyCancellation
<1>3. InOrder(w)
  <2>1. InOrder(stripe) /\ stripe \in World
    BY DEF IInv, StripeOK, InOrder
  <2>2. /\ w \in World /\ w.pay = stripe.pay /\ w.session = stripe.session
        /\ w.recurring = stripe.recurring
    BY <2>1 DEF World, SubStatus
  <2>3. QED
    BY <1>2, <2>1, <2>2 DEF InOrder
<1> DEFINE emitted == IF w = stripe THEN {} ELSE {<<"subscription", 1, 0>>}
<1>4. Noted(was \cup FactsOf(w), w, emitted)
  BY <1>3, NewView, PlainEvent DEF Noted, PaymentId
<1> HIDE DEF emitted
<1>5. StripeOK' /\ was \subseteq was' /\ \A e \in events' : EventOK(was', e)
  <2>1. Becomes(w, emitted)
    BY <1>1 DEF emitted
  <2>2. QED
    BY <1>3, <1>4, <2>1, ChangeOK
<1>6. WorkerOK(was', Task("subscription", w, 1, 0))
  <2>1. SnapOK(was', w)
    BY <1>1, <1>3, NewView DEF Becomes
  <2>2. QED
    <3>1. "subscription" \in Step /\ "subscription" \notin PaidStep /\ 1 \in PaymentId /\ 0 \in 0..Amount
      BY AmountSays DEF Step, Write, PaidStep, PaymentId
    <3>2. QED
      BY <2>1, <3>1, TaskOK
<1>7. worker' = [worker EXCEPT ![g] = Task("subscription", w, 1, 0)]
  BY <1>1 DEF Begin
<1>8. worker' \in [Workers -> Worker] /\ \A h \in Workers : WorkerOK(was', worker'[h])
  BY <1>5, <1>6, <1>7, Grows DEF IInv, WorkerOK
<1>9. limit \in Limit /\ changes \in 0..limit.changes
  BY LedgerAssumption DEF IInv, CountsOK
<1>10. started' \in [tasks : 0..limit.tasks, reconciles : 0..limit.reconciles]
  BY <1>1, <1>9 DEF Begin, IInv, CountsOK, Limit
<1>11. changes' \in 0..limit.changes
  BY <1>1, <1>9 DEF Limit
<1>12. CountsOK'
  BY <1>2, <1>5, <1>10, <1>11 DEF IInv, CountsOK
<1>13. RowOK(was', row')
  BY <1>2, <1>5, Grows DEF IInv
<1>14. QED
  BY <1>5, <1>8, <1>12, <1>13 DEF IInv

\* The copy a worker takes of the row is justified because the row is.
LEMMA ReadRowKeeps == ASSUME IInv, NEW g \in Workers, ReadRow(g) PROVE IInv'
<1> DEFINE k == [worker[g] EXCEPT !.holds = TRUE, !.seen = row]
<1>1. worker[g] \in Worker /\ WorkerOK(was, worker[g]) /\ RowOK(was, row) /\ row \in Row
  BY DEF IInv, RowOK
<1>2. /\ k \in Worker /\ k.seen = row /\ k.pc = worker[g].pc /\ k.snap = worker[g].snap
      /\ k.amount = worker[g].amount /\ k.of = worker[g].of
  BY <1>1 DEF Worker
<1>3. worker' = [worker EXCEPT ![g] = k]
  BY DEF ReadRow, IInv
<1> HIDE DEF k
<1>4. WorkerOK(was, k)
  BY <1>1, <1>2 DEF WorkerOK
<1>5. UNCHANGED <<stripe, was, events>> /\ RowOK(was, row')
  BY <1>1 DEF ReadRow
<1>6. CountsOK'
  BY DEF IInv, CountsOK, ReadRow
<1>7. QED
  BY <1>3, <1>4, <1>5, <1>6, WorkerKeeps

\* What a worker does next needs no more than what it did.
LEMMA MovedOK ==
    ASSUME NEW F, NEW k, WorkerOK(F, k),
           NEW pc \in {"idle", "recover", "load"} \cup (PaidStep \ {"completed"}),
           pc \in PaidStep => "paid" \in F
    PROVE WorkerOK(F, Moved(k, pc))
<1>1. CASE pc = "idle"
  BY <1>1, IdleSays DEF Moved
<1>2. CASE pc = "recover"
  <2> DEFINE m == [k EXCEPT !.pc = pc, !.holds = FALSE, !.seen = NewRow]
  <2>1. m \in Worker /\ m.pc = "recover" /\ m.holds = FALSE /\ m.snap = k.snap
    BY <1>2, IdleSays DEF WorkerOK, Worker, Idle, Step
  <2> HIDE DEF m
  <2>2. WorkerOK(F, m)
    BY <2>1 DEF WorkerOK, PaidStep
  <2>3. QED
    BY <1>2, <2>2 DEF Moved, m
<1>3. CASE pc # "idle" /\ pc # "recover"
  <2> DEFINE m == [Idle EXCEPT !.pc = pc, !.task = k.task]
  <2>1. m \in Worker /\ m.pc = pc /\ m.holds = FALSE /\ m.snap = NewWorld(FALSE)
    <3>1. pc \in Step
      BY DEF PaidStep, Step, Write
    <3>2. k.task \in {"webhook", "listed", "stored"}
      BY DEF WorkerOK, Worker
    <3>3. QED
      BY <3>1, <3>2, IdleSays DEF Worker
  <2> HIDE DEF m
  <2>2. WorkerOK(F, m)
    BY <1>3, <2>1, NothingYet DEF WorkerOK, PaidStep
  <2>3. QED
    BY <1>3, <2>2 DEF Moved, m
<1>4. QED
  BY <1>1, <1>2, <1>3

\* Only a payment that was received is followed by a fulfilment.
LEMMA ContinueSays ==
    ASSUME NEW k, NEW pc \in Continue(k)
    PROVE /\ pc \in {"idle", "recover", "load"} \cup (PaidStep \ {"completed"})
          /\ pc \in PaidStep => k.pc \in PaidStep
<1>1. Return(k) \subseteq {"idle", "load"}
  BY DEF Return
<1>2. QED
  BY <1>1 DEF Continue, PaidStep

\* setPayment's second half: the row a justified copy leads to is justified.
LEMMA WriteRowKeeps == ASSUME IInv, NEW g \in Workers, WriteRow(g) PROVE IInv'
<1> DEFINE k == worker[g]
<1>1. WorkerOK(was, k) /\ k.pc \in Write /\ k.holds
  BY DEF WriteRow, IInv
<1>2. PICK linked \in BOOLEAN : row' = Mutate(k, k.seen, linked)
  BY DEF WriteRow
<1>3. PICK pc \in Continue(k) : worker' = [worker EXCEPT ![g] = Moved(k, pc)]
  BY DEF WriteRow
<1>4. /\ k.pc = "pending" => mail < limit.mail
      /\ mail' = IF k.pc = "pending" THEN mail + 1 ELSE mail
      /\ UNCHANGED <<stripe, was, changes, events, started, limit>>
  BY DEF WriteRow
<1> HIDE DEF k
<1>5. RowOK(was, row')
  BY <1>1, <1>2, MutateOK
<1>6. WorkerOK(was, Moved(k, pc))
  BY <1>1, <1>3, ContinueSays, MovedOK DEF WorkerOK
<1>7. CountsOK'
  <2>1. limit.mail \in Nat /\ mail \in 0..limit.mail
    BY LedgerAssumption DEF IInv, CountsOK, Limit
  <2>2. mail' \in 0..limit.mail
    BY <1>4, <2>1
  <2>3. mail' > 0 => "paid" \in was
    BY <1>1, <1>4, <2>1 DEF IInv, CountsOK, WorkerOK, PaidStep
  <2>4. QED
    BY <1>4, <2>2, <2>3 DEF IInv, CountsOK
<1>8. QED
  BY <1>3, <1>4, <1>5, <1>6, <1>7, WorkerKeeps

\* The recovery grants for a session that is complete.
LEMMA RecoverKeeps == ASSUME IInv, NEW g \in Workers, Recover(g) PROVE IInv'
<1> DEFINE k == worker[g]
<1>1. WorkerOK(was, k)
  BY DEF IInv
<1>2. k.snap.session = "complete" => "paid" \in was
  BY <1>1, FactsSay DEF WorkerOK, SnapOK
<1>3. PICK pc : /\ worker' = [worker EXCEPT ![g] = Moved(k, pc)]
                /\ \/ pc \in Return(k)
                   \/ /\ pc \in {"plan", "relink", "pending", "disabled", "failed"}
                      /\ k.snap.session = "complete"
  BY DEF Recover
<1>4. UNCHANGED <<stripe, was, changes, events, row, started, mail, limit>>
  BY DEF Recover
<1> HIDE DEF k
<1>5. pc \in {"idle", "recover", "load"} \cup (PaidStep \ {"completed"}) /\ (pc \in PaidStep => "paid" \in was)
  BY <1>2, <1>3 DEF Return, PaidStep
<1>6. WorkerOK(was, Moved(k, pc))
  BY <1>1, <1>5, MovedOK
<1>7. CountsOK' /\ RowOK(was, row')
  BY <1>4 DEF IInv, CountsOK
<1>8. QED
  BY <1>3, <1>4, <1>6, <1>7, WorkerKeeps

\* What is loaded is Stripe as it is, and the ids are those of payments.
LEMMA LoadKeeps == ASSUME IInv, NEW g \in Workers, Load(g) PROVE IInv'
<1> DEFINE k == worker[g]
           i(got) == InvoiceToLoad(got, stripe)
           c(got) == CASE row.intent # 0 -> row.intent
                       [] row.intent = 0 /\ ~stripe.recurring /\ "session" \in got -> 1
                       [] OTHER -> i(got)
           m(got) == [Moved(k, "recStored") EXCEPT !.task = "stored", !.snap = stripe,
                                                   !.loaded = got, !.inv = i(got), !.of = c(got)]
<1>1. PICK got \in SUBSET Existing(stripe) : worker' = [worker EXCEPT ![g] = m(got)]
  BY DEF Load
<1>2. UNCHANGED <<stripe, was, changes, events, row, started, mail, limit>>
  BY DEF Load
<1>3. stripe \in World /\ SnapOK(was, stripe) /\ row \in Row /\ k \in Worker
  BY DEF IInv, StripeOK, SnapOK, RowOK
<1>4. got \subseteq Object
  BY DEF Existing
<1>5. i(got) \in {0} \cup PaymentId
  <2>1. 1 \in PaymentId /\ 2 \in PaymentId /\ row.invoice \in {0} \cup PaymentId
    BY <1>3 DEF Row, PaymentId
  <2>2. InvoiceOf(stripe, 1).id \in {0} \cup PaymentId
    BY <1>3, <2>1, ObjectTypes DEF Invoice
  <2>3. LatestInvoice(stripe) \in PaymentId
    BY <2>1 DEF LatestInvoice
  <2> DEFINE j == IF row.invoice # 0 THEN row.invoice
                  ELSE IF "session" \in got THEN InvoiceOf(stripe, 1).id ELSE 0
  <2>4. j \in {0} \cup PaymentId
    BY <2>1, <2>2
  <2>5. i(got) \in {j, LatestInvoice(stripe), 0}
    BY DEF InvoiceToLoad
  <2>6. QED
    BY <2>3, <2>4, <2>5
<1> HIDE DEF i
<1>6. c(got) \in {0} \cup PaymentId
  BY <1>3, <1>5 DEF Row, PaymentId
<1> HIDE DEF c
<1>7. Moved(k, "recStored") = [Idle EXCEPT !.pc = "recStored", !.task = k.task]
  BY DEF Moved
<1>8. m(got) \in Worker /\ m(got).pc = "recStored" /\ m(got).holds = FALSE /\ m(got).snap = stripe
  BY <1>3, <1>4, <1>5, <1>6, <1>7, IdleSays DEF Worker, Step, Write
<1> HIDE DEF m
<1>9. WorkerOK(was, m(got))
  BY <1>3, <1>8 DEF WorkerOK, PaidStep
<1>10. CountsOK' /\ RowOK(was, row')
  BY <1>2 DEF IInv, CountsOK
<1>11. QED
  BY <1>1, <1>2, <1>9, <1>10, WorkerKeeps

-----------------------------------------------------------------------------
(* The invariant, and what it says of the row.                             *)

\* The purchase starts justified ...
LEMMA IInvStarts == Init => IInv
<1> SUFFICES ASSUME Init PROVE IInv
  OBVIOUS
<1>1. PICK r \in BOOLEAN : stripe = NewWorld(r)
  BY DEF Init
<1>2. was = {} /\ StripeOK
  BY <1>1, NothingYet DEF Init, StripeOK
<1>3. CountsOK
  <2>1. limit \in Limit /\ limit \in Limits
    BY LedgerAssumption DEF Init
  <2>2. 0 \in 0..limit.changes /\ 0 \in 0..limit.tasks /\ 0 \in 0..limit.reconciles /\ 0 \in 0..limit.mail
    BY <2>1 DEF Limit
  <2>3. QED
    BY <2>1, <2>2 DEF Init, CountsOK
<1>4. RowOK(was, row)
  <2> DEFINE p == [NewRow EXCEPT !.status = "checkout_created", !.email = "not_started"]
  <2>1. /\ p \in Row /\ p.status = "checkout_created" /\ p.paid = FALSE /\ p.fulfilled = FALSE
        /\ p.refunded = 0
    BY AmountSays DEF NewRow, Row, Status, EmailStatus, SubStatus
  <2>2. RefundClaimed(was, 0) /\ Claimed(was, "checkout_created")
    BY AmountAssumption DEF RefundClaimed, Claimed, LifecycleStatus, RefundStatus, PaidStatus
  <2> HIDE DEF p
  <2>3. RowOK(was, p)
    BY <2>1, <2>2 DEF RowOK
  <2>4. QED
    BY <2>3 DEF Init, p
<1>5. events = {} /\ worker \in [Workers -> Worker] /\ \A g \in Workers : WorkerOK(was, worker[g])
  BY IdleSays DEF Init
<1>6. QED
  BY <1>2, <1>3, <1>4, <1>5 DEF IInv

\* ... every step keeps it so ...
LEMMA IInvInductive == IInv /\ [Next]_vars => IInv'
<1> SUFFICES ASSUME IInv, [Next]_vars PROVE IInv'
  OBVIOUS
<1>1. CASE UNCHANGED vars
  BY <1>1 DEF vars, IInv, StripeOK, CountsOK
<1>2. CASE StripeChange
  BY <1>2, StripeChangeKeeps
<1>3. ASSUME NEW g \in Workers,
             \/ Deliver(g) \/ DeliverRefundAsCharge(g) \/ ApplyCancellation(g)
             \/ Reconcile(g) \/ EmailGoroutine(g) \/ PreserveExpiredInvite(g)
             \/ ReadRow(g) \/ WriteRow(g) \/ Recover(g) \/ Load(g)
      PROVE IInv'
  BY <1>3, DeliverKeeps, DeliverRefundAsChargeKeeps, ApplyCancellationKeeps, ReconcileKeeps,
     EmailGoroutineKeeps, PreserveExpiredInviteKeeps, ReadRowKeeps, WriteRowKeeps, RecoverKeeps,
     LoadKeeps
<1>4. QED
  BY <1>1, <1>2, <1>3 DEF Next

\* ... and a justified row fabricates nothing.
LEMMA IInvImplies == IInv => TypeOK /\ NoFabricatedStatus
<1> SUFFICES ASSUME IInv PROVE TypeOK /\ NoFabricatedStatus
  OBVIOUS
<1>1. TypeOK
  BY DEF IInv, StripeOK, SnapOK, CountsOK, RowOK, EventOK, TypeOK
<1>2. RowOK(was, row) /\ row.status \in Status
  BY DEF IInv, RowOK, Row
<1>3. Evidence(row.status) \subseteq was
  BY <1>2 DEF Evidence, RowOK, Claimed, PaidStatus
<1>4. Grounded(row)
  BY <1>2, <1>3 DEF Grounded, RowOK, RefundClaimed
<1>5. QED
  BY <1>1, <1>4 DEF NoFabricatedStatus

\* The inductive invariant holds in every reachable state.
LEMMA AlwaysIInv == Spec => []IInv
  BY IInvStarts, IInvInductive, PTL DEF Spec

\* In every reachable state the row, Stripe's objects, every event and all a worker
\* holds have their types, and the behaviour stays within its bounds.
THEOREM TypeCorrect == Spec => []TypeOK
  BY AlwaysIInv, IInvImplies, PTL

\* However late, often or out of order events arrive and however the unlocked
\* read-modify-writes of setPayment (payments.go) overlap, the stored row claims no
\* status, payment or refund that was never true at Stripe.
THEOREM NothingMadeUp == Spec => []NoFabricatedStatus
  BY AlwaysIInv, IInvImplies, PTL

-----------------------------------------------------------------------------
(* What undoes a full refund.                                              *)

\* With every fact true, a justified row is any row: the lemmas above type the rows.
LEMMA AnyRow ==
    /\ \A p : RowOK(Fact, p) <=> p \in Row
    /\ \A w \in World : SnapOK(Fact, w)
    /\ \A n : RefundClaimed(Fact, n)
    /\ LifecycleStatus \cup {"paid", "failed"} \subseteq Fact
<1>1. LifecycleStatus \cup {"paid", "failed"} \subseteq Fact
  BY DEF Fact
<1>2. \A n : RefundClaimed(Fact, n)
  BY <1>1 DEF RefundClaimed, LifecycleStatus, RefundStatus
<1>3. \A p : RowOK(Fact, p) <=> p \in Row
  BY <1>1, <1>2 DEF RowOK, Claimed
<1>4. \A w \in World : SnapOK(Fact, w)
  BY DEF SnapOK, FactsOf
<1>5. QED
  BY <1>1, <1>2, <1>3, <1>4

\* What the functions of PaymentRecord return is a row.
LEMMA RowTypes ==
    ASSUME NEW p \in Row
    PROVE /\ \A c \in Charge : ApplyCharge(c, p) \in Row
          /\ \A pi \in Intent : ApplyIntent(pi, p) \in Row
          /\ \A inv \in Invoice : ApplyInvoice(inv, p) \in Row
          /\ \A s \in Subscription : ApplySubscription(s, p) \in Row
          /\ \A s \in Session : ApplySession(s, p) \in Row
<1>1. /\ {"paid", "failed", "payment_canceled", "subscription_past_due", "subscription_lapsed",
          "subscription_canceling", "subscription_canceled", "checkout_expired"} \subseteq Fact
      /\ RowOK(Fact, p)
  BY AnyRow DEF LifecycleStatus
<1>2. \A c \in Charge : ApplyCharge(c, p) \in Row
  BY <1>1, AnyRow, ChargeOK
<1>3. \A pi \in Intent : ApplyIntent(pi, p) \in Row
  BY <1>1, AnyRow, IntentOK
<1>4. \A inv \in Invoice : ApplyInvoice(inv, p) \in Row
  BY <1>1, AnyRow, InvoiceOK
<1>5. \A s \in Subscription : ApplySubscription(s, p) \in Row
  BY <1>1, AnyRow, SubscriptionOK
<1>6. \A s \in Session : ApplySession(s, p) \in Row
  BY <1>1, AnyRow, SessionOK
<1>7. QED
  BY <1>2, <1>3, <1>4, <1>5, <1>6

FullyRefunded(p) == p \in Row /\ p.status = "refunded"

\* Nothing outranks a full refund, and it is not cleared (paymentLifecycleStatusPriority).
LEMMA RefundOutranks ==
    ASSUME NEW p, FullyRefunded(p)
    PROVE /\ \A s \in Status : SetLifecycle(p, s).status = "refunded"
          /\ ClearLifecycle(p) = p
          /\ \A s, from : "refunded" \notin from => RaiseTo(p, s, from) = p
<1>1. \A s \in Status : Priority(s) >= Priority("refunded") => s = "refunded"
  <2>1. Priority("refunded") = 110
    BY DEF Priority
  <2>2. ASSUME NEW s, s # "refunded" PROVE Priority(s) \in Nat /\ Priority(s) < 110
    BY <2>2 DEF Priority
  <2>3. QED
    BY <2>1, <2>2
<1>2. \A s \in Status : SetLifecycle(p, s).status = "refunded"
  BY <1>1 DEF SetLifecycle, FullyRefunded, Row
<1>3. QED
  BY <1>2 DEF ClearLifecycle, RaiseTo, FullyRefunded, RefundStatus

\* Writing the other fields leaves a full refund.
LEMMA RefundedFields ==
    ASSUME NEW p, FullyRefunded(p)
    PROVE /\ \A i \in {0} \cup PaymentId, b \in BOOLEAN :
                FullyRefunded([p EXCEPT !.intent = i]) /\ FullyRefunded([p EXCEPT !.invoice = i, !.hasSub = b])
          /\ \A i \in {0} \cup PaymentId, n \in 0..Amount :
                FullyRefunded([p EXCEPT !.intent = i, !.refunded = n])
          /\ \A s \in SubStatus, b \in BOOLEAN :
                FullyRefunded([p EXCEPT !.hasSub = TRUE, !.sub = s, !.atEnd = b])
          /\ FullyRefunded([p EXCEPT !.paid = TRUE])
          /\ \A b \in BOOLEAN, e \in EmailStatus : FullyRefunded([p EXCEPT !.paid = b, !.email = e])
          /\ \A b \in BOOLEAN, e \in EmailStatus : FullyRefunded([p EXCEPT !.fulfilled = b, !.email = e])
          /\ \A e \in EmailStatus : FullyRefunded([p EXCEPT !.email = e])
  BY DEF FullyRefunded, Row

\* applyStripeChargeToPayment leaves it: whatever amount it writes, the status stays.
LEMMA ChargeLeaves ==
    ASSUME NEW p, FullyRefunded(p), NEW c \in Charge
    PROVE ApplyCharge(c, p).status = "refunded"
<1> DEFINE q == [p EXCEPT !.intent = c.id, !.refunded = c.refunded]
           to == IF c.refunded >= Amount THEN "refunded" ELSE "partially_refunded"
           r == IF c.refunded = 0 THEN q ELSE SetLifecycle(q, to)
<1>1. FullyRefunded(q) /\ to \in Status /\ "failed" \in Status
  BY RefundedFields DEF Charge, Status, LifecycleStatus, RefundStatus
<1> HIDE DEF q, to
<1>2. FullyRefunded(r)
  <2>1. FullyRefunded(SetLifecycle(q, to))
    BY <1>1, RefundOutranks, SetLifecycleSays DEF FullyRefunded, Row
  <2>2. QED
    BY <1>1, <2>1
<1> HIDE DEF r
<1>3. ApplyCharge(c, p) \in {p, r, SetLifecycle(r, "failed")}
  BY DEF ApplyCharge, r, q, to
<1>4. QED
  BY <1>1, <1>2, <1>3, RefundOutranks DEF FullyRefunded

LEMMA IntentLeaves ==
    ASSUME NEW p, FullyRefunded(p), NEW pi \in Intent
    PROVE ApplyIntent(pi, p).status = "refunded"
<1> DEFINE a == [p EXCEPT !.intent = pi.id]
           q == ApplyCharge(pi.charge, a)
           r == [q EXCEPT !.paid = TRUE]
           from == {"", "checkout_created", "payment_canceled", "failed"}
<1>1. FullyRefunded(a) /\ pi.charge \in Charge /\ "failed" \in Status /\ "payment_canceled" \in Status
  BY RefundedFields DEF Intent, Status, LifecycleStatus
<1> HIDE DEF a
<1>2. FullyRefunded(q)
  BY <1>1, ChargeLeaves, RowTypes DEF FullyRefunded
<1> HIDE DEF q
<1>3. FullyRefunded(r)
  BY <1>2, RefundedFields
<1> HIDE DEF r
<1>4. ApplyIntent(pi, p) \in {p, q, RaiseTo(r, "paid", from), SetLifecycle(q, "payment_canceled"),
                              SetLifecycle(q, "failed")}
  BY DEF ApplyIntent, r, q, a
<1>5. RaiseTo(r, "paid", from) = r
  BY <1>3, RefundOutranks
<1>6. QED
  BY <1>1, <1>2, <1>3, <1>4, <1>5, RefundOutranks DEF FullyRefunded

LEMMA InvoiceLeaves ==
    ASSUME NEW p, FullyRefunded(p), NEW inv \in Invoice
    PROVE ApplyInvoice(inv, p).status = "refunded"
<1> DEFINE b == p.hasSub \/ inv.status # ""
           q == [p EXCEPT !.invoice = inv.id, !.hasSub = b]
           r == [q EXCEPT !.paid = TRUE]
           from == {"", "checkout_created", "failed", "subscription_past_due", "subscription_lapsed"}
<1>1. b \in BOOLEAN /\ inv.id \in {0} \cup PaymentId
      /\ "subscription_past_due" \in Status /\ "subscription_lapsed" \in Status
  BY DEF FullyRefunded, Row, Invoice, Status, LifecycleStatus
<1> HIDE DEF b
<1>2. FullyRefunded(q)
  BY <1>1, RefundedFields
<1> HIDE DEF q
<1>3. FullyRefunded(r)
  BY <1>2, RefundedFields
<1> HIDE DEF r
<1>4. ApplyInvoice(inv, p) \in {p, q, RaiseTo(r, "paid", from), SetLifecycle(q, "subscription_past_due"),
                                SetLifecycle(q, "subscription_lapsed")}
  BY DEF ApplyInvoice, r, q, b
<1>5. RaiseTo(r, "paid", from) = r
  BY <1>3, RefundOutranks
<1>6. QED
  BY <1>1, <1>2, <1>3, <1>4, <1>5, RefundOutranks DEF FullyRefunded

LEMMA SubscriptionLeaves ==
    ASSUME NEW p, FullyRefunded(p), NEW s \in Subscription
    PROVE ApplySubscription(s, p).status = "refunded"
<1> DEFINE q == [p EXCEPT !.hasSub = TRUE, !.sub = s.status, !.atEnd = s.atEnd]
           to == {"subscription_canceled", "subscription_lapsed", "subscription_past_due",
                  "subscription_canceling"}
<1>1. FullyRefunded(q) /\ to \subseteq Status
  BY RefundedFields DEF Subscription, Status, LifecycleStatus
<1> HIDE DEF q
<1>2. \/ ApplySubscription(s, p) \in {p, q, ClearLifecycle(q)}
      \/ \E l \in to : ApplySubscription(s, p) = SetLifecycle(q, l)
  BY DEF ApplySubscription, q
<1>3. QED
  BY <1>1, <1>2, RefundOutranks DEF FullyRefunded

LEMMA SessionLeaves ==
    ASSUME NEW p, FullyRefunded(p), NEW s \in Session
    PROVE ApplySession(s, p).status = "refunded"
<1> DEFINE a == ApplyInvoice(s.invoice, p)
           b == ApplySubscription(s.sub, a)
           q == ApplyIntent(s.intent, b)
           paid == q.paid \/ s.status = "complete"
           email == IF q.email = "" THEN "not_started" ELSE q.email
           r == [q EXCEPT !.paid = paid, !.email = email]
<1>1. s.invoice \in Invoice /\ s.sub \in Subscription /\ s.intent \in Intent
      /\ "checkout_expired" \in Status
  BY DEF Session, Status, LifecycleStatus
<1>2. FullyRefunded(a)
  BY <1>1, InvoiceLeaves, RowTypes DEF FullyRefunded
<1> HIDE DEF a
<1>3. FullyRefunded(b)
  BY <1>1, <1>2, SubscriptionLeaves, RowTypes DEF FullyRefunded
<1> HIDE DEF b
<1>4. FullyRefunded(q)
  BY <1>1, <1>3, IntentLeaves, RowTypes DEF FullyRefunded
<1>5. paid \in BOOLEAN /\ email \in EmailStatus
  BY <1>4 DEF FullyRefunded, Row, EmailStatus
<1> HIDE DEF q, paid, email
<1>6. FullyRefunded(r)
  BY <1>4, <1>5, RefundedFields
<1> HIDE DEF r
<1>7. \/ ApplySession(s, p) = SetLifecycle(r, "checkout_expired")
      \/ ApplySession(s, p) = RaiseTo(r, "paid", {"", "checkout_created", "checkout_expired"})
      \/ ApplySession(s, p) = RaiseTo(r, "checkout_created", {""})
  BY DEF ApplySession, Session, a, b, q, r, paid, email
<1>8. QED
  BY <1>1, <1>6, <1>7, RefundOutranks DEF FullyRefunded


\* Applying one of Stripe's objects leaves a full refund as it is.
LEMMA ObjectLeaves ==
    ASSUME NEW p, FullyRefunded(p), NEW w \in World
    PROVE /\ \A c \in PaymentId : /\ FullyRefunded(ApplyCharge(ChargeOf(w, c), p))
                                  /\ FullyRefunded(ApplyIntent(IntentOf(w, c), p))
                                  /\ FullyRefunded(ApplyIntent(IntentEvent(w, c), p))
                                  /\ FullyRefunded(ApplyInvoice(InvoiceOf(w, c), p))
          /\ FullyRefunded(ApplySubscription(SubOf(w), p))
          /\ FullyRefunded(ApplySession(SessionOf(w), p))
          /\ FullyRefunded(ApplySession(SessionEvent(w), p))
<1>1. p \in Row
  BY DEF FullyRefunded
<1>2. ASSUME NEW c \in PaymentId
      PROVE /\ FullyRefunded(ApplyCharge(ChargeOf(w, c), p))
            /\ FullyRefunded(ApplyInvoice(InvoiceOf(w, c), p))
  BY <1>1, ObjectTypes, RowTypes, ChargeLeaves, InvoiceLeaves DEF FullyRefunded
<1>3. ASSUME NEW c \in PaymentId
      PROVE /\ FullyRefunded(ApplyIntent(IntentOf(w, c), p))
            /\ FullyRefunded(ApplyIntent(IntentEvent(w, c), p))
  BY <1>1, ObjectTypes, RowTypes, IntentLeaves DEF FullyRefunded
<1>4. FullyRefunded(ApplySubscription(SubOf(w), p))
  BY <1>1, ObjectTypes, RowTypes, SubscriptionLeaves DEF FullyRefunded
<1>5. FullyRefunded(ApplySession(SessionOf(w), p)) /\ FullyRefunded(ApplySession(SessionEvent(w), p))
  BY <1>1, ObjectTypes, RowTypes, SessionLeaves DEF FullyRefunded
<1>6. QED
  BY <1>2, <1>3, <1>4, <1>5

\* So does the whole of a reconciliation's second write.
LEMMA StoredStateLeaves ==
    ASSUME NEW p, FullyRefunded(p), NEW k \in Worker
    PROVE StoredState(k, p).status = "refunded"
<1> DEFINE w == k.snap
           a == IF "session" \in k.loaded THEN ApplySession(SessionOf(w), p) ELSE p
           b == IF k.inv # 0 THEN ApplyInvoice(InvoiceOf(w, k.inv), a) ELSE a
           c == IF "sub" \in k.loaded THEN ApplySubscription(SubOf(w), b) ELSE b
           d == IF k.of # 0 /\ "intent" \in k.loaded THEN ApplyIntent(IntentOf(w, k.of), c) ELSE c
           e == IF k.of # 0 /\ "charge" \in k.loaded THEN ApplyCharge(ChargeOf(w, k.of), d) ELSE d
<1>1. k.inv \in {0} \cup PaymentId /\ k.of \in {0} \cup PaymentId /\ w \in World
  BY DEF Worker
<1> HIDE DEF w
<1>2. FullyRefunded(a)
  BY <1>1, ObjectLeaves
<1> HIDE DEF a
<1>3. FullyRefunded(b)
  BY <1>1, <1>2, ObjectLeaves
<1> HIDE DEF b
<1>4. FullyRefunded(c)
  BY <1>1, <1>3, ObjectLeaves
<1> HIDE DEF c
<1>5. FullyRefunded(d)
  BY <1>1, <1>4, ObjectLeaves
<1> HIDE DEF d
<1>6. FullyRefunded(e)
  BY <1>1, <1>5, ObjectLeaves
<1>7. QED
  BY <1>6 DEF StoredState, FullyRefunded, a, b, c, d, w

\* Only a completed checkout, and the first pass of the reconciliation, change the
\* status of a row they read as fully refunded.
LEMMA MutateLeaves ==
    ASSUME NEW k \in Worker, k.seen.status = "refunded", k.pc \in Write,
           k.pc \notin {"completed", "recSession"}, NEW linked \in BOOLEAN,
           k.pc \in {"invoice", "intent", "charge", "refund", "subscription"} => k.of \in PaymentId
    PROVE Mutate(k, k.seen, linked).status = "refunded"
<1> DEFINE p == k.seen
<1>1. FullyRefunded(p) /\ k.snap \in World /\ "refunded" \in LifecycleStatus
  BY DEF FullyRefunded, Worker, LifecycleStatus, RefundStatus
<1> HIDE DEF p
<1>2. CASE k.pc = "expired"
  <2>1. FullyRefunded(ApplySession(SessionEvent(k.snap), p)) /\ "checkout_expired" \in Status
    BY <1>1, ObjectLeaves DEF Status, LifecycleStatus
  <2>2. QED
    BY <1>2, <2>1, RefundOutranks DEF Mutate, p
<1>3. CASE k.pc \in {"invoice", "intent", "charge", "subscription"}
  BY <1>1, <1>3, ObjectLeaves DEF Mutate, p, FullyRefunded
<1>4. CASE k.pc = "refund"
  <2> DEFINE most == IF k.amount > p.refunded THEN k.amount ELSE p.refunded
             q == [p EXCEPT !.intent = k.of, !.refunded = most]
             to == IF most >= Amount THEN "refunded" ELSE "partially_refunded"
  <2>1. most \in 0..Amount /\ k.of \in {0} \cup PaymentId
    BY <1>1, <1>4 DEF Worker, FullyRefunded, Row
  <2> HIDE DEF most
  <2>2. FullyRefunded(q) /\ to \in Status
    BY <1>1, <2>1, RefundedFields DEF Status, LifecycleStatus, RefundStatus
  <2> HIDE DEF q, to
  <2>3. SetLifecycle(q, to).status = "refunded"
    BY <2>2, RefundOutranks
  <2>4. Mutate(k, p, linked) = SetLifecycle(q, to)
    BY <1>4 DEF Mutate, ApplyRefund, most, q, to
  <2>5. QED
    BY <2>3, <2>4 DEF p
<1>5. CASE k.pc = "recStored"
  BY <1>1, <1>5, StoredStateLeaves DEF Mutate, p
<1>6. CASE k.pc = "fulfilled"
  <2> DEFINE email == IF p.email = "" THEN "not_started" ELSE p.email
             q == [p EXCEPT !.fulfilled = TRUE, !.email = email]
  <2>1. email \in EmailStatus
    BY <1>1 DEF FullyRefunded, Row, EmailStatus
  <2> HIDE DEF email
  <2>2. q.status = "refunded"
    BY <1>1 DEF FullyRefunded, Row
  <2>3. MarkFulfilled(p) = q
    BY <1>1, <2>2 DEF MarkFulfilled, email
  <2>4. QED
    BY <1>6, <2>2, <2>3 DEF Mutate, p
<1>7. CASE k.pc \in {"pending", "disabled", "not_applicable", "sent", "failed"}
  <2>1. [p EXCEPT !.email = k.pc].status = "refunded"
    BY <1>1 DEF FullyRefunded, Row
  <2>2. MarkEmail(k.pc, p) = [p EXCEPT !.email = k.pc]
    BY <1>1 DEF MarkEmail, FullyRefunded
  <2>3. QED
    BY <1>7, <2>1, <2>2 DEF Mutate, p
<1>8. CASE k.pc \in {"preserve", "plan", "relink"}
  BY <1>1, <1>8 DEF Mutate, p, FullyRefunded
<1>9. QED
  BY <1>2, <1>3, <1>4, <1>5, <1>6, <1>7, <1>8 DEF Write

Undone == row.status = "refunded" /\ row'.status # "refunded"

UndoneBy(g) ==
    /\ worker[g].holds /\ worker'[g] # worker[g]
    /\ worker[g].seen.status # "refunded" \/ worker[g].pc \in {"completed", "recSession"}

\* The row is written by WriteRow alone.
LEMMA WrittenBy ==
    ASSUME [Next]_vars, row' # row
    PROVE \E g \in Workers : WriteRow(g)
<1>1. CASE UNCHANGED vars
  BY <1>1 DEF vars
<1>2. CASE StripeChange
  BY <1>2 DEF StripeChange, Change, CardDeclined, SessionExpires, SessionPaid, Refunded, RefundFails,
     CancelAtPeriodEnd, RenewalDeclined, RenewalPaid, RenewalAbandoned, SubscriptionEnds
<1>3. ASSUME NEW g \in Workers,
             \/ Deliver(g) \/ DeliverRefundAsCharge(g) \/ ApplyCancellation(g)
             \/ Reconcile(g) \/ EmailGoroutine(g) \/ PreserveExpiredInvite(g)
             \/ ReadRow(g) \/ Recover(g) \/ Load(g)
      PROVE row' = row
  BY <1>3 DEF Deliver, DeliverRefundAsCharge, ApplyCancellation, Reconcile, EmailGoroutine,
     PreserveExpiredInvite, ReadRow, Recover, Load
<1>4. QED
  BY <1>1, <1>2, <1>3 DEF Next

\* A write that undoes a full refund is one of the three.
LEMMA UndoneStep == IInv /\ [Next]_vars => (Undone => \E g \in Workers : UndoneBy(g))
<1> SUFFICES ASSUME IInv, [Next]_vars, Undone PROVE \E g \in Workers : UndoneBy(g)
  OBVIOUS
<1>1. PICK g \in Workers : WriteRow(g)
  BY WrittenBy DEF Undone
<1> DEFINE k == worker[g]
<1>2. WorkerOK(was, k) /\ k \in Worker /\ k.pc \in Write /\ k.holds
  BY <1>1 DEF WriteRow, IInv
<1>3. PICK linked \in BOOLEAN : row' = Mutate(k, k.seen, linked)
  BY <1>1 DEF WriteRow
<1>4. PICK pc \in Continue(k) : worker' = [worker EXCEPT ![g] = Moved(k, pc)]
  BY <1>1 DEF WriteRow
<1>5. worker'[g] = Moved(k, pc) /\ Moved(k, pc).holds = FALSE
  <2>1. worker'[g] = Moved(k, pc)
    BY <1>4 DEF IInv
  <2>2. Moved(k, pc).holds = FALSE
    BY <1>2, IdleSays DEF Moved, Worker
  <2>3. QED
    BY <2>1, <2>2
<1>6. k.seen.status # "refunded" \/ k.pc \in {"completed", "recSession"}
  BY <1>2, <1>3, MutateLeaves DEF WorkerOK, Undone
<1>7. QED
  BY <1>2, <1>5, <1>6 DEF UndoneBy

\* A fully refunded row stops saying so in three ways only: a worker that read it
\* before, a completed checkout's event, or the first pass of the reconciliation
\* (api-stripe.go, handleStripeCheckoutCompleted; stripe_reconcile.go).
THEOREM RefundStands == Spec => RefundUndoneOnlyBy
<1>1. IInv /\ [Next]_vars =>
        [row.status = "refunded" /\ row'.status # "refunded" =>
           \E g \in Workers :
              /\ worker[g].holds /\ worker'[g] # worker[g]
              /\ \/ worker[g].seen.status # "refunded"
                 \/ worker[g].pc \in {"completed", "recSession"}]_vars
  BY UndoneStep DEF Undone, UndoneBy
<1>2. QED
  BY <1>1, AlwaysIInv, PTL DEF Spec, RefundUndoneOnlyBy

-----------------------------------------------------------------------------
(* What a complete reconciliation knows.                                   *)

\* In w's order, and given the facts noted so far: a subscription belongs to a paid
\* session, is up to date with its renewal, and leaves no way back once it ended.
Life(w) ==
    /\ w.sub # "" => w.recurring /\ w.pay[1] = "succeeded"
    /\ w.pay[2] # "none" => w.sub # ""
    /\ w.sub = "active" => w.pay[2] \in {"none", "succeeded"}
    /\ w.pay[2] = "canceled" => w.sub \in {"unpaid", "canceled"}
    /\ w.pay[1] = "canceled" => w.session = "expired"

Lapsed(w) == w.sub \in {"unpaid", "canceled"} \/ w.session = "expired"

LifeOK(w, F) ==
    /\ Life(w)
    /\ "subscription_canceled" \in F => w.sub = "canceled"
    /\ "subscription_lapsed" \in F => Lapsed(w)

\* A payment that exists in v exists in w.
Older(v, w) == \A c \in PaymentId : v.pay[c] # "none" => w.pay[c] # "none"

\* The ids of a row are those of payments that exist.
KnownIds(w, p) ==
    /\ p.intent # 0 => w.pay[p.intent] # "none"
    /\ p.invoice # 0 => w.pay[p.invoice] # "none"

\* A reconciliation that fetched everything has the ids of what there is.
LoadedOK(k) ==
    k.pc = "recStored" /\ k.loaded = Existing(k.snap) =>
       /\ (\E c \in PaymentId : k.snap.pay[c] # "none") => k.of # 0 /\ k.snap.pay[k.of] # "none"
       /\ k.snap.sub # "" => k.inv # 0 /\ k.snap.pay[k.inv] # "none"

RecallOK(w, k) ==
    /\ Older(k.snap, w) /\ LoadedOK(k)
    /\ k.holds => KnownIds(w, k.seen)
    /\ k.pc = "refund" => w.pay[k.of] # "none"

EventKnown(w, e) == Older(e.snap, w) /\ (e.type = "refund" => w.pay[e.of] # "none")

RInv ==
    /\ LifeOK(stripe, was) /\ KnownIds(stripe, row)
    /\ \A e \in events : EventKnown(stripe, e)
    /\ \A g \in Workers : RecallOK(stripe, worker[g])


-----------------------------------------------------------------------------
(* The fields that the functions of PaymentRecord write.                   *)

\* The fields a reconciliation repairs, the status aside.
Same(p, q) ==
    /\ q.intent = p.intent /\ q.invoice = p.invoice /\ q.refunded = p.refunded
    /\ q.hasSub = p.hasSub /\ q.sub = p.sub /\ q.atEnd = p.atEnd

\* Writing a status writes nothing else.
LEMMA StatusSame ==
    ASSUME NEW p \in Row
    PROVE /\ \A s \in Status : SetLifecycle(p, s) \in Row /\ Same(p, SetLifecycle(p, s))
          /\ \A s \in Status : \A from : RaiseTo(p, s, from) \in Row /\ Same(p, RaiseTo(p, s, from))
          /\ ClearLifecycle(p) \in Row /\ Same(p, ClearLifecycle(p))
          /\ \A s \in Status : [p EXCEPT !.status = s] \in Row /\ Same(p, [p EXCEPT !.status = s])
<1>1. \A s \in Status : [p EXCEPT !.status = s] \in Row /\ Same(p, [p EXCEPT !.status = s])
  BY DEF Row, Same
<1>2. p \in Row /\ Same(p, p)
  BY DEF Same
<1>3. RestoredStatus(p) \in Status
  BY DEF RestoredStatus, Status
<1>4. QED
  BY <1>1, <1>2, <1>3, SetLifecycleSays, RaiseToSays DEF ClearLifecycle

\* Nor do the marks on payment, fulfilment and email touch those fields.
LEMMA MarksSame ==
    ASSUME NEW p \in Row
    PROVE /\ [p EXCEPT !.paid = TRUE] \in Row /\ Same(p, [p EXCEPT !.paid = TRUE])
          /\ \A b \in BOOLEAN, e \in EmailStatus :
                /\ [p EXCEPT !.paid = b, !.email = e] \in Row /\ Same(p, [p EXCEPT !.paid = b, !.email = e])
                /\ [p EXCEPT !.fulfilled = b, !.email = e] \in Row
                /\ Same(p, [p EXCEPT !.fulfilled = b, !.email = e])
                /\ [p EXCEPT !.email = e] \in Row /\ Same(p, [p EXCEPT !.email = e])
<1>1. [p EXCEPT !.paid = TRUE] \in Row /\ Same(p, [p EXCEPT !.paid = TRUE])
  BY DEF Row, Same
<1>2. ASSUME NEW b \in BOOLEAN, NEW e \in EmailStatus
      PROVE [p EXCEPT !.paid = b, !.email = e] \in Row /\ Same(p, [p EXCEPT !.paid = b, !.email = e])
  BY DEF Row, Same
<1>3. ASSUME NEW b \in BOOLEAN, NEW e \in EmailStatus
      PROVE /\ [p EXCEPT !.fulfilled = b, !.email = e] \in Row
            /\ Same(p, [p EXCEPT !.fulfilled = b, !.email = e])
  BY DEF Row, Same
<1>4. ASSUME NEW e \in EmailStatus
      PROVE [p EXCEPT !.email = e] \in Row /\ Same(p, [p EXCEPT !.email = e])
  BY DEF Row, Same
<1>5. QED
  BY <1>1, <1>2, <1>3, <1>4

\* applyStripeChargeToPayment: id and amount are the charge's.
LEMMA ChargeFields ==
    ASSUME NEW p \in Row, NEW c \in Charge
    PROVE /\ c.id = 0 => ApplyCharge(c, p) = p
          /\ c.id # 0 => ApplyCharge(c, p).intent = c.id /\ ApplyCharge(c, p).refunded = c.refunded
          /\ c.id # 0 /\ c.status # "failed" /\ c.refunded = Amount => ApplyCharge(c, p).status = "refunded"
          /\ ApplyCharge(c, p).invoice = p.invoice /\ ApplyCharge(c, p).hasSub = p.hasSub
          /\ ApplyCharge(c, p).sub = p.sub /\ ApplyCharge(c, p).atEnd = p.atEnd
<1> DEFINE q == [p EXCEPT !.intent = c.id, !.refunded = c.refunded]
           to == IF c.refunded >= Amount THEN "refunded" ELSE "partially_refunded"
           r == IF c.refunded = 0 THEN q ELSE SetLifecycle(q, to)
<1>1. /\ q \in Row /\ q.intent = c.id /\ q.refunded = c.refunded /\ q.invoice = p.invoice
      /\ q.hasSub = p.hasSub /\ q.sub = p.sub /\ q.atEnd = p.atEnd
  BY DEF Row, Charge
<1>2. /\ to \in Status /\ "failed" \in Status
      /\ c.refunded = Amount => to = "refunded" /\ c.refunded # 0
  BY AmountAssumption DEF Status, LifecycleStatus, RefundStatus
<1> HIDE DEF q, to
<1>3. r \in Row /\ Same(q, r) /\ (c.refunded = Amount => r.status = "refunded")
  <2>1. q \in Row /\ Same(q, q)
    BY <1>1 DEF Same
  <2>2. SetLifecycle(q, to) \in Row /\ Same(q, SetLifecycle(q, to))
    BY <1>1, <1>2, StatusSame
  <2>3. to = "refunded" => SetLifecycle(q, to).status = "refunded"
    <3>1. q.status \in Status
      BY <1>1 DEF Row
    <3>2. Priority("refunded") = 110 /\ Priority(q.status) \in Nat /\ Priority(q.status) <= 110
      BY DEF Priority
    <3>3. Priority("refunded") >= Priority(q.status)
      BY <3>2
    <3>4. SetLifecycle(q, "refunded") = [q EXCEPT !.status = "refunded"]
      BY <3>3 DEF SetLifecycle
    <3>5. QED
      BY <1>1, <3>4 DEF Row
  <2>4. QED
    BY <1>2, <2>1, <2>2, <2>3
<1> HIDE DEF r
<1>4. SetLifecycle(r, "failed") \in Row /\ Same(r, SetLifecycle(r, "failed"))
  BY <1>2, <1>3, StatusSame
<1>5. ApplyCharge(c, p) = IF c.id = 0 THEN p
                          ELSE IF c.status = "failed" THEN SetLifecycle(r, "failed") ELSE r
  BY DEF ApplyCharge, r, q, to
<1>6. QED
  BY <1>1, <1>3, <1>4, <1>5 DEF Same

\* applyStripePaymentIntentToPayment: the id is the intent's.
LEMMA IntentFields ==
    ASSUME NEW p \in Row, NEW pi \in Intent, pi.charge.id \in {0, pi.id}
    PROVE /\ pi.id = 0 => ApplyIntent(pi, p) = p
          /\ pi.id # 0 => ApplyIntent(pi, p).intent = pi.id
          /\ ApplyIntent(pi, p).invoice = p.invoice /\ ApplyIntent(pi, p).hasSub = p.hasSub
          /\ ApplyIntent(pi, p).sub = p.sub /\ ApplyIntent(pi, p).atEnd = p.atEnd
<1> DEFINE a == [p EXCEPT !.intent = pi.id]
           q == ApplyCharge(pi.charge, a)
           r == [q EXCEPT !.paid = TRUE]
           from == {"", "checkout_created", "payment_canceled", "failed"}
<1>1. /\ a \in Row /\ a.intent = pi.id /\ a.invoice = p.invoice
      /\ a.hasSub = p.hasSub /\ a.sub = p.sub /\ a.atEnd = p.atEnd
      /\ pi.charge \in Charge
  BY DEF Row, Intent
<1>2. "failed" \in Status /\ "payment_canceled" \in Status /\ "paid" \in Status
  BY DEF Status, LifecycleStatus
<1> HIDE DEF a
<1>3. /\ q \in Row /\ q.intent = pi.id /\ q.invoice = p.invoice
      /\ q.hasSub = p.hasSub /\ q.sub = p.sub /\ q.atEnd = p.atEnd
  BY <1>1, ChargeFields, RowTypes
<1> HIDE DEF q
<1>4. r \in Row /\ Same(q, r)
  BY <1>3, MarksSame
<1> HIDE DEF r
<1>5. /\ Same(r, RaiseTo(r, "paid", from))
      /\ Same(q, SetLifecycle(q, "payment_canceled")) /\ Same(q, SetLifecycle(q, "failed"))
  BY <1>2, <1>3, <1>4, StatusSame
<1>6. /\ pi.id = 0 => ApplyIntent(pi, p) = p
      /\ pi.id # 0 => ApplyIntent(pi, p) \in {q, RaiseTo(r, "paid", from),
                         SetLifecycle(q, "payment_canceled"), SetLifecycle(q, "failed")}
  BY DEF ApplyIntent, r, q, a
<1>7. \A x \in {q, RaiseTo(r, "paid", from), SetLifecycle(q, "payment_canceled"), SetLifecycle(q, "failed")} :
        /\ x.intent = pi.id /\ x.invoice = p.invoice
        /\ x.hasSub = p.hasSub /\ x.sub = p.sub /\ x.atEnd = p.atEnd
  BY <1>3, <1>4, <1>5 DEF Same
<1>8. QED
  BY <1>6, <1>7

\* applyStripeInvoiceToPayment: a paid invoice also ends "past due" and "lapsed".
LEMMA InvoiceFields ==
    ASSUME NEW p \in Row, NEW inv \in Invoice
    PROVE /\ inv.id = 0 => ApplyInvoice(inv, p) = p
          /\ inv.id # 0 => ApplyInvoice(inv, p).invoice = inv.id
          /\ inv.id # 0 /\ inv.status = "paid" =>
                ApplyInvoice(inv, p).status \notin {"subscription_past_due", "subscription_lapsed"}
          /\ ApplyInvoice(inv, p).intent = p.intent
<1> DEFINE b == p.hasSub \/ inv.status # ""
           q == [p EXCEPT !.invoice = inv.id, !.hasSub = b]
           r == [q EXCEPT !.paid = TRUE]
           from == {"", "checkout_created", "failed", "subscription_past_due", "subscription_lapsed"}
<1>1. b \in BOOLEAN /\ inv.id \in {0} \cup PaymentId
      /\ {"subscription_past_due", "subscription_lapsed", "paid"} \subseteq Status
  BY DEF Row, Invoice, Status, LifecycleStatus
<1> HIDE DEF b
<1>2. q \in Row /\ q.intent = p.intent /\ q.invoice = inv.id
  BY <1>1 DEF Row
<1> HIDE DEF q
<1>3. r \in Row /\ Same(q, r)
  BY <1>2, MarksSame
<1> HIDE DEF r
<1>4. /\ Same(r, RaiseTo(r, "paid", from))
      /\ Same(q, SetLifecycle(q, "subscription_past_due"))
      /\ Same(q, SetLifecycle(q, "subscription_lapsed"))
  BY <1>1, <1>2, <1>3, StatusSame
<1>5. RaiseTo(r, "paid", from).status \notin {"subscription_past_due", "subscription_lapsed"}
  BY <1>3 DEF RaiseTo, Row
<1>6. /\ inv.id = 0 => ApplyInvoice(inv, p) = p
      /\ inv.id # 0 => ApplyInvoice(inv, p) \in {q, RaiseTo(r, "paid", from),
                          SetLifecycle(q, "subscription_past_due"), SetLifecycle(q, "subscription_lapsed")}
      /\ inv.id # 0 /\ inv.status = "paid" => ApplyInvoice(inv, p) = RaiseTo(r, "paid", from)
  BY DEF ApplyInvoice, r, q, b
<1>7. \A x \in {q, RaiseTo(r, "paid", from), SetLifecycle(q, "subscription_past_due"),
                SetLifecycle(q, "subscription_lapsed")} : x.intent = p.intent /\ x.invoice = inv.id
  BY <1>2, <1>3, <1>4 DEF Same
<1>8. QED
  BY <1>5, <1>6, <1>7

\* applyStripeSubscriptionToPayment: status and cancellation are the subscription's.
LEMMA SubscriptionFields ==
    ASSUME NEW p \in Row, NEW s \in Subscription
    PROVE /\ ~s.exists => ApplySubscription(s, p) = p
          /\ s.exists => /\ ApplySubscription(s, p).hasSub = TRUE
                         /\ ApplySubscription(s, p).sub = s.status
                         /\ ApplySubscription(s, p).atEnd = s.atEnd
          /\ ApplySubscription(s, p).intent = p.intent /\ ApplySubscription(s, p).invoice = p.invoice
<1> DEFINE q == [p EXCEPT !.hasSub = TRUE, !.sub = s.status, !.atEnd = s.atEnd]
           to == {"subscription_canceled", "subscription_lapsed", "subscription_past_due",
                  "subscription_canceling"}
<1>1. /\ q \in Row /\ q.intent = p.intent /\ q.invoice = p.invoice /\ q.hasSub = TRUE
      /\ q.sub = s.status /\ q.atEnd = s.atEnd /\ to \subseteq Status
  BY DEF Row, Subscription, Status, LifecycleStatus
<1> HIDE DEF q
<1>2. ~s.exists => ApplySubscription(s, p) = p
  BY DEF ApplySubscription
<1>3. s.exists => \/ ApplySubscription(s, p) \in {q, ClearLifecycle(q)}
                  \/ \E l \in to : ApplySubscription(s, p) = SetLifecycle(q, l)
  BY DEF ApplySubscription, q
<1>4. Same(q, q)
  BY DEF Same
<1>5. s.exists => Same(q, ApplySubscription(s, p))
  BY <1>1, <1>3, <1>4, StatusSame
<1>6. QED
  BY <1>1, <1>2, <1>5 DEF Same

\* applyStripeCheckoutSessionToPayment: the ids are those of the session's objects.
LEMMA SessionFields ==
    ASSUME NEW p \in Row, NEW s \in Session, s.intent.charge.id \in {0, s.intent.id}
    PROVE /\ s.intent.id = 0 => ApplySession(s, p).intent = p.intent
          /\ s.intent.id # 0 => ApplySession(s, p).intent = s.intent.id
          /\ s.invoice.id = 0 => ApplySession(s, p).invoice = p.invoice
          /\ s.invoice.id # 0 => ApplySession(s, p).invoice = s.invoice.id
<1> DEFINE a == ApplyInvoice(s.invoice, p)
           b == ApplySubscription(s.sub, a)
           q == ApplyIntent(s.intent, b)
           paid == q.paid \/ s.status = "complete"
           email == IF q.email = "" THEN "not_started" ELSE q.email
           r == [q EXCEPT !.paid = paid, !.email = email]
<1>1. s.invoice \in Invoice /\ s.sub \in Subscription /\ s.intent \in Intent
      /\ {"checkout_expired", "checkout_created", "paid"} \subseteq Status
  BY DEF Session, Status, LifecycleStatus
<1>2. /\ a \in Row /\ a.intent = p.intent
      /\ s.invoice.id = 0 => a.invoice = p.invoice
      /\ s.invoice.id # 0 => a.invoice = s.invoice.id
  BY <1>1, InvoiceFields, RowTypes
<1> HIDE DEF a
<1>3. b \in Row /\ b.intent = a.intent /\ b.invoice = a.invoice
  BY <1>1, <1>2, SubscriptionFields, RowTypes
<1> HIDE DEF b
<1>4. /\ q \in Row /\ q.invoice = b.invoice
      /\ s.intent.id = 0 => q.intent = b.intent
      /\ s.intent.id # 0 => q.intent = s.intent.id
  BY <1>1, <1>3, IntentFields, RowTypes
<1>5. paid \in BOOLEAN /\ email \in EmailStatus
  BY <1>4 DEF Row, EmailStatus
<1> HIDE DEF q, paid, email
<1>6. r \in Row /\ Same(q, r)
  BY <1>4, <1>5, MarksSame
<1> HIDE DEF r
<1>7. \/ ApplySession(s, p) = SetLifecycle(r, "checkout_expired")
      \/ ApplySession(s, p) = RaiseTo(r, "paid", {"", "checkout_created", "checkout_expired"})
      \/ ApplySession(s, p) = RaiseTo(r, "checkout_created", {""})
  BY DEF ApplySession, Session, a, b, q, r, paid, email
<1>8. Same(r, ApplySession(s, p))
  BY <1>1, <1>6, <1>7, StatusSame
<1>9. QED
  BY <1>2, <1>3, <1>4, <1>6, <1>8 DEF Same


\* An object carries the id of a payment that exists, or none.
LEMMA ObjectIds ==
    ASSUME NEW w \in World
    PROVE /\ \A c \in PaymentId :
                /\ ChargeOf(w, c).id \in {0, c} /\ (ChargeOf(w, c).id # 0 => w.pay[c] # "none")
                /\ IntentOf(w, c).id \in {0, c} /\ (IntentOf(w, c).id # 0 => w.pay[c] # "none")
                /\ IntentOf(w, c).charge.id \in {0, IntentOf(w, c).id}
                /\ IntentEvent(w, c).id = IntentOf(w, c).id
                /\ IntentEvent(w, c).charge.id \in {0, IntentEvent(w, c).id}
                /\ InvoiceOf(w, c).id \in {0, c} /\ (InvoiceOf(w, c).id # 0 => w.pay[c] # "none")
          /\ \A s \in {SessionOf(w), SessionEvent(w)} :
                /\ s.intent.id \in {0, 1} /\ (s.intent.id # 0 => w.pay[1] # "none")
                /\ s.intent.charge.id \in {0, s.intent.id}
                /\ s.invoice.id \in {0, 1} /\ (s.invoice.id # 0 => w.pay[1] # "none")
<1>1. ASSUME NEW c \in PaymentId PROVE w.pay[c] \in PayState /\ c # 0
  BY DEF World, PaymentId
<1>2. ASSUME NEW c \in PaymentId
      PROVE ChargeOf(w, c).id \in {0, c} /\ (ChargeOf(w, c).id # 0 => w.pay[c] # "none")
  BY <1>1 DEF ChargeOf, NoCharge
<1>3. ASSUME NEW c \in PaymentId
      PROVE /\ IntentOf(w, c).id \in {0, c} /\ (IntentOf(w, c).id # 0 => w.pay[c] # "none")
            /\ IntentOf(w, c).charge.id \in {0, IntentOf(w, c).id}
  BY <1>1, <1>2 DEF IntentOf, NoIntent, NoCharge, PayState
<1>4. ASSUME NEW c \in PaymentId
      PROVE /\ IntentEvent(w, c).id = IntentOf(w, c).id
            /\ IntentEvent(w, c).charge.id = IntentOf(w, c).charge.id
  <2>1. IntentOf(w, c) \in Intent
    BY ObjectTypes
  <2>2. QED
    BY <2>1 DEF IntentEvent, Intent
<1>5. ASSUME NEW c \in PaymentId
      PROVE InvoiceOf(w, c).id \in {0, c} /\ (InvoiceOf(w, c).id # 0 => w.pay[c] # "none")
  BY <1>1 DEF InvoiceOf, NoInvoice, PayState, World
<1>6. 1 \in PaymentId
  BY DEF PaymentId
<1>7. /\ SessionOf(w).intent.id \in {0, 1} /\ (SessionOf(w).intent.id # 0 => w.pay[1] # "none")
      /\ SessionOf(w).intent.charge.id \in {0, SessionOf(w).intent.id}
      /\ SessionOf(w).invoice.id \in {0, 1} /\ (SessionOf(w).invoice.id # 0 => w.pay[1] # "none")
  BY <1>3, <1>5, <1>6 DEF SessionOf, NoIntent, NoCharge
<1>8. /\ SessionEvent(w).intent.id = SessionOf(w).intent.id
      /\ SessionEvent(w).intent.charge.id = 0
      /\ SessionEvent(w).invoice.id = SessionOf(w).invoice.id
  BY DEF SessionEvent, NoCharge
<1>9. QED
  BY <1>2, <1>3, <1>4, <1>5, <1>7, <1>8

\* Applying an object gives the row the id of a payment that exists.
LEMMA ObjectKnown ==
    ASSUME NEW v, NEW p \in Row, KnownIds(v, p), NEW w \in World, Older(w, v)
    PROVE /\ \A c \in PaymentId : /\ KnownIds(v, ApplyCharge(ChargeOf(w, c), p))
                                  /\ KnownIds(v, ApplyIntent(IntentOf(w, c), p))
                                  /\ KnownIds(v, ApplyIntent(IntentEvent(w, c), p))
                                  /\ KnownIds(v, ApplyInvoice(InvoiceOf(w, c), p))
          /\ KnownIds(v, ApplySubscription(SubOf(w), p))
          /\ KnownIds(v, ApplySession(SessionOf(w), p)) /\ KnownIds(v, ApplySession(SessionEvent(w), p))
<1>1. ASSUME NEW c \in PaymentId PROVE w.pay[c] # "none" => v.pay[c] # "none"
  BY DEF Older
<1>2. ASSUME NEW c \in PaymentId PROVE KnownIds(v, ApplyCharge(ChargeOf(w, c), p))
  <2>1. ChargeOf(w, c) \in Charge
    BY ObjectTypes
  <2>2. QED
    BY <1>1, <2>1, ObjectIds, ChargeFields DEF KnownIds
<1>3. ASSUME NEW c \in PaymentId PROVE KnownIds(v, ApplyIntent(IntentOf(w, c), p))
  <2>1. IntentOf(w, c) \in Intent
    BY ObjectTypes
  <2>2. QED
    BY <1>1, <2>1, ObjectIds, IntentFields DEF KnownIds
<1>4. ASSUME NEW c \in PaymentId PROVE KnownIds(v, ApplyIntent(IntentEvent(w, c), p))
  <2>1. IntentEvent(w, c) \in Intent
    BY ObjectTypes
  <2>2. QED
    BY <1>1, <2>1, ObjectIds, IntentFields DEF KnownIds
<1>5. ASSUME NEW c \in PaymentId PROVE KnownIds(v, ApplyInvoice(InvoiceOf(w, c), p))
  <2>1. InvoiceOf(w, c) \in Invoice
    BY ObjectTypes
  <2>2. QED
    BY <1>1, <2>1, ObjectIds, InvoiceFields DEF KnownIds
<1>6. KnownIds(v, ApplySubscription(SubOf(w), p))
  <2>1. SubOf(w) \in Subscription
    BY ObjectTypes
  <2>2. QED
    BY <2>1, SubscriptionFields DEF KnownIds
<1>7. ASSUME NEW s \in {SessionOf(w), SessionEvent(w)} PROVE KnownIds(v, ApplySession(s, p))
  <2>1. s \in Session /\ (w.pay[1] # "none" => v.pay[1] # "none")
    BY <1>1, ObjectTypes DEF PaymentId
  <2>2. /\ s.intent.id \in {0, 1} /\ (s.intent.id # 0 => w.pay[1] # "none")
        /\ s.intent.charge.id \in {0, s.intent.id}
        /\ s.invoice.id \in {0, 1} /\ (s.invoice.id # 0 => w.pay[1] # "none")
    BY ObjectIds
  <2>3. QED
    BY <2>1, <2>2, SessionFields DEF KnownIds
<1>8. QED
  BY <1>2, <1>3, <1>4, <1>5, <1>6, <1>7

\* The rows the parts of StoredState pass on are rows.
LEMMA ObjectRows ==
    ASSUME NEW p \in Row, NEW w \in World
    PROVE /\ \A c \in PaymentId : /\ ApplyCharge(ChargeOf(w, c), p) \in Row
                                  /\ ApplyIntent(IntentOf(w, c), p) \in Row
                                  /\ ApplyIntent(IntentEvent(w, c), p) \in Row
                                  /\ ApplyInvoice(InvoiceOf(w, c), p) \in Row
          /\ ApplySubscription(SubOf(w), p) \in Row
          /\ ApplySession(SessionOf(w), p) \in Row /\ ApplySession(SessionEvent(w), p) \in Row
  BY ObjectTypes, RowTypes

\* So does the reconciliation's second write.
LEMMA StoredStateKnown ==
    ASSUME NEW v, NEW p \in Row, KnownIds(v, p), NEW k \in Worker, Older(k.snap, v)
    PROVE KnownIds(v, StoredState(k, p)) /\ StoredState(k, p) \in Row
<1> DEFINE w == k.snap
           a == IF "session" \in k.loaded THEN ApplySession(SessionOf(w), p) ELSE p
           b == IF k.inv # 0 THEN ApplyInvoice(InvoiceOf(w, k.inv), a) ELSE a
           c == IF "sub" \in k.loaded THEN ApplySubscription(SubOf(w), b) ELSE b
           d == IF k.of # 0 /\ "intent" \in k.loaded THEN ApplyIntent(IntentOf(w, k.of), c) ELSE c
           e == IF k.of # 0 /\ "charge" \in k.loaded THEN ApplyCharge(ChargeOf(w, k.of), d) ELSE d
<1>1. k.inv \in {0} \cup PaymentId /\ k.of \in {0} \cup PaymentId /\ w \in World /\ Older(w, v)
  BY DEF Worker
<1> HIDE DEF w
<1>2. a \in Row /\ KnownIds(v, a)
  BY <1>1, ObjectKnown, ObjectRows
<1> HIDE DEF a
<1>3. b \in Row /\ KnownIds(v, b)
  BY <1>1, <1>2, ObjectKnown, ObjectRows
<1> HIDE DEF b
<1>4. c \in Row /\ KnownIds(v, c)
  BY <1>1, <1>3, ObjectKnown, ObjectRows
<1> HIDE DEF c
<1>5. d \in Row /\ KnownIds(v, d)
  BY <1>1, <1>4, ObjectKnown, ObjectRows
<1> HIDE DEF d
<1>6. e \in Row /\ KnownIds(v, e)
  BY <1>1, <1>5, ObjectKnown, ObjectRows
<1>7. QED
  BY <1>6 DEF StoredState, a, b, c, d, e, w

\* The ids of a row do not depend on its status.
LEMMA SameKnown ==
    ASSUME NEW v, NEW p, NEW q, KnownIds(v, p), Same(p, q)
    PROVE KnownIds(v, q)
  BY DEF KnownIds, Same

\* No write gives the row the id of a payment that does not exist.
LEMMA MutateKnown ==
    ASSUME NEW v, NEW k \in Worker, KnownIds(v, k.seen), Older(k.snap, v), k.pc \in Write,
           k.pc \in {"invoice", "intent", "charge", "refund", "subscription"} => k.of \in PaymentId,
           k.pc = "refund" => v.pay[k.of] # "none", NEW linked \in BOOLEAN
    PROVE KnownIds(v, Mutate(k, k.seen, linked))
<1> DEFINE p == k.seen
<1>1. p \in Row /\ k.snap \in World /\ KnownIds(v, p)
  BY DEF Worker
<1>2. {"checkout_expired", "needs_review", "paid", "fulfilled", "email_sent", "email_failed",
       "refunded", "partially_refunded"} \subseteq Status
  BY DEF Status, LifecycleStatus, RefundStatus
<1>3. \A q \in Row : Same(q, NeedsReview(q))
  BY <1>2, StatusSame DEF NeedsReview
<1> HIDE DEF p
<1>4. CASE k.pc = "completed"
  <2> DEFINE q == ApplySession(SessionEvent(k.snap), p)
  <2>1. q \in Row /\ KnownIds(v, q)
    BY <1>1, ObjectKnown, ObjectRows
  <2> HIDE DEF q
  <2>2. Same(q, [q EXCEPT !.status = "paid", !.paid = TRUE])
    BY <2>1 DEF Same, Row
  <2>3. QED
    BY <1>4, <2>1, <2>2, SameKnown DEF Mutate, p, q
<1>5. CASE k.pc = "expired"
  <2> DEFINE q == ApplySession(SessionEvent(k.snap), p)
  <2>1. q \in Row /\ KnownIds(v, q)
    BY <1>1, ObjectKnown, ObjectRows
  <2> HIDE DEF q
  <2>2. Same(q, SetLifecycle(q, "checkout_expired"))
    BY <1>2, <2>1, StatusSame
  <2>3. QED
    BY <1>5, <2>1, <2>2, SameKnown DEF Mutate, p, q
<1>6. CASE k.pc \in {"invoice", "intent", "charge", "subscription"}
  BY <1>1, <1>6, ObjectKnown DEF Mutate, p
<1>7. CASE k.pc = "refund"
  <2> DEFINE most == IF k.amount > p.refunded THEN k.amount ELSE p.refunded
             q == [p EXCEPT !.intent = k.of, !.refunded = most]
             to == IF most >= Amount THEN "refunded" ELSE "partially_refunded"
  <2>1. most \in 0..Amount /\ k.of \in {0} \cup PaymentId
    BY <1>1, <1>7 DEF Worker, Row
  <2> HIDE DEF most
  <2>2. q \in Row /\ KnownIds(v, q) /\ to \in Status
    BY <1>1, <1>2, <1>7, <2>1 DEF Row, KnownIds
  <2> HIDE DEF q, to
  <2>3. Same(q, SetLifecycle(q, to))
    BY <2>2, StatusSame
  <2>4. Mutate(k, p, linked) = SetLifecycle(q, to)
    BY <1>7 DEF Mutate, ApplyRefund, most, q, to
  <2>5. QED
    BY <2>2, <2>3, <2>4, SameKnown DEF p
<1>8. CASE k.pc = "recSession"
  <2> DEFINE q == ApplySession(SessionOf(k.snap), p)
  <2>1. q \in Row /\ KnownIds(v, q)
    BY <1>1, ObjectKnown, ObjectRows
  <2> HIDE DEF q
  <2>2. KnownIds(v, NeedsReview(q))
    BY <1>3, <2>1, SameKnown
  <2>3. QED
    BY <1>8, <2>1, <2>2 DEF Mutate, p, q
<1>9. CASE k.pc = "recStored"
  <2> DEFINE q == StoredState(k, p)
  <2>1. q \in Row /\ KnownIds(v, q)
    BY <1>1, StoredStateKnown
  <2> HIDE DEF q
  <2>2. KnownIds(v, NeedsReview(q))
    BY <1>3, <2>1, SameKnown
  <2>3. QED
    BY <1>9, <2>1, <2>2 DEF Mutate, p, q
<1>10. CASE k.pc = "fulfilled"
  <2> DEFINE email == IF p.email = "" THEN "not_started" ELSE p.email
             q == [p EXCEPT !.fulfilled = TRUE, !.email = email]
  <2>1. email \in EmailStatus
    BY <1>1 DEF Row, EmailStatus
  <2> HIDE DEF email
  <2>2. q \in Row /\ Same(p, q)
    BY <1>1, <2>1, MarksSame
  <2> HIDE DEF q
  <2>3. Same(q, [q EXCEPT !.status = "fulfilled"])
    BY <1>2, <2>2, StatusSame
  <2>4. MarkFulfilled(p) \in {q, [q EXCEPT !.status = "fulfilled"]}
    BY DEF MarkFulfilled, q, email
  <2>5. QED
    BY <1>1, <1>10, <2>2, <2>3, <2>4, SameKnown DEF Mutate, p
<1>11. CASE k.pc \in {"pending", "disabled", "not_applicable", "sent", "failed"}
  <2> DEFINE q == [p EXCEPT !.email = k.pc]
             from == {"", "paid", "checkout_created"}
  <2>1. q \in Row /\ Same(p, q)
    BY <1>1, <1>11, MarksSame DEF EmailStatus
  <2> HIDE DEF q
  <2>2. /\ \A s \in {"email_sent", "email_failed"} : Same(q, [q EXCEPT !.status = s])
        /\ Same(q, RaiseTo(q, "fulfilled", from)) /\ Same(q, q)
    <3>1. Same(q, q)
      BY DEF Same
    <3>2. QED
      BY <1>2, <2>1, <3>1, StatusSame
  <2>3. MarkEmail(k.pc, p) \in {q, [q EXCEPT !.status = "email_sent"],
                                [q EXCEPT !.status = "email_failed"], RaiseTo(q, "fulfilled", from)}
    BY DEF MarkEmail, q
  <2>4. Same(q, MarkEmail(k.pc, p))
    BY <2>2, <2>3
  <2>5. QED
    BY <1>1, <1>11, <2>1, <2>4, SameKnown DEF Mutate, p
<1>12. CASE k.pc \in {"preserve", "plan", "relink"}
  BY <1>1, <1>3, <1>12, SameKnown DEF Mutate, p
<1>13. QED
  BY <1>4, <1>5, <1>6, <1>7, <1>8, <1>9, <1>10, <1>11, <1>12 DEF Write


-----------------------------------------------------------------------------
(* What Stripe's side does keeps what was known.                           *)

\* w comes after stripe.
Onward(w) ==
    /\ w \in World /\ Life(w) /\ Older(stripe, w)
    /\ stripe.sub = "canceled" => w.sub = "canceled"
    /\ Lapsed(stripe) => Lapsed(w)

\* What a view shows cannot contradict its order.
LEMMA LifeNoted ==
    ASSUME NEW w \in World, Life(w), NEW F, LifeOK(w, F)
    PROVE LifeOK(w, F \cup FactsOf(w))
<1>1. "subscription_canceled" \in FactsOf(w) => w.sub = "canceled"
  BY FactsSay
<1>2. "subscription_lapsed" \in FactsOf(w) => Lapsed(w)
  <2>1. PaymentId = {1, 2}
    BY DEF PaymentId
  <2>2. "subscription_lapsed" \in FactsOf(w) =>
          w.sub = "unpaid" \/ w.pay[1] = "canceled" \/ w.pay[2] = "canceled"
    BY <2>1, FactsSay
  <2>3. QED
    BY <2>2 DEF Life, Lapsed
<1>3. QED
  BY <1>1, <1>2 DEF LifeOK

\* What is known of an older view is known of the next.
LEMMA OlderKeeps ==
    ASSUME NEW v, NEW w, Older(v, w)
    PROVE /\ \A u : Older(u, v) => Older(u, w)
          /\ \A p \in Row : KnownIds(v, p) => KnownIds(w, p)
          /\ \A e \in Event : EventKnown(v, e) => EventKnown(w, e)
          /\ \A k \in Worker : (k.pc = "refund" => k.of \in PaymentId) /\ RecallOK(v, k) => RecallOK(w, k)
<1>1. \A u : Older(u, v) => Older(u, w)
  BY DEF Older
<1>2. \A p \in Row : KnownIds(v, p) => KnownIds(w, p)
  <2>1. \A p \in Row : p.intent \in {0} \cup PaymentId /\ p.invoice \in {0} \cup PaymentId
    BY DEF Row
  <2>2. QED
    BY <2>1 DEF KnownIds, Older
<1>3. \A e \in Event : EventKnown(v, e) => EventKnown(w, e)
  <2>1. \A e \in Event : e.of \in PaymentId
    BY DEF Event
  <2>2. QED
    BY <1>1, <2>1 DEF EventKnown, Older
<1>4. ASSUME NEW k \in Worker, k.pc = "refund" => k.of \in PaymentId, RecallOK(v, k)
      PROVE RecallOK(w, k)
  <2>1. k.seen \in Row
    BY DEF Worker
  <2>2. k.pc = "refund" => w.pay[k.of] # "none"
    BY <1>4 DEF RecallOK, Older
  <2>3. QED
    BY <1>1, <1>2, <1>4, <2>1, <2>2 DEF RecallOK
<1>5. QED
  BY <1>1, <1>2, <1>3, <1>4

LEMMA OlderSelf == \A w : Older(w, w)
  BY DEF Older

\* A move forward on Stripe's side keeps what is recalled of the row, events and workers.
LEMMA OnwardKeeps ==
    ASSUME IInv, RInv, NEW w, Onward(w), NEW emitted, Becomes(w, emitted),
           \A e \in emitted : e[1] = "refund" => w.pay[e[2]] # "none"
    PROVE /\ LifeOK(stripe', was') /\ Older(stripe, stripe')
          /\ \A e \in events' : EventKnown(stripe', e)
<1>1. stripe' = w /\ was' = was \cup FactsOf(w)
      /\ events' = events \cup {Emitted(w, e) : e \in emitted}
  BY DEF Becomes, Emitted
<1>2. LifeOK(w, was)
  BY DEF RInv, LifeOK, Onward
<1>3. LifeOK(w, was')
  BY <1>1, <1>2, LifeNoted DEF Onward
<1>4. \A e \in events : EventKnown(w, e)
  BY OlderKeeps DEF IInv, EventOK, RInv, Onward
<1>5. ASSUME NEW e \in emitted PROVE EventKnown(w, Emitted(w, e))
  BY <1>5, OlderSelf DEF Emitted, EventKnown
<1>6. QED
  BY <1>1, <1>3, <1>4, <1>5 DEF Onward

\* A change leaves the workers and the row alone.
LEMMA ChangeRecalls ==
    ASSUME IInv, RInv, NEW w, Onward(w), NEW emitted, Change(w, emitted),
           \A e \in emitted : e[1] = "refund" => w.pay[e[2]] # "none"
    PROVE RInv'
<1>1. /\ LifeOK(stripe', was') /\ Older(stripe, stripe')
      /\ \A e \in events' : EventKnown(stripe', e)
  BY OnwardKeeps DEF Change
<1>2. row' = row /\ worker' = worker
  BY DEF Change
<1>3. row \in Row /\ \A g \in Workers : /\ worker[g] \in Worker
                                        /\ worker[g].pc = "refund" => worker[g].of \in PaymentId
  BY DEF IInv, RowOK, WorkerOK
<1>4. KnownIds(stripe', row')
  BY <1>1, <1>2, <1>3, OlderKeeps DEF RInv
<1>5. \A g \in Workers : RecallOK(stripe', worker'[g])
  BY <1>1, <1>2, <1>3, OlderKeeps DEF RInv
<1>6. QED
  BY <1>1, <1>4, <1>5 DEF RInv

\* One lemma per change on Stripe's side: each is a move forward.
LEMMA CardDeclinedRecalls == ASSUME IInv, RInv, CardDeclined PROVE RInv'
<1> DEFINE w == [stripe EXCEPT !.pay[1] = "failed"]
           emitted == {<<"payment_intent", 1, 0>>, <<"charge", 1, 0>>}
<1>1. InOrder(stripe) /\ stripe \in World /\ Life(stripe) /\ stripe.session = "open"
  BY DEF IInv, StripeOK, InOrder, RInv, LifeOK, CardDeclined
<1>2. /\ w.pay = [stripe.pay EXCEPT ![1] = "failed"] /\ w.sub = stripe.sub
      /\ w.session = stripe.session /\ w.recurring = stripe.recurring
  BY <1>1 DEF World
<1>3. [stripe.pay EXCEPT ![1] = "failed"] \in [PaymentId -> PayState]
  BY <1>1 DEF World, PaymentId, PayState
<1>4. w \in World
  BY <1>1, <1>3 DEF World, SubStatus
<1>5. Change(w, emitted)
  BY DEF CardDeclined
<1>6. \A e \in emitted : e[1] # "refund"
  OBVIOUS
<1> HIDE DEF w, emitted
<1>7. PaymentId = {1, 2}
  BY DEF PaymentId
<1>8. w.pay[1] = "failed" /\ w.pay[2] = stripe.pay[2]
  <2>1. stripe.pay \in [PaymentId -> PayState]
    BY <1>1 DEF World
  <2>2. w.pay = [stripe.pay EXCEPT ![1] = "failed"]
    BY <1>2
  <2>3. QED
    BY <1>7, <2>1, <2>2
<1>9. Older(stripe, w)
  BY <1>1, <1>7, <1>8 DEF Older, Life, InOrder
<1>10. Life(w)
  BY <1>1, <1>2, <1>8 DEF Life, InOrder
<1>11. (stripe.sub = "canceled" => w.sub = "canceled") /\ (Lapsed(stripe) => Lapsed(w))
  BY <1>1, <1>2 DEF Lapsed, InOrder
<1>12. QED
  BY <1>4, <1>5, <1>6, <1>9, <1>10, <1>11, ChangeRecalls DEF Onward

LEMMA SessionExpiresRecalls == ASSUME IInv, RInv, SessionExpires PROVE RInv'
<1> DEFINE w == [stripe EXCEPT !.session = "expired",
                               !.pay[1] = IF @ = "none" THEN @ ELSE "canceled"]
           emitted == {<<"checkout.session.expired", 1, 0>>, <<"payment_intent", 1, 0>>}
<1>1. InOrder(stripe) /\ stripe \in World /\ Life(stripe) /\ stripe.session = "open"
  BY DEF IInv, StripeOK, InOrder, RInv, LifeOK, SessionExpires
<1>2. /\ w.pay = [stripe.pay EXCEPT ![1] = IF @ = "none" THEN @ ELSE "canceled"] /\ w.sub = stripe.sub
      /\ w.session = "expired" /\ w.recurring = stripe.recurring
  BY <1>1 DEF World
<1>3. [stripe.pay EXCEPT ![1] = IF @ = "none" THEN @ ELSE "canceled"] \in [PaymentId -> PayState]
  BY <1>1 DEF World, PaymentId, PayState
<1>4. w \in World
  BY <1>1, <1>3 DEF World, SubStatus
<1>5. Change(w, emitted)
  BY DEF SessionExpires
<1>6. \A e \in emitted : e[1] # "refund"
  OBVIOUS
<1> HIDE DEF w, emitted
<1>7. PaymentId = {1, 2}
  BY DEF PaymentId
<1>8. w.pay[1] = (IF stripe.pay[1] = "none" THEN stripe.pay[1] ELSE "canceled") /\ w.pay[2] = stripe.pay[2]
  <2>1. stripe.pay \in [PaymentId -> PayState]
    BY <1>1 DEF World
  <2>2. w.pay = [stripe.pay EXCEPT ![1] = IF @ = "none" THEN @ ELSE "canceled"]
    BY <1>2
  <2>3. QED
    BY <1>7, <2>1, <2>2
<1>9. Older(stripe, w)
  BY <1>1, <1>7, <1>8 DEF Older, Life, InOrder
<1>10. Life(w)
  BY <1>1, <1>2, <1>8 DEF Life, InOrder
<1>11. (stripe.sub = "canceled" => w.sub = "canceled") /\ (Lapsed(stripe) => Lapsed(w))
  BY <1>1, <1>2 DEF Lapsed, InOrder
<1>12. QED
  BY <1>4, <1>5, <1>6, <1>9, <1>10, <1>11, ChangeRecalls DEF Onward

LEMMA SessionPaidRecalls == ASSUME IInv, RInv, SessionPaid PROVE RInv'
<1> DEFINE w == [stripe EXCEPT !.session = "complete", !.pay[1] = "succeeded",
                               !.sub = IF stripe.recurring THEN "active" ELSE ""]
           emitted == {<<"checkout.session.completed", 1, 0>>, <<"payment_intent", 1, 0>>}
<1>1. InOrder(stripe) /\ stripe \in World /\ Life(stripe) /\ stripe.session = "open"
  BY DEF IInv, StripeOK, InOrder, RInv, LifeOK, SessionPaid
<1>2. /\ w.pay = [stripe.pay EXCEPT ![1] = "succeeded"] /\ w.sub = (IF stripe.recurring THEN "active" ELSE "")
      /\ w.session = "complete" /\ w.recurring = stripe.recurring
  BY <1>1 DEF World
<1>3. [stripe.pay EXCEPT ![1] = "succeeded"] \in [PaymentId -> PayState]
  BY <1>1 DEF World, PaymentId, PayState
<1>4. w \in World
  BY <1>1, <1>3 DEF World, SubStatus
<1>5. Change(w, emitted)
  BY DEF SessionPaid
<1>6. \A e \in emitted : e[1] # "refund"
  OBVIOUS
<1> HIDE DEF w, emitted
<1>7. PaymentId = {1, 2}
  BY DEF PaymentId
<1>8. w.pay[1] = "succeeded" /\ w.pay[2] = stripe.pay[2]
  <2>1. stripe.pay \in [PaymentId -> PayState]
    BY <1>1 DEF World
  <2>2. w.pay = [stripe.pay EXCEPT ![1] = "succeeded"]
    BY <1>2
  <2>3. QED
    BY <1>7, <2>1, <2>2
<1>9. Older(stripe, w)
  BY <1>1, <1>7, <1>8 DEF Older, Life, InOrder
<1>10. Life(w)
  BY <1>1, <1>2, <1>8 DEF Life, InOrder
<1>11. (stripe.sub = "canceled" => w.sub = "canceled") /\ (Lapsed(stripe) => Lapsed(w))
  BY <1>1, <1>2 DEF Lapsed, InOrder
<1>12. QED
  BY <1>4, <1>5, <1>6, <1>9, <1>10, <1>11, ChangeRecalls DEF Onward

LEMMA CancelAtPeriodEndRecalls == ASSUME IInv, RInv, CancelAtPeriodEnd PROVE RInv'
<1> DEFINE w == [stripe EXCEPT !.atEnd = ~@]
           emitted == {<<"subscription", 1, 0>>}
<1>1. InOrder(stripe) /\ stripe \in World /\ Life(stripe) /\ stripe.sub = "active"
  BY DEF IInv, StripeOK, InOrder, RInv, LifeOK, CancelAtPeriodEnd
<1>2. /\ w.pay = stripe.pay /\ w.sub = stripe.sub
      /\ w.session = stripe.session /\ w.recurring = stripe.recurring
  BY <1>1 DEF World
<1>3. stripe.pay \in [PaymentId -> PayState]
  BY <1>1 DEF World
<1>4. w \in World
  BY <1>1, <1>3 DEF World, SubStatus
<1>5. Change(w, emitted)
  BY DEF CancelAtPeriodEnd
<1>6. \A e \in emitted : e[1] # "refund"
  OBVIOUS
<1> HIDE DEF w, emitted
<1>7. PaymentId = {1, 2}
  BY DEF PaymentId
<1>8. w.pay[1] = stripe.pay[1] /\ w.pay[2] = stripe.pay[2]
  BY <1>2
<1>9. Older(stripe, w)
  BY <1>1, <1>7, <1>8 DEF Older, Life, InOrder
<1>10. Life(w)
  BY <1>1, <1>2, <1>8 DEF Life, InOrder
<1>11. (stripe.sub = "canceled" => w.sub = "canceled") /\ (Lapsed(stripe) => Lapsed(w))
  BY <1>1, <1>2 DEF Lapsed, InOrder
<1>12. QED
  BY <1>4, <1>5, <1>6, <1>9, <1>10, <1>11, ChangeRecalls DEF Onward

LEMMA SubscriptionEndsRecalls == ASSUME IInv, RInv, SubscriptionEnds PROVE RInv'
<1> DEFINE w == [stripe EXCEPT !.sub = "canceled"]
           emitted == {<<"subscription", 1, 0>>}
<1>1. InOrder(stripe) /\ stripe \in World /\ Life(stripe) /\ stripe.sub # ""
  BY DEF IInv, StripeOK, InOrder, RInv, LifeOK, SubscriptionEnds
<1>2. /\ w.pay = stripe.pay /\ w.sub = "canceled"
      /\ w.session = stripe.session /\ w.recurring = stripe.recurring
  BY <1>1 DEF World
<1>3. stripe.pay \in [PaymentId -> PayState]
  BY <1>1 DEF World
<1>4. w \in World
  BY <1>1, <1>3 DEF World, SubStatus
<1>5. Change(w, emitted)
  BY DEF SubscriptionEnds
<1>6. \A e \in emitted : e[1] # "refund"
  OBVIOUS
<1> HIDE DEF w, emitted
<1>7. PaymentId = {1, 2}
  BY DEF PaymentId
<1>8. w.pay[1] = stripe.pay[1] /\ w.pay[2] = stripe.pay[2]
  BY <1>2
<1>9. Older(stripe, w)
  BY <1>1, <1>7, <1>8 DEF Older, Life, InOrder
<1>10. Life(w)
  BY <1>1, <1>2, <1>8 DEF Life, InOrder
<1>11. (stripe.sub = "canceled" => w.sub = "canceled") /\ (Lapsed(stripe) => Lapsed(w))
  BY <1>1, <1>2 DEF Lapsed, InOrder
<1>12. QED
  BY <1>4, <1>5, <1>6, <1>9, <1>10, <1>11, ChangeRecalls DEF Onward

LEMMA RenewalDeclinedRecalls == ASSUME IInv, RInv, RenewalDeclined PROVE RInv'
<1> DEFINE w == [stripe EXCEPT !.sub = "past_due", !.pay[2] = "failed"]
           emitted == {<<"invoice", 2, 0>>, <<"subscription", 2, 0>>, <<"payment_intent", 2, 0>>}
<1>1. InOrder(stripe) /\ stripe \in World /\ Life(stripe) /\ stripe.sub = "active"
  BY DEF IInv, StripeOK, InOrder, RInv, LifeOK, RenewalDeclined
<1>2. /\ w.pay = [stripe.pay EXCEPT ![2] = "failed"] /\ w.sub = "past_due"
      /\ w.session = stripe.session /\ w.recurring = stripe.recurring
  BY <1>1 DEF World
<1>3. [stripe.pay EXCEPT ![2] = "failed"] \in [PaymentId -> PayState]
  BY <1>1 DEF World, PaymentId, PayState
<1>4. w \in World
  BY <1>1, <1>3 DEF World, SubStatus
<1>5. Change(w, emitted)
  BY DEF RenewalDeclined
<1>6. \A e \in emitted : e[1] # "refund"
  OBVIOUS
<1> HIDE DEF w, emitted
<1>7. PaymentId = {1, 2}
  BY DEF PaymentId
<1>8. w.pay[2] = "failed" /\ w.pay[1] = stripe.pay[1]
  <2>1. stripe.pay \in [PaymentId -> PayState]
    BY <1>1 DEF World
  <2>2. w.pay = [stripe.pay EXCEPT ![2] = "failed"]
    BY <1>2
  <2>3. QED
    BY <1>7, <2>1, <2>2
<1>9. Older(stripe, w)
  BY <1>1, <1>7, <1>8 DEF Older, Life, InOrder
<1>10. Life(w)
  BY <1>1, <1>2, <1>8 DEF Life, InOrder
<1>11. (stripe.sub = "canceled" => w.sub = "canceled") /\ (Lapsed(stripe) => Lapsed(w))
  BY <1>1, <1>2 DEF Lapsed, InOrder
<1>12. QED
  BY <1>4, <1>5, <1>6, <1>9, <1>10, <1>11, ChangeRecalls DEF Onward

LEMMA RenewalPaidRecalls == ASSUME IInv, RInv, RenewalPaid PROVE RInv'
<1> DEFINE w == [stripe EXCEPT !.sub = "active", !.pay[2] = "succeeded"]
           emitted == {<<"subscription", 2, 0>>, <<"payment_intent", 2, 0>>}
<1>1. InOrder(stripe) /\ stripe \in World /\ Life(stripe) /\ stripe.sub \in {"active", "past_due"}
  BY DEF IInv, StripeOK, InOrder, RInv, LifeOK, RenewalPaid
<1>2. /\ w.pay = [stripe.pay EXCEPT ![2] = "succeeded"] /\ w.sub = "active"
      /\ w.session = stripe.session /\ w.recurring = stripe.recurring
  BY <1>1 DEF World
<1>3. [stripe.pay EXCEPT ![2] = "succeeded"] \in [PaymentId -> PayState]
  BY <1>1 DEF World, PaymentId, PayState
<1>4. w \in World
  BY <1>1, <1>3 DEF World, SubStatus
<1>5. Change(w, emitted)
  BY DEF RenewalPaid
<1>6. \A e \in emitted : e[1] # "refund"
  OBVIOUS
<1> HIDE DEF w, emitted
<1>7. PaymentId = {1, 2}
  BY DEF PaymentId
<1>8. w.pay[2] = "succeeded" /\ w.pay[1] = stripe.pay[1]
  <2>1. stripe.pay \in [PaymentId -> PayState]
    BY <1>1 DEF World
  <2>2. w.pay = [stripe.pay EXCEPT ![2] = "succeeded"]
    BY <1>2
  <2>3. QED
    BY <1>7, <2>1, <2>2
<1>9. Older(stripe, w)
  BY <1>1, <1>7, <1>8 DEF Older, Life, InOrder
<1>10. Life(w)
  BY <1>1, <1>2, <1>8 DEF Life, InOrder
<1>11. (stripe.sub = "canceled" => w.sub = "canceled") /\ (Lapsed(stripe) => Lapsed(w))
  BY <1>1, <1>2 DEF Lapsed, InOrder
<1>12. QED
  BY <1>4, <1>5, <1>6, <1>9, <1>10, <1>11, ChangeRecalls DEF Onward

LEMMA RenewalAbandonedRecalls == ASSUME IInv, RInv, RenewalAbandoned PROVE RInv'
<1> DEFINE w == [stripe EXCEPT !.sub = "unpaid", !.pay[2] = "canceled"]
           emitted == {<<"invoice", 2, 0>>, <<"subscription", 2, 0>>, <<"payment_intent", 2, 0>>}
<1>1. InOrder(stripe) /\ stripe \in World /\ Life(stripe) /\ stripe.sub = "past_due"
  BY DEF IInv, StripeOK, InOrder, RInv, LifeOK, RenewalAbandoned
<1>2. /\ w.pay = [stripe.pay EXCEPT ![2] = "canceled"] /\ w.sub = "unpaid"
      /\ w.session = stripe.session /\ w.recurring = stripe.recurring
  BY <1>1 DEF World
<1>3. [stripe.pay EXCEPT ![2] = "canceled"] \in [PaymentId -> PayState]
  BY <1>1 DEF World, PaymentId, PayState
<1>4. w \in World
  BY <1>1, <1>3 DEF World, SubStatus
<1>5. Change(w, emitted)
  BY DEF RenewalAbandoned
<1>6. \A e \in emitted : e[1] # "refund"
  OBVIOUS
<1> HIDE DEF w, emitted
<1>7. PaymentId = {1, 2}
  BY DEF PaymentId
<1>8. w.pay[2] = "canceled" /\ w.pay[1] = stripe.pay[1]
  <2>1. stripe.pay \in [PaymentId -> PayState]
    BY <1>1 DEF World
  <2>2. w.pay = [stripe.pay EXCEPT ![2] = "canceled"]
    BY <1>2
  <2>3. QED
    BY <1>7, <2>1, <2>2
<1>9. Older(stripe, w)
  BY <1>1, <1>7, <1>8 DEF Older, Life, InOrder
<1>10. Life(w)
  BY <1>1, <1>2, <1>8 DEF Life, InOrder
<1>11. (stripe.sub = "canceled" => w.sub = "canceled") /\ (Lapsed(stripe) => Lapsed(w))
  BY <1>1, <1>2 DEF Lapsed, InOrder
<1>12. QED
  BY <1>4, <1>5, <1>6, <1>9, <1>10, <1>11, ChangeRecalls DEF Onward


LEMMA RefundedRecalls == ASSUME IInv, RInv, Refunded PROVE RInv'
<1>1. PICK c \in PaymentId : \E total \in (stripe.refunded[c] + 1)..Amount :
        /\ stripe.pay[c] = "succeeded"
        /\ Change([stripe EXCEPT !.refunded[c] = total],
                  {<<"charge", c, 0>>, <<"refund", c, total - stripe.refunded[c]>>})
  BY DEF Refunded
<1>2. PICK total \in (stripe.refunded[c] + 1)..Amount :
        Change([stripe EXCEPT !.refunded[c] = total],
               {<<"charge", c, 0>>, <<"refund", c, total - stripe.refunded[c]>>})
  BY <1>1
<1> DEFINE w == [stripe EXCEPT !.refunded[c] = total]
           emitted == {<<"charge", c, 0>>, <<"refund", c, total - stripe.refunded[c]>>}
<1>3. stripe \in World /\ Life(stripe)
  BY DEF IInv, StripeOK, InOrder, RInv, LifeOK
<1>4. stripe.refunded[c] \in 0..Amount
  BY <1>3 DEF World
<1>5. total \in 0..Amount
  BY <1>2, <1>4, AmountAssumption
<1>6. [stripe.refunded EXCEPT ![c] = total] \in [PaymentId -> 0..Amount]
  BY <1>3, <1>5 DEF World
<1>7. w \in World
  BY <1>3, <1>6 DEF World
<1>8. /\ w.pay = stripe.pay /\ w.sub = stripe.sub /\ w.session = stripe.session
      /\ w.recurring = stripe.recurring
  BY <1>3 DEF World
<1>9. Change(w, emitted) /\ \A e \in emitted : e[2] = c
  BY <1>2
<1> HIDE DEF w, emitted
<1>10. Onward(w)
  BY <1>3, <1>7, <1>8 DEF Onward, Life, Older, Lapsed
<1>11. \A e \in emitted : w.pay[e[2]] # "none"
  BY <1>1, <1>8, <1>9
<1>12. QED
  BY <1>9, <1>10, <1>11, ChangeRecalls

LEMMA RefundFailsRecalls == ASSUME IInv, RInv, RefundFails PROVE RInv'
<1>1. PICK c \in PaymentId : Change([stripe EXCEPT !.refunded[c] = 0], {<<"charge", c, 0>>})
  BY DEF RefundFails
<1> DEFINE w == [stripe EXCEPT !.refunded[c] = 0]
           emitted == {<<"charge", c, 0>>}
<1>2. stripe \in World /\ Life(stripe) /\ 0 \in 0..Amount
  BY AmountSays DEF IInv, StripeOK, InOrder, RInv, LifeOK
<1>3. [stripe.refunded EXCEPT ![c] = 0] \in [PaymentId -> 0..Amount]
  BY <1>2 DEF World
<1>4. w \in World
  BY <1>2, <1>3 DEF World
<1>5. /\ w.pay = stripe.pay /\ w.sub = stripe.sub /\ w.session = stripe.session
      /\ w.recurring = stripe.recurring
  BY <1>2 DEF World
<1>6. Change(w, emitted) /\ \A e \in emitted : e[1] # "refund"
  BY <1>1
<1> HIDE DEF w, emitted
<1>7. Onward(w)
  BY <1>2, <1>4, <1>5 DEF Onward, Life, Older, Lapsed
<1>8. QED
  BY <1>6, <1>7, ChangeRecalls

-----------------------------------------------------------------------------
(* What the workers do keeps what was known.                               *)

\* One worker changes, and Stripe does not.
LEMMA RecallKeeps ==
    ASSUME IInv, RInv, NEW g \in Workers, NEW k, RecallOK(stripe, k),
           worker' = [worker EXCEPT ![g] = k], UNCHANGED <<stripe, was, events>>,
           KnownIds(stripe, row')
    PROVE RInv'
<1>1. \A h \in Workers : RecallOK(stripe, worker'[h])
  BY DEF IInv, RInv
<1>2. QED
  BY <1>1 DEF RInv

\* A goroutine that holds nothing recalls nothing but its view of Stripe.
LEMMA PlainRecall ==
    ASSUME NEW v, NEW k, Older(k.snap, v), k.holds = FALSE, k.pc # "recStored",
           k.pc = "refund" => v.pay[k.of] # "none"
    PROVE RecallOK(v, k)
  BY DEF RecallOK, LoadedOK

LEMMA NothingOlder == \A v : Older(NewWorld(FALSE), v)
  BY DEF Older, NewWorld

\* A task that starts recalls the view it was given.
LEMMA TaskRecall ==
    ASSUME NEW v, NEW pc \in Step, pc # "recStored", NEW w \in World, Older(w, v),
           NEW c \in {0} \cup PaymentId, NEW n \in 0..Amount, pc = "refund" => v.pay[c] # "none"
    PROVE RecallOK(v, Task(pc, w, c, n))
<1>1. /\ Task(pc, w, c, n).pc = pc /\ Task(pc, w, c, n).snap = w /\ Task(pc, w, c, n).of = c
      /\ Task(pc, w, c, n).holds = FALSE
  BY IdleSays DEF Task, Worker
<1>2. QED
  BY <1>1, PlainRecall

\* A mark on the row recalls no view.
LEMMA MarkRecall ==
    ASSUME NEW v, NEW pc \in {"sent", "failed", "preserve", "pending"}
    PROVE RecallOK(v, [Idle EXCEPT !.pc = pc])
<1> DEFINE k == [Idle EXCEPT !.pc = pc]
<1>1. k.pc = pc /\ k.holds = FALSE /\ k.snap = NewWorld(FALSE)
  BY IdleSays DEF Worker
<1> HIDE DEF k
<1>2. RecallOK(v, k)
  BY <1>1, PlainRecall, NothingOlder
<1>3. QED
  BY <1>2 DEF k

\* What a worker does next recalls no more than what it did.
LEMMA MovedRecall ==
    ASSUME NEW v, NEW k \in Worker, RecallOK(v, k),
           NEW pc \in {"idle", "recover", "load"} \cup (PaidStep \ {"completed"})
    PROVE RecallOK(v, Moved(k, pc))
<1>1. CASE pc = "recover"
  <2> DEFINE m == [k EXCEPT !.pc = pc, !.holds = FALSE, !.seen = NewRow]
  <2>1. m.pc = "recover" /\ m.holds = FALSE /\ m.snap = k.snap
    BY <1>1 DEF Worker
  <2> HIDE DEF m
  <2>2. RecallOK(v, m)
    BY <2>1, PlainRecall DEF RecallOK
  <2>3. QED
    BY <1>1, <2>2 DEF Moved, m
<1>2. CASE pc # "recover"
  <2> DEFINE m == Moved(k, pc)
  <2>1. m.pc = pc /\ m.holds = FALSE /\ m.snap = NewWorld(FALSE)
    BY <1>2, IdleSays DEF Moved, Worker
  <2> HIDE DEF m
  <2>2. pc # "refund" /\ pc # "recStored"
    BY DEF PaidStep
  <2>3. RecallOK(v, m)
    BY <2>1, <2>2, PlainRecall, NothingOlder
  <2>4. QED
    BY <2>3 DEF m
<1>3. QED
  BY <1>1, <1>2

\* One lemma per step of a worker.
LEMMA DeliverRecalls == ASSUME IInv, RInv, NEW g \in Workers, Deliver(g) PROVE RInv'
<1>1. PICK e \in events, pc \in Write :
        /\ Handles(e, pc) /\ Begin(g, Task(pc, e.snap, e.of, e.amount))
        /\ UNCHANGED <<stripe, was, changes, events, row, mail, limit>>
  BY DEF Deliver
<1>2. e.snap \in World /\ e.of \in PaymentId /\ e.amount \in 0..Amount /\ EventKnown(stripe, e)
  BY DEF IInv, EventOK, Event, RInv
<1>3. pc \in Step /\ pc # "recStored" /\ (pc = "refund" => e.type = "refund")
  BY <1>1 DEF Handles, Step
<1>4. RecallOK(stripe, Task(pc, e.snap, e.of, e.amount))
  BY <1>2, <1>3, TaskRecall DEF EventKnown
<1>5. QED
  BY <1>1, <1>4, RecallKeeps DEF Begin, RInv

LEMMA DeliverRefundAsChargeRecalls ==
    ASSUME IInv, RInv, NEW g \in Workers, DeliverRefundAsCharge(g) PROVE RInv'
<1>1. PICK e \in events : /\ Begin(g, Task("charge", stripe, e.of, 0))
                          /\ UNCHANGED <<stripe, was, changes, events, row, mail, limit>>
  BY DEF DeliverRefundAsCharge
<1>2. e.of \in PaymentId /\ stripe \in World /\ 0 \in 0..Amount
  BY AmountSays DEF IInv, EventOK, Event, StripeOK, InOrder
<1>3. RecallOK(stripe, Task("charge", stripe, e.of, 0))
  BY <1>2, TaskRecall, OlderSelf DEF Step, Write
<1>4. QED
  BY <1>1, <1>3, RecallKeeps DEF Begin, RInv

LEMMA ApplyCancellationRecalls ==
    ASSUME IInv, RInv, NEW g \in Workers, ApplyCancellation(g) PROVE RInv'
<1>1. PICK w \in {[stripe EXCEPT !.sub = "canceled"], [stripe EXCEPT !.atEnd = TRUE],
                  [stripe EXCEPT !.atEnd = FALSE]} :
        /\ Begin(g, Task("subscription", w, 1, 0))
        /\ Becomes(w, IF w = stripe THEN {} ELSE {<<"subscription", 1, 0>>})
  BY DEF ApplyCancellation
<1>2. stripe.sub # "" /\ row' = row
  BY DEF ApplyCancellation
<1>3. stripe \in World /\ Life(stripe) /\ InOrder(stripe)
  BY DEF IInv, StripeOK, InOrder, RInv, LifeOK
<1>4. w \in World /\ w.pay = stripe.pay /\ w.session = stripe.session
  BY <1>1, <1>3 DEF World, SubStatus
<1>5. w.sub \in {stripe.sub, "canceled"} /\ w.recurring = stripe.recurring
  BY <1>1, <1>3 DEF World
<1>6. Onward(w)
  <2>1. Life(w)
    BY <1>2, <1>3, <1>4, <1>5 DEF Life
  <2>2. Lapsed(stripe) => Lapsed(w)
    BY <1>4, <1>5 DEF Lapsed
  <2>3. Older(stripe, w)
    BY <1>4 DEF Older
  <2>4. QED
    BY <1>4, <1>5, <2>1, <2>2, <2>3 DEF Onward
<1> DEFINE emitted == IF w = stripe THEN {} ELSE {<<"subscription", 1, 0>>}
<1>7. Becomes(w, emitted) /\ \A e \in emitted : e[1] # "refund"
  BY <1>1
<1> HIDE DEF emitted
<1>8. /\ LifeOK(stripe', was') /\ Older(stripe, stripe')
      /\ \A e \in events' : EventKnown(stripe', e)
  BY <1>6, <1>7, OnwardKeeps
<1>9. RecallOK(stripe', Task("subscription", w, 1, 0))
  <2>1. stripe' = w
    BY <1>1 DEF Becomes
  <2>2. QED
    BY <1>4, <2>1, TaskRecall, OlderSelf, AmountSays DEF Step, Write, PaymentId
<1>10. row \in Row /\ \A h \in Workers : /\ worker[h] \in Worker
                                         /\ worker[h].pc = "refund" => worker[h].of \in PaymentId
  BY DEF IInv, RowOK, WorkerOK
<1>11. \A h \in Workers : RecallOK(stripe', worker[h])
  BY <1>8, <1>10, OlderKeeps DEF RInv
<1>12. \A h \in Workers : RecallOK(stripe', worker'[h])
  BY <1>1, <1>9, <1>11 DEF Begin, IInv
<1>13. KnownIds(stripe', row')
  BY <1>2, <1>8, <1>10, OlderKeeps DEF RInv
<1>14. QED
  BY <1>8, <1>12, <1>13 DEF RInv

LEMMA ReconcileRecalls == ASSUME IInv, RInv, NEW g \in Workers, Reconcile(g) PROVE RInv'
<1> DEFINE t == Task("recSession", stripe, 0, 0)
           k == [t EXCEPT !.task = "listed", !.loaded = {"session"}]
<1>1. stripe \in World /\ 0 \in 0..Amount
  BY AmountSays DEF IInv, StripeOK, InOrder
<1>2. t.pc = "recSession" /\ t.snap = stripe /\ t.holds = FALSE
  BY IdleSays DEF Task, Worker
<1>3. t \in Worker
  BY <1>1, IdleSays DEF Task, Worker, Step, Write
<1> HIDE DEF t
<1>4. k.pc = "recSession" /\ k.snap = stripe /\ k.holds = FALSE
  BY <1>2, <1>3 DEF Worker
<1> HIDE DEF k
<1>5. RecallOK(stripe, k)
  BY <1>4, PlainRecall, OlderSelf
<1>6. /\ worker' = [worker EXCEPT ![g] = k]
      /\ UNCHANGED <<stripe, was, changes, events, row, mail, limit>>
  BY DEF Reconcile, k, t
<1>7. QED
  BY <1>5, <1>6, RecallKeeps DEF RInv

LEMMA EmailGoroutineRecalls == ASSUME IInv, RInv, NEW g \in Workers, EmailGoroutine(g) PROVE RInv'
<1>1. PICK pc \in {"sent", "failed"} : Begin(g, [Idle EXCEPT !.pc = pc])
  BY DEF EmailGoroutine
<1>2. UNCHANGED <<stripe, was, changes, events, row, limit>>
  BY DEF EmailGoroutine
<1>3. QED
  BY <1>1, <1>2, MarkRecall, RecallKeeps DEF Begin, RInv

LEMMA PreserveExpiredInviteRecalls ==
    ASSUME IInv, RInv, NEW g \in Workers, PreserveExpiredInvite(g) PROVE RInv'
<1>1. PICK pc \in {"preserve", "pending"} : Begin(g, [Idle EXCEPT !.pc = pc])
  BY DEF PreserveExpiredInvite
<1>2. UNCHANGED <<stripe, was, changes, events, row, mail, limit>>
  BY DEF PreserveExpiredInvite
<1>3. QED
  BY <1>1, <1>2, MarkRecall, RecallKeeps DEF Begin, RInv

LEMMA ReadRowRecalls == ASSUME IInv, RInv, NEW g \in Workers, ReadRow(g) PROVE RInv'
<1> DEFINE k == [worker[g] EXCEPT !.holds = TRUE, !.seen = row]
<1>1. worker[g] \in Worker /\ RecallOK(stripe, worker[g]) /\ row \in Row
  BY DEF IInv, RowOK, RInv
<1>2. /\ k.seen = row /\ k.pc = worker[g].pc /\ k.snap = worker[g].snap
      /\ k.of = worker[g].of /\ k.inv = worker[g].inv /\ k.loaded = worker[g].loaded
  BY <1>1 DEF Worker
<1>3. worker' = [worker EXCEPT ![g] = k]
  BY DEF ReadRow, IInv
<1> HIDE DEF k
<1>4. RecallOK(stripe, k)
  BY <1>1, <1>2 DEF RecallOK, LoadedOK, RInv
<1>5. UNCHANGED <<stripe, was, events, row>>
  BY DEF ReadRow
<1>6. QED
  BY <1>3, <1>4, <1>5, RecallKeeps DEF RInv

LEMMA WriteRowRecalls == ASSUME IInv, RInv, NEW g \in Workers, WriteRow(g) PROVE RInv'
<1> DEFINE k == worker[g]
<1>1. WorkerOK(was, k) /\ RecallOK(stripe, k) /\ k.pc \in Write /\ k.holds
  BY DEF WriteRow, IInv, RInv
<1>2. PICK linked \in BOOLEAN : row' = Mutate(k, k.seen, linked)
  BY DEF WriteRow
<1>3. PICK pc \in Continue(k) : worker' = [worker EXCEPT ![g] = Moved(k, pc)]
  BY DEF WriteRow
<1>4. UNCHANGED <<stripe, was, changes, events, started, limit>>
  BY DEF WriteRow
<1> HIDE DEF k
<1>5. KnownIds(stripe, row')
  BY <1>1, <1>2, MutateKnown DEF WorkerOK, RecallOK
<1>6. RecallOK(stripe, Moved(k, pc))
  BY <1>1, <1>3, ContinueSays, MovedRecall DEF WorkerOK
<1>7. QED
  BY <1>3, <1>4, <1>5, <1>6, RecallKeeps

LEMMA RecoverRecalls == ASSUME IInv, RInv, NEW g \in Workers, Recover(g) PROVE RInv'
<1> DEFINE k == worker[g]
<1>1. k \in Worker /\ RecallOK(stripe, k)
  BY DEF IInv, RInv
<1>2. PICK pc : /\ worker' = [worker EXCEPT ![g] = Moved(k, pc)]
                /\ pc \in Return(k) \cup {"plan", "relink", "pending", "disabled", "failed"}
  BY DEF Recover
<1>3. UNCHANGED <<stripe, was, changes, events, row, started, mail, limit>>
  BY DEF Recover
<1> HIDE DEF k
<1>4. pc \in {"idle", "recover", "load"} \cup (PaidStep \ {"completed"})
  BY <1>2 DEF Return, PaidStep
<1>5. RecallOK(stripe, Moved(k, pc))
  BY <1>1, <1>4, MovedRecall
<1>6. QED
  BY <1>2, <1>3, <1>5, RecallKeeps DEF RInv


\* What load asks for, when every fetch succeeds, is there.
LEMMA LoadFinds ==
    ASSUME IInv, RInv
    PROVE LET got == Existing(stripe)
              i == InvoiceToLoad(got, stripe)
              c == CASE row.intent # 0 -> row.intent
                     [] row.intent = 0 /\ ~stripe.recurring /\ "session" \in got -> 1
                     [] OTHER -> i
          IN  /\ (\E p \in PaymentId : stripe.pay[p] # "none") => c # 0 /\ stripe.pay[c] # "none"
              /\ stripe.sub # "" => i # 0 /\ stripe.pay[i] # "none"
<1> DEFINE got == Existing(stripe)
           i == InvoiceToLoad(got, stripe)
           c == CASE row.intent # 0 -> row.intent
                  [] row.intent = 0 /\ ~stripe.recurring /\ "session" \in got -> 1
                  [] OTHER -> i
           j == IF row.invoice # 0 THEN row.invoice
                ELSE IF "session" \in got THEN InvoiceOf(stripe, 1).id ELSE 0
<1>1. stripe \in World /\ Life(stripe) /\ KnownIds(stripe, row) /\ row \in Row
  BY DEF IInv, StripeOK, InOrder, RowOK, RInv, LifeOK
<1>2. PaymentId = {1, 2} /\ stripe.pay[1] \in PayState
  BY <1>1 DEF World, PaymentId
<1>3. "session" \in got
  BY DEF Existing, Object
<1>4. stripe.recurring => "invoice" \in got
  BY DEF Existing, Object
<1>5. ASSUME stripe.recurring, stripe.pay[1] # "none" PROVE i # 0 /\ stripe.pay[i] # "none"
  <2>1. InvoiceOf(stripe, 1).id = 1
    BY <1>2, <1>5 DEF InvoiceOf, PayState
  <2>2. j # 0 /\ stripe.pay[j] # "none"
    BY <1>1, <1>3, <1>5, <2>1 DEF KnownIds
  <2>3. i = j
    BY <1>4, <1>5, <2>2 DEF InvoiceToLoad
  <2>4. QED
    BY <2>2, <2>3
<1>6. stripe.sub # "" => i # 0 /\ stripe.pay[i] # "none"
  BY <1>1, <1>5 DEF Life
<1>7. ASSUME \E p \in PaymentId : stripe.pay[p] # "none" PROVE stripe.pay[1] # "none"
  BY <1>1, <1>2, <1>7 DEF Life
<1> HIDE DEF i, got
<1>8. ASSUME stripe.pay[1] # "none" PROVE c # 0 /\ stripe.pay[c] # "none"
  <2>1. CASE row.intent # 0
    BY <1>1, <2>1 DEF KnownIds
  <2>2. CASE row.intent = 0 /\ ~stripe.recurring
    BY <1>3, <1>8, <2>2
  <2>3. CASE row.intent = 0 /\ stripe.recurring
    BY <1>5, <1>8, <2>3
  <2>4. QED
    BY <2>1, <2>2, <2>3
<1> HIDE DEF c
<1>9. QED
  BY <1>6, <1>7, <1>8 DEF c, i, got

\* After a complete load the worker has the ids of what there is.
LEMMA LoadRecalls == ASSUME IInv, RInv, NEW g \in Workers, Load(g) PROVE RInv'
<1> DEFINE k == worker[g]
           i(got) == InvoiceToLoad(got, stripe)
           c(got) == CASE row.intent # 0 -> row.intent
                       [] row.intent = 0 /\ ~stripe.recurring /\ "session" \in got -> 1
                       [] OTHER -> i(got)
           m(got) == [Moved(k, "recStored") EXCEPT !.task = "stored", !.snap = stripe,
                                                   !.loaded = got, !.inv = i(got), !.of = c(got)]
<1>1. PICK got \in SUBSET Existing(stripe) : worker' = [worker EXCEPT ![g] = m(got)]
  BY DEF Load
<1>2. UNCHANGED <<stripe, was, changes, events, row, started, mail, limit>>
  BY DEF Load
<1>3. got = Existing(stripe) =>
        /\ (\E p \in PaymentId : stripe.pay[p] # "none") => c(got) # 0 /\ stripe.pay[c(got)] # "none"
        /\ stripe.sub # "" => i(got) # 0 /\ stripe.pay[i(got)] # "none"
  BY LoadFinds
<1> HIDE DEF i, c
<1>4. Moved(k, "recStored") = [Idle EXCEPT !.pc = "recStored", !.task = k.task]
  BY DEF Moved
<1>5. /\ m(got).pc = "recStored" /\ m(got).holds = FALSE /\ m(got).snap = stripe
      /\ m(got).loaded = got /\ m(got).inv = i(got) /\ m(got).of = c(got)
  BY <1>4, IdleSays DEF Worker
<1> HIDE DEF m
<1>6. RecallOK(stripe, m(got))
  BY <1>3, <1>5, OlderSelf DEF RecallOK, LoadedOK
<1>7. QED
  BY <1>1, <1>2, <1>6, RecallKeeps DEF RInv

\* The strengthened invariant starts, is kept, and so holds throughout.
LEMMA RInvStarts == Init => RInv
<1> SUFFICES ASSUME Init PROVE RInv
  OBVIOUS
<1>1. PICK r \in BOOLEAN : stripe = NewWorld(r)
  BY DEF Init
<1>2. stripe.pay = [c \in PaymentId |-> "none"] /\ stripe.sub = "" /\ was = {}
  BY <1>1 DEF Init, NewWorld
<1>3. LifeOK(stripe, was)
  <2>1. stripe.pay[1] = "none" /\ stripe.pay[2] = "none"
    <3>1. stripe.pay = [c \in PaymentId |-> "none"]
      BY <1>2
    <3>2. 1 \in PaymentId /\ 2 \in PaymentId
      BY DEF PaymentId
    <3>3. QED
      BY <3>1, <3>2
  <2>2. QED
    BY <1>2, <2>1 DEF LifeOK, Life
<1>4. row.intent = 0 /\ row.invoice = 0
  BY DEF Init, NewRow
<1>5. \A g \in Workers : worker[g] = Idle
  BY DEF Init
<1>6. RecallOK(stripe, Idle)
  BY IdleSays, PlainRecall, NothingOlder
<1>7. QED
  BY <1>3, <1>4, <1>5, <1>6 DEF RInv, KnownIds, Init

LEMMA RInvInductive == IInv /\ RInv /\ [Next]_vars => RInv'
<1> SUFFICES ASSUME IInv, RInv, [Next]_vars PROVE RInv'
  OBVIOUS
<1>1. CASE UNCHANGED vars
  BY <1>1 DEF vars, RInv
<1>2. CASE StripeChange
  BY <1>2, CardDeclinedRecalls, SessionExpiresRecalls, SessionPaidRecalls, RefundedRecalls,
     RefundFailsRecalls, CancelAtPeriodEndRecalls, RenewalDeclinedRecalls, RenewalPaidRecalls,
     RenewalAbandonedRecalls, SubscriptionEndsRecalls DEF StripeChange
<1>3. ASSUME NEW g \in Workers,
             \/ Deliver(g) \/ DeliverRefundAsCharge(g) \/ ApplyCancellation(g)
             \/ Reconcile(g) \/ EmailGoroutine(g) \/ PreserveExpiredInvite(g)
             \/ ReadRow(g) \/ WriteRow(g) \/ Recover(g) \/ Load(g)
      PROVE RInv'
  BY <1>3, DeliverRecalls, DeliverRefundAsChargeRecalls, ApplyCancellationRecalls,
     ReconcileRecalls, EmailGoroutineRecalls, PreserveExpiredInviteRecalls, ReadRowRecalls,
     WriteRowRecalls, RecoverRecalls, LoadRecalls
<1>4. QED
  BY <1>1, <1>2, <1>3 DEF Next

LEMMA AlwaysRInv == Spec => [](IInv /\ RInv)
  BY IInvStarts, IInvInductive, RInvStarts, RInvInductive, PTL DEF Spec


-----------------------------------------------------------------------------
(* What the row says after a complete reconciliation.                      *)

\* The priorities that matter (paymentLifecycleStatusPriority).
LEMMA Priorities ==
    /\ Priority("refunded") = 110 /\ Priority("subscription_canceled") = 100
    /\ Priority("subscription_lapsed") = 95 /\ Priority("partially_refunded") = 90
    /\ Priority("subscription_past_due") = 80 /\ Priority("subscription_canceling") = 70
    /\ Priority("payment_canceled") = 60 /\ Priority("failed") = 40
    /\ \A s : Priority(s) \in Nat
<1>1. \A s : Priority(s) \in Nat
  BY DEF Priority
<1>2. QED
  BY <1>1 DEF Priority

\* The statuses that outrank one of a subscription's.
LEMMA Outranks ==
    ASSUME NEW s
    PROVE /\ Priority(s) > 70 => s \in {"refunded", "subscription_canceled", "subscription_lapsed",
                                        "partially_refunded", "subscription_past_due"}
          /\ Priority(s) > 80 => s \in {"refunded", "subscription_canceled", "subscription_lapsed",
                                        "partially_refunded"}
          /\ Priority(s) > 95 => s \in {"refunded", "subscription_canceled"}
          /\ Priority(s) > 100 => s = "refunded"
  BY DEF Priority

\* The new status is set, or what is there outranks it and stays.
LEMMA SetTo ==
    ASSUME NEW p \in Row, NEW s \in Status
    PROVE SetLifecycle(p, s).status = s \/ (Priority(p.status) > Priority(s) /\ SetLifecycle(p, s) = p)
<1>1. Priority(p.status) \in Nat /\ Priority(s) \in Nat
  BY Priorities
<1>2. CASE p.status = "" \/ Priority(s) >= Priority(p.status)
  BY <1>2 DEF SetLifecycle, Row
<1>3. CASE ~(p.status = "" \/ Priority(s) >= Priority(p.status))
  <2>1. SetLifecycle(p, s) = p
    BY <1>3 DEF SetLifecycle
  <2>2. ~(Priority(s) >= Priority(p.status))
    BY <1>3
  <2>3. Priority(p.status) > Priority(s)
    BY <1>1, <2>2
  <2>4. QED
    BY <2>1, <2>3
<1>4. QED
  BY <1>2, <1>3

\* A set of statuses that charges do not leave, and one that an intent does not.
Kept(S, s) == \A p \in Row : p.status \in S => SetLifecycle(p, s).status \in S

Steady(S) == \A s \in {"refunded", "partially_refunded", "failed"} : Kept(S, s)

SteadyFor(S, pi) ==
    /\ Steady(S)
    /\ pi.status = "canceled" => Kept(S, "payment_canceled")
    /\ "paid" \in S \/ \A s \in {"", "checkout_created", "payment_canceled", "failed"} : s \notin S

\* A charge does not take a row's status out of a steady set ...
LEMMA ChargeSteady ==
    ASSUME NEW S, Steady(S), NEW p \in Row, p.status \in S, NEW c \in Charge
    PROVE ApplyCharge(c, p).status \in S
<1> DEFINE q == [p EXCEPT !.intent = c.id, !.refunded = c.refunded]
           to == IF c.refunded >= Amount THEN "refunded" ELSE "partially_refunded"
           r == IF c.refunded = 0 THEN q ELSE SetLifecycle(q, to)
<1>1. q \in Row /\ q.status = p.status /\ to \in {"refunded", "partially_refunded"} /\ to \in Status
  BY DEF Row, Charge, Status, LifecycleStatus, RefundStatus
<1> HIDE DEF q, to
<1>2. r \in Row /\ r.status \in S
  BY <1>1, StatusSame DEF Steady, Kept
<1> HIDE DEF r
<1>3. SetLifecycle(r, "failed").status \in S
  BY <1>2 DEF Steady, Kept
<1>4. ApplyCharge(c, p) \in {p, r, SetLifecycle(r, "failed")}
  BY DEF ApplyCharge, r, q, to
<1>5. QED
  BY <1>2, <1>3, <1>4

\* ... nor does an intent, with the charge it carries.
LEMMA IntentSteady ==
    ASSUME NEW S, NEW pi \in Intent, SteadyFor(S, pi), NEW p \in Row, p.status \in S
    PROVE ApplyIntent(pi, p).status \in S
<1> DEFINE a == [p EXCEPT !.intent = pi.id]
           q == ApplyCharge(pi.charge, a)
           r == [q EXCEPT !.paid = TRUE]
           from == {"", "checkout_created", "payment_canceled", "failed"}
<1>1. a \in Row /\ a.status \in S /\ pi.charge \in Charge
  BY DEF Row, Intent
<1> HIDE DEF a
<1>2. q \in Row /\ q.status \in S
  BY <1>1, ChargeSteady, RowTypes DEF SteadyFor
<1> HIDE DEF q
<1>3. r \in Row /\ r.status \in S
  BY <1>2 DEF Row
<1> HIDE DEF r
<1>4. RaiseTo(r, "paid", from).status \in S
  BY <1>3 DEF RaiseTo, SteadyFor, Row
<1>5. SetLifecycle(q, "failed").status \in S
  BY <1>2 DEF SteadyFor, Steady, Kept
<1>6. pi.status = "canceled" => SetLifecycle(q, "payment_canceled").status \in S
  BY <1>2 DEF SteadyFor, Kept
<1>7. \/ ApplyIntent(pi, p) \in {p, q, RaiseTo(r, "paid", from), SetLifecycle(q, "failed")}
      \/ pi.status = "canceled" /\ ApplyIntent(pi, p) = SetLifecycle(q, "payment_canceled")
  BY DEF ApplyIntent, r, q, a
<1>8. QED
  BY <1>2, <1>4, <1>5, <1>6, <1>7

\* The statuses a subscription may leave a row with.
LEMMA SubSteady ==
    ASSUME NEW S \in {{"refunded", "partially_refunded", "subscription_past_due"},
                      {"refunded", "subscription_lapsed"}, {"refunded", "subscription_canceled"},
                      {"refunded", "partially_refunded", "subscription_canceling"}},
           NEW pi
    PROVE SteadyFor(S, pi)
<1>1. {"refunded", "partially_refunded", "failed", "payment_canceled"} \subseteq Status
  BY DEF Status, LifecycleStatus, RefundStatus
<1>2. ASSUME NEW s \in {"refunded", "partially_refunded", "failed", "payment_canceled"}
      PROVE Kept(S, s)
  <2> SUFFICES ASSUME NEW p \in Row, p.status \in S PROVE SetLifecycle(p, s).status \in S
    BY DEF Kept
  <2>1. SetLifecycle(p, s).status = s \/ (Priority(p.status) > Priority(s) /\ SetLifecycle(p, s) = p)
    BY <1>1, SetTo
  <2>2. CASE s = "refunded"
    BY <2>1, <2>2
  <2>3. CASE s = "partially_refunded"
    <3>1. "partially_refunded" \in S \/ p.status \in {"refunded", "subscription_lapsed", "subscription_canceled"}
      OBVIOUS
    <3>2. ASSUME p.status \in {"refunded", "subscription_lapsed", "subscription_canceled"}
          PROVE SetLifecycle(p, s) = p
      <4>1. Priority(s) = 90 /\ Priority(p.status) \in {110, 95, 100}
        BY <2>3, <3>2, Priorities
      <4>2. ~(Priority(s) >= Priority(p.status))
        BY <4>1
      <4>3. p.status # ""
        BY <3>2
      <4>4. QED
        BY <4>2, <4>3 DEF SetLifecycle
    <3>3. QED
      BY <2>1, <2>3, <3>1, <3>2
  <2>4. CASE s \in {"failed", "payment_canceled"}
    <3>1. Priority(s) \in {40, 60}
      BY <2>4, Priorities
    <3>2. p.status \in {"refunded", "subscription_canceled", "subscription_lapsed",
                        "partially_refunded", "subscription_past_due", "subscription_canceling"}
      OBVIOUS
    <3>3. SetLifecycle(p, s) = p
      <4>1. Priority(p.status) \in {110, 100, 95, 90, 80, 70}
        BY <3>2, Priorities
      <4>2. ~(Priority(s) >= Priority(p.status))
        BY <3>1, <4>1
      <4>3. p.status # ""
        BY <3>2
      <4>4. QED
        BY <4>2, <4>3 DEF SetLifecycle
    <3>4. QED
      BY <3>3
  <2>5. QED
    BY <2>2, <2>3, <2>4
<1>3. \A s \in {"", "checkout_created", "payment_canceled", "failed"} : s \notin S
  OBVIOUS
<1>4. QED
  BY <1>2, <1>3 DEF SteadyFor, Steady

\* A row without a lifecycle status, but for a refund.
Clear == RefundStatus \cup (Status \ LifecycleStatus)

\* For an active subscription whose payment was not canceled.
LEMMA ClearSteady ==
    ASSUME NEW pi, pi.status # "canceled"
    PROVE SteadyFor(Clear, pi)
<1>1. /\ {"refunded", "partially_refunded", "failed"} \subseteq Status
      /\ {"refunded", "partially_refunded", "failed", "paid"} \subseteq Clear
  BY DEF Clear, Status, LifecycleStatus, RefundStatus
<1>2. QED
  BY <1>1, SetTo DEF SteadyFor, Steady, Kept


\* Everything that exists was loaded.
LoadedAll(k) == k \in Worker /\ k.pc = "recStored" /\ k.loaded = Existing(k.snap) /\ LoadedOK(k)

\* The charge, loaded last, has the last word on what was refunded.
LEMMA StoredRefund ==
    ASSUME NEW k, LoadedAll(k), NEW p \in Row
    PROVE LET e == StoredState(k, p)
          IN  e.intent # 0 /\ k.snap.pay[e.intent] = "succeeded" =>
                 /\ e.refunded = k.snap.refunded[e.intent]
                 /\ k.snap.refunded[e.intent] = Amount => e.status = "refunded"
<1> DEFINE w == k.snap
           a == IF "session" \in k.loaded THEN ApplySession(SessionOf(w), p) ELSE p
           b == IF k.inv # 0 THEN ApplyInvoice(InvoiceOf(w, k.inv), a) ELSE a
           c == IF "sub" \in k.loaded THEN ApplySubscription(SubOf(w), b) ELSE b
           d == IF k.of # 0 /\ "intent" \in k.loaded THEN ApplyIntent(IntentOf(w, k.of), c) ELSE c
           e == IF k.of # 0 /\ "charge" \in k.loaded THEN ApplyCharge(ChargeOf(w, k.of), d) ELSE d
<1>1. k.inv \in {0} \cup PaymentId /\ k.of \in {0} \cup PaymentId /\ w \in World
  BY DEF Worker, LoadedAll
<1>2. "intent" \in k.loaded /\ "charge" \in k.loaded
  BY DEF LoadedAll, Existing, Object
<1>3. (\E i \in PaymentId : w.pay[i] # "none") => k.of # 0 /\ w.pay[k.of] # "none"
  BY DEF LoadedAll, LoadedOK
<1>4. e = StoredState(k, p)
  BY DEF StoredState
<1> HIDE DEF w
<1>5. a \in Row
  BY <1>1, ObjectRows
<1> HIDE DEF a
<1>6. b \in Row
  BY <1>1, <1>5, ObjectRows
<1> HIDE DEF b
<1>7. c \in Row
  BY <1>1, <1>6, ObjectRows
<1> HIDE DEF c
<1>8. d \in Row
  BY <1>1, <1>7, ObjectRows
<1>9. e \in Row
  BY <1>1, <1>8, ObjectRows
<1>10. ASSUME e.intent # 0, w.pay[e.intent] = "succeeded"
       PROVE /\ e.refunded = w.refunded[e.intent]
             /\ w.refunded[e.intent] = Amount => e.status = "refunded"
  <2>1. e.intent \in PaymentId
    BY <1>9, <1>10 DEF Row
  <2>2. k.of \in PaymentId /\ w.pay[k.of] # "none" /\ k.of # 0
    BY <1>1, <1>3, <1>10, <2>1
  <2>3. /\ IntentOf(w, k.of) \in Intent /\ ChargeOf(w, k.of) \in Charge
        /\ IntentOf(w, k.of).charge.id \in {0, IntentOf(w, k.of).id}
        /\ ChargeOf(w, k.of).id \in {0, k.of}
    BY <1>1, <2>2, ObjectTypes, ObjectIds
  <2>4. IntentOf(w, k.of).id = k.of
    <3>1. w.pay[k.of] \in {"failed", "succeeded", "canceled"}
      BY <1>1, <2>2 DEF World, PayState
    <3>2. QED
      BY <3>1 DEF IntentOf
  <2>5. d = ApplyIntent(IntentOf(w, k.of), c) /\ e = ApplyCharge(ChargeOf(w, k.of), d)
    BY <1>2, <2>2
  <2> HIDE DEF d, e
  <2>6. d.intent = k.of
    BY <1>7, <2>2, <2>3, <2>4, <2>5, IntentFields
  <2>7. e.intent = k.of
    BY <1>8, <2>3, <2>5, <2>6, ChargeFields
  <2>8. ChargeOf(w, k.of) = [id |-> k.of, status |-> "succeeded", refunded |-> w.refunded[k.of]]
    BY <1>10, <2>7 DEF ChargeOf
  <2>9. /\ ChargeOf(w, k.of).id # 0 /\ ChargeOf(w, k.of).status # "failed"
        /\ ChargeOf(w, k.of).refunded = w.refunded[k.of]
    BY <2>2, <2>8
  <2>10. QED
    BY <1>8, <2>3, <2>5, <2>7, <2>9, ChargeFields
<1>11. QED
  BY <1>4, <1>10 DEF w

\* The statuses a complete reconciliation may leave a subscription's row with.
StatusesOf(w) ==
    CASE w.sub = "canceled" -> {"refunded", "subscription_canceled"}
      [] w.sub = "unpaid" -> {"refunded", "subscription_lapsed"}
      [] w.sub = "past_due" -> {"refunded", "partially_refunded", "subscription_past_due"}
      [] w.sub = "active" /\ w.atEnd -> {"refunded", "partially_refunded", "subscription_canceling"}
      [] w.sub = "active" /\ ~w.atEnd -> Clear

\* An active subscription's payments succeeded.
LEMMA ActivePaid ==
    ASSUME NEW w \in World, Life(w), w.sub = "active", NEW c \in PaymentId, w.pay[c] # "none"
    PROVE w.pay[c] = "succeeded"
<1>1. w.pay[1] = "succeeded" /\ w.pay[2] \in {"none", "succeeded"}
  BY DEF Life
<1>2. c = 1 \/ c = 2
  BY DEF PaymentId
<1>3. QED
  BY <1>1, <1>2

\* The subscription sets one of them, given a row that claims nothing false.
LEMMA SubscriptionSets ==
    ASSUME NEW F, NEW w \in World, InOrder(w), LifeOK(w, F), w.sub # "",
           NEW b, RowOK(F, b),
           w.sub = "active" => b.status \notin {"subscription_past_due", "subscription_lapsed"}
    PROVE ApplySubscription(SubOf(w), b).status \in StatusesOf(w)
<1> DEFINE q == [b EXCEPT !.hasSub = TRUE, !.sub = w.sub, !.atEnd = w.atEnd]
           s == ApplySubscription(SubOf(w), b)
<1>1. b \in Row /\ w.sub \in SubStatus /\ w.atEnd \in BOOLEAN
  BY DEF RowOK, World
<1>2. q \in Row /\ q.status = b.status
  BY <1>1 DEF Row
<1>3. s = CASE w.sub = "canceled" -> SetLifecycle(q, "subscription_canceled")
            [] w.sub = "unpaid" -> SetLifecycle(q, "subscription_lapsed")
            [] w.sub = "past_due" -> SetLifecycle(q, "subscription_past_due")
            [] w.sub = "active" /\ w.atEnd -> SetLifecycle(q, "subscription_canceling")
            [] w.sub = "active" /\ ~w.atEnd -> ClearLifecycle(q)
  BY <1>1 DEF ApplySubscription, SubOf, SubStatus
<1>4. b.status = "subscription_canceled" => w.sub = "canceled"
  BY DEF RowOK, Claimed, LifeOK, LifecycleStatus
<1>5. b.status = "subscription_lapsed" => w.sub \in {"unpaid", "canceled"}
  <2>1. w.session = "complete"
    BY DEF InOrder
  <2>2. "subscription_lapsed" \in F => w.sub \in {"unpaid", "canceled"}
    BY <2>1 DEF LifeOK, Lapsed
  <2>3. b.status = "subscription_lapsed" => "subscription_lapsed" \in F
    BY DEF RowOK, Claimed, LifecycleStatus
  <2>4. QED
    BY <2>2, <2>3
<1>6. {"subscription_canceled", "subscription_lapsed", "subscription_past_due",
       "subscription_canceling"} \subseteq Status
  BY DEF Status, LifecycleStatus
<1> HIDE DEF q, s
<1>7. \A l \in Status : \/ SetLifecycle(q, l).status = l
                        \/ Priority(b.status) > Priority(l) /\ SetLifecycle(q, l).status = b.status
  BY <1>2, SetTo
<1>8. CASE w.sub = "canceled"
  <2>1. s.status \in {"refunded", "subscription_canceled"}
    BY <1>3, <1>6, <1>7, <1>8, Outranks, Priorities
  <2>2. QED
    BY <1>8, <2>1 DEF StatusesOf, s
<1>9. CASE w.sub = "unpaid"
  <2>1. s.status \in {"refunded", "subscription_lapsed"}
    BY <1>3, <1>4, <1>6, <1>7, <1>9, Outranks, Priorities
  <2>2. QED
    BY <1>9, <2>1 DEF StatusesOf, s
<1>10. CASE w.sub = "past_due"
  <2>1. s.status \in {"refunded", "partially_refunded", "subscription_past_due"}
    BY <1>3, <1>4, <1>5, <1>6, <1>7, <1>10, Outranks, Priorities
  <2>2. QED
    BY <1>10, <2>1 DEF StatusesOf, s
<1>11. CASE w.sub = "active" /\ w.atEnd
  <2>1. s.status \in {"refunded", "partially_refunded", "subscription_canceling"}
    BY <1>3, <1>4, <1>6, <1>7, <1>11, Outranks, Priorities
  <2>2. QED
    BY <1>11, <2>1 DEF StatusesOf, s
<1>12. CASE w.sub = "active" /\ ~w.atEnd
  <2>1. s = ClearLifecycle(q)
    BY <1>3, <1>12
  <2>2. RestoredStatus(q) \in Status \ LifecycleStatus
    BY DEF RestoredStatus, Status, LifecycleStatus, RefundStatus
  <2>3. ClearLifecycle(q).status \in Clear
    BY <1>2, <2>2 DEF ClearLifecycle, Clear, Row
  <2>4. QED
    BY <1>12, <2>1, <2>3 DEF StatusesOf, s
<1>13. QED
  BY <1>1, <1>8, <1>9, <1>10, <1>11, <1>12 DEF SubStatus


\* The intent and the charge, applied after the subscription, leave it there.
LEMMA StatusesSteady ==
    ASSUME NEW w \in World, Life(w), w.sub # "", NEW c \in PaymentId, w.pay[c] # "none"
    PROVE SteadyFor(StatusesOf(w), IntentOf(w, c))
<1>1. w.sub \in SubStatus /\ w.atEnd \in BOOLEAN
  BY DEF World
<1>2. CASE w.sub = "active" /\ ~w.atEnd
  <2>1. IntentOf(w, c).status = "succeeded"
    BY <1>2, ActivePaid DEF IntentOf
  <2>2. StatusesOf(w) = Clear
    BY <1>2 DEF StatusesOf
  <2>3. QED
    BY <2>1, <2>2, ClearSteady
<1>3. CASE ~(w.sub = "active" /\ ~w.atEnd)
  <2>1. StatusesOf(w) \in {{"refunded", "partially_refunded", "subscription_past_due"},
                           {"refunded", "subscription_lapsed"}, {"refunded", "subscription_canceled"},
                           {"refunded", "partially_refunded", "subscription_canceling"}}
    <3>1. CASE w.sub = "active" /\ w.atEnd
      BY <3>1 DEF StatusesOf
    <3>2. CASE w.sub = "past_due"
      BY <3>2 DEF StatusesOf
    <3>3. CASE w.sub = "unpaid"
      BY <3>3 DEF StatusesOf
    <3>4. CASE w.sub = "canceled"
      BY <3>4 DEF StatusesOf
    <3>5. QED
      BY <1>1, <1>3, <3>1, <3>2, <3>3, <3>4 DEF SubStatus
  <2>2. QED
    BY <2>1, SubSteady
<1>4. QED
  BY <1>2, <1>3

\* A paid invoice is shown as paid.
LEMMA PaidInvoice ==
    /\ 1 \in PaymentId
    /\ \A w \in World, c \in PaymentId :
          w.recurring /\ w.pay[c] = "succeeded" =>
             InvoiceOf(w, c).id = c /\ InvoiceOf(w, c).status = "paid"
  BY DEF PaymentId, InvoiceOf

\* After a complete load the row shows the subscription as it is.
LEMMA StoredSubscription ==
    ASSUME NEW F, NEW k, LoadedAll(k), SnapOK(F, k.snap), InOrder(k.snap), LifeOK(k.snap, F),
           k.snap.sub # "", NEW p, RowOK(F, p)
    PROVE LET e == StoredState(k, p)
          IN  /\ e.hasSub /\ e.sub = k.snap.sub /\ e.atEnd = k.snap.atEnd
              /\ e.status \in StatusesOf(k.snap)
<1> DEFINE w == k.snap
           a == IF "session" \in k.loaded THEN ApplySession(SessionOf(w), p) ELSE p
           b == IF k.inv # 0 THEN ApplyInvoice(InvoiceOf(w, k.inv), a) ELSE a
           c == IF "sub" \in k.loaded THEN ApplySubscription(SubOf(w), b) ELSE b
           d == IF k.of # 0 /\ "intent" \in k.loaded THEN ApplyIntent(IntentOf(w, k.of), c) ELSE c
           e == IF k.of # 0 /\ "charge" \in k.loaded THEN ApplyCharge(ChargeOf(w, k.of), d) ELSE d
<1>1. k.inv \in {0} \cup PaymentId /\ k.of \in {0} \cup PaymentId /\ w \in World /\ SnapOK(F, w)
  BY DEF Worker, LoadedAll
<1>2. w.recurring /\ Life(w) /\ InOrder(w) /\ LifeOK(w, F) /\ w.sub # "" /\ w.pay[1] = "succeeded"
  BY DEF LifeOK, Life
<1>3. {"sub", "intent", "charge"} \subseteq k.loaded
  BY <1>2 DEF LoadedAll, Existing, Object
<1>4. /\ k.inv \in PaymentId /\ w.pay[k.inv] # "none"
      /\ k.of \in PaymentId /\ w.pay[k.of] # "none" /\ k.inv # 0 /\ k.of # 0
  <2>1. k.inv # 0 /\ w.pay[k.inv] # "none"
    BY <1>2 DEF LoadedAll, LoadedOK
  <2>2. 1 \in PaymentId /\ w.pay[1] # "none"
    <3>1. w.pay[1] = "succeeded"
      BY <1>2
    <3>2. QED
      BY <3>1, PaidInvoice
  <2>3. k.of # 0 /\ w.pay[k.of] # "none"
    BY <2>2 DEF LoadedAll, LoadedOK
  <2>4. QED
    BY <1>1, <2>1, <2>3
<1>5. e = StoredState(k, p)
  BY DEF StoredState
<1> HIDE DEF w
<1>6. RowOK(F, a)
  BY <1>1, ObjectApplied
<1> HIDE DEF a
<1>7. RowOK(F, b)
  BY <1>1, <1>4, <1>6, ObjectApplied
<1>8. w.sub = "active" => b.status \notin {"subscription_past_due", "subscription_lapsed"}
  <2>1. SUFFICES ASSUME w.sub = "active"
                 PROVE b.status \notin {"subscription_past_due", "subscription_lapsed"}
    OBVIOUS
  <2>2. w.pay[k.inv] = "succeeded"
    BY <1>1, <1>2, <1>4, <2>1, ActivePaid
  <2>3. InvoiceOf(w, k.inv).id = k.inv /\ InvoiceOf(w, k.inv).status = "paid" /\ k.inv # 0
    BY <1>1, <1>2, <1>4, <2>2, PaidInvoice
  <2>4. InvoiceOf(w, k.inv) \in Invoice /\ a \in Row
    BY <1>1, <1>4, <1>6, ObjectTypes DEF RowOK
  <2>5. b = ApplyInvoice(InvoiceOf(w, k.inv), a)
    BY <1>4
  <2>6. QED
    BY <2>3, <2>4, <2>5, InvoiceFields
<1> HIDE DEF b
<1>9. c = ApplySubscription(SubOf(w), b) /\ b \in Row /\ SubOf(w) \in Subscription
  BY <1>1, <1>3, <1>7, ObjectTypes DEF RowOK
<1> HIDE DEF c
<1>10. c \in Row /\ c.hasSub /\ c.sub = w.sub /\ c.atEnd = w.atEnd
  <2>1. SubOf(w).exists /\ SubOf(w).status = w.sub /\ SubOf(w).atEnd = w.atEnd
    BY <1>2 DEF SubOf
  <2>2. QED
    BY <1>9, <2>1, SubscriptionFields, RowTypes
<1>11. c.status \in StatusesOf(w)
  BY <1>1, <1>2, <1>7, <1>8, <1>9, SubscriptionSets
<1>12. SteadyFor(StatusesOf(w), IntentOf(w, k.of))
  BY <1>1, <1>2, <1>4, StatusesSteady
<1>13. /\ d = ApplyIntent(IntentOf(w, k.of), c) /\ e = ApplyCharge(ChargeOf(w, k.of), d)
       /\ IntentOf(w, k.of) \in Intent /\ ChargeOf(w, k.of) \in Charge
       /\ IntentOf(w, k.of).charge.id \in {0, IntentOf(w, k.of).id}
  BY <1>1, <1>3, <1>4, ObjectTypes, ObjectIds
<1> HIDE DEF d, e
<1>14. d \in Row /\ d.hasSub /\ d.sub = w.sub /\ d.atEnd = w.atEnd
  BY <1>10, <1>13, IntentFields, RowTypes
<1>15. d.status \in StatusesOf(w)
  BY <1>10, <1>11, <1>12, <1>13, IntentSteady
<1>16. e.hasSub /\ e.sub = w.sub /\ e.atEnd = w.atEnd
  BY <1>13, <1>14, ChargeFields
<1>17. e.status \in StatusesOf(w)
  BY <1>12, <1>13, <1>14, <1>15, ChargeSteady DEF SteadyFor
<1>18. QED
  BY <1>5, <1>16, <1>17 DEF w

\* The second write of a complete reconciliation.
LEMMA StoredAgrees ==
    ASSUME NEW F, NEW k, LoadedAll(k), SnapOK(F, k.snap), InOrder(k.snap), LifeOK(k.snap, F),
           NEW p, RowOK(F, p), NEW linked \in BOOLEAN, k.seen = p
    PROVE Agrees(Mutate(k, p, linked), k.snap)
<1> DEFINE w == k.snap
           e == StoredState(k, p)
           m == Mutate(k, p, linked)
<1>1. p \in Row /\ k \in Worker /\ k.pc = "recStored" /\ w \in World
  BY DEF RowOK, LoadedAll, SnapOK
<1>2. RowOK(F, e)
  BY <1>1, StoredStateOK
<1>3. e \in Row
  BY <1>2 DEF RowOK
<1>4. e.intent # 0 /\ w.pay[e.intent] = "succeeded" =>
         e.refunded = w.refunded[e.intent] /\ (w.refunded[e.intent] = Amount => e.status = "refunded")
  BY <1>1, StoredRefund
<1>5. w.sub # "" => /\ e.hasSub /\ e.sub = w.sub /\ e.atEnd = w.atEnd
                    /\ e.status \in StatusesOf(w)
  BY StoredSubscription
<1>6. m \in {e, NeedsReview(e)} /\ (m = e \/ e.status \notin LifecycleStatus)
  BY <1>1 DEF Mutate
<1> HIDE DEF e, m
<1>7. Same(e, m)
  <2>1. "needs_review" \in Status
    BY DEF Status
  <2>2. Same(e, e) /\ Same(e, NeedsReview(e))
    BY <1>3, <2>1, StatusSame DEF NeedsReview, Same
  <2>3. QED
    BY <1>6, <2>2
<1>8. m = e \/ (e.status \notin LifecycleStatus /\ m.status = "needs_review")
  BY <1>3, <1>6 DEF NeedsReview, Row
<1>9. "needs_review" \in Clear /\ "refunded" \in LifecycleStatus
  BY DEF Clear, Status, LifecycleStatus, RefundStatus
<1>10. ASSUME w.sub # "" PROVE m.status \in StatusesOf(w)
  <2>1. CASE w.sub = "active" /\ ~w.atEnd
    <3>1. StatusesOf(w) = Clear
      BY <2>1 DEF StatusesOf
    <3>2. QED
      BY <1>5, <1>8, <1>9, <1>10, <3>1
  <2>2. CASE ~(w.sub = "active" /\ ~w.atEnd)
    <3>1. w.sub \in SubStatus
      BY <1>1 DEF World
    <3>2. StatusesOf(w) \subseteq LifecycleStatus
      BY <1>10, <2>2, <3>1 DEF StatusesOf, LifecycleStatus, RefundStatus, SubStatus
    <3>3. QED
      BY <1>5, <1>8, <1>10, <3>2
  <2>3. QED
    BY <2>1, <2>2
<1> HIDE DEF w
<1>11. m.intent = e.intent /\ m.refunded = e.refunded /\ (w.sub # "" => m.hasSub /\ m.sub = w.sub /\ m.atEnd = w.atEnd)
  BY <1>5, <1>7 DEF Same
<1>12. m.intent # 0 /\ w.pay[m.intent] = "succeeded" =>
         m.refunded = w.refunded[m.intent] /\ (w.refunded[m.intent] = Amount => m.status = "refunded")
  <2>1. e.status = "refunded" => m = e
    BY <1>8, <1>9
  <2>2. QED
    BY <1>4, <1>11, <2>1
<1>13. /\ w.sub = "past_due" => m.status \in RefundStatus \cup {"subscription_past_due"}
       /\ w.sub = "unpaid" => m.status \in {"refunded", "subscription_lapsed"}
       /\ w.sub = "canceled" => m.status \in {"refunded", "subscription_canceled"}
       /\ w.sub = "active" /\ w.atEnd => m.status \in RefundStatus \cup {"subscription_canceling"}
       /\ w.sub = "active" /\ ~w.atEnd => m.status \in RefundStatus \cup (Status \ LifecycleStatus)
  <2>1. w.sub = "past_due" => m.status \in RefundStatus \cup {"subscription_past_due"}
    BY <1>10 DEF StatusesOf, RefundStatus
  <2>2. w.sub = "unpaid" => m.status \in {"refunded", "subscription_lapsed"}
    BY <1>10 DEF StatusesOf
  <2>3. w.sub = "canceled" => m.status \in {"refunded", "subscription_canceled"}
    BY <1>10 DEF StatusesOf
  <2>4. w.sub = "active" /\ w.atEnd => m.status \in RefundStatus \cup {"subscription_canceling"}
    BY <1>10 DEF StatusesOf, RefundStatus
  <2>5. w.sub = "active" /\ ~w.atEnd => m.status \in Clear
    BY <1>10 DEF StatusesOf
  <2>6. QED
    BY <2>1, <2>2, <2>3, <2>4, <2>5 DEF Clear
<1>14. Agrees(m, w)
  BY <1>11, <1>12, <1>13 DEF Agrees
<1>15. QED
  BY <1>14 DEF m, w


\* Only its own write ends the time a worker holds the row.
LEMMA EndsByWrite ==
    ASSUME IInv, [Next]_vars, NEW g \in Workers, worker[g].pc = "recStored", worker[g].holds,
           ~worker'[g].holds
    PROVE WriteRow(g)
<1>1. worker \in [Workers -> Worker]
  BY DEF IInv
<1>2. worker'[g] # worker[g]
  OBVIOUS
<1>3. CASE UNCHANGED vars \/ StripeChange
  BY <1>2, <1>3 DEF vars, StripeChange, Change, CardDeclined, SessionExpires, SessionPaid, Refunded,
     RefundFails, CancelAtPeriodEnd, RenewalDeclined, RenewalPaid, RenewalAbandoned, SubscriptionEnds
<1>4. ASSUME NEW h \in Workers, NEW m, worker' = [worker EXCEPT ![h] = m] PROVE h = g
  BY <1>1, <1>2, <1>4
<1>5. ASSUME NEW h \in Workers,
             \/ Deliver(h) \/ DeliverRefundAsCharge(h) \/ ApplyCancellation(h)
             \/ Reconcile(h) \/ EmailGoroutine(h) \/ PreserveExpiredInvite(h)
      PROVE FALSE
  <2>1. worker[h].pc = "idle" /\ \E m : worker' = [worker EXCEPT ![h] = m]
    BY <1>5 DEF Deliver, DeliverRefundAsCharge, ApplyCancellation, Reconcile, EmailGoroutine,
       PreserveExpiredInvite, Begin, Free
  <2>2. QED
    BY <1>4, <2>1
<1>6. ASSUME NEW h \in Workers, ReadRow(h) PROVE FALSE
  <2>1. ~worker[h].holds /\ \E m : worker' = [worker EXCEPT ![h] = m]
    BY <1>6 DEF ReadRow
  <2>2. QED
    BY <1>4, <2>1
<1>7. ASSUME NEW h \in Workers, Recover(h) \/ Load(h) PROVE FALSE
  <2>1. worker[h].pc \in {"recover", "load"} /\ \E m : worker' = [worker EXCEPT ![h] = m]
    BY <1>7 DEF Recover, Load
  <2>2. QED
    BY <1>4, <2>1
<1>8. ASSUME NEW h \in Workers, WriteRow(h) PROVE WriteRow(g)
  <2>1. \E m : worker' = [worker EXCEPT ![h] = m]
    BY <1>8 DEF WriteRow
  <2>2. QED
    BY <1>4, <1>8, <2>1
<1>9. QED
  BY <1>3, <1>5, <1>6, <1>7, <1>8 DEF Next

Complete(g) ==
    /\ worker[g].pc = "recStored" /\ worker[g].holds /\ ~worker'[g].holds
    /\ worker[g].loaded = Existing(stripe) /\ worker[g].seen = row /\ worker[g].snap = stripe

\* The step that writes is the one StoredAgrees is about.
LEMMA RepairStep ==
    IInv /\ RInv /\ [Next]_vars => \A g \in Workers : Complete(g) => Agrees(row', stripe)
<1> SUFFICES ASSUME IInv, RInv, [Next]_vars, NEW g \in Workers, Complete(g)
             PROVE Agrees(row', stripe)
  OBVIOUS
<1> DEFINE k == worker[g]
<1>1. WriteRow(g)
  BY EndsByWrite DEF Complete
<1>2. PICK linked \in BOOLEAN : row' = Mutate(k, k.seen, linked)
  BY <1>1 DEF WriteRow
<1>3. k \in Worker /\ LoadedOK(k) /\ k.pc = "recStored" /\ k.snap = stripe /\ k.seen = row
      /\ k.loaded = Existing(k.snap)
  BY DEF IInv, RInv, RecallOK, Complete
<1>4. SnapOK(was, stripe) /\ InOrder(stripe) /\ LifeOK(stripe, was) /\ RowOK(was, row)
  BY DEF IInv, StripeOK, RInv
<1> HIDE DEF k
<1>5. LoadedAll(k)
  BY <1>3 DEF LoadedAll
<1>6. QED
  BY <1>2, <1>3, <1>4, <1>5, StoredAgrees

\* A reconciliation that fetched everything, undisturbed, repairs the row, whatever
\* updates were lost before (stripe_reconcile.go, applyStripePaymentStateToPayment).
THEOREM Repairs == Spec => ReconcileRepairs
<1>1. IInv /\ RInv /\ [Next]_vars => [\A g \in Workers : Complete(g) => Agrees(row', stripe)]_vars
  BY RepairStep
<1>2. QED
  BY <1>1, AlwaysRInv, PTL DEF Spec, ReconcileRepairs, Complete

=============================================================================
