---------------------------- MODULE PaymentRecord ----------------------------
(***************************************************************************)
(* The row jfa-go keeps for one Stripe payment, and the functions that     *)
(* fold what Stripe reports into it (payments.go, stripe_reconcile.go,     *)
(* api-stripe.go).  Everything here is a pure operator: a row goes in, a   *)
(* row comes out.  The module PaymentLedger runs them concurrently.        *)
(*                                                                         *)
(* A timestamp is reduced to whether it is set, a Stripe object to its     *)
(* id (0: absent, as a nil pointer or an empty ID) and the fields the      *)
(* functions branch on.  Every object of a purchase has the same price,    *)
(* Amount, so the row's own Amount column is not repeated.  A payment      *)
(* intent and its latest charge share one id; payment 1 is the first one   *)
(* of a purchase, payment 2 the renewal of a subscription.                 *)
(***************************************************************************)
EXTENDS Naturals

CONSTANT Amount     \* price of the purchase, in the currency's smallest unit

ASSUME AmountAssumption == Amount \in Nat \ {0}

-----------------------------------------------------------------------------
(* Statuses.  "" is the zero value of a row that was just created.         *)

RefundStatus == {"refunded", "partially_refunded"}

LifecycleStatus ==
    RefundStatus \cup {"subscription_canceling", "subscription_canceled",
                       "subscription_past_due", "subscription_lapsed",
                       "payment_canceled", "checkout_expired"}

Status ==
    LifecycleStatus \cup {"", "checkout_created", "paid", "fulfilled", "failed",
                          "email_sent", "email_failed", "needs_review"}

EmailStatus == {"", "not_started", "not_applicable", "pending", "sent",
                "failed", "disabled"}

Priority(s) ==
    CASE s = "refunded"                                  -> 110
      [] s = "subscription_canceled"                     -> 100
      [] s = "subscription_lapsed"                       -> 95
      [] s = "partially_refunded"                        -> 90
      [] s = "subscription_past_due"                     -> 80
      [] s = "subscription_canceling"                    -> 70
      [] s \in {"payment_canceled", "checkout_expired"}  -> 60
      [] s = "needs_review"                              -> 50
      [] s \in {"email_failed", "failed"}                -> 40
      [] s \in {"email_sent", "fulfilled"}               -> 30
      [] s = "paid"                                      -> 20
      [] s = "checkout_created"                          -> 10
      [] OTHER                                           -> 0

-----------------------------------------------------------------------------
(* The row and the Stripe objects.                                         *)

PaymentId == 1..2

SubStatus == {"", "active", "past_due", "unpaid", "canceled"}

Row == [status : Status, email : EmailStatus,
        paid : BOOLEAN, fulfilled : BOOLEAN,      \* PaidAt, FulfilledAt set?
        refunded : 0..Amount,
        intent : {0} \cup PaymentId,              \* PaymentIntentID, ChargeID
        invoice : {0} \cup PaymentId,             \* InvoiceID
        hasSub : BOOLEAN,                         \* SubscriptionID set?
        sub : SubStatus, atEnd : BOOLEAN]         \* SubscriptionStatus, ...CancelAtPeriodEnd

NewRow == [status |-> "", email |-> "", paid |-> FALSE, fulfilled |-> FALSE,
           refunded |-> 0, intent |-> 0, invoice |-> 0,
           hasSub |-> FALSE, sub |-> "", atEnd |-> FALSE]

\* An object delivered by reference only (not expanded) has status "".
Charge == [id : {0} \cup PaymentId, status : {"", "succeeded", "failed"},
           refunded : 0..Amount]

Intent == [id : {0} \cup PaymentId,
           status : {"", "succeeded", "canceled", "requires_payment_method"},
           charge : Charge]

Invoice == [id : {0} \cup PaymentId, status : {"", "paid", "open", "void"}]

Subscription == [exists : BOOLEAN, status : SubStatus, atEnd : BOOLEAN]

Session == [status : {"open", "complete", "expired"},
            invoice : Invoice, sub : Subscription, intent : Intent]

NoCharge  == [id |-> 0, status |-> "", refunded |-> 0]
NoIntent  == [id |-> 0, status |-> "", charge |-> NoCharge]
NoInvoice == [id |-> 0, status |-> ""]
NoSub     == [exists |-> FALSE, status |-> "", atEnd |-> FALSE]

-----------------------------------------------------------------------------
(* Lifecycle statuses only rise, and an active subscription clears them.   *)

SetLifecycle(p, s) ==
    IF p.status = "" \/ Priority(s) >= Priority(p.status)
    THEN [p EXCEPT !.status = s]
    ELSE p

RestoredStatus(p) ==
    CASE p.fulfilled /\ p.email = "sent"   -> "email_sent"
      [] p.fulfilled /\ p.email = "failed" -> "email_failed"
      [] p.fulfilled /\ p.email \notin {"sent", "failed"} -> "fulfilled"
      [] ~p.fulfilled /\ p.paid            -> "paid"
      [] OTHER                             -> "checkout_created"

ClearLifecycle_AnyStatus(p) ==
    IF p.status \in LifecycleStatus
    THEN [p EXCEPT !.status = RestoredStatus(p)]
    ELSE p

ClearLifecycle(p) ==
    IF p.status \in LifecycleStatus \ RefundStatus
    THEN [p EXCEPT !.status = RestoredStatus(p)]
    ELSE p

RaiseTo(p, s, from) == IF p.status \in from THEN [p EXCEPT !.status = s] ELSE p

-----------------------------------------------------------------------------
(* applyStripe...ToPayment                                                 *)

ApplyCharge_AnyRefundIsFull(c, p) ==
    LET q == [p EXCEPT !.intent = c.id, !.refunded = c.refunded]
        r == IF c.refunded = 0 THEN q ELSE SetLifecycle(q, "refunded")
    IN  IF c.id = 0 THEN p
        ELSE IF c.status = "failed" THEN SetLifecycle(r, "failed") ELSE r

ApplyCharge(c, p) ==
    LET q == [p EXCEPT !.intent = c.id, !.refunded = c.refunded]
        r == IF c.refunded = 0 THEN q
             ELSE SetLifecycle(q, IF c.refunded >= Amount
                                  THEN "refunded" ELSE "partially_refunded")
    IN  IF c.id = 0 THEN p
        ELSE IF c.status = "failed" THEN SetLifecycle(r, "failed") ELSE r

ApplyIntent(pi, p) ==
    LET q == ApplyCharge(pi.charge, [p EXCEPT !.intent = pi.id])
    IN  CASE pi.id = 0 -> p
          [] pi.id # 0 /\ pi.status = "succeeded" ->
               RaiseTo([q EXCEPT !.paid = TRUE], "paid",
                       {"", "checkout_created", "payment_canceled", "failed"})
          [] pi.id # 0 /\ pi.status = "canceled" -> SetLifecycle(q, "payment_canceled")
          [] pi.id # 0 /\ pi.status = "requires_payment_method" -> SetLifecycle(q, "failed")
          [] OTHER -> q

ApplyInvoice(inv, p) ==
    LET q == [p EXCEPT !.invoice = inv.id, !.hasSub = @ \/ inv.status # ""]
    IN  CASE inv.id = 0 -> p
          [] inv.id # 0 /\ inv.status = "paid" ->
               RaiseTo([q EXCEPT !.paid = TRUE], "paid",
                       {"", "checkout_created", "failed",
                        "subscription_past_due", "subscription_lapsed"})
          [] inv.id # 0 /\ inv.status = "open" -> SetLifecycle(q, "subscription_past_due")
          [] inv.id # 0 /\ inv.status = "void" -> SetLifecycle(q, "subscription_lapsed")
          [] OTHER -> q

ApplySubscription(s, p) ==
    LET q == [p EXCEPT !.hasSub = TRUE, !.sub = s.status, !.atEnd = s.atEnd]
    IN  CASE ~s.exists -> p
          [] s.exists /\ s.status = "canceled" -> SetLifecycle(q, "subscription_canceled")
          [] s.exists /\ s.status = "unpaid"   -> SetLifecycle(q, "subscription_lapsed")
          [] s.exists /\ s.status = "past_due" -> SetLifecycle(q, "subscription_past_due")
          [] s.exists /\ s.status = "active" /\ s.atEnd -> SetLifecycle(q, "subscription_canceling")
          [] s.exists /\ s.status = "active" /\ ~s.atEnd -> ClearLifecycle(q)
          [] OTHER -> q

ApplySession_AlwaysPaid(s, p) ==
    LET q == ApplyIntent(s.intent, ApplySubscription(s.sub, ApplyInvoice(s.invoice, p)))
        r == [q EXCEPT !.paid = TRUE, !.email = IF @ = "" THEN "not_started" ELSE @]
    IN  CASE s.status = "expired"  -> SetLifecycle(r, "checkout_expired")
          [] s.status = "complete" -> RaiseTo(r, "paid", {"", "checkout_created", "checkout_expired"})
          [] s.status = "open"     -> RaiseTo(r, "checkout_created", {""})

ApplySession(s, p) ==
    LET q == ApplyIntent(s.intent, ApplySubscription(s.sub, ApplyInvoice(s.invoice, p)))
        r == [q EXCEPT !.paid = @ \/ s.status = "complete",
                       !.email = IF @ = "" THEN "not_started" ELSE @]
    IN  CASE s.status = "expired"  -> SetLifecycle(r, "checkout_expired")
          [] s.status = "complete" -> RaiseTo(r, "paid", {"", "checkout_created", "checkout_expired"})
          [] s.status = "open"     -> RaiseTo(r, "checkout_created", {""})

ApplyRefund_Adds(id, refunded, p) ==
    LET most == p.refunded + refunded
        q    == [p EXCEPT !.intent = id, !.refunded = most]
    IN  SetLifecycle(q, IF most >= Amount THEN "refunded" ELSE "partially_refunded")

\* A refund event whose charge could not be fetched: only the one refund is known.
ApplyRefund(id, refunded, p) ==
    LET most == IF refunded > p.refunded THEN refunded ELSE p.refunded
        q    == [p EXCEPT !.intent = id, !.refunded = most]
    IN  SetLifecycle(q, IF most >= Amount THEN "refunded" ELSE "partially_refunded")

-----------------------------------------------------------------------------
(* markPaymentFulfilled, markPaymentEmail and what reads the row.          *)

MarkFulfilled(p) ==
    LET q == [p EXCEPT !.fulfilled = TRUE, !.email = IF @ = "" THEN "not_started" ELSE @]
    IN  IF q.status \in {"email_sent", "email_failed"} \cup LifecycleStatus
        THEN q ELSE [q EXCEPT !.status = "fulfilled"]

MarkEmail(e, p) ==
    LET q == [p EXCEPT !.email = e]
    IN  CASE p.status \in LifecycleStatus -> q
          [] p.status \notin LifecycleStatus /\ e = "sent"   -> [q EXCEPT !.status = "email_sent"]
          [] p.status \notin LifecycleStatus /\ e = "failed" -> [q EXCEPT !.status = "email_failed"]
          [] p.status \notin LifecycleStatus /\ e \in {"pending", "disabled"} ->
               RaiseTo(q, "fulfilled", {"", "paid", "checkout_created"})
          [] OTHER -> q

CanRecoverInvite(p) ==
    /\ p.status \notin {"refunded", "subscription_canceled", "subscription_lapsed",
                        "payment_canceled", "checkout_expired"}
    /\ \/ p.status \in {"paid", "fulfilled", "email_sent", "email_failed", "needs_review",
                        "subscription_canceling", "subscription_past_due"}
       \/ p.paid

=============================================================================
