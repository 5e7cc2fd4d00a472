-------------------------- MODULE SubscriptionNotices --------------------------
(***************************************************************************)
(* Telling a customer, once, that a subscription was cancelled             *)
(* (stripe_subscription_notifications.go and its callers).                 *)
(*                                                                         *)
(* Every row of the subscription keeps when that was done.  The check and  *)
(* the mark are made under a mutex, the email is sent outside of it, and   *)
(* the handlers that write rows (setPayment) know nothing of the mutex.    *)
(***************************************************************************)
EXTENDS Integers

CONSTANTS
    Notifiers,                  \* goroutines of webhook events and of the two endpoints
    SubRows,                    \* rows there may be of one subscription
    MaxEvents, MaxWrites        \* bounds

VARIABLES
    notifiedAt,     \* SubscriptionCancelNotifiedAt of each row, zero or not
    notifier,       \* what each of the goroutines is at
    mailed,         \* emails that were sent
    events, writes, \* how often there was one
    erased,         \* history: a stale copy took a mark away
    restored,       \* history: a stale copy brought a mark back that had been cleared
    cutOff          \* history: the process ended while an email was being sent

noticeVars == <<notifiedAt, notifier, mailed, events, writes, erased, restored, cutOff>>

Rested == [pc |-> "idle", notifies |-> FALSE, todo |-> {}, row |-> "none", copy |-> "none"]

RowsThere == {r \in SubRows : notifiedAt[r] # "absent"}

\* stripeSubscriptionCancellationNotified
Notified == \E r \in SubRows : notifiedAt[r] = "set"

NoticesInit ==
    /\ notifiedAt \in [SubRows -> {"absent", "zero"}]
    /\ notifier = [n \in Notifiers |-> Rested]
    /\ mailed = 0 /\ events = 0 /\ writes = 0
    /\ erased = FALSE /\ restored = FALSE /\ cutOff = FALSE

Works(n, todo, notifies) ==
    /\ notifier[n].pc = "idle"
    /\ notifier' = [notifier EXCEPT ![n] = [Rested EXCEPT !.pc = "applies", !.todo = todo,
                                                         !.notifies = notifies]]

\* CancelPaymentSubscription, CancelMySubscription, handleStripeSubscriptionUpdated and
\* handleStripeSubscriptionDeleted: applyStripeSubscriptionEvent goes over the rows of the
\* subscription, or makes one if it is of this instance.
Cancellation(n) ==
    /\ events < MaxEvents /\ events' = events + 1
    /\ \/ RowsThere # {} /\ Works(n, RowsThere, TRUE)
       \/ RowsThere = {} /\ (\E r \in SubRows : Works(n, {r}, TRUE) \/ Works(n, {}, TRUE))
    /\ UNCHANGED <<notifiedAt, mailed, writes, erased, restored, cutOff>>

\* A checkout, an invoice, an email: any other handler that writes a row.
OtherWrite(n) ==
    /\ writes < MaxWrites /\ writes' = writes + 1
    /\ \E r \in SubRows : Works(n, {r}, FALSE)
    /\ UNCHANGED <<notifiedAt, mailed, events, erased, restored, cutOff>>

Copied(w, r) == [w EXCEPT !.pc = "copied", !.todo = @ \ {r}, !.row = r,
                          !.copy = IF notifiedAt[r] = "absent" THEN "zero" ELSE notifiedAt[r]]

\* setPayment reads a row ...
CopyRow(n) ==
    /\ notifier[n].pc = "applies"
    /\ \E r \in notifier[n].todo :
          notifier' = [notifier EXCEPT ![n] = Copied(notifier[n], r)]
    /\ UNCHANGED <<notifiedAt, mailed, events, writes, erased, restored, cutOff>>

\* ... and stores the copy.
StoreRow(n) ==
    LET w == notifier[n]
    IN  /\ w.pc = "copied"
        /\ notifiedAt' = [notifiedAt EXCEPT ![w.row] = w.copy]
        /\ erased' = (erased \/ (notifiedAt[w.row] = "set" /\ w.copy = "zero"))
        /\ restored' = (restored \/ (notifiedAt[w.row] = "zero" /\ w.copy = "set"))
        /\ notifier' = [notifier EXCEPT ![n] =
               IF w.todo # {} \/ w.notifies
               THEN [w EXCEPT !.pc = "applies", !.row = "none", !.copy = "none"] ELSE Rested]
        /\ UNCHANGED <<mailed, events, writes, cutOff>>

MarkRows(value) == notifiedAt' = [r \in SubRows |-> IF r \in RowsThere THEN value ELSE "absent"]

\* Not asking whether the customer has been told.
Reserve_Unasked(n) ==
    /\ notifier[n].pc = "applies" /\ notifier[n].notifies /\ notifier[n].todo = {}
    /\ \/ /\ RowsThere = {}
          /\ notifier' = [notifier EXCEPT ![n] = Rested]
          /\ UNCHANGED notifiedAt
       \/ /\ RowsThere # {}
          /\ MarkRows("set")
          /\ notifier' = [notifier EXCEPT ![n].pc = "sends"]
    /\ UNCHANGED <<mailed, events, writes, erased, restored, cutOff>>

\* notifyStripeSubscriptionCancellation up to the email, with
\* reserveStripeSubscriptionCancellationNotification, one at a time by the mutex.
Reserve(n) ==
    /\ notifier[n].pc = "applies" /\ notifier[n].notifies /\ notifier[n].todo = {}
    /\ \/ /\ Notified \/ RowsThere = {}
          /\ notifier' = [notifier EXCEPT ![n] = Rested]
          /\ UNCHANGED notifiedAt
       \/ /\ ~Notified /\ RowsThere # {}
          /\ MarkRows("set")
          /\ notifier' = [notifier EXCEPT ![n].pc = "sends"]
    /\ UNCHANGED <<mailed, events, writes, erased, restored, cutOff>>

\* The email is sent, or that fails.
SendNotice(n) ==
    /\ notifier[n].pc = "sends"
    /\ \/ /\ mailed' = mailed + 1
          /\ notifier' = [notifier EXCEPT ![n] = Rested]
       \/ /\ notifier' = [notifier EXCEPT ![n].pc = "failed"]
          /\ UNCHANGED mailed
    /\ UNCHANGED <<notifiedAt, events, writes, erased, restored, cutOff>>

\* clearStripeSubscriptionCancellationNotified
ClearNotified(n) ==
    /\ notifier[n].pc = "failed"
    /\ MarkRows("zero")
    /\ notifier' = [notifier EXCEPT ![n] = Rested]
    /\ UNCHANGED <<mailed, events, writes, erased, restored, cutOff>>

\* The process ends, once.
EndsAndStarts ==
    /\ ~cutOff
    /\ \E n \in Notifiers : notifier[n].pc \in {"sends", "failed"}
    /\ cutOff' = TRUE
    /\ notifier' = [n \in Notifiers |-> Rested]
    /\ UNCHANGED <<notifiedAt, mailed, events, writes, erased, restored>>

NoticesNext ==
    \/ \E n \in Notifiers : \/ Cancellation(n) \/ OtherWrite(n) \/ CopyRow(n) \/ StoreRow(n)
                            \/ Reserve(n) \/ SendNotice(n) \/ ClearNotified(n)
    \/ EndsAndStarts

-----------------------------------------------------------------------------
\* reserveStripeSubscriptionCancellationNotification (stripe_subscription_notifications.go:102):
\* a customer is told twice, or may be told again, only if a stale copy of a row has erased
\* the mark.  The mark of somebody who was not told stays only if the process ended while
\* the email was on its way, or a stale copy has restored it; what fails may be tried again.
ToldOnce ==
    /\ mailed > 1 => erased
    /\ mailed > 0 /\ ~Notified => erased
    /\ mailed = 0 /\ Notified => \/ cutOff \/ restored
                                 \/ \E n \in Notifiers : notifier[n].pc \in {"sends", "failed"}

=============================================================================
