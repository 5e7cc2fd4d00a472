--------------------------- MODULE StoreFulfillment ---------------------------
(***************************************************************************)
(* What a purchase in the store gives to its buyer (payments.go,           *)
(* api-stripe.go, stripe_reconcile.go, api-users.go).                      *)
(*                                                                         *)
(* One buyer, known by an email address, pays store checkouts (Sessions)   *)
(* and renewals of a subscription (Renewals), each for one period of       *)
(* access.  A payment is turned into time on the expiry of the buyer's     *)
(* Jellyfin user or, when no user has the address, into an invite which    *)
(* the buyer redeems later for a user with one period.  Webhook requests,  *)
(* reconciliations and sign-ups run concurrently; one call to the          *)
(* database or to Jellyfin is one step.  The process may crash.            *)
(*                                                                         *)
(* Time does not pass here: an expiry is the number of periods it is       *)
(* ahead of now (extendPaidUserExpiry adds to the later of the two), and   *)
(* all plans end.  The status of the payment rows is PaymentLedger's.      *)
(***************************************************************************)
EXTENDS Naturals, FiniteSets, Functions

CONSTANTS Sessions,      \* store checkouts of the buyer
          Renewals,      \* subscription_cycle invoices of the buyer
          Workers,       \* goroutines that may run at the same time
          MaxUsers,      \* bound: Jellyfin users ever created for the buyer
          MaxCodes,      \* bound: invites ever created for the buyer
          Budgets        \* what may happen in a behaviour, see Budget

ASSUME FulfillmentAssumption ==
    /\ Sessions \cap Renewals = {} /\ IsFiniteSet(Sessions \cup Renewals)
    /\ MaxUsers \in Nat /\ MaxCodes \in Nat

Txn   == Sessions \cup Renewals
User  == 1..MaxUsers
Code  == 1..MaxCodes
None  == 0               \* no user, no invite
NoTxn == "none"          \* LastTransactionID = ""

ASSUME NoTxnAssumption == NoTxn \notin Txn

\* The payments that are made, the users the buyer has at the start and may have ever,
\* how often one payment is reported (by its event or a reconciliation), the Jellyfin
\* requests that fail, crashes of the process and whether there was one, actions of the
\* administrator, and whether handlers overlap.
Budget == [txns : SUBSET Txn, existing : 0..MaxUsers, users : 0..MaxUsers, arrivals : Nat,
           failures : Nat, crashes : Nat, crashed : BOOLEAN, admin : Nat, overlap : BOOLEAN]

ASSUME BudgetsAssumption == Budgets \subseteq Budget

VARIABLES paid,       \* payments Stripe has received
          arrived,    \* how often a payment has been reported
          rows,       \* the part of the stored payments fulfilment reads and writes
          jellyfin,   \* users that exist in Jellyfin
          disabled,   \* users Jellyfin has disabled
          emails,     \* users whose stored address is the buyer's
          expiries,   \* stored expiries: periods left and the last payment credited
          invites,    \* stored invites: the payment each was created for
          made,       \* users and invites created so far
          worker,     \* what each goroutine is doing
          budget,     \* what may still happen
          granted     \* history: how often each payment has been turned into access

store == <<emails, expiries, invites>>
vars == <<paid, arrived, rows, jellyfin, disabled, store, made, worker, budget, granted>>

-----------------------------------------------------------------------------
Row == [fulfilled : BOOLEAN, user : User \cup {None}, code : Code \cup {None}]
NewRow == [fulfilled |-> FALSE, user |-> None, code |-> None]

Expiry == [left : Nat, last : Txn \cup {NoTxn}]
NoExpiry == [left |-> 0, last |-> NoTxn]

\* touch: the payment's target email and plan are written before the grant.
RowStep == {"touch", "mark", "relink"}

Step == RowStep \cup
    {"idle", "find", "lookup", "dropEmail", "dropExpiry", "label", "extend", "credit",
     "enable", "search", "create", "signup", "use", "email", "expiry"}

Via == {"webhook", "reconcile", "invoice", "repair", "signup"}

Worker == [pc : Step, via : Via, txn : Txn \cup {NoTxn}, user : User \cup {None},
           code : Code \cup {None}, exp : Expiry, holds : BOOLEAN, seen : Row]

Idle == [pc |-> "idle", via |-> "webhook", txn |-> NoTxn, user |-> None,
         code |-> None, exp |-> NoExpiry, holds |-> FALSE, seen |-> NewRow]

TypeOK ==
    /\ paid \subseteq Txn
    /\ arrived \in [Txn -> Nat]
    /\ rows \in [Txn -> Row]
    /\ jellyfin \subseteq User /\ disabled \subseteq User /\ emails \subseteq User
    /\ DOMAIN expiries \subseteq User /\ expiries \in [DOMAIN expiries -> Expiry]
    /\ DOMAIN invites \subseteq Code /\ invites \in [DOMAIN invites -> Txn]
    /\ made \in [users : 0..MaxUsers, codes : 0..MaxCodes]
    /\ worker \in [Workers -> Worker]
    /\ budget \in Budget
    /\ granted \in [Txn -> Nat]

Init ==
    /\ paid = {}
    /\ arrived = [t \in Txn |-> 0]
    /\ rows = [t \in Txn |-> NewRow]
    /\ budget \in Budgets
    /\ jellyfin = 1..budget.existing /\ disabled = {} /\ emails = 1..budget.existing
    /\ expiries = [u \in {} |-> NoExpiry]
    /\ invites = [c \in {} |-> NoTxn]
    /\ made = [users |-> budget.existing, codes |-> 0]
    /\ worker = [g \in Workers |-> Idle]
    /\ granted = [t \in Txn |-> 0]

-----------------------------------------------------------------------------
(* Operators on the stored tables.                                         *)

Put(f, k, v) == [x \in DOMAIN f \cup {k} |-> IF x = k THEN v ELSE f[x]]
Drop(f, k)   == [x \in DOMAIN f \ {k} |-> f[x]]

ExpiryOf(u) == IF u \in DOMAIN expiries THEN expiries[u] ELSE NoExpiry

\* extendPaidUserExpiry, given the expiry it has read.
AlreadyCredited_Never(e, t) == FALSE
AlreadyCredited_ByAny(e, t) == e.last # NoTxn
AlreadyCredited(e, t) == e.last = t
Extended_FromNow(e, t) == [left |-> 1, last |-> t]
Extended(e, t) == [left |-> e.left + 1, last |-> t]

\* purchasedInviteByTransaction
PurchasedInvites(t) == {c \in DOMAIN invites : invites[c] = t}

Goto(g, pc) == worker' = [worker EXCEPT ![g].pc = pc]

Granted(t) == granted' = [granted EXCEPT ![t] = @ + 1]

-----------------------------------------------------------------------------
(* Payments and their arrival.                                             *)

\* The buyer pays; for a renewal, Stripe's subscription does (external).
Pays ==
    \E t \in budget.txns \ paid :
        /\ paid' = paid \cup {t}
        /\ UNCHANGED <<arrived, rows, jellyfin, disabled, store, made, worker, budget, granted>>

Start(g, rec) ==
    /\ worker[g].pc = "idle"
    /\ budget.overlap \/ \A h \in Workers : worker[h].pc = "idle"
    /\ worker' = [worker EXCEPT ![g] = rec]

\* checkout.session.completed, invoice.payment_succeeded
Deliver(g) ==
    \E t \in paid :
        /\ arrived[t] < budget.arrivals
        /\ arrived' = [arrived EXCEPT ![t] = @ + 1]
        /\ Start(g, [Idle EXCEPT !.pc = "touch", !.txn = t,
                                 !.via = IF t \in Renewals THEN "invoice" ELSE "webhook"])
        /\ UNCHANGED <<paid, rows, jellyfin, disabled, store, made, budget, granted>>

\* fulfillRecoveredStripeCheckout, for a session that has not been fulfilled.
Reconcile(g) ==
    \E t \in paid \cap Sessions :
        /\ ~rows[t].fulfilled
        /\ arrived[t] < budget.arrivals
        /\ arrived' = [arrived EXCEPT ![t] = @ + 1]
        /\ Start(g, [Idle EXCEPT !.pc = "touch", !.txn = t, !.via = "reconcile"])
        /\ UNCHANGED <<paid, rows, jellyfin, disabled, store, made, budget, granted>>

\* repairStaleStorePaymentAsInvite: Jellyfin does not
\* answer for the user the payment was credited to.
Repair(g) ==
    \E t \in paid \cap Sessions :
        /\ rows[t].fulfilled /\ rows[t].user # None /\ rows[t].code = None
        /\ \/ rows[t].user \notin jellyfin /\ UNCHANGED budget
           \/ /\ rows[t].user \in jellyfin /\ budget.failures > 0
              /\ budget' = [budget EXCEPT !.failures = @ - 1]
        /\ Start(g, [Idle EXCEPT !.pc = "dropEmail", !.txn = t, !.via = "repair",
                                 !.user = rows[t].user])
        /\ UNCHANGED <<paid, arrived, rows, jellyfin, disabled, store, made, granted>>

-----------------------------------------------------------------------------
(* setPayment: the row is read, then a changed copy of it is stored.       *)

ReadRow(g) ==
    LET k == worker[g]
    IN  /\ k.pc \in RowStep /\ ~k.holds
        /\ worker' = [worker EXCEPT ![g].holds = TRUE, ![g].seen = rows[k.txn]]
        /\ UNCHANGED <<paid, arrived, rows, jellyfin, disabled, store, made, budget, granted>>

\* markPaymentFulfilled sets what the grant returned and keeps the rest.
Marked(k) ==
    [k.seen EXCEPT !.fulfilled = TRUE,
                   !.user = IF k.user # None THEN k.user ELSE @,
                   !.code = IF k.code # None THEN k.code ELSE @]

Relinked(k) == [k.seen EXCEPT !.user = None, !.code = k.code]

WriteRow(g) ==
    LET k == worker[g]
    IN  /\ k.pc \in RowStep /\ k.holds
        /\ rows' = [rows EXCEPT ![k.txn] =
               CASE k.pc = "touch"  -> k.seen
                 [] k.pc = "mark"   -> Marked(k)
                 [] k.pc = "relink" -> Relinked(k)]
        /\ worker' = [worker EXCEPT ![g] =
               IF k.pc = "touch" THEN [k EXCEPT !.pc = "find", !.holds = FALSE, !.seen = NewRow]
               ELSE Idle]
        /\ UNCHANGED <<paid, arrived, jellyfin, disabled, store, made, budget, granted>>

-----------------------------------------------------------------------------
(* fulfillStorePayment and the tail of handleStripeInvoiceSucceeded.       *)

Find_IgnoresNotFound(g) ==
    LET k == worker[g]
    IN  /\ k.pc = "find"
        /\ \/ /\ emails = {}
              /\ worker' = [worker EXCEPT ![g].pc = IF k.via = "invoice" THEN "extend" ELSE "search"]
           \/ \E u \in emails :
                worker' = [worker EXCEPT ![g].user = u,
                               ![g].pc = IF k.via = "invoice" THEN "extend" ELSE "lookup"]
        /\ UNCHANGED <<paid, arrived, rows, jellyfin, disabled, store, made, budget, granted>>

\* findUserByEmail.  A renewal needs a user, and does not ask Jellyfin for it.
Find(g) ==
    LET k == worker[g]
    IN  /\ k.pc = "find"
        /\ \/ /\ emails = {}
              /\ worker' = [worker EXCEPT ![g] =
                     IF k.via = "invoice" THEN Idle ELSE [k EXCEPT !.pc = "search"]]
           \/ \E u \in emails :
                worker' = [worker EXCEPT ![g].user = u,
                               ![g].pc = IF k.via = "invoice" THEN "extend" ELSE "lookup"]
        /\ UNCHANGED <<paid, arrived, rows, jellyfin, disabled, store, made, budget, granted>>

\* Any error of the request counts as: the user does not exist.
Lookup(g) ==
    LET k == worker[g]
    IN  /\ k.pc = "lookup"
        /\ \/ /\ k.user \in jellyfin
              /\ Goto(g, "label") /\ UNCHANGED budget
           \/ /\ k.user \notin jellyfin
              /\ Goto(g, "dropEmail") /\ UNCHANGED budget
           \/ /\ k.user \in jellyfin /\ budget.failures > 0
              /\ Goto(g, "dropEmail") /\ budget' = [budget EXCEPT !.failures = @ - 1]
        /\ UNCHANGED <<paid, arrived, rows, jellyfin, disabled, store, made, granted>>

DropEmail(g) ==
    /\ worker[g].pc = "dropEmail"
    /\ emails' = emails \ {worker[g].user}
    /\ Goto(g, "dropExpiry")
    /\ UNCHANGED <<paid, arrived, rows, jellyfin, disabled, expiries, invites, made, budget, granted>>

DropExpiry(g) ==
    LET k == worker[g]
    IN  /\ k.pc = "dropExpiry"
        /\ expiries' = Drop(expiries, k.user)
        /\ worker' = [worker EXCEPT ![g].user = None,
                          ![g].pc = IF k.via = "repair" THEN "create" ELSE "search"]
        /\ UNCHANGED <<paid, arrived, rows, jellyfin, disabled, emails, invites, made, budget, granted>>

\* The label is stored with the whole email record, so the mapping comes back.
Label(g) ==
    /\ worker[g].pc = "label"
    /\ emails' = emails \cup {worker[g].user}
    /\ Goto(g, "extend")
    /\ UNCHANGED <<paid, arrived, rows, jellyfin, disabled, expiries, invites, made, budget, granted>>

\* extendPaidUserExpiry reads the expiry ...
ReadExpiry(g) ==
    LET k == worker[g]
        e == ExpiryOf(k.user)
    IN  /\ k.pc = "extend"
        /\ worker' = [worker EXCEPT ![g].pc = IF AlreadyCredited(e, k.txn) THEN "mark" ELSE "credit",
                                    ![g].exp = IF AlreadyCredited(e, k.txn) THEN @ ELSE e]
        /\ UNCHANGED <<paid, arrived, rows, jellyfin, disabled, store, made, budget, granted>>

Credit_NoReturn(g) ==
    LET k == worker[g]
    IN  /\ k.pc = "credit"
        /\ expiries' = Put(expiries, k.user, Extended(k.exp, k.txn))
        /\ Granted(k.txn)
        /\ worker' = [worker EXCEPT ![g].pc = "search", ![g].exp = NoExpiry]
        /\ UNCHANGED <<paid, arrived, rows, jellyfin, disabled, emails, invites, made, budget>>

\* ... and stores the extended one.
Credit(g) ==
    LET k == worker[g]
    IN  /\ k.pc = "credit"
        /\ expiries' = Put(expiries, k.user, Extended(k.exp, k.txn))
        /\ Granted(k.txn)
        /\ worker' = [worker EXCEPT ![g].pc = "enable", ![g].exp = NoExpiry]
        /\ UNCHANGED <<paid, arrived, rows, jellyfin, disabled, emails, invites, made, budget>>

\* reEnablePaidUser, whose failure is only logged.
Enable(g) ==
    /\ worker[g].pc = "enable"
    /\ \/ disabled' = disabled \ {worker[g].user} /\ UNCHANGED budget
       \/ /\ budget.failures > 0 /\ budget' = [budget EXCEPT !.failures = @ - 1]
          /\ UNCHANGED disabled
    /\ Goto(g, "mark")
    /\ UNCHANGED <<paid, arrived, rows, jellyfin, store, made, granted>>

SearchInvite_DuplicateReturns(g) ==
    LET k == worker[g]
        found == PurchasedInvites(k.txn)
    IN  /\ k.pc = "search"
        /\ \/ found = {} /\ Goto(g, "create")
           \/ found # {} /\ worker' = [worker EXCEPT ![g] = Idle]
        /\ UNCHANGED <<paid, arrived, rows, jellyfin, disabled, store, made, budget, granted>>

SearchInvite(g) ==
    LET k == worker[g]
        found == PurchasedInvites(k.txn)
    IN  /\ k.pc = "search"
        /\ \/ found = {} /\ Goto(g, "create")
           \/ \E c \in found : worker' = [worker EXCEPT ![g].pc = "mark", ![g].code = c]
        /\ UNCHANGED <<paid, arrived, rows, jellyfin, disabled, store, made, budget, granted>>

\* createPurchasedInvite
CreateInvite(g) ==
    LET k == worker[g]
        c == made.codes + 1
    IN  /\ k.pc = "create" /\ c \in Code
        /\ invites' = Put(invites, c, k.txn)
        /\ made' = [made EXCEPT !.codes = c]
        /\ Granted(k.txn)
        /\ worker' = [worker EXCEPT ![g].code = c,
                          ![g].pc = IF k.via = "repair" THEN "relink" ELSE "mark"]
        /\ UNCHANGED <<paid, arrived, rows, jellyfin, disabled, emails, expiries, budget>>

-----------------------------------------------------------------------------
(* The buyer redeems a purchased invite (NewUserFromInvite).               *)

SignUp(g) ==
    \E c \in DOMAIN invites :
        /\ Start(g, [Idle EXCEPT !.pc = "signup", !.via = "signup", !.code = c])
        /\ UNCHANGED <<paid, arrived, rows, jellyfin, disabled, store, made, budget, granted>>

CreateUser(g) ==
    LET u == made.users + 1
    IN  /\ worker[g].pc = "signup" /\ u \in User /\ u <= budget.users
        /\ jellyfin' = jellyfin \cup {u}
        /\ made' = [made EXCEPT !.users = u]
        /\ worker' = [worker EXCEPT ![g].pc = "use", ![g].user = u]
        /\ UNCHANGED <<paid, arrived, rows, disabled, store, budget, granted>>

\* checkInvite(code, true): a purchased invite has one use.
UseInvite(g) ==
    /\ worker[g].pc = "use"
    /\ invites' = Drop(invites, worker[g].code)
    /\ Goto(g, "email")
    /\ UNCHANGED <<paid, arrived, rows, jellyfin, disabled, emails, expiries, made, budget, granted>>

StoreEmail(g) ==
    /\ worker[g].pc = "email"
    /\ emails' = emails \cup {worker[g].user}
    /\ Goto(g, "expiry")
    /\ UNCHANGED <<paid, arrived, rows, jellyfin, disabled, expiries, invites, made, budget, granted>>

StoreExpiry(g) ==
    LET k == worker[g]
    IN  /\ k.pc = "expiry"
        /\ expiries' = Put(expiries, k.user, [left |-> 1, last |-> NoTxn])
        /\ worker' = [worker EXCEPT ![g] = Idle]
        /\ UNCHANGED <<paid, arrived, rows, jellyfin, disabled, emails, invites, made, budget, granted>>

-----------------------------------------------------------------------------
(* Everybody else.                                                         *)

Admin(change) == budget.admin > 0 /\ budget' = [budget EXCEPT !.admin = @ - 1] /\ change

\* DeleteUsers: the stored email and expiry stay until a daemon clears them.
DeleteUser ==
    \E u \in jellyfin :
        /\ Admin(jellyfin' = jellyfin \ {u})
        /\ disabled' = disabled \ {u}
        /\ UNCHANGED <<paid, arrived, rows, store, made, worker, granted>>

\* EnableDisableUsers
DisableUser ==
    \E u \in jellyfin \ disabled :
        /\ Admin(disabled' = disabled \cup {u})
        /\ UNCHANGED <<paid, arrived, rows, jellyfin, store, made, worker, granted>>

\* ExtendExpiry stores a new record, without the last transaction.
ExtendExpiry ==
    \E u \in jellyfin :
        /\ Admin(expiries' = Put(expiries, u, [left |-> ExpiryOf(u).left + 1, last |-> NoTxn]))
        /\ UNCHANGED <<paid, arrived, rows, jellyfin, disabled, emails, invites, made, worker, granted>>

\* clearEmails and the user daemon forget users that no longer exist.
ClearEmail ==
    \E u \in emails \ jellyfin :
        /\ emails' = emails \ {u}
        /\ UNCHANGED <<paid, arrived, rows, jellyfin, disabled, expiries, invites, made, worker, budget, granted>>

ClearExpiry ==
    \E u \in DOMAIN expiries \ jellyfin :
        /\ expiries' = Drop(expiries, u)
        /\ UNCHANGED <<paid, arrived, rows, jellyfin, disabled, emails, invites, made, worker, budget, granted>>

\* The goroutines are gone; the database and Jellyfin are as they were.
Crash ==
    /\ budget.crashes > 0
    /\ budget' = [budget EXCEPT !.crashes = @ - 1, !.crashed = TRUE]
    /\ \E g \in Workers : worker[g].pc # "idle"
    /\ worker' = [g \in Workers |-> Idle]
    /\ UNCHANGED <<paid, arrived, rows, jellyfin, disabled, store, made, granted>>

-----------------------------------------------------------------------------
Arrival(g) == Deliver(g) \/ Reconcile(g) \/ Repair(g) \/ SignUp(g)

Fulfil(g) ==
    \/ ReadRow(g) \/ WriteRow(g) \/ Find(g) \/ Lookup(g) \/ DropEmail(g) \/ DropExpiry(g)
    \/ Label(g) \/ ReadExpiry(g) \/ Credit(g) \/ Enable(g) \/ SearchInvite(g) \/ CreateInvite(g)

Redeem(g) == CreateUser(g) \/ UseInvite(g) \/ StoreEmail(g) \/ StoreExpiry(g)

Others == DeleteUser \/ DisableUser \/ ExtendExpiry \/ ClearEmail \/ ClearExpiry \/ Crash

Next == Pays \/ Others \/ \E g \in Workers : Arrival(g) \/ Fulfil(g) \/ Redeem(g)

Spec == Init /\ [][Next]_vars

\* The Go scheduler runs every goroutine that can run.
FairSpec == Spec /\ \A g \in Workers : WF_vars(Fulfil(g))

-----------------------------------------------------------------------------
(* Properties.                                                             *)

\* FulfilledAt is trusted by the reconciliation, which never grants a payment again
\* that has it.  So it must not be set, by any overlap of redelivered events,
\* reconciliations, repairs, sign-ups, failed requests and crashes, on a payment
\* that gave nothing; and such a payment can always be traced to a user or an invite.
FulfilledIsGranted ==
    \A t \in Txn : rows[t].fulfilled =>
        granted[t] > 0 /\ (rows[t].user # None \/ rows[t].code # None)

Total(f) == FoldFunction(LAMBDA x, y : x + y, 0, f)

\* With handlers that run one after the other no period is lost or made up: when
\* nothing is in progress, the time on the buyer's expiries and the invites not
\* redeemed yet are exactly what has been granted (extendPaidUserExpiry keeps the
\* time that was left; a sign-up gives what the invite was bought for).
AccessAddsUp ==
    ~budget.overlap /\ (\A g \in Workers : worker[g].pc = "idle") =>
        Total([u \in DOMAIN expiries |-> expiries[u].left]) + Cardinality(DOMAIN invites)
            = Total(granted)

\* Only what handlers do one after the other is compared with the promise: where they
\* overlap the mapping shows the promise a store in which nothing happens.
Promise == INSTANCE PaidAccess WITH
    paid    <- IF budget.overlap THEN {} ELSE paid,
    granted <- IF budget.overlap THEN [t \in Txn |-> 0] ELSE granted

\* Handlers that run one after the other implement PaidAccess when a payment is
\* reported once, and, by what the last transaction and the invite remember, also
\* when the only payment of a user is reported again and again, crashes included.
KeepsPromise == Promise!Spec

\* A delivered checkout.session.completed is fulfilled in the end, whatever other
\* handler overwrites the row meanwhile, unless the process crashes.
EventuallyFulfilled ==
    \A t \in Sessions : (\E g \in Workers : worker[g].txn = t)
                           ~> rows[t].fulfilled \/ budget.crashed

\* storage.go: LastTransactionID is there "to prevent duplicate credits".
NoDuplicateCredit == \A t \in Txn : granted[t] <= 1

=============================================================================
