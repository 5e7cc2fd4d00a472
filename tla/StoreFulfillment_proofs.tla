----------------------- MODULE StoreFulfillment_proofs -----------------------
(***************************************************************************)
(* A payment marked fulfilled has given its buyer something, for any       *)
(* number of payments, workers, users, invites, failures and crashes; and  *)
(* handlers that take turns keep what was promised and lose nothing.       *)
(***************************************************************************)
EXTENDS StoreFulfillment, FiniteSetTheorems, WellFoundedInduction, TLAPS

-----------------------------------------------------------------------------
(* The inductive invariant.                                                *)

Linked(p) == p.user # None \/ p.code # None

\* Steps of a fulfilment, and steps that know which user they are about.
Working == RowStep \cup {"find", "lookup", "dropEmail", "dropExpiry", "label", "extend",
                         "credit", "enable", "search", "create"}
WithUser == {"lookup", "dropEmail", "dropExpiry", "label", "extend", "credit", "enable",
             "use", "email", "expiry"}

\* A worker that is about to mark or relink a row has seen the grant happen, and a
\* copy of a row it holds was justified when it was read, hence still is.
WorkerOK(k, given) ==
    /\ k.pc \in Working => k.txn \in Txn
    /\ k.pc \in WithUser => k.user \in User
    /\ k.pc \in {"enable", "mark", "relink"} => given[k.txn] > 0
    /\ k.pc = "mark" => k.user \in User \/ k.code \in Code
    /\ k.pc \in {"signup", "use", "relink"} => k.code \in Code
    /\ k.holds => k.pc \in RowStep
    /\ k.holds /\ k.seen.fulfilled => given[k.txn] > 0 /\ Linked(k.seen)

WorkersOK == \A g \in Workers : WorkerOK(worker[g], granted)

RowsOK == \A t \in Txn : rows[t].fulfilled => granted[t] > 0 /\ Linked(rows[t])

\* What the duplicate checks find was granted.
ExpiriesOK == \A u \in DOMAIN expiries :
                 expiries[u].last \in Txn => granted[expiries[u].last] > 0
InvitesOK == \A c \in DOMAIN invites : granted[invites[c]] > 0

IInv == TypeOK /\ WorkersOK /\ RowsOK /\ ExpiriesOK /\ InvitesOK

-----------------------------------------------------------------------------
(* Lemmas on grants and on what the steps of others leave alone.            *)

\* granted only grows.
Keeps(given, later) == \A t \in Txn : given[t] > 0 => later[t] > 0

\* Granting a payment keeps what was granted before.
LEMMA GrantedOK ==
    ASSUME NEW t \in Txn, granted \in [Txn -> Nat], Granted(t)
    PROVE  /\ granted' \in [Txn -> Nat]
           /\ Keeps(granted, granted')
           /\ granted'[t] > 0
BY DEF Granted, Keeps

\* A justified worker stays justified when more is granted.
LEMMA WorkerKept ==
    ASSUME NEW k \in Worker, NEW given, NEW later, Keeps(given, later), WorkerOK(k, given)
    PROVE  WorkerOK(k, later)
<1>1. k.pc \in {"enable", "mark", "relink"} => k.txn \in Txn
  BY DEF WorkerOK, Working, RowStep
<1>2. k.holds => k.txn \in Txn
  BY DEF WorkerOK, Working
<1> QED BY <1>1, <1>2 DEF WorkerOK, Keeps

\* An idle worker needs no justification.
LEMMA IdleOK == Idle \in Worker /\ \A given : WorkerOK(Idle, given)
BY DEF Idle, Worker, Step, RowStep, Via, NoExpiry, Expiry, NewRow, Row, None, WorkerOK,
   Working, WithUser

\* A step of one worker keeps the others justified.
LEMMA WorkersKept ==
    ASSUME TypeOK, WorkersOK, Keeps(granted, granted'), NEW g \in Workers, NEW k \in Worker,
           worker' = [worker EXCEPT ![g] = k], WorkerOK(k, granted')
    PROVE  /\ worker' \in [Workers -> Worker]
           /\ WorkersOK'
<1>1. worker \in [Workers -> Worker]
  BY DEF TypeOK
<1>2. worker' \in [Workers -> Worker]
  BY <1>1
<1>3. ASSUME NEW h \in Workers PROVE WorkerOK(worker'[h], granted')
  <2>1. CASE h = g BY <2>1, <1>1
  <2>2. CASE h # g
    <3>1. worker'[h] = worker[h] BY <2>2, <1>1
    <3>2. WorkerOK(worker[h], granted) BY DEF WorkersOK
    <3> QED BY <3>1, <3>2, <1>1, WorkerKept
  <2> QED BY <2>1, <2>2
<1> QED BY <1>2, <1>3 DEF WorkersOK

\* A step that changes no stored table and at most one worker keeps the invariant,
\* when the worker's new state is justified.
LEMMA WorkerStep ==
    ASSUME IInv, NEW g \in Workers, NEW k \in Worker,
           worker' = [worker EXCEPT ![g] = k], WorkerOK(k, granted),
           UNCHANGED <<rows, store, jellyfin, disabled, made, granted>>,
           paid' \subseteq Txn,
           arrived' \in [Txn -> Nat],
           budget' \in Budget
    PROVE  IInv'
<1>1. Keeps(granted, granted') /\ WorkerOK(k, granted')
  BY DEF Keeps
<1>2. worker' \in [Workers -> Worker] /\ WorkersOK'
  BY <1>1, WorkersKept DEF IInv
<1>3. TypeOK'
  BY <1>2 DEF IInv, TypeOK, store
<1>4. RowsOK' /\ ExpiriesOK' /\ InvitesOK'
  BY DEF IInv, RowsOK, ExpiriesOK, InvitesOK, store
<1> QED BY <1>2, <1>3, <1>4 DEF IInv

-----------------------------------------------------------------------------
(* The invariant is inductive.                                             *)

\* What is spent of a budget leaves a budget.
LEMMA BudgetKept ==
    ASSUME NEW b \in Budget
    PROVE  /\ b.failures > 0 => [b EXCEPT !.failures = @ - 1] \in Budget
           /\ b.admin > 0 => [b EXCEPT !.admin = @ - 1] \in Budget
           /\ b.crashes > 0 => [b EXCEPT !.crashes = @ - 1, !.crashed = TRUE] \in Budget
           /\ b.txns \subseteq Txn
<1>1. /\ b.failures \in Nat /\ b.admin \in Nat /\ b.crashes \in Nat
      /\ b.txns \subseteq Txn
  BY DEF Budget
<1>2. \A n \in Nat : n > 0 => n - 1 \in Nat
  OBVIOUS
<1>3. \A n \in Nat : /\ [b EXCEPT !.failures = n] \in Budget
                      /\ [b EXCEPT !.admin = n] \in Budget
                      /\ [b EXCEPT !.crashes = n, !.crashed = TRUE] \in Budget
  BY DEF Budget
<1> QED BY <1>1, <1>2, <1>3

\* Nothing is stored, granted or under way initially.
LEMMA Initially == Init => IInv
<1> SUFFICES ASSUME Init PROVE IInv
  OBVIOUS
<1>0. budget \in Budget /\ budget.existing \in 0..MaxUsers /\ MaxUsers \in Nat /\ MaxCodes \in Nat
  BY BudgetsAssumption, FulfillmentAssumption DEF Init, Budget
<1>1. TypeOK
  <2>1. 1..budget.existing \subseteq User
    BY <1>0 DEF User
  <2>2. rows \in [Txn -> Row]
    BY DEF Init, NewRow, Row, None
  <2>3. made \in [users : 0..MaxUsers, codes : 0..MaxCodes]
    BY <1>0 DEF Init
  <2> QED BY <1>0, <2>1, <2>2, <2>3, IdleOK DEF Init, TypeOK
<1>2. WorkersOK
  BY IdleOK DEF Init, WorkersOK
<1>3. RowsOK /\ ExpiriesOK /\ InvitesOK
  BY DEF Init, RowsOK, ExpiriesOK, InvitesOK, NewRow
<1> QED BY <1>1, <1>2, <1>3 DEF IInv

\* A payment's arrival starts a worker that has nothing to justify yet.
LEMMA ArrivalOK == ASSUME IInv, NEW g \in Workers, Arrival(g) PROVE IInv'
<1>1. CASE Deliver(g)
  <2>1. PICK t \in paid :
           /\ arrived[t] < budget.arrivals
           /\ arrived' = [arrived EXCEPT ![t] = @ + 1]
           /\ worker' = [worker EXCEPT ![g] =
                 [Idle EXCEPT !.pc = "touch", !.txn = t,
                              !.via = IF t \in Renewals THEN "invoice" ELSE "webhook"]]
           /\ UNCHANGED <<paid, rows, jellyfin, disabled, store, made, budget, granted>>
    BY <1>1 DEF Deliver, Start
  <2> DEFINE k == [Idle EXCEPT !.pc = "touch", !.txn = t,
                               !.via = IF t \in Renewals THEN "invoice" ELSE "webhook"]
  <2>2. t \in Txn
    BY DEF IInv, TypeOK
  <2>3. k \in Worker /\ WorkerOK(k, granted)
    BY <2>2 DEF Idle, Worker, Step, RowStep, Via, NoExpiry, Expiry, NewRow, Row, None,
                WorkerOK, Working, WithUser
  <2>4. arrived' \in [Txn -> Nat]
    BY <2>1, <2>2, FulfillmentAssumption DEF IInv, TypeOK
  <2>5. paid' \subseteq Txn
        /\ budget' \in Budget
    BY <2>1 DEF IInv, TypeOK
  <2> HIDE DEF k
  <2>6. worker' = [worker EXCEPT ![g] = k]
    BY <2>1 DEF k
  <2> QED BY <2>1, <2>3, <2>4, <2>5, <2>6, WorkerStep
<1>2. CASE Reconcile(g)
  <2>1. PICK t \in paid \cap Sessions :
           /\ arrived[t] < budget.arrivals
           /\ arrived' = [arrived EXCEPT ![t] = @ + 1]
           /\ worker' = [worker EXCEPT ![g] =
                 [Idle EXCEPT !.pc = "touch", !.txn = t, !.via = "reconcile"]]
           /\ UNCHANGED <<paid, rows, jellyfin, disabled, store, made, budget, granted>>
    BY <1>2 DEF Reconcile, Start
  <2> DEFINE k == [Idle EXCEPT !.pc = "touch", !.txn = t, !.via = "reconcile"]
  <2>2. t \in Txn
    BY DEF IInv, TypeOK
  <2>3. k \in Worker /\ WorkerOK(k, granted)
    BY <2>2 DEF Idle, Worker, Step, RowStep, Via, NoExpiry, Expiry, NewRow, Row, None,
                WorkerOK, Working, WithUser
  <2>4. arrived' \in [Txn -> Nat]
    BY <2>1, <2>2, FulfillmentAssumption DEF IInv, TypeOK
  <2>5. paid' \subseteq Txn
        /\ budget' \in Budget
    BY <2>1 DEF IInv, TypeOK
  <2> HIDE DEF k
  <2>6. worker' = [worker EXCEPT ![g] = k]
    BY <2>1 DEF k
  <2> QED BY <2>1, <2>3, <2>4, <2>5, <2>6, WorkerStep
<1>3. CASE Repair(g)
  <2>1. PICK t \in paid \cap Sessions :
           /\ rows[t].user # None
           /\ \/ UNCHANGED budget
              \/ budget.failures > 0 /\ budget' = [budget EXCEPT !.failures = @ - 1]
           /\ worker' = [worker EXCEPT ![g] =
                 [Idle EXCEPT !.pc = "dropEmail", !.txn = t, !.via = "repair",
                              !.user = rows[t].user]]
           /\ UNCHANGED <<paid, arrived, rows, jellyfin, disabled, store, made, granted>>
    BY <1>3 DEF Repair, Start
  <2> DEFINE k == [Idle EXCEPT !.pc = "dropEmail", !.txn = t, !.via = "repair",
                               !.user = rows[t].user]
  <2>2. t \in Txn /\ rows[t].user \in User
    BY <2>1 DEF IInv, TypeOK, Row
  <2>3. k \in Worker /\ WorkerOK(k, granted)
    BY <2>2 DEF Idle, Worker, Step, RowStep, Via, NoExpiry, Expiry, NewRow, Row, None,
                WorkerOK, Working, WithUser
  <2>4. budget' \in Budget
    BY <2>1, BudgetKept DEF IInv, TypeOK
  <2>5. paid' \subseteq Txn /\ arrived' \in [Txn -> Nat]
    BY <2>1 DEF IInv, TypeOK
  <2> HIDE DEF k
  <2>6. worker' = [worker EXCEPT ![g] = k]
    BY <2>1 DEF k
  <2> QED BY <2>1, <2>3, <2>4, <2>5, <2>6, WorkerStep
<1>4. CASE SignUp(g)
  <2>1. PICK c \in DOMAIN invites :
           /\ worker' = [worker EXCEPT ![g] =
                 [Idle EXCEPT !.pc = "signup", !.via = "signup", !.code = c]]
           /\ UNCHANGED <<paid, arrived, rows, jellyfin, disabled, store, made, budget, granted>>
    BY <1>4 DEF SignUp, Start
  <2> DEFINE k == [Idle EXCEPT !.pc = "signup", !.via = "signup", !.code = c]
  <2>2. c \in Code
    BY DEF IInv, TypeOK
  <2>3. k \in Worker /\ WorkerOK(k, granted)
    BY <2>2 DEF Idle, Worker, Step, RowStep, Via, NoExpiry, Expiry, NewRow, Row, None,
                WorkerOK, Working, WithUser
  <2>4. paid' \subseteq Txn /\ arrived' \in [Txn -> Nat]
        /\ budget' \in Budget
    BY <2>1 DEF IInv, TypeOK
  <2> HIDE DEF k
  <2>5. worker' = [worker EXCEPT ![g] = k]
    BY <2>1 DEF k
  <2> QED BY <2>1, <2>3, <2>4, <2>5, WorkerStep
<1> QED BY <1>1, <1>2, <1>3, <1>4 DEF Arrival

\* The steps of a fulfilment that store nothing.  ReadExpiry goes on to mark the row
\* only when the expiry it read names the payment, SearchInvite only when the invite
\* it found does; either was granted.
LEMMA ReadingOK ==
    ASSUME IInv, NEW g \in Workers,
           ReadRow(g) \/ Find(g) \/ Lookup(g) \/ ReadExpiry(g) \/ SearchInvite(g)
    PROVE  IInv'
<1> DEFINE old == worker[g]
<1>0. /\ old \in Worker /\ WorkerOK(old, granted)
      /\ paid \subseteq Txn /\ arrived \in [Txn -> Nat]
      /\ budget \in Budget
  BY DEF IInv, TypeOK, WorkersOK
<1> SUFFICES ASSUME TRUE
             PROVE  /\ \E k \in Worker : WorkerOK(k, granted) /\ worker' = [worker EXCEPT ![g] = k]
                    /\ UNCHANGED <<paid, arrived, rows, jellyfin, disabled, store, made, granted>>
                    /\ budget' \in Budget
  BY <1>0, WorkerStep
<1>1. CASE ReadRow(g)
  <2> DEFINE k == [old EXCEPT !.holds = TRUE, !.seen = rows[old.txn]]
  <2>1. old.pc \in RowStep /\ old.txn \in Txn
    BY <1>0, <1>1 DEF ReadRow, WorkerOK, Working
  <2>2. rows[old.txn] \in Row /\ (rows[old.txn].fulfilled => granted[old.txn] > 0 /\ Linked(rows[old.txn]))
    BY <2>1 DEF IInv, TypeOK, RowsOK
  <2>3. k \in Worker
    BY <1>0, <2>2 DEF Worker
  <2>4. WorkerOK(k, granted)
    BY <1>0, <2>1, <2>2 DEF WorkerOK, Worker
  <2>5. worker' = [worker EXCEPT ![g] = k]
    BY <1>1 DEF ReadRow
  <2> QED BY <1>0, <1>1, <2>3, <2>4, <2>5 DEF ReadRow
<1>2. CASE Find(g)
  <2>1. old.pc = "find" /\ old.txn \in Txn /\ ~old.holds
    BY <1>0, <1>2 DEF Find, WorkerOK, Working, RowStep
  <2>2. CASE emails = {} /\ old.via = "invoice"
    BY <1>0, <1>2, <2>2, IdleOK DEF Find
  <2>3. CASE emails = {} /\ old.via # "invoice"
    <3> DEFINE k == [old EXCEPT !.pc = "search"]
    <3>1. k \in Worker /\ WorkerOK(k, granted)
      BY <1>0, <2>1 DEF Worker, Step, WorkerOK, Working, WithUser
    <3>2. worker' = [worker EXCEPT ![g] = k]
      BY <1>2, <2>3 DEF Find
    <3> QED BY <1>0, <1>2, <3>1, <3>2 DEF Find
  <2>4. CASE emails # {}
    <3>1. PICK u \in emails :
             worker' = [worker EXCEPT ![g].user = u,
                            ![g].pc = IF old.via = "invoice" THEN "extend" ELSE "lookup"]
      BY <1>2, <2>4 DEF Find
    <3> DEFINE k == [old EXCEPT !.user = u,
                                !.pc = IF old.via = "invoice" THEN "extend" ELSE "lookup"]
    <3>2. u \in User
      BY DEF IInv, TypeOK
    <3>3. k \in Worker /\ WorkerOK(k, granted)
      BY <1>0, <2>1, <3>2 DEF Worker, Step, WorkerOK, Working, WithUser
    <3>4. worker' = [worker EXCEPT ![g] = k]
      BY <1>0, <3>1 DEF IInv, TypeOK
    <3> QED BY <1>0, <1>2, <3>3, <3>4 DEF Find
  <2> QED BY <2>2, <2>3, <2>4
<1>3. CASE Lookup(g)
  <2>1. old.pc = "lookup" /\ old.txn \in Txn /\ old.user \in User /\ ~old.holds
    BY <1>0, <1>3 DEF Lookup, WorkerOK, Working, WithUser, RowStep
  <2>2. PICK pc \in {"label", "dropEmail"} : worker' = [worker EXCEPT ![g].pc = pc]
    BY <1>3 DEF Lookup, Goto
  <2> DEFINE k == [old EXCEPT !.pc = pc]
  <2>3. k \in Worker /\ WorkerOK(k, granted)
    BY <1>0, <2>1 DEF Worker, Step, WorkerOK, Working, WithUser
  <2>4. worker' = [worker EXCEPT ![g] = k]
    BY <2>2
  <2>5. budget' \in Budget
    BY <1>0, <1>3, BudgetKept DEF Lookup
  <2> QED BY <1>3, <2>3, <2>4, <2>5 DEF Lookup
<1>4. CASE ReadExpiry(g)
  <2> DEFINE e == ExpiryOf(old.user)
             dup == AlreadyCredited(e, old.txn)
             k == [old EXCEPT !.pc = IF dup THEN "mark" ELSE "credit",
                              !.exp = IF dup THEN @ ELSE e]
  <2>1. old.pc = "extend" /\ old.txn \in Txn /\ old.user \in User /\ ~old.holds
    BY <1>0, <1>4 DEF ReadExpiry, WorkerOK, Working, WithUser, RowStep
  <2>2. e \in Expiry
    BY <2>1 DEF IInv, TypeOK, ExpiryOf, NoExpiry, Expiry
  <2>3. dup => granted[old.txn] > 0
    BY <2>1, NoTxnAssumption DEF IInv, ExpiriesOK, AlreadyCredited, ExpiryOf, NoExpiry
  <2>4. worker' = [worker EXCEPT ![g] = k]
    BY <1>0, <1>4 DEF ReadExpiry, IInv, TypeOK
  <2> HIDE DEF dup, e
  <2>5. k \in Worker
    BY <1>0, <2>2 DEF Worker, Step, RowStep
  <2>6. WorkerOK(k, granted)
    BY <1>0, <2>1, <2>3 DEF Worker, WorkerOK, Working, WithUser, RowStep
  <2> QED BY <1>0, <1>4, <2>4, <2>5, <2>6 DEF ReadExpiry
<1>5. CASE SearchInvite(g)
  <2>1. old.pc = "search" /\ old.txn \in Txn /\ ~old.holds
    BY <1>0, <1>5 DEF SearchInvite, WorkerOK, Working, RowStep
  <2>2. CASE PurchasedInvites(old.txn) = {}
    <3> DEFINE k == [old EXCEPT !.pc = "create"]
    <3>1. k \in Worker /\ WorkerOK(k, granted)
      BY <1>0, <2>1 DEF Worker, Step, WorkerOK, Working, WithUser
    <3>2. worker' = [worker EXCEPT ![g] = k]
      BY <1>5, <2>2 DEF SearchInvite, Goto
    <3> QED BY <1>0, <1>5, <3>1, <3>2 DEF SearchInvite
  <2>3. CASE PurchasedInvites(old.txn) # {}
    <3>1. PICK c \in PurchasedInvites(old.txn) :
             worker' = [worker EXCEPT ![g].pc = "mark", ![g].code = c]
      BY <1>5, <2>3 DEF SearchInvite
    <3> DEFINE k == [old EXCEPT !.pc = "mark", !.code = c]
    <3>2. c \in Code /\ granted[old.txn] > 0
      BY DEF IInv, TypeOK, InvitesOK, PurchasedInvites
    <3>3. k \in Worker /\ WorkerOK(k, granted)
      BY <1>0, <2>1, <3>2 DEF Worker, Step, RowStep, WorkerOK, Working, WithUser
    <3>4. worker' = [worker EXCEPT ![g] = k]
      BY <1>0, <3>1 DEF IInv, TypeOK
    <3> QED BY <1>0, <1>5, <3>3, <3>4 DEF SearchInvite
  <2> QED BY <2>2, <2>3
<1> QED BY <1>1, <1>2, <1>3, <1>4, <1>5

\* What every step of one worker that grants t or nothing must show for the
\* tables it stores.
LEMMA TableStep ==
    ASSUME IInv, NEW g \in Workers, NEW k \in Worker,
           worker' = [worker EXCEPT ![g] = k], WorkerOK(k, granted'),
           granted' \in [Txn -> Nat], Keeps(granted, granted'),
           UNCHANGED <<paid, arrived>>,
           rows' \in [Txn -> Row], jellyfin' \subseteq User, disabled' \subseteq User, emails' \subseteq User,
           DOMAIN expiries' \subseteq User, expiries' \in [DOMAIN expiries' -> Expiry],
           DOMAIN invites' \subseteq Code, invites' \in [DOMAIN invites' -> Txn],
           made' \in [users : 0..MaxUsers, codes : 0..MaxCodes],
           budget' \in Budget,
           RowsOK', ExpiriesOK', InvitesOK'
    PROVE  IInv'
<1>1. worker' \in [Workers -> Worker] /\ WorkersOK'
  BY WorkersKept DEF IInv
<1>2. TypeOK'
  BY <1>1 DEF IInv, TypeOK
<1> QED BY <1>1, <1>2 DEF IInv

\* The row that is written back is the copy, or the copy with what the worker granted.
LEMMA WriteRowOK == ASSUME IInv, NEW g \in Workers, WriteRow(g) PROVE IInv'
<1> DEFINE old == worker[g]
           row == CASE old.pc = "touch"  -> old.seen
                    [] old.pc = "mark"   -> Marked(old)
                    [] old.pc = "relink" -> Relinked(old)
<1>1. /\ old \in Worker /\ WorkerOK(old, granted)
      /\ old.pc \in RowStep /\ old.holds /\ old.txn \in Txn
      /\ rows \in [Txn -> Row]
  BY DEF IInv, TypeOK, WorkersOK, WriteRow, WorkerOK, Working
<1>2. old.seen \in Row /\ old.user \in User \cup {None} /\ old.code \in Code \cup {None}
  BY <1>1 DEF Worker
<1>3. row \in Row /\ (row.fulfilled => granted[old.txn] > 0 /\ Linked(row))
  <2>1. CASE old.pc = "touch"
    BY <1>1, <1>2, <2>1 DEF WorkerOK
  <2>2. CASE old.pc = "mark"
    <3>1. granted[old.txn] > 0 /\ (old.user # None \/ old.code # None)
      BY <1>1, <2>2 DEF WorkerOK, User, Code, None
    <3>2. Marked(old) \in Row /\ Linked(Marked(old))
      BY <1>2, <3>1 DEF Marked, Linked, Row
    <3> QED BY <2>2, <3>1, <3>2
  <2>3. CASE old.pc = "relink"
    <3>1. granted[old.txn] > 0 /\ old.code # None
      BY <1>1, <2>3 DEF WorkerOK, Code, None
    <3>2. Relinked(old) \in Row /\ Linked(Relinked(old))
      BY <1>2, <3>1 DEF Relinked, Linked, Row
    <3> QED BY <2>3, <3>1, <3>2
  <2> QED BY <1>1, <2>1, <2>2, <2>3 DEF RowStep
<1>4. rows' = [rows EXCEPT ![old.txn] = row]
  BY DEF WriteRow
<1> HIDE DEF row
<1>5. rows' \in [Txn -> Row]
  BY <1>1, <1>3, <1>4
<1>6. UNCHANGED <<paid, arrived, jellyfin, disabled, store, made, budget, granted>>
  BY DEF WriteRow
<1>7. RowsOK'
  BY <1>1, <1>3, <1>4, <1>6 DEF IInv, RowsOK
<1>8. ExpiriesOK' /\ InvitesOK'
  BY <1>6 DEF IInv, ExpiriesOK, InvitesOK, store
<1>9. \E k \in Worker : WorkerOK(k, granted) /\ worker' = [worker EXCEPT ![g] = k]
  <2>1. CASE old.pc = "touch"
    <3> DEFINE k == [old EXCEPT !.pc = "find", !.holds = FALSE, !.seen = NewRow]
    <3>1. k \in Worker /\ WorkerOK(k, granted)
      BY <1>1 DEF Worker, Step, Row, NewRow, None, WorkerOK, Working, WithUser, RowStep
    <3>2. worker' = [worker EXCEPT ![g] = k]
      BY <2>1 DEF WriteRow
    <3> QED BY <3>1, <3>2
  <2>2. CASE old.pc # "touch"
    BY <2>2, IdleOK DEF WriteRow
  <2> QED BY <2>1, <2>2
<1> QED BY <1>5, <1>6, <1>7, <1>8, <1>9, TableStep DEF IInv, TypeOK, store, Keeps

\* Steps that store an email mapping, re-enable a user or forget an expiry.
LEMMA KeepingOK ==
    ASSUME IInv, NEW g \in Workers,
           DropEmail(g) \/ DropExpiry(g) \/ Label(g) \/ Enable(g)
    PROVE  IInv'
<1> DEFINE old == worker[g]
<1>0. old \in Worker /\ WorkerOK(old, granted) /\ worker \in [Workers -> Worker]
  BY DEF IInv, TypeOK, WorkersOK
<1>1. CASE DropEmail(g)
  <2> DEFINE k == [old EXCEPT !.pc = "dropExpiry"]
  <2>1. k \in Worker /\ WorkerOK(k, granted)
    BY <1>0, <1>1 DEF DropEmail, Worker, Step, WorkerOK, Working, WithUser, RowStep
  <2>2. worker' = [worker EXCEPT ![g] = k]
    BY <1>1 DEF DropEmail, Goto
  <2>3. RowsOK' /\ ExpiriesOK' /\ InvitesOK'
    BY <1>1 DEF DropEmail, IInv, RowsOK, ExpiriesOK, InvitesOK
  <2> HIDE DEF k
  <2> QED BY <1>1, <2>1, <2>2, <2>3, TableStep DEF DropEmail, IInv, TypeOK, Keeps
<1>2. CASE DropExpiry(g)
  <2> DEFINE k == [old EXCEPT !.user = None, !.pc = IF old.via = "repair" THEN "create" ELSE "search"]
  <2>1. k \in Worker /\ WorkerOK(k, granted)
    BY <1>0, <1>2 DEF DropExpiry, Worker, Step, WorkerOK, Working, WithUser, RowStep
  <2>2. worker' = [worker EXCEPT ![g] = k]
    BY <1>0, <1>2 DEF DropExpiry
  <2>3. /\ DOMAIN expiries' \subseteq User /\ expiries' \in [DOMAIN expiries' -> Expiry]
        /\ DOMAIN expiries' \subseteq DOMAIN expiries
        /\ \A u \in DOMAIN expiries' : expiries'[u] = expiries[u]
    <3>1. DOMAIN expiries \subseteq User /\ expiries \in [DOMAIN expiries -> Expiry]
      BY DEF IInv, TypeOK
    <3>2. expiries' = Drop(expiries, old.user)
      BY <1>2 DEF DropExpiry
    <3> QED BY <3>1, <3>2 DEF Drop
  <2>4. RowsOK' /\ ExpiriesOK' /\ InvitesOK'
    BY <1>2, <2>3 DEF DropExpiry, IInv, RowsOK, ExpiriesOK, InvitesOK
  <2> HIDE DEF k
  <2> QED BY <1>2, <2>1, <2>2, <2>3, <2>4, TableStep DEF DropExpiry, IInv, TypeOK, Keeps
<1>3. CASE Label(g)
  <2> DEFINE k == [old EXCEPT !.pc = "extend"]
  <2>1. k \in Worker /\ WorkerOK(k, granted) /\ old.user \in User
    BY <1>0, <1>3 DEF Label, Worker, Step, WorkerOK, Working, WithUser, RowStep
  <2>2. worker' = [worker EXCEPT ![g] = k]
    BY <1>3 DEF Label, Goto
  <2>3. RowsOK' /\ ExpiriesOK' /\ InvitesOK'
    BY <1>3 DEF Label, IInv, RowsOK, ExpiriesOK, InvitesOK
  <2> HIDE DEF k
  <2> QED BY <1>3, <2>1, <2>2, <2>3, TableStep DEF Label, IInv, TypeOK, Keeps
<1>4. CASE Enable(g)
  <2> DEFINE k == [old EXCEPT !.pc = "mark"]
  <2>1. k \in Worker /\ WorkerOK(k, granted)
    BY <1>0, <1>4 DEF Enable, Worker, Step, WorkerOK, Working, WithUser, RowStep
  <2>2. worker' = [worker EXCEPT ![g] = k]
    BY <1>4 DEF Enable, Goto
  <2>3. RowsOK' /\ ExpiriesOK' /\ InvitesOK'
    BY <1>4 DEF Enable, IInv, RowsOK, ExpiriesOK, InvitesOK, store
  <2>4. /\ budget' \in Budget
        /\ disabled' \subseteq User
    BY <1>4, BudgetKept DEF Enable, IInv, TypeOK
  <2> HIDE DEF k
  <2> QED BY <1>4, <2>1, <2>2, <2>3, <2>4, TableStep DEF Enable, IInv, TypeOK, Keeps, store
<1> QED BY <1>1, <1>2, <1>3, <1>4

\* The steps that turn a payment into access.
LEMMA GrantingOK == ASSUME IInv, NEW g \in Workers, Credit(g) \/ CreateInvite(g) PROVE IInv'
<1> DEFINE old == worker[g]
<1>0. /\ old \in Worker /\ WorkerOK(old, granted) /\ worker \in [Workers -> Worker]
      /\ old.txn \in Txn /\ ~old.holds
  BY DEF Credit, CreateInvite, IInv, TypeOK, WorkersOK, WorkerOK, Working, RowStep
<1>1. granted' \in [Txn -> Nat] /\ Keeps(granted, granted') /\ granted'[old.txn] > 0
  BY <1>0, GrantedOK DEF Credit, CreateInvite, IInv, TypeOK
<1>2. RowsOK'
  BY <1>1 DEF Credit, CreateInvite, IInv, RowsOK, Keeps
<1>3. CASE Credit(g)
  <2> DEFINE k == [old EXCEPT !.pc = "enable", !.exp = NoExpiry]
             e == Extended(old.exp, old.txn)
  <2>1. old.user \in User
    BY <1>0, <1>3 DEF Credit, WorkerOK, WithUser
  <2>2. k \in Worker /\ WorkerOK(k, granted')
    BY <1>0, <1>1, <2>1 DEF Worker, Step, NoExpiry, Expiry, WorkerOK, Working, WithUser
  <2>3. worker' = [worker EXCEPT ![g] = k]
    BY <1>0, <1>3 DEF Credit
  <2>4. e \in Expiry /\ e.last = old.txn
    BY <1>0 DEF Worker, Expiry, Extended
  <2> HIDE DEF e
  <2>5. /\ DOMAIN expiries' = DOMAIN expiries \cup {old.user}
        /\ DOMAIN expiries' \subseteq User /\ expiries' \in [DOMAIN expiries' -> Expiry]
        /\ expiries'[old.user] = e
        /\ \A u \in DOMAIN expiries : u # old.user => expiries'[u] = expiries[u]
    <3>1. DOMAIN expiries \subseteq User /\ expiries \in [DOMAIN expiries -> Expiry]
      BY DEF IInv, TypeOK
    <3>2. expiries' = Put(expiries, old.user, e)
      BY <1>3 DEF Credit, e
    <3> QED BY <2>1, <2>4, <3>1, <3>2 DEF Put
  <2>6. ExpiriesOK' /\ InvitesOK'
    <3>1. ExpiriesOK'
      BY <1>1, <2>4, <2>5 DEF IInv, ExpiriesOK, Keeps
    <3>2. InvitesOK'
      BY <1>1, <1>3 DEF Credit, IInv, TypeOK, InvitesOK, Keeps
    <3> QED BY <3>1, <3>2
  <2> HIDE DEF k
  <2> QED BY <1>1, <1>2, <1>3, <2>2, <2>3, <2>5, <2>6, TableStep DEF Credit, IInv, TypeOK
<1>4. CASE CreateInvite(g)
  <2> DEFINE c == made.codes + 1
             k == [old EXCEPT !.code = c, !.pc = IF old.via = "repair" THEN "relink" ELSE "mark"]
  <2>1. c \in Code /\ made' \in [users : 0..MaxUsers, codes : 0..MaxCodes]
    BY <1>4, FulfillmentAssumption DEF CreateInvite, Code, IInv, TypeOK
  <2>2. worker' = [worker EXCEPT ![g] = k]
    BY <1>0, <1>4 DEF CreateInvite
  <2>3. /\ DOMAIN invites' = DOMAIN invites \cup {c}
        /\ DOMAIN invites' \subseteq Code /\ invites' \in [DOMAIN invites' -> Txn]
        /\ invites'[c] = old.txn
        /\ \A d \in DOMAIN invites : d # c => invites'[d] = invites[d]
    <3>1. DOMAIN invites \subseteq Code /\ invites \in [DOMAIN invites -> Txn]
      BY DEF IInv, TypeOK
    <3>2. invites' = Put(invites, c, old.txn)
      BY <1>4 DEF CreateInvite
    <3> HIDE DEF c
    <3> QED BY <1>0, <2>1, <3>1, <3>2 DEF Put
  <2> HIDE DEF c
  <2>4. k \in Worker /\ WorkerOK(k, granted')
    BY <1>0, <1>1, <2>1 DEF Worker, Step, RowStep, WorkerOK, Working, WithUser
  <2>5. ExpiriesOK' /\ InvitesOK'
    <3>1. ExpiriesOK'
      BY <1>1, <1>4 DEF CreateInvite, IInv, ExpiriesOK, Keeps
    <3>2. InvitesOK'
      BY <1>1, <2>3 DEF IInv, TypeOK, InvitesOK, Keeps
    <3> QED BY <3>1, <3>2
  <2> HIDE DEF k
  <2> QED BY <1>1, <1>2, <1>4, <2>1, <2>2, <2>3, <2>4, <2>5, TableStep DEF CreateInvite, IInv, TypeOK
<1> QED BY <1>3, <1>4

\* The steps of a sign-up.
LEMMA RedeemOK == ASSUME IInv, NEW g \in Workers, Redeem(g) PROVE IInv'
<1> DEFINE old == worker[g]
<1>0. old \in Worker /\ WorkerOK(old, granted) /\ worker \in [Workers -> Worker]
  BY DEF IInv, TypeOK, WorkersOK
<1>1. CASE CreateUser(g)
  <2> DEFINE u == made.users + 1
             k == [old EXCEPT !.pc = "use", !.user = u]
  <2>1. u \in User /\ made' \in [users : 0..MaxUsers, codes : 0..MaxCodes] /\ jellyfin' \subseteq User
    BY <1>1, FulfillmentAssumption DEF CreateUser, User, IInv, TypeOK
  <2>2. worker' = [worker EXCEPT ![g] = k]
    BY <1>0, <1>1 DEF CreateUser
  <2> HIDE DEF u
  <2>3. k \in Worker /\ WorkerOK(k, granted)
    BY <1>0, <1>1, <2>1 DEF CreateUser, Worker, Step, WorkerOK, Working, WithUser, RowStep
  <2>4. RowsOK' /\ ExpiriesOK' /\ InvitesOK'
    BY <1>1 DEF CreateUser, IInv, RowsOK, ExpiriesOK, InvitesOK, store
  <2> HIDE DEF k
  <2> QED BY <1>1, <2>1, <2>2, <2>3, <2>4, TableStep DEF CreateUser, IInv, TypeOK, Keeps, store
<1>2. CASE UseInvite(g)
  <2> DEFINE k == [old EXCEPT !.pc = "email"]
  <2>1. k \in Worker /\ WorkerOK(k, granted)
    BY <1>0, <1>2 DEF UseInvite, Worker, Step, WorkerOK, Working, WithUser, RowStep
  <2>2. worker' = [worker EXCEPT ![g] = k]
    BY <1>2 DEF UseInvite, Goto
  <2>3. /\ DOMAIN invites' \subseteq Code /\ invites' \in [DOMAIN invites' -> Txn]
        /\ DOMAIN invites' \subseteq DOMAIN invites
        /\ \A c \in DOMAIN invites' : invites'[c] = invites[c]
    <3>1. DOMAIN invites \subseteq Code /\ invites \in [DOMAIN invites -> Txn]
      BY DEF IInv, TypeOK
    <3>2. invites' = Drop(invites, old.code)
      BY <1>2 DEF UseInvite
    <3> QED BY <3>1, <3>2 DEF Drop
  <2>4. RowsOK' /\ ExpiriesOK' /\ InvitesOK'
    BY <1>2, <2>3 DEF UseInvite, IInv, RowsOK, ExpiriesOK, InvitesOK
  <2> HIDE DEF k
  <2> QED BY <1>2, <2>1, <2>2, <2>3, <2>4, TableStep DEF UseInvite, IInv, TypeOK, Keeps
<1>3. CASE StoreEmail(g)
  <2> DEFINE k == [old EXCEPT !.pc = "expiry"]
  <2>1. k \in Worker /\ WorkerOK(k, granted) /\ old.user \in User
    BY <1>0, <1>3 DEF StoreEmail, Worker, Step, WorkerOK, Working, WithUser, RowStep
  <2>2. worker' = [worker EXCEPT ![g] = k]
    BY <1>3 DEF StoreEmail, Goto
  <2>3. RowsOK' /\ ExpiriesOK' /\ InvitesOK'
    BY <1>3 DEF StoreEmail, IInv, RowsOK, ExpiriesOK, InvitesOK
  <2> HIDE DEF k
  <2> QED BY <1>3, <2>1, <2>2, <2>3, TableStep DEF StoreEmail, IInv, TypeOK, Keeps
<1>4. CASE StoreExpiry(g)
  <2>1. old.user \in User
    BY <1>0, <1>4 DEF StoreExpiry, WorkerOK, WithUser
  <2>2. worker' = [worker EXCEPT ![g] = Idle]
    BY <1>4 DEF StoreExpiry
  <2> DEFINE e == [left |-> 1, last |-> NoTxn]
  <2>3. e \in Expiry /\ e.last \notin Txn
    BY NoTxnAssumption DEF Expiry
  <2>4. expiries' = Put(expiries, old.user, e)
    BY <1>4 DEF StoreExpiry
  <2> HIDE DEF e
  <2>5. /\ DOMAIN expiries' = DOMAIN expiries \cup {old.user}
        /\ DOMAIN expiries' \subseteq User /\ expiries' \in [DOMAIN expiries' -> Expiry]
        /\ expiries'[old.user] = e
        /\ \A u \in DOMAIN expiries : u # old.user => expiries'[u] = expiries[u]
    <3>1. DOMAIN expiries \subseteq User /\ expiries \in [DOMAIN expiries -> Expiry]
      BY DEF IInv, TypeOK
    <3> QED BY <2>1, <2>3, <2>4, <3>1 DEF Put
  <2>6. UNCHANGED <<rows, invites, granted>>
    BY <1>4 DEF StoreExpiry
  <2>7. ExpiriesOK'
    BY <2>3, <2>5, <2>6 DEF IInv, ExpiriesOK
  <2>8. RowsOK' /\ InvitesOK'
    BY <2>6 DEF IInv, RowsOK, InvitesOK
  <2> QED BY <1>4, <2>2, <2>5, <2>7, <2>8, IdleOK, TableStep DEF StoreExpiry, IInv, TypeOK, Keeps
<1> QED BY <1>1, <1>2, <1>3, <1>4 DEF Redeem

\* The administrator, the daemons, Stripe and crashes mark no row and grant nothing;
\* the expiry an administrator stores names no payment.
LEMMA OthersOK == ASSUME IInv, Pays \/ Others PROVE IInv'
<1>1. CASE Pays
  BY <1>1, BudgetKept DEF Pays, IInv, TypeOK, WorkersOK, RowsOK, ExpiriesOK, InvitesOK, store
<1>2. CASE DeleteUser
  BY <1>2, BudgetKept
     DEF DeleteUser, Admin, IInv, TypeOK, WorkersOK, RowsOK, ExpiriesOK, InvitesOK, store
<1>3. CASE DisableUser
  BY <1>3, BudgetKept
     DEF DisableUser, Admin, IInv, TypeOK, WorkersOK, RowsOK, ExpiriesOK, InvitesOK, store
<1>4. CASE ExtendExpiry
  <2>1. PICK u \in jellyfin :
           expiries' = Put(expiries, u, [left |-> ExpiryOf(u).left + 1, last |-> NoTxn])
    BY <1>4 DEF ExtendExpiry, Admin
  <2> DEFINE e == [left |-> ExpiryOf(u).left + 1, last |-> NoTxn]
  <2>2. u \in User
    BY DEF IInv, TypeOK
  <2>3. ExpiryOf(u) \in Expiry
    BY <2>2 DEF IInv, TypeOK, ExpiryOf, NoExpiry, Expiry
  <2>4. e \in Expiry /\ e.last \notin Txn
    BY <2>3, NoTxnAssumption DEF Expiry
  <2>5. expiries' = Put(expiries, u, e)
    BY <2>1
  <2> HIDE DEF e
  <2>6. /\ DOMAIN expiries' = DOMAIN expiries \cup {u}
        /\ DOMAIN expiries' \subseteq User /\ expiries' \in [DOMAIN expiries' -> Expiry]
        /\ expiries'[u] = e
        /\ \A v \in DOMAIN expiries : v # u => expiries'[v] = expiries[v]
    <3>1. DOMAIN expiries \subseteq User /\ expiries \in [DOMAIN expiries -> Expiry]
      BY DEF IInv, TypeOK
    <3> QED BY <2>2, <2>4, <2>5, <3>1 DEF Put
  <2>7. /\ UNCHANGED <<paid, arrived, rows, jellyfin, disabled, emails, invites, made, worker, granted>>
        /\ budget' \in Budget
    BY <1>4, BudgetKept DEF ExtendExpiry, Admin, IInv, TypeOK
  <2>8. TypeOK'
    BY <2>6, <2>7 DEF IInv, TypeOK
  <2>9. ExpiriesOK'
    BY <2>4, <2>6, <2>7 DEF IInv, ExpiriesOK
  <2>10. WorkersOK' /\ RowsOK' /\ InvitesOK'
    BY <2>7 DEF IInv, WorkersOK, RowsOK, InvitesOK
  <2> QED BY <2>8, <2>9, <2>10 DEF IInv
<1>5. CASE ClearEmail
  BY <1>5 DEF ClearEmail, IInv, TypeOK, WorkersOK, RowsOK, ExpiriesOK, InvitesOK
<1>6. CASE ClearExpiry
  <2>1. PICK u \in DOMAIN expiries : expiries' = Drop(expiries, u)
    BY <1>6 DEF ClearExpiry
  <2>2. /\ DOMAIN expiries' \subseteq User /\ expiries' \in [DOMAIN expiries' -> Expiry]
        /\ DOMAIN expiries' \subseteq DOMAIN expiries
        /\ \A v \in DOMAIN expiries' : expiries'[v] = expiries[v]
    <3>1. DOMAIN expiries \subseteq User /\ expiries \in [DOMAIN expiries -> Expiry]
      BY DEF IInv, TypeOK
    <3> QED BY <2>1, <3>1 DEF Drop
  <2>3. UNCHANGED <<paid, arrived, rows, jellyfin, disabled, emails, invites, made, worker, budget, granted>>
    BY <1>6 DEF ClearExpiry
  <2>4. TypeOK'
    BY <2>2, <2>3 DEF IInv, TypeOK
  <2>5. WorkersOK' /\ RowsOK' /\ ExpiriesOK' /\ InvitesOK'
    BY <2>2, <2>3 DEF IInv, WorkersOK, RowsOK, ExpiriesOK, InvitesOK
  <2> QED BY <2>4, <2>5 DEF IInv
<1>7. CASE Crash
  <2>1. worker' \in [Workers -> Worker] /\ WorkersOK'
    BY <1>7, IdleOK DEF Crash, WorkersOK
  <2>2. TypeOK'
    BY <1>7, <2>1, BudgetKept DEF Crash, IInv, TypeOK, store
  <2>3. RowsOK' /\ ExpiriesOK' /\ InvitesOK'
    BY <1>7 DEF Crash, IInv, RowsOK, ExpiriesOK, InvitesOK, store
  <2> QED BY <2>1, <2>2, <2>3 DEF IInv
<1> QED BY <1>1, <1>2, <1>3, <1>4, <1>5, <1>6, <1>7 DEF Others

\* Every step keeps the invariant.
LEMMA Inductive == IInv /\ [Next]_vars => IInv'
<1> SUFFICES ASSUME IInv, [Next]_vars PROVE IInv'
  OBVIOUS
<1>1. CASE Pays \/ Others
  BY <1>1, OthersOK
<1>2. ASSUME NEW g \in Workers, Arrival(g) PROVE IInv'
  BY <1>2, ArrivalOK
<1>3. ASSUME NEW g \in Workers, Redeem(g) PROVE IInv'
  BY <1>3, RedeemOK
<1>4. ASSUME NEW g \in Workers, Fulfil(g) PROVE IInv'
  BY <1>4, ReadingOK, WriteRowOK, KeepingOK, GrantingOK DEF Fulfil
<1>5. CASE UNCHANGED vars
  BY <1>5 DEF vars, store, IInv, TypeOK, WorkersOK, RowsOK, ExpiriesOK, InvitesOK
<1> QED BY <1>1, <1>2, <1>3, <1>4, <1>5 DEF Next

\* The invariant holds always.
LEMMA Invariance == Spec => []IInv
<1> QED BY Initially, Inductive, PTL DEF Spec

-----------------------------------------------------------------------------
(* The theorems.                                                           *)

\* The stored tables, the workers and the counters of the fulfilment keep their types.
THEOREM TypeCorrect == Spec => []TypeOK
<1>1. IInv => TypeOK
  BY DEF IInv
<1> QED BY <1>1, Invariance, PTL

\* However webhook handlers, reconciliations, repairs, sign-ups, failures, crashes and
\* the administrator overlap, a payment row with FulfilledAt names a user or an invite
\* and its payment was turned into access at least once (payments.go,
\* markPaymentFulfilled).
THEOREM FulfilledWasGranted == Spec => []FulfilledIsGranted
<1>1. IInv => FulfilledIsGranted
  BY DEF IInv, RowsOK, Linked, FulfilledIsGranted
<1> QED BY <1>1, Invariance, PTL

-----------------------------------------------------------------------------
(* The promise: what PaidAccess asks for, where handlers take turns.       *)

\* No request fails and the administrator does nothing; a payment is reported once ...
OnceEach(b) == b.failures = 0 /\ b.admin = 0 /\ b.arrivals <= 1

\* ... or there is one payment, of a buyer who is the one user of the address.
OnlyOne(b) == b.failures = 0 /\ b.admin = 0 /\ b.existing = 1 /\ \A t, s \in b.txns : t = s

Promised == \A b \in Budgets : b.overlap \/ OnceEach(b) \/ OnlyOne(b)

Alone == \A g, h \in Workers : worker[g].pc # "idle" /\ worker[h].pc # "idle" => g = h

\* Jellyfin knows every user that an address, a row or a worker names, so that no user is
\* taken for a missing one.
Known ==
    /\ emails \subseteq jellyfin
    /\ \A t \in Txn : rows[t].user \in jellyfin \cup {None}
    /\ \A g \in Workers : /\ worker[g].user \in jellyfin \cup {None}
                          /\ worker[g].seen.user \in jellyfin \cup {None}
                          /\ worker[g].via # "repair"
                          /\ worker[g].pc \notin {"dropEmail", "dropExpiry", "relink"}

\* Who is at work is at work for a payment that was received, and nothing is granted twice.
Earned ==
    /\ paid \subseteq budget.txns
    /\ \A g \in Workers : worker[g].txn \in paid \cup {NoTxn}
    /\ \A t \in Txn : granted[t] <= 1 /\ (granted[t] > 0 => t \in paid)

Peaceful == budget.failures = 0 /\ budget.admin = 0 /\ Alone /\ Known

Calm == Peaceful /\ Earned

BeforeGrant == {"touch", "find", "lookup", "label", "extend", "credit", "search", "create"}

\* A payment that is reported once has one handler, before the grant or after it.
ReportedOnce ==
    /\ budget.arrivals <= 1
    /\ \A t \in Txn : granted[t] > 0 => arrived[t] > 0
    /\ \A g \in Workers : worker[g].txn \in Txn =>
          /\ arrived[worker[g].txn] > 0
          /\ worker[g].pc \in BeforeGrant => granted[worker[g].txn] = 0

\* The one user is found each time, and the expiry remembers the one payment.
Remembered ==
    /\ budget.existing = 1 /\ \A t, s \in budget.txns : t = s
    /\ 1 \in jellyfin /\ emails = {1} /\ DOMAIN invites = {}
    /\ \A g \in Workers :
          /\ worker[g].pc \notin {"search", "create", "signup", "use", "email", "expiry"}
          /\ worker[g].pc \in WithUser => worker[g].user = 1
          /\ worker[g].pc = "credit" => granted[worker[g].txn] = 0
    /\ \A t \in Txn : granted[t] > 0 => 1 \in DOMAIN expiries /\ expiries[1].last = t

PInv == budget.overlap \/ (Calm /\ (ReportedOnce \/ Remembered))

\* What is fixed for a behaviour, and what is only ever spent.
Spends ==
    /\ budget'.overlap = budget.overlap /\ budget'.txns = budget.txns
    /\ budget'.existing = budget.existing /\ budget'.arrivals = budget.arrivals
    /\ budget.failures = 0 => budget'.failures = 0
    /\ budget.admin = 0 => budget'.admin = 0
    /\ budget'.users = budget.users
    /\ budget.crashes = 0 => budget'.crashes = 0

\* Every step keeps to it.
LEMMA BudgetSpent ==
    ASSUME IInv, Next
    PROVE Spends
<1>a. budget \in [txns : SUBSET Txn, existing : 0..MaxUsers, users : 0..MaxUsers, arrivals : Nat,
                     failures : Nat, crashes : Nat, crashed : BOOLEAN, admin : Nat, overlap : BOOLEAN]
  BY DEF IInv, TypeOK, Budget
<1>1. CASE Pays
  BY <1>1, <1>a DEF Pays, Spends
<1>2. CASE DeleteUser
  BY <1>2, <1>a DEF DeleteUser, Admin, Spends
<1>3. CASE DisableUser
  BY <1>3, <1>a DEF DisableUser, Admin, Spends
<1>4. CASE ExtendExpiry
  BY <1>4, <1>a DEF ExtendExpiry, Admin, Spends
<1>5. CASE ClearEmail
  BY <1>5, <1>a DEF ClearEmail, Spends
<1>6. CASE ClearExpiry
  BY <1>6, <1>a DEF ClearExpiry, Spends
<1>7. CASE Crash
  BY <1>7, <1>a DEF Crash, Idle, Spends
<1>8. ASSUME NEW g \in Workers, Deliver(g) PROVE Spends
  BY <1>8, <1>a DEF Deliver, Start, Idle, Spends
<1>9. ASSUME NEW g \in Workers, Reconcile(g) PROVE Spends
  BY <1>9, <1>a DEF Reconcile, Start, Idle, Spends
<1>10. ASSUME NEW g \in Workers, Repair(g) PROVE Spends
  BY <1>10, <1>a DEF Repair, Start, Idle, Spends
<1>11. ASSUME NEW g \in Workers, SignUp(g) PROVE Spends
  BY <1>11, <1>a DEF SignUp, Start, Idle, Spends
<1>12. ASSUME NEW g \in Workers, ReadRow(g) PROVE Spends
  BY <1>12, <1>a DEF ReadRow, Spends
<1>13. ASSUME NEW g \in Workers, WriteRow(g) PROVE Spends
  BY <1>13, <1>a DEF WriteRow, Idle, Spends
<1>14. ASSUME NEW g \in Workers, Find(g) PROVE Spends
  BY <1>14, <1>a DEF Find, Idle, Spends
<1>15. ASSUME NEW g \in Workers, Lookup(g) PROVE Spends
  BY <1>15, <1>a DEF Lookup, Goto, Spends
<1>16. ASSUME NEW g \in Workers, DropEmail(g) PROVE Spends
  BY <1>16, <1>a DEF DropEmail, Goto, Spends
<1>17. ASSUME NEW g \in Workers, DropExpiry(g) PROVE Spends
  BY <1>17, <1>a DEF DropExpiry, Spends
<1>18. ASSUME NEW g \in Workers, Label(g) PROVE Spends
  BY <1>18, <1>a DEF Label, Goto, Spends
<1>19. ASSUME NEW g \in Workers, ReadExpiry(g) PROVE Spends
  BY <1>19, <1>a DEF ReadExpiry, Spends
<1>20. ASSUME NEW g \in Workers, Credit(g) PROVE Spends
  BY <1>20, <1>a DEF Credit, Spends
<1>21. ASSUME NEW g \in Workers, Enable(g) PROVE Spends
  BY <1>21, <1>a DEF Enable, Goto, Spends
<1>22. ASSUME NEW g \in Workers, SearchInvite(g) PROVE Spends
  BY <1>22, <1>a DEF SearchInvite, Goto, Spends
<1>23. ASSUME NEW g \in Workers, CreateInvite(g) PROVE Spends
  BY <1>23, <1>a DEF CreateInvite, Spends
<1>24. ASSUME NEW g \in Workers, CreateUser(g) PROVE Spends
  BY <1>24, <1>a DEF CreateUser, Spends
<1>25. ASSUME NEW g \in Workers, UseInvite(g) PROVE Spends
  BY <1>25, <1>a DEF UseInvite, Goto, Spends
<1>26. ASSUME NEW g \in Workers, StoreEmail(g) PROVE Spends
  BY <1>26, <1>a DEF StoreEmail, Goto, Spends
<1>27. ASSUME NEW g \in Workers, StoreExpiry(g) PROVE Spends
  BY <1>27, <1>a DEF StoreExpiry, Idle, Spends
<1> QED
  BY <1>1, <1>2, <1>3, <1>4, <1>5, <1>6, <1>7, <1>8, <1>9, <1>10, <1>11, <1>12, <1>13, <1>14,
     <1>15, <1>16, <1>17, <1>18, <1>19, <1>20, <1>21, <1>22, <1>23, <1>24, <1>25, <1>26, <1>27
     DEF Next, Others, Arrival, Fulfil, Redeem

\* One handler at a time.
LEMMA AloneStep ==
    ASSUME IInv, ~budget.overlap, Alone, Next
    PROVE Alone'
<1>a. worker \in [Workers -> Worker]
  BY DEF IInv, TypeOK
<1>1. CASE Pays
  BY <1>1, <1>a DEF Pays, Alone
<1>2. CASE DeleteUser
  BY <1>2, <1>a DEF DeleteUser, Admin, Alone
<1>3. CASE DisableUser
  BY <1>3, <1>a DEF DisableUser, Admin, Alone
<1>4. CASE ExtendExpiry
  BY <1>4, <1>a DEF ExtendExpiry, Admin, Alone
<1>5. CASE ClearEmail
  BY <1>5, <1>a DEF ClearEmail, Alone
<1>6. CASE ClearExpiry
  BY <1>6, <1>a DEF ClearExpiry, Alone
<1>7. CASE Crash
  BY <1>7, <1>a DEF Crash, Idle, Alone
<1>8. ASSUME NEW g \in Workers, Deliver(g) PROVE Alone'
  BY <1>8, <1>a DEF Deliver, Start, Idle, Alone
<1>9. ASSUME NEW g \in Workers, Reconcile(g) PROVE Alone'
  BY <1>9, <1>a DEF Reconcile, Start, Idle, Alone
<1>10. ASSUME NEW g \in Workers, Repair(g) PROVE Alone'
  BY <1>10, <1>a DEF Repair, Start, Idle, Alone
<1>11. ASSUME NEW g \in Workers, SignUp(g) PROVE Alone'
  BY <1>11, <1>a DEF SignUp, Start, Idle, Alone
<1>12. ASSUME NEW g \in Workers, ReadRow(g) PROVE Alone'
  BY <1>12, <1>a DEF ReadRow, Alone
<1>13. ASSUME NEW g \in Workers, WriteRow(g) PROVE Alone'
  BY <1>13, <1>a DEF WriteRow, Idle, Alone
<1>14. ASSUME NEW g \in Workers, Find(g) PROVE Alone'
  BY <1>14, <1>a DEF Find, Idle, Alone
<1>15. ASSUME NEW g \in Workers, Lookup(g) PROVE Alone'
  BY <1>15, <1>a DEF Lookup, Goto, Alone
<1>16. ASSUME NEW g \in Workers, DropEmail(g) PROVE Alone'
  BY <1>16, <1>a DEF DropEmail, Goto, Alone
<1>17. ASSUME NEW g \in Workers, DropExpiry(g) PROVE Alone'
  BY <1>17, <1>a DEF DropExpiry, Alone
<1>18. ASSUME NEW g \in Workers, Label(g) PROVE Alone'
  BY <1>18, <1>a DEF Label, Goto, Alone
<1>19. ASSUME NEW g \in Workers, ReadExpiry(g) PROVE Alone'
  BY <1>19, <1>a DEF ReadExpiry, Alone
<1>20. ASSUME NEW g \in Workers, Credit(g) PROVE Alone'
  BY <1>20, <1>a DEF Credit, Alone
<1>21. ASSUME NEW g \in Workers, Enable(g) PROVE Alone'
  BY <1>21, <1>a DEF Enable, Goto, Alone
<1>22. ASSUME NEW g \in Workers, SearchInvite(g) PROVE Alone'
  BY <1>22, <1>a DEF SearchInvite, Goto, Alone
<1>23. ASSUME NEW g \in Workers, CreateInvite(g) PROVE Alone'
  BY <1>23, <1>a DEF CreateInvite, Alone
<1>24. ASSUME NEW g \in Workers, CreateUser(g) PROVE Alone'
  BY <1>24, <1>a DEF CreateUser, Alone
<1>25. ASSUME NEW g \in Workers, UseInvite(g) PROVE Alone'
  BY <1>25, <1>a DEF UseInvite, Goto, Alone
<1>26. ASSUME NEW g \in Workers, StoreEmail(g) PROVE Alone'
  BY <1>26, <1>a DEF StoreEmail, Goto, Alone
<1>27. ASSUME NEW g \in Workers, StoreExpiry(g) PROVE Alone'
  BY <1>27, <1>a DEF StoreExpiry, Idle, Alone
<1> QED
  BY <1>1, <1>2, <1>3, <1>4, <1>5, <1>6, <1>7, <1>8, <1>9, <1>10, <1>11, <1>12, <1>13, <1>14,
     <1>15, <1>16, <1>17, <1>18, <1>19, <1>20, <1>21, <1>22, <1>23, <1>24, <1>25, <1>26, <1>27
     DEF Next, Others, Arrival, Fulfil, Redeem

\* findUserByEmail finds a user that is stored, or none.
LEMMA FindSays ==
    ASSUME worker \in [Workers -> Worker], NEW g \in Workers, Find(g)
    PROVE /\ worker'[g].user \in emails \cup {None, worker[g].user}
          /\ worker'[g].seen \in {NewRow, worker[g].seen}
          /\ worker'[g].via \in {"webhook", worker[g].via}
          /\ worker'[g].txn \in {NoTxn, worker[g].txn}
          /\ worker'[g].pc \in {"idle", "search", "extend", "lookup"}
          /\ \A h \in Workers \ {g} : worker'[h] = worker[h]
<1>1. PICK u \in emails \cup {None}, pc \in {"search", "extend", "lookup"} :
            \/ worker' = [worker EXCEPT ![g] = Idle]
            \/ worker' = [worker EXCEPT ![g].pc = pc]
            \/ worker' = [worker EXCEPT ![g].user = u, ![g].pc = pc]
  BY DEF Find
<1>2. CASE worker' = [worker EXCEPT ![g] = Idle]
  BY <1>2 DEF Idle
<1>3. CASE worker' = [worker EXCEPT ![g].pc = pc]
  BY <1>3 DEF Worker
<1>4. CASE worker' = [worker EXCEPT ![g].user = u, ![g].pc = pc]
  BY <1>4 DEF Worker
<1> QED BY <1>1, <1>2, <1>3, <1>4

\* No user that something names is deleted or forgotten.
LEMMA KnownStep ==
    ASSUME IInv, Peaceful, Next
    PROVE Known'
<1>a. /\ worker \in [Workers -> Worker] /\ rows \in [Txn -> Row] /\ granted \in [Txn -> Nat]
      /\ arrived \in [Txn -> Nat] /\ jellyfin \subseteq User /\ None \notin User
      /\ budget \in Budget
  BY DEF IInv, TypeOK, User, None
<1>b. \A g \in Workers : worker[g].pc \in WithUser => worker[g].user \in jellyfin
  BY <1>a DEF IInv, WorkersOK, WorkerOK, Peaceful, Known
<1>1. CASE Pays
  BY <1>1, <1>a, <1>b DEF Pays, Peaceful, Known, store
<1>2. CASE DeleteUser
  BY <1>2, <1>a, <1>b DEF DeleteUser, Admin, Peaceful, Known, store
<1>3. CASE DisableUser
  BY <1>3, <1>a, <1>b DEF DisableUser, Admin, Peaceful, Known, store
<1>4. CASE ExtendExpiry
  BY <1>4, <1>a, <1>b DEF ExtendExpiry, Admin, Peaceful, Known, store
<1>5. CASE ClearEmail
  BY <1>5, <1>a, <1>b DEF ClearEmail, Peaceful, Known, store
<1>6. CASE ClearExpiry
  BY <1>6, <1>a, <1>b DEF ClearExpiry, Peaceful, Known, store
<1>7. CASE Crash
  BY <1>7, <1>a, <1>b DEF Crash, Idle, Peaceful, Known, store, NewRow, None
<1>8. ASSUME NEW g \in Workers, Deliver(g) PROVE Known'
  BY <1>8, <1>a, <1>b DEF Deliver, Start, Idle, Peaceful, Known, store, NewRow, None
<1>9. ASSUME NEW g \in Workers, Reconcile(g) PROVE Known'
  BY <1>9, <1>a, <1>b DEF Reconcile, Start, Idle, Peaceful, Known, store, NewRow, None
<1>10. ASSUME NEW g \in Workers, Repair(g) PROVE Known'
  BY <1>10, <1>a, <1>b DEF Repair, Start, Idle, Peaceful, Known, store, None, NewRow, Txn
<1>11. ASSUME NEW g \in Workers, SignUp(g) PROVE Known'
  BY <1>11, <1>a, <1>b DEF SignUp, Start, Idle, Peaceful, Known, store, NewRow, None
<1>12. ASSUME NEW g \in Workers, ReadRow(g) PROVE Known'
  BY <1>12, <1>a, <1>b DEF ReadRow, Peaceful, Known, store, Worker, RowStep
<1>13. ASSUME NEW g \in Workers, WriteRow(g) PROVE Known'
  BY <1>13, <1>a, <1>b DEF WriteRow, Idle, Peaceful, Known, store, Marked, Relinked, RowStep,
     Row,
     NewRow, None
<1>14. ASSUME NEW g \in Workers, Find(g) PROVE Known'
  <2>1. emails' = emails /\ rows' = rows /\ jellyfin' = jellyfin
    BY <1>14 DEF Find, store
  <2>2. NewRow.user = None
    BY DEF NewRow
  <2>3. QED
    BY <1>14, <1>a, <2>1, <2>2, FindSays DEF Peaceful, Known
<1>15. ASSUME NEW g \in Workers, Lookup(g) PROVE Known'
  BY <1>15, <1>a, <1>b DEF Lookup, Goto, Peaceful, Known, store, Worker, WithUser
<1>16. ASSUME NEW g \in Workers, DropEmail(g) PROVE Known'
  BY <1>16, <1>a, <1>b DEF DropEmail, Goto, Peaceful, Known, store
<1>17. ASSUME NEW g \in Workers, DropExpiry(g) PROVE Known'
  BY <1>17, <1>a, <1>b DEF DropExpiry, Peaceful, Known, store, None
<1>18. ASSUME NEW g \in Workers, Label(g) PROVE Known'
  BY <1>18, <1>a, <1>b DEF Label, Goto, Peaceful, Known, store, Worker, WithUser
<1>19. ASSUME NEW g \in Workers, ReadExpiry(g) PROVE Known'
  BY <1>19, <1>a, <1>b DEF ReadExpiry, Peaceful, Known, store
<1>20. ASSUME NEW g \in Workers, Credit(g) PROVE Known'
  BY <1>20, <1>a, <1>b DEF Credit, Peaceful, Known, store
<1>21. ASSUME NEW g \in Workers, Enable(g) PROVE Known'
  BY <1>21, <1>a, <1>b DEF Enable, Goto, Peaceful, Known, store
<1>22. ASSUME NEW g \in Workers, SearchInvite(g) PROVE Known'
  BY <1>22, <1>a, <1>b DEF SearchInvite, Goto, Peaceful, Known, store, Worker
<1>23. ASSUME NEW g \in Workers, CreateInvite(g) PROVE Known'
  BY <1>23, <1>a, <1>b DEF CreateInvite, Peaceful, Known, store
<1>24. ASSUME NEW g \in Workers, CreateUser(g) PROVE Known'
  BY <1>24, <1>a, <1>b DEF CreateUser, Peaceful, Known, store
<1>25. ASSUME NEW g \in Workers, UseInvite(g) PROVE Known'
  BY <1>25, <1>a, <1>b DEF UseInvite, Goto, Peaceful, Known, store
<1>26. ASSUME NEW g \in Workers, StoreEmail(g) PROVE Known'
  BY <1>26, <1>a, <1>b DEF StoreEmail, Goto, Peaceful, Known, store, Worker, WithUser
<1>27. ASSUME NEW g \in Workers, StoreExpiry(g) PROVE Known'
  BY <1>27, <1>a, <1>b DEF StoreExpiry, Idle, Peaceful, Known, store, NewRow, None
<1> QED
  BY <1>1, <1>2, <1>3, <1>4, <1>5, <1>6, <1>7, <1>8, <1>9, <1>10, <1>11, <1>12, <1>13, <1>14,
     <1>15, <1>16, <1>17, <1>18, <1>19, <1>20, <1>21, <1>22, <1>23, <1>24, <1>25, <1>26, <1>27
     DEF Next, Others, Arrival, Fulfil, Redeem

\* Only received payments are worked for, and once granted they are not granted again.
LEMMA EarnedStep ==
    ASSUME IInv, Calm, ReportedOnce \/ Remembered, Next
    PROVE Earned'
<1>a. /\ worker \in [Workers -> Worker] /\ rows \in [Txn -> Row] /\ granted \in [Txn -> Nat]
      /\ arrived \in [Txn -> Nat] /\ jellyfin \subseteq User /\ None \notin User
      /\ budget \in Budget
  BY DEF IInv, TypeOK, User, None
<1>b. NoTxn \notin Txn /\ paid \subseteq Txn /\ \A t \in Txn : granted[t] \in Nat
  BY NoTxnAssumption DEF IInv, TypeOK
<1>c. Spends /\ \A g \in Workers : worker[g].pc \in Working => worker[g].txn \in Txn
  BY BudgetSpent DEF IInv, WorkersOK, WorkerOK
<1>d. /\ Earned /\ budget.txns \subseteq Txn
      /\ \A g \in Workers : worker[g].pc \in {"credit", "create"} => granted[worker[g].txn] = 0
  BY <1>a, <1>c DEF Calm, Peaceful, ReportedOnce, Remembered, BeforeGrant, Working, Budget
<1>1. CASE Pays
  BY <1>1, <1>a, <1>b, <1>c, <1>d DEF Pays, Earned, Spends
<1>2. CASE DeleteUser
  BY <1>2, <1>a, <1>b, <1>c, <1>d DEF DeleteUser, Admin, Earned, Spends
<1>3. CASE DisableUser
  BY <1>3, <1>a, <1>b, <1>c, <1>d DEF DisableUser, Admin, Earned, Spends
<1>4. CASE ExtendExpiry
  BY <1>4, <1>a, <1>b, <1>c, <1>d DEF ExtendExpiry, Admin, Earned, Spends
<1>5. CASE ClearEmail
  BY <1>5, <1>a, <1>b, <1>c, <1>d DEF ClearEmail, Earned, Spends
<1>6. CASE ClearExpiry
  BY <1>6, <1>a, <1>b, <1>c, <1>d DEF ClearExpiry, Earned, Spends
<1>7. CASE Crash
  BY <1>7, <1>a, <1>b, <1>c, <1>d DEF Crash, Idle, Earned, Spends
<1>8. ASSUME NEW g \in Workers, Deliver(g) PROVE Earned'
  BY <1>8, <1>a, <1>b, <1>c, <1>d DEF Deliver, Start, Idle, Earned, Spends
<1>9. ASSUME NEW g \in Workers, Reconcile(g) PROVE Earned'
  BY <1>9, <1>a, <1>b, <1>c, <1>d DEF Reconcile, Start, Idle, Earned, Spends
<1>10. ASSUME NEW g \in Workers, Repair(g) PROVE Earned'
  BY <1>10, <1>a, <1>b, <1>c, <1>d DEF Repair, Start, Idle, Earned, Spends
<1>11. ASSUME NEW g \in Workers, SignUp(g) PROVE Earned'
  BY <1>11, <1>a, <1>b, <1>c, <1>d DEF SignUp, Start, Idle, Earned, Spends
<1>12. ASSUME NEW g \in Workers, ReadRow(g) PROVE Earned'
  BY <1>12, <1>a, <1>b, <1>c, <1>d DEF ReadRow, Earned, Spends, Worker
<1>13. ASSUME NEW g \in Workers, WriteRow(g) PROVE Earned'
  BY <1>13, <1>a, <1>b, <1>c, <1>d DEF WriteRow, Idle, Earned, Spends, Worker
<1>14. ASSUME NEW g \in Workers, Find(g) PROVE Earned'
  <2>1. UNCHANGED <<paid, arrived, budget, granted>>
    BY <1>14 DEF Find
  <2>2. QED
    BY <1>14, <1>a, <1>d, <2>1, FindSays DEF Earned
<1>15. ASSUME NEW g \in Workers, Lookup(g) PROVE Earned'
  BY <1>15, <1>a, <1>b, <1>c, <1>d DEF Lookup, Goto, Earned, Spends, Worker
<1>16. ASSUME NEW g \in Workers, DropEmail(g) PROVE Earned'
  BY <1>16, <1>a, <1>b, <1>c, <1>d DEF DropEmail, Goto, Earned, Spends, Worker
<1>17. ASSUME NEW g \in Workers, DropExpiry(g) PROVE Earned'
  BY <1>17, <1>a, <1>b, <1>c, <1>d DEF DropExpiry, Earned, Spends, Worker
<1>18. ASSUME NEW g \in Workers, Label(g) PROVE Earned'
  BY <1>18, <1>a, <1>b, <1>c, <1>d DEF Label, Goto, Earned, Spends, Worker
<1>19. ASSUME NEW g \in Workers, ReadExpiry(g) PROVE Earned'
  BY <1>19, <1>a, <1>b, <1>c, <1>d DEF ReadExpiry, Earned, Spends, Worker
<1>20. ASSUME NEW g \in Workers, Credit(g) PROVE Earned'
  BY <1>20, <1>a, <1>b, <1>c, <1>d DEF Credit, Earned, Spends, Granted, Working, RowStep,
     Worker
<1>21. ASSUME NEW g \in Workers, Enable(g) PROVE Earned'
  BY <1>21, <1>a, <1>b, <1>c, <1>d DEF Enable, Goto, Earned, Spends, Worker
<1>22. ASSUME NEW g \in Workers, SearchInvite(g) PROVE Earned'
  BY <1>22, <1>a, <1>b, <1>c, <1>d DEF SearchInvite, Goto, Earned, Spends, Worker
<1>23. ASSUME NEW g \in Workers, CreateInvite(g) PROVE Earned'
  BY <1>23, <1>a, <1>b, <1>c, <1>d DEF CreateInvite, Earned, Spends, Granted, Working,
     RowStep, Worker
<1>24. ASSUME NEW g \in Workers, CreateUser(g) PROVE Earned'
  BY <1>24, <1>a, <1>b, <1>c, <1>d DEF CreateUser, Earned, Spends, Worker
<1>25. ASSUME NEW g \in Workers, UseInvite(g) PROVE Earned'
  BY <1>25, <1>a, <1>b, <1>c, <1>d DEF UseInvite, Goto, Earned, Spends, Worker
<1>26. ASSUME NEW g \in Workers, StoreEmail(g) PROVE Earned'
  BY <1>26, <1>a, <1>b, <1>c, <1>d DEF StoreEmail, Goto, Earned, Spends, Worker
<1>27. ASSUME NEW g \in Workers, StoreExpiry(g) PROVE Earned'
  BY <1>27, <1>a, <1>b, <1>c, <1>d DEF StoreExpiry, Idle, Earned, Spends
<1> QED
  BY <1>1, <1>2, <1>3, <1>4, <1>5, <1>6, <1>7, <1>8, <1>9, <1>10, <1>11, <1>12, <1>13, <1>14,
     <1>15, <1>16, <1>17, <1>18, <1>19, <1>20, <1>21, <1>22, <1>23, <1>24, <1>25, <1>26, <1>27
     DEF Next, Others, Arrival, Fulfil, Redeem

\* A payment that is reported once is not worked for again.
LEMMA OnceStep ==
    ASSUME IInv, Calm, ReportedOnce, ~budget.overlap, Next
    PROVE ReportedOnce'
<1>a. /\ worker \in [Workers -> Worker] /\ rows \in [Txn -> Row] /\ granted \in [Txn -> Nat]
      /\ arrived \in [Txn -> Nat] /\ jellyfin \subseteq User /\ None \notin User
      /\ budget \in Budget
  BY DEF IInv, TypeOK, User, None
<1>b. NoTxn \notin Txn /\ paid \subseteq Txn /\ \A t \in Txn : granted[t] \in Nat
  BY NoTxnAssumption DEF IInv, TypeOK
<1>c. Spends /\ \A g \in Workers : worker[g].pc \in Working => worker[g].txn \in Txn
  BY BudgetSpent DEF IInv, WorkersOK, WorkerOK
<1>d. Alone /\ Known /\ budget.arrivals \in Nat /\ ReportedOnce
  BY <1>a DEF Calm, Peaceful, Budget
<1>1. CASE Pays
  BY <1>1, <1>a, <1>b, <1>c, <1>d DEF Pays, ReportedOnce, BeforeGrant, Spends
<1>2. CASE DeleteUser
  BY <1>2, <1>a, <1>b, <1>c, <1>d DEF DeleteUser, Admin, ReportedOnce, BeforeGrant, Spends
<1>3. CASE DisableUser
  BY <1>3, <1>a, <1>b, <1>c, <1>d DEF DisableUser, Admin, ReportedOnce, BeforeGrant, Spends
<1>4. CASE ExtendExpiry
  BY <1>4, <1>a, <1>b, <1>c, <1>d DEF ExtendExpiry, Admin, ReportedOnce, BeforeGrant, Spends
<1>5. CASE ClearEmail
  BY <1>5, <1>a, <1>b, <1>c, <1>d DEF ClearEmail, ReportedOnce, BeforeGrant, Spends
<1>6. CASE ClearExpiry
  BY <1>6, <1>a, <1>b, <1>c, <1>d DEF ClearExpiry, ReportedOnce, BeforeGrant, Spends
<1>7. CASE Crash
  BY <1>7, <1>a, <1>b, <1>c, <1>d DEF Crash, Idle, ReportedOnce, BeforeGrant, Spends
<1>8. ASSUME NEW g \in Workers, Deliver(g) PROVE ReportedOnce'
  BY <1>8, <1>a, <1>b, <1>c, <1>d DEF Deliver, Start, Idle, ReportedOnce, BeforeGrant, Spends
<1>9. ASSUME NEW g \in Workers, Reconcile(g) PROVE ReportedOnce'
  BY <1>9, <1>a, <1>b, <1>c, <1>d DEF Reconcile, Start, Idle, ReportedOnce, BeforeGrant,
     Spends
<1>10. ASSUME NEW g \in Workers, Repair(g) PROVE ReportedOnce'
  BY <1>10, <1>a, <1>b, <1>c, <1>d DEF Repair, Start, Idle, ReportedOnce, BeforeGrant, Spends,
     Known, Txn, Calm, Peaceful
<1>11. ASSUME NEW g \in Workers, SignUp(g) PROVE ReportedOnce'
  BY <1>11, <1>a, <1>b, <1>c, <1>d DEF SignUp, Start, Idle, ReportedOnce, BeforeGrant, Spends
<1>12. ASSUME NEW g \in Workers, ReadRow(g) PROVE ReportedOnce'
  BY <1>12, <1>a, <1>b, <1>c, <1>d DEF ReadRow, ReportedOnce, BeforeGrant, Spends, Worker
<1>13. ASSUME NEW g \in Workers, WriteRow(g) PROVE ReportedOnce'
  BY <1>13, <1>a, <1>b, <1>c, <1>d DEF WriteRow, Idle, ReportedOnce, BeforeGrant, Spends,
     Worker
<1>14. ASSUME NEW g \in Workers, Find(g) PROVE ReportedOnce'
  <2>1. UNCHANGED <<arrived, budget, granted>> /\ worker[g].pc = "find"
    BY <1>14 DEF Find
  <2>2. QED
    BY <1>14, <1>a, <1>b, <1>d, <2>1, FindSays DEF ReportedOnce, BeforeGrant
<1>15. ASSUME NEW g \in Workers, Lookup(g) PROVE ReportedOnce'
  <2>1. UNCHANGED <<arrived, granted>> /\ worker[g].pc = "lookup"
    BY <1>15 DEF Lookup
  <2>2. \E pc : worker' = [worker EXCEPT ![g].pc = pc]
    BY <1>15 DEF Lookup, Goto
  <2>3. worker'[g].txn = worker[g].txn /\ \A h \in Workers \ {g} : worker'[h] = worker[h]
    BY <1>a, <2>2 DEF Worker
  <2>4. QED
    BY <1>c, <1>d, <2>1, <2>3 DEF ReportedOnce, BeforeGrant, Spends
<1>16. ASSUME NEW g \in Workers, DropEmail(g) PROVE ReportedOnce'
  BY <1>16, <1>a, <1>b, <1>c, <1>d DEF DropEmail, Goto, ReportedOnce, BeforeGrant, Spends,
     Worker
<1>17. ASSUME NEW g \in Workers, DropExpiry(g) PROVE ReportedOnce'
  BY <1>17, <1>a, <1>b, <1>c, <1>d DEF DropExpiry, ReportedOnce, BeforeGrant, Spends, Worker
<1>18. ASSUME NEW g \in Workers, Label(g) PROVE ReportedOnce'
  BY <1>18, <1>a, <1>b, <1>c, <1>d DEF Label, Goto, ReportedOnce, BeforeGrant, Spends, Worker
<1>19. ASSUME NEW g \in Workers, ReadExpiry(g) PROVE ReportedOnce'
  BY <1>19, <1>a, <1>b, <1>c, <1>d DEF ReadExpiry, ReportedOnce, BeforeGrant, Spends, Worker
<1>20. ASSUME NEW g \in Workers, Credit(g) PROVE ReportedOnce'
  BY <1>20, <1>a, <1>b, <1>c, <1>d DEF Credit, ReportedOnce, BeforeGrant, Spends, Granted,
     Working, RowStep, Worker, Alone
<1>21. ASSUME NEW g \in Workers, Enable(g) PROVE ReportedOnce'
  BY <1>21, <1>a, <1>b, <1>c, <1>d DEF Enable, Goto, ReportedOnce, BeforeGrant, Spends, Worker
<1>22. ASSUME NEW g \in Workers, SearchInvite(g) PROVE ReportedOnce'
  BY <1>22, <1>a, <1>b, <1>c, <1>d DEF SearchInvite, Goto, ReportedOnce, BeforeGrant, Spends,
     Worker
<1>23. ASSUME NEW g \in Workers, CreateInvite(g) PROVE ReportedOnce'
  BY <1>23, <1>a, <1>b, <1>c, <1>d DEF CreateInvite, ReportedOnce, BeforeGrant, Spends,
     Granted, Working, RowStep, Worker, Alone
<1>24. ASSUME NEW g \in Workers, CreateUser(g) PROVE ReportedOnce'
  BY <1>24, <1>a, <1>b, <1>c, <1>d DEF CreateUser, ReportedOnce, BeforeGrant, Spends, Worker
<1>25. ASSUME NEW g \in Workers, UseInvite(g) PROVE ReportedOnce'
  BY <1>25, <1>a, <1>b, <1>c, <1>d DEF UseInvite, Goto, ReportedOnce, BeforeGrant, Spends,
     Worker
<1>26. ASSUME NEW g \in Workers, StoreEmail(g) PROVE ReportedOnce'
  BY <1>26, <1>a, <1>b, <1>c, <1>d DEF StoreEmail, Goto, ReportedOnce, BeforeGrant, Spends,
     Worker
<1>27. ASSUME NEW g \in Workers, StoreExpiry(g) PROVE ReportedOnce'
  BY <1>27, <1>a, <1>b, <1>c, <1>d DEF StoreExpiry, Idle, ReportedOnce, BeforeGrant, Spends
<1> QED
  BY <1>1, <1>2, <1>3, <1>4, <1>5, <1>6, <1>7, <1>8, <1>9, <1>10, <1>11, <1>12, <1>13, <1>14,
     <1>15, <1>16, <1>17, <1>18, <1>19, <1>20, <1>21, <1>22, <1>23, <1>24, <1>25, <1>26, <1>27
     DEF Next, Others, Arrival, Fulfil, Redeem

\* The one user stays, and so does the last transaction of the expiry.
LEMMA RememberedStep ==
    ASSUME IInv, Calm, Remembered, ~budget.overlap, Next
    PROVE Remembered'
<1>a. /\ worker \in [Workers -> Worker] /\ rows \in [Txn -> Row] /\ granted \in [Txn -> Nat]
      /\ arrived \in [Txn -> Nat] /\ jellyfin \subseteq User /\ None \notin User
      /\ budget \in Budget
  BY DEF IInv, TypeOK, User, None
<1>b. NoTxn \notin Txn /\ paid \subseteq Txn /\ \A t \in Txn : granted[t] \in Nat
  BY NoTxnAssumption DEF IInv, TypeOK
<1>c. Spends /\ \A g \in Workers : worker[g].pc \in Working => worker[g].txn \in Txn
  BY BudgetSpent DEF IInv, WorkersOK, WorkerOK
<1>d. Alone /\ Known /\ Earned /\ Remembered /\ budget.admin = 0
  BY DEF Calm, Peaceful
<1>1. CASE Pays
  BY <1>1, <1>a, <1>b, <1>c, <1>d DEF Pays, Remembered, WithUser, Spends, store
<1>2. CASE DeleteUser
  BY <1>2, <1>a, <1>b, <1>c, <1>d DEF DeleteUser, Admin, Remembered, WithUser, Spends, store
<1>3. CASE DisableUser
  BY <1>3, <1>a, <1>b, <1>c, <1>d DEF DisableUser, Admin, Remembered, WithUser, Spends, store
<1>4. CASE ExtendExpiry
  BY <1>4, <1>a, <1>b, <1>c, <1>d DEF ExtendExpiry, Admin, Remembered, WithUser, Spends, store
<1>5. CASE ClearEmail
  BY <1>5, <1>a, <1>b, <1>c, <1>d DEF ClearEmail, Remembered, WithUser, Spends, store
<1>6. CASE ClearExpiry
  BY <1>6, <1>a, <1>b, <1>c, <1>d DEF ClearExpiry, Remembered, WithUser, Spends, store, Drop
<1>7. CASE Crash
  BY <1>7, <1>a, <1>b, <1>c, <1>d DEF Crash, Idle, Remembered, WithUser, Spends, store
<1>8. ASSUME NEW g \in Workers, Deliver(g) PROVE Remembered'
  BY <1>8, <1>a, <1>b, <1>c, <1>d DEF Deliver, Start, Idle, Remembered, WithUser, Spends,
     store
<1>9. ASSUME NEW g \in Workers, Reconcile(g) PROVE Remembered'
  BY <1>9, <1>a, <1>b, <1>c, <1>d DEF Reconcile, Start, Idle, Remembered, WithUser, Spends,
     store
<1>10. ASSUME NEW g \in Workers, Repair(g) PROVE Remembered'
  BY <1>10, <1>a, <1>b, <1>c, <1>d DEF Repair, Start, Idle, Remembered, WithUser, Spends,
     store, Known, Txn, Calm, Peaceful
<1>11. ASSUME NEW g \in Workers, SignUp(g) PROVE Remembered'
  BY <1>11, <1>a, <1>b, <1>c, <1>d DEF SignUp, Start, Idle, Remembered, WithUser, Spends,
     store
<1>12. ASSUME NEW g \in Workers, ReadRow(g) PROVE Remembered'
  BY <1>12, <1>a, <1>b, <1>c, <1>d DEF ReadRow, Remembered, WithUser, Spends, store, Worker
<1>13. ASSUME NEW g \in Workers, WriteRow(g) PROVE Remembered'
  BY <1>13, <1>a, <1>b, <1>c, <1>d DEF WriteRow, Idle, Remembered, WithUser, Spends, store,
     Known, Worker, RowStep
<1>14. ASSUME NEW g \in Workers, Find(g) PROVE Remembered'
  BY <1>14, <1>a, <1>b, <1>c, <1>d DEF Find, Idle, Remembered, WithUser, Spends, store, Worker
<1>15. ASSUME NEW g \in Workers, Lookup(g) PROVE Remembered'
  BY <1>15, <1>a, <1>b, <1>c, <1>d DEF Lookup, Goto, Remembered, WithUser, Spends, store,
     Calm, Peaceful, Worker
<1>16. ASSUME NEW g \in Workers, DropEmail(g) PROVE Remembered'
  BY <1>16, <1>a, <1>b, <1>c, <1>d DEF DropEmail, Goto, Remembered, WithUser, Spends, store,
     Known
<1>17. ASSUME NEW g \in Workers, DropExpiry(g) PROVE Remembered'
  BY <1>17, <1>a, <1>b, <1>c, <1>d DEF DropExpiry, Remembered, WithUser, Spends, store, Drop,
     Known
<1>18. ASSUME NEW g \in Workers, Label(g) PROVE Remembered'
  BY <1>18, <1>a, <1>b, <1>c, <1>d DEF Label, Goto, Remembered, WithUser, Spends, store,
     Worker
<1>19. ASSUME NEW g \in Workers, ReadExpiry(g) PROVE Remembered'
  BY <1>19, <1>a, <1>b, <1>c, <1>d DEF ReadExpiry, Remembered, WithUser, Spends, store,
     Worker, ExpiryOf, AlreadyCredited, Earned, Working, RowStep
<1>20. ASSUME NEW g \in Workers, Credit(g) PROVE Remembered'
  <2> DEFINE t == worker[g].txn
  <2>1. worker[g].user = 1 /\ t \in Txn /\ t \in paid
    BY <1>20, <1>b, <1>c, <1>d DEF Credit, Working, WithUser, Remembered, Earned
  <2>2. /\ UNCHANGED <<paid, jellyfin, budget, emails, invites>>
        /\ expiries' = Put(expiries, 1, [left |-> worker[g].exp.left + 1, last |-> t])
        /\ granted' = [granted EXCEPT ![t] = @ + 1]
    BY <1>20, <2>1 DEF Credit, Granted, Extended
  <2>3. 1 \in DOMAIN expiries' /\ expiries'[1].last = t
    BY <2>2 DEF Put
  <2>4. \A s \in Txn : granted'[s] > 0 => s = t
    BY <1>a, <1>b, <1>d, <2>1, <2>2 DEF Earned, Remembered
  <2>5. /\ worker'[g].pc = "enable" /\ worker'[g].user = 1
        /\ \A h \in Workers \ {g} : worker'[h] = worker[h] /\ worker[h].pc = "idle"
    BY <1>20, <1>a, <1>d, <2>1 DEF Credit, Worker, Alone
  <2> HIDE DEF t
  <2>6. QED
    BY <1>d, <2>2, <2>3, <2>4, <2>5 DEF Remembered, WithUser
<1>21. ASSUME NEW g \in Workers, Enable(g) PROVE Remembered'
  BY <1>21, <1>a, <1>b, <1>c, <1>d DEF Enable, Goto, Remembered, WithUser, Spends, store,
     Worker
<1>22. ASSUME NEW g \in Workers, SearchInvite(g) PROVE Remembered'
  BY <1>22, <1>a, <1>b, <1>c, <1>d DEF SearchInvite, Goto, Remembered, WithUser, Spends,
     store, Worker
<1>23. ASSUME NEW g \in Workers, CreateInvite(g) PROVE Remembered'
  BY <1>23, <1>a, <1>b, <1>c, <1>d DEF CreateInvite, Remembered, WithUser, Spends, store,
     Worker
<1>24. ASSUME NEW g \in Workers, CreateUser(g) PROVE Remembered'
  BY <1>24, <1>a, <1>b, <1>c, <1>d DEF CreateUser, Remembered, WithUser, Spends, store, Worker
<1>25. ASSUME NEW g \in Workers, UseInvite(g) PROVE Remembered'
  BY <1>25, <1>a, <1>b, <1>c, <1>d DEF UseInvite, Goto, Remembered, WithUser, Spends, store,
     Worker
<1>26. ASSUME NEW g \in Workers, StoreEmail(g) PROVE Remembered'
  BY <1>26, <1>a, <1>b, <1>c, <1>d DEF StoreEmail, Goto, Remembered, WithUser, Spends, store,
     Worker
<1>27. ASSUME NEW g \in Workers, StoreExpiry(g) PROVE Remembered'
  BY <1>27, <1>a, <1>b, <1>c, <1>d DEF StoreExpiry, Idle, Remembered, WithUser, Spends, store
<1> QED
  BY <1>1, <1>2, <1>3, <1>4, <1>5, <1>6, <1>7, <1>8, <1>9, <1>10, <1>11, <1>12, <1>13, <1>14,
     <1>15, <1>16, <1>17, <1>18, <1>19, <1>20, <1>21, <1>22, <1>23, <1>24, <1>25, <1>26, <1>27
     DEF Next, Others, Arrival, Fulfil, Redeem

\* Of what is promised, nothing has happened initially.
LEMMA PromiseStarts ==
    ASSUME Promised, Init
    PROVE PInv
<1>1. budget \in Budgets /\ budget \in Budget
  BY BudgetsAssumption DEF Init
<1>2. SUFFICES ASSUME ~budget.overlap PROVE Calm /\ (ReportedOnce \/ Remembered)
  BY DEF PInv
<1>3. Alone
  BY DEF Init, Alone, Idle
<1>4. Known
  BY DEF Init, Known, Idle, NewRow, None
<1>5. Earned
  BY DEF Init, Earned, Idle
<1>6. CASE OnceEach(budget)
  BY <1>3, <1>4, <1>5, <1>6, NoTxnAssumption DEF OnceEach, Calm, Peaceful, ReportedOnce, Init,
     Idle
<1>7. CASE OnlyOne(budget)
  <2>1. 1..budget.existing = {1}
    BY <1>7 DEF OnlyOne
  <2>2. jellyfin = {1} /\ emails = {1} /\ DOMAIN invites = {}
    BY <2>1 DEF Init
  <2>3. QED
    BY <1>3, <1>4, <1>5, <1>7, <2>2 DEF OnlyOne, Calm, Peaceful, Remembered, Init, Idle,
       WithUser
<1>8. QED
  BY <1>1, <1>2, <1>6, <1>7 DEF Promised

\* Every step keeps to the promise.
LEMMA PromiseInductive == IInv /\ PInv /\ [Next]_vars => PInv'
<1> SUFFICES ASSUME IInv, PInv, [Next]_vars PROVE PInv'
  OBVIOUS
<1>1. CASE UNCHANGED vars
  BY <1>1 DEF vars, store, PInv, Calm, Peaceful, Alone, Known, Earned, ReportedOnce, Remembered
<1>2. CASE Next /\ budget.overlap
  BY <1>2, BudgetSpent DEF Spends, PInv
<1>3. CASE Next /\ ~budget.overlap
  <2>1. Calm /\ (ReportedOnce \/ Remembered) /\ Alone
    BY <1>3 DEF PInv, Calm, Peaceful
  <2>2. Calm'
    BY <1>3, <2>1, BudgetSpent, AloneStep, KnownStep, EarnedStep DEF Calm, Peaceful, Spends
  <2>3. ReportedOnce' \/ Remembered'
    BY <1>3, <2>1, OnceStep, RememberedStep
  <2>4. QED
    BY <2>2, <2>3 DEF PInv
<1>4. QED
  BY <1>1, <1>2, <1>3

-----------------------------------------------------------------------------
\* A payment is received at most once, and granted only when it has been received and
\* has not been granted.
PromisedStep ==
    \/ UNCHANGED <<paid, granted>>
    \/ \E t \in Txn \ paid : paid' = paid \cup {t} /\ UNCHANGED granted
    \/ \E t \in paid : /\ granted[t] = 0 /\ granted' = [granted EXCEPT ![t] = 1]
                       /\ UNCHANGED paid

\* Where handlers take turns, every step is such a step.
LEMMA StepsPromised ==
    ASSUME IInv, PInv, ~budget.overlap, Next
    PROVE PromisedStep
<1>a. /\ worker \in [Workers -> Worker] /\ rows \in [Txn -> Row] /\ granted \in [Txn -> Nat]
      /\ arrived \in [Txn -> Nat] /\ jellyfin \subseteq User /\ None \notin User
      /\ budget \in Budget
  BY DEF IInv, TypeOK, User, None
<1>b. NoTxn \notin Txn /\ paid \subseteq Txn /\ \A t \in Txn : granted[t] \in Nat
  BY NoTxnAssumption DEF IInv, TypeOK
<1>c. Calm /\ (ReportedOnce \/ Remembered) /\ \A g \in Workers : worker[g].pc \in Working => worker[g].txn \in Txn
  BY DEF PInv, IInv, WorkersOK, WorkerOK
<1>d. /\ Earned /\ budget.txns \subseteq Txn
      /\ \A g \in Workers : worker[g].pc \in {"credit", "create"} => granted[worker[g].txn] = 0
  BY <1>a, <1>c DEF Calm, Peaceful, ReportedOnce, Remembered, BeforeGrant, Working, RowStep,
     Budget
<1>1. CASE Pays
  BY <1>1, <1>d DEF Pays, PromisedStep
<1>2. CASE DeleteUser
  BY <1>2 DEF DeleteUser, Admin, PromisedStep
<1>3. CASE DisableUser
  BY <1>3 DEF DisableUser, Admin, PromisedStep
<1>4. CASE ExtendExpiry
  BY <1>4 DEF ExtendExpiry, Admin, PromisedStep
<1>5. CASE ClearEmail
  BY <1>5 DEF ClearEmail, PromisedStep
<1>6. CASE ClearExpiry
  BY <1>6 DEF ClearExpiry, PromisedStep
<1>7. CASE Crash
  BY <1>7 DEF Crash, Idle, PromisedStep
<1>8. ASSUME NEW g \in Workers, Deliver(g) PROVE PromisedStep
  BY <1>8 DEF Deliver, Start, Idle, PromisedStep
<1>9. ASSUME NEW g \in Workers, Reconcile(g) PROVE PromisedStep
  BY <1>9 DEF Reconcile, Start, Idle, PromisedStep
<1>10. ASSUME NEW g \in Workers, Repair(g) PROVE PromisedStep
  BY <1>10 DEF Repair, Start, Idle, PromisedStep
<1>11. ASSUME NEW g \in Workers, SignUp(g) PROVE PromisedStep
  BY <1>11 DEF SignUp, Start, Idle, PromisedStep
<1>12. ASSUME NEW g \in Workers, ReadRow(g) PROVE PromisedStep
  BY <1>12 DEF ReadRow, PromisedStep
<1>13. ASSUME NEW g \in Workers, WriteRow(g) PROVE PromisedStep
  BY <1>13 DEF WriteRow, Idle, PromisedStep
<1>14. ASSUME NEW g \in Workers, Find(g) PROVE PromisedStep
  BY <1>14 DEF Find, Idle, PromisedStep
<1>15. ASSUME NEW g \in Workers, Lookup(g) PROVE PromisedStep
  BY <1>15 DEF Lookup, Goto, PromisedStep
<1>16. ASSUME NEW g \in Workers, DropEmail(g) PROVE PromisedStep
  BY <1>16 DEF DropEmail, Goto, PromisedStep
<1>17. ASSUME NEW g \in Workers, DropExpiry(g) PROVE PromisedStep
  BY <1>17 DEF DropExpiry, PromisedStep
<1>18. ASSUME NEW g \in Workers, Label(g) PROVE PromisedStep
  BY <1>18 DEF Label, Goto, PromisedStep
<1>19. ASSUME NEW g \in Workers, ReadExpiry(g) PROVE PromisedStep
  BY <1>19 DEF ReadExpiry, PromisedStep
<1>20. ASSUME NEW g \in Workers, Credit(g) PROVE PromisedStep
  <2> DEFINE t == worker[g].txn
  <2>1. t \in Txn /\ t \in paid /\ granted[t] = 0
    BY <1>20, <1>b, <1>c, <1>d DEF Credit, Working, RowStep, Earned
  <2>2. granted' = [granted EXCEPT ![t] = 1] /\ paid' = paid
    BY <1>20, <1>a, <2>1 DEF Credit, Granted
  <2>3. QED
    BY <2>1, <2>2 DEF PromisedStep
<1>21. ASSUME NEW g \in Workers, Enable(g) PROVE PromisedStep
  BY <1>21 DEF Enable, Goto, PromisedStep
<1>22. ASSUME NEW g \in Workers, SearchInvite(g) PROVE PromisedStep
  BY <1>22 DEF SearchInvite, Goto, PromisedStep
<1>23. ASSUME NEW g \in Workers, CreateInvite(g) PROVE PromisedStep
  <2> DEFINE t == worker[g].txn
  <2>1. t \in Txn /\ t \in paid /\ granted[t] = 0
    BY <1>23, <1>b, <1>c, <1>d DEF CreateInvite, Working, RowStep, Earned
  <2>2. granted' = [granted EXCEPT ![t] = 1] /\ paid' = paid
    BY <1>23, <1>a, <2>1 DEF CreateInvite, Granted
  <2>3. QED
    BY <2>1, <2>2 DEF PromisedStep
<1>24. ASSUME NEW g \in Workers, CreateUser(g) PROVE PromisedStep
  BY <1>24 DEF CreateUser, PromisedStep
<1>25. ASSUME NEW g \in Workers, UseInvite(g) PROVE PromisedStep
  BY <1>25 DEF UseInvite, Goto, PromisedStep
<1>26. ASSUME NEW g \in Workers, StoreEmail(g) PROVE PromisedStep
  BY <1>26 DEF StoreEmail, Goto, PromisedStep
<1>27. ASSUME NEW g \in Workers, StoreExpiry(g) PROVE PromisedStep
  BY <1>27 DEF StoreExpiry, Idle, PromisedStep
<1> QED
  BY <1>1, <1>2, <1>3, <1>4, <1>5, <1>6, <1>7, <1>8, <1>9, <1>10, <1>11, <1>12, <1>13, <1>14,
     <1>15, <1>16, <1>17, <1>18, <1>19, <1>20, <1>21, <1>22, <1>23, <1>24, <1>25, <1>26, <1>27
     DEF Next, Others, Arrival, Fulfil, Redeem

\* A step of the fulfilment is a step of PaidAccess, or none.
LEMMA PromiseStep ==
    ASSUME IInv, PInv, [Next]_vars
    PROVE [Promise!Next]_<<IF budget.overlap THEN {} ELSE paid,
                           IF budget.overlap THEN [t \in Txn |-> 0] ELSE granted>>
<1>1. CASE UNCHANGED vars
  BY <1>1 DEF vars
<1>2. CASE Next /\ budget.overlap
  BY <1>2, BudgetSpent DEF Spends
<1>3. CASE Next /\ ~budget.overlap
  <2>1. ~budget'.overlap /\ PromisedStep
    BY <1>3, BudgetSpent, StepsPromised DEF Spends
  <2>2. paid \subseteq Txn
    BY DEF IInv, TypeOK
  <2>3. QED
    BY <1>3, <2>1, <2>2 DEF PromisedStep, Promise!Next, Promise!Pay, Promise!Grant
<1>4. QED
  BY <1>1, <1>2, <1>3

\* Where no request fails, the administrator does nothing and handlers take turns, the
\* store keeps what PaidAccess promises when each payment is reported once, and also when
\* the only payment of a user is reported again and again, whenever the process crashes
\* (payments.go, extendPaidUserExpiry and createPurchasedInvite).
THEOREM StoreKeepsPromise ==
    ASSUME Promised
    PROVE Spec => KeepsPromise
<1>1. Init => PInv
  BY PromiseStarts
<1>2. Init => Promise!Init
  BY DEF Init, Promise!Init
<1>3. QED
  BY <1>1, <1>2, Initially, Inductive, PromiseInductive, PromiseStep, PTL
     DEF Spec, KeepsPromise, Promise!Spec

-----------------------------------------------------------------------------
(* Totals.  FoldFunction is defined by recursion over sets; what is needed *)
(* of it is proved by taking a least set for which it does not hold.       *)

Pick(s) == CHOOSE x \in s : TRUE
\* The table of partial sums FoldFunction is defined by.
Sums(f, S, part) == part = [s \in SUBSET S |-> IF s = {} THEN 0 ELSE f[Pick(s)] + part[s \ {Pick(s)}]]
PartOf(f) == CHOOSE part : Sums(f, DOMAIN f, part)

Counts(f) == IsFiniteSet(DOMAIN f) /\ \A x \in DOMAIN f : f[x] \in Nat

\* A total is the last entry of the table.
LEMMA TotalIs ==
    ASSUME NEW f
    PROVE  Total(f) = PartOf(f)[DOMAIN f]
  BY DEF Total, FoldFunction, FoldFunctionOnSet, MapThenFoldSet, Sums, Pick, PartOf

\* The two orders used: a set of numbers has a least one ...
LEMMA LeastNat ==
    ASSUME NEW S \in SUBSET Nat, S # {}
    PROVE  \E n \in S : \A m \in S : n <= m
<1>1. PICK R : R = {ss \in Nat \X Nat : ss[1] < ss[2]}
  OBVIOUS
<1>2. IsWellFoundedOn(R, Nat)
  BY <1>1, NatLessThanWellFounded DEF OpToRel
<1>3. PICK n \in S : \A m \in S : ~(<<m, n>> \in R)
  BY <1>2, WFMin
<1>4. \A m \in S : ~(m < n)
  BY <1>1, <1>3
<1> QED BY <1>4

\* ... and a collection of finite sets one from which nothing can be taken.
LEMMA LeastSet ==
    ASSUME NEW S, IsFiniteSet(S), NEW B \in SUBSET SUBSET S, B # {}
    PROVE  \E s \in B : \A x \in s : s \ {x} \notin B
<1>1. B \subseteq FiniteSubsetsOf(S)
  BY FS_Subset, FS_FiniteSubsetsOfFinite
<1>2. IsWellFoundedOn(StrictSubsetOrdering(S), FiniteSubsetsOf(S))
  BY FS_StrictSubsetOrderingWellFounded
<1>3. PICK s \in B : \A t \in B : ~(<<t, s>> \in StrictSubsetOrdering(S))
  BY <1>1, <1>2, WFMin
<1>4. ASSUME NEW x \in s, s \ {x} \in B PROVE FALSE
  BY <1>3, <1>4 DEF StrictSubsetOrdering
<1> QED BY <1>4

\* What is picked is in the set.
LEMMA PickIn == ASSUME NEW s, s # {} PROVE Pick(s) \in s
  BY DEF Pick

\* There is such a table.
LEMMA SumsExist ==
    ASSUME NEW f, Counts(f)
    PROVE  Sums(f, DOMAIN f, PartOf(f))
<1> DEFINE S == DOMAIN f
           Upto(n) == {s \in SUBSET S : Cardinality(s) <= n}
           Good(n, g) == g = [s \in Upto(n) |-> IF s = {} THEN 0 ELSE f[Pick(s)] + g[s \ {Pick(s)}]]
           Bad == {n \in Nat : ~\E g : Good(n, g)}
<1>a. IsFiniteSet(S) /\ \A s \in SUBSET S : IsFiniteSet(s) /\ Cardinality(s) \in Nat
  BY FS_Subset, FS_CardinalityType DEF Counts
<1>b. ASSUME NEW s \in SUBSET S, s # {}
      PROVE  Pick(s) \in s /\ s \ {Pick(s)} \in SUBSET S /\ Cardinality(s \ {Pick(s)}) = Cardinality(s) - 1
  BY <1>a, <1>b, PickIn, FS_RemoveElement
<1>1. 0 \notin Bad
  <2> DEFINE g == [s \in Upto(0) |-> 0]
  <2>1. \A s \in Upto(0) : s = {}
    BY <1>a, FS_EmptySet
  <2>2. Good(0, g)
    BY <2>1
  <2> QED BY <2>2
<1>2. ASSUME NEW n \in Nat, n \notin Bad PROVE n + 1 \notin Bad
  <2>1. PICK g : Good(n, g)
    BY <1>2
  <2> DEFINE h == [s \in Upto(n + 1) |-> IF s = {} THEN 0 ELSE f[Pick(s)] + g[s \ {Pick(s)}]]
  <2>2. Upto(n) \subseteq Upto(n + 1)
    BY <1>a
  <2>3. \A s \in Upto(n) : h[s] = g[s]
    BY <2>1, <2>2
  <2>4. ASSUME NEW s \in Upto(n + 1), s # {} PROVE s \ {Pick(s)} \in Upto(n)
    BY <1>a, <1>b, <2>4
  <2>5. Good(n + 1, h)
    BY <2>3, <2>4
  <2> QED BY <2>5
<1>3. Bad = {}
  <2>1. SUFFICES ASSUME Bad # {} PROVE FALSE
    OBVIOUS
  <2>2. PICK n \in Bad : \A m \in Bad : n <= m
    <3>1. Bad \in SUBSET Nat
      OBVIOUS
    <3> HIDE DEF Bad
    <3> QED BY <2>1, <3>1, LeastNat
  <2>3. n \in Nat /\ n # 0
    BY <1>1
  <2>4. n - 1 \in Nat /\ n - 1 \notin Bad
    <3> HIDE DEF Bad
    <3> QED BY <2>2, <2>3
  <2>5. (n - 1) + 1 \notin Bad
    <3> HIDE DEF Bad
    <3> QED BY <1>2, <2>4
  <2>6. (n - 1) + 1 = n
    BY <2>3
  <2> QED BY <2>2, <2>5, <2>6
<1>4. PICK g : Good(Cardinality(S), g)
  BY <1>3, <1>a
<1>5. Upto(Cardinality(S)) = SUBSET S
  BY <1>a, FS_Subset
<1>6. Sums(f, S, g)
  BY <1>4, <1>5 DEF Sums
<1> QED BY <1>6 DEF PartOf

\* What the table says.
LEMMA SumsStep ==
    ASSUME NEW f, NEW S, NEW part, Sums(f, S, part)
    PROVE  /\ part[{}] = 0
           /\ \A s \in SUBSET S : s # {} => part[s] = f[Pick(s)] + part[s \ {Pick(s)}]
  BY DEF Sums

\* Its entries are numbers.
LEMMA SumsNat ==
    ASSUME NEW S, IsFiniteSet(S), NEW f, \A x \in S : f[x] \in Nat,
           NEW part, Sums(f, S, part)
    PROVE  \A s \in SUBSET S : part[s] \in Nat
<1> DEFINE Bad == {s \in SUBSET S : part[s] \notin Nat}
<1>1. SUFFICES ASSUME Bad # {} PROVE FALSE
  OBVIOUS
<1>2. PICK s \in Bad : \A x \in s : s \ {x} \notin Bad
  <2>1. Bad \in SUBSET SUBSET S
    OBVIOUS
  <2> HIDE DEF Bad
  <2> QED BY <1>1, <2>1, LeastSet
<1>3. part[{}] = 0
  BY SumsStep
<1>9. s # {}
  BY <1>2, <1>3
<1>4. Pick(s) \in s
  BY <1>9, PickIn
<1>5. s \ {Pick(s)} \in SUBSET S
  OBVIOUS
<1>6. part[s \ {Pick(s)}] \in Nat
  BY <1>2, <1>4, <1>5
<1>7. part[s] = f[Pick(s)] + part[s \ {Pick(s)}]
  BY <1>9, SumsStep
<1>8. f[Pick(s)] \in Nat
  BY <1>4
<1> QED BY <1>6, <1>7, <1>8

\* The order in which the entries are added does not matter.
LEMMA SumsAnyOrder ==
    ASSUME NEW S, IsFiniteSet(S), NEW f, \A x \in S : f[x] \in Nat,
           NEW part, Sums(f, S, part)
    PROVE  \A s \in SUBSET S : \A x \in s : part[s] = f[x] + part[s \ {x}]
<1> DEFINE Bad == {s \in SUBSET S : \E x \in s : part[s] # f[x] + part[s \ {x}]}
<1>1. SUFFICES ASSUME Bad # {} PROVE FALSE
  OBVIOUS
<1>2. PICK s \in Bad : \A x \in s : s \ {x} \notin Bad
  <2>1. Bad \in SUBSET SUBSET S
    OBVIOUS
  <2> HIDE DEF Bad
  <2> QED BY <1>1, <2>1, LeastSet
<1>3. PICK x \in s : part[s] # f[x] + part[s \ {x}]
  BY <1>2
<1>4. s \in SUBSET S /\ s # {}
  BY <1>2
<1>5. PICK p \in s : part[s] = f[p] + part[s \ {p}]
  BY <1>4, SumsStep, PickIn
<1>6. x # p
  BY <1>3, <1>5
<1>7. part[s \ {p}] = f[x] + part[(s \ {p}) \ {x}]
  BY <1>2, <1>4, <1>6
<1>8. part[s \ {x}] = f[p] + part[(s \ {x}) \ {p}]
  BY <1>2, <1>4, <1>6
<1>9. (s \ {p}) \ {x} = (s \ {x}) \ {p}
  OBVIOUS
<1>10. f[x] \in Nat /\ f[p] \in Nat /\ part[(s \ {x}) \ {p}] \in Nat
  <2>1. (s \ {x}) \ {p} \in SUBSET S
    BY <1>4
  <2> QED BY <1>4, <2>1, SumsNat
<1>11. \A a, b, c \in Nat : a + (b + c) = b + (a + c)
  OBVIOUS
<1>12. f[p] + (f[x] + part[(s \ {x}) \ {p}]) = f[x] + (f[p] + part[(s \ {x}) \ {p}])
  BY <1>10, <1>11
<1> QED BY <1>3, <1>5, <1>7, <1>8, <1>9, <1>12

\* Functions that agree on a set have the same sum over it.
LEMMA SumsAgree ==
    ASSUME NEW S, IsFiniteSet(S), NEW T, NEW f, NEW g, NEW pf, NEW pg,
           Sums(f, S, pf), Sums(g, T, pg), S \subseteq T, \A x \in S : f[x] = g[x]
    PROVE  pf[S] = pg[S]
<1> DEFINE Bad == {s \in SUBSET S : pf[s] # pg[s]}
<1>1. SUFFICES ASSUME Bad # {} PROVE FALSE
  OBVIOUS
<1>2. PICK s \in Bad : \A x \in s : s \ {x} \notin Bad
  <2>1. Bad \in SUBSET SUBSET S
    OBVIOUS
  <2> HIDE DEF Bad
  <2> QED BY <1>1, <2>1, LeastSet
<1>3. s \in SUBSET S /\ s \in SUBSET T
  BY <1>2
<1>4. s # {}
  BY <1>2, SumsStep
<1>5. Pick(s) \in s
  BY <1>4, PickIn
<1>6. pf[s \ {Pick(s)}] = pg[s \ {Pick(s)}]
  BY <1>2, <1>3, <1>5
<1>7. f[Pick(s)] = g[Pick(s)]
  BY <1>3, <1>5
<1>8. \A r \in SUBSET S : r # {} => pf[r] = f[Pick(r)] + pf[r \ {Pick(r)}]
  BY DEF Sums
<1>9. \A r \in SUBSET T : r # {} => pg[r] = g[Pick(r)] + pg[r \ {Pick(r)}]
  BY DEF Sums
<1> QED BY <1>2, <1>3, <1>4, <1>6, <1>7, <1>8, <1>9

Rest(f, k) == [x \in DOMAIN f \ {k} |-> f[x]]

\* A total is a number, and zero of nothing.
LEMMA TotalNat ==
    ASSUME NEW f, Counts(f)
    PROVE  Total(f) \in Nat
  BY TotalIs, SumsExist, SumsNat DEF Counts

\* The total of an empty table.
LEMMA TotalOfNone ==
    ASSUME NEW f, DOMAIN f = {}
    PROVE  Total(f) = 0
<1>1. Counts(f)
  BY FS_EmptySet DEF Counts
<1> QED BY <1>1, TotalIs, SumsExist, SumsStep

\* One entry is added to the total of the others.
LEMMA TotalSplits ==
    ASSUME NEW f, Counts(f), NEW k \in DOMAIN f
    PROVE  /\ Counts(Rest(f, k))
           /\ Total(f) = f[k] + Total(Rest(f, k))
<1> DEFINE S == DOMAIN f
           r == Rest(f, k)
<1>1. DOMAIN r = S \ {k} /\ \A x \in S \ {k} : r[x] = f[x]
  BY DEF Rest
<1>2. Counts(r)
  BY <1>1, FS_Subset DEF Counts
<1>3. Sums(f, S, PartOf(f)) /\ Sums(r, DOMAIN r, PartOf(r))
  BY <1>2, SumsExist
<1>4. PartOf(f)[S] = f[k] + PartOf(f)[S \ {k}]
  BY <1>3, SumsAnyOrder DEF Counts
<1>5. PartOf(r)[S \ {k}] = PartOf(f)[S \ {k}]
  <2>1. IsFiniteSet(S \ {k}) /\ S \ {k} \subseteq S
    BY <1>1, <1>2 DEF Counts
  <2>2. Sums(r, S \ {k}, PartOf(r))
    BY <1>1, <1>3
  <2> HIDE DEF r
  <2> QED BY <1>1, <1>3, <2>1, <2>2, SumsAgree
<1> QED BY <1>1, <1>2, <1>4, <1>5, TotalIs

\* The total of zeros is zero.
LEMMA TotalOfZeros ==
    ASSUME NEW f, Counts(f), \A x \in DOMAIN f : f[x] = 0
    PROVE  Total(f) = 0
<1> DEFINE S == DOMAIN f
           part == PartOf(f)
           Bad == {s \in SUBSET S : part[s] # 0}
<1>1. Sums(f, S, part)
  BY SumsExist
<1>2. part[{}] = 0
  BY <1>1, SumsStep
<1>3. \A s \in SUBSET S : s # {} => part[s] = f[Pick(s)] + part[s \ {Pick(s)}]
  <2> HIDE DEF S, part
  <2> QED BY <1>1 DEF Sums
<1>4. Bad = {}
  <2>1. SUFFICES ASSUME Bad # {} PROVE FALSE
    OBVIOUS
  <2>2. PICK s \in Bad : \A x \in s : s \ {x} \notin Bad
    <3>1. Bad \in SUBSET SUBSET S /\ IsFiniteSet(S)
      BY DEF Counts
    <3> HIDE DEF Bad, S
    <3> QED BY <2>1, <3>1, LeastSet
  <2>3. s # {} /\ Pick(s) \in s
    BY <1>2, <2>2, PickIn
  <2>4. part[s] = f[Pick(s)] + part[s \ {Pick(s)}]
    BY <1>3, <2>2, <2>3
  <2>5. f[Pick(s)] = 0
    BY <2>2, <2>3
  <2>6. part[s \ {Pick(s)}] = 0
    BY <2>2, <2>3
  <2> QED BY <2>2, <2>4, <2>5, <2>6
<1>5. part[S] = 0
  BY <1>4
<1> QED BY <1>5, TotalIs

\* Two tables that differ by one at one key.
LEMMA TotalGrows ==
    ASSUME NEW f, NEW g, Counts(f), Counts(g), NEW k \in DOMAIN f, DOMAIN g = DOMAIN f,
           g[k] = f[k] + 1, \A x \in DOMAIN f \ {k} : g[x] = f[x]
    PROVE  Total(g) = Total(f) + 1
<1>1. Rest(f, k) = Rest(g, k)
  BY DEF Rest
<1>2. Total(f) = f[k] + Total(Rest(f, k)) /\ Total(g) = g[k] + Total(Rest(f, k))
  BY <1>1, TotalSplits
<1>3. Total(Rest(f, k)) \in Nat /\ f[k] \in Nat
  BY TotalSplits, TotalNat DEF Counts
<1> QED BY <1>2, <1>3

\* A table that has one more entry, of one.
LEMMA TotalGains ==
    ASSUME NEW f, NEW g, Counts(f), IsFiniteSet(DOMAIN g), NEW k, k \notin DOMAIN f,
           f = Rest(g, k), DOMAIN g = DOMAIN f \cup {k}, g[k] = 1
    PROVE  Total(g) = Total(f) + 1
<1>1. Counts(g)
  BY DEF Counts, Rest
<1>2. Total(g) = g[k] + Total(f)
  BY <1>1, TotalSplits
<1> QED BY <1>2, TotalNat

-----------------------------------------------------------------------------
(* The books: what was granted is what the buyer has.                      *)

\* No request fails and the administrator does nothing; and if the process may crash
\* nobody signs up, for what a sign-up has taken and not yet given is then lost.
Serial(b) == /\ b.failures = 0 /\ b.admin = 0
             /\ b.crashes = 0 \/ b.users <= b.existing

InTurn == \A b \in Budgets : b.overlap \/ Serial(b)

Redeeming == {"use", "email", "expiry"}

NoLoss ==
    budget.crashes > 0 =>
        budget.users <= made.users /\ \A g \in Workers : worker[g].pc \notin Redeeming

\* New users and codes are new, and only a user Jellyfin knows has an expiry.
Numbered ==
    /\ jellyfin \subseteq 1..made.users
    /\ DOMAIN expiries \subseteq jellyfin
    /\ DOMAIN invites \subseteq 1..made.codes

\* Who redeems an invite has it until it is used and a user without an expiry; who
\* credits has read the expiry that is stored.
InHand ==
    \A g \in Workers :
        /\ worker[g].pc \in {"signup", "use"} => worker[g].code \in DOMAIN invites
        /\ worker[g].pc \in Redeeming => worker[g].user \notin DOMAIN expiries
        /\ worker[g].pc = "credit" => worker[g].exp = ExpiryOf(worker[g].user)

\* The period of an invite that is used up while the user has no expiry yet.
Owing == \E g \in Workers : worker[g].pc \in {"email", "expiry"}
Owed == IF Owing THEN 1 ELSE 0

Left == [u \in DOMAIN expiries |-> expiries[u].left]

Books == Total(Left) + Cardinality(DOMAIN invites) + Owed = Total(granted)

Kept == Peaceful /\ NoLoss /\ Numbered /\ InHand

SInv == budget.overlap \/ (Kept /\ Books)

\* Who may crash does not sign up.
LEMMA NoLossStep ==
    ASSUME IInv, Peaceful, NoLoss, Next
    PROVE  NoLoss'
<1>a. /\ worker \in [Workers -> Worker] /\ rows \in [Txn -> Row] /\ granted \in [Txn -> Nat]
      /\ jellyfin \subseteq User /\ None \notin User /\ User = 1..MaxUsers /\ Code = 1..MaxCodes
      /\ MaxUsers \in Nat /\ MaxCodes \in Nat
      /\ made \in [users : 0..MaxUsers, codes : 0..MaxCodes]
  BY FulfillmentAssumption DEF IInv, TypeOK, User, None, Code
<1>b. \A g \in Workers : worker[g].pc \in WithUser => worker[g].user \in jellyfin
  BY <1>a DEF IInv, WorkersOK, WorkerOK, Peaceful, Known
<1>c. /\ budget.failures = 0 /\ budget.admin = 0 /\ emails \subseteq jellyfin
      /\ budget.crashes \in Nat /\ budget.users \in Nat
      /\ \A g \in Workers : worker[g].pc \notin {"dropEmail", "dropExpiry", "relink"}
      /\ \A t \in Txn : rows[t].user \in jellyfin \cup {None}
  BY DEF IInv, TypeOK, Budget, Peaceful, Known
<1>1. CASE Pays
  BY <1>1, <1>a, <1>c DEF Pays, NoLoss, Redeeming
<1>2. CASE DeleteUser
  BY <1>2, <1>a, <1>c DEF DeleteUser, Admin, NoLoss, Redeeming
<1>3. CASE DisableUser
  BY <1>3, <1>a, <1>c DEF DisableUser, Admin, NoLoss, Redeeming
<1>4. CASE ExtendExpiry
  BY <1>4, <1>a, <1>c DEF ExtendExpiry, Admin, NoLoss, Redeeming
<1>5. CASE ClearEmail
  BY <1>5, <1>a, <1>c DEF ClearEmail, NoLoss, Redeeming
<1>6. CASE ClearExpiry
  BY <1>6, <1>a, <1>c DEF ClearExpiry, NoLoss, Redeeming
<1>7. CASE Crash
  BY <1>7, <1>a, <1>c DEF Crash, Idle, NoLoss, Redeeming
<1>8. ASSUME NEW g \in Workers, Deliver(g) PROVE NoLoss'
  BY <1>8, <1>a, <1>c DEF Deliver, Start, Idle, NoLoss, Redeeming
<1>9. ASSUME NEW g \in Workers, Reconcile(g) PROVE NoLoss'
  BY <1>9, <1>a, <1>c DEF Reconcile, Start, Idle, NoLoss, Redeeming
<1>10. ASSUME NEW g \in Workers, Repair(g) PROVE NoLoss'
  BY <1>10, <1>a, <1>c DEF Repair, Start, Idle, NoLoss, Redeeming
<1>11. ASSUME NEW g \in Workers, SignUp(g) PROVE NoLoss'
  BY <1>11, <1>a, <1>c DEF SignUp, Start, Idle, NoLoss, Redeeming
<1>12. ASSUME NEW g \in Workers, ReadRow(g) PROVE NoLoss'
  BY <1>12, <1>a, <1>c DEF ReadRow, RowStep, NoLoss, Redeeming
<1>13. ASSUME NEW g \in Workers, WriteRow(g) PROVE NoLoss'
  BY <1>13, <1>a, <1>c DEF WriteRow, Idle, RowStep, NoLoss, Redeeming
<1>14. ASSUME NEW g \in Workers, Find(g) PROVE NoLoss'
  <2>1. made' = made /\ budget' = budget
    BY <1>14 DEF Find
  <2> QED BY <1>14, <1>a, <2>1, FindSays DEF NoLoss, Redeeming
<1>15. ASSUME NEW g \in Workers, Lookup(g) PROVE NoLoss'
  <2>1. PICK pc \in {"label", "dropEmail"} : worker' = [worker EXCEPT ![g].pc = pc]
    BY <1>15 DEF Lookup, Goto
  <2>2. made' = made /\ budget' = budget
    BY <1>15, <1>c DEF Lookup
  <2> QED BY <1>a, <2>1, <2>2 DEF NoLoss, Redeeming
<1>16. ASSUME NEW g \in Workers, DropEmail(g) PROVE NoLoss'
  BY <1>16, <1>a, <1>c DEF DropEmail, Goto, NoLoss, Redeeming
<1>17. ASSUME NEW g \in Workers, DropExpiry(g) PROVE NoLoss'
  BY <1>17, <1>a, <1>c DEF DropExpiry, NoLoss, Redeeming
<1>18. ASSUME NEW g \in Workers, Label(g) PROVE NoLoss'
  BY <1>18, <1>a, <1>c DEF Label, Goto, NoLoss, Redeeming
<1>19. ASSUME NEW g \in Workers, ReadExpiry(g) PROVE NoLoss'
  BY <1>19, <1>a, <1>c DEF ReadExpiry, NoLoss, Redeeming
<1>20. ASSUME NEW g \in Workers, Credit(g) PROVE NoLoss'
  BY <1>20, <1>a, <1>c DEF Credit, Put, NoLoss, Redeeming
<1>21. ASSUME NEW g \in Workers, Enable(g) PROVE NoLoss'
  BY <1>21, <1>a, <1>c DEF Enable, Goto, NoLoss, Redeeming
<1>22. ASSUME NEW g \in Workers, SearchInvite(g) PROVE NoLoss'
  <2>1. PICK c \in DOMAIN invites \cup {worker[g].code}, pc \in {"create", "mark"} :
            worker' = [worker EXCEPT ![g].pc = pc] \/ worker' = [worker EXCEPT ![g].pc = pc, ![g].code = c]
    BY <1>22 DEF SearchInvite, Goto, PurchasedInvites
  <2>2. made' = made /\ budget' = budget
    BY <1>22 DEF SearchInvite
  <2>3. CASE worker' = [worker EXCEPT ![g].pc = pc]
    BY <1>a, <2>2, <2>3 DEF NoLoss, Redeeming
  <2>4. CASE worker' = [worker EXCEPT ![g].pc = pc, ![g].code = c]
    BY <1>a, <2>2, <2>4 DEF NoLoss, Redeeming
  <2> QED BY <2>1, <2>3, <2>4
<1>23. ASSUME NEW g \in Workers, CreateInvite(g) PROVE NoLoss'
  BY <1>23, <1>a, <1>c DEF CreateInvite, Put, NoLoss, Redeeming
<1>24. ASSUME NEW g \in Workers, CreateUser(g) PROVE NoLoss'
  BY <1>24, <1>a, <1>c DEF CreateUser, NoLoss, Redeeming
<1>25. ASSUME NEW g \in Workers, UseInvite(g) PROVE NoLoss'
  BY <1>25, <1>a, <1>c DEF UseInvite, Goto, Drop, NoLoss, Redeeming
<1>26. ASSUME NEW g \in Workers, StoreEmail(g) PROVE NoLoss'
  BY <1>26, <1>a, <1>c DEF StoreEmail, Goto, NoLoss, Redeeming
<1>27. ASSUME NEW g \in Workers, StoreExpiry(g) PROVE NoLoss'
  BY <1>27, <1>a, <1>c DEF StoreExpiry, Put, Idle, NoLoss, Redeeming
<1> QED
  BY <1>1, <1>2, <1>3, <1>4, <1>5, <1>6, <1>7, <1>8, <1>9, <1>10, <1>11, <1>12, <1>13, <1>14,
     <1>15, <1>16, <1>17, <1>18, <1>19, <1>20, <1>21, <1>22, <1>23, <1>24, <1>25, <1>26, <1>27
     DEF Next, Others, Arrival, Fulfil, Redeem

\* Users and codes stay numbered in the order they are made.
LEMMA NumberedStep ==
    ASSUME IInv, Peaceful, Numbered, Next
    PROVE  Numbered'
<1>a. /\ worker \in [Workers -> Worker] /\ rows \in [Txn -> Row] /\ granted \in [Txn -> Nat]
      /\ jellyfin \subseteq User /\ None \notin User /\ User = 1..MaxUsers /\ Code = 1..MaxCodes
      /\ MaxUsers \in Nat /\ MaxCodes \in Nat
      /\ made \in [users : 0..MaxUsers, codes : 0..MaxCodes]
  BY FulfillmentAssumption DEF IInv, TypeOK, User, None, Code
<1>b. \A g \in Workers : worker[g].pc \in WithUser => worker[g].user \in jellyfin
  BY <1>a DEF IInv, WorkersOK, WorkerOK, Peaceful, Known
<1>c. /\ budget.failures = 0 /\ budget.admin = 0 /\ emails \subseteq jellyfin
      /\ budget.crashes \in Nat /\ budget.users \in Nat
      /\ \A g \in Workers : worker[g].pc \notin {"dropEmail", "dropExpiry", "relink"}
      /\ \A t \in Txn : rows[t].user \in jellyfin \cup {None}
  BY DEF IInv, TypeOK, Budget, Peaceful, Known
<1>1. CASE Pays
  BY <1>1, <1>a, <1>b, <1>c DEF Pays, Numbered, store, WithUser
<1>2. CASE DeleteUser
  BY <1>2, <1>a, <1>b, <1>c DEF DeleteUser, Admin, Numbered, store, WithUser
<1>3. CASE DisableUser
  BY <1>3, <1>a, <1>b, <1>c DEF DisableUser, Admin, Numbered, store, WithUser
<1>4. CASE ExtendExpiry
  BY <1>4, <1>a, <1>b, <1>c DEF ExtendExpiry, Admin, Numbered, store, WithUser
<1>5. CASE ClearEmail
  BY <1>5, <1>a, <1>b, <1>c DEF ClearEmail, Numbered, store, WithUser
<1>6. CASE ClearExpiry
  BY <1>6, <1>a, <1>b, <1>c DEF ClearExpiry, Numbered, store, WithUser
<1>7. CASE Crash
  BY <1>7, <1>a, <1>b, <1>c DEF Crash, Idle, Numbered, store, WithUser
<1>8. ASSUME NEW g \in Workers, Deliver(g) PROVE Numbered'
  BY <1>8, <1>a, <1>b, <1>c DEF Deliver, Start, Idle, Numbered, store, WithUser
<1>9. ASSUME NEW g \in Workers, Reconcile(g) PROVE Numbered'
  BY <1>9, <1>a, <1>b, <1>c DEF Reconcile, Start, Idle, Numbered, store, WithUser
<1>10. ASSUME NEW g \in Workers, Repair(g) PROVE Numbered'
  BY <1>10, <1>a, <1>b, <1>c DEF Repair, Start, Idle, Numbered, store, WithUser
<1>11. ASSUME NEW g \in Workers, SignUp(g) PROVE Numbered'
  BY <1>11, <1>a, <1>b, <1>c DEF SignUp, Start, Idle, Numbered, store, WithUser
<1>12. ASSUME NEW g \in Workers, ReadRow(g) PROVE Numbered'
  BY <1>12, <1>a, <1>b, <1>c DEF ReadRow, RowStep, Numbered, store, WithUser
<1>13. ASSUME NEW g \in Workers, WriteRow(g) PROVE Numbered'
  BY <1>13, <1>a, <1>b, <1>c DEF WriteRow, Idle, RowStep, Numbered, store, WithUser
<1>14. ASSUME NEW g \in Workers, Find(g) PROVE Numbered'
  BY <1>14, <1>a, <1>b, <1>c DEF Find, Numbered, store, WithUser
<1>15. ASSUME NEW g \in Workers, Lookup(g) PROVE Numbered'
  BY <1>15, <1>a, <1>b, <1>c DEF Lookup, Goto, Numbered, store, WithUser
<1>16. ASSUME NEW g \in Workers, DropEmail(g) PROVE Numbered'
  BY <1>16, <1>a, <1>b, <1>c DEF DropEmail, Goto, Numbered, store, WithUser
<1>17. ASSUME NEW g \in Workers, DropExpiry(g) PROVE Numbered'
  BY <1>17, <1>a, <1>b, <1>c DEF DropExpiry, Numbered, store, WithUser
<1>18. ASSUME NEW g \in Workers, Label(g) PROVE Numbered'
  BY <1>18, <1>a, <1>b, <1>c DEF Label, Goto, Numbered, store, WithUser
<1>19. ASSUME NEW g \in Workers, ReadExpiry(g) PROVE Numbered'
  BY <1>19, <1>a, <1>b, <1>c DEF ReadExpiry, Numbered, store, WithUser
<1>20. ASSUME NEW g \in Workers, Credit(g) PROVE Numbered'
  BY <1>20, <1>a, <1>b, <1>c DEF Credit, Put, Numbered, store, WithUser
<1>21. ASSUME NEW g \in Workers, Enable(g) PROVE Numbered'
  BY <1>21, <1>a, <1>b, <1>c DEF Enable, Goto, Numbered, store, WithUser
<1>22. ASSUME NEW g \in Workers, SearchInvite(g) PROVE Numbered'
  BY <1>22, <1>a, <1>b, <1>c DEF SearchInvite, Goto, Numbered, store, WithUser
<1>23. ASSUME NEW g \in Workers, CreateInvite(g) PROVE Numbered'
  BY <1>23, <1>a, <1>b, <1>c DEF CreateInvite, Put, Numbered, store, WithUser
<1>24. ASSUME NEW g \in Workers, CreateUser(g) PROVE Numbered'
  BY <1>24, <1>a, <1>b, <1>c DEF CreateUser, Numbered, store, WithUser
<1>25. ASSUME NEW g \in Workers, UseInvite(g) PROVE Numbered'
  BY <1>25, <1>a, <1>b, <1>c DEF UseInvite, Goto, Drop, Numbered, store, WithUser
<1>26. ASSUME NEW g \in Workers, StoreEmail(g) PROVE Numbered'
  BY <1>26, <1>a, <1>b, <1>c DEF StoreEmail, Goto, Numbered, store, WithUser
<1>27. ASSUME NEW g \in Workers, StoreExpiry(g) PROVE Numbered'
  BY <1>27, <1>a, <1>b, <1>c DEF StoreExpiry, Put, Idle, Numbered, store, WithUser
<1> QED
  BY <1>1, <1>2, <1>3, <1>4, <1>5, <1>6, <1>7, <1>8, <1>9, <1>10, <1>11, <1>12, <1>13, <1>14,
     <1>15, <1>16, <1>17, <1>18, <1>19, <1>20, <1>21, <1>22, <1>23, <1>24, <1>25, <1>26, <1>27
     DEF Next, Others, Arrival, Fulfil, Redeem

\* What a handler read or looked up is still so when it acts.
LEMMA InHandStep ==
    ASSUME IInv, Peaceful, Numbered, InHand, Next
    PROVE  InHand'
<1>a. /\ worker \in [Workers -> Worker] /\ rows \in [Txn -> Row] /\ granted \in [Txn -> Nat]
      /\ jellyfin \subseteq User /\ None \notin User /\ User = 1..MaxUsers /\ Code = 1..MaxCodes
      /\ MaxUsers \in Nat /\ MaxCodes \in Nat
      /\ made \in [users : 0..MaxUsers, codes : 0..MaxCodes]
  BY FulfillmentAssumption DEF IInv, TypeOK, User, None, Code
<1>b. \A g \in Workers : worker[g].pc \in WithUser => worker[g].user \in jellyfin
  BY <1>a DEF IInv, WorkersOK, WorkerOK, Peaceful, Known
<1>c. /\ budget.failures = 0 /\ budget.admin = 0 /\ emails \subseteq jellyfin
      /\ budget.crashes \in Nat /\ budget.users \in Nat
      /\ \A g \in Workers : worker[g].pc \notin {"dropEmail", "dropExpiry", "relink"}
      /\ \A t \in Txn : rows[t].user \in jellyfin \cup {None}
  BY DEF IInv, TypeOK, Budget, Peaceful, Known
<1>1. CASE Pays
  BY <1>1, <1>a, <1>b, <1>c DEF Pays, InHand, Redeeming, Numbered, store, Peaceful, Alone,
     ExpiryOf, WithUser
<1>2. CASE DeleteUser
  BY <1>2, <1>a, <1>b, <1>c DEF DeleteUser, Admin, InHand, Redeeming, Numbered, store,
     Peaceful, Alone, ExpiryOf, WithUser
<1>3. CASE DisableUser
  BY <1>3, <1>a, <1>b, <1>c DEF DisableUser, Admin, InHand, Redeeming, Numbered, store,
     Peaceful, Alone, ExpiryOf, WithUser
<1>4. CASE ExtendExpiry
  BY <1>4, <1>a, <1>b, <1>c DEF ExtendExpiry, Admin, InHand, Redeeming, Numbered, store,
     Peaceful, Alone, ExpiryOf, WithUser
<1>5. CASE ClearEmail
  BY <1>5, <1>a, <1>b, <1>c DEF ClearEmail, InHand, Redeeming, Numbered, store, Peaceful,
     Alone, ExpiryOf, WithUser
<1>6. CASE ClearExpiry
  BY <1>6, <1>a, <1>b, <1>c DEF ClearExpiry, InHand, Redeeming, Numbered, store, Peaceful,
     Alone, ExpiryOf, WithUser
<1>7. CASE Crash
  BY <1>7, <1>a, <1>b, <1>c DEF Crash, Idle, InHand, Redeeming, Numbered, store, Peaceful,
     Alone, ExpiryOf, WithUser
<1>8. ASSUME NEW g \in Workers, Deliver(g) PROVE InHand'
  BY <1>8, <1>a, <1>b, <1>c DEF Deliver, Start, Idle, InHand, Redeeming, Numbered, store,
     Peaceful, Alone, ExpiryOf, WithUser
<1>9. ASSUME NEW g \in Workers, Reconcile(g) PROVE InHand'
  BY <1>9, <1>a, <1>b, <1>c DEF Reconcile, Start, Idle, InHand, Redeeming, Numbered, store,
     Peaceful, Alone, ExpiryOf, WithUser
<1>10. ASSUME NEW g \in Workers, Repair(g) PROVE InHand'
  BY <1>10, <1>a, <1>b, <1>c DEF Repair, Start, Idle, InHand, Redeeming, Numbered, store,
     Peaceful, Alone, ExpiryOf, WithUser
<1>11. ASSUME NEW g \in Workers, SignUp(g) PROVE InHand'
  BY <1>11, <1>a, <1>b, <1>c DEF SignUp, Start, Idle, InHand, Redeeming, Numbered, store,
     Peaceful, Alone, ExpiryOf, WithUser
<1>12. ASSUME NEW g \in Workers, ReadRow(g) PROVE InHand'
  BY <1>12, <1>a, <1>b, <1>c DEF ReadRow, RowStep, InHand, Redeeming, Numbered, store,
     Peaceful, Alone, ExpiryOf, WithUser
<1>13. ASSUME NEW g \in Workers, WriteRow(g) PROVE InHand'
  BY <1>13, <1>a, <1>b, <1>c DEF WriteRow, Idle, RowStep, InHand, Redeeming, Numbered, store,
     Peaceful, Alone, ExpiryOf, WithUser
<1>14. ASSUME NEW g \in Workers, Find(g) PROVE InHand'
  <2>1. UNCHANGED <<expiries, invites>>
    BY <1>14 DEF Find, store
  <2> QED BY <1>14, <1>a, <2>1, FindSays DEF InHand, Redeeming, ExpiryOf
<1>15. ASSUME NEW g \in Workers, Lookup(g) PROVE InHand'
  <2>1. PICK pc \in {"label", "dropEmail"} : worker' = [worker EXCEPT ![g].pc = pc]
    BY <1>15 DEF Lookup, Goto
  <2>2. UNCHANGED <<expiries, invites>>
    BY <1>15 DEF Lookup, store
  <2> QED BY <1>a, <2>1, <2>2 DEF InHand, Redeeming, ExpiryOf
<1>16. ASSUME NEW g \in Workers, DropEmail(g) PROVE InHand'
  BY <1>16, <1>a, <1>b, <1>c DEF DropEmail, Goto, InHand, Redeeming, Numbered, store, Peaceful,
     Alone, ExpiryOf, WithUser
<1>17. ASSUME NEW g \in Workers, DropExpiry(g) PROVE InHand'
  BY <1>17, <1>a, <1>b, <1>c DEF DropExpiry, InHand, Redeeming, Numbered, store, Peaceful,
     Alone, ExpiryOf, WithUser
<1>18. ASSUME NEW g \in Workers, Label(g) PROVE InHand'
  BY <1>18, <1>a, <1>b, <1>c DEF Label, Goto, InHand, Redeeming, Numbered, store, Peaceful,
     Alone, ExpiryOf, WithUser
<1>19. ASSUME NEW g \in Workers, ReadExpiry(g) PROVE InHand'
  BY <1>19, <1>a, <1>b, <1>c DEF ReadExpiry, InHand, Redeeming, Numbered, store, Peaceful,
     Alone, ExpiryOf, WithUser
<1>20. ASSUME NEW g \in Workers, Credit(g) PROVE InHand'
  BY <1>20, <1>a, <1>b, <1>c DEF Credit, Put, InHand, Redeeming, Numbered, store, Peaceful,
     Alone, ExpiryOf, WithUser
<1>21. ASSUME NEW g \in Workers, Enable(g) PROVE InHand'
  BY <1>21, <1>a, <1>b, <1>c DEF Enable, Goto, InHand, Redeeming, Numbered, store, Peaceful,
     Alone, ExpiryOf, WithUser
<1>22. ASSUME NEW g \in Workers, SearchInvite(g) PROVE InHand'
  <2>1. PICK c \in DOMAIN invites \cup {worker[g].code}, pc \in {"create", "mark"} :
            worker' = [worker EXCEPT ![g].pc = pc] \/ worker' = [worker EXCEPT ![g].pc = pc, ![g].code = c]
    BY <1>22 DEF SearchInvite, Goto, PurchasedInvites
  <2>2. UNCHANGED <<expiries, invites>>
    BY <1>22 DEF SearchInvite, store
  <2>3. CASE worker' = [worker EXCEPT ![g].pc = pc]
    BY <1>a, <2>2, <2>3 DEF InHand, Redeeming, ExpiryOf
  <2>4. CASE worker' = [worker EXCEPT ![g].pc = pc, ![g].code = c]
    BY <1>a, <2>2, <2>4 DEF InHand, Redeeming, ExpiryOf
  <2> QED BY <2>1, <2>3, <2>4
<1>23. ASSUME NEW g \in Workers, CreateInvite(g) PROVE InHand'
  BY <1>23, <1>a, <1>b, <1>c DEF CreateInvite, Put, InHand, Redeeming, Numbered, store,
     Peaceful, Alone, ExpiryOf, WithUser
<1>24. ASSUME NEW g \in Workers, CreateUser(g) PROVE InHand'
  BY <1>24, <1>a, <1>b, <1>c DEF CreateUser, InHand, Redeeming, Numbered, store, Peaceful,
     Alone, ExpiryOf, WithUser
<1>25. ASSUME NEW g \in Workers, UseInvite(g) PROVE InHand'
  BY <1>25, <1>a, <1>b, <1>c DEF UseInvite, Goto, Drop, InHand, Redeeming, Numbered, store,
     Peaceful, Alone, ExpiryOf, WithUser
<1>26. ASSUME NEW g \in Workers, StoreEmail(g) PROVE InHand'
  BY <1>26, <1>a, <1>b, <1>c DEF StoreEmail, Goto, InHand, Redeeming, Numbered, store,
     Peaceful, Alone, ExpiryOf, WithUser
<1>27. ASSUME NEW g \in Workers, StoreExpiry(g) PROVE InHand'
  BY <1>27, <1>a, <1>b, <1>c DEF StoreExpiry, Put, Idle, InHand, Redeeming, Numbered, store,
     Peaceful, Alone, ExpiryOf, WithUser
<1> QED
  BY <1>1, <1>2, <1>3, <1>4, <1>5, <1>6, <1>7, <1>8, <1>9, <1>10, <1>11, <1>12, <1>13, <1>14,
     <1>15, <1>16, <1>17, <1>18, <1>19, <1>20, <1>21, <1>22, <1>23, <1>24, <1>25, <1>26, <1>27
     DEF Next, Others, Arrival, Fulfil, Redeem

\* Most steps leave the books alone.
Still == UNCHANGED <<expiries, invites, granted>> /\ (Owing' <=> Owing)

\* Everything that is added up is finite.
LEMMA BooksFinite ==
    ASSUME IInv
    PROVE  Counts(Left) /\ Counts(granted) /\ IsFiniteSet(DOMAIN invites)
<1>1. IsFiniteSet(Txn)
  BY FulfillmentAssumption DEF Txn
<1>2. Counts(granted)
  BY <1>1 DEF Counts, IInv, TypeOK
<1>3. IsFiniteSet(User) /\ IsFiniteSet(Code)
  BY FulfillmentAssumption, FS_Interval DEF User, Code
<1>4. DOMAIN expiries \subseteq User /\ DOMAIN invites \subseteq Code
  BY DEF IInv, TypeOK
<1>5. \A u \in DOMAIN expiries : expiries[u].left \in Nat
  BY DEF IInv, TypeOK, Expiry
<1>6. Counts(Left)
  BY <1>3, <1>4, <1>5, FS_Subset DEF Counts, Left
<1> QED BY <1>2, <1>3, <1>4, <1>6, FS_Subset

\* A grant is counted once.
LEMMA GrantCounts ==
    ASSUME IInv, NEW t \in Txn, Granted(t)
    PROVE  Total(granted') = Total(granted) + 1
<1>1. granted \in [Txn -> Nat] /\ Counts(granted)
  BY BooksFinite DEF IInv, TypeOK
<1>2. /\ DOMAIN granted' = DOMAIN granted /\ t \in DOMAIN granted
      /\ granted'[t] = granted[t] + 1 /\ \A s \in DOMAIN granted \ {t} : granted'[s] = granted[s]
  BY <1>1 DEF Granted
<1>3. Counts(granted')
  BY <1>1, <1>2 DEF Counts
<1> QED BY <1>1, <1>2, <1>3, TotalGrows

\* Crediting adds one period to what is left.
LEMMA CreditCounts ==
    ASSUME IInv, Kept, NEW g \in Workers, Credit(g)
    PROVE  Total(Left') = Total(Left) + 1
<1> DEFINE u == worker[g].user
<1>1. /\ Counts(Left) /\ u \in User /\ worker[g].exp = ExpiryOf(u)
      /\ expiries \in [DOMAIN expiries -> Expiry] /\ worker[g].txn \in Txn
  BY BooksFinite DEF IInv, TypeOK, WorkersOK, WorkerOK, WithUser, Working, Kept, InHand, Credit
<1>2. expiries' = Put(expiries, u, Extended(ExpiryOf(u), worker[g].txn))
  BY <1>1 DEF Credit
<1>3. /\ DOMAIN expiries' = DOMAIN expiries \cup {u}
      /\ expiries'[u].left = ExpiryOf(u).left + 1
      /\ \A x \in DOMAIN expiries \ {u} : expiries'[x] = expiries[x]
  BY <1>2 DEF Put, Extended
<1>4. /\ DOMAIN Left = DOMAIN expiries /\ DOMAIN Left' = DOMAIN expiries \cup {u}
      /\ Left'[u] = ExpiryOf(u).left + 1
      /\ \A x \in DOMAIN Left \ {u} : Left'[x] = Left[x]
  BY <1>3 DEF Left
<1> HIDE DEF u
<1>5. CASE u \in DOMAIN expiries
  <2>1. Left'[u] = Left[u] + 1 /\ Left[u] \in Nat
    BY <1>1, <1>4, <1>5 DEF ExpiryOf, Left, Counts
  <2>2. DOMAIN Left' = DOMAIN Left /\ u \in DOMAIN Left
    BY <1>4, <1>5
  <2>3. Counts(Left')
    BY <1>1, <1>4, <2>1, <2>2 DEF Counts
  <2> HIDE DEF Left
  <2> QED BY <1>1, <1>4, <2>1, <2>2, <2>3, TotalGrows
<1>6. CASE u \notin DOMAIN expiries
  <2>1. Left'[u] = 1
    BY <1>4, <1>6 DEF ExpiryOf, NoExpiry
  <2>2. Left = Rest(Left', u)
    BY <1>4, <1>6 DEF Rest, Left
  <2>3. IsFiniteSet(DOMAIN Left')
    BY <1>1, <1>4, FS_AddElement DEF Counts
  <2> QED BY <1>1, <1>4, <1>6, <2>1, <2>2, <2>3, TotalGains
<1> QED BY <1>5, <1>6

\* A sign-up gives its user one period.
LEMMA SignUpCounts ==
    ASSUME IInv, Kept, NEW g \in Workers, StoreExpiry(g)
    PROVE  Total(Left') = Total(Left) + 1
<1> DEFINE u == worker[g].user
<1>1. Counts(Left) /\ u \notin DOMAIN expiries
  BY BooksFinite DEF Kept, InHand, Redeeming, StoreExpiry
<1>2. expiries' = Put(expiries, u, [left |-> 1, last |-> NoTxn])
  BY DEF StoreExpiry
<1>3. /\ DOMAIN expiries' = DOMAIN expiries \cup {u}
      /\ expiries'[u].left = 1
      /\ \A x \in DOMAIN expiries \ {u} : expiries'[x] = expiries[x]
  BY <1>2 DEF Put
<1>4. /\ DOMAIN Left = DOMAIN expiries /\ DOMAIN Left' = DOMAIN expiries \cup {u}
      /\ Left'[u] = 1
      /\ \A x \in DOMAIN Left \ {u} : Left'[x] = Left[x]
  BY <1>3 DEF Left
<1> HIDE DEF u
<1>5. Left = Rest(Left', u)
  BY <1>1, <1>4 DEF Rest, Left
<1>6. IsFiniteSet(DOMAIN Left')
  BY <1>1, <1>4, FS_AddElement DEF Counts
<1> QED BY <1>1, <1>4, <1>5, <1>6, TotalGains

\* Steps that leave them alone keep them.
LEMMA StillBooks == ASSUME Books, Still PROVE Books'
<1>1. Left' = Left
  BY DEF Still, Left
<1>2. Owed' = Owed
  BY DEF Still, Owed
<1>3. Total(Left') = Total(Left) /\ Total(granted') = Total(granted)
  BY <1>1 DEF Still
<1>4. Cardinality(DOMAIN invites') = Cardinality(DOMAIN invites)
  BY DEF Still
<1> QED BY <1>2, <1>3, <1>4 DEF Books

\* One period is moved, or one is added on both sides.
LEMMA BooksStep ==
    ASSUME IInv, Kept, Books, ~budget.overlap, Next
    PROVE  Books'
<1>a. /\ worker \in [Workers -> Worker] /\ rows \in [Txn -> Row] /\ granted \in [Txn -> Nat]
      /\ jellyfin \subseteq User /\ None \notin User /\ User = 1..MaxUsers /\ Code = 1..MaxCodes
      /\ MaxUsers \in Nat /\ MaxCodes \in Nat
      /\ made \in [users : 0..MaxUsers, codes : 0..MaxCodes]
  BY FulfillmentAssumption DEF IInv, TypeOK, User, None, Code
<1>b. \A g \in Workers : worker[g].pc \in WithUser => worker[g].user \in jellyfin
  BY <1>a DEF IInv, WorkersOK, WorkerOK, Kept, Peaceful, Known
<1>c. /\ budget.failures = 0 /\ budget.admin = 0 /\ emails \subseteq jellyfin
      /\ budget.crashes \in Nat /\ budget.users \in Nat
      /\ \A g \in Workers : worker[g].pc \notin {"dropEmail", "dropExpiry", "relink"}
      /\ \A t \in Txn : rows[t].user \in jellyfin \cup {None}
      /\ DOMAIN expiries \subseteq jellyfin
  BY DEF IInv, TypeOK, Budget, Kept, Peaceful, Known, Numbered
<1>d. /\ Total(Left) \in Nat /\ Total(granted) \in Nat
      /\ IsFiniteSet(DOMAIN invites) /\ Cardinality(DOMAIN invites) \in Nat
  BY BooksFinite, TotalNat, FS_CardinalityType
<1>e. \A g, h \in Workers : worker[g].pc # "idle" /\ worker[h].pc # "idle" => g = h
  BY DEF Kept, Peaceful, Alone
<1>1. CASE Pays
  <2>1. Still
    BY <1>1, <1>a, <1>c DEF Pays, Still, Owing, store
  <2> QED BY <2>1, StillBooks
<1>2. CASE DeleteUser
  <2>1. Still
    BY <1>2, <1>a, <1>c DEF DeleteUser, Admin, Still, Owing, store
  <2> QED BY <2>1, StillBooks
<1>3. CASE DisableUser
  <2>1. Still
    BY <1>3, <1>a, <1>c DEF DisableUser, Admin, Still, Owing, store
  <2> QED BY <2>1, StillBooks
<1>4. CASE ExtendExpiry
  <2> QED BY <1>4, <1>c DEF ExtendExpiry, Admin
<1>5. CASE ClearEmail
  <2>1. Still
    BY <1>5, <1>a, <1>c DEF ClearEmail, Still, Owing, store
  <2> QED BY <2>1, StillBooks
<1>6. CASE ClearExpiry
  <2> QED BY <1>6, <1>c DEF ClearExpiry
<1>7. CASE Crash
  <2>1. \A g \in Workers : worker[g].pc \notin Redeeming
    BY <1>7, <1>c DEF Crash, Kept, NoLoss
  <2>2. Still
    BY <1>7, <2>1 DEF Crash, Idle, Still, Owing, Redeeming, store
  <2> QED BY <2>2, StillBooks
<1>8. ASSUME NEW g \in Workers, Deliver(g) PROVE Books'
  <2>1. Still
    BY <1>8, <1>a, <1>c DEF Deliver, Start, Idle, Still, Owing, store
  <2> QED BY <2>1, StillBooks
<1>9. ASSUME NEW g \in Workers, Reconcile(g) PROVE Books'
  <2>1. Still
    BY <1>9, <1>a, <1>c DEF Reconcile, Start, Idle, Still, Owing, store
  <2> QED BY <2>1, StillBooks
<1>10. ASSUME NEW g \in Workers, Repair(g) PROVE Books'
  <2>1. Still
    BY <1>10, <1>a, <1>c DEF Repair, Start, Idle, Still, Owing, store
  <2> QED BY <2>1, StillBooks
<1>11. ASSUME NEW g \in Workers, SignUp(g) PROVE Books'
  <2>1. Still
    BY <1>11, <1>a, <1>c DEF SignUp, Start, Idle, Still, Owing, store
  <2> QED BY <2>1, StillBooks
<1>12. ASSUME NEW g \in Workers, ReadRow(g) PROVE Books'
  <2>1. Still
    BY <1>12, <1>a, <1>c DEF ReadRow, RowStep, Still, Owing, store
  <2> QED BY <2>1, StillBooks
<1>13. ASSUME NEW g \in Workers, WriteRow(g) PROVE Books'
  <2>1. Still
    BY <1>13, <1>a, <1>c DEF WriteRow, Idle, RowStep, Still, Owing, store
  <2> QED BY <2>1, StillBooks
<1>14. ASSUME NEW g \in Workers, Find(g) PROVE Books'
  <2>1. UNCHANGED <<expiries, invites, granted>>
    BY <1>14 DEF Find, store
  <2>2. worker[g].pc = "find"
    BY <1>14 DEF Find
  <2>3. Still
    BY <1>14, <1>a, <2>1, <2>2, FindSays DEF Still, Owing
  <2> QED BY <2>3, StillBooks
<1>15. ASSUME NEW g \in Workers, Lookup(g) PROVE Books'
  <2>1. PICK pc \in {"label", "dropEmail"} : worker' = [worker EXCEPT ![g].pc = pc]
    BY <1>15 DEF Lookup, Goto
  <2>2. UNCHANGED <<expiries, invites, granted>> /\ worker[g].pc = "lookup"
    BY <1>15 DEF Lookup, store
  <2>3. Still
    BY <1>a, <2>1, <2>2 DEF Still, Owing
  <2> QED BY <2>3, StillBooks
<1>16. ASSUME NEW g \in Workers, DropEmail(g) PROVE Books'
  <2>1. Still
    BY <1>16, <1>a, <1>c DEF DropEmail, Goto, Still, Owing, store
  <2> QED BY <2>1, StillBooks
<1>17. ASSUME NEW g \in Workers, DropExpiry(g) PROVE Books'
  <2> QED BY <1>17, <1>c DEF DropExpiry
<1>18. ASSUME NEW g \in Workers, Label(g) PROVE Books'
  <2>1. Still
    BY <1>18, <1>a, <1>c DEF Label, Goto, Still, Owing, store
  <2> QED BY <2>1, StillBooks
<1>19. ASSUME NEW g \in Workers, ReadExpiry(g) PROVE Books'
  <2>1. Still
    BY <1>19, <1>a, <1>c DEF ReadExpiry, Still, Owing, store
  <2> QED BY <2>1, StillBooks
<1>20. ASSUME NEW g \in Workers, Credit(g) PROVE Books'
  <2>1. Total(Left') = Total(Left) + 1
    BY <1>20, CreditCounts
  <2>2. Total(granted') = Total(granted) + 1
    BY <1>20, GrantCounts DEF Credit, IInv, WorkersOK, WorkerOK, Working
  <2>3. invites' = invites
    BY <1>20 DEF Credit
  <2>4. Owing' <=> Owing
    BY <1>20, <1>a DEF Credit, Owing
  <2>5. Owed' = Owed /\ Owed \in Nat
    BY <2>4 DEF Owed
  <2> QED BY <1>d, <2>1, <2>2, <2>3, <2>5 DEF Books
<1>21. ASSUME NEW g \in Workers, Enable(g) PROVE Books'
  <2>1. Still
    BY <1>21, <1>a, <1>c DEF Enable, Goto, Still, Owing, store
  <2> QED BY <2>1, StillBooks
<1>22. ASSUME NEW g \in Workers, SearchInvite(g) PROVE Books'
  <2>1. PICK c \in DOMAIN invites \cup {worker[g].code}, pc \in {"create", "mark"} :
            worker' = [worker EXCEPT ![g].pc = pc] \/ worker' = [worker EXCEPT ![g].pc = pc, ![g].code = c]
    BY <1>22 DEF SearchInvite, Goto, PurchasedInvites
  <2>2. UNCHANGED <<expiries, invites, granted>> /\ worker[g].pc = "search"
    BY <1>22 DEF SearchInvite, store
  <2>3. CASE worker' = [worker EXCEPT ![g].pc = pc]
    BY <1>a, <2>2, <2>3, StillBooks DEF Still, Owing
  <2>4. CASE worker' = [worker EXCEPT ![g].pc = pc, ![g].code = c]
    <3>1. worker'[g].pc = pc /\ \A h \in Workers \ {g} : worker'[h] = worker[h]
      BY <1>a, <2>4 DEF Worker
    <3>2. Still
      BY <2>2, <3>1 DEF Still, Owing
    <3> QED BY <3>2, StillBooks
  <2> QED BY <2>1, <2>3, <2>4
<1>23. ASSUME NEW g \in Workers, CreateInvite(g) PROVE Books'
  <2>1. Left' = Left
    BY <1>23 DEF CreateInvite, Left
  <2>2. Total(granted') = Total(granted) + 1
    BY <1>23, GrantCounts DEF CreateInvite, IInv, WorkersOK, WorkerOK, Working
  <2>3. /\ DOMAIN invites' = DOMAIN invites \cup {made.codes + 1}
        /\ made.codes + 1 \notin DOMAIN invites
    BY <1>23, <1>a DEF CreateInvite, Put, Kept, Numbered
  <2>4. Cardinality(DOMAIN invites') = Cardinality(DOMAIN invites) + 1
    BY <1>d, <2>3, FS_AddElement
  <2>8. PICK pc \in {"relink", "mark"} :
            worker' = [worker EXCEPT ![g].code = made.codes + 1, ![g].pc = pc]
    BY <1>23 DEF CreateInvite
  <2>9. worker[g].pc = "create"
    BY <1>23 DEF CreateInvite
  <2>5. Owing' <=> Owing
    BY <1>a, <2>8, <2>9 DEF Owing, Worker
  <2>6. Owed' = Owed /\ Owed \in Nat
    BY <2>5 DEF Owed
  <2>7. Total(Left') = Total(Left)
    BY <2>1
  <2> QED BY <1>d, <2>2, <2>4, <2>6, <2>7 DEF Books
<1>24. ASSUME NEW g \in Workers, CreateUser(g) PROVE Books'
  <2>1. Still
    BY <1>24, <1>a, <1>c DEF CreateUser, Still, Owing, store
  <2> QED BY <2>1, StillBooks
<1>25. ASSUME NEW g \in Workers, UseInvite(g) PROVE Books'
  <2>1. Left' = Left /\ granted' = granted
    BY <1>25 DEF UseInvite, Left
  <2>2. /\ DOMAIN invites' = DOMAIN invites \ {worker[g].code}
        /\ worker[g].code \in DOMAIN invites
    BY <1>25, <1>a DEF UseInvite, Drop, Kept, InHand
  <2>3. Cardinality(DOMAIN invites') = Cardinality(DOMAIN invites) - 1
    BY <1>d, <2>2, FS_RemoveElement
  <2>4. ~Owing /\ Owing'
    BY <1>25, <1>a, <1>e DEF UseInvite, Goto, Owing
  <2>5. Owed = 0 /\ Owed' = 1
    BY <2>4 DEF Owed
  <2>6. Total(Left') = Total(Left) /\ Total(granted') = Total(granted)
    BY <2>1
  <2> QED BY <1>d, <2>3, <2>5, <2>6 DEF Books
<1>26. ASSUME NEW g \in Workers, StoreEmail(g) PROVE Books'
  <2>1. Still
    BY <1>26, <1>a, <1>c DEF StoreEmail, Goto, Still, Owing, store
  <2> QED BY <2>1, StillBooks
<1>27. ASSUME NEW g \in Workers, StoreExpiry(g) PROVE Books'
  <2>1. Total(Left') = Total(Left) + 1
    BY <1>27, SignUpCounts
  <2>2. invites' = invites /\ granted' = granted
    BY <1>27 DEF StoreExpiry
  <2>3. Owing /\ ~Owing'
    BY <1>27, <1>a, <1>e DEF StoreExpiry, Idle, Owing
  <2>4. Owed = 1 /\ Owed' = 0
    BY <2>3 DEF Owed
  <2>5. Total(granted') = Total(granted)
    BY <2>2
  <2> QED BY <1>d, <2>1, <2>2, <2>4, <2>5 DEF Books
<1> QED
  BY <1>1, <1>2, <1>3, <1>4, <1>5, <1>6, <1>7, <1>8, <1>9, <1>10, <1>11, <1>12, <1>13, <1>14,
     <1>15, <1>16, <1>17, <1>18, <1>19, <1>20, <1>21, <1>22, <1>23, <1>24, <1>25, <1>26, <1>27
     DEF Next, Others, Arrival, Fulfil, Redeem

\* Nothing is owed at first.
LEMMA SerialStarts ==
    ASSUME InTurn, Init
    PROVE  SInv
<1>1. budget \in Budgets /\ budget \in Budget
  BY BudgetsAssumption DEF Init
<1>2. SUFFICES ASSUME ~budget.overlap PROVE Kept /\ Books
  BY DEF SInv
<1>3. Serial(budget)
  BY <1>1, <1>2 DEF InTurn
<1>4. Peaceful
  BY <1>3 DEF Serial, Init, Peaceful, Alone, Known, Idle, NewRow
<1>5. NoLoss
  BY <1>1, <1>3 DEF Serial, Init, NoLoss, Idle, Redeeming, Budget
<1>6. Numbered /\ InHand
  BY DEF Init, Numbered, InHand, Idle, Redeeming
<1>7. Owed = 0
  BY DEF Init, Owed, Owing, Idle
<1>8. Total(Left) = 0
  <2>1. DOMAIN Left = {}
    BY DEF Init, Left
  <2> QED BY <2>1, TotalOfNone
<1>9. Cardinality(DOMAIN invites) = 0
  <2>1. DOMAIN invites = {}
    BY DEF Init
  <2> QED BY <2>1, FS_EmptySet
<1>10. Total(granted) = 0
  <2>1. Counts(granted)
    BY BooksFinite, Initially
  <2>2. \A t \in DOMAIN granted : granted[t] = 0
    BY DEF Init
  <2> QED BY <2>1, <2>2, TotalOfZeros
<1> QED BY <1>4, <1>5, <1>6, <1>7, <1>8, <1>9, <1>10 DEF Kept, Books

\* Every step keeps the books.
LEMMA SerialInductive == IInv /\ SInv /\ [Next]_vars => SInv'
<1> SUFFICES ASSUME IInv, SInv, [Next]_vars PROVE SInv'
  OBVIOUS
<1>1. CASE UNCHANGED vars
  <2>1. Left' = Left /\ UNCHANGED <<granted, invites, expiries>>
    BY <1>1 DEF vars, store, Left
  <2>2. (Kept <=> Kept') /\ (Owing <=> Owing') /\ budget' = budget
    BY <1>1 DEF vars, store, Kept, Peaceful, Alone, Known, NoLoss, Numbered, InHand, Owing,
       ExpiryOf
  <2>3. Still
    BY <2>1, <2>2 DEF Still
  <2> QED BY <2>2, <2>3, StillBooks DEF SInv
<1>2. CASE Next /\ budget.overlap
  BY <1>2, BudgetSpent DEF SInv, Spends
<1>3. CASE Next /\ ~budget.overlap
  <2>1. Kept /\ Books
    BY <1>3 DEF SInv
  <2>2. Peaceful'
    BY <1>3, <2>1, BudgetSpent, AloneStep, KnownStep DEF Kept, Peaceful, Spends
  <2>3. Kept'
    BY <1>3, <2>1, <2>2, NoLossStep, NumberedStep, InHandStep DEF Kept
  <2>4. Books'
    BY <1>3, <2>1, BooksStep
  <2> QED BY <2>3, <2>4 DEF SInv
<1> QED BY <1>1, <1>2, <1>3

\* With handlers that run one after the other no period is lost or made up, however often
\* a payment is reported: what is left on the expiries (extendPaidUserExpiry, the sign-up)
\* and the invites not redeemed are what was granted, for any number of payments, users
\* and invites.
THEOREM AccessIsAccounted ==
    ASSUME InTurn
    PROVE  Spec => []AccessAddsUp
<1>1. Init => SInv
  BY SerialStarts
<1>2. IInv /\ SInv => AccessAddsUp
  <2>1. SUFFICES ASSUME IInv, Kept, Books, \A g \in Workers : worker[g].pc = "idle"
                 PROVE  AccessAddsUp
    BY DEF SInv, AccessAddsUp
  <2>2. Owed = 0
    BY <2>1 DEF Owed, Owing
  <2>3. Total(Left) \in Nat /\ Cardinality(DOMAIN invites) \in Nat
    BY <2>1, BooksFinite, TotalNat, FS_CardinalityType
  <2>4. Total(Left) + Cardinality(DOMAIN invites) = Total(granted)
    BY <2>1, <2>2, <2>3 DEF Books
  <2> QED BY <2>4 DEF AccessAddsUp, Left
<1> QED BY <1>1, <1>2, Invariance, SerialInductive, PTL DEF Spec

=============================================================================
