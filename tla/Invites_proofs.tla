--------------------------- MODULE Invites_proofs ---------------------------
(***************************************************************************)
(* Whoever is let in on a payment made it, for any number of browsers,     *)
(* handlers, payments, users, edits, deletions and crashes, with and       *)
(* without email confirmation; a payment whose event arrived is accounted  *)
(* for; and, with handlers one after the other, the invite's limit holds,  *)
(* each use is paid for, and a paid invite is not lost.                    *)
(***************************************************************************)
EXTENDS Invites, FiniteSetTheorems, TLAPS

-----------------------------------------------------------------------------
(* The inductive invariant.                                                *)

\* LockedToPayer, of a user let in by b on the payment claim (mode m).
Justified(claim, invited, b, m, own, done) ==
    claim # None \/ (Priced /\ invited /\ ~m.confirm) => claim \in done /\ own[claim] = b

\* An invite, stored or copied, carries a payment Stripe has received.
CopyOK(inv, done) == inv.paidBy \in done \cup {None}

\* A request carries the cookie of its own browser, and what has passed the check
\* of the lock is justified before the user exists.
WorkerOK(k, m, n, own, done) ==
    /\ CopyOK(k.copy, done)
    /\ k.pc \in {"unlock", "mark"} => k.payment \in done
    /\ k.pc \in {"authorize", "create"} => k.by \in Browsers
    /\ k.pc = "authorize" /\ k.payment # None => k.payment \in 1..n /\ own[k.payment] = k.by
    /\ k.pc = "create" => Justified(k.copy.paidBy, k.copy.there, k.by, m, own, done)

StoredOK == invite \in Invite /\ CopyOK(invite, settled)

\* Only opened checkouts are paid, and a cookie belongs to the browser that opened it.
MoneyOK ==
    /\ opened \in 0..MaxPayments
    /\ opened # 0 => Priced
    /\ settled \subseteq 1..opened
    /\ buyer \in [Payment -> Browsers \cup {NoOne}]
    /\ cookie \in [Browsers -> Payment \cup {None}]
    /\ \A b \in Browsers : cookie[b] # None => cookie[b] \in 1..opened /\ buyer[cookie[b]] = b

RestOK ==
    /\ late \in BOOLEAN
    /\ fulfilled \subseteq Payment /\ review \subseteq Payment
    /\ events \in [Payment -> 0..MaxEvents] /\ checks \in [Payment -> 0..MaxReconciles]
    /\ keys \subseteq Browsers
    /\ keys # {} => mode.confirm
    /\ budget \in [edits : 0..MaxEdits, deletes : 0..MaxDeletes, crashes : Nat]

UsersOK ==
    /\ users \subseteq User /\ IsFiniteSet(users)
    /\ \A u \in users : Justified(u.claim, u.invited, u.by, mode, buyer, settled)

WorkersOK ==
    /\ worker \in [Workers -> Worker]
    /\ \A g \in Workers : WorkerOK(worker[g], mode, opened, buyer, settled)

IInv == mode \in Modes /\ StoredOK /\ MoneyOK /\ RestOK /\ UsersOK /\ WorkersOK

-----------------------------------------------------------------------------
(* What the invariant is for.                                              *)

\* The invariant implies the type invariant.
LEMMA Typed == IInv => TypeOK
<1>1. IInv => mode \in Modes /\ invite \in Invite
  BY DEF IInv, StoredOK
<1>2. IInv => /\ opened \in 0..MaxPayments /\ settled \subseteq Payment
              /\ buyer \in [Payment -> Browsers \cup {NoOne}]
              /\ cookie \in [Browsers -> Payment \cup {None}]
  BY InvitesAssumption DEF IInv, MoneyOK, Payment
<1>3. IInv => /\ late \in BOOLEAN /\ keys \subseteq Browsers
              /\ fulfilled \subseteq Payment /\ review \subseteq Payment
              /\ events \in [Payment -> 0..MaxEvents] /\ checks \in [Payment -> 0..MaxReconciles]
              /\ budget \in [edits : 0..MaxEdits, deletes : 0..MaxDeletes, crashes : Nat]
  BY DEF IInv, RestOK
<1>4. IInv => users \subseteq User /\ worker \in [Workers -> Worker]
  BY DEF IInv, UsersOK, WorkersOK
<1>5. QED
  BY <1>1, <1>2, <1>3, <1>4 DEF TypeOK

\* The invariant implies that users are locked to their payments.
LEMMA Locked == IInv => LockedToPayer
BY DEF IInv, UsersOK, Justified, LockedToPayer

\* Received payments are payments.
LEMMA SettledOK == IInv => settled \subseteq Payment
BY InvitesAssumption DEF IInv, MoneyOK, Payment

\* Counting one more, below the bound.
LEMMA CountOK ==
    ASSUME NEW n \in Nat, NEW f \in [Payment -> 0..n], NEW p \in Payment, f[p] < n
    PROVE  [f EXCEPT ![p] = @ + 1] \in [Payment -> 0..n]
OBVIOUS

-----------------------------------------------------------------------------
(* What the steps of others leave alone.                                   *)

\* More checkouts are opened and paid, and no opened one changes hands.
Grows(n, later, own, owns, done, dones) ==
    /\ n \in Nat /\ later \in Nat /\ n <= later
    /\ done \subseteq 1..n /\ done \subseteq dones
    /\ \A p \in 1..n : owns[p] = own[p]

\* What is justified stays justified.
LEMMA JustifiedKept ==
    ASSUME NEW claim, NEW invited, NEW b, NEW m, NEW n, NEW later, NEW own, NEW owns,
           NEW done, NEW dones, Grows(n, later, own, owns, done, dones),
           Justified(claim, invited, b, m, own, done)
    PROVE  Justified(claim, invited, b, m, owns, dones)
BY DEF Grows, Justified

\* So does a worker.
LEMMA WorkerKept ==
    ASSUME NEW k \in Worker, NEW m, NEW n, NEW later, NEW own, NEW owns, NEW done, NEW dones,
           Grows(n, later, own, owns, done, dones), WorkerOK(k, m, n, own, done)
    PROVE  WorkerOK(k, m, later, owns, dones)
<1>1. CopyOK(k.copy, dones) /\ (k.pc \in {"unlock", "mark"} => k.payment \in dones)
      /\ (k.pc \in {"authorize", "create"} => k.by \in Browsers)
  BY DEF Grows, WorkerOK, CopyOK
<1>2. k.pc = "authorize" /\ k.payment # None => k.payment \in 1..later /\ owns[k.payment] = k.by
  BY DEF Grows, WorkerOK
<1>3. k.pc = "create" => Justified(k.copy.paidBy, k.copy.there, k.by, m, owns, dones)
  BY JustifiedKept DEF WorkerOK
<1> QED BY <1>1, <1>2, <1>3 DEF WorkerOK

\* An idle worker needs no justification.
LEMMA IdleOK == Idle \in Worker /\ \A m, n, own, done : WorkerOK(Idle, m, n, own, done)
BY DEF Idle, Gone, Worker, Step, Invite, None, WorkerOK, CopyOK

\* The deleted invite is an invite without a payment.
LEMMA GoneOK == Gone \in Invite /\ \A done : CopyOK(Gone, done)
BY DEF Gone, Invite, None, CopyOK

\* A step that touches neither checkouts nor payments and at most one worker, whose
\* new state is justified.
LEMMA WorkerStep ==
    ASSUME IInv, NEW g \in Workers, NEW k \in Worker,
           worker' = [worker EXCEPT ![g] = k], WorkerOK(k, mode, opened, buyer, settled),
           UNCHANGED <<mode, opened, buyer, cookie, settled>>,
           StoredOK', RestOK', UsersOK'
    PROVE  IInv'
<1>1. worker' \in [Workers -> Worker]
  BY DEF IInv, WorkersOK
<1>2. ASSUME NEW h \in Workers PROVE WorkerOK(worker'[h], mode', opened', buyer', settled')
  <2>1. CASE h = g BY <2>1 DEF IInv, WorkersOK
  <2>2. CASE h # g BY <2>2 DEF IInv, WorkersOK
  <2> QED BY <2>1, <2>2
<1>3. WorkersOK'
  BY <1>1, <1>2 DEF WorkersOK
<1>4. MoneyOK'
  BY DEF IInv, MoneyOK
<1> QED BY <1>3, <1>4 DEF IInv

-----------------------------------------------------------------------------
(* The invariant is inductive.                                             *)

\* Nobody has paid or been let in initially.
LEMMA Initially == Init => IInv
<1> SUFFICES ASSUME Init PROVE IInv
  OBVIOUS
<1>1. mode \in Modes /\ mode.uses \in Nat /\ mode.crashes \in Nat
  BY InvitesAssumption DEF Init
<1>2. StoredOK /\ MoneyOK
  BY <1>1, InvitesAssumption DEF Init, StoredOK, MoneyOK, Invite, CopyOK, None
<1>3. RestOK
  <2>1. {MaxEvents, MaxReconciles, MaxEdits, MaxDeletes} \subseteq Nat
    BY InvitesAssumption
  <2>2. budget \in [edits : 0..MaxEdits, deletes : 0..MaxDeletes, crashes : Nat]
    BY <1>1, <2>1 DEF Init
  <2>3. events \in [Payment -> 0..MaxEvents] /\ checks \in [Payment -> 0..MaxReconciles]
    BY <2>1 DEF Init
  <2> QED BY <2>2, <2>3 DEF Init, RestOK
<1>4. UsersOK
  BY FS_EmptySet DEF Init, UsersOK
<1>5. WorkersOK
  BY IdleOK DEF Init, WorkersOK
<1> QED BY <1>1, <1>2, <1>3, <1>4, <1>5 DEF IInv

\* A step by which more checkouts are opened or paid and nothing else changes.
LEMMA MoneyStep ==
    ASSUME IInv, MoneyOK', Grows(opened, opened', buyer, buyer', settled, settled'),
           UNCHANGED <<mode, invite, late, events, checks, fulfilled, review, keys, users,
                       worker, budget>>
    PROVE  IInv'
<1>1. StoredOK'
  BY DEF IInv, StoredOK, CopyOK, Grows
<1>2. RestOK'
  BY DEF IInv, RestOK
<1>3. UsersOK'
  <2>1. ASSUME NEW u \in users
        PROVE  Justified(u.claim, u.invited, u.by, mode, buyer', settled')
    BY JustifiedKept DEF IInv, UsersOK
  <2> QED BY <2>1 DEF IInv, UsersOK
<1>4. WorkersOK'
  <2>1. ASSUME NEW g \in Workers
        PROVE  WorkerOK(worker[g], mode, opened', buyer', settled')
    <3>1. worker[g] \in Worker /\ WorkerOK(worker[g], mode, opened, buyer, settled)
      BY DEF IInv, WorkersOK
    <3> QED BY <3>1, WorkerKept
  <2> QED BY <2>1 DEF IInv, WorkersOK
<1> QED BY <1>1, <1>2, <1>3, <1>4 DEF IInv

\* A new checkout is nobody else's, and a payment only of an opened one.
LEMMA PayingOK == IInv /\ (Checkout \/ Pays) => IInv'
<1> SUFFICES ASSUME IInv, Checkout \/ Pays PROVE IInv'
  OBVIOUS
<1>1. CASE Checkout
  <2>1. PICK b \in Browsers :
           /\ Priced /\ opened < MaxPayments
           /\ opened' = opened + 1
           /\ buyer' = [buyer EXCEPT ![opened + 1] = b]
           /\ cookie' = [cookie EXCEPT ![b] = opened + 1]
           /\ UNCHANGED <<mode, invite, late, settled, events, checks, fulfilled, review, keys,
                          users, worker, budget>>
    BY <1>1 DEF Checkout
  <2>2. opened + 1 \in Payment /\ opened + 1 # None /\ opened' \in 0..MaxPayments
        /\ settled \subseteq 1..opened /\ settled \subseteq 1..opened' /\ opened \in Nat
    BY <2>1, InvitesAssumption DEF IInv, MoneyOK, Payment, None
  <2>3. \A p \in 1..opened : buyer'[p] = buyer[p]
    BY <2>1, <2>2 DEF IInv, MoneyOK, Payment
  <2>4. buyer' \in [Payment -> Browsers \cup {NoOne}] /\ cookie' \in [Browsers -> Payment \cup {None}]
    BY <2>1, <2>2 DEF IInv, MoneyOK
  <2>5. ASSUME NEW c \in Browsers, cookie'[c] # None
        PROVE  cookie'[c] \in 1..opened' /\ buyer'[cookie'[c]] = c
    <3>1. CASE c = b BY <3>1, <2>1, <2>2 DEF IInv, MoneyOK
    <3>2. CASE c # b
      <4>1. cookie'[c] = cookie[c] BY <3>2, <2>1 DEF IInv, MoneyOK
      <4>2. cookie[c] \in 1..opened /\ buyer[cookie[c]] = c
        BY <4>1, <2>5 DEF IInv, MoneyOK
      <4> QED BY <4>1, <4>2, <2>1, <2>2, <2>3
    <3> QED BY <3>1, <3>2
  <2>6. MoneyOK'
    BY <2>1, <2>2, <2>4, <2>5 DEF MoneyOK
  <2>7. Grows(opened, opened', buyer, buyer', settled, settled')
    BY <2>1, <2>2, <2>3 DEF Grows
  <2> QED BY <2>1, <2>6, <2>7, MoneyStep
<1>2. CASE Pays
  <2>1. PICK p \in (1..opened) \ settled :
           /\ settled' = settled \cup {p}
           /\ UNCHANGED <<mode, invite, late, opened, buyer, cookie, events, checks, fulfilled,
                          review, keys, users, worker, budget>>
    BY <1>2 DEF Pays
  <2>2. MoneyOK'
    BY <2>1 DEF IInv, MoneyOK
  <2>3. Grows(opened, opened', buyer, buyer', settled, settled')
    BY <2>1, InvitesAssumption DEF IInv, MoneyOK, Grows
  <2> QED BY <2>1, <2>2, <2>3, MoneyStep
<1> QED BY <1>1, <1>2

\* A reported payment was received, and reporting it starts a handler of it.
LEMMA ReportOK == ASSUME IInv, NEW g \in Workers, Event(g) \/ Reconcile(g) PROVE IInv'
<1>1. PICK p \in settled : \E via \in {"webhook", "reconcile"} : Begin(g, p, via)
  BY DEF Event, Reconcile
<1>2. PICK via \in {"webhook", "reconcile"} : Begin(g, p, via)
  BY <1>1
<1> DEFINE k == [Idle EXCEPT !.pc = "unlock", !.payment = p, !.via = via]
<1>3. p \in Payment
  BY SettledOK
<1>4. k \in Worker /\ WorkerOK(k, mode, opened, buyer, settled)
  BY <1>3 DEF Idle, Gone, Worker, Step, Invite, None, WorkerOK, CopyOK
<1>5. worker' = [worker EXCEPT ![g] = k]
  BY <1>2 DEF Begin, Start
<1> HIDE DEF k
<1>6. events' \in [Payment -> 0..MaxEvents] /\ checks' \in [Payment -> 0..MaxReconciles]
  <2>1. MaxEvents \in Nat /\ MaxReconciles \in Nat
    BY InvitesAssumption
  <2>2. CASE Event(g)
    <3>1. PICK q \in settled : events[q] < MaxEvents /\ events' = [events EXCEPT ![q] = @ + 1]
      BY <2>2 DEF Event
    <3>2. checks' = checks BY <2>2 DEF Event
    <3> QED BY <2>1, <3>1, <3>2, SettledOK, CountOK DEF IInv, RestOK
  <2>3. CASE Reconcile(g)
    <3>1. PICK q \in settled :
             checks[q] < MaxReconciles /\ checks' = [checks EXCEPT ![q] = @ + 1]
      BY <2>3 DEF Reconcile
    <3>2. events' = events BY <2>3 DEF Reconcile
    <3> QED BY <2>1, <3>1, <3>2, SettledOK, CountOK DEF IInv, RestOK
  <2> QED BY <2>2, <2>3
<1>7. review' \subseteq Payment
  <2>1. review \subseteq Payment /\ settled \subseteq Payment
    BY SettledOK DEF IInv, RestOK
  <2>2. CASE Event(g) BY <2>1, <2>2 DEF Event
  <2>3. CASE Reconcile(g) BY <2>1, <2>3 DEF Reconcile
  <2> QED BY <2>2, <2>3
<1>8. StoredOK' /\ RestOK' /\ UsersOK'
  BY <1>6, <1>7 DEF Event, Reconcile, IInv, StoredOK, RestOK, UsersOK
<1>9. UNCHANGED <<mode, opened, buyer, cookie, settled>>
  BY DEF Event, Reconcile
<1> QED BY <1>4, <1>5, <1>8, <1>9, WorkerStep

\* The steps of an unlock store a payment Stripe has received.
LEMMA UnlockOK ==
    ASSUME IInv, NEW g \in Workers, ReadUnlock(g) \/ Unlock(g) \/ Mark(g) PROVE IInv'
<1> DEFINE old == worker[g]
<1>0. old \in Worker /\ WorkerOK(old, mode, opened, buyer, settled)
  BY DEF IInv, WorkersOK
<1>1. CASE ReadUnlock(g)
  <2>1. UNCHANGED <<mode, invite, late, opened, buyer, cookie, settled, events, checks,
                    fulfilled, keys, users, budget>>
    BY <1>1 DEF ReadUnlock
  <2>2. review' \subseteq Payment
    BY <1>0, <1>1, SettledOK DEF ReadUnlock, WorkerOK, IInv, RestOK
  <2>3. StoredOK' /\ RestOK' /\ UsersOK'
    BY <2>1, <2>2 DEF IInv, StoredOK, RestOK, UsersOK
  <2>4. CASE worker' = [worker EXCEPT ![g].copy = invite]
    <3> DEFINE k == [old EXCEPT !.copy = invite]
    <3>1. k \in Worker /\ WorkerOK(k, mode, opened, buyer, settled)
      BY <1>0, <1>1 DEF ReadUnlock, Worker, IInv, StoredOK, WorkerOK
    <3>2. worker' = [worker EXCEPT ![g] = k]
      BY <2>4
    <3> HIDE DEF k
    <3> QED BY <2>1, <2>3, <3>1, <3>2, WorkerStep
  <2>5. CASE End(g)
    BY <2>1, <2>3, <2>5, IdleOK, WorkerStep DEF End
  <2> QED BY <1>1, <2>4, <2>5 DEF ReadUnlock
<1>2. CASE Unlock(g)
  <2> DEFINE k == [old EXCEPT !.pc = "mark", !.copy = Gone]
  <2>1. UNCHANGED <<mode, late, money, keys, users, budget>>
    BY <1>2 DEF Unlock
  <2>2. old.payment \in settled /\ old.payment \in Payment
    BY <1>0, <1>2, SettledOK DEF Unlock, WorkerOK
  <2>3. k \in Worker /\ WorkerOK(k, mode, opened, buyer, settled)
    BY <1>0, <2>2, GoneOK DEF Worker, Step, WorkerOK
  <2>4. worker' = [worker EXCEPT ![g] = k]
    BY <1>2 DEF Unlock
  <2>5. StoredOK'
    BY <1>0, <1>2, <2>1, <2>2 DEF Unlock, Worker, Invite, StoredOK, CopyOK, money
  <2>6. RestOK' /\ UsersOK'
    BY <2>1 DEF IInv, RestOK, UsersOK, money
  <2> HIDE DEF k
  <2> QED BY <2>1, <2>3, <2>4, <2>5, <2>6, WorkerStep DEF money
<1>3. CASE Mark(g)
  <2>1. /\ worker' = [worker EXCEPT ![g] = Idle]
        /\ UNCHANGED <<mode, invite, late, opened, buyer, cookie, settled, events, checks,
                       keys, users, budget>>
        /\ fulfilled' = fulfilled \cup {old.payment}
        /\ review' = review \ {old.payment}
    BY <1>3 DEF Mark, End
  <2>2. old.payment \in Payment
    BY <1>0, <1>3, SettledOK DEF Mark, WorkerOK
  <2>3. StoredOK' /\ RestOK' /\ UsersOK'
    BY <2>1, <2>2 DEF IInv, StoredOK, RestOK, UsersOK
  <2> QED BY <2>1, <2>3, IdleOK, WorkerStep
<1> QED BY <1>1, <1>2, <1>3

\* Entering: the request's cookie is its browser's, the lock is checked against the
\* invite that is read in the same step, and an open link means email confirmation.
LEMMA EnterOK ==
    ASSUME IInv, NEW g \in Workers, SignUp(g) \/ Authorize(g) \/ OpenLink(g) PROVE IInv'
<1> DEFINE old == worker[g]
<1>0. old \in Worker /\ WorkerOK(old, mode, opened, buyer, settled)
  BY DEF IInv, WorkersOK
<1>1. CASE SignUp(g)
  <2>1. PICK b \in Browsers :
           \/ mode.confirm /\ keys' = keys \cup {b} /\ UNCHANGED worker
           \/ /\ worker' = [worker EXCEPT ![g] =
                    [Idle EXCEPT !.pc = "authorize", !.by = b, !.payment = cookie[b]]]
              /\ UNCHANGED keys
    BY <1>1 DEF SignUp, Start
  <2>2. UNCHANGED <<mode, invite, late, money, users, budget>>
    BY <1>1 DEF SignUp
  <2>3. StoredOK' /\ RestOK' /\ UsersOK'
    BY <2>1, <2>2 DEF IInv, StoredOK, RestOK, UsersOK, money
  <2>4. CASE UNCHANGED worker
    <3>1. worker' = [worker EXCEPT ![g] = old]
      BY <2>4 DEF IInv, WorkersOK
    <3> QED BY <1>0, <2>2, <2>3, <3>1, WorkerStep DEF money
  <2>5. CASE worker' = [worker EXCEPT ![g] =
                [Idle EXCEPT !.pc = "authorize", !.by = b, !.payment = cookie[b]]]
    <3> DEFINE k == [Idle EXCEPT !.pc = "authorize", !.by = b, !.payment = cookie[b]]
    <3>1. cookie[b] \in Payment \cup {None}
          /\ (cookie[b] # None => cookie[b] \in 1..opened /\ buyer[cookie[b]] = b)
      BY DEF IInv, MoneyOK
    <3>2. k \in Worker
      BY <3>1, GoneOK DEF Idle, Worker, Step
    <3>3. WorkerOK(k, mode, opened, buyer, settled)
      BY <3>1, GoneOK DEF Idle, WorkerOK
    <3>4. worker' = [worker EXCEPT ![g] = k]
      BY <2>5
    <3> HIDE DEF k
    <3> QED BY <2>2, <2>3, <3>2, <3>3, <3>4, WorkerStep DEF money
  <2> QED BY <2>1, <2>4, <2>5
<1>2. CASE Authorize(g)
  <2> DEFINE inv == IF invite.there THEN invite ELSE Gone
  <2>1. UNCHANGED <<mode, invite, late, money, keys, users, budget>>
    BY <1>2 DEF Authorize
  <2>2. StoredOK' /\ RestOK' /\ UsersOK'
    BY <2>1 DEF IInv, StoredOK, RestOK, UsersOK, money
  <2>3. CASE End(g)
    BY <2>1, <2>2, <2>3, IdleOK, WorkerStep DEF End, money
  <2>4. CASE /\ inv.there /\ Priced => inv.paidBy # None /\ MayEnter(old.payment, inv)
             /\ worker' = [worker EXCEPT ![g].pc = "create", ![g].copy = inv]
    <3> DEFINE k == [old EXCEPT !.pc = "create", !.copy = inv]
    <3>1. old.pc = "authorize"
      BY <1>2 DEF Authorize
    <3>2. inv \in Invite /\ CopyOK(inv, settled) /\ (inv.paidBy # None => inv.there /\ Priced)
      <4>1. settled # {} => Priced
        <5>1. settled \subseteq 1..opened /\ (opened # 0 => Priced)
          BY DEF IInv, MoneyOK
        <5>2. 1..0 = {}
          OBVIOUS
        <5> QED BY <5>1, <5>2
      <4> QED BY <4>1, GoneOK DEF IInv, StoredOK, CopyOK, Gone
    <3>3. inv.paidBy # None => inv.paidBy \in settled /\ buyer[inv.paidBy] = old.by
      BY <1>0, <2>4, <3>1, <3>2 DEF WorkerOK, MayEnter, LockPayment, CopyOK
    <3>4. Justified(inv.paidBy, inv.there, old.by, mode, buyer, settled)
      BY <2>4, <3>3 DEF Justified
    <3> HIDE DEF inv
    <3>5. k \in Worker /\ WorkerOK(k, mode, opened, buyer, settled)
      BY <1>0, <3>1, <3>2, <3>4 DEF Worker, Step, WorkerOK
    <3>6. worker' = [worker EXCEPT ![g] = k]
      BY <2>4
    <3> HIDE DEF k
    <3> QED BY <2>1, <2>2, <3>5, <3>6, WorkerStep DEF money
  <2> QED BY <1>2, <2>3, <2>4 DEF Authorize
<1>3. CASE OpenLink(g)
  <2>1. PICK b \in keys :
           /\ invite.there /\ MayEnter(cookie[b], invite)
           /\ worker' = [worker EXCEPT ![g] =
                 [Idle EXCEPT !.pc = "create", !.by = b, !.copy = invite, !.linked = TRUE]]
           /\ UNCHANGED <<mode, invite, late, money, keys, users, budget>>
    BY <1>3 DEF OpenLink, Start
  <2> DEFINE k == [Idle EXCEPT !.pc = "create", !.by = b, !.copy = invite, !.linked = TRUE]
  <2>2. b \in Browsers /\ mode.confirm
    BY DEF IInv, RestOK
  <2>3. invite.paidBy # None => invite.paidBy \in settled /\ buyer[invite.paidBy] = b
    BY <2>1, <2>2 DEF IInv, StoredOK, CopyOK, MoneyOK, MayEnter, LockPayment
  <2>4. k \in Worker
    BY <2>2 DEF Idle, Worker, Step, IInv, StoredOK, None
  <2>5. WorkerOK(k, mode, opened, buyer, settled)
    BY <2>2, <2>3 DEF Idle, WorkerOK, Justified, IInv, StoredOK
  <2>6. worker' = [worker EXCEPT ![g] = k]
    BY <2>1
  <2>7. StoredOK' /\ RestOK' /\ UsersOK'
    BY <2>1 DEF IInv, StoredOK, RestOK, UsersOK, money
  <2> HIDE DEF k
  <2> QED BY <2>1, <2>4, <2>5, <2>6, <2>7, WorkerStep DEF money
<1> QED BY <1>1, <1>2, <1>3

\* The user created was justified while the request waited.
LEMMA CreateOK == ASSUME IInv, NEW g \in Workers, Create(g) PROVE IInv'
<1> DEFINE old == worker[g]
<1>0. old \in Worker /\ WorkerOK(old, mode, opened, buyer, settled) /\ old.pc = "create"
  BY DEF IInv, WorkersOK, Create
<1>1. UNCHANGED <<mode, invite, late, money, keys, budget>>
  BY DEF Create
<1>2. StoredOK' /\ RestOK'
  BY <1>1 DEF IInv, StoredOK, RestOK, money
<1>3. CASE End(g) /\ UNCHANGED users
  <2>1. UsersOK'
    BY <1>1, <1>3 DEF IInv, UsersOK, money
  <2> QED BY <1>1, <1>2, <1>3, <2>1, IdleOK, WorkerStep DEF End, money
<1>4. CASE /\ Cardinality(users) < MaxUsers
           /\ users' = users \cup {[id |-> Cardinality(users) + 1, by |-> old.by,
                                    claim |-> old.copy.paidBy, invited |-> old.copy.there]}
           /\ worker' = [worker EXCEPT ![g].pc = "check", ![g].copy = Gone]
  <2> DEFINE u == [id |-> Cardinality(users) + 1, by |-> old.by,
                   claim |-> old.copy.paidBy, invited |-> old.copy.there]
             k == [old EXCEPT !.pc = "check", !.copy = Gone]
  <2>1. Cardinality(users) \in Nat
    BY FS_CardinalityType DEF IInv, UsersOK
  <2>2. u \in User
    BY <1>0, <1>4, <2>1, InvitesAssumption DEF User, WorkerOK, Worker, Invite
  <2>3. Justified(u.claim, u.invited, u.by, mode, buyer, settled)
    BY <1>0 DEF WorkerOK
  <2>4. k \in Worker /\ WorkerOK(k, mode, opened, buyer, settled)
    BY <1>0, GoneOK DEF Worker, Step, WorkerOK
  <2>5. worker' = [worker EXCEPT ![g] = k] /\ users' = users \cup {u}
    BY <1>4
  <2> HIDE DEF k, u
  <2>6. UsersOK'
    BY <1>1, <2>2, <2>3, <2>5, FS_AddElement DEF IInv, UsersOK, money
  <2> QED BY <1>1, <1>2, <2>4, <2>5, <2>6, WorkerStep DEF money
<1> QED BY <1>3, <1>4 DEF Create

\* Using the invite: what is stored is a copy that was justified, less its payment.
LEMMA UseOK == ASSUME IInv, NEW g \in Workers, Check(g) \/ Use(g) PROVE IInv'
<1> DEFINE old == worker[g]
<1>0. old \in Worker /\ WorkerOK(old, mode, opened, buyer, settled)
  BY DEF IInv, WorkersOK
<1>1. keys' \subseteq keys /\ UNCHANGED <<mode, late, money, users, budget>>
  BY DEF Check, Use, Done
<1>2. RestOK' /\ UsersOK'
  BY <1>1 DEF IInv, RestOK, UsersOK, money
<1>3. CASE Check(g)
  <2>1. StoredOK'
    BY <1>1, <1>3 DEF Check, IInv, StoredOK, money
  <2>2. CASE Done(g)
    BY <1>1, <1>2, <2>1, <2>2, IdleOK, WorkerStep DEF Done, End, money
  <2>3. CASE worker' = [worker EXCEPT ![g].copy = invite,
                                      ![g].pc = IF late THEN "expire" ELSE "use"]
    <3> DEFINE k == [old EXCEPT !.copy = invite, !.pc = IF late THEN "expire" ELSE "use"]
    <3>1. k \in Worker /\ WorkerOK(k, mode, opened, buyer, settled)
      BY <1>0 DEF Worker, Step, WorkerOK, IInv, StoredOK
    <3>2. worker' = [worker EXCEPT ![g] = k]
      BY <2>3
    <3> HIDE DEF k
    <3> QED BY <1>1, <1>2, <2>1, <3>1, <3>2, WorkerStep DEF money
  <2> QED BY <1>3, <2>2, <2>3 DEF Check
<1>4. CASE Use(g)
  <2>1. old.copy \in Invite /\ CopyOK(old.copy, settled)
    BY <1>0 DEF Worker, WorkerOK
  <2>2. Used(old.copy) \in Invite
    <3>1. CASE old.copy.uses = 1
      BY <3>1, GoneOK DEF Used
    <3>2. CASE old.copy.uses # 1
      <4>1. (IF old.copy.uses = 0 THEN 0 ELSE old.copy.uses - 1) \in Nat
        BY <2>1 DEF Invite
      <4> QED BY <2>1, <3>2, <4>1 DEF Used, Invite
    <3> QED BY <3>1, <3>2
  <2>3. CopyOK(Used(old.copy), settled)
    BY <2>1, GoneOK DEF Used, Invite, CopyOK
  <2>4. StoredOK'
    BY <1>1, <1>4, <2>2, <2>3 DEF Use, StoredOK, money
  <2> QED BY <1>1, <1>2, <1>4, <2>4, IdleOK, WorkerStep DEF Use, Done, End, money
<1> QED BY <1>3, <1>4

\* Expiry stores nothing but the absence of the invite.
LEMMA ExpiryOK ==
    ASSUME IInv, NEW g \in Workers, Expire(g) \/ Preserve(g) \/ GiveUp(g) \/ Discard(g)
    PROVE  IInv'
<1> DEFINE old == worker[g]
<1>0. old \in Worker /\ WorkerOK(old, mode, opened, buyer, settled)
  BY DEF IInv, WorkersOK
<1>1. CASE Expire(g)
  <2> DEFINE k == [Idle EXCEPT !.pc = "expire", !.copy = invite]
  <2>1. worker' = [worker EXCEPT ![g] = k]
        /\ UNCHANGED <<mode, invite, late, money, keys, users, budget>>
    BY <1>1 DEF Expire, Start
  <2>2. k \in Worker /\ WorkerOK(k, mode, opened, buyer, settled)
    BY DEF Idle, Worker, Step, None, WorkerOK, IInv, StoredOK
  <2>3. StoredOK' /\ RestOK' /\ UsersOK'
    BY <2>1 DEF IInv, StoredOK, RestOK, UsersOK, money
  <2> HIDE DEF k
  <2> QED BY <2>1, <2>2, <2>3, WorkerStep DEF money
<1>2. CASE Preserve(g)
  <2>1. PICK p \in Candidates(old.copy) : review' = review \cup {p}
    BY <1>2 DEF Preserve
  <2>2. p \in Payment
    <3>1. 1..opened \subseteq Payment
      BY InvitesAssumption DEF IInv, MoneyOK, Payment
    <3>2. old.copy.paidBy \in Payment \cup {None}
      BY <1>0 DEF Worker, Invite
    <3> QED BY <3>1, <3>2 DEF Candidates
  <2>3. keys' \subseteq keys /\ worker' = [worker EXCEPT ![g] = Idle]
        /\ UNCHANGED <<mode, invite, late, opened, buyer, cookie, settled, events, checks,
                       fulfilled, users, budget>>
    BY <1>2 DEF Preserve, Done, End
  <2>4. StoredOK' /\ RestOK' /\ UsersOK'
    BY <2>1, <2>2, <2>3 DEF IInv, StoredOK, RestOK, UsersOK
  <2> QED BY <2>3, <2>4, IdleOK, WorkerStep
<1>3. CASE GiveUp(g)
  <2> DEFINE k == [old EXCEPT !.pc = "discard"]
  <2>1. worker' = [worker EXCEPT ![g] = k]
        /\ UNCHANGED <<mode, invite, late, money, keys, users, budget>>
    BY <1>3 DEF GiveUp
  <2>2. k \in Worker /\ WorkerOK(k, mode, opened, buyer, settled)
    BY <1>0 DEF Worker, Step, WorkerOK
  <2>3. StoredOK' /\ RestOK' /\ UsersOK'
    BY <2>1 DEF IInv, StoredOK, RestOK, UsersOK, money
  <2> HIDE DEF k
  <2> QED BY <2>1, <2>2, <2>3, WorkerStep DEF money
<1>4. CASE Discard(g)
  <2>1. keys' \subseteq keys /\ worker' = [worker EXCEPT ![g] = Idle] /\ invite' = Gone
        /\ UNCHANGED <<mode, late, money, users, budget>>
    BY <1>4 DEF Discard, Done, End
  <2>2. StoredOK' /\ RestOK' /\ UsersOK'
    BY <2>1, GoneOK DEF IInv, StoredOK, RestOK, UsersOK, money
  <2> QED BY <2>1, <2>2, IdleOK, WorkerStep DEF money
<1> QED BY <1>1, <1>2, <1>3, <1>4

\* An edit stores the copy it read.
LEMMA EditOK == ASSUME IInv, NEW g \in Workers, Edit(g) \/ StoreEdited(g) PROVE IInv'
<1> DEFINE old == worker[g]
<1>0. old \in Worker /\ WorkerOK(old, mode, opened, buyer, settled)
  BY DEF IInv, WorkersOK
<1>1. CASE Edit(g)
  <2> DEFINE k == [Idle EXCEPT !.pc = "store", !.copy = invite]
  <2>1. worker' = [worker EXCEPT ![g] = k]
        /\ budget.edits > 0 /\ budget' = [budget EXCEPT !.edits = @ - 1]
        /\ UNCHANGED <<mode, invite, late, money, keys, users>>
    BY <1>1 DEF Edit, Start
  <2>2. k \in Worker /\ WorkerOK(k, mode, opened, buyer, settled)
    BY DEF Idle, Worker, Step, None, WorkerOK, IInv, StoredOK
  <2>3. budget' \in [edits : 0..MaxEdits, deletes : 0..MaxDeletes, crashes : Nat]
    BY <2>1, InvitesAssumption DEF IInv, RestOK
  <2>4. StoredOK' /\ RestOK' /\ UsersOK'
    BY <2>1, <2>3 DEF IInv, StoredOK, RestOK, UsersOK, money
  <2> HIDE DEF k
  <2> QED BY <2>1, <2>2, <2>4, WorkerStep DEF money
<1>2. CASE StoreEdited(g)
  <2>1. worker' = [worker EXCEPT ![g] = Idle] /\ invite' = old.copy
        /\ UNCHANGED <<mode, late, money, keys, users, budget>>
    BY <1>2 DEF StoreEdited, End
  <2>2. StoredOK'
    BY <1>0, <2>1 DEF Worker, WorkerOK, StoredOK, money
  <2>3. RestOK' /\ UsersOK'
    BY <2>1 DEF IInv, RestOK, UsersOK, money
  <2> QED BY <2>1, <2>2, <2>3, IdleOK, WorkerStep DEF money
<1> QED BY <1>1, <1>2

\* Steps of nobody: the clock, the administrator's deletion and a crash.
LEMMA OutsideOK == IInv /\ (TimePasses \/ DeleteInvite \/ Crash) => IInv'
<1> SUFFICES ASSUME IInv, TimePasses \/ DeleteInvite \/ Crash PROVE IInv'
  OBVIOUS
<1>1. UNCHANGED <<mode, money, users>> /\ keys' \subseteq keys /\ late' \in BOOLEAN
  BY DEF TimePasses, DeleteInvite, Crash, IInv, RestOK
<1>2. invite' \in {invite, Gone}
  BY DEF TimePasses, DeleteInvite, Crash
<1>3. budget' \in [edits : 0..MaxEdits, deletes : 0..MaxDeletes, crashes : Nat]
  <2>1. MaxDeletes \in Nat /\ budget \in [edits : 0..MaxEdits, deletes : 0..MaxDeletes, crashes : Nat]
    BY InvitesAssumption DEF IInv, RestOK
  <2> QED BY <2>1 DEF TimePasses, DeleteInvite, Crash
<1>4. StoredOK' /\ MoneyOK' /\ RestOK' /\ UsersOK'
  BY <1>1, <1>2, <1>3, GoneOK DEF IInv, StoredOK, MoneyOK, RestOK, UsersOK, money
<1>5. WorkersOK'
  <2>1. CASE UNCHANGED worker
    BY <1>1, <2>1 DEF IInv, WorkersOK, money
  <2>2. CASE worker' = [g \in Workers |-> Idle]
    BY <1>1, <2>2, IdleOK DEF WorkersOK, money
  <2> QED BY <2>1, <2>2 DEF TimePasses, DeleteInvite, Crash
<1> QED BY <1>1, <1>4, <1>5 DEF IInv

\* Every step keeps the invariant.
LEMMA Inductive == IInv /\ [Next]_vars => IInv'
<1> SUFFICES ASSUME IInv, [Next]_vars PROVE IInv'
  OBVIOUS
<1>1. CASE UNCHANGED vars
  BY <1>1 DEF vars, money, IInv, StoredOK, MoneyOK, RestOK, UsersOK, WorkersOK
<1>2. ASSUME NEW g \in Workers, Handler(g) PROVE IInv'
  BY <1>2, ReportOK, UnlockOK, EnterOK, CreateOK, UseOK, ExpiryOK, EditOK DEF Handler
<1> QED BY <1>1, <1>2, PayingOK, OutsideOK DEF Next

-----------------------------------------------------------------------------
(* Theorems.                                                               *)

\* The invariant holds in every reachable state.
LEMMA Invariance == Spec => []IInv
BY Initially, Inductive, PTL DEF Spec

\* The invite, checkouts, rows, users and handlers keep their types, for every number
\* of browsers, handlers and payments.
THEOREM TypeCorrect == Spec => []TypeOK
BY Invariance, Typed, PTL

\* "Paid invites are locked to the device that made the payment": however checkouts,
\* unlocks, edits, expiry and sign-ups overlap.
THEOREM PaidUsesAreLocked == Spec => []LockedToPayer
BY Invariance, Locked, PTL

-----------------------------------------------------------------------------
(* A payment whose event arrived is accounted for.                         *)

\* The handler that will mark or flag the payment is the event's own: one of the
\* reconciliation may give up without a flag.
Handles(k, p) == k.pc \in {"unlock", "mark"} /\ k.payment = p /\ k.via = "webhook"

AccountedFor(p) ==
    p \in fulfilled \cup review \/ \E g \in Workers : Handles(worker[g], p)

AccInv ==
    /\ budget.crashes <= mode.crashes
    /\ budget.crashes = mode.crashes =>
           \A p \in Payment : events[p] > 0 => AccountedFor(p)

\* The invariant is the property, for handlers of the event.
LEMMA Accounted == IInv /\ AccInv => ReportedIsAccountedFor
<1> SUFFICES ASSUME IInv, AccInv, Crashed = 0, NEW p \in settled, events[p] > 0
             PROVE  \/ p \in fulfilled \cup review
                    \/ \E g \in Workers : worker[g].pc \in {"unlock", "mark"} /\ worker[g].payment = p
  BY DEF ReportedIsAccountedFor
<1>1. budget.crashes \in Nat /\ mode.crashes \in Nat
  BY InvitesAssumption DEF IInv, RestOK
<1> QED BY <1>1, SettledOK DEF AccInv, Crashed, AccountedFor, Handles

\* A step of one handler accounts for a payment when it was accounted for before, and
\* neither its row nor the handler lets go of it.
LEMMA AccountedStep ==
    ASSUME IInv, NEW p, AccountedFor(p), NEW g \in Workers, NEW k,
           worker' = [worker EXCEPT ![g] = k],
           p \in fulfilled \cup review => p \in fulfilled' \cup review' \/ Handles(k, p),
           Handles(worker[g], p) => p \in fulfilled' \cup review' \/ Handles(k, p)
    PROVE  AccountedFor(p)'
<1>1. worker \in [Workers -> Worker]
  BY DEF IInv, WorkersOK
<1>2. worker'[g] = k
  BY <1>1
<1>3. CASE p \in fulfilled \cup review
  BY <1>2, <1>3 DEF AccountedFor
<1>4. ASSUME NEW h \in Workers, Handles(worker[h], p) PROVE AccountedFor(p)'
  <2>1. CASE h = g
    BY <1>2, <1>4, <2>1 DEF AccountedFor
  <2>2. CASE h # g
    <3>1. worker'[h] = worker[h] BY <1>1, <2>2
    <3> QED BY <1>4, <3>1 DEF AccountedFor
  <2> QED BY <2>1, <2>2
<1> QED BY <1>3, <1>4 DEF AccountedFor

\* A handler that reports no event, and keeps or passes on what it handles.
LEMMA HandlerAccounts ==
    ASSUME IInv, AccInv, NEW g \in Workers, NEW k,
           worker' = [worker EXCEPT ![g] = k],
           UNCHANGED <<mode, events>>, budget'.crashes = budget.crashes,
           \A p \in Payment :
               /\ p \in fulfilled \cup review => p \in fulfilled' \cup review'
               /\ Handles(worker[g], p) => p \in fulfilled' \cup review' \/ Handles(k, p)
    PROVE  AccInv'
<1>1. ASSUME budget.crashes = mode.crashes, NEW p \in Payment, events[p] > 0
      PROVE  AccountedFor(p)'
  <2>1. AccountedFor(p)
    BY <1>1 DEF AccInv
  <2>2. /\ p \in fulfilled \cup review => p \in fulfilled' \cup review' \/ Handles(k, p)
        /\ Handles(worker[g], p) => p \in fulfilled' \cup review' \/ Handles(k, p)
    OBVIOUS
  <2> QED BY <2>1, <2>2, AccountedStep
<1> QED BY <1>1 DEF AccInv

\* The event itself unflags its row and starts a handler for it.
LEMMA EventAccounts == ASSUME IInv, AccInv, NEW g \in Workers, Event(g) PROVE AccInv'
<1>1. PICK q \in settled :
         /\ events' = [events EXCEPT ![q] = @ + 1]
         /\ review' = review \ {q}
         /\ worker[g].pc = "idle"
         /\ worker' = [worker EXCEPT ![g] =
               [Idle EXCEPT !.pc = "unlock", !.payment = q, !.via = "webhook"]]
         /\ UNCHANGED <<mode, fulfilled, budget>>
  BY DEF Event, Begin, Start
<1> DEFINE k == [Idle EXCEPT !.pc = "unlock", !.payment = q, !.via = "webhook"]
<1>2. Handles(k, q) /\ \A p : ~Handles(worker[g], p)
  BY <1>1 DEF Handles, Idle
<1>3. worker' = [worker EXCEPT ![g] = k] /\ worker'[g] = k
  BY <1>1 DEF IInv, WorkersOK
<1> HIDE DEF k
<1>4. ASSUME budget.crashes = mode.crashes, NEW p \in Payment, events'[p] > 0
      PROVE  AccountedFor(p)'
  <2>1. CASE p = q
    BY <1>2, <1>3, <2>1 DEF AccountedFor
  <2>2. CASE p # q
    <3>1. events'[p] = events[p]
      BY <1>1, <2>2 DEF IInv, RestOK
    <3>2. AccountedFor(p)
      BY <1>4, <3>1 DEF AccInv
    <3>3. p \in fulfilled \cup review => p \in fulfilled' \cup review'
      BY <1>1, <2>2
    <3> QED BY <1>2, <1>3, <3>2, <3>3, AccountedStep
  <2> QED BY <2>1, <2>2
<1> QED BY <1>1, <1>4 DEF AccInv

\* The handler's own steps: it stays at it, marks the row, or flags it.
LEMMA UnlockAccounts ==
    ASSUME IInv, AccInv, NEW g \in Workers,
           Reconcile(g) \/ ReadUnlock(g) \/ Unlock(g) \/ Mark(g)
    PROVE  AccInv'
<1> DEFINE old == worker[g]
<1>0. worker \in [Workers -> Worker] /\ UNCHANGED <<mode, events, budget>>
  BY DEF IInv, WorkersOK, Reconcile, ReadUnlock, Unlock, Mark, money
<1>1. CASE Reconcile(g)
  <2>1. old.pc = "idle" /\ review \subseteq review' /\ fulfilled' = fulfilled
        /\ \E k : worker' = [worker EXCEPT ![g] = k]
    BY <1>1 DEF Reconcile, Begin, Start
  <2> QED BY <1>0, <2>1, HandlerAccounts DEF Handles
<1>2. CASE ReadUnlock(g)
  <2>1. CASE worker' = [worker EXCEPT ![g].copy = invite] /\ UNCHANGED review
    <3> DEFINE k == [old EXCEPT !.copy = invite]
    <3>1. worker' = [worker EXCEPT ![g] = k]
      BY <2>1
    <3>2. \A p : Handles(old, p) => Handles(k, p)
      BY <1>0 DEF Handles, Worker
    <3> HIDE DEF k
    <3> QED BY <1>0, <1>2, <2>1, <3>1, <3>2, HandlerAccounts DEF ReadUnlock
  <2>2. CASE End(g) /\ review' = IF old.via = "webhook" THEN review \cup {old.payment} ELSE review
    <3>1. worker' = [worker EXCEPT ![g] = Idle] /\ fulfilled' = fulfilled
      BY <1>2, <2>2 DEF ReadUnlock, End
    <3>2. review \subseteq review' /\ \A p : Handles(old, p) => p \in review'
      BY <2>2 DEF Handles
    <3> QED BY <1>0, <3>1, <3>2, HandlerAccounts
  <2> QED BY <1>2, <2>1, <2>2 DEF ReadUnlock
<1>3. CASE Unlock(g)
  <2> DEFINE k == [old EXCEPT !.pc = "mark", !.copy = Gone]
  <2>1. worker' = [worker EXCEPT ![g] = k] /\ UNCHANGED <<fulfilled, review>>
    BY <1>3 DEF Unlock, money
  <2>2. \A p : Handles(old, p) => Handles(k, p)
    BY <1>0 DEF Handles, Worker
  <2> HIDE DEF k
  <2> QED BY <1>0, <2>1, <2>2, HandlerAccounts
<1>4. CASE Mark(g)
  <2>1. worker' = [worker EXCEPT ![g] = Idle]
        /\ fulfilled' = fulfilled \cup {old.payment} /\ review' = review \ {old.payment}
    BY <1>4 DEF Mark, End
  <2>2. \A p : /\ p \in fulfilled \cup review => p \in fulfilled' \cup review'
              /\ Handles(old, p) => p \in fulfilled'
    BY <2>1 DEF Handles
  <2> QED BY <1>0, <2>1, <2>2, HandlerAccounts
<1> QED BY <1>1, <1>2, <1>3, <1>4

\* Handlers that do something else neither handle a payment nor unflag a row.
LEMMA OthersAccount ==
    ASSUME IInv, AccInv, NEW g \in Workers,
           \/ SignUp(g) \/ Authorize(g) \/ OpenLink(g) \/ Create(g) \/ Check(g) \/ Use(g)
           \/ Expire(g) \/ Preserve(g) \/ GiveUp(g) \/ Discard(g) \/ Edit(g) \/ StoreEdited(g)
    PROVE  AccInv'
<1>1. worker \in [Workers -> Worker]
  BY DEF IInv, WorkersOK
<1>2. UNCHANGED <<mode, events, fulfilled>> /\ review \subseteq review'
  BY DEF SignUp, Authorize, OpenLink, Create, Check, Use, Expire, Preserve, GiveUp, Discard,
         Edit, StoreEdited, money
<1>3. budget'.crashes = budget.crashes
  BY DEF SignUp, Authorize, OpenLink, Create, Check, Use, Expire, Preserve, GiveUp, Discard,
         Edit, StoreEdited, IInv, RestOK
<1>4. CASE UNCHANGED worker
  <2>1. worker' = [worker EXCEPT ![g] = worker[g]]
    BY <1>1, <1>4
  <2> QED BY <1>2, <1>3, <2>1, HandlerAccounts
<1>5. CASE /\ worker[g].pc \notin {"unlock", "mark"}
           /\ \E k : worker' = [worker EXCEPT ![g] = k]
  <2>1. PICK k : worker' = [worker EXCEPT ![g] = k]
    BY <1>5
  <2>2. \A p : ~Handles(worker[g], p)
    BY <1>5 DEF Handles
  <2> QED BY <1>2, <1>3, <2>1, <2>2, HandlerAccounts
<1>6. \/ UNCHANGED worker
      \/ /\ worker[g].pc \notin {"unlock", "mark"}
         /\ \E k : worker' = [worker EXCEPT ![g] = k]
  <2>1. CASE SignUp(g) BY <2>1 DEF SignUp, Start
  <2>2. CASE Authorize(g)
    <3>1. CASE End(g) BY <2>2, <3>1 DEF Authorize, End
    <3>2. CASE ~End(g)
      <4>1. PICK inv : worker' = [worker EXCEPT ![g].pc = "create", ![g].copy = inv]
        BY <2>2, <3>2 DEF Authorize
      <4>2. worker' = [worker EXCEPT ![g] = [worker[g] EXCEPT !.pc = "create", !.copy = inv]]
        BY <4>1
      <4> QED BY <2>2, <4>2 DEF Authorize
    <3> QED BY <3>1, <3>2
  <2>3. CASE OpenLink(g) BY <2>3 DEF OpenLink, Start
  <2>4. CASE Create(g)
    <3>1. CASE End(g) BY <2>4, <3>1 DEF Create, End
    <3>2. CASE ~End(g)
      <4>1. worker' = [worker EXCEPT ![g] = [worker[g] EXCEPT !.pc = "check", !.copy = Gone]]
        BY <2>4, <3>2 DEF Create
      <4> QED BY <2>4, <4>1 DEF Create
    <3> QED BY <3>1, <3>2
  <2>5. CASE Check(g)
    <3>1. CASE Done(g) BY <2>5, <3>1 DEF Check, Done, End
    <3>2. CASE ~Done(g)
      <4>1. worker' = [worker EXCEPT ![g] =
               [worker[g] EXCEPT !.copy = invite, !.pc = IF late THEN "expire" ELSE "use"]]
        BY <2>5, <3>2 DEF Check
      <4> QED BY <2>5, <4>1 DEF Check
    <3> QED BY <3>1, <3>2
  <2>6. CASE Use(g) \/ Preserve(g) \/ Discard(g)
    BY <2>6 DEF Use, Preserve, Discard, Done, End
  <2>7. CASE Expire(g) \/ Edit(g)
    BY <2>7 DEF Expire, Edit, Start
  <2>8. CASE GiveUp(g)
    <3>1. worker' = [worker EXCEPT ![g] = [worker[g] EXCEPT !.pc = "discard"]]
      BY <2>8 DEF GiveUp
    <3> QED BY <2>8, <3>1 DEF GiveUp
  <2>9. CASE StoreEdited(g)
    BY <2>9 DEF StoreEdited, End
  <2> QED BY <2>1, <2>2, <2>3, <2>4, <2>5, <2>6, <2>7, <2>8, <2>9
<1> QED BY <1>4, <1>5, <1>6

\* Every step keeps payments accounted for.
LEMMA AccountedInductive == IInv /\ AccInv /\ [Next]_vars => AccInv'
<1> SUFFICES ASSUME IInv, AccInv, [Next]_vars PROVE AccInv'
  OBVIOUS
<1>1. CASE UNCHANGED vars \/ Checkout \/ Pays \/ TimePasses \/ DeleteInvite
  <2>1. UNCHANGED <<mode, events, fulfilled, review, worker>> /\ budget'.crashes = budget.crashes
    BY <1>1 DEF vars, money, Checkout, Pays, TimePasses, DeleteInvite, IInv, RestOK
  <2> QED BY <2>1 DEF AccInv, AccountedFor
<1>2. CASE Crash
  <2>1. budget'.crashes < mode.crashes /\ mode' = mode
    <3>1. mode.crashes \in Nat /\ budget.crashes \in Nat /\ budget.crashes <= mode.crashes
      BY InvitesAssumption DEF IInv, RestOK, AccInv
    <3>2. budget'.crashes = budget.crashes - 1
      BY <1>2 DEF Crash, IInv, RestOK
    <3> QED BY <1>2, <3>1, <3>2 DEF Crash
  <2>2. mode.crashes \in Nat /\ budget'.crashes \in Int
    <3>1. budget'.crashes = budget.crashes - 1
      BY <1>2 DEF Crash, IInv, RestOK
    <3> QED BY <3>1, InvitesAssumption DEF IInv, RestOK
  <2> QED BY <2>1, <2>2 DEF AccInv
<1>3. ASSUME NEW g \in Workers, Handler(g) PROVE AccInv'
  BY <1>3, EventAccounts, UnlockAccounts, OthersAccount DEF Handler
<1> QED BY <1>1, <1>2, <1>3 DEF Next

\* A paid checkout whose event arrived is marked, flagged for the administrator, or being
\* handled, until the process crashes: however events, reconciliations, deletions and
\* expiry overlap.
THEOREM ReportsAreAccountedFor == Spec => []ReportedIsAccountedFor
<1>1. Init => AccInv
  BY InvitesAssumption DEF Init, AccInv
<1>2. Spec => []AccInv
  BY <1>1, Invariance, AccountedInductive, PTL DEF Spec
<1> QED BY <1>2, Invariance, Accounted, PTL

-----------------------------------------------------------------------------
(* Handlers one after the other: the one at work.                          *)

Busy(g) == worker[g].pc # "idle"

\* At most one handler is at work, and the others hold nothing.
Alone ==
    /\ \A g \in Workers : ~Busy(g) => worker[g] = Idle
    /\ \A g, h \in Workers : Busy(g) /\ Busy(h) => g = h

\* What the handler at work is doing.
Acting == IF \E g \in Workers : Busy(g) THEN worker[CHOOSE g \in Workers : Busy(g)] ELSE Idle

\* A paid invite, stored or copied, carries a payment that was reported.
Known(inv) == inv.paidBy # None => CanRecover(inv.paidBy)

\* What will be stored exists, what is to expire is the stored invite, and what is
\* discarded is not paid.
KeptInv(k) ==
    /\ Known(invite) /\ Known(k.copy)
    /\ k.pc \in {"unlock", "mark"} => CanRecover(k.payment)
    /\ k.pc \in {"store", "use"} => k.copy.there
    /\ k.pc = "expire" /\ invite.there => k.copy = invite
    /\ k.pc = "discard" /\ invite.there => invite.paidBy = None

\* A user has been created whose use of the invite is not yet stored.
Pending(k) == IF k.pc \in {"check", "use"} THEN 1 ELSE 0

Limit == mode.uses + Crashed

\* The invite's remaining uses and the users let in make no more than the limit, until
\* the invite is too late to let anybody in.
UsesAddUp(inv, k) ==
    inv.there =>
        /\ inv.uses # 0
        /\ ~late => Cardinality(users) + inv.uses <= Limit + Pending(k)

\* A request that was let in may be refused no more, whatever is deleted meanwhile: there
\* is room for it.
LimitInv(k) ==
    /\ Cardinality(users) <= Limit
    /\ k.pc \in {"authorize", "create"} => Cardinality(users) + 1 <= Limit
    /\ UsesAddUp(invite, k)
    /\ k.pc \in {"unlock", "store", "use"} => UsesAddUp(k.copy, k)

Reported   == {p \in Payment : events[p] + checks[p] > 0}
AtMostOnce == \A p \in Payment : events[p] + checks[p] <= 1

Credit == Cardinality(Reported) + Crashed

\* A payment lets one in: while it is on its way to the invite, while the invite (or a
\* copy that will be stored) is marked with it, and while its user is created, there is
\* one more payment than users.
PaidInv(k) ==
    /\ Cardinality(Invited) <= Credit
    /\ k.pc = "unlock" \/ (k.pc = "create" /\ k.copy.there) => Cardinality(Invited) + 1 <= Credit
    /\ invite.there /\ invite.paidBy # None /\ (~late \/ k.pc = "authorize") =>
           Cardinality(Invited) + 1 + (IF k.pc = "unlock" THEN 1 ELSE 0) <= Credit + Pending(k)
    /\ k.pc = "store" /\ k.copy.paidBy # None /\ ~late => Cardinality(Invited) + 1 <= Credit

\* Handlers run one after the other, an invite has a limit, each payment is reported once.
Serial  == ~mode.overlap
Limited == ~mode.overlap /\ ~mode.confirm /\ mode.uses # 0
Charged == ~mode.overlap /\ ~mode.confirm /\ Priced /\ AtMostOnce

SerialInv ==
    /\ Reported \subseteq settled
    /\ Serial => Alone /\ KeptInv(Acting)
    /\ Limited => LimitInv(Acting)
    /\ Charged => PaidInv(Acting)

-----------------------------------------------------------------------------
(* What it is for.                                                         *)

\* The counts are numbers.
LEMMA Numbers ==
    ASSUME IInv
    PROVE  /\ Cardinality(users) \in Nat
           /\ IsFiniteSet(Invited) /\ Cardinality(Invited) \in Nat
           /\ IsFiniteSet(Payment)
           /\ IsFiniteSet(Reported) /\ Cardinality(Reported) \in Nat
           /\ Crashed \in Int /\ Limit \in Int /\ Credit \in Int
           /\ \A p \in Payment : events[p] \in Nat /\ checks[p] \in Nat
<1>1. IsFiniteSet(users) /\ Invited \subseteq users
  BY DEF IInv, UsersOK, Invited
<1>2. IsFiniteSet(Payment)
  BY FS_Interval, InvitesAssumption DEF Payment
<1>3. IsFiniteSet(Invited) /\ IsFiniteSet(Reported)
  BY <1>1, <1>2, FS_Subset DEF Reported
<1>4. mode.uses \in Nat /\ mode.crashes \in Nat /\ budget.crashes \in Nat
  BY InvitesAssumption DEF IInv, RestOK
<1>5. Crashed \in Int
  BY <1>4 DEF Crashed
<1>6. Cardinality(Reported) \in Nat
  BY <1>3, FS_CardinalityType
<1>7. \A p \in Payment : events[p] \in Nat /\ checks[p] \in Nat
  BY InvitesAssumption DEF IInv, RestOK
<1> QED
  BY <1>1, <1>2, <1>3, <1>4, <1>5, <1>6, <1>7, FS_CardinalityType DEF Limit, Credit

\* The invariant implies the limit.
LEMMA LimitKept == SerialInv => WithinLimit
BY DEF SerialInv, Limited, LimitInv, Limit, WithinLimit

\* The invariant implies that uses are paid for: only received payments are reported.
LEMMA PaidFor == IInv /\ SerialInv => EachUseIsPaid
<1> SUFFICES ASSUME IInv, SerialInv, Charged
             PROVE  Cardinality(Invited) <= Cardinality(settled) + Crashed
  BY DEF EachUseIsPaid, SeparatePayments, Charged, AtMostOnce
<1>1. Cardinality(Invited) <= Cardinality(Reported) + Crashed
  BY DEF SerialInv, PaidInv, Credit
<1>2. IsFiniteSet(settled) /\ Reported \subseteq settled
  BY SettledOK, Numbers, FS_Subset DEF SerialInv
<1>3. Cardinality(Reported) <= Cardinality(settled)
  BY <1>2, FS_Subset
<1>4. Cardinality(settled) \in Nat
  BY <1>2, FS_CardinalityType
<1> QED BY <1>1, <1>3, <1>4, Numbers

-----------------------------------------------------------------------------
(* Turns.                                                                  *)

\* The handler at work is the busy one, if any.
LEMMA AtWork ==
    ASSUME Alone, NEW g \in Workers, Busy(g) \/ \A h \in Workers : ~Busy(h)
    PROVE  Acting = worker[g]
<1>1. CASE Busy(g)
  <2>1. (CHOOSE h \in Workers : Busy(h)) = g
    BY <1>1 DEF Alone
  <2> QED BY <1>1, <2>1 DEF Acting
<1>2. CASE \A h \in Workers : ~Busy(h)
  BY <1>2 DEF Alone, Acting
<1> QED BY <1>1, <1>2

\* A step of the handler at work, or of any when none is.
LEMMA Turn ==
    ASSUME IInv, Alone, NEW g \in Workers, Busy(g) \/ \A h \in Workers : ~Busy(h),
           NEW k, worker' = [worker EXCEPT ![g] = k], k.pc = "idle" => k = Idle
    PROVE  Alone' /\ Acting' = k /\ Acting = worker[g]
<1>1. worker \in [Workers -> Worker]
  BY DEF IInv, WorkersOK
<1>2. worker'[g] = k /\ \A h \in Workers : h # g => worker'[h] = worker[h]
  BY <1>1
<1>3. \A h \in Workers : h # g => ~Busy(h) /\ worker'[h] = Idle /\ ~Busy(h)'
  <2>1. Idle.pc = "idle"
    BY DEF Idle
  <2> QED BY <1>2, <2>1 DEF Alone, Busy
<1>4. Alone'
  <2>1. ASSUME NEW h \in Workers, ~Busy(h)' PROVE worker'[h] = Idle
    BY <1>2, <1>3, <2>1 DEF Busy
  <2>2. ASSUME NEW h \in Workers, NEW i \in Workers, Busy(h)', Busy(i)' PROVE h = i
    BY <1>3, <2>2
  <2> QED BY <2>1, <2>2 DEF Alone
<1>5. Acting' = k
  <2>1. CASE Busy(g)'
    <3>1. (CHOOSE h \in Workers : Busy(h)') = g
      BY <1>3, <2>1
    <3> QED BY <1>2, <2>1, <3>1 DEF Acting
  <2>2. CASE ~Busy(g)'
    <3>1. \A h \in Workers : ~Busy(h)'
      BY <1>3, <2>2
    <3>2. k = Idle
      BY <1>2, <2>2 DEF Busy
    <3> QED BY <3>1, <3>2 DEF Acting
  <2> QED BY <2>1, <2>2
<1> QED BY <1>4, <1>5, AtWork

\* A step that reports no payment and lets nobody in keeps the counts.
LEMMA Quiet ==
    ASSUME UNCHANGED <<mode, events, checks, users>>, budget'.crashes = budget.crashes
    PROVE  /\ Reported' = Reported /\ Invited' = Invited /\ (AtMostOnce' <=> AtMostOnce)
           /\ Crashed' = Crashed /\ Limit' = Limit /\ Credit' = Credit
           /\ (Serial' <=> Serial) /\ (Limited' <=> Limited) /\ (Charged' <=> Charged)
           /\ \A p : CanRecover(p)' <=> CanRecover(p)
<1>1. Reported' = Reported /\ Invited' = Invited /\ (AtMostOnce' <=> AtMostOnce)
      /\ Crashed' = Crashed
  BY DEF Reported, Invited, AtMostOnce, Crashed
<1> QED BY <1>1 DEF Limit, Credit, Serial, Limited, Charged, CanRecover

\* A step of one handler that leaves what it should.
LEMMA SerialStep ==
    ASSUME IInv, SerialInv, NEW g \in Workers, NEW k,
           worker' = [worker EXCEPT ![g] = k], k.pc = "idle" => k = Idle,
           Serial => Busy(g) \/ \A h \in Workers : ~Busy(h),
           mode' = mode, Reported' \subseteq settled', AtMostOnce' => AtMostOnce,
           Serial /\ KeptInv(worker[g]) /\ Acting' = k => KeptInv(Acting)',
           Limited /\ KeptInv(worker[g]) /\ LimitInv(worker[g]) /\ Acting' = k => LimitInv(Acting)',
           Charged' /\ KeptInv(worker[g]) /\ PaidInv(worker[g]) /\ Acting' = k => PaidInv(Acting)'
    PROVE  SerialInv'
<1>1. (Serial' <=> Serial) /\ (Limited' <=> Limited) /\ (Charged' => Charged)
  BY DEF Serial, Limited, Charged
<1>2. (Limited => Serial) /\ (Charged => Serial)
  BY DEF Serial, Limited, Charged
<1>3. Serial => Alone' /\ Acting' = k /\ Acting = worker[g]
  <2> SUFFICES ASSUME Serial PROVE Alone' /\ Acting' = k /\ Acting = worker[g]
    OBVIOUS
  <2>1. Alone
    BY DEF SerialInv
  <2>2. Busy(g) \/ \A h \in Workers : ~Busy(h)
    OBVIOUS
  <2> QED BY <2>1, <2>2, Turn
<1>4. Serial' => Alone' /\ KeptInv(Acting)'
  BY <1>1, <1>3 DEF SerialInv
<1>5. Limited' => LimitInv(Acting)'
  BY <1>1, <1>2, <1>3 DEF SerialInv
<1>6. Charged' => PaidInv(Acting)'
  BY <1>1, <1>2, <1>3 DEF SerialInv
<1> QED BY <1>4, <1>5, <1>6 DEF SerialInv

\* Reporting a payment for the first time adds to the credit what is on its way.
LEMMA FirstReport ==
    ASSUME IInv, NEW p \in settled, p \in Payment,
           \/ events' = [events EXCEPT ![p] = @ + 1] /\ checks' = checks
           \/ checks' = [checks EXCEPT ![p] = @ + 1] /\ events' = events
    PROVE  /\ Reported' = Reported \cup {p}
           /\ AtMostOnce' => AtMostOnce /\ Cardinality(Reported') = Cardinality(Reported) + 1
           /\ \A q \in Payment : CanRecover(q) => CanRecover(q)'
           /\ CanRecover(p)'
<1>1. events \in [Payment -> Nat] /\ checks \in [Payment -> Nat]
  BY InvitesAssumption DEF IInv, RestOK
<1>2. \A q \in Payment : q # p => events'[q] = events[q] /\ checks'[q] = checks[q]
  BY <1>1
<1>3. events'[p] + checks'[p] = events[p] + checks[p] + 1
  <2>1. CASE events' = [events EXCEPT ![p] = @ + 1] /\ checks' = checks
    BY <1>1, <2>1
  <2>2. CASE checks' = [checks EXCEPT ![p] = @ + 1] /\ events' = events
    BY <1>1, <2>2
  <2> QED BY <2>1, <2>2
<1>4. events[p] \in Nat /\ checks[p] \in Nat
  BY <1>1
<1>5. events[p] + checks[p] \in Nat /\ events'[p] + checks'[p] > 0
  BY <1>3, <1>4
<1>6. Reported' = Reported \cup {p}
  BY <1>2, <1>5 DEF Reported
<1>7. ASSUME AtMostOnce' PROVE AtMostOnce /\ Cardinality(Reported') = Cardinality(Reported) + 1
  <2>1. events[p] + checks[p] = 0
    BY <1>3, <1>5, <1>7 DEF AtMostOnce
  <2>2. p \notin Reported
    BY <2>1 DEF Reported
  <2>3. AtMostOnce
    <3>1. ASSUME NEW q \in Payment PROVE events[q] + checks[q] <= 1
      BY <1>2, <1>7, <2>1 DEF AtMostOnce
    <3> QED BY <3>1 DEF AtMostOnce
  <2> QED BY <1>6, <2>2, <2>3, Numbers, FS_AddElement
<1>8. \A q \in Payment : CanRecover(q) => CanRecover(q)'
  BY <1>2, <1>5 DEF CanRecover
<1> QED BY <1>5, <1>6, <1>7, <1>8 DEF CanRecover

\* A payment that is reported is on its way to the invite.
LEMMA ReportSerial ==
    ASSUME IInv, SerialInv, NEW g \in Workers, Event(g) \/ Reconcile(g) PROVE SerialInv'
<1>1. PICK p \in settled, via \in {"webhook", "reconcile"} :
         /\ \/ events' = [events EXCEPT ![p] = @ + 1] /\ checks' = checks
            \/ checks' = [checks EXCEPT ![p] = @ + 1] /\ events' = events
         /\ Begin(g, p, via)
  BY DEF Event, Reconcile
<1> DEFINE k == [Idle EXCEPT !.pc = "unlock", !.payment = p, !.via = via]
<1>2. UNCHANGED <<mode, invite, late, settled, users, budget>>
  BY DEF Event, Reconcile
<1>3. p \in Payment
  BY SettledOK
<1>4. /\ worker' = [worker EXCEPT ![g] = k] /\ ~Busy(g)
      /\ Serial => \A h \in Workers : ~Busy(h)
  BY <1>1 DEF Begin, Start, Busy, Serial
<1>5. /\ k.pc = "unlock" /\ k.payment = p /\ k.copy = Gone
  BY DEF Idle
<1> HIDE DEF k
<1>6. /\ Reported' = Reported \cup {p}
      /\ AtMostOnce' => AtMostOnce /\ Cardinality(Reported') = Cardinality(Reported) + 1
      /\ \A q \in Payment : CanRecover(q) => CanRecover(q)'
      /\ CanRecover(p)'
  BY <1>1, <1>3, FirstReport
<1>7. Reported' \subseteq settled'
  BY <1>2, <1>6 DEF SerialInv
<1>8. worker[g].pc = "idle"
  BY <1>4 DEF Busy
<1>9. ASSUME Serial, KeptInv(worker[g]), Acting' = k PROVE KeptInv(Acting)'
  <2>1. Gone.paidBy = None
    BY DEF Gone
  <2>2. invite.paidBy \in Payment \cup {None}
    BY DEF IInv, StoredOK, Invite
  <2>3. Known(invite)'
    BY <1>2, <1>6, <1>9, <2>2 DEF KeptInv, Known
  <2>4. Known(Acting.copy)'
    BY <1>5, <1>9, <2>1 DEF Known
  <2> QED BY <1>5, <1>6, <1>9, <2>3, <2>4 DEF KeptInv
<1>10. ASSUME Limited, LimitInv(worker[g]), Acting' = k PROVE LimitInv(Acting)'
  <2>1. Limit' = Limit /\ Gone.there = FALSE
    BY <1>2 DEF Limit, Crashed, Gone
  <2>2. UsesAddUp(invite, Acting)'
    BY <1>2, <1>5, <1>8, <1>10, <2>1 DEF LimitInv, UsesAddUp, Pending
  <2>3. UsesAddUp(Acting.copy, Acting)'
    BY <1>5, <1>10, <2>1 DEF UsesAddUp
  <2> QED BY <1>2, <1>5, <1>10, <2>1, <2>2, <2>3 DEF LimitInv
<1>11. ASSUME Charged', PaidInv(worker[g]), Acting' = k PROVE PaidInv(Acting)'
  <2>1. Cardinality(Reported') = Cardinality(Reported) + 1
    BY <1>6, <1>11 DEF Charged
  <2>2. Invited' = Invited /\ Crashed' = Crashed /\ Credit' = Cardinality(Reported') + Crashed'
    BY <1>2 DEF Invited, Crashed, Credit
  <2>3. Credit' = Credit + 1 /\ Credit \in Int /\ Cardinality(Invited) \in Nat
    BY <2>1, <2>2, Numbers DEF Credit
  <2>4. Pending(Acting)' = 0 /\ Pending(worker[g]) = 0
    BY <1>5, <1>8, <1>11 DEF Pending
  <2>5. /\ Cardinality(Invited) <= Credit
        /\ invite.there /\ invite.paidBy # None /\ ~late => Cardinality(Invited) + 1 <= Credit
    BY <1>8, <1>11, <2>3, <2>4 DEF PaidInv
  <2>6. Acting'.pc = "unlock"
    BY <1>5, <1>11
  <2> QED BY <1>2, <2>2, <2>3, <2>4, <2>5, <2>6 DEF PaidInv
<1> QED BY <1>2, <1>4, <1>5, <1>6, <1>7, <1>9, <1>10, <1>11, SerialStep

\* So does a step of a handler that reports no payment and lets nobody in.
LEMMA QuietStep ==
    ASSUME IInv, SerialInv, NEW g \in Workers, NEW k,
           worker' = [worker EXCEPT ![g] = k], k.pc = "idle" => k = Idle,
           Serial => Busy(g) \/ \A h \in Workers : ~Busy(h),
           UNCHANGED <<mode, events, checks, settled, users>>, budget'.crashes = budget.crashes,
           Serial /\ KeptInv(worker[g]) /\ Acting' = k => KeptInv(Acting)',
           Limited /\ KeptInv(worker[g]) /\ LimitInv(worker[g]) /\ Acting' = k => LimitInv(Acting)',
           Charged /\ KeptInv(worker[g]) /\ PaidInv(worker[g]) /\ Acting' = k => PaidInv(Acting)'
    PROVE  SerialInv'
<1>1. Reported' = Reported /\ (AtMostOnce' <=> AtMostOnce) /\ (Charged' <=> Charged)
  BY Quiet
<1>2. Reported' \subseteq settled'
  BY <1>1 DEF SerialInv
<1> QED BY <1>1, <1>2, SerialStep

\* Nobody's step leaves the handler at work to its work.
LEMMA Still == ASSUME UNCHANGED worker PROVE Acting' = Acting /\ (Alone' <=> Alone)
<1>1. \A g : Busy(g)' <=> Busy(g)
  BY DEF Busy
<1> QED BY <1>1 DEF Acting, Alone

\* The payment goes from the handler to the invite.
LEMMA UnlockSerial ==
    ASSUME IInv, SerialInv, NEW g \in Workers, ReadUnlock(g) \/ Unlock(g) \/ Mark(g)
    PROVE  SerialInv'
<1> DEFINE old == worker[g]
<1>0. old \in Worker /\ old.copy \in Invite /\ invite \in Invite
  BY DEF IInv, WorkersOK, StoredOK, Worker
<1>1. UNCHANGED <<mode, late, events, checks, settled, users, budget>> /\ Busy(g)
  BY DEF ReadUnlock, Unlock, Mark, money, Busy
<1>2. /\ Reported' = Reported /\ Invited' = Invited
      /\ Limit' = Limit /\ Credit' = Credit
      /\ \A p : CanRecover(p)' <=> CanRecover(p)
  BY <1>1, Quiet
<1>3. Gone.there = FALSE /\ Gone.paidBy = None /\ Idle.pc = "idle" /\ Idle.copy = Gone
  BY DEF Gone, Idle
<1>4. Limit \in Int /\ Credit \in Int /\ Cardinality(Invited) \in Nat /\ Cardinality(users) \in Nat
  BY Numbers
<1>5. CASE Mark(g) \/ (ReadUnlock(g) /\ End(g))
  <2>1. worker' = [worker EXCEPT ![g] = Idle] /\ invite' = invite
        /\ old.pc \in {"unlock", "mark"}
    BY <1>5 DEF Mark, ReadUnlock, End
  <2>2. ASSUME KeptInv(old), Acting' = Idle PROVE KeptInv(Acting)'
    BY <1>2, <1>3, <2>1, <2>2 DEF KeptInv, Known
  <2>3. ASSUME LimitInv(old), Acting' = Idle PROVE LimitInv(Acting)'
    BY <1>1, <1>2, <1>3, <2>1, <2>3 DEF LimitInv, UsesAddUp, Pending
  <2>4. ASSUME PaidInv(old), Acting' = Idle PROVE PaidInv(Acting)'
    BY <1>1, <1>2, <1>3, <1>4, <2>1, <2>4 DEF PaidInv, Pending
  <2> QED BY <1>1, <2>1, <2>2, <2>3, <2>4, QuietStep
<1>6. CASE ReadUnlock(g) /\ ~End(g)
  <2> DEFINE k == [old EXCEPT !.copy = invite]
  <2>1. /\ worker' = [worker EXCEPT ![g] = k] /\ invite' = invite
        /\ old.pc = "unlock" /\ k.pc = "unlock" /\ k.payment = old.payment /\ k.copy = invite
    BY <1>0, <1>6 DEF ReadUnlock, Worker
  <2> HIDE DEF k
  <2>2. ASSUME KeptInv(old), Acting' = k PROVE KeptInv(Acting)'
    BY <1>2, <2>1, <2>2 DEF KeptInv, Known
  <2>3. ASSUME LimitInv(old), Acting' = k PROVE LimitInv(Acting)'
    BY <1>1, <1>2, <2>1, <2>3 DEF LimitInv, UsesAddUp, Pending
  <2>4. ASSUME PaidInv(old), Acting' = k PROVE PaidInv(Acting)'
    BY <1>1, <1>2, <2>1, <2>4 DEF PaidInv, Pending
  <2> QED BY <1>1, <2>1, <2>2, <2>3, <2>4, QuietStep
<1>7. CASE Unlock(g)
  <2> DEFINE k == [old EXCEPT !.pc = "mark", !.copy = Gone]
  <2>1. /\ worker' = [worker EXCEPT ![g] = k]
        /\ old.pc = "unlock" /\ k.pc = "mark" /\ k.payment = old.payment /\ k.copy = Gone
    BY <1>0, <1>7 DEF Unlock, Worker
  <2>2. /\ invite' = [old.copy EXCEPT !.paidBy = old.payment] /\ old.copy.there
        /\ invite'.paidBy = old.payment /\ invite'.uses = old.copy.uses /\ invite'.there
    BY <1>0, <1>7 DEF Unlock, Invite
  <2> HIDE DEF k
  <2>3. ASSUME KeptInv(old), Acting' = k PROVE KeptInv(Acting)'
    BY <1>2, <1>3, <2>1, <2>2, <2>3 DEF KeptInv, Known
  <2>4. ASSUME LimitInv(old), Acting' = k PROVE LimitInv(Acting)'
    BY <1>1, <1>2, <1>3, <2>1, <2>2, <2>4 DEF LimitInv, UsesAddUp, Pending
  <2>5. ASSUME PaidInv(old), Acting' = k PROVE PaidInv(Acting)'
    BY <1>1, <1>2, <1>3, <1>4, <2>1, <2>2, <2>5 DEF PaidInv, Pending
  <2> QED BY <1>1, <2>1, <2>3, <2>4, <2>5, QuietStep
<1> QED BY <1>5, <1>6, <1>7

\* A request is let in while there is a use left, and, where a payment is required, while
\* there is one to be used.
LEMMA EnterSerial ==
    ASSUME IInv, SerialInv, NEW g \in Workers, SignUp(g) \/ Authorize(g) \/ OpenLink(g)
    PROVE  SerialInv'
<1> DEFINE old == worker[g]
<1>0. old \in Worker /\ old.copy \in Invite /\ invite \in Invite /\ invite.uses \in Nat
  BY DEF IInv, WorkersOK, StoredOK, Worker, Invite
<1>1. UNCHANGED <<mode, invite, late, money, users, budget>>
  BY DEF SignUp, Authorize, OpenLink
<1>2. UNCHANGED <<events, checks, settled>> /\ budget'.crashes = budget.crashes
  BY <1>1 DEF money
<1>3. /\ Reported' = Reported /\ Invited' = Invited
      /\ Limit' = Limit /\ Credit' = Credit
      /\ \A p : CanRecover(p)' <=> CanRecover(p)
  BY <1>1, <1>2, Quiet
<1>4. Gone.there = FALSE /\ Gone.paidBy = None /\ Idle.pc = "idle" /\ Idle.copy = Gone
  BY DEF Gone, Idle
<1>5. Limit \in Int /\ Credit \in Int /\ Cardinality(Invited) \in Nat /\ Cardinality(users) \in Nat
  BY Numbers
<1>6. CASE SignUp(g) /\ mode.confirm
  <2>1. Acting' = Acting /\ (Alone' <=> Alone) /\ (Serial' <=> Serial) /\ ~Limited' /\ ~Charged'
    BY <1>1, <1>6, Still DEF SignUp, Serial, Limited, Charged
  <2>2. Serial => KeptInv(Acting)'
    BY <1>1, <1>3, <2>1 DEF SerialInv, KeptInv, Known
  <2>3. Reported' \subseteq settled'
    BY <1>2, <1>3 DEF SerialInv
  <2> QED BY <2>1, <2>2, <2>3 DEF SerialInv
<1>7. CASE SignUp(g) /\ ~mode.confirm
  <2>1. PICK b \in Browsers :
           /\ invite.there /\ ~late
           /\ Start(g, [Idle EXCEPT !.pc = "authorize", !.by = b, !.payment = cookie[b]])
    BY <1>7 DEF SignUp
  <2> DEFINE k == [Idle EXCEPT !.pc = "authorize", !.by = b, !.payment = cookie[b]]
  <2>2. /\ worker' = [worker EXCEPT ![g] = k] /\ old.pc = "idle"
        /\ Serial => \A h \in Workers : ~Busy(h)
    BY <2>1 DEF Start, Serial, Busy
  <2>3. k.pc = "authorize" /\ k.copy = Gone
    BY DEF Idle
  <2> HIDE DEF k
  <2>4. ASSUME KeptInv(old), Acting' = k PROVE KeptInv(Acting)'
    BY <1>1, <1>3, <1>4, <2>2, <2>3, <2>4 DEF KeptInv, Known
  <2>5. ASSUME LimitInv(old), Acting' = k PROVE LimitInv(Acting)'
    <3>1. invite.uses # 0 /\ Cardinality(users) + invite.uses <= Limit
      BY <1>5, <2>1, <2>2, <2>5 DEF LimitInv, UsesAddUp, Pending
    <3>2. Cardinality(users) + 1 <= Limit
      BY <1>0, <1>5, <3>1
    <3> QED BY <1>1, <1>3, <1>5, <2>2, <2>3, <2>5, <3>2 DEF LimitInv, UsesAddUp, Pending
  <2>6. ASSUME PaidInv(old), Acting' = k PROVE PaidInv(Acting)'
    BY <1>1, <1>3, <1>4, <1>5, <2>1, <2>2, <2>3, <2>6 DEF PaidInv, Pending
  <2> QED BY <1>1, <1>2, <2>2, <2>3, <2>4, <2>5, <2>6, QuietStep
<1>8. CASE Authorize(g) /\ End(g)
  <2>1. worker' = [worker EXCEPT ![g] = Idle] /\ old.pc = "authorize"
    BY <1>8 DEF Authorize, End
  <2>2. ASSUME KeptInv(old), Acting' = Idle PROVE KeptInv(Acting)'
    BY <1>1, <1>3, <1>4, <2>1, <2>2 DEF KeptInv, Known
  <2>3. ASSUME LimitInv(old), Acting' = Idle PROVE LimitInv(Acting)'
    BY <1>1, <1>3, <1>4, <2>1, <2>3 DEF LimitInv, UsesAddUp, Pending
  <2>4. ASSUME PaidInv(old), Acting' = Idle PROVE PaidInv(Acting)'
    BY <1>1, <1>3, <1>4, <1>5, <2>1, <2>4 DEF PaidInv, Pending
  <2> QED BY <1>1, <1>2, <2>1, <2>2, <2>3, <2>4, QuietStep DEF Busy
<1>9. CASE Authorize(g) /\ ~End(g)
  <2> DEFINE inv == IF invite.there THEN invite ELSE Gone
             k == [old EXCEPT !.pc = "create", !.copy = inv]
  <2>1. /\ worker' = [worker EXCEPT ![g] = k] /\ old.pc = "authorize"
        /\ inv.there /\ Priced => inv.paidBy # None
    BY <1>9 DEF Authorize
  <2>2. k.pc = "create" /\ k.copy = inv
    BY <1>0 DEF Worker
  <2>3. (inv.there <=> invite.there) /\ (inv.there => inv = invite) /\ inv \in {invite, Gone}
    BY <1>4
  <2> HIDE DEF k, inv
  <2>4. ASSUME KeptInv(old), Acting' = k PROVE KeptInv(Acting)'
    BY <1>1, <1>3, <1>4, <2>1, <2>2, <2>3, <2>4 DEF KeptInv, Known
  <2>5. ASSUME LimitInv(old), Acting' = k PROVE LimitInv(Acting)'
    BY <1>1, <1>3, <1>4, <2>1, <2>2, <2>5 DEF LimitInv, UsesAddUp, Pending
  <2>6. ASSUME Charged, PaidInv(old), Acting' = k PROVE PaidInv(Acting)'
    <3>1. inv.there => Cardinality(Invited) + 1 <= Credit
      BY <1>5, <2>1, <2>3, <2>6 DEF PaidInv, Pending, Charged
    <3> QED BY <1>1, <1>3, <1>5, <2>1, <2>2, <2>6, <3>1 DEF PaidInv, Pending
  <2> QED BY <1>1, <1>2, <2>1, <2>2, <2>4, <2>5, <2>6, QuietStep DEF Busy
<1>10. CASE OpenLink(g)
  <2>1. PICK b \in keys :
           Start(g, [Idle EXCEPT !.pc = "create", !.by = b, !.copy = invite, !.linked = TRUE])
    BY <1>10 DEF OpenLink
  <2> DEFINE k == [Idle EXCEPT !.pc = "create", !.by = b, !.copy = invite, !.linked = TRUE]
  <2>2. /\ worker' = [worker EXCEPT ![g] = k] /\ old.pc = "idle"
        /\ Serial => \A h \in Workers : ~Busy(h)
    BY <2>1 DEF Start, Serial, Busy
  <2>3. k.pc = "create" /\ k.copy = invite
    BY DEF Idle
  <2> HIDE DEF k
  <2>4. ~Limited /\ ~Charged
    BY DEF IInv, RestOK, Limited, Charged
  <2>5. ASSUME KeptInv(old), Acting' = k PROVE KeptInv(Acting)'
    BY <1>1, <1>3, <2>2, <2>3, <2>5 DEF KeptInv, Known
  <2> QED BY <1>1, <1>2, <2>2, <2>3, <2>4, <2>5, QuietStep
<1> QED BY <1>6, <1>7, <1>8, <1>9, <1>10

\* One element more makes a set at most one larger.
LEMMA OneMore ==
    ASSUME NEW S, IsFiniteSet(S), NEW x
    PROVE  Cardinality(S \cup {x}) \in Nat /\ Cardinality(S \cup {x}) <= Cardinality(S) + 1
<1>1. Cardinality(S) \in Nat
  BY FS_CardinalityType
<1>2. CASE x \in S
  <2>1. S \cup {x} = S
    BY <1>2
  <2> QED BY <1>1, <2>1
<1>3. CASE x \notin S
  <2>1. Cardinality(S \cup {x}) = Cardinality(S) + 1
    BY <1>3, FS_AddElement
  <2> QED BY <1>1, <2>1
<1> QED BY <1>2, <1>3

\* The user who is let in takes the room, and the payment, that was there.
LEMMA CreateSerial == ASSUME IInv, SerialInv, NEW g \in Workers, Create(g) PROVE SerialInv'
<1> DEFINE old == worker[g]
<1>0. old \in Worker /\ old.copy \in Invite
  BY DEF IInv, WorkersOK, Worker
<1>1. /\ UNCHANGED <<mode, invite, late, events, checks, settled, budget>>
      /\ old.pc = "create" /\ Busy(g)
  BY DEF Create, money, Busy
<1>2. Gone.there = FALSE /\ Gone.paidBy = None /\ Idle.pc = "idle" /\ Idle.copy = Gone
  BY DEF Gone, Idle
<1>3. Limit \in Int /\ Credit \in Int /\ Cardinality(Invited) \in Nat /\ Cardinality(users) \in Nat
  BY Numbers
<1>4. CASE End(g) /\ UNCHANGED users
  <2>1. worker' = [worker EXCEPT ![g] = Idle]
    BY <1>4 DEF End
  <2>2. /\ Invited' = Invited /\ Limit' = Limit /\ Credit' = Credit
        /\ \A p : CanRecover(p)' <=> CanRecover(p)
    BY <1>1, <1>4, Quiet
  <2>3. ASSUME KeptInv(old), Acting' = Idle PROVE KeptInv(Acting)'
    BY <1>1, <1>2, <2>2, <2>3 DEF KeptInv, Known
  <2>4. ASSUME LimitInv(old), Acting' = Idle PROVE LimitInv(Acting)'
    BY <1>1, <1>2, <1>4, <2>2, <2>4 DEF LimitInv, UsesAddUp, Pending
  <2>5. ASSUME PaidInv(old), Acting' = Idle PROVE PaidInv(Acting)'
    BY <1>1, <1>2, <1>3, <2>2, <2>5 DEF PaidInv, Pending
  <2> QED BY <1>1, <1>2, <1>4, <2>1, <2>3, <2>4, <2>5, QuietStep
<1>5. CASE /\ users' = users \cup {[id |-> Cardinality(users) + 1, by |-> old.by,
                                    claim |-> old.copy.paidBy, invited |-> old.copy.there]}
           /\ worker' = [worker EXCEPT ![g].pc = "check", ![g].copy = Gone]
  <2> DEFINE u == [id |-> Cardinality(users) + 1, by |-> old.by,
                   claim |-> old.copy.paidBy, invited |-> old.copy.there]
             k == [old EXCEPT !.pc = "check", !.copy = Gone]
  <2>1. worker' = [worker EXCEPT ![g] = k] /\ users' = users \cup {u}
    BY <1>5
  <2>2. k.pc = "check" /\ k.copy = Gone
    BY <1>0 DEF Worker
  <2>3. u.invited = old.copy.there
    OBVIOUS
  <2> HIDE DEF k, u
  <2>4. /\ Reported' = Reported /\ Limit' = Limit /\ Credit' = Credit
        /\ (AtMostOnce' <=> AtMostOnce) /\ (Charged' <=> Charged)
        /\ \A p : CanRecover(p)' <=> CanRecover(p)
    <3>1. Reported' = Reported /\ Crashed' = Crashed /\ (AtMostOnce' <=> AtMostOnce)
      BY <1>1 DEF Reported, Crashed, AtMostOnce
    <3> QED BY <1>1, <3>1 DEF Limit, Credit, Charged, CanRecover
  <2>5. Cardinality(users') <= Cardinality(users) + 1 /\ Cardinality(users') \in Nat
    BY <2>1, OneMore DEF IInv, UsersOK
  <2>6. /\ old.copy.there => Cardinality(Invited') <= Cardinality(Invited) + 1
        /\ ~old.copy.there => Invited' = Invited
        /\ Cardinality(Invited') \in Nat
    <3>1. IsFiniteSet(Invited)
      BY Numbers
    <3>2. CASE old.copy.there
      <4>1. Invited' = Invited \cup {u}
        BY <2>1, <2>3, <3>2 DEF Invited
      <4> QED BY <3>1, <3>2, <4>1, OneMore
    <3>3. CASE ~old.copy.there
      BY <1>3, <2>1, <2>3, <3>3 DEF Invited
    <3> QED BY <3>2, <3>3
  <2>7. ASSUME KeptInv(old), Acting' = k PROVE KeptInv(Acting)'
    BY <1>1, <1>2, <2>2, <2>4, <2>7 DEF KeptInv, Known
  <2>8. ASSUME LimitInv(old), Acting' = k PROVE LimitInv(Acting)'
    <3>1. Cardinality(users) + 1 <= Limit /\ UsesAddUp(invite, old) /\ Pending(old) = 0
      BY <1>1, <2>8 DEF LimitInv, Pending
    <3>2. Cardinality(users') <= Limit
      BY <1>3, <2>5, <3>1
    <3>3. invite.uses \in Nat
      BY DEF IInv, StoredOK, Invite
    <3>4. UsesAddUp(invite, Acting)'
      BY <1>1, <1>3, <2>2, <2>4, <2>5, <2>8, <3>1, <3>3 DEF UsesAddUp, Pending
    <3> QED BY <2>2, <2>4, <2>8, <3>2, <3>4 DEF LimitInv
  <2>9. ASSUME PaidInv(old), Acting' = k PROVE PaidInv(Acting)'
    <3>1. /\ Cardinality(Invited) <= Credit
          /\ old.copy.there => Cardinality(Invited) + 1 <= Credit
          /\ invite.there /\ invite.paidBy # None /\ ~late => Cardinality(Invited) + 1 <= Credit
      BY <1>1, <1>3, <2>9 DEF PaidInv, Pending
    <3>2. Cardinality(Invited') <= Credit
      BY <1>3, <2>6, <3>1
    <3>3. invite.there /\ invite.paidBy # None /\ ~late => Cardinality(Invited') + 1 <= Credit + 1
      BY <1>3, <2>6, <3>1
    <3>4. Pending(Acting)' = 1 /\ Acting'.pc = "check"
      BY <2>2, <2>9 DEF Pending
    <3>5. Cardinality(Invited') + 1 + 0 = Cardinality(Invited') + 1
      BY <2>6
    <3> QED BY <1>1, <2>4, <3>2, <3>3, <3>4, <3>5 DEF PaidInv
  <2>10. Reported' \subseteq settled'
    BY <1>1, <2>4 DEF SerialInv
  <2> QED BY <1>1, <2>1, <2>2, <2>4, <2>7, <2>8, <2>9, <2>10, SerialStep
<1> QED BY <1>4, <1>5 DEF Create

\* The use takes the user who is pending off the invite, and the payment with it.
LEMMA UseSerial ==
    ASSUME IInv, SerialInv, NEW g \in Workers, Check(g) \/ Use(g) PROVE SerialInv'
<1> DEFINE old == worker[g]
<1>0. old \in Worker /\ old.copy \in Invite /\ invite \in Invite
  BY DEF IInv, WorkersOK, StoredOK, Worker
<1>1. UNCHANGED <<mode, late, events, checks, settled, users, budget>> /\ Busy(g)
  BY DEF Check, Use, money, Busy
<1>2. /\ Reported' = Reported /\ Invited' = Invited
      /\ Limit' = Limit /\ Credit' = Credit
      /\ \A p : CanRecover(p)' <=> CanRecover(p)
  BY <1>1, Quiet
<1>3. Gone.there = FALSE /\ Gone.paidBy = None /\ Idle.pc = "idle" /\ Idle.copy = Gone
  BY DEF Gone, Idle
<1>4. Limit \in Int /\ Credit \in Int /\ Cardinality(Invited) \in Nat /\ Cardinality(users) \in Nat
  BY Numbers
<1>5. CASE Check(g) /\ ~invite.there
  <2>1. worker' = [worker EXCEPT ![g] = Idle] /\ invite' = invite /\ old.pc = "check"
    BY <1>5 DEF Check, Done, End
  <2>2. ASSUME KeptInv(old), Acting' = Idle PROVE KeptInv(Acting)'
    BY <1>2, <1>3, <2>1, <2>2 DEF KeptInv, Known
  <2>3. ASSUME LimitInv(old), Acting' = Idle PROVE LimitInv(Acting)'
    BY <1>1, <1>2, <1>3, <1>5, <2>1, <2>3 DEF LimitInv, UsesAddUp
  <2>4. ASSUME PaidInv(old), Acting' = Idle PROVE PaidInv(Acting)'
    BY <1>1, <1>2, <1>3, <1>5, <2>1, <2>4 DEF PaidInv
  <2> QED BY <1>1, <1>3, <2>1, <2>2, <2>3, <2>4, QuietStep
<1>6. CASE Check(g) /\ invite.there
  <2> DEFINE k == [old EXCEPT !.copy = invite, !.pc = IF late THEN "expire" ELSE "use"]
  <2>1. worker' = [worker EXCEPT ![g] = k] /\ invite' = invite /\ old.pc = "check"
    BY <1>6 DEF Check
  <2>2. k.copy = invite /\ (late => k.pc = "expire") /\ (~late => k.pc = "use")
    BY <1>0 DEF Worker
  <2> HIDE DEF k
  <2>3. ASSUME KeptInv(old), Acting' = k PROVE KeptInv(Acting)'
    BY <1>2, <1>6, <2>1, <2>2, <2>3 DEF KeptInv, Known
  <2>4. ASSUME LimitInv(old), Acting' = k PROVE LimitInv(Acting)'
    BY <1>1, <1>2, <2>1, <2>2, <2>4 DEF LimitInv, UsesAddUp, Pending
  <2>5. ASSUME PaidInv(old), Acting' = k PROVE PaidInv(Acting)'
    <3>1. /\ Cardinality(Invited) <= Credit
          /\ invite.there /\ invite.paidBy # None /\ ~late => Cardinality(Invited) + 1 + 0 <= Credit + 1
      BY <2>1, <2>5 DEF PaidInv, Pending
    <3> QED BY <1>1, <1>2, <1>4, <2>1, <2>2, <2>5, <3>1 DEF PaidInv, Pending
  <2> QED BY <1>1, <2>1, <2>2, <2>3, <2>4, <2>5, QuietStep
<1>7. CASE Use(g)
  <2>1. worker' = [worker EXCEPT ![g] = Idle] /\ invite' = Used(old.copy) /\ old.pc = "use"
    BY <1>7 DEF Use, Done, End
  <2>2. invite'.paidBy = None
    BY <1>0, <1>3, <2>1 DEF Used, Invite
  <2>3. /\ old.copy.uses = 1 => ~invite'.there
        /\ old.copy.uses \notin {0, 1} => invite'.uses = old.copy.uses - 1
        /\ old.copy.uses \in Nat
    BY <1>0, <1>3, <2>1 DEF Used, Invite
  <2>4. ASSUME KeptInv(old), Acting' = Idle PROVE KeptInv(Acting)'
    BY <1>2, <1>3, <2>2, <2>4 DEF KeptInv, Known
  <2>5. ASSUME KeptInv(old), LimitInv(old), Acting' = Idle PROVE LimitInv(Acting)'
    <3>1. /\ old.copy.uses # 0
          /\ ~late => Cardinality(users) + old.copy.uses <= Limit + 1
      BY <2>1, <2>5 DEF KeptInv, LimitInv, UsesAddUp, Pending
    <3>2. invite'.there => invite'.uses = old.copy.uses - 1 /\ invite'.uses # 0
      BY <2>3, <3>1
    <3>3. invite'.there /\ ~late => Cardinality(users) + invite'.uses <= Limit + 0
      BY <1>4, <2>3, <3>1, <3>2
    <3>4. Pending(Acting)' = 0
      BY <1>3, <2>5 DEF Pending
    <3>5. UsesAddUp(invite, Acting)'
      BY <1>1, <1>2, <3>2, <3>3, <3>4 DEF UsesAddUp
    <3> QED BY <1>1, <1>2, <1>3, <2>5, <3>5 DEF LimitInv
  <2>6. ASSUME PaidInv(old), Acting' = Idle PROVE PaidInv(Acting)'
    BY <1>2, <1>3, <2>2, <2>6 DEF PaidInv
  <2> QED BY <1>1, <1>3, <2>1, <2>4, <2>5, <2>6, QuietStep
<1> QED BY <1>5, <1>6, <1>7

\* What expiry discards is the invite it read, and that one carries no payment.
LEMMA ExpirySerial ==
    ASSUME IInv, SerialInv, NEW g \in Workers, Expire(g) \/ Preserve(g) \/ GiveUp(g) \/ Discard(g)
    PROVE  SerialInv'
<1> DEFINE old == worker[g]
<1>0. old \in Worker /\ old.copy \in Invite /\ invite \in Invite
  BY DEF IInv, WorkersOK, StoredOK, Worker
<1>1. UNCHANGED <<mode, late, events, checks, settled, users, budget>>
  BY DEF Expire, Preserve, GiveUp, Discard, money
<1>2. /\ Reported' = Reported /\ Invited' = Invited
      /\ Limit' = Limit /\ Credit' = Credit
      /\ \A p : CanRecover(p)' <=> CanRecover(p)
  BY <1>1, Quiet
<1>3. Gone.there = FALSE /\ Gone.paidBy = None /\ Idle.pc = "idle" /\ Idle.copy = Gone
  BY DEF Gone, Idle
<1>4. Limit \in Int /\ Credit \in Int /\ Cardinality(Invited) \in Nat /\ Cardinality(users) \in Nat
  BY Numbers
<1>5. CASE Expire(g)
  <2> DEFINE k == [Idle EXCEPT !.pc = "expire", !.copy = invite]
  <2>1. /\ worker' = [worker EXCEPT ![g] = k] /\ old.pc = "idle" /\ invite' = invite
        /\ Serial => \A h \in Workers : ~Busy(h)
    BY <1>5 DEF Expire, Start, Serial, Busy
  <2>2. k.pc = "expire" /\ k.copy = invite
    BY DEF Idle
  <2> HIDE DEF k
  <2>3. ASSUME KeptInv(old), Acting' = k PROVE KeptInv(Acting)'
    BY <1>2, <2>1, <2>2, <2>3 DEF KeptInv, Known
  <2>4. ASSUME LimitInv(old), Acting' = k PROVE LimitInv(Acting)'
    BY <1>1, <1>2, <2>1, <2>2, <2>4 DEF LimitInv, UsesAddUp, Pending
  <2>5. ASSUME PaidInv(old), Acting' = k PROVE PaidInv(Acting)'
    BY <1>1, <1>2, <2>1, <2>2, <2>5 DEF PaidInv, Pending
  <2> QED BY <1>1, <2>1, <2>2, <2>3, <2>4, <2>5, QuietStep
<1>6. CASE Preserve(g)
  <2>1. worker' = [worker EXCEPT ![g] = Idle] /\ invite' = invite /\ old.pc = "expire"
    BY <1>6 DEF Preserve, Done, End
  <2>2. ASSUME KeptInv(old), Acting' = Idle PROVE KeptInv(Acting)'
    BY <1>2, <1>3, <2>1, <2>2 DEF KeptInv, Known
  <2>3. ASSUME LimitInv(old), Acting' = Idle PROVE LimitInv(Acting)'
    BY <1>1, <1>2, <1>3, <2>1, <2>3 DEF LimitInv, UsesAddUp, Pending
  <2>4. ASSUME PaidInv(old), Acting' = Idle PROVE PaidInv(Acting)'
    BY <1>1, <1>2, <1>3, <2>1, <2>4 DEF PaidInv, Pending
  <2> QED BY <1>1, <1>3, <2>1, <2>2, <2>3, <2>4, QuietStep DEF Busy
<1>7. CASE GiveUp(g)
  <2> DEFINE k == [old EXCEPT !.pc = "discard"]
  <2>1. worker' = [worker EXCEPT ![g] = k] /\ invite' = invite /\ old.pc = "expire"
    BY <1>7 DEF GiveUp
  <2>2. k.pc = "discard" /\ k.copy = old.copy
    BY <1>0 DEF Worker
  <2> HIDE DEF k
  <2>3. Known(old.copy) => old.copy.paidBy = None
    BY <1>7 DEF GiveUp, Candidates, Known
  <2>4. ASSUME KeptInv(old), Acting' = k PROVE KeptInv(Acting)'
    BY <1>2, <2>1, <2>2, <2>3, <2>4 DEF KeptInv, Known
  <2>5. ASSUME LimitInv(old), Acting' = k PROVE LimitInv(Acting)'
    BY <1>1, <1>2, <2>1, <2>2, <2>5 DEF LimitInv, UsesAddUp, Pending
  <2>6. ASSUME PaidInv(old), Acting' = k PROVE PaidInv(Acting)'
    BY <1>1, <1>2, <2>1, <2>2, <2>6 DEF PaidInv, Pending
  <2> QED BY <1>1, <2>1, <2>2, <2>4, <2>5, <2>6, QuietStep DEF Busy
<1>8. CASE Discard(g)
  <2>1. worker' = [worker EXCEPT ![g] = Idle] /\ invite' = Gone /\ old.pc = "discard"
    BY <1>8 DEF Discard, Done, End
  <2>2. ASSUME KeptInv(old), Acting' = Idle PROVE KeptInv(Acting)'
    BY <1>2, <1>3, <2>1, <2>2 DEF KeptInv, Known
  <2>3. ASSUME LimitInv(old), Acting' = Idle PROVE LimitInv(Acting)'
    BY <1>1, <1>2, <1>3, <2>1, <2>3 DEF LimitInv, UsesAddUp, Pending
  <2>4. ASSUME PaidInv(old), Acting' = Idle PROVE PaidInv(Acting)'
    BY <1>1, <1>2, <1>3, <2>1, <2>4 DEF PaidInv, Pending
  <2> QED BY <1>1, <1>3, <2>1, <2>2, <2>3, <2>4, QuietStep DEF Busy
<1> QED BY <1>5, <1>6, <1>7, <1>8

\* An edit stores what it read, or brings that back.
LEMMA EditSerial ==
    ASSUME IInv, SerialInv, NEW g \in Workers, Edit(g) \/ StoreEdited(g) PROVE SerialInv'
<1> DEFINE old == worker[g]
<1>0. old \in Worker /\ old.copy \in Invite /\ invite \in Invite
  BY DEF IInv, WorkersOK, StoredOK, Worker
<1>1. UNCHANGED <<mode, late, events, checks, settled, users>> /\ budget'.crashes = budget.crashes
  BY DEF Edit, StoreEdited, money, IInv, RestOK
<1>2. /\ Reported' = Reported /\ Invited' = Invited
      /\ Limit' = Limit /\ Credit' = Credit
      /\ \A p : CanRecover(p)' <=> CanRecover(p)
  BY <1>1, Quiet
<1>3. Gone.there = FALSE /\ Gone.paidBy = None /\ Idle.pc = "idle" /\ Idle.copy = Gone
  BY DEF Gone, Idle
<1>4. Limit \in Int /\ Credit \in Int /\ Cardinality(Invited) \in Nat /\ Cardinality(users) \in Nat
  BY Numbers
<1>5. CASE Edit(g)
  <2> DEFINE k == [Idle EXCEPT !.pc = "store", !.copy = invite]
  <2>1. /\ worker' = [worker EXCEPT ![g] = k] /\ old.pc = "idle" /\ invite' = invite /\ invite.there
        /\ Serial => \A h \in Workers : ~Busy(h)
    BY <1>5 DEF Edit, Start, Serial, Busy
  <2>2. k.pc = "store" /\ k.copy = invite
    BY DEF Idle
  <2> HIDE DEF k
  <2>3. ASSUME KeptInv(old), Acting' = k PROVE KeptInv(Acting)'
    BY <1>2, <2>1, <2>2, <2>3 DEF KeptInv, Known
  <2>4. ASSUME LimitInv(old), Acting' = k PROVE LimitInv(Acting)'
    BY <1>1, <1>2, <2>1, <2>2, <2>4 DEF LimitInv, UsesAddUp, Pending
  <2>5. ASSUME PaidInv(old), Acting' = k PROVE PaidInv(Acting)'
    BY <1>1, <1>2, <1>4, <2>1, <2>2, <2>5 DEF PaidInv, Pending
  <2> QED BY <1>1, <2>1, <2>2, <2>3, <2>4, <2>5, QuietStep
<1>6. CASE StoreEdited(g)
  <2>1. worker' = [worker EXCEPT ![g] = Idle] /\ invite' = old.copy /\ old.pc = "store"
    BY <1>6 DEF StoreEdited, End
  <2>2. ASSUME KeptInv(old), Acting' = Idle PROVE KeptInv(Acting)'
    BY <1>2, <1>3, <2>1, <2>2 DEF KeptInv, Known
  <2>3. ASSUME LimitInv(old), Acting' = Idle PROVE LimitInv(Acting)'
    BY <1>1, <1>2, <1>3, <2>1, <2>3 DEF LimitInv, UsesAddUp, Pending
  <2>4. ASSUME PaidInv(old), Acting' = Idle PROVE PaidInv(Acting)'
    BY <1>1, <1>2, <1>3, <1>4, <2>1, <2>4 DEF PaidInv, Pending
  <2> QED BY <1>1, <1>3, <2>1, <2>2, <2>3, <2>4, QuietStep DEF Busy
<1> QED BY <1>5, <1>6

\* Steps of nobody: more checkouts and payments, the clock, the administrator's deletion.
LEMMA OutsideSerial ==
    ASSUME IInv, SerialInv, UNCHANGED vars \/ Checkout \/ Pays \/ TimePasses \/ DeleteInvite
    PROVE  SerialInv'
<1>1. /\ UNCHANGED <<mode, events, checks, users, worker>>
      /\ settled \subseteq settled' /\ budget'.crashes = budget.crashes
      /\ invite' \in {invite, Gone} /\ late' \in {late, TRUE}
  BY DEF vars, money, Checkout, Pays, TimePasses, DeleteInvite, IInv, RestOK
<1>2. /\ Reported' = Reported /\ Invited' = Invited
      /\ Limit' = Limit /\ Credit' = Credit
      /\ (Serial' <=> Serial) /\ (Limited' <=> Limited) /\ (Charged' <=> Charged)
      /\ \A p : CanRecover(p)' <=> CanRecover(p)
  BY <1>1, Quiet
<1>3. Acting' = Acting /\ (Alone' <=> Alone)
  BY <1>1, Still
<1>4. Gone.there = FALSE /\ Gone.paidBy = None
  BY DEF Gone
<1>5. ASSUME KeptInv(Acting) PROVE KeptInv(Acting)'
  BY <1>1, <1>2, <1>3, <1>4, <1>5 DEF KeptInv, Known
<1>6. ASSUME LimitInv(Acting) PROVE LimitInv(Acting)'
  <2>1. UsesAddUp(invite, Acting)'
    BY <1>1, <1>2, <1>3, <1>4, <1>6 DEF LimitInv, UsesAddUp, Pending
  <2>2. UsesAddUp(Acting.copy, Acting) => UsesAddUp(Acting.copy, Acting)'
    BY <1>1, <1>2, <1>3 DEF UsesAddUp, Pending
  <2> QED BY <1>1, <1>2, <1>3, <1>6, <2>1, <2>2 DEF LimitInv
<1>7. ASSUME PaidInv(Acting) PROVE PaidInv(Acting)'
  BY <1>1, <1>2, <1>3, <1>4, <1>7 DEF PaidInv, Pending
<1> QED BY <1>1, <1>2, <1>3, <1>5, <1>6, <1>7 DEF SerialInv

\* A crash forgets the handler at work: the user who was pending is let in by it.
LEMMA CrashSerial == ASSUME IInv, SerialInv, Crash PROVE SerialInv'
<1>1. UNCHANGED <<mode, invite, late, events, checks, settled, users>>
      /\ worker' = [g \in Workers |-> Idle] /\ Crashed' = Crashed + 1
  <2>1. mode.crashes \in Nat /\ budget.crashes \in Nat
    BY InvitesAssumption DEF IInv, RestOK
  <2>2. budget'.crashes = budget.crashes - 1 /\ mode' = mode
    BY DEF Crash, IInv, RestOK
  <2>3. Crashed' = Crashed + 1
    BY <2>1, <2>2 DEF Crashed
  <2> QED BY <2>3 DEF Crash, money
<1>2. /\ Reported' = Reported /\ Invited' = Invited
      /\ (Serial' <=> Serial) /\ (Limited' <=> Limited) /\ (Charged' <=> Charged)
      /\ \A p : CanRecover(p)' <=> CanRecover(p)
  <2>1. Reported' = Reported /\ Invited' = Invited /\ (AtMostOnce' <=> AtMostOnce)
    BY <1>1 DEF Reported, Invited, AtMostOnce
  <2> QED BY <1>1, <2>1 DEF Serial, Limited, Charged, CanRecover
<1>3. Gone.there = FALSE /\ Gone.paidBy = None /\ Idle.pc = "idle" /\ Idle.copy = Gone
  BY DEF Gone, Idle
<1>4. Limit' = Limit + 1 /\ Credit' = Credit + 1
  <2>1. mode.uses \in Nat
    BY InvitesAssumption DEF IInv
  <2> QED BY <1>1, <1>2, <2>1, Numbers DEF Limit, Credit
<1>5. Limit \in Int /\ Credit \in Int /\ Cardinality(Invited) \in Nat /\ Cardinality(users) \in Nat
      /\ invite.uses \in Nat
  BY Numbers DEF IInv, StoredOK, Invite
<1>6. Acting' = Idle /\ Alone'
  <2>1. \A g \in Workers : worker'[g] = Idle /\ ~Busy(g)'
    BY <1>1, <1>3 DEF Busy
  <2> QED BY <2>1 DEF Acting, Alone
<1>7. ASSUME KeptInv(Acting) PROVE KeptInv(Acting)'
  BY <1>1, <1>2, <1>3, <1>6, <1>7 DEF KeptInv, Known
<1>8. ASSUME LimitInv(Acting) PROVE LimitInv(Acting)'
  <2>1. Cardinality(users) <= Limit /\ UsesAddUp(invite, Acting)
        /\ Pending(Acting) \in {0, 1} /\ Pending(Acting)' = 0
    BY <1>3, <1>6, <1>8 DEF LimitInv, Pending
  <2>2. UsesAddUp(invite, Acting)'
    BY <1>1, <1>4, <1>5, <2>1 DEF UsesAddUp
  <2>3. Cardinality(users) <= Limit + 1
    BY <1>5, <2>1
  <2> QED BY <1>1, <1>3, <1>4, <1>6, <2>2, <2>3 DEF LimitInv
<1>9. ASSUME PaidInv(Acting) PROVE PaidInv(Acting)'
  <2>1. /\ Cardinality(Invited) <= Credit
        /\ invite.there /\ invite.paidBy # None /\ ~late =>
               Cardinality(Invited) + 1 <= Credit + 1
    BY <1>5, <1>9 DEF PaidInv, Pending
  <2>2. Pending(Acting)' = 0 /\ Acting'.pc = "idle"
    BY <1>3, <1>6 DEF Pending
  <2> QED BY <1>1, <1>2, <1>4, <1>5, <2>1, <2>2 DEF PaidInv
<1> QED BY <1>1, <1>2, <1>6, <1>7, <1>8, <1>9 DEF SerialInv

\* Every step keeps the invariant.
LEMMA SerialInductive == IInv /\ SerialInv /\ [Next]_vars => SerialInv'
<1> SUFFICES ASSUME IInv, SerialInv, [Next]_vars PROVE SerialInv'
  OBVIOUS
<1>1. ASSUME NEW g \in Workers, Handler(g) PROVE SerialInv'
  BY <1>1, ReportSerial, UnlockSerial, EnterSerial, CreateSerial, UseSerial, ExpirySerial,
     EditSerial DEF Handler
<1> QED BY <1>1, OutsideSerial, CrashSerial DEF Next

\* Nobody is at work initially.
LEMMA SerialInitially == Init => SerialInv
<1> SUFFICES ASSUME Init PROVE SerialInv
  OBVIOUS
<1>1. Gone.there = FALSE /\ Gone.paidBy = None /\ Idle.pc = "idle" /\ Idle.copy = Gone
  BY DEF Gone, Idle
<1>2. \A g \in Workers : worker[g] = Idle /\ ~Busy(g)
  BY <1>1 DEF Init, Busy
<1>3. Acting = Idle /\ Alone
  BY <1>2 DEF Acting, Alone
<1>4. /\ Cardinality(users) = 0 /\ Cardinality(Invited) = 0
      /\ Reported = {} /\ Cardinality(Reported) = 0
  <2>1. users = {} /\ Invited = {}
    BY DEF Init, Invited
  <2>2. \A p \in Payment : events[p] = 0 /\ checks[p] = 0
    BY DEF Init
  <2>3. Reported = {}
    BY <2>2 DEF Reported
  <2> QED BY <2>1, <2>3, FS_EmptySet
<1>5. Crashed = 0 /\ mode.uses \in Nat
  BY InvitesAssumption DEF Init, Crashed
<1>6. Limit = mode.uses /\ Credit = 0
  BY <1>4, <1>5 DEF Limit, Credit
<1>7. invite.there /\ invite.uses = mode.uses /\ invite.paidBy = None
  BY DEF Init
<1>8. KeptInv(Acting)
  BY <1>1, <1>3, <1>7 DEF KeptInv, Known
<1>9. Limited => LimitInv(Acting)
  BY <1>1, <1>3, <1>4, <1>5, <1>6, <1>7 DEF Limited, LimitInv, UsesAddUp, Pending
<1>10. PaidInv(Acting)
  BY <1>1, <1>3, <1>4, <1>6, <1>7 DEF PaidInv
<1> QED BY <1>3, <1>4, <1>8, <1>9, <1>10 DEF SerialInv

-----------------------------------------------------------------------------
(* Theorems.                                                               *)

\* The invariant holds in every reachable state.
LEMMA SerialInvariance == Spec => []SerialInv
BY Invariance, SerialInitially, SerialInductive, PTL DEF Spec

\* With handlers one after the other no more users are let in than the invite has uses,
\* but for one per crash between the user's creation and the invite's use: for every
\* limit, and however edits and the administrator's deletion fall between their steps.
THEOREM LimitsHold == Spec => []WithinLimit
BY SerialInvariance, LimitKept, PTL

\* "Multi-use paid invites require a separate payment for each use", with handlers one
\* after the other, as long as no payment is reported twice.
THEOREM UsesArePaid == Spec => []EachUseIsPaid
BY Invariance, SerialInvariance, PaidFor, PTL

\* A step of a handler that takes a paid invite away is its use.
LEMMA OnlyUseTakesAway ==
    ASSUME IInv, SerialInv, Serial, NEW g \in Workers, Handler(g),
           invite.there, invite.paidBy # None, ~invite'.there
    PROVE  worker[g].pc = "use"
<1>1. Unlock(g) \/ Use(g) \/ Discard(g) \/ StoreEdited(g)
  BY DEF Handler, Event, Reconcile, ReadUnlock, Mark, SignUp, Authorize, OpenLink, Create, Check,
         Expire, Preserve, GiveUp, Edit
<1>2. ~Unlock(g)
  <2>1. worker[g].copy \in Invite
    BY DEF IInv, WorkersOK, Worker
  <2> QED BY <2>1 DEF Unlock, Invite
<1>3. CASE Use(g)
  BY <1>3 DEF Use
<1>4. CASE Discard(g) \/ StoreEdited(g)
  <2>1. Busy(g)
    BY <1>4 DEF Discard, StoreEdited, Busy
  <2>2. KeptInv(worker[g])
    BY <2>1, AtWork DEF SerialInv
  <2> QED BY <1>4, <2>2 DEF KeptInv, Discard, StoreEdited
<1> QED BY <1>1, <1>2, <1>3, <1>4

\* A paid use is not lost: with handlers one after the other, only its use or the
\* administrator takes a paid invite away, however late it is.
THEOREM PaidInvitesStay == Spec => PaidInviteKept
<1>1. IInv /\ SerialInv /\ [Next]_vars =>
          [~mode.overlap /\ invite.there /\ invite.paidBy # None /\ ~invite'.there =>
              budget'.deletes < budget.deletes
              \/ \E g \in Workers : worker[g].pc = "use"]_<<mode, invite, worker, budget>>
  <2> SUFFICES ASSUME IInv, SerialInv, [Next]_vars,
                      Serial, invite.there, invite.paidBy # None, ~invite'.there
               PROVE  budget'.deletes < budget.deletes \/ \E g \in Workers : worker[g].pc = "use"
    BY DEF Serial
  <2>1. CASE DeleteInvite
    <3>1. budget.deletes \in Nat
      BY InvitesAssumption DEF IInv, RestOK
    <3>2. budget'.deletes = budget.deletes - 1
      BY <2>1 DEF DeleteInvite, IInv, RestOK
    <3> QED BY <3>1, <3>2
  <2>2. ASSUME NEW g \in Workers, Handler(g) PROVE worker[g].pc = "use"
    BY <2>2, OnlyUseTakesAway
  <2>3. ~(UNCHANGED vars \/ Checkout \/ Pays \/ TimePasses \/ Crash)
    BY DEF vars, Checkout, Pays, TimePasses, Crash
  <2> QED BY <2>1, <2>2, <2>3 DEF Next
<1> QED BY <1>1, Invariance, SerialInvariance, PTL DEF Spec, PaidInviteKept

=============================================================================
