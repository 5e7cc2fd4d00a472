-------------------------- MODULE UserExpiry_proofs --------------------------
(***************************************************************************)
(* Proofs about UserExpiry, for every number of handlers and purchases,    *)
(* every configuration and every bound.                                    *)
(***************************************************************************)
EXTENDS UserExpiry, TLAPS

-----------------------------------------------------------------------------
(* Types.                                                                  *)

\* The parts of a state a handler works on.
DataOK ==
    /\ mode \in Mode
    /\ now \in 0..MaxTime
    /\ account \in Account /\ known \in BOOLEAN
    /\ expiry \in Expiry
    /\ stripe \in Subscription /\ row \in Subscription
    /\ bought \subseteq Txn /\ fulfilled \subseteq Txn
    /\ budget \in Bounds

\* A handler of a purchase knows which.
Named(w) == w.pc \in {"lookup", "read", "write", "reenable", "mark"} => w.txn \in Txn

WorkersOK ==
    /\ worker \in [Handlers -> Worker]
    /\ \A h \in Handlers : Named(worker[h])

\* Spending leaves the counters natural numbers: only what is above 0 is spent.
LEMMA SpendType ==
    ASSUME budget \in Bounds,
           NEW what \in {"changes", "events", "admin", "pardons", "fails", "restarts"},
           Spend(what)
    PROVE  budget' \in Bounds
<1>1. budget[what] \in Nat /\ budget[what] > 0
  BY DEF Bounds, Spend
<1>2. budget[what] - 1 \in Nat
  BY <1>1
<1>3. CASE what = "changes"  BY <1>2, <1>3 DEF Bounds, Spend
<1>4. CASE what = "events"   BY <1>2, <1>4 DEF Bounds, Spend
<1>5. CASE what = "admin"    BY <1>2, <1>5 DEF Bounds, Spend
<1>6. CASE what = "pardons"  BY <1>2, <1>6 DEF Bounds, Spend
<1>7. CASE what = "fails"    BY <1>2, <1>7 DEF Bounds, Spend
<1>8. CASE what = "restarts" BY <1>2, <1>8 DEF Bounds, Spend
<1> QED BY <1>3, <1>4, <1>5, <1>6, <1>7, <1>8

LEMMA FailType ==
    ASSUME budget \in Bounds, Fail PROVE budget' \in Bounds
BY SpendType DEF Fail

\* Setting the account's status, or failing to.
LEMMA SetStatusType ==
    ASSUME budget \in Bounds, account \in Account,
           NEW status \in {"enabled", "disabled"}, SetStatus(status)
    PROVE  budget' \in Bounds /\ account' \in Account
<1>1. CASE Exists /\ Fail /\ UNCHANGED account
  BY <1>1, FailType
<1> QED BY <1>1 DEF SetStatus, Account

\* The values that are stored as an expiry.
LEMMA ExpiryValues ==
    /\ NoExpiry \in Expiry
    /\ \A t \in Int : Until(t) \in Expiry
    /\ \A e \in Expiry, t \in Txn : now \in Int => Extended(e, t) \in Expiry
<1>1. NoExpiry \in Expiry
  BY DEF NoExpiry, Expiry
<1>2. \A t \in Int : Until(t) \in Expiry
  BY <1>1 DEF Until, Expiry
<1>3. ASSUME NEW e \in Expiry, NEW t \in Txn, now \in Int PROVE Extended(e, t) \in Expiry
  <2>1. Period \in Int /\ e.at \in Int
    BY ExpiryAssumption DEF Expiry
  <2>2. (IF e.at < now THEN now ELSE e.at) + Period \in Int
    BY <2>1, <1>3
  <2> QED BY <2>2 DEF Extended, Expiry
<1> QED BY <1>1, <1>2, <1>3

\* Idle and a handler that begins or goes on are well-formed.
LEMMA WorkerValues ==
    /\ Idle \in Worker /\ Named(Idle)
    /\ \A h \in Handlers : WorkersOK /\ End(h) => WorkersOK'
    /\ \A h \in Handlers, rec \in Worker : WorkersOK /\ Named(rec) /\ Start(h, rec) => WorkersOK'
    /\ \A h \in Handlers, pc \in {"read", "mark", "reenable"} :
          WorkersOK /\ worker[h].txn \in Txn /\ Go(h, pc) => WorkersOK'
    /\ \A h \in Handlers : WorkersOK /\ Go(h, "disable") => WorkersOK'
<1>1. Idle \in Worker /\ Named(Idle)
  BY ExpiryValues DEF Idle, Worker, Named
<1>2. ASSUME NEW h \in Handlers, NEW rec \in Worker, Named(rec), WorkersOK,
             worker' = [worker EXCEPT ![h] = rec]
      PROVE  WorkersOK'
  BY <1>2 DEF WorkersOK
<1>3. ASSUME NEW h \in Handlers, NEW pc \in {"read", "mark", "reenable", "disable"}, WorkersOK,
             pc # "disable" => worker[h].txn \in Txn, Go(h, pc)
      PROVE  WorkersOK'
  <2> DEFINE k == [worker[h] EXCEPT !.pc = pc]
  <2>1. k \in Worker /\ Named(k)
    BY <1>3 DEF WorkersOK, Worker, Named
  <2>2. worker' = [worker EXCEPT ![h] = k]
    BY <1>3 DEF WorkersOK, Worker, Go
  <2> HIDE DEF k
  <2> QED BY <1>2, <1>3, <2>1, <2>2
<1> QED BY <1>1, <1>2, <1>3 DEF End, Start

-----------------------------------------------------------------------------
(* What handlers do.                                                       *)

LEMMA HandlerType ==
    ASSUME DataOK, WorkersOK, NEW h \in Handlers, Goes(h)
    PROVE  DataOK' /\ WorkersOK'
<1> USE WorkerValues
<1>0. /\ now \in Int /\ now - 1 \in Int /\ Period \in Int
      /\ worker[h] \in Worker /\ worker[h].copy \in Expiry /\ Named(worker[h])
  BY ExpiryAssumption DEF DataOK, WorkersOK, Worker
<1>1. CASE Limit(h)
  <2>1. expiry' \in Expiry
    BY <1>0, <1>1, ExpiryValues DEF Limit
  <2> QED BY <1>1, <2>1 DEF Limit, DataOK, purchases
<1>2. CASE Lookup(h)
  <2>1. budget' \in Bounds
    BY <1>2, FailType DEF Lookup, DataOK
  <2>2. expiry' \in Expiry /\ known' \in BOOLEAN
    BY <1>2, ExpiryValues DEF Lookup, DataOK
  <2>3. WorkersOK'
    BY <1>0, <1>2 DEF Lookup, Named
  <2> QED BY <1>2, <2>1, <2>2, <2>3 DEF Lookup, DataOK, purchases
<1>3. CASE ReadExpiry(h)
  <2> DEFINE k == [worker[h] EXCEPT !.copy = expiry,
                                    !.pc = IF expiry.txn = worker[h].txn THEN "mark" ELSE "write"]
  <2>1. k \in Worker /\ Named(k)
    BY <1>0, <1>3 DEF ReadExpiry, DataOK, Worker, Named
  <2>2. worker' = [worker EXCEPT ![h] = k]
    BY <1>0, <1>3 DEF ReadExpiry, Worker
  <2> HIDE DEF k
  <2>3. WorkersOK'
    BY <2>1, <2>2 DEF WorkersOK
  <2> QED BY <1>3, <2>3 DEF ReadExpiry, DataOK, purchases
<1>4. CASE WriteExpiry(h)
  <2>1. worker[h].txn \in Txn
    BY <1>0, <1>4 DEF WriteExpiry, Named
  <2>2. expiry' \in Expiry
    BY <1>0, <1>4, <2>1, ExpiryValues DEF WriteExpiry
  <2>3. WorkersOK'
    BY <1>4, <2>1 DEF WriteExpiry
  <2> QED BY <1>4, <2>2, <2>3 DEF WriteExpiry, DataOK, purchases
<1>5. CASE ReEnable(h)
  <2>1. budget' \in Bounds /\ account' \in Account
    BY <1>5, SetStatusType DEF ReEnable, DataOK
  <2>2. WorkersOK'
    BY <1>0, <1>5 DEF ReEnable, Named
  <2> QED BY <1>5, <2>1, <2>2 DEF ReEnable, DataOK, purchases
<1>6. CASE Mark(h)
  <2>1. worker[h].txn \in Txn
    BY <1>0, <1>6 DEF Mark, Named
  <2> QED BY <1>6, <2>1 DEF Mark, DataOK, purchases
<1>7. CASE ReadCut(h)
  <2> DEFINE k == [worker[h] EXCEPT !.copy = expiry, !.pc = "cutting"]
  <2>1. k \in Worker /\ Named(k)
    BY <1>0 DEF DataOK, Worker, Named
  <2>2. worker' = [worker EXCEPT ![h] = k]
    BY <1>0, <1>7 DEF ReadCut, Worker
  <2> HIDE DEF k
  <2>3. WorkersOK'
    BY <2>1, <2>2 DEF WorkersOK
  <2> QED BY <1>7, <2>3 DEF ReadCut, DataOK, purchases
<1>8. CASE WriteCut(h)
  <2>1. expiry' \in Expiry
    BY <1>0, <1>8 DEF WriteCut, Expiry
  <2> QED BY <1>8, <2>1 DEF WriteCut, DataOK, purchases
<1>9. CASE Disable(h)
  <2>1. budget' \in Bounds /\ account' \in Account
    BY <1>9, SetStatusType DEF Disable, DataOK
  <2> QED BY <1>9, <2>1 DEF Disable, DataOK, purchases
<1>10. CASE StoreExtension(h)
  <2>1. worker[h].copy.at + Period \in Int
    BY <1>0 DEF Expiry
  <2>2. expiry' \in Expiry
    BY <1>10, <2>1, ExpiryValues DEF StoreExtension
  <2> QED BY <1>10, <2>2 DEF StoreExtension, DataOK, purchases
<1> QED BY <1>1, <1>2, <1>3, <1>4, <1>5, <1>6, <1>7, <1>8, <1>9, <1>10 DEF Goes

-----------------------------------------------------------------------------
(* What the daemon does.                                                   *)

LEMMA DaemonType ==
    ASSUME DataOK, WorkersOK, daemon \in Pass, Daemon
    PROVE  DataOK' /\ WorkersOK' /\ daemon' \in Pass
<1>0. /\ now \in Int /\ daemon.copy \in Expiry /\ NoPass \in Pass
      /\ [daemon.copy EXCEPT !.pending = FALSE] \in Expiry
      /\ [daemon.copy EXCEPT !.pending = TRUE] \in Expiry
  <2>1. now \in Int
    BY ExpiryAssumption DEF DataOK
  <2>2. daemon.copy \in Expiry
    BY DEF Pass
  <2>3. NoPass \in Pass
    BY ExpiryValues DEF Pass, NoPass, Account
  <2>4. /\ [daemon.copy EXCEPT !.pending = FALSE] \in Expiry
        /\ [daemon.copy EXCEPT !.pending = TRUE] \in Expiry
    BY <2>2 DEF Expiry
  <2> QED BY <2>1, <2>2, <2>3, <2>4
<1>w. UNCHANGED worker => WorkersOK'
  BY DEF WorkersOK
<1>1. CASE StartPass \/ GetUsers \/ GetUserExpiries
  <2>1. budget' \in Bounds
    BY <1>1, FailType DEF StartPass, GetUsers, GetUserExpiries, DataOK
  <2>2. daemon' \in Pass
    BY <1>0, <1>1 DEF StartPass, GetUsers, GetUserExpiries, DaemonGoes, DaemonEnds, DataOK, Pass
  <2> QED BY <1>1, <1>w, <2>1, <2>2
          DEF StartPass, GetUsers, GetUserExpiries, DataOK, purchases
<1>2. CASE DropOld \/ Remind \/ DropPending \/ Settle \/ Spare
  <2>1. expiry' \in Expiry
    BY <1>0, <1>2, ExpiryValues DEF DropOld, Remind, DropPending, Settle, Spare, DataOK
  <2>2. daemon' \in Pass
    BY <1>0, <1>2 DEF DropOld, Remind, DropPending, Settle, Spare, DaemonGoes, DaemonEnds, Pass
  <2> QED BY <1>2, <1>w, <2>1, <2>2
          DEF DropOld, Remind, DropPending, Settle, Spare, DataOK, purchases
<1>3. CASE CheckSubscription \/ Reconcile \/ Reconciled \/ Recheck \/ Lapse
  <2>1. daemon' \in Pass
    BY <1>0, <1>3
       DEF CheckSubscription, Reconcile, Reconciled, Recheck, Lapse, DaemonGoes, DaemonEnds, Pass
  <2> QED BY <1>3, <1>w, <2>1
          DEF CheckSubscription, Reconcile, Reconciled, Recheck, Lapse, DataOK, purchases
<1>4. CASE Recover
  <2>1. budget' \in Bounds /\ account' \in Account
    BY <1>4, SetStatusType, FailType DEF Recover, DataOK
  <2>2. Missed \subseteq Txn
    BY DEF Missed, DataOK
  <2>3. expiry' \in Expiry /\ known' \in BOOLEAN
    BY <1>0, <1>4, <2>2, ExpiryValues DEF Recover, DataOK
  <2>4. fulfilled' \subseteq Txn
    BY <1>4, <2>2 DEF Recover, DataOK
  <2> QED BY <1>4, <1>w, <2>1, <2>3, <2>4 DEF Recover, DataOK, purchases
<1>5. CASE DaemonReEnables
  <2>1. budget' \in Bounds /\ account' \in Account
    BY <1>5, SetStatusType DEF DaemonReEnables, DataOK
  <2> QED BY <1>0, <1>5, <1>w, <2>1 DEF DaemonReEnables, DaemonEnds, DataOK, purchases
<1>6. CASE DaemonStrikes
  <2>1. budget' \in Bounds /\ account' \in Account
    BY <1>6, FailType DEF DaemonStrikes, DataOK, Account
  <2>2. daemon' \in Pass
    BY <1>0, <1>6 DEF DaemonStrikes, DaemonGoes, DaemonEnds, Pass
  <2> QED BY <1>6, <1>w, <2>1, <2>2 DEF DaemonStrikes, DataOK, purchases
<1> QED BY <1>1, <1>2, <1>3, <1>4, <1>5, <1>6 DEF Daemon

-----------------------------------------------------------------------------
(* What Stripe, the administrator and the clock do, and what begins.       *)

LEMMA OthersType ==
    ASSUME DataOK, WorkersOK, daemon \in Pass, Others
    PROVE  DataOK' /\ WorkersOK' /\ daemon' \in Pass
<1>0. now \in Nat /\ now \in Int /\ now + Period \in Nat /\ NoPass \in Pass
  <2>1. now \in Nat /\ now \in Int /\ now + Period \in Nat
    BY ExpiryAssumption DEF DataOK
  <2>2. NoPass \in Pass
    BY ExpiryValues DEF Pass, NoPass, Account
  <2> QED BY <2>1, <2>2
<1>w. UNCHANGED worker => WorkersOK'
  BY DEF WorkersOK
<1>1. CASE TimePasses
  <2>1. now' \in 0..MaxTime
    BY <1>1, ExpiryAssumption DEF TimePasses, DataOK
  <2> QED BY <1>1, <1>w, <2>1 DEF TimePasses, DataOK, purchases
<1>2. CASE SubscriptionChanges
  <2>1. stripe' \in Subscription
    <3>1. ASSUME NEW st \in {"active", "canceling", "ended"}, NEW d \in Nat
          PROVE  [status |-> st, until |-> d] \in Subscription
      BY DEF Subscription
    <3>2. PICK st \in {"active", "canceling", "ended"} : \E d \in {0, now + Period} :
              stripe' = [status |-> st, until |-> d]
      BY <1>2 DEF SubscriptionChanges
    <3> QED BY <1>0, <3>1, <3>2
  <2>2. budget' \in Bounds
    BY <1>2, SpendType DEF SubscriptionChanges, DataOK
  <2> QED BY <1>2, <1>w, <2>1, <2>2 DEF SubscriptionChanges, DataOK
<1>3. CASE Buys
  BY <1>3, <1>w DEF Buys, DataOK, Txn
<1>4. CASE Restart
  <2>1. mode' \in Mode
    BY <1>4, ExpiryAssumption DEF Restart, DataOK, Mode
  <2>2. budget' \in Bounds
    BY <1>4, SpendType DEF Restart, DataOK
  <2>3. WorkersOK'
    BY <1>4, WorkerValues DEF Restart, WorkersOK
  <2> QED BY <1>0, <1>4, <2>1, <2>2, <2>3 DEF Restart, DataOK, purchases
<1>5. CASE AdminEnables \/ AdminDisablesOrDeletes \/ RemoveExpiry
  <2>1. budget' \in Bounds
    BY <1>5, SpendType DEF AdminEnables, AdminDisablesOrDeletes, RemoveExpiry, DataOK
  <2>2. account' \in Account /\ expiry' \in Expiry
    BY <1>5, ExpiryValues DEF AdminEnables, AdminDisablesOrDeletes, RemoveExpiry, DataOK, Account
  <2> QED BY <1>5, <1>w, <2>1, <2>2
          DEF AdminEnables, AdminDisablesOrDeletes, RemoveExpiry, DataOK, purchases
<1>6. ASSUME NEW h \in Handlers, SignUp(h) PROVE DataOK' /\ WorkersOK' /\ daemon' \in Pass
  <2>1. WorkersOK'
    <3>1. [Idle EXCEPT !.pc = "limit"] \in Worker /\ Named([Idle EXCEPT !.pc = "limit"])
      BY ExpiryValues DEF Idle, Worker, Named
    <3> QED BY <1>6, <3>1, WorkerValues DEF SignUp
  <2> QED BY <1>6, <2>1 DEF SignUp, DataOK, purchases, Account
<1>7. ASSUME NEW h \in Handlers, Purchase(h) PROVE DataOK' /\ WorkersOK' /\ daemon' \in Pass
  <2>1. budget' \in Bounds
    BY <1>7, SpendType DEF Purchase, DataOK
  <2>2. PICK t \in bought : Start(h, [Idle EXCEPT !.txn = t,
                                  !.pc = IF ~known THEN "mark"
                                         ELSE IF t \in Checkouts THEN "lookup" ELSE "read"])
    BY <1>7 DEF Purchase
  <2> DEFINE rec == [Idle EXCEPT !.txn = t,
                                  !.pc = IF ~known THEN "mark"
                                         ELSE IF t \in Checkouts THEN "lookup" ELSE "read"]
  <2>3. rec \in Worker /\ Named(rec)
    BY ExpiryValues DEF Idle, Worker, Named, DataOK
  <2>4. WorkersOK'
    BY <2>2, <2>3, WorkerValues
  <2> QED BY <1>7, <2>1, <2>4 DEF Purchase, DataOK, purchases
<1>8. ASSUME NEW h \in Handlers, SubscriptionEvent(h) PROVE DataOK' /\ WorkersOK' /\ daemon' \in Pass
  <2>1. budget' \in Bounds
    BY <1>8, SpendType DEF SubscriptionEvent, DataOK
  <2>2. [Idle EXCEPT !.pc = "cut"] \in Worker /\ Named([Idle EXCEPT !.pc = "cut"])
    BY ExpiryValues DEF Idle, Worker, Named
  <2>3. WorkersOK'
    BY <1>8, <2>2, WorkerValues DEF SubscriptionEvent
  <2> QED BY <1>8, <2>1, <2>3 DEF SubscriptionEvent, DataOK, purchases
<1>9. ASSUME NEW h \in Handlers, StartExtension(h) PROVE DataOK' /\ WorkersOK' /\ daemon' \in Pass
  <2>1. budget' \in Bounds
    BY <1>9, SpendType DEF StartExtension, DataOK
  <2> DEFINE e == IF expiry.there THEN expiry ELSE [expiry EXCEPT !.at = now]
  <2>2. e \in Expiry
    <3>1. expiry \in Expiry
      BY DEF DataOK
    <3>2. [expiry EXCEPT !.at = now] \in Expiry
      BY <1>0, <3>1 DEF Expiry
    <3> QED BY <3>1, <3>2
  <2>3. [Idle EXCEPT !.pc = "extend", !.copy = e] \in Worker
        /\ Named([Idle EXCEPT !.pc = "extend", !.copy = e])
    BY <2>2 DEF Idle, Worker, Named
  <2>4. WorkersOK'
    BY <1>9, <2>3, WorkerValues DEF StartExtension
  <2> QED BY <1>9, <2>1, <2>4 DEF StartExtension, DataOK, purchases
<1> QED BY <1>1, <1>2, <1>3, <1>4, <1>5, <1>6, <1>7, <1>8, <1>9 DEF Others

-----------------------------------------------------------------------------
\* Types are kept, given that handlers of a purchase know which.
TypeInv == TypeOK /\ WorkersOK

LEMMA TypeInvariant == Spec => []TypeInv
<1>1. Init => TypeInv
  <2> SUFFICES ASSUME Init PROVE TypeInv
    OBVIOUS
  <2>1. mode \in Mode /\ budget \in Bounds
    BY ExpiryAssumption DEF Init, Mode
  <2>2. stripe \in Subscription /\ row \in Subscription
    BY DEF Init, Subscription
  <2>3. expiry \in Expiry /\ account \in Account
    BY ExpiryValues DEF Init, Account
  <2>4. WorkersOK
    BY WorkerValues DEF Init, WorkersOK
  <2>5. daemon \in Pass
    BY ExpiryValues DEF Init, NoPass, Pass, Account
  <2>6. now \in 0..MaxTime
    BY ExpiryAssumption DEF Init
  <2>7. known \in BOOLEAN /\ loyal \in BOOLEAN /\ lapsed \in BOOLEAN
    BY DEF Init
  <2>8. bought \subseteq Txn /\ fulfilled \subseteq Txn
    BY DEF Init
  <2> QED BY <2>1, <2>2, <2>3, <2>4, <2>5, <2>6, <2>7, <2>8 DEF TypeInv, TypeOK, WorkersOK
<1>2. TypeInv /\ [Next]_vars => TypeInv'
  <2> SUFFICES ASSUME TypeInv, [Next]_vars PROVE TypeInv'
    OBVIOUS
  <2>0. DataOK /\ WorkersOK /\ daemon \in Pass
    BY DEF TypeInv, TypeOK, DataOK
  <2>1. DataOK' /\ WorkersOK' /\ daemon' \in Pass
    <3>1. CASE UNCHANGED vars
      BY <2>0, <3>1 DEF vars, state, DataOK, WorkersOK
    <3>2. ASSUME NEW h \in Handlers, Goes(h) PROVE DataOK' /\ WorkersOK' /\ daemon' \in Pass
      <4>1. UNCHANGED daemon
        BY <3>2 DEF Goes, Limit, Lookup, ReadExpiry, WriteExpiry, ReEnable, Mark, ReadCut, WriteCut,
                    Disable, StoreExtension
      <4> QED BY <2>0, <3>2, <4>1, HandlerType
    <3> QED BY <2>0, <3>1, <3>2, DaemonType, OthersType DEF Next
  <2>2. loyal' \in BOOLEAN /\ lapsed' \in BOOLEAN
    BY DEF TypeInv, TypeOK, Next, Remember, vars, history
  <2> QED BY <2>1, <2>2 DEF TypeInv, TypeOK, DataOK, WorkersOK
<1> QED BY <1>1, <1>2, PTL DEF Spec

\* The tables, the pass, the handlers and what is left of the bounds keep their types.
THEOREM TypeCorrect == Spec => []TypeOK
<1>1. TypeInv => TypeOK
  BY DEF TypeInv
<1> QED BY <1>1, TypeInvariant, PTL

-----------------------------------------------------------------------------
(* Where a pass can go.                                                    *)

Ended == daemon'.pc = "idle" /\ daemon'.copy = NoExpiry

WentTo(pc) == daemon'.pc = pc /\ daemon'.copy = daemon.copy

Stops == {"users", "reconcile", "recover", "recheck", "reenable", "lapse", "disable",
          "delete", "settle"}

\* One step of a pass: at its beginning it copies the expiry, later it goes on with
\* its copy, or ends.
LEMMA PassSteps ==
    ASSUME daemon \in Pass
    PROVE  /\ DaemonEnds => Ended
           /\ \A pc \in Stops : DaemonGoes(pc) => WentTo(pc)
           /\ StartPass => WentTo("users")
           /\ GetUsers => Ended \/ WentTo("expiries")
           /\ GetUserExpiries => Ended \/ (daemon'.pc = "examine" /\ daemon'.copy = expiry)
           /\ DropOld \/ Remind \/ DaemonReEnables \/ DropPending \/ Settle => Ended
           /\ CheckSubscription => WentTo("reconcile") \/ (WentTo("lapse") /\ ~Grants(row, daemon.copy))
           /\ Reconcile => WentTo("recheck") \/ WentTo("recover")
           /\ Recover => UNCHANGED daemon
           /\ Reconciled => WentTo("recheck")
           /\ Recheck => WentTo("lapse")
           /\ Spare => Ended \/ WentTo("reenable")
           /\ Lapse => \/ Ended
                       \/ WentTo("disable")
                       \/ (WentTo("delete") /\ (daemon.copy.pending \/ mode.behaviour = "delete"))
           /\ DaemonStrikes => Ended \/ WentTo("settle")
<1>1. DaemonEnds => Ended
  BY DEF DaemonEnds, Ended, NoPass
<1>2. ASSUME NEW pc \in Stops, DaemonGoes(pc) PROVE WentTo(pc)
  BY <1>2 DEF DaemonGoes, WentTo, Pass
<1> USE DEF Stops
<1>3. StartPass => WentTo("users")
  BY <1>2 DEF StartPass
<1>4. GetUsers => Ended \/ WentTo("expiries")
  BY <1>1 DEF GetUsers, WentTo, Pass
<1>5. GetUserExpiries => Ended \/ (daemon'.pc = "examine" /\ daemon'.copy = expiry)
  BY <1>1 DEF GetUserExpiries, Pass
<1>6. DropOld \/ Remind \/ DaemonReEnables \/ DropPending \/ Settle => Ended
  BY <1>1 DEF DropOld, Remind, DaemonReEnables, DropPending, Settle
<1>7. CheckSubscription => WentTo("reconcile") \/ (WentTo("lapse") /\ ~Grants(row, daemon.copy))
  BY <1>2 DEF CheckSubscription
<1>8. Reconcile => WentTo("recheck") \/ WentTo("recover")
  BY <1>2 DEF Reconcile
<1>9. Recover => UNCHANGED daemon
  BY DEF Recover
<1>10. Reconciled => WentTo("recheck")
  BY <1>2 DEF Reconciled
<1>11. Recheck => WentTo("lapse")
  BY <1>2 DEF Recheck
<1>12. Spare => Ended \/ WentTo("reenable")
  BY <1>1, <1>2 DEF Spare
<1>13. Lapse => \/ Ended
               \/ WentTo("disable")
               \/ (WentTo("delete") /\ (daemon.copy.pending \/ mode.behaviour = "delete"))
  BY <1>1, <1>2 DEF Lapse
<1>14. DaemonStrikes => Ended \/ WentTo("settle")
  BY <1>1, <1>2 DEF DaemonStrikes
<1> QED BY <1>1, <1>2, <1>3, <1>4, <1>5, <1>6, <1>7, <1>8, <1>9, <1>10, <1>11, <1>12, <1>13, <1>14

\* What else handlers and the world do to a pass: nothing, or the process restarts.
LEMMA PassElse ==
    /\ \A h \in Handlers : Goes(h) => UNCHANGED <<mode, daemon>>
    /\ Others => UNCHANGED <<mode, daemon>> \/ daemon' = NoPass
<1>1. ASSUME NEW h \in Handlers, Goes(h) PROVE UNCHANGED <<mode, daemon>>
  BY <1>1 DEF Goes, Limit, Lookup, ReadExpiry, WriteExpiry, ReEnable, Mark, ReadCut, WriteCut,
              Disable, StoreExtension
<1>2. Others => UNCHANGED <<mode, daemon>> \/ daemon' = NoPass
  BY DEF Others, TimePasses, SubscriptionChanges, Buys, Restart, AdminEnables,
         AdminDisablesOrDeletes, RemoveExpiry, SignUp, Purchase, SubscriptionEvent, StartExtension
<1> QED BY <1>1, <1>2

-----------------------------------------------------------------------------
(* A subscriber is left alone.                                             *)

\* A pass that will strike has seen the subscription inactive.
Doubted == daemon.pc \in {"lapse", "disable", "delete"} => ~loyal

\* Every step of the daemon towards a strike passes a look at the row.
LEMMA DoubtedStep == TypeOK /\ Doubted /\ [Next]_vars => Doubted'
<1> SUFFICES ASSUME TypeOK, Doubted, [Next]_vars, daemon'.pc \in {"lapse", "disable", "delete"}
             PROVE  ~loyal'
  BY DEF Doubted
<1>1. CASE UNCHANGED vars
  BY <1>1 DEF Doubted, vars, state, history
<1>2. CASE Remember /\ daemon' = daemon
  BY <1>2 DEF Doubted, Remember
<1>3. CASE Remember /\ Daemon
  <2>0. daemon \in Pass
    BY DEF TypeOK
  <2>1. CASE CheckSubscription
    <3>1. row' = row /\ ~Grants(row, daemon.copy)
      BY <2>0, <2>1, PassSteps DEF CheckSubscription, WentTo
    <3> QED BY <1>3, <3>1 DEF Grants, Remember
  <2>2. CASE Recheck
    BY <1>3, <2>2 DEF Recheck, Grants, Remember
  <2>3. CASE Lapse
    BY <1>3, <2>3 DEF Lapse, Doubted, Remember
  <2>4. CASE Recover
    BY <2>4 DEF Recover, Doubted, Remember, TypeOK
  <2>5. CASE ~(CheckSubscription \/ Recheck \/ Lapse \/ Recover)
    <3>1. daemon'.pc \in {"idle", "users", "expiries", "examine", "reconcile", "recover",
                          "recheck", "reenable", "settle"}
      BY <1>3, <2>0, <2>5, PassSteps DEF Daemon, Ended, WentTo
    <3> QED BY <3>1
  <2> QED BY <2>1, <2>2, <2>3, <2>4, <2>5
<1>4. CASE Remember /\ Others
  BY <1>2, <1>4, PassElse DEF NoPass
<1>5. CASE Remember /\ \E h \in Handlers : Goes(h)
  BY <1>2, <1>5, PassElse
<1> QED BY <1>1, <1>3, <1>4, <1>5 DEF Next

\* The daemon disables or deletes no account whose subscription the rows call active
\* ever since its pass began (shouldSkipExpiredPaidUser).
THEOREM SubscribersAreKept == Spec => SubscriberKept
<1>1. Init => Doubted
  BY DEF Init, Doubted, NoPass
<1>2. Spec => []Doubted
  BY <1>1, DoubtedStep, TypeCorrect, PTL DEF Spec
<1>3. Doubted => (daemon.pc \in {"disable", "delete"} /\ account' # account => ~loyal)
  BY DEF Doubted
<1> QED BY <1>2, <1>3, PTL DEF SubscriberKept

-----------------------------------------------------------------------------
(* Notice is given.                                                        *)

\* DeleteAfterPeriod, wherever a copy of it is held, means that the account has been
\* disabled; and only an account with it is deleted.
Noticed ==
    /\ expiry.pending => lapsed
    /\ daemon.copy.pending => lapsed
    /\ \A h \in Handlers : worker[h].copy.pending => lapsed
    /\ daemon.pc = "delete" /\ mode.behaviour = "disable" => daemon.copy.pending
    /\ daemon.pc = "settle" /\ mode.behaviour = "disable" => lapsed

\* Handlers copy the flag, or clear it, and never set it.
LEMMA HandlerNoticed ==
    ASSUME TypeOK, Noticed, Remember, NEW h \in Handlers, Goes(h)
    PROVE  Noticed'
<1>1. UNCHANGED <<mode, daemon>> /\ (lapsed => lapsed')
  BY PassElse DEF Remember
<1>2. worker[h].copy \in Expiry /\ worker \in [Handlers -> Worker] /\ expiry \in Expiry
  BY DEF TypeOK, Worker
<1>3. expiry'.pending => lapsed'
  <2>1. expiry' = expiry \/ ~expiry'.pending \/ (expiry'.pending = worker[h].copy.pending)
    <3>1. CASE Limit(h) \/ StoreExtension(h)
      BY <3>1 DEF Limit, StoreExtension, Until, NoExpiry
    <3>2. CASE Lookup(h)
      BY <3>2 DEF Lookup, NoExpiry
    <3>3. CASE WriteExpiry(h)
      BY <3>3 DEF WriteExpiry, Extended
    <3>4. CASE WriteCut(h)
      BY <1>2, <3>4 DEF WriteCut, Expiry
    <3>5. CASE ReadExpiry(h) \/ ReEnable(h) \/ Mark(h) \/ ReadCut(h) \/ Disable(h)
      BY <3>5 DEF ReadExpiry, ReEnable, Mark, ReadCut, Disable
    <3> QED BY <3>1, <3>2, <3>3, <3>4, <3>5 DEF Goes
  <2> QED BY <1>1, <2>1 DEF Noticed
<1>4. \A g \in Handlers : worker'[g].copy.pending => lapsed'
  <2> SUFFICES ASSUME NEW g \in Handlers, worker'[g].copy.pending PROVE lapsed'
    OBVIOUS
  <2>1. \/ worker'[g].copy = worker[g].copy
        \/ worker'[g].copy = expiry
        \/ worker'[g].copy = NoExpiry
    <3>1. ASSUME NEW pc \in {"read", "mark", "reenable", "disable"}, Go(h, pc) PROVE worker'[g].copy = worker[g].copy
      BY <1>2, <3>1 DEF Go, Worker
    <3>2. ASSUME End(h) PROVE worker'[g].copy \in {worker[g].copy, NoExpiry}
      BY <1>2, <3>2 DEF End, Idle
    <3>3. CASE ReadExpiry(h) \/ ReadCut(h)
      BY <1>2, <3>3 DEF ReadExpiry, ReadCut, Worker
    <3>4. CASE Limit(h) \/ Mark(h) \/ Disable(h) \/ StoreExtension(h)
      BY <3>2, <3>4 DEF Limit, Mark, Disable, StoreExtension
    <3>5. CASE Lookup(h) \/ WriteExpiry(h) \/ ReEnable(h) \/ WriteCut(h)
      BY <3>1, <3>5 DEF Lookup, WriteExpiry, ReEnable, WriteCut
    <3> QED BY <3>3, <3>4, <3>5 DEF Goes
  <2> QED BY <1>1, <2>1 DEF Noticed, NoExpiry
<1> QED BY <1>1, <1>3, <1>4 DEF Noticed

\* The daemon sets it only after it has disabled the account.
LEMMA DaemonNoticed ==
    ASSUME TypeOK, Noticed, Remember, Daemon
    PROVE  Noticed'
<1>0. daemon \in Pass /\ daemon.copy \in Expiry /\ expiry \in Expiry /\ mode \in Mode
  BY DEF TypeOK, Pass
<1>1. UNCHANGED <<mode, worker>> /\ (lapsed => lapsed')
  BY DEF Remember, Daemon, StartPass, GetUsers, GetUserExpiries, DropOld, Remind, CheckSubscription,
         Reconcile, Recover, Reconciled, Recheck, Spare, DaemonReEnables, DropPending, Lapse,
         DaemonStrikes, Settle
<1>2. daemon'.copy \in {daemon.copy, expiry, NoExpiry}
  <2>1. CASE StartPass \/ GetUsers \/ GetUserExpiries \/ DropOld \/ Remind \/ CheckSubscription
    BY <1>0, <2>1, PassSteps DEF Ended, WentTo
  <2>2. CASE Reconcile \/ Recover \/ Reconciled \/ Recheck \/ Spare \/ DaemonReEnables
    BY <1>0, <2>2, PassSteps DEF Ended, WentTo
  <2>3. CASE DropPending \/ Lapse \/ DaemonStrikes \/ Settle
    BY <1>0, <2>3, PassSteps DEF Ended, WentTo
  <2> QED BY <2>1, <2>2, <2>3 DEF Daemon
<1>3. daemon'.copy.pending => lapsed'
  BY <1>1, <1>2 DEF Noticed, NoExpiry
<1>4. expiry'.pending => lapsed'
  <2>1. CASE Settle
    <3>1. CASE mode.behaviour = "disable"
      BY <1>1, <2>1, <3>1 DEF Settle, Noticed
    <3>2. CASE mode.behaviour = "delete"
      BY <2>1, <3>2 DEF Settle, Days, NoExpiry
    <3> QED BY <1>0, <3>1, <3>2 DEF Mode
  <2>2. \/ Settle
        \/ ~expiry'.pending
        \/ expiry'.pending = expiry.pending
        \/ expiry'.pending = daemon.copy.pending
    <3>1. CASE DropOld \/ DropPending
      BY <3>1 DEF DropOld, DropPending, NoExpiry
    <3>2. CASE Remind
      BY <3>2 DEF Remind
    <3>3. CASE Recover
      BY <3>3 DEF Recover, Extended, NoExpiry
    <3>4. CASE Spare
      BY <1>0, <3>4 DEF Spare, Expiry
    <3>5. CASE \/ StartPass \/ GetUsers \/ GetUserExpiries \/ CheckSubscription \/ Reconcile
               \/ Reconciled \/ Recheck \/ DaemonReEnables \/ Lapse \/ DaemonStrikes
      BY <3>5 DEF StartPass, GetUsers, GetUserExpiries, CheckSubscription, Reconcile, Reconciled,
                  Recheck, DaemonReEnables, Lapse, DaemonStrikes
    <3> QED BY <3>1, <3>2, <3>3, <3>4, <3>5 DEF Daemon
  <2> QED BY <1>1, <2>1, <2>2 DEF Noticed
<1>5. daemon'.pc = "delete" /\ mode'.behaviour = "disable" => daemon'.copy.pending
  <2>1. CASE Lapse
    BY <1>0, <1>1, <2>1, PassSteps DEF Ended, WentTo
  <2>2. CASE Recover
    BY <1>1, <2>2 DEF Recover, Noticed
  <2>3. CASE ~(Lapse \/ Recover)
    <3>1. daemon'.pc # "delete"
      BY <1>0, <2>3, PassSteps DEF Daemon, Ended, WentTo
    <3> QED BY <3>1
  <2> QED BY <2>1, <2>2, <2>3
<1>6. daemon'.pc = "settle" /\ mode'.behaviour = "disable" => lapsed'
  <2>1. CASE DaemonStrikes
    <3> SUFFICES ASSUME daemon'.pc = "settle", mode'.behaviour = "disable" PROVE lapsed'
      OBVIOUS
    <3>1. ~DaemonEnds
      BY <1>0, PassSteps DEF Ended
    <3>2. CASE daemon.pc = "disable"
      BY <2>1, <3>1, <3>2 DEF DaemonStrikes, Remember
    <3>3. CASE daemon.pc = "delete"
      BY <1>1, <3>3 DEF Noticed
    <3> QED BY <2>1, <3>2, <3>3 DEF DaemonStrikes
  <2>2. CASE Recover
    BY <1>1, <2>2 DEF Recover, Noticed
  <2>3. CASE ~(DaemonStrikes \/ Recover)
    <3>1. daemon'.pc # "settle"
      BY <1>0, <2>3, PassSteps DEF Daemon, Ended, WentTo
    <3> QED BY <3>1
  <2> QED BY <2>1, <2>2, <2>3
<1> QED BY <1>1, <1>3, <1>4, <1>5, <1>6 DEF Noticed

\* Whatever begins copies the flag; a restart forgets the copies.
LEMMA OthersNoticed ==
    ASSUME TypeOK, Noticed, Remember, Others
    PROVE  Noticed'
<1>1. lapsed => lapsed'
  BY DEF Remember
<1>2. expiry' = expiry \/ expiry' = NoExpiry
  BY DEF Others, TimePasses, SubscriptionChanges, Buys, Restart, AdminEnables,
         AdminDisablesOrDeletes, RemoveExpiry, SignUp, Purchase, SubscriptionEvent, StartExtension
<1>3. UNCHANGED <<mode, daemon>> \/ daemon' = NoPass
  BY PassElse
<1>4. \A g \in Handlers : worker'[g].copy.pending => lapsed'
  <2> SUFFICES ASSUME NEW g \in Handlers PROVE worker'[g].copy.pending => lapsed'
    OBVIOUS
  <2>1. CASE worker' = worker
    BY <1>1, <2>1 DEF Noticed
  <2>2. CASE Restart
    <3>1. worker'[g] = Idle
      BY <2>2 DEF Restart
    <3> QED BY <3>1 DEF Idle, NoExpiry
  <2>3. ASSUME NEW h \in Handlers, SignUp(h) \/ Purchase(h) \/ SubscriptionEvent(h)
        PROVE  worker'[g].copy.pending => lapsed'
    <3>1. PICK rec : rec.copy = NoExpiry /\ worker' = [worker EXCEPT ![h] = rec]
      <4>1. CASE SignUp(h)
        BY <4>1 DEF SignUp, Start, Idle
      <4>2. CASE Purchase(h)
        BY <4>2 DEF Purchase, Start, Idle
      <4>3. CASE SubscriptionEvent(h)
        <5>1. Idle.copy = NoExpiry /\ [Idle EXCEPT !.pc = "cut"].copy = NoExpiry
          BY DEF Idle
        <5> QED BY <4>3, <5>1 DEF SubscriptionEvent, Start
      <4> QED BY <2>3, <4>1, <4>2, <4>3
    <3>2. worker'[g].copy \in {worker[g].copy, NoExpiry}
      BY <3>1 DEF TypeOK
    <3> QED BY <1>1, <3>2 DEF NoExpiry, Noticed
  <2>4. ASSUME NEW h \in Handlers, StartExtension(h)
        PROVE  worker'[g].copy.pending => lapsed'
    <3>1. worker'[g].copy.pending \in {worker[g].copy.pending, expiry.pending}
      BY <2>4 DEF StartExtension, Start, Idle, TypeOK, Worker, Expiry
    <3> QED BY <1>1, <3>1 DEF Noticed
  <2> QED BY <2>1, <2>2, <2>3, <2>4
          DEF Others, TimePasses, SubscriptionChanges, Buys, AdminEnables,
              AdminDisablesOrDeletes, RemoveExpiry
<1> QED BY <1>1, <1>2, <1>3, <1>4 DEF Noticed, NoPass, NoExpiry

\* With behaviour "disable" the daemon deletes only accounts that have been disabled
\* before (checkUsers): payments, edits, stale copies and restarts never forge the flag.
THEOREM DeletionIsNoticed == Spec => NoticeGiven
<1>1. Init => Noticed
  <2> SUFFICES ASSUME Init PROVE Noticed
    OBVIOUS
  <2>1. ~NoExpiry.pending /\ ~Until(0).pending
    BY DEF NoExpiry, Until
  <2>2. ~expiry.pending
    BY <2>1 DEF Init
  <2>3. daemon.pc = "idle" /\ ~daemon.copy.pending
    BY <2>1 DEF Init, NoPass
  <2>4. \A h \in Handlers : ~worker[h].copy.pending
    BY <2>1 DEF Init, Idle
  <2> QED BY <2>2, <2>3, <2>4 DEF Noticed
<1>2. TypeOK /\ Noticed /\ [Next]_vars => Noticed'
  <2> SUFFICES ASSUME TypeOK, Noticed, [Next]_vars PROVE Noticed'
    OBVIOUS
  <2>1. CASE UNCHANGED vars
    BY <2>1 DEF vars, state, history, Noticed
  <2> QED BY <2>1, HandlerNoticed, DaemonNoticed, OthersNoticed DEF Next
<1>3. Spec => []Noticed
  BY <1>1, <1>2, TypeCorrect, PTL DEF Spec
<1>4. Noticed =>
        (mode.behaviour = "disable" /\ daemon.pc = "delete" /\ account' = "gone" => lapsed)
  BY DEF Noticed
<1> QED BY <1>3, <1>4, PTL DEF NoticeGiven

-----------------------------------------------------------------------------
(* A limit is kept.                                                        *)

\* Nothing is spent that was not granted.
Bounded ==
    \A what \in {"changes", "events", "admin", "pardons", "fails", "restarts"} :
        budget[what] <= mode.bounds[what]

\* One at a time: the pass of the daemon or one handler.
Alone ==
    /\ daemon.pc # "idle" => \A h \in Handlers : worker[h].pc = "idle"
    /\ \A g, h \in Handlers : worker[g].pc # "idle" /\ worker[h].pc # "idle" => g = h

\* An account that can be used has an expiry, unless its sign-up is about to store it.
Limited ==
    /\ account = "enabled" => expiry.there \/ \E h \in Handlers : worker[h].pc = "limit"
    /\ \A h \in Handlers : worker[h].pc = "reenable" => expiry.there

Deciding == {"examine", "reconcile", "recover", "recheck", "reenable", "lapse", "disable", "delete"}

\* What the pass is about to drop, store or enable leaves the account its limit.
PassLimited ==
    /\ daemon.pc \in {"expiries", "examine"} => daemon.seen = account
    /\ daemon.pc \in Deciding => daemon.copy.there /\ (Exists => expiry.there)
    /\ daemon.pc = "settle" => account # "enabled"

\* Without delete_expired_after_days no deletion is pending.
NonePending ==
    Days = 0 => /\ ~expiry.pending /\ ~daemon.copy.pending
                /\ \A h \in Handlers : ~worker[h].copy.pending

Limiting == Alone /\ Limited /\ PassLimited /\ NonePending

LimitInv == Bounded /\ (~mode.overlap /\ Undisturbed => Limiting)

\* A counter of the bounds that is spent is not what it was granted any more.
LEMMA SpendSays ==
    ASSUME budget \in Bounds, NEW what, Spend(what),
           what \in {"changes", "events", "admin", "pardons", "fails", "restarts"}
    PROVE  /\ budget'[what] = budget[what] - 1 /\ budget[what] \in Nat
           /\ \A other \in {"changes", "events", "admin", "pardons", "fails", "restarts"} :
                 other # what => budget'[other] = budget[other]
<1>1. CASE what = "changes"  BY <1>1 DEF Bounds, Spend
<1>2. CASE what = "events"   BY <1>2 DEF Bounds, Spend
<1>3. CASE what = "admin"    BY <1>3 DEF Bounds, Spend
<1>4. CASE what = "pardons"  BY <1>4 DEF Bounds, Spend
<1>5. CASE what = "fails"    BY <1>5 DEF Bounds, Spend
<1>6. CASE what = "restarts" BY <1>6 DEF Bounds, Spend
<1> QED BY <1>1, <1>2, <1>3, <1>4, <1>5, <1>6

\* What a step spends.
Spends == UNCHANGED budget \/ \E what \in {"changes", "events", "admin", "pardons", "fails", "restarts"} : Spend(what)

\* A failure is spent.
LEMMA SetStatusSpends == \A s : SetStatus(s) => Spends
BY DEF SetStatus, Fail, Spends

\* Every step spends of one counter, at most, and only a restart changes the settings.
LEMMA StepSpends == [Next]_vars => Spends /\ (UNCHANGED mode \/ Restart)
<1> SUFFICES ASSUME [Next]_vars PROVE Spends /\ (UNCHANGED mode \/ Restart)
  OBVIOUS
<1>1. CASE UNCHANGED vars
  BY <1>1 DEF vars, state, Spends
<1>2. CASE Others
  BY <1>2 DEF Others, TimePasses, SubscriptionChanges, Buys, Restart, AdminEnables, Spends,
     AdminDisablesOrDeletes, RemoveExpiry, SignUp, Purchase, SubscriptionEvent, StartExtension
<1>3. ASSUME NEW h \in Handlers, Goes(h) PROVE Spends /\ UNCHANGED mode
  <2>1. CASE Lookup(h)
    BY <2>1 DEF Lookup, Fail, Spends
  <2>2. CASE ReEnable(h) \/ Disable(h)
    BY <2>2, SetStatusSpends DEF ReEnable, Disable
  <2>3. CASE ~(Lookup(h) \/ ReEnable(h) \/ Disable(h))
    BY <1>3, <2>3 DEF Goes, Limit, ReadExpiry, WriteExpiry, Mark, ReadCut, WriteCut,
       StoreExtension, Spends
  <2> QED BY <2>1, <2>2, <2>3
<1>4. CASE Daemon
  <2>1. CASE GetUsers
    BY <2>1 DEF GetUsers, Fail, Spends
  <2>2. CASE Recover
    BY <2>2, SetStatusSpends DEF Recover, Fail, Spends
  <2>3. CASE DaemonReEnables
    BY <2>3, SetStatusSpends DEF DaemonReEnables
  <2>4. CASE DaemonStrikes
    BY <2>4 DEF DaemonStrikes, Fail, Spends
  <2>5. CASE ~(GetUsers \/ Recover \/ DaemonReEnables \/ DaemonStrikes)
    BY <1>4, <2>5 DEF Daemon, StartPass, GetUserExpiries, DropOld, Remind, CheckSubscription,
       Reconcile, Reconciled, Recheck, Spare, DropPending, Lapse, Settle, Spends
  <2> QED BY <2>1, <2>2, <2>3, <2>4, <2>5
<1> QED BY <1>1, <1>2, <1>3, <1>4 DEF Next

\* The bounds hold, and what was disturbed stays disturbed.
LEMMA StaysDisturbed ==
    ASSUME TypeOK, Bounded, [Next]_vars
    PROVE  /\ Bounded' /\ mode'.overlap = mode.overlap
           /\ Undisturbed' => /\ Undisturbed /\ UNCHANGED mode /\ ~Restart
                              /\ ~Spend("fails") /\ ~Spend("pardons")
<1> DEFINE Counters == {"changes", "events", "admin", "pardons", "fails", "restarts"}
<1>1. Spends /\ (UNCHANGED mode \/ Restart) /\ budget \in Bounds /\ mode \in Mode
  BY StepSpends DEF TypeOK
<1>2. mode'.overlap = mode.overlap /\ mode'.bounds = mode.bounds
  BY <1>1 DEF Restart, Mode
<1>3. \A what \in Counters : budget[what] \in Nat /\ mode.bounds[what] \in Nat
  BY <1>1 DEF Bounds, Mode
<1>4. \A what \in Counters : Spend(what) => budget'[what] # mode.bounds[what]
  BY <1>1, <1>3, SpendSays DEF Bounded
<1>5. \A what \in Counters : \/ budget'[what] = budget[what]
                             \/ budget'[what] = budget[what] - 1
  <2>1. CASE UNCHANGED budget
    BY <2>1
  <2>2. ASSUME NEW spent \in Counters, Spend(spent)
        PROVE  \A what \in Counters : \/ budget'[what] = budget[what]
                                      \/ budget'[what] = budget[what] - 1
    BY <1>1, <2>2, SpendSays
  <2> QED BY <1>1, <2>1, <2>2 DEF Spends
<1> HIDE DEF Counters
<1>6. Bounded'
  <2>1. \A what \in Counters : budget'[what] <= mode'.bounds[what]
    BY <1>2, <1>3, <1>5 DEF Bounded, Counters
  <2> QED BY <2>1 DEF Bounded, Counters
<1>7. Undisturbed' => Undisturbed
  <2> SUFFICES ASSUME Undisturbed', NEW what \in {"fails", "restarts", "pardons"}
               PROVE  budget[what] = mode.bounds[what]
    BY DEF Undisturbed
  <2>1. what \in Counters
    BY DEF Counters
  <2>2. budget'[what] = mode.bounds[what] /\ budget[what] <= mode.bounds[what]
    BY <1>2, <2>1 DEF Undisturbed, Bounded, Counters
  <2> QED BY <1>3, <1>5, <2>1, <2>2
<1>8. Undisturbed' => ~Spend("fails") /\ ~Spend("pardons") /\ ~Spend("restarts")
  BY <1>2, <1>4 DEF Undisturbed, Counters
<1> QED BY <1>1, <1>2, <1>6, <1>7, <1>8 DEF Restart

\* While the pass is idle one handler acts: what it must leave behind.
LEMMA OneActs ==
    ASSUME TypeOK, Limiting, NEW h \in Handlers, NEW k,
           worker' = [worker EXCEPT ![h] = k], UNCHANGED <<mode, daemon>>, daemon.pc = "idle",
           \A g \in Handlers \ {h} : worker[g].pc = "idle",
           account' = "enabled" => expiry'.there \/ k.pc = "limit",
           k.pc = "reenable" => expiry'.there,
           Days = 0 => ~expiry'.pending /\ ~k.copy.pending
    PROVE  Limiting'
<1>1. worker'[h] = k /\ \A g \in Handlers \ {h} : worker'[g] = worker[g]
  BY DEF TypeOK
<1>2. Alone'
  BY <1>1 DEF Alone
<1>3. Limited'
  BY <1>1 DEF Limited
<1>4. PassLimited'
  BY DEF PassLimited, Deciding
<1>5. NonePending'
  <2>1. Days' = Days
    BY DEF Days
  <2> QED BY <1>1, <2>1 DEF Limiting, NonePending
<1> QED BY <1>2, <1>3, <1>4, <1>5 DEF Limiting

\* With the handlers idle the pass acts, or the world does.
LEMMA OthersIdle ==
    ASSUME TypeOK, Limiting, \A g \in Handlers : worker[g].pc = "idle", UNCHANGED <<mode, worker>>,
           account' = "enabled" => expiry'.there, PassLimited',
           Days = 0 => ~expiry'.pending /\ ~daemon'.copy.pending
    PROVE  Limiting'
<1>1. Alone' /\ Limited'
  BY DEF Alone, Limited
<1>2. NonePending'
  <2>1. Days' = Days
    BY DEF Days
  <2> QED BY <2>1 DEF Limiting, NonePending
<1> QED BY <1>1, <1>2 DEF Limiting

\* What the values that are stored say.
LEMMA StoredSays ==
    /\ ~NoExpiry.there /\ ~NoExpiry.pending
    /\ \A t : Until(t).there /\ ~Until(t).pending
    /\ \A e, t : Extended(e, t).there /\ Extended(e, t).pending = e.pending
    /\ Idle.pc = "idle" /\ ~Idle.copy.pending /\ Idle.copy = NoExpiry
    /\ NoPass.pc = "idle" /\ ~NoPass.copy.pending
BY DEF NoExpiry, Until, Extended, Idle, NoPass

\* A handler that is alone takes no limit away: what it stores is an expiry, or the
\* account is not there to be used.
LEMMA HandlerLimits ==
    ASSUME TypeOK, Limiting, NEW h \in Handlers, Goes(h), ~Spend("fails")
    PROVE  Limiting'
<1>1. worker[h].pc # "idle" /\ UNCHANGED <<mode, daemon>>
  BY PassElse DEF Goes, Limit, Lookup, ReadExpiry, WriteExpiry, ReEnable, Mark, ReadCut, WriteCut,
     Disable, StoreExtension
<1>2. daemon.pc = "idle" /\ \A g \in Handlers \ {h} : worker[g].pc = "idle"
  BY <1>1 DEF Limiting, Alone
<1>3. worker[h].pc # "limit" => (account = "enabled" => expiry.there)
  BY <1>2 DEF Limiting, Limited
<1>4. Days = 0 => ~expiry.pending /\ ~worker[h].copy.pending
  BY DEF Limiting, NonePending
<1>5. worker[h].pc = "reenable" => expiry.there
  BY DEF Limiting, Limited
<1>6. worker \in [Handlers -> Worker] /\ worker[h] \in Worker /\ expiry \in Expiry
  BY DEF TypeOK
<1>7. ASSUME NEW pc, Go(h, pc)
      PROVE  \E k : worker' = [worker EXCEPT ![h] = k] /\ k.pc = pc /\ k.copy = worker[h].copy
  <2>1. /\ worker' = [worker EXCEPT ![h] = [worker[h] EXCEPT !.pc = pc]]
        /\ [worker[h] EXCEPT !.pc = pc].pc = pc
        /\ [worker[h] EXCEPT !.pc = pc].copy = worker[h].copy
    BY <1>6, <1>7 DEF Go, Worker
  <2> QED BY <2>1
<1>8. End(h) => worker' = [worker EXCEPT ![h] = Idle]
  BY DEF End
<1>9. CASE Limit(h)
  <2>1. expiry'.there /\ ~expiry'.pending
    BY <1>9, StoredSays DEF Limit
  <2> QED BY <1>1, <1>2, <1>8, <1>9, <2>1, OneActs, StoredSays DEF Limit
<1>10. CASE Lookup(h)
  <2>1. CASE Exists /\ Go(h, "read") /\ UNCHANGED <<known, expiry, budget>> /\ UNCHANGED account
    <3>1. PICK k : worker' = [worker EXCEPT ![h] = k] /\ k.pc = "read" /\ k.copy = worker[h].copy
      BY <1>7, <2>1
    <3>2. worker[h].pc # "limit"
      BY <1>10 DEF Lookup
    <3> QED BY <1>1, <1>2, <1>3, <1>4, <2>1, <3>1, <3>2, OneActs
  <2>2. CASE ~Exists /\ expiry' = NoExpiry /\ Go(h, "mark") /\ UNCHANGED account
    <3>1. PICK k : worker' = [worker EXCEPT ![h] = k] /\ k.pc = "mark" /\ k.copy = worker[h].copy
      BY <1>7, <2>2
    <3>2. account' # "enabled"
      BY <2>2 DEF Exists
    <3> QED BY <1>1, <1>2, <1>4, <2>2, <3>1, <3>2, OneActs, StoredSays
  <2> QED BY <1>10, <2>1, <2>2 DEF Lookup, Fail
<1>11. CASE ReadExpiry(h)
  <2> DEFINE k == [worker[h] EXCEPT !.copy = expiry,
                                    !.pc = IF expiry.txn = worker[h].txn THEN "mark" ELSE "write"]
  <2>1. worker' = [worker EXCEPT ![h] = k]
    BY <1>6, <1>11 DEF ReadExpiry, Worker
  <2>2. k.pc \in {"mark", "write"} /\ k.copy = expiry
    BY <1>6 DEF Worker
  <2> HIDE DEF k
  <2>3. UNCHANGED <<account, expiry>> /\ worker[h].pc # "limit"
    BY <1>11 DEF ReadExpiry
  <2> QED BY <1>1, <1>2, <1>3, <1>4, <2>1, <2>2, <2>3, OneActs
<1>12. CASE WriteExpiry(h)
  <2>1. PICK k : worker' = [worker EXCEPT ![h] = k] /\ k.pc = "reenable" /\ k.copy = worker[h].copy
    BY <1>7, <1>12 DEF WriteExpiry
  <2>2. expiry'.there /\ expiry'.pending = worker[h].copy.pending
    BY <1>12, StoredSays DEF WriteExpiry
  <2> QED BY <1>1, <1>2, <1>4, <2>1, <2>2, OneActs
<1>13. CASE ReEnable(h)
  <2>1. PICK k : worker' = [worker EXCEPT ![h] = k] /\ k.pc = "mark" /\ k.copy = worker[h].copy
    BY <1>7, <1>13 DEF ReEnable
  <2>2. UNCHANGED expiry /\ worker[h].pc = "reenable"
    BY <1>13 DEF ReEnable
  <2> QED BY <1>1, <1>2, <1>4, <1>5, <2>1, <2>2, OneActs
<1>14. CASE Mark(h)
  <2>1. UNCHANGED <<account, expiry>> /\ worker[h].pc # "limit"
    BY <1>14 DEF Mark
  <2> QED BY <1>1, <1>2, <1>3, <1>4, <1>8, <1>14, <2>1, OneActs, StoredSays DEF Mark
<1>15. CASE ReadCut(h)
  <2> DEFINE k == [worker[h] EXCEPT !.copy = expiry, !.pc = "cutting"]
  <2>1. worker' = [worker EXCEPT ![h] = k]
    BY <1>6, <1>15 DEF ReadCut, Worker
  <2>2. k.pc = "cutting" /\ k.copy = expiry
    BY <1>6 DEF Worker
  <2> HIDE DEF k
  <2>3. UNCHANGED <<account, expiry>> /\ worker[h].pc # "limit"
    BY <1>15 DEF ReadCut
  <2> QED BY <1>1, <1>2, <1>3, <1>4, <2>1, <2>2, <2>3, OneActs
<1>16. CASE WriteCut(h)
  <2>1. PICK k : worker' = [worker EXCEPT ![h] = k] /\ k.pc = "disable" /\ k.copy = worker[h].copy
    BY <1>7, <1>16 DEF WriteCut
  <2>2. worker[h].copy \in Expiry /\ expiry' = [worker[h].copy EXCEPT !.there = TRUE, !.at = now - 1]
    BY <1>6, <1>16 DEF WriteCut, Worker
  <2>3. expiry'.there /\ expiry'.pending = worker[h].copy.pending
    BY <2>2 DEF Expiry
  <2> QED BY <1>1, <1>2, <1>4, <2>1, <2>3, OneActs
<1>17. CASE Disable(h)
  <2>1. account' = "enabled" => account = "enabled"
    BY <1>17 DEF Disable, SetStatus
  <2>2. UNCHANGED expiry /\ worker[h].pc # "limit"
    BY <1>17 DEF Disable
  <2> QED BY <1>1, <1>2, <1>3, <1>4, <1>8, <1>17, <2>1, <2>2, OneActs, StoredSays DEF Disable
<1>18. CASE StoreExtension(h)
  <2>1. expiry'.there /\ ~expiry'.pending
    BY <1>18, StoredSays DEF StoreExtension
  <2> QED BY <1>1, <1>2, <1>8, <1>18, <2>1, OneActs, StoredSays DEF StoreExtension
<1> QED BY <1>9, <1>10, <1>11, <1>12, <1>13, <1>14, <1>15, <1>16, <1>17, <1>18 DEF Goes

\* Nor does a pass that is alone: it drops the expiry of an account it has disabled,
\* deleted or not found, and no pending deletion where none can be pending.
LEMMA DaemonLimits ==
    ASSUME TypeOK, Limiting, ~mode.overlap, Daemon, ~Spend("fails")
    PROVE  Limiting'
<1> USE DEF Deciding
<1>1. daemon.pc # "idle" \/ StartPass
  BY DEF Daemon, GetUsers, GetUserExpiries, DropOld, Remind, CheckSubscription, Reconcile,
     Recover, Reconciled, Recheck, Spare, DaemonReEnables, DropPending, Lapse, DaemonStrikes, Settle,
     Examining
<1>2. \A g \in Handlers : worker[g].pc = "idle"
  BY <1>1 DEF Limiting, Alone, StartPass, Quiet
<1>3. account = "enabled" => expiry.there
  BY <1>2 DEF Limiting, Limited
<1>4. /\ daemon.pc \in {"expiries", "examine"} => daemon.seen = account
      /\ daemon.pc \in Deciding => daemon.copy.there /\ (Exists => expiry.there)
      /\ daemon.pc = "settle" => account # "enabled"
  BY DEF Limiting, PassLimited
<1>5. Days = 0 => ~expiry.pending /\ ~daemon.copy.pending
  BY DEF Limiting, NonePending
<1>6. daemon \in Pass /\ expiry \in Expiry /\ daemon.copy \in Expiry /\ account \in Account
  BY DEF TypeOK, Pass
<1>7. UNCHANGED <<mode, worker>>
  BY DEF Daemon, StartPass, GetUsers, GetUserExpiries, DropOld, Remind, CheckSubscription, Reconcile,
     Recover, Reconciled, Recheck, Spare, DaemonReEnables, DropPending, Lapse, DaemonStrikes, Settle
<1>8. ASSUME NEW pc, DaemonGoes(pc)
      PROVE  daemon'.pc = pc /\ daemon'.copy = daemon.copy /\ daemon'.seen = daemon.seen
  BY <1>6, <1>8 DEF DaemonGoes, Pass
<1>9. DaemonEnds => daemon'.pc = "idle" /\ ~daemon'.copy.pending
  BY StoredSays DEF DaemonEnds
<1>10. ASSUME UNCHANGED <<account, expiry>>, daemon'.pc = "idle", ~daemon'.copy.pending
       PROVE  Limiting'
  BY <1>2, <1>3, <1>5, <1>7, <1>10, OthersIdle DEF PassLimited
<1>11. ASSUME UNCHANGED <<account, expiry>>, daemon.pc \in Deciding, NEW pc \in Deciding \ {"examine"},
              DaemonGoes(pc)
       PROVE  Limiting'
  <2>1. PassLimited'
    BY <1>4, <1>8, <1>11 DEF PassLimited, Exists
  <2> QED BY <1>2, <1>3, <1>5, <1>7, <1>8, <1>11, <2>1, OthersIdle
<1>12. CASE StartPass
  <2>1. daemon'.pc = "users" /\ daemon'.copy = daemon.copy /\ UNCHANGED <<account, expiry>>
    BY <1>8, <1>12 DEF StartPass
  <2> QED BY <1>2, <1>3, <1>5, <1>7, <2>1, OthersIdle DEF PassLimited
<1>13. CASE GetUsers
  <2>1. daemon' = [daemon EXCEPT !.pc = "expiries", !.seen = account] /\ UNCHANGED <<account, expiry>>
    BY <1>13 DEF GetUsers, Fail
  <2>2. daemon'.pc = "expiries" /\ daemon'.seen = account /\ daemon'.copy = daemon.copy
    BY <1>6, <2>1 DEF Pass
  <2> QED BY <1>2, <1>3, <1>5, <1>7, <2>1, <2>2, OthersIdle DEF PassLimited
<1>14. CASE GetUserExpiries
  <2>1. UNCHANGED <<account, expiry>>
    BY <1>14 DEF GetUserExpiries
  <2>2. CASE expiry.there
    <3>1. /\ daemon'.pc = "examine" /\ daemon'.copy = expiry /\ daemon'.seen = daemon.seen
          /\ daemon.pc = "expiries"
      BY <1>6, <1>14, <2>2 DEF GetUserExpiries, Pass
    <3>2. PassLimited'
      BY <1>4, <2>1, <2>2, <3>1 DEF PassLimited, Exists
    <3> QED BY <1>2, <1>3, <1>5, <1>7, <2>1, <3>1, <3>2, OthersIdle
  <2>3. CASE ~expiry.there
    BY <1>9, <1>10, <1>14, <2>1, <2>3 DEF GetUserExpiries
  <2> QED BY <2>2, <2>3
<1>15. CASE DropOld
  <2>1. account # "enabled" /\ account' = account
    BY <1>4, <1>15 DEF DropOld, Examining, Listed
  <2>2. expiry' = NoExpiry /\ DaemonEnds
    BY <1>15 DEF DropOld
  <2> QED BY <1>2, <1>7, <1>9, <2>1, <2>2, OthersIdle, StoredSays DEF PassLimited
<1>16. CASE Remind
  <2>1. daemon.copy.there /\ account' = account /\ expiry' \in {expiry, daemon.copy} /\ DaemonEnds
    BY <1>4, <1>16 DEF Remind, Examining
  <2> QED BY <1>2, <1>3, <1>5, <1>7, <1>9, <2>1, OthersIdle DEF PassLimited
<1>17. CASE CheckSubscription \/ Reconcile \/ Reconciled \/ Recheck
  <2>1. /\ UNCHANGED <<account, expiry>> /\ daemon.pc \in Deciding
        /\ \E pc \in Deciding \ {"examine"} : DaemonGoes(pc)
    BY <1>17 DEF CheckSubscription, Examining, Reconcile, Reconciled, Recheck
  <2> QED BY <1>11, <2>1
<1>18. CASE Recover
  <2>1. daemon.pc = "recover" /\ UNCHANGED daemon
    BY <1>18 DEF Recover
  <2>2. /\ (account' \in {"enabled", "disabled"}) => expiry'.there
        /\ ~expiry'.there \/ expiry'.pending => expiry'.pending = expiry.pending \/ ~expiry'.pending
        /\ expiry'.pending => expiry.pending
    <3>1. CASE \E t : expiry' = Extended(expiry, t)
      BY <3>1, StoredSays
    <3>2. CASE UNCHANGED <<account, expiry>>
      BY <1>4, <2>1, <3>2 DEF Exists
    <3>3. CASE ~Exists /\ expiry' = NoExpiry /\ UNCHANGED account
      BY <3>3, StoredSays DEF Exists
    <3> QED BY <1>18, <3>1, <3>2, <3>3 DEF Recover, Fail
  <2>3. PassLimited'
    BY <1>4, <2>1, <2>2 DEF PassLimited, Exists
  <2> QED BY <1>2, <1>5, <1>7, <2>1, <2>2, <2>3, OthersIdle
<1>19. CASE Spare
  <2>1. /\ daemon.pc = "recheck" /\ account' = account
        /\ DaemonEnds \/ DaemonGoes("reenable")
    BY <1>19 DEF Spare
  <2>2. (Exists => expiry'.there) /\ (Days = 0 => ~expiry'.pending)
    <3>1. CASE daemon.copy.pending
      <4>1. expiry' = [daemon.copy EXCEPT !.pending = FALSE]
        BY <1>19, <3>1 DEF Spare
      <4> QED BY <1>4, <1>6, <2>1, <4>1 DEF Expiry
    <3>2. CASE ~daemon.copy.pending
      BY <1>4, <1>5, <1>19, <2>1, <3>2 DEF Spare
    <3> QED BY <3>1, <3>2
  <2>3. daemon'.pc = "idle" \/ (daemon'.pc = "reenable" /\ daemon'.copy = daemon.copy)
    BY <1>8, <1>9, <2>1
  <2>4. PassLimited'
    BY <1>4, <2>1, <2>2, <2>3 DEF PassLimited, Exists
  <2>5. account' = "enabled" => expiry'.there
    BY <2>1, <2>2 DEF Exists
  <2>6. Days = 0 => ~daemon'.copy.pending
    BY <1>5, <1>8, <1>9, <2>1
  <2> QED BY <1>2, <1>7, <2>2, <2>4, <2>5, <2>6, OthersIdle
<1>20. CASE DaemonReEnables
  <2>1. daemon.pc = "reenable" /\ UNCHANGED expiry /\ DaemonEnds
    BY <1>20 DEF DaemonReEnables
  <2>2. account' = "enabled" => expiry'.there
    BY <1>3, <1>4, <1>20, <2>1 DEF DaemonReEnables, SetStatus
  <2> QED BY <1>2, <1>5, <1>7, <1>9, <2>1, <2>2, OthersIdle DEF PassLimited
<1>21. CASE DropPending
  BY <1>5, <1>21 DEF DropPending
<1>22. CASE Lapse
  <2>1. /\ UNCHANGED <<account, expiry>> /\ daemon.pc \in Deciding
        /\ DaemonEnds \/ \E pc \in Deciding \ {"examine"} : DaemonGoes(pc)
    BY <1>22 DEF Lapse
  <2> QED BY <1>9, <1>10, <1>11, <2>1
<1>23. CASE DaemonStrikes
  <2>1. /\ UNCHANGED expiry
        /\ account' # "enabled"
        /\ DaemonEnds \/ DaemonGoes("settle")
    BY <1>23 DEF DaemonStrikes, Fail, Exists
  <2>2. PassLimited' /\ (Days = 0 => ~daemon'.copy.pending)
    BY <1>5, <1>8, <1>9, <2>1 DEF PassLimited
  <2> QED BY <1>2, <1>5, <1>7, <2>1, <2>2, OthersIdle
<1>24. CASE Settle
  <2>1. account' # "enabled" /\ DaemonEnds
    BY <1>4, <1>24 DEF Settle
  <2>2. Days = 0 => ~expiry'.pending
    BY <1>24, StoredSays DEF Settle
  <2> QED BY <1>2, <1>7, <1>9, <2>1, <2>2, OthersIdle DEF PassLimited
<1> QED BY <1>12, <1>13, <1>14, <1>15, <1>16, <1>17, <1>18, <1>19, <1>20, <1>21, <1>22, <1>23, <1>24
        DEF Daemon

\* Whoever begins finds everybody idle, and the sign-up is about to store the limit.
LEMMA OthersLimit ==
    ASSUME TypeOK, Limiting, ~mode.overlap, Others, ~Spend("pardons"), ~Restart
    PROVE  Limiting'
<1>1. worker \in [Handlers -> Worker] /\ expiry \in Expiry
  BY DEF TypeOK
<1>2. CASE TimePasses \/ SubscriptionChanges \/ Buys
  <2>1. UNCHANGED <<mode, account, expiry, daemon, worker>>
    BY <1>2 DEF TimePasses, SubscriptionChanges, Buys
  <2> QED BY <2>1 DEF Limiting, Alone, Limited, PassLimited, NonePending, Days, Exists
<1>3. CASE AdminDisablesOrDeletes
  <2>1. /\ account' # "enabled" /\ UNCHANGED <<mode, expiry, daemon, worker>>
        /\ daemon.pc = "idle" /\ \A g \in Handlers : worker[g].pc = "idle"
    BY <1>3 DEF AdminDisablesOrDeletes, Quiet
  <2>2. PassLimited'
    BY <2>1 DEF PassLimited, Deciding
  <2>3. Days = 0 => ~expiry'.pending /\ ~daemon'.copy.pending
    BY <2>1 DEF Limiting, NonePending
  <2> QED BY <2>1, <2>2, <2>3, OthersIdle
<1>4. ASSUME NEW h \in Handlers,
             SignUp(h) \/ Purchase(h) \/ SubscriptionEvent(h) \/ StartExtension(h)
      PROVE  Limiting'
  <2>1. PICK rec : /\ Start(h, rec)
                   /\ account' = account \/ rec.pc = "limit"
                   /\ rec.pc # "reenable"
                   /\ rec.copy.pending => expiry.pending
    <3>1. CASE SignUp(h)
      <4>1. [Idle EXCEPT !.pc = "limit"].pc = "limit" /\ ~[Idle EXCEPT !.pc = "limit"].copy.pending
        BY StoredSays DEF Idle
      <4> QED BY <3>1, <4>1 DEF SignUp
    <3>2. CASE Purchase(h)
      <4> DEFINE step(t) == IF ~known THEN "mark" ELSE IF t \in Checkouts THEN "lookup" ELSE "read"
                 rec(t) == [Idle EXCEPT !.txn = t, !.pc = step(t)]
      <4>1. PICK t : Start(h, rec(t))
        BY <3>2 DEF Purchase
      <4>2. UNCHANGED account
        BY <3>2 DEF Purchase
      <4>3. step(t) # "reenable"
        OBVIOUS
      <4> HIDE DEF step
      <4>4. rec(t).pc = step(t) /\ rec(t).copy = NoExpiry
        BY StoredSays DEF Idle
      <4> HIDE DEF rec
      <4> QED BY <4>1, <4>2, <4>3, <4>4, StoredSays
    <3>3. CASE SubscriptionEvent(h)
      <4>1. \E rec \in {Idle, [Idle EXCEPT !.pc = "cut"]} : Start(h, rec)
        BY <3>3 DEF SubscriptionEvent
      <4>2. UNCHANGED account
        BY <3>3 DEF SubscriptionEvent
      <4>3. \A rec \in {Idle, [Idle EXCEPT !.pc = "cut"]} :
               rec.pc # "reenable" /\ ~rec.copy.pending
        BY StoredSays DEF Idle
      <4> QED BY <4>1, <4>2, <4>3
    <3>4. CASE StartExtension(h)
      <4> DEFINE e == IF expiry.there THEN expiry ELSE [expiry EXCEPT !.at = now]
                 rec == [Idle EXCEPT !.pc = "extend", !.copy = e]
      <4>1. Start(h, rec) /\ UNCHANGED account
        BY <3>4 DEF StartExtension
      <4>2. e.pending = expiry.pending
        BY <1>1 DEF Expiry
      <4>3. rec.pc = "extend" /\ rec.copy = e
        BY DEF Idle
      <4> HIDE DEF rec
      <4> QED BY <4>1, <4>2, <4>3
    <3> QED BY <1>4, <3>1, <3>2, <3>3, <3>4
  <2>2. /\ UNCHANGED <<mode, expiry, daemon>> /\ worker' = [worker EXCEPT ![h] = rec]
        /\ daemon.pc = "idle" /\ \A g \in Handlers : worker[g].pc = "idle"
    BY <1>4, <2>1 DEF SignUp, Purchase, SubscriptionEvent, StartExtension, Start, Quiet
  <2>3. account = "enabled" => expiry.there
    BY <2>2 DEF Limiting, Limited
  <2>4. Days = 0 => ~expiry.pending
    BY DEF Limiting, NonePending
  <2> QED BY <2>1, <2>2, <2>3, <2>4, OneActs
<1> QED BY <1>2, <1>3, <1>4 DEF Others, AdminEnables, RemoveExpiry

\* Whatever handlers and the daemon do one after the other, and nobody interferes.
LEMMA LimitStep == TypeOK /\ LimitInv /\ [Next]_vars => LimitInv'
<1> SUFFICES ASSUME TypeOK, LimitInv, [Next]_vars PROVE LimitInv'
  OBVIOUS
<1>1. /\ Bounded' /\ mode'.overlap = mode.overlap
      /\ Undisturbed' => /\ Undisturbed /\ UNCHANGED mode /\ ~Restart
                         /\ ~Spend("fails") /\ ~Spend("pardons")
  BY StaysDisturbed DEF LimitInv
<1>2. ASSUME ~mode'.overlap, Undisturbed' PROVE Limiting'
  <2>1. ~mode.overlap /\ Limiting /\ ~Restart /\ ~Spend("fails") /\ ~Spend("pardons")
    BY <1>1, <1>2 DEF LimitInv
  <2>2. CASE UNCHANGED vars
    BY <2>1, <2>2 DEF vars, state, Limiting, Alone, Limited, PassLimited, NonePending, Days, Exists
  <2> QED BY <2>1, <2>2, HandlerLimits, DaemonLimits, OthersLimit DEF Next
<1> QED BY <1>1, <1>2 DEF LimitInv

\* With handlers one after the other, and unless a request fails, the process ends or the
\* administrator says so, an account that can be used keeps an expiry (user-d.go, payments.go).
THEOREM LimitsAreKept == Spec => []LimitKept
<1>1. Init => LimitInv
  <2> SUFFICES ASSUME Init PROVE LimitInv
    OBVIOUS
  <2>1. mode \in Mode /\ budget = mode.bounds
    BY ExpiryAssumption DEF Init
  <2>2. Bounded
    BY <2>1 DEF Bounded, Mode, Bounds
  <2>3. daemon.pc = "idle" /\ ~daemon.copy.pending /\ \A h \in Handlers : worker[h] = Idle
    BY StoredSays DEF Init
  <2>4. Alone /\ PassLimited
    BY <2>3, StoredSays DEF Alone, PassLimited, Deciding
  <2>5. (account = "enabled" => expiry.there) /\ ~expiry.pending
    BY StoredSays DEF Init
  <2>6. Limited /\ NonePending
    BY <2>3, <2>5, StoredSays DEF Limited, NonePending
  <2> QED BY <2>2, <2>4, <2>6 DEF LimitInv, Limiting
<1>2. Spec => []LimitInv
  BY <1>1, LimitStep, TypeCorrect, PTL DEF Spec
<1>3. LimitInv => LimitKept
  BY DEF LimitInv, Limiting, Limited, LimitKept, Quiet
<1> QED BY <1>2, <1>3, PTL

=============================================================================
