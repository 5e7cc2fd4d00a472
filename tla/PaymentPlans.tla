---------------------------- MODULE PaymentPlans ----------------------------
(***************************************************************************)
(* The plans the store offers (payment_plans.go): what the administrator   *)
(* saves, what is read back, how a checkout finds its plan, and what of it *)
(* reaches a payment through the metadata at Stripe.                       *)
(*                                                                         *)
(* Texts are sequences of letters: 1..26 small ones, 101..126 capitals,    *)
(* BLANK, UNDERSCORE and SIGN.  An amount is an integer.                  *)
(***************************************************************************)
EXTENDS Integers, Sequences, FiniteSets, Selections

CONSTANTS PlanRequests     \* what the administrator may send: sequences of plans

\* What the binding of JSON lets through; "bad" is any other interval, "other" any other profile.
Intervals == {"day", "week", "month", "year"}
AnyInterval == Intervals \cup {"", "bad"}
AnyProfile == {"", "Default", "other"}
PlanType == [ID : Seq(Int), Name : Seq(Int), Enabled : BOOLEAN, Price : Int, Currency : Seq(Int),
             Recurring : BOOLEAN, Interval : AnyInterval, IntervalCount : Int,
             AccessMonths : Int, AccessDays : Int, Profile : AnyProfile]

ASSUME PlansAssumption == PlanRequests \subseteq Seq(PlanType)

BLANK == 201
UNDERSCORE == 202
SIGN == 203
Small == 1..26
LowerCase(t) == [i \in DOMAIN t |-> IF t[i] \in 101..126 THEN t[i] - 100 ELSE t[i]]
EqualFold(a, b) == LowerCase(a) = LowerCase(b)

\* The text from its first to its last letter outside a set.
Trim(t, set) ==
    LET kept == {i \in DOMAIN t : t[i] \notin set}
    IN  IF kept = {} THEN <<>> ELSE SubSeq(t, Min(kept), Max(kept))
TrimSpace(t) == Trim(t, {BLANK})

paymentPlanMonthly  == <<113, 15, 14>>      \* "Mon" stands for "Monthly"
paymentPlanStandard == <<119, 20, 4>>       \* "Std" for "Standard"
Usd == <<21, 19, 4>>

VARIABLES
    stored,     \* the setting: a sequence of plans, or a text that is none
    currency,   \* the setting price_currency
    monthly,    \* the setting price_monthly
    asked       \* the last request that was accepted

planVars == <<stored, currency, monthly, asked>>

-----------------------------------------------------------------------------
(* Normalising.                                                            *)

normalizePaymentCurrency(c) ==
    LET t == LowerCase(TrimSpace(c)) IN IF Len(t) # 3 THEN Usd ELSE t

normalizePaymentPlanID_TrimsFirst(id) ==
    LET t == LowerCase(TrimSpace(id))
        u == [i \in DOMAIN t |-> IF t[i] = BLANK THEN UNDERSCORE ELSE t[i]]
    IN  Within(Trim(u, {UNDERSCORE}), Small \cup {UNDERSCORE})
normalizePaymentPlanID(id) ==
    LET t == LowerCase(TrimSpace(id))
        u == [i \in DOMAIN t |-> IF t[i] = BLANK THEN UNDERSCORE ELSE t[i]]
    IN  Trim(Within(u, Small \cup {UNDERSCORE}), {UNDERSCORE})

normalizeStripeInterval(i) == IF i \in Intervals THEN i ELSE "month"

\* The name of a plan in a payment.
normalizePaymentPlan(name) ==
    LET t == TrimSpace(name)
    IN  CASE EqualFold(t, paymentPlanMonthly) -> paymentPlanMonthly
          [] EqualFold(t, paymentPlanStandard) \/ t = <<>> -> paymentPlanStandard
          [] OTHER -> t

NormalizedID(p) ==
    LET id == normalizePaymentPlanID(p.ID) IN IF id = <<>> THEN normalizePaymentPlanID(p.Name) ELSE id

Normalized(p, default) ==
    [ID            |-> NormalizedID(p),
     Name          |-> TrimSpace(p.Name),
     Enabled       |-> p.Enabled,
     Price         |-> p.Price,
     Currency      |-> normalizePaymentCurrency(IF TrimSpace(p.Currency) = <<>> THEN default ELSE p.Currency),
     Recurring     |-> p.Recurring,
     Interval      |-> IF p.Recurring THEN normalizeStripeInterval(p.Interval) ELSE "",
     IntervalCount |-> CASE ~p.Recurring -> 0
                         [] p.Recurring /\ p.IntervalCount <= 0 -> 1
                         [] p.Recurring /\ p.IntervalCount > 0 -> p.IntervalCount,
     AccessMonths  |-> p.AccessMonths,
     AccessDays    |-> p.AccessDays,
     Profile       |-> IF p.Profile = "" THEN "Default" ELSE p.Profile]

\* What is refused.
Acceptable(plans) ==
    /\ plans # <<>>
    /\ \A i \in DOMAIN plans :
          LET p == plans[i]
          IN  /\ NormalizedID(p) # <<>>
              /\ \A j \in 1..(i - 1) : NormalizedID(plans[j]) # NormalizedID(p)
              /\ TrimSpace(p.Name) # <<>>
              /\ p.Price > 0
              /\ p.AccessMonths >= 0 /\ p.AccessDays >= 0
              /\ p.AccessMonths + p.AccessDays > 0

normalizePaymentPlans(plans, default) ==
    [i \in DOMAIN plans |-> Normalized(plans[i], normalizePaymentCurrency(default))]

-----------------------------------------------------------------------------
(* Reading.                                                                *)

Plan(id, name, enabled, price, cur, recurring, interval, count, months) ==
    [ID |-> id, Name |-> name, Enabled |-> enabled, Price |-> price, Currency |-> cur,
     Recurring |-> recurring, Interval |-> interval, IntervalCount |-> count,
     AccessMonths |-> months, AccessDays |-> 0, Profile |-> "Default"]

defaultPaymentPlans(price, cur) ==
    LET p == IF price <= 0 THEN 200 ELSE price
        c == normalizePaymentCurrency(cur)
    IN  << Plan(<<13, 15, 14>>, paymentPlanMonthly, TRUE, p, c, TRUE, "month", 1, 1),
           Plan(<<17>>, <<117>>, TRUE, p * 3, c, TRUE, "month", 3, 3),
           Plan(<<25>>, <<125>>, TRUE, p * 12, c, TRUE, "year", 1, 12),
           Plan(<<15>>, <<115>>, FALSE, p, c, FALSE, "", 0, 1) >>

Unreadable == <<>>

\* Nothing stored, a text that is no list of plans, or a list that is not acceptable.
paymentPlans ==
    IF stored # Unreadable /\ Acceptable(stored) THEN normalizePaymentPlans(stored, currency)
    ELSE defaultPaymentPlans(monthly, currency)

publicPaymentPlans == Within(paymentPlans, {p \in ToSet(paymentPlans) : p.Enabled})

\* The first plan with this id or this name.
NoPlan == 0
paymentPlanByID(text) ==
    LET t    == TrimSpace(text)
        hits == {i \in DOMAIN paymentPlans : \/ paymentPlans[i].ID = normalizePaymentPlanID(t)
                                             \/ EqualFold(paymentPlans[i].Name, t)}
    IN  IF hits = {} THEN NoPlan ELSE Min(hits)

planByLegacyName(plans, name) ==
    LET hits == {i \in DOMAIN plans : EqualFold(plans[i].Name, name) \/ EqualFold(plans[i].ID, name)}
    IN  IF hits = {} THEN NoPlan ELSE Min(hits)

-----------------------------------------------------------------------------
(* Metadata.  All of them are printed and parsed back as they were; the    *)
(* name is normalised on the way, and absent metadata is blank.            *)

Snapshot == {"PlanID", "Plan", "Profile", "AccessMonths", "AccessDays", "Recurring", "Interval",
             "IntervalCount"}

metadata(p) ==
    [PlanID |-> p.ID, Plan |-> p.Name, Profile |-> p.Profile, AccessMonths |-> p.AccessMonths,
     AccessDays |-> p.AccessDays, Recurring |-> p.Recurring, Interval |-> p.Interval,
     IntervalCount |-> p.IntervalCount]

paymentPlanSnapshotFromMetadata_NoDays(md) == [md EXCEPT !.AccessDays = 0]
paymentPlanSnapshotFromMetadata(md) ==
    [md EXCEPT !.Plan = IF TrimSpace(@) = <<>> THEN <<>> ELSE normalizePaymentPlan(@)]

NoSnapshot ==
    [PlanID |-> <<>>, Plan |-> <<>>, Profile |-> "", AccessMonths |-> 0, AccessDays |-> 0,
     Recurring |-> FALSE, Interval |-> "", IntervalCount |-> 0]

\* apply: a field the payment has already is not overwritten.
Apply(s, payment) == [f \in Snapshot |-> IF payment[f] = NoSnapshot[f] THEN s[f] ELSE payment[f]]

Says(s) == s.Plan # <<>> \/ s.AccessMonths > 0 \/ s.AccessDays > 0

\* paymentPlanSnapshotForSubscription: the metadata, else an earlier payment, else a month.
SnapshotForSubscription(md, earlier) ==
    LET s    == paymentPlanSnapshotFromMetadata(md)
        good == {i \in DOMAIN earlier : Says(earlier[i])}
    IN  CASE Says(s) -> s
          [] ~Says(s) /\ good # {} -> earlier[Min(good)]
          [] OTHER -> [NoSnapshot EXCEPT !.Plan = paymentPlanMonthly, !.AccessMonths = 1,
                                         !.Recurring = TRUE, !.Interval = "month", !.IntervalCount = 1]

\* paymentPlanExpiry: the months and days an access lasts, and whether it ends.
paymentPlanExpiry(name, months, days) ==
    CASE months > 0 \/ days > 0 -> [months |-> months, days |-> days, ends |-> TRUE]
      [] months <= 0 /\ days <= 0 /\ normalizePaymentPlan(name) = paymentPlanStandard ->
           [months |-> 120, days |-> 0, ends |-> FALSE]
      [] OTHER -> [months |-> 1, days |-> 0, ends |-> TRUE]

-----------------------------------------------------------------------------
PlansInit ==
    /\ stored \in {Unreadable} \cup PlanRequests
    /\ currency \in {<<>>, Usd, <<105, 21, 18>>} /\ monthly \in {0, 500}
    /\ asked = <<>>

\* SetPaymentPlans.
SetPaymentPlans(plans) ==
    /\ Acceptable(plans)
    /\ LET saved == normalizePaymentPlans(plans, IF currency = <<>> THEN Usd ELSE currency)
           m     == planByLegacyName(saved, paymentPlanMonthly)
       IN  /\ stored' = saved
           /\ currency' = saved[1].Currency
           /\ monthly' = IF m = NoPlan THEN monthly ELSE saved[m].Price
    /\ asked' = plans

PlansNext == \E plans \in PlanRequests : SetPaymentPlans(plans)

-----------------------------------------------------------------------------
\* SetPaymentPlans and the readers (payment_plans.go:245): what was accepted is what is read
\* back, one plan for one, and saving that changes nothing, so that the default plans never
\* come back.
ReadBack ==
    asked # <<>> =>
        /\ paymentPlans = stored /\ Len(stored) = Len(asked)
        /\ Acceptable(stored) /\ normalizePaymentPlans(stored, currency) = stored
        /\ \A i \in DOMAIN asked : /\ stored[i].Price = asked[i].Price
                                   /\ stored[i].AccessMonths = asked[i].AccessMonths
                                   /\ stored[i].AccessDays = asked[i].AccessDays

\* A checkout names a plan of the store by its id (payment_plans.go:229): it gets this very
\* plan, unless an earlier one bears the id as its name, and what the payment keeps of it
\* gives the access that was offered, even when Stripe has lost the metadata of a renewal.
AccessAsOffered ==
    \A i \in DOMAIN paymentPlans :
        LET p       == paymentPlans[i]
            payment == Apply(paymentPlanSnapshotFromMetadata(metadata(p)), NoSnapshot)
            renewal == SnapshotForSubscription(NoSnapshot, <<payment>>)
            offered == paymentPlanExpiry(p.Name, p.AccessMonths, p.AccessDays)
        IN  /\ \/ paymentPlanByID(p.ID) = i
               \/ \E j \in 1..(i - 1) : EqualFold(paymentPlans[j].Name, p.ID)
            /\ p.Enabled => p \in ToSet(publicPaymentPlans)
            /\ \A s \in {payment, Apply(renewal, payment)} :
                  paymentPlanExpiry(s.Plan, s.AccessMonths, s.AccessDays) = offered

=============================================================================
