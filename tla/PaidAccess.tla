------------------------------ MODULE PaidAccess ------------------------------
(***************************************************************************)
(* What the store promises: a payment gives access only when it has been   *)
(* received, and gives it once.  LastTransactionID, the invite's           *)
(* PaymentID and the payment row's FulfilledAt exist to keep this promise. *)
(***************************************************************************)
EXTENDS Naturals

CONSTANT Txn        \* payments

VARIABLES paid,     \* payments received
          granted   \* how often each has been turned into access

Init ==
    /\ paid = {}
    /\ granted = [t \in Txn |-> 0]

Pay(t) ==
    /\ t \notin paid
    /\ paid' = paid \cup {t}
    /\ UNCHANGED granted

Grant(t) ==
    /\ t \in paid
    /\ granted[t] = 0
    /\ granted' = [granted EXCEPT ![t] = 1]
    /\ UNCHANGED paid

Next == \E t \in Txn : Pay(t) \/ Grant(t)

Spec == Init /\ [][Next]_<<paid, granted>>

=============================================================================
