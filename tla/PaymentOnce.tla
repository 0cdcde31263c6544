---------------------------- MODULE PaymentOnce ----------------------------
(***************************************************************************)
(* What a payment endpoint with an Idempotency-Key promises its clients:   *)
(* under one key one payment is booked, once and for good, and whoever is  *)
(* told "paid" under the key is told that payment.                         *)
(***************************************************************************)
CONSTANTS
    Keys,       \* idempotency keys
    Payments,   \* payments that may be booked
    NoOne       \* no payment

VARIABLES
    booked,     \* Keys -> the payment booked under the key, or NoOne
    told        \* the <<key, payment>> success answers clients have seen

vars == <<booked, told>>

Init == booked = [k \in Keys |-> NoOne] /\ told = {}

Book(k, p) ==
    /\ booked[k] = NoOne
    /\ booked' = [booked EXCEPT ![k] = p]
    /\ UNCHANGED told

Tell(k) ==
    /\ booked[k] # NoOne
    /\ told' = told \cup {<<k, booked[k]>>}
    /\ UNCHANGED booked

Next == \E k \in Keys : Tell(k) \/ \E p \in Payments : Book(k, p)

Spec == Init /\ [][Next]_vars
=============================================================================
