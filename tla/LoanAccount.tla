---------------------------- MODULE LoanAccount ----------------------------
(***************************************************************************)
(* What the ledger of a disbursed loan promises to its borrower.  Late     *)
(* fees are charged one day after the other from the day an installment    *)
(* was due, and no day twice: for days that are over, or, by a payment     *)
(* made at midnight, for the one about to be.  No installment takes        *)
(* more than it is for, nor more fees than it was charged, and what was    *)
(* taken is not given back.  An installment is closed only when nothing of *)
(* it is owed, and from then on takes nothing and stays closed.            *)
(***************************************************************************)
EXTENDS Integers, FiniteSets

CONSTANTS Installments, Due, DueDay

VARIABLES
    day,
    charged,    \* Installments -> the days a late fee was charged for
    feesPaid,   \* Installments -> the fees paid or waived, a unit each
    paid,       \* Installments -> principal and interest received
    closed      \* the installments closed for good

vars == <<day, charged, feesPaid, paid, closed>>

Init ==
    /\ day = 0
    /\ charged = [i \in Installments |-> {}]
    /\ feesPaid = [i \in Installments |-> 0]
    /\ paid = [i \in Installments |-> 0]
    /\ closed = {}

NextDay == day' = day + 1 /\ UNCHANGED <<charged, feesPaid, paid, closed>>

Receives(i) == paid'[i] > paid[i] \/ feesPaid'[i] > feesPaid[i]

(* The days charged leave no hole; the current day is charged only by a    *)
(* transaction that receives money.  A closed installment may still be     *)
(* charged for days it was open on.                                        *)
Charge(i) ==
    /\ charged[i] \subseteq charged'[i]
    /\ \A d \in charged'[i] :
          DueDay[i] < d /\ d <= day /\ (DueDay[i] + 1)..d \subseteq charged'[i]
    /\ day \in charged'[i] \ charged[i] => \E k \in Installments : Receives(k)

Receive(i) ==
    /\ paid[i] <= paid'[i] /\ paid'[i] <= Due[i]
    /\ feesPaid[i] <= feesPaid'[i] /\ feesPaid'[i] <= Cardinality(charged'[i])

(* A closed installment takes no more, and one is closed with nothing owed.*)
Close(i) ==
    /\ i \in closed => i \in closed' /\ paid'[i] = paid[i] /\ feesPaid'[i] = feesPaid[i]
    /\ i \in closed' \ closed => paid'[i] = Due[i] /\ feesPaid'[i] = Cardinality(charged'[i])

Transaction ==
    /\ charged' \in [Installments -> SUBSET Nat]
    /\ feesPaid' \in [Installments -> Nat] /\ paid' \in [Installments -> Nat]
    /\ closed' \in SUBSET Installments
    /\ \A i \in Installments : Charge(i) /\ Receive(i) /\ Close(i)
    /\ UNCHANGED day

Next == NextDay \/ Transaction

Spec == Init /\ [][Next]_vars
=============================================================================
