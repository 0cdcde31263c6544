-------------------------- MODULE InstallmentMath --------------------------
(***************************************************************************)
(* The loops of backend_pro that spread an amount over the installments of *)
(* a loan: the repayment schedule of each interest model, a payment that   *)
(* spills over the installments, and an early settlement prorated over     *)
(* them.  Each is a loop over the rows, one step a row, in which every     *)
(* share is rounded and some row has to take up the difference.            *)
(*                                                                         *)
(* Money is in cents: the code rounds every number to cents, or to eight   *)
(* decimals where it is a ratio, as soon as it has it.                     *)
(***************************************************************************)
EXTENDS Integers

CONSTANTS
    Tasks,      \* what the loops are called with
    Precision   \* 10^8, what a ratio is a multiple of one over

-----------------------------------------------------------------------------
(* lib/math.ts, half a cent up.                                            *)
RoundDiv(a, b) == (2 * a + b) \div (2 * b)

Ratio(part, whole) == RoundDiv(part * Precision, whole)

(* An amount of cents times a ratio: first to as many decimals of a        *)
(* ringgit as a ratio has, then to a cent.                                 *)
Share(amount, ratio) == RoundDiv(RoundDiv(amount * ratio, 100), Precision \div 100)

Lesser(a, b)  == IF a < b THEN a ELSE b
Surplus(a, b) == IF a > b THEN a - b ELSE 0      \* Math.max(0, a - b)

(* f[1] + ... + f[n]                                                       *)
Total(f, n) == LET s[k \in Nat] == IF k = 0 THEN 0 ELSE s[k - 1] + f[k] IN s[n]

-----------------------------------------------------------------------------
(* A schedule is made for a principal (amount) and a yearly rate in        *)
(* hundredths of a per cent; emi is what calculateEMI returns, a power of  *)
(* the rate, of which only this much is used: it covers the interest of    *)
(* the first month.                                                        *)
MonthlyRate(t)   == RoundDiv(t.rate * Precision, 120000)
TotalInterest(t) == RoundDiv(t.amount * t.rate * t.term, 120000)

IsSchedule(t) ==
    /\ t.kind \in {"flat", "rule78", "declining"}
    /\ t.rate \in Nat /\ t.emi \in Nat
    /\ t.kind = "declining" => t.emi >= Share(t.amount, MonthlyRate(t))

(* A payment, or a settlement after its discount, finds the installments   *)
(* with what each still owes.  (The discount is part of the interest.)     *)
OwedOn(t) == [k \in 1..t.term |-> t.owed[k].interest + t.owed[k].principal]
FeesOn(t) == [k \in 1..t.term |-> t.owed[k].fee]

IsReceipt(t) ==
    /\ t.kind \in {"payment", "settlement"}
    /\ t.owed \in [1..t.term -> [fee : Nat, interest : Nat, principal : Nat]]
    /\ t.kind = "settlement" => t.amount <= Total(OwedOn(t), t.term)

ASSUME MathAssumption ==
    /\ Precision \in Nat \ {0} /\ Precision % 100 = 0
    /\ \A t \in Tasks :
          /\ t.term \in Nat \ {0} /\ t.amount \in Nat
          /\ IsSchedule(t) \/ IsReceipt(t)

VARIABLES
    task,
    at,             \* "rows", "last", "done" or "rejected"
    i,              \* the row the loop is at
    left,           \* of the amount
    interestLeft,   \* of the interest of a schedule
    principal, interest, fee    \* the rows, in a settlement principal is both

rows == <<principal, interest, fee>>
vars == <<task, at, i, left, interestLeft, rows>>

Term == task.term
Rows == 1..Term

Init ==
    /\ task \in Tasks
    /\ at = IF /\ task.kind = "payment"
               /\ task.amount > Total(OwedOn(task), Term) + Total(FeesOn(task), Term) + 1
              THEN "rejected" ELSE "rows"
    /\ i = 1 /\ left = task.amount
    /\ interestLeft = IF task.kind \in {"flat", "rule78"} THEN TotalInterest(task) ELSE 0
    /\ principal = [k \in Rows |-> 0] /\ interest = [k \in Rows |-> 0] /\ fee = [k \in Rows |-> 0]

Looping(kind) == task.kind = kind /\ at = "rows"

SetRow(x, y, z) ==
    /\ principal' = [principal EXCEPT ![i] = x]
    /\ interest' = [interest EXCEPT ![i] = y]
    /\ fee' = [fee EXCEPT ![i] = z]
    /\ i' = i + 1
    /\ UNCHANGED task

EndAfterLast(end) == at' = IF i = Term THEN end ELSE "rows"

-----------------------------------------------------------------------------
(* Mutant: the months' interest is not capped by what is left of it.       *)
FlatRow_Uncapped ==
    LET x == IF i = Term THEN left ELSE RoundDiv(task.amount, Term)
        y == IF i = Term THEN interestLeft ELSE RoundDiv(TotalInterest(task), Term)
    IN  /\ Looping("flat")
        /\ SetRow(x, y, 0) /\ left' = left - x /\ interestLeft' = interestLeft - y
        /\ EndAfterLast("done")

(* Equal rows; the last takes the rest of both.                            *)
FlatRow ==
    LET x == IF i = Term THEN left ELSE RoundDiv(task.amount, Term)
        y == IF i = Term THEN interestLeft ELSE Lesser(RoundDiv(TotalInterest(task), Term), interestLeft)
    IN  /\ Looping("flat")
        /\ SetRow(x, y, 0) /\ left' = left - x /\ interestLeft' = interestLeft - y
        /\ EndAfterLast("done")

(* Mutant: a row's principal is not capped by the balance.                 *)
Rule78Row_Uncapped ==
    LET digits == (Term * (Term + 1)) \div 2
        y == IF i = Term THEN interestLeft
             ELSE Lesser(Share(TotalInterest(task), Ratio(Term - i + 1, digits)), interestLeft)
        x == IF i = Term THEN left ELSE Surplus(RoundDiv(task.amount + TotalInterest(task), Term), y)
    IN  /\ Looping("rule78")
        /\ SetRow(x, y, 0) /\ left' = left - x /\ interestLeft' = interestLeft - y
        /\ EndAfterLast("done")

(* Equal installments, the interest weighted by the months to come; the    *)
(* last row takes the rest of both.                                        *)
Rule78Row ==
    LET digits == (Term * (Term + 1)) \div 2
        y == IF i = Term THEN interestLeft
             ELSE Lesser(Share(TotalInterest(task), Ratio(Term - i + 1, digits)), interestLeft)
        x == IF i = Term THEN left
             ELSE Lesser(Surplus(RoundDiv(task.amount + TotalInterest(task), Term), y), left)
    IN  /\ Looping("rule78")
        /\ SetRow(x, y, 0) /\ left' = left - x /\ interestLeft' = interestLeft - y
        /\ EndAfterLast("done")

(* Declining balance, effective rate, and no interest (emi: equal parts):  *)
(* the interest of the balance first, then what remains of the emi.        *)
DecliningRow ==
    LET y == Share(left, MonthlyRate(task))
        x == task.emi - y
    IN  /\ Looping("declining")
        /\ SetRow(x, y, 0) /\ left' = Surplus(left, x)
        /\ EndAfterLast("last")
        /\ UNCHANGED interestLeft

(* A balance that remains goes to the last row.                            *)
DecliningLast ==
    /\ task.kind = "declining" /\ at = "last"
    /\ principal' = [principal EXCEPT ![Term] = @ + left]
    /\ at' = "done"
    /\ UNCHANGED <<task, i, left, interestLeft, interest, fee>>

-----------------------------------------------------------------------------
(* What a payment of which rest is left gives to a part that owes due: a   *)
(* cent is not worth an allocation.                                        *)
Part(due, rest) == IF due > 1 /\ rest > 1 THEN Lesser(due, rest) ELSE 0

(* Mutant: the principal is what the interest left, before the late fees.  *)
PayRow_FeesNotTaken ==
    LET z == Part(task.owed[i].fee, left)
        y == Part(task.owed[i].interest, left - z)
        x == Part(task.owed[i].principal, left - y)
    IN  /\ Looping("payment") /\ i <= Term /\ left > 1
        /\ SetRow(x, y, z) /\ left' = left - z - y - x
        /\ UNCHANGED <<at, interestLeft>>

(* recordLoanSpilloverPayment: late fees, interest, principal.             *)
PayRow ==
    LET z == Part(task.owed[i].fee, left)
        y == Part(task.owed[i].interest, left - z)
        x == Part(task.owed[i].principal, left - z - y)
    IN  /\ Looping("payment") /\ i <= Term /\ left > 1
        /\ SetRow(x, y, z) /\ left' = left - z - y - x
        /\ UNCHANGED <<at, interestLeft>>

Allocated(k) == principal[k] > 0 \/ interest[k] > 0 \/ fee[k] > 0

PayEnd ==
    /\ Looping("payment") /\ (i > Term \/ left <= 1)
    /\ at' = IF \E k \in Rows : Allocated(k) THEN "done" ELSE "rejected"
    /\ UNCHANGED <<task, i, left, interestLeft, rows>>

-----------------------------------------------------------------------------
(* confirmEarlySettlement: each row its share of the amount, the last that *)
(* owes what is left; none more than it owes.                              *)
SettleRow ==
    LET owed  == OwedOn(task)
        last  == \A k \in i + 1..Term : owed[k] = 0
        share == IF last THEN Surplus(left, 0) ELSE Share(task.amount, Ratio(owed[i], Total(owed, Term)))
        x     == IF owed[i] > 0 THEN Lesser(owed[i], share) ELSE 0
    IN  /\ Looping("settlement")
        /\ SetRow(x, 0, task.owed[i].fee) /\ left' = left - x
        /\ EndAfterLast("last")
        /\ UNCHANGED interestLeft

(* Mutant: what is left over is not looked for.                            *)
Reconcile_Never ==
    /\ task.kind = "settlement" /\ at = "last"
    /\ at' = "done"
    /\ UNCHANGED <<task, i, left, interestLeft, rows>>

(* "Guard against rounding drift": more than a cent that is left, or was   *)
(* given too much, is put on the last allocation.                          *)
Reconcile ==
    LET last == {k \in Rows : Allocated(k) /\ \A l \in k + 1..Term : ~Allocated(l)} IN
    /\ task.kind = "settlement" /\ at = "last"
    /\ principal' = [k \in Rows |->
           IF (left > 1 \/ left < -1) /\ k \in last THEN Surplus(principal[k] + left, 0) ELSE principal[k]]
    /\ at' = "done"
    /\ UNCHANGED <<task, i, left, interestLeft, interest, fee>>

-----------------------------------------------------------------------------
Next ==
    \/ FlatRow \/ Rule78Row \/ DecliningRow \/ DecliningLast
    \/ PayRow \/ PayEnd
    \/ SettleRow \/ Reconcile

Spec == Init /\ [][Next]_vars

-----------------------------------------------------------------------------
TypeOK ==
    /\ task \in Tasks /\ at \in {"rows", "last", "done", "rejected"}
    /\ i \in 1..Term + 1 /\ left \in Int /\ interestLeft \in Nat
    /\ principal \in [Rows -> Int] /\ interest \in [Rows -> Nat] /\ fee \in [Rows -> Nat]

Finished(kinds) == at = "done" /\ task.kind \in kinds

(* A schedule repays the principal and, by the flat models, the whole      *)
(* interest, to the cent, whatever the roundings.  A declining balance may *)
(* repay more, when the emi was rounded up, but then every installment is  *)
(* the emi.  No row is negative, unless a flat loan is of so few cents     *)
(* that its rounded rows repay more than there is.                         *)
SchedulesAddUp ==
    Finished({"flat", "rule78", "declining"}) =>
        /\ task.kind # "declining" =>
              Total(principal, Term) = task.amount /\ Total(interest, Term) = TotalInterest(task)
        /\ task.kind = "declining" =>
              \/ Total(principal, Term) = task.amount
              \/ Total(principal, Term) > task.amount /\ \A k \in Rows : principal[k] + interest[k] = task.emi
        /\ task.kind # "flat" \/ 2 * task.amount >= Term * (Term - 1) => \A k \in Rows : principal[k] >= 0

(* A payment gives no part more than it owes, goes to a later row only     *)
(* when those before it owe a cent a part at most, and all of it is booked *)
(* but for a cent, and for each part that owed a cent.                     *)
PaymentIsSpread ==
    Finished({"payment"}) =>
        /\ \A k \in Rows :
              /\ 0 <= principal[k] /\ principal[k] <= task.owed[k].principal
              /\ interest[k] <= task.owed[k].interest /\ fee[k] <= task.owed[k].fee
        /\ \A k, l \in Rows : l < k /\ Allocated(k) =>
              /\ task.owed[l].principal - principal[l] <= 1
              /\ task.owed[l].interest - interest[l] <= 1 /\ task.owed[l].fee - fee[l] <= 1
        /\ LET booked == Total(principal, Term) + Total(interest, Term) + Total(fee, Term) IN
           booked <= task.amount /\ task.amount - booked <= 3 * Term + 1

(* By how much a row may be off its share, in cents.                       *)
Drift == 2 + task.amount \div Precision

(* A settlement is booked to the cent, or a cent more or less, unless it is*)
(* of so few cents that a row that owes gets none; and the rows that take  *)
(* up the roundings get no more than a few cents above what they owe.      *)
SettlementIsSpread ==
    Finished({"settlement"}) =>
        /\ \A k \in Rows :
              /\ 0 <= principal[k] /\ principal[k] <= OwedOn(task)[k] + Drift * Term
              /\ fee[k] = task.owed[k].fee
        /\ Total(principal, Term) >= task.amount - 1
        /\ \/ Total(principal, Term) <= task.amount + 1
           \/ \E k \in Rows : OwedOn(task)[k] > 0 /\ principal[k] = 0
=============================================================================
