--------------------------- MODULE LoanServicing ---------------------------
(***************************************************************************)
(* One disbursed loan of backend_pro and everything that writes to it: the *)
(* loan-level (spillover) and the per-installment payment endpoints, the   *)
(* early settlement, the nightly late-fee processor, and the status        *)
(* endpoints.  Each handler reads the loan without a lock, then acts in a  *)
(* later statement: a transaction that locks the Loan row and re-reads, or *)
(* a bare UPDATE that trusts what was read.  A transaction is one step     *)
(* here (the row lock serialises it with every other writer of the loan);  *)
(* between two steps of a handler any other handler may run.               *)
(*                                                                         *)
(* Money is counted in units of one day's late fee; an installment's       *)
(* principal and interest are one amount.                                  *)
(***************************************************************************)
EXTENDS Integers, FiniteSets, Functions

CONSTANTS
    Procs,          \* handler executions in flight
    Ops,            \* Ops[p]: the endpoints execution p serves
    Fragile,        \* the executions that may die half-way
    Term,           \* number of installments, in due order
    Due, DueDay,    \* what each installment is for, and the day it is due
    MaxDay,         \* bound on the calendar
    Amounts,        \* what a payer may send
    Backdate,       \* bound on how far back a payment is dated
    ArrearsPeriod, DefaultPeriod    \* days overdue, from the product

Reps == 1..Term
Days == 0..MaxDay

AllOps == {"spill", "single", "settle", "lateFees", "updateStatus", "markDefault", "complete"}

ASSUME LoanAssumption ==
    /\ Term \in Nat \ {0} /\ MaxDay \in Nat /\ Backdate \in Nat
    /\ Due \in [Reps -> Nat \ {0}] /\ DueDay \in [Reps -> Nat]
    /\ Amounts \subseteq Nat \ {0}
    /\ ArrearsPeriod \in Nat \ {0} /\ DefaultPeriod \in Nat \ {0}
    /\ Ops \in [Procs -> SUBSET AllOps] /\ Fragile \subseteq Procs

VARIABLES
    today,
    loanStatus, readyForDefault, totalLateFees,     \* Loan
    status, accrued, feesPaid,                      \* LoanRepayment, per installment
    paidBy,     \* paidBy[i][d]: PaymentAllocations of i dated on or before day d
    entries,    \* LateFeeEntry: <<installment, day>>, one unit each
    reopened,   \* history: the installments that took money when CANCELLED
    job         \* what each handler execution is at and remembers

loanVars == <<loanStatus, readyForDefault, totalLateFees>>
repVars  == <<status, accrued, feesPaid, paidBy, entries, reopened>>
vars     == <<today, loanVars, repVars, job>>

-----------------------------------------------------------------------------
(* WRITTEN_OFF and the states before disbursement are in the enum, but     *)
(* nothing in the code moves a disbursed loan there.                       *)
LoanStatuses == {"ACTIVE", "IN_ARREARS", "COMPLETED", "DEFAULTED"}
RepStatuses  == {"PENDING", "PARTIAL", "PAID", "CANCELLED"}

(* seen: the loan status the handler read, or has decided to write.        *)
(* flag: the readyForDefault it read, or whether it is to set it.          *)
(* date: the payment date, or the day the processor started on.            *)
(* todo: the installments it is about, or has still to visit.              *)
Jobs == [at : {"idle", "spillTx", "spillCheck", "spillClear", "singleTx", "settleTx",
               "feeRead", "feeTx", "feeArrears", "feeReady", "write"},
         seen : LoanStatuses, flag : BOOLEAN, amount : Nat, date : Days,
         applyFee : BOOLEAN, todo : SUBSET Reps]

Idle == [at |-> "idle", seen |-> "ACTIVE", flag |-> FALSE, amount |-> 0, date |-> 0,
         applyFee |-> FALSE, todo |-> {}]

Init ==
    /\ today = 0
    /\ loanStatus = "ACTIVE" /\ readyForDefault = FALSE /\ totalLateFees = 0
    /\ status = [i \in Reps |-> "PENDING"]
    /\ accrued = [i \in Reps |-> 0] /\ feesPaid = [i \in Reps |-> 0]
    /\ paidBy = [i \in Reps |-> [d \in Days |-> 0]]
    /\ entries = {} /\ reopened = {}
    /\ job = [p \in Procs |-> Idle]

Starts(p, op) == job[p].at = "idle" /\ op \in Ops[p]

Resume(p, j) == job' = [job EXCEPT ![p] = j]

Stop(p) == Resume(p, Idle)

-----------------------------------------------------------------------------
Lesser(a, b)  == IF a < b THEN a ELSE b
Surplus(a, b) == IF a > b THEN a - b ELSE 0      \* Math.max(0, a - b)

Paid(i)    == paidBy[i][MaxDay]
Rest(i)    == Surplus(Due[i], Paid(i))
FeeRest(i) == Surplus(accrued[i], feesPaid[i])
Covered(i) == Rest(i) = 0 /\ FeeRest(i) = 0

Open == {i \in Reps : status[i] \notin {"PAID", "CANCELLED"}}

OverdueOn(day) == {i \in Reps : DueDay[i] < day}

(* A payment date is not before the disbursement, nor more than five       *)
(* minutes ahead of the clock: just before midnight it may be tomorrow's.  *)
PaymentDates == {d \in Days : d <= today + 1 /\ today - d <= Backdate}

(* The days an accrual through the day before asOf charges: those after    *)
(* the due day and the last charged day that began with a balance.         *)
MissingDays(i, asOf) ==
    {d \in Days :
        /\ DueDay[i] < d /\ d < asOf
        /\ \A c \in Days : <<i, c>> \in entries => c < d
        /\ paidBy[i][d - 1] < Due[i]}

(* One unit is charged for each new entry.                                 *)
FeesOf(i, charged) == Cardinality({e \in charged : e[1] = i})

Allocate(history, amount, date) ==
    [d \in Days |-> IF d >= date THEN history[d] + amount ELSE history[d]]

-----------------------------------------------------------------------------
(* Payments.  A payment of the installments S charges their missing late   *)
(* fees first, if asked to, then covers them in due order, fees before     *)
(* principal and interest.                                                 *)
Charges(S, asOf, applyFee) ==
    {e \in S \X Days : applyFee /\ e[2] \in MissingDays(e[1], asOf)}

(* What each installment of S owes once it is charged.                     *)
Owed(S, new) ==
    [i \in Reps |-> IF i \in S THEN Rest(i) + Surplus(accrued[i] + FeesOf(i, new), feesPaid[i]) ELSE 0]

(* take[i] is what installment i gets of the amount: all of it goes        *)
(* somewhere, and nothing goes further down while a balance is left above. *)
(* A payment of which nothing can be allocated is refused.                 *)
Spills(take, owed, amount) ==
    /\ SumFunction(take) = amount /\ \E i \in Reps : take[i] > 0
    /\ \A i \in Reps : take[i] <= owed[i]
    /\ \A i, k \in Reps : i < k /\ take[k] > 0 => take[i] = owed[i]

(* Mutant: an overdue installment is given the schema's OVERDUE status.    *)
StatusAfter_Overdue(i, newPaid, newFeesPaid, newAccrued, feesCount) ==
    IF newPaid >= Due[i] /\ newFeesPaid >= newAccrued THEN "PAID"
    ELSE IF DueDay[i] < today THEN "OVERDUE" ELSE "PARTIAL"

(* Mutant: fees are counted towards what the installment is for.           *)
StatusAfter_FeesCount(i, newPaid, newFeesPaid, newAccrued, feesCount) ==
    IF newPaid + newFeesPaid >= Due[i] THEN "PAID"
    ELSE IF newPaid > 0 \/ (feesCount /\ newFeesPaid > 0) THEN "PARTIAL"
    ELSE status[i]

(* The status a payment leaves an installment in; only the loan-level      *)
(* endpoint counts a payment of fees alone as a part payment.              *)
StatusAfter(i, newPaid, newFeesPaid, newAccrued, feesCount) ==
    IF newPaid >= Due[i] /\ newFeesPaid >= newAccrued THEN "PAID"
    ELSE IF newPaid > 0 \/ (feesCount /\ newFeesPaid > 0) THEN "PARTIAL"
    ELSE status[i]

(* Mutant: only the installments that get something have their fee column  *)
(* brought up to date.                                                     *)
Pay_PartialAccrual(new, take, date, feesCount) ==
    LET newAccrued == [i \in Reps |-> accrued[i] + FeesOf(i, new)]
        fee        == [i \in Reps |-> Lesser(take[i], Surplus(newAccrued[i], feesPaid[i]))]
    IN  /\ entries' = entries \cup new
        /\ totalLateFees' = totalLateFees + Cardinality(new)
        /\ accrued' = [i \in Reps |-> IF take[i] > 0 THEN newAccrued[i] ELSE accrued[i]]
        /\ feesPaid' = [i \in Reps |-> feesPaid[i] + fee[i]]
        /\ paidBy' = [i \in Reps |-> Allocate(paidBy[i], take[i] - fee[i], date)]
        /\ status' = [i \in Reps |->
               IF take[i] = 0 THEN status[i]
               ELSE StatusAfter(i, Paid(i) + take[i] - fee[i], feesPaid[i] + fee[i], newAccrued[i], feesCount)]
        /\ reopened' = reopened \cup {i \in Reps : status[i] = "CANCELLED" /\ take[i] > 0}
        /\ UNCHANGED <<today, loanStatus, readyForDefault>>

(* What the transaction writes: fee entries, both fee totals, allocations, *)
(* and the columns of each installment that gets something.                *)
Pay(new, take, date, feesCount) ==
    LET newAccrued == [i \in Reps |-> accrued[i] + FeesOf(i, new)]
        fee        == [i \in Reps |-> Lesser(take[i], Surplus(newAccrued[i], feesPaid[i]))]
    IN  /\ entries' = entries \cup new
        /\ totalLateFees' = totalLateFees + Cardinality(new)
        /\ accrued' = newAccrued
        /\ feesPaid' = [i \in Reps |-> feesPaid[i] + fee[i]]
        /\ paidBy' = [i \in Reps |-> Allocate(paidBy[i], take[i] - fee[i], date)]
        /\ status' = [i \in Reps |->
               IF take[i] = 0 THEN status[i]
               ELSE StatusAfter(i, Paid(i) + take[i] - fee[i], feesPaid[i] + fee[i], newAccrued[i], feesCount)]
        /\ reopened' = reopened \cup {i \in Reps : status[i] = "CANCELLED" /\ take[i] > 0}
        /\ UNCHANGED <<today, loanStatus, readyForDefault>>

(* The installments S take the payment of job[p], or it exceeds what they  *)
(* owe and the transaction rolls back.                                     *)
PayOrReject(p, S, feesCount, next) ==
    LET j    == job[p]
        new  == Charges(S, j.date, j.applyFee)
        owed == Owed(S, new)
    IN  \/ \E take \in [Reps -> 0..j.amount] :
              Spills(take, owed, j.amount) /\ Pay(new, take, j.date, feesCount) /\ Resume(p, next)
        \/ SumFunction(owed) < j.amount /\ Stop(p) /\ UNCHANGED <<today, loanVars, repVars>>

-----------------------------------------------------------------------------
(* POST loan/:loanId/payments, and its borrower and approval callers: the  *)
(* unlocked read, whose loan status decides later whether a default may be *)
(* cleared; the transaction; the check; the write.                         *)
SpillRead(p) ==
    /\ Starts(p, "spill")
    /\ loanStatus # "COMPLETED"
    /\ \E amount \in Amounts, date \in PaymentDates, applyFee \in BOOLEAN :
          Resume(p, [Idle EXCEPT !.at = "spillTx", !.seen = loanStatus, !.amount = amount,
                                 !.date = date, !.applyFee = applyFee])
    /\ UNCHANGED <<today, loanVars, repVars>>

(* Mutant: the transaction trusts the status the handler read.             *)
SpillTx_NoRecheck(p) ==
    /\ job[p].at = "spillTx"
    /\ IF \E i \in Reps : status[i] # "PAID"
         THEN PayOrReject(p, {i \in Reps : status[i] # "PAID"}, TRUE,
                 IF job[p].seen = "DEFAULTED" THEN [Idle EXCEPT !.at = "spillCheck"] ELSE Idle)
         ELSE Stop(p) /\ UNCHANGED <<today, loanVars, repVars>>

SpillTx(p) ==
    /\ job[p].at = "spillTx"
    /\ IF loanStatus # "COMPLETED" /\ Open # {}
         THEN PayOrReject(p, Open, TRUE,
                 IF job[p].seen = "DEFAULTED" THEN [Idle EXCEPT !.at = "spillCheck"] ELSE Idle)
         ELSE Stop(p) /\ UNCHANGED <<today, loanVars, repVars>>

OverdueCovered ==
    LET overdue == {i \in OverdueOn(today) : status[i] # "CANCELLED"} IN
    overdue # {} /\ \A i \in overdue : Covered(i)

SpillCheck(p) ==
    /\ job[p].at = "spillCheck"
    /\ IF OverdueCovered
         THEN Resume(p, [Idle EXCEPT !.at = "spillClear"])
         ELSE Stop(p)
    /\ UNCHANGED <<today, loanVars, repVars>>

SpillClear(p) ==
    /\ job[p].at = "spillClear"
    /\ loanStatus' = "ACTIVE" /\ readyForDefault' = FALSE
    /\ Stop(p)
    /\ UNCHANGED <<today, totalLateFees, repVars>>

(* POST /api/schedules/payments: one installment; the loan's status is     *)
(* never looked at, and of the installment's only PAID is refused.         *)
SingleRead(p) ==
    /\ Starts(p, "single")
    /\ \E i \in Reps, amount \in Amounts, date \in PaymentDates, applyFee \in BOOLEAN :
          /\ status[i] # "PAID"
          /\ Resume(p, [Idle EXCEPT !.at = "singleTx", !.amount = amount, !.date = date,
                                    !.applyFee = applyFee, !.todo = {i}])
    /\ UNCHANGED <<today, loanVars, repVars>>

SingleTx(p) ==
    /\ job[p].at = "singleTx"
    /\ IF \A i \in job[p].todo : status[i] # "PAID"
         THEN PayOrReject(p, job[p].todo, FALSE, Idle)
         ELSE Stop(p) /\ UNCHANGED <<today, loanVars, repVars>>

-----------------------------------------------------------------------------
(* confirmEarlySettlement.  The discount is some part of what installments *)
(* not yet due on the payment date still owe (the product's rule and the   *)
(* proration are arithmetic); no late fee is accrued, and those accrued    *)
(* are paid or waived, both of which set lateFeesPaid.                     *)
Settleable == loanStatus \in {"ACTIVE", "IN_ARREARS"} /\ Open # {}

SettleRead(p) ==
    /\ Starts(p, "settle") /\ Settleable
    /\ \E date \in PaymentDates :
          Resume(p, [Idle EXCEPT !.at = "settleTx", !.date = date])
    /\ UNCHANGED <<today, loanVars, repVars>>

(* alloc[i]: the allocation installment i gets, dated now by default.      *)
SettlesAll(alloc, date) ==
    LET rest == [i \in Reps |-> IF i \in Open THEN Rest(i) ELSE 0] IN
    /\ \A i \in Reps : alloc[i] <= rest[i]
    /\ SumFunction(rest) - SumFunction(alloc) <= SumFunctionOnSet(rest, {i \in Reps : DueDay[i] >= date})

SettleTx(p) ==
    /\ job[p].at = "settleTx"
    /\ IF Settleable
         THEN /\ \E alloc \in [Reps -> UNION {0..Due[i] : i \in Reps}] :
                    /\ SettlesAll(alloc, job[p].date)
                    /\ paidBy' = [i \in Reps |-> Allocate(paidBy[i], alloc[i], today)]
              /\ status' = [i \in Reps |-> IF i \in Open THEN "CANCELLED" ELSE status[i]]
              /\ feesPaid' = [i \in Reps |-> IF i \in Open THEN accrued[i] ELSE feesPaid[i]]
              /\ loanStatus' = "COMPLETED" /\ readyForDefault' = FALSE
              /\ UNCHANGED <<today, totalLateFees, accrued, entries, reopened>>
         ELSE UNCHANGED <<today, loanVars, repVars>>
    /\ Stop(p)

-----------------------------------------------------------------------------
(* LateFeeProcessor, for this loan: select the overdue installments, read  *)
(* the loan, charge each installment in a transaction of its own, then     *)
(* decide on arrears and default readiness.  Its advisory lock is a        *)
(* session lock taken on a pooled connection, which PostgreSQL grants      *)
(* again to the session that holds it: a second run is not kept out.       *)
FeeSelect(p) ==
    LET overdue == OverdueOn(today) \cap Open IN
    /\ Starts(p, "lateFees")
    /\ loanStatus # "COMPLETED" /\ overdue # {}
    /\ Resume(p, [Idle EXCEPT !.at = "feeRead", !.date = today, !.todo = overdue])
    /\ UNCHANGED <<today, loanVars, repVars>>

FeeRead(p) ==
    /\ job[p].at = "feeRead"
    /\ Resume(p, [job[p] EXCEPT !.at = "feeTx", !.seen = loanStatus, !.flag = readyForDefault])
    /\ UNCHANGED <<today, loanVars, repVars>>

(* The transaction locks the installment but does not look at its status;  *)
(* if it fails, the processor notes the error and goes on.                 *)
FeeTx(p) ==
    /\ job[p].at = "feeTx"
    /\ \E i \in job[p].todo :
          LET new == Charges({i}, job[p].date, TRUE) IN
          /\ entries' = entries \cup new
          /\ accrued' = [accrued EXCEPT ![i] = @ + FeesOf(i, new)]
          /\ totalLateFees' = totalLateFees + Cardinality(new)
          /\ Resume(p, [job[p] EXCEPT !.todo = @ \ {i}])
    /\ UNCHANGED <<today, loanStatus, readyForDefault, status, feesPaid, paidBy, reopened>>

FeeTxFails(p) ==
    /\ job[p].at = "feeTx" /\ p \in Fragile
    /\ \E i \in job[p].todo : Resume(p, [job[p] EXCEPT !.todo = @ \ {i}])
    /\ UNCHANGED <<today, loanVars, repVars>>

(* Mutant: an installment is late only past the product's periods.         *)
FeeCheck_Past(p) ==
    LET j       == job[p]
        late(n) == \E i \in OverdueOn(j.date) \cap Open : today - DueDay[i] > n
        arrears == late(ArrearsPeriod) /\ j.seen = "ACTIVE"
        flag    == late(DefaultPeriod) /\ ~j.flag
    IN  /\ j.at = "feeTx" /\ j.todo = {}
        /\ Resume(p, [Idle EXCEPT !.at = IF arrears THEN "feeArrears" ELSE IF flag THEN "feeReady" ELSE "idle",
                                  !.flag = flag])
        /\ UNCHANGED <<today, loanVars, repVars>>

(* Both decisions are made from the installments as they are now and the   *)
(* loan as it was read at the start.                                       *)
FeeCheck(p) ==
    LET j       == job[p]
        late(n) == \E i \in OverdueOn(j.date) \cap Open : today - DueDay[i] >= n
        arrears == late(ArrearsPeriod) /\ j.seen = "ACTIVE"
        flag    == late(DefaultPeriod) /\ ~j.flag
    IN  /\ j.at = "feeTx" /\ j.todo = {}
        /\ Resume(p, [Idle EXCEPT !.at = IF arrears THEN "feeArrears" ELSE IF flag THEN "feeReady" ELSE "idle",
                                  !.flag = flag])
        /\ UNCHANGED <<today, loanVars, repVars>>

FeeArrears(p) ==
    /\ job[p].at = "feeArrears"
    /\ loanStatus' = "IN_ARREARS"
    /\ IF job[p].flag THEN Resume(p, [job[p] EXCEPT !.at = "feeReady"]) ELSE Stop(p)
    /\ UNCHANGED <<today, readyForDefault, totalLateFees, repVars>>

FeeReady(p) ==
    /\ job[p].at = "feeReady"
    /\ readyForDefault' = TRUE
    /\ Stop(p)
    /\ UNCHANGED <<today, loanStatus, totalLateFees, repVars>>

-----------------------------------------------------------------------------
(* Mutant: the loan may be in any status.                                  *)
Decides_AnyStatus(p, op, new) ==
    /\ Starts(p, op)
    /\ Resume(p, [Idle EXCEPT !.at = "write", !.seen = new])
    /\ UNCHANGED <<today, loanVars, repVars>>

(* The three status endpoints read an active or in-arrears loan, decide,   *)
(* and write the status with no condition on what it has become.           *)
Decides(p, op, new) ==
    /\ Starts(p, op)
    /\ loanStatus \in {"ACTIVE", "IN_ARREARS"}
    /\ Resume(p, [Idle EXCEPT !.at = "write", !.seen = new])
    /\ UNCHANGED <<today, loanVars, repVars>>

(* POST :loanId/update-status and the loop of update-all-statuses.         *)
UpdateStatus(p) ==
    LET unpaid  == {i \in OverdueOn(today) : status[i] # "CANCELLED" /\ ~Covered(i)}
        late(n) == \E i \in unpaid : today - DueDay[i] >= n
    IN  \/ late(DefaultPeriod) /\ Decides(p, "updateStatus", "DEFAULTED")
        \/ /\ ~late(DefaultPeriod) /\ late(ArrearsPeriod) /\ loanStatus # "IN_ARREARS"
           /\ Decides(p, "updateStatus", "IN_ARREARS")
        \/ /\ unpaid = {} /\ loanStatus = "IN_ARREARS"
           /\ Decides(p, "updateStatus", "ACTIVE")

MarkDefault(p) == Decides(p, "markDefault", "DEFAULTED")

(* Mutant: the installments are not looked at.                             *)
Complete_Unchecked(p) == Decides(p, "complete", "COMPLETED")

Complete(p) == Open = {} /\ Decides(p, "complete", "COMPLETED")

WriteStatus(p) ==
    /\ job[p].at = "write"
    /\ loanStatus' = job[p].seen
    /\ Stop(p)
    /\ UNCHANGED <<today, readyForDefault, totalLateFees, repVars>>

-----------------------------------------------------------------------------
(* The server dies, or a statement between two steps throws.               *)
Crash(p) ==
    /\ job[p].at # "idle" /\ p \in Fragile
    /\ Stop(p)
    /\ UNCHANGED <<today, loanVars, repVars>>

Tick ==
    /\ today < MaxDay
    /\ today' = today + 1
    /\ UNCHANGED <<loanVars, repVars, job>>

Starting(p) ==
    \/ SpillRead(p) \/ SingleRead(p) \/ SettleRead(p) \/ FeeSelect(p)
    \/ UpdateStatus(p) \/ MarkDefault(p) \/ Complete(p)

FeeStep(p) ==
    FeeRead(p) \/ FeeTx(p) \/ FeeTxFails(p) \/ FeeCheck(p) \/ FeeArrears(p) \/ FeeReady(p)

Step(p) ==
    \/ SpillTx(p) \/ SpillCheck(p) \/ SpillClear(p) \/ SingleTx(p) \/ SettleTx(p)
    \/ FeeStep(p) \/ WriteStatus(p)

Next == Tick \/ \E p \in Procs : Starting(p) \/ Step(p) \/ Crash(p)

Spec == Init /\ [][Next]_vars

(* The cron job runs every day and a run goes on; payers may stall.        *)
FairSpec ==
    /\ Spec
    /\ \A p \in Procs : WF_vars(FeeSelect(p)) /\ WF_vars(FeeStep(p))

-----------------------------------------------------------------------------
TypeOK ==
    /\ today \in Days
    /\ loanStatus \in LoanStatuses /\ readyForDefault \in BOOLEAN /\ totalLateFees \in Nat
    /\ status \in [Reps -> RepStatuses]
    /\ accrued \in [Reps -> Nat] /\ feesPaid \in [Reps -> Nat]
    /\ paidBy \in [Reps -> [Days -> Nat]]
    /\ entries \in SUBSET (Reps \X Days) /\ reopened \subseteq Reps
    /\ job \in [Procs -> Jobs]

(* Whatever payments, settlements and accruals interleave, an installment  *)
(* never takes more than it is for, nor more late fees than it was charged.*)
NeverOverpaid == \A i \in Reps : Paid(i) <= Due[i] /\ feesPaid[i] <= accrued[i]

(* The three records of late fees agree: the column of each installment,   *)
(* the total of the loan, and the ledger of charged days, although three   *)
(* handlers each keep them by increments of their own.                     *)
FeeLedgerAgrees ==
    /\ \A i \in Reps : accrued[i] = FeesOf(i, entries)
    /\ totalLateFees = Cardinality(entries)

(* Backfill leaves no hole and charges no day before its time: the charged *)
(* days of an installment run from the day after it was due without a gap  *)
(* and do not go past today; LoanAccount says when today is among them.    *)
FeesAreConsecutive ==
    \A e \in entries :
        /\ DueDay[e[1]] < e[2] /\ e[2] <= today
        /\ \A d \in (DueDay[e[1]] + 1)..e[2] : <<e[1], d>> \in entries

(* PAID means the principal and interest are in.                           *)
PaidIsPaid == \A i \in Reps : status[i] = "PAID" => Paid(i) = Due[i]

(* PAID is final, and a paid installment takes no more money: a settlement *)
(* that races the payment does not cancel it.                              *)
PaidStaysPaid ==
    [][\A i \in Reps : status[i] = "PAID" => status'[i] = "PAID" /\ paidBy'[i] = paidBy[i]]_vars

(* The account a borrower is promised, read off the columns, the           *)
(* allocations and the late-fee entries.                                   *)
Account == INSTANCE LoanAccount WITH
    Installments <- Reps,
    day     <- today,
    charged <- [i \in Reps |-> {d \in Days : <<i, d>> \in entries}],
    paid    <- [i \in Reps |-> Paid(i)],
    closed  <- {i \in Reps : status[i] = "PAID"}

(* Whatever payments, settlements and accruals interleave, and wherever    *)
(* they die, the three tables they write together keep the account as      *)
(* LoanAccount promises it: every step is one of its transactions.         *)
ImplementsAccount == Account!Spec

(* p takes in a payment by POST /api/schedules/payments.                   *)
SinglePays(p) == job[p].at = "singleTx" /\ job'[p].at = "idle"

(* A loan is completed with nothing left open, and what a completed loan   *)
(* has open is what a settlement cancelled and the single-installment      *)
(* endpoint then took money for: neither a settlement that races payments  *)
(* nor a completion decided before it leaves anything else open.           *)
CompletedIsSettled == loanStatus = "COMPLETED" => Open \subseteq reopened

(* A completed loan takes no more money, however late a payment, another   *)
(* settlement or an approval comes to it, but through the single-          *)
(* installment endpoint, and there for the cancelled installments only.    *)
OnlyCancelledTakeMore ==
    [][loanStatus = "COMPLETED" =>
          \A i \in Reps : paidBy'[i] # paidBy[i] \/ feesPaid'[i] # feesPaid[i] =>
              /\ status[i] = "CANCELLED" \/ i \in reopened
              /\ \E p \in Procs : SinglePays(p)]_vars

(* A claim of the user guide (early settlement: "no further payments can   *)
(* be recorded") that does not hold: the single-installment endpoint does  *)
(* not look at the loan, and of the installments refuses the PAID ones.    *)
NoPaymentAfterCompletion ==
    [][loanStatus = "COMPLETED" => paidBy' = paidBy /\ feesPaid' = feesPaid]_vars

(* A loan with an installment late by the arrears period does not stay     *)
(* ACTIVE, and one late by the default period comes to be flagged (or the  *)
(* installment is dealt with first).                                       *)
LateIsNoticed ==
    LET late(n) == \E i \in Open : today - DueDay[i] >= n IN
    /\ late(ArrearsPeriod) /\ loanStatus = "ACTIVE" ~> loanStatus # "ACTIVE" \/ ~late(ArrearsPeriod)
    /\ late(DefaultPeriod) ~> readyForDefault \/ ~late(DefaultPeriod)

(* p goes on from a reading of the loan to a write that will not look at   *)
(* the loan again.                                                         *)
Pending(p) ==
    \/ job[p].at \in {"spillCheck", "spillClear", "feeRead", "feeTx", "feeArrears", "feeReady"}
    \/ job[p].at = "write" /\ job[p].seen # "COMPLETED"

(* user-guide-pro, early settlement: it cannot be undone, and no more late *)
(* fees are accrued.  That is so once the handlers that had read the loan  *)
(* before are through: of those that come later none changes its status,   *)
(* and only a single-installment payment charges fees.                     *)
CompletedForGood ==
    [][loanStatus = "COMPLETED" /\ (\A p \in Procs : ~Pending(p)) =>
          /\ UNCHANGED <<loanStatus, readyForDefault>>
          /\ entries' # entries => \E p \in Procs : SinglePays(p)
          /\ \A p \in Procs : ~Pending(p)']_vars
=============================================================================
