# TrueKredit: a TLA+ model of the lending back end

TrueKredit is a loan-management system for licensed money lenders. This directory holds TLA+ models
of the life of a loan in it, from application to repayment, the TLC configurations that check them,
and TLAPS proofs of their main properties. Paths below are relative to `apps/backend_pro/src/`
unless they start with `apps/` or `docs/`.

Contents: [1 the system](#1-the-system), [2 the models](#2-the-models), [3 what TLC
checks](#3-what-tlc-checks), [4 where code and docs disagree](#4-where-code-and-docs-disagree), [5
what is proved](#5-what-is-proved), [6 limits](#6-limits), [7 plan](#7-plan).

## 1 The system

### 1.1 Parts

| part | where | state it keeps | in the model |
| --- | --- | --- | --- |
| Payment idempotency | `lib/paymentIdempotency.ts` | `PaymentIdempotency` rows | `PaymentIdempotency`, `PaymentOnce` |
| Loan payments | `modules/schedules/recordLoanSpilloverPayment.ts`, `modules/schedules/routes.ts` | `PaymentTransaction`, `PaymentAllocation`, `LoanRepayment`, `LateFeeEntry` | `LoanServicing`, `LoanAccount`, `PaymentLocks`, `InstallmentMath` |
| Early settlement | `modules/loans/earlySettlementConfirmService.ts` | the same, and `Loan.status` | `LoanServicing`, `LoanAccount`, `PaymentLocks`, `InstallmentMath` |
| Late-fee processor | `lib/lateFeeProcessor.ts`, cron at 00:30 | `LateFeeEntry`, fee totals, arrears and default flags | `LoanServicing`, `LoanAccount`, `PaymentLocks` |
| Loan status endpoints | `modules/loans/routes.ts` (update-status, update-all-statuses, mark-default, complete) | `Loan.status` | `LoanServicing` |
| Receipt numbers | `lib/receiptNumber.ts` | `PaymentTransaction.receiptNumber` | `PaymentLocks` |
| Borrower payment and settlement requests | `modules/borrower-loans/routes.ts`, `modules/schedules/borrower*Service.ts` | `BorrowerManualPaymentRequest`, `BorrowerEarlySettlementRequest` | `PaymentApproval` |
| Schedule and settlement arithmetic | `modules/schedules/service.ts`, `modules/loans/earlySettlementQuoteService.ts`, `lib/math.ts` | none (pure) | `InstallmentMath`, but for the quote |
| Applications | `modules/loans/routes.ts` (L1 and L2 review), `modules/loans/applicationNegotiationService.ts`, `modules/borrower-applications/routes.ts` | `LoanApplication`, `LoanApplicationOffer` | `LoanApplication` |
| Attestation booking | `lib/attestation*.ts`, cron every 15 min; endpoints in `modules/borrower-loans`, `modules/loans` | attestation columns of `Loan` | `AttestationBooking` |
| Disbursement and agreement | `modules/loans/routes.ts`, `loanAgreementPdfService.ts`, `modules/borrower-signing`, `modules/admin-signing` | agreement columns of `Loan`, `LoanInternalSignature`, first `LoanScheduleVersion` | `Disbursement` |
| Reminders and late notices | `lib/paymentReminderProcessor.ts`, `lib/latePaymentNoticeProcessor.ts` | dispatch rows | not modelled |
| Identity verification, signing gateway | `modules/trueidentity`, certificate endpoints of `modules/*-signing`, `apps/signing-gateway` | verification and certificate rows | not modelled: relays to outside services |
| Tenants, members, roles, products, compliance, dashboards, notifications | `modules/*`, `packages/shared` | one table each | not modelled: CRUD and reporting |
| SaaS edition | `apps/backend` | its own copies of the above, subscriptions, invoices | not modelled; `backend_pro` is the edition followed here |
| Front ends | `apps/admin`, `apps/admin_pro`, `apps/borrower_pro`, `apps/borrower_pro_mobile`, `packages/borrower` | none of the above | not modelled: clients of the API |
| Deployment | `.github`, `terraform`, `scripts` | none | not modelled |

### 1.2 How they interact

All parts share one PostgreSQL database through Prisma; there is no queue and no in-memory state
that matters. What looks like one request is a series of SQL statements with an `await` between
any two, and several server processes serve requests at once. The parts meet on four tables:

* `Loan`: every money-moving transaction locks its row (`SELECT ... FOR UPDATE`). The status
  endpoints, the late-fee processor's arrears and default-ready updates, and the clearing of a
  default after a payment do not: they are single `UPDATE ... WHERE id` statements based on an
  earlier read.
* `LoanRepayment` (an installment): columns for late fees accrued and paid, and a status. Payments
  re-derive the status; a settlement cancels what is open; the fee processor adds to the fees.
* `PaymentIdempotency`: one row per (tenant, endpoint, Idempotency-Key), written before and after
  the business transaction, never in it.
* `PaymentTransaction.receiptNumber`: drawn under an advisory lock per payment date.

A loan passes through three of the modules in turn. An approved application creates its `Loan`
(`LoanApplication`), an online borrower attests it (`AttestationBooking`), the agreement is signed
and the loan disbursed with its first schedule (`Disbursement`), and only then is it served
(`LoanServicing`). The endpoints of these stages have no locks at all: each reads a row, checks
it, and updates it by id.

A borrower's request is approved by an admin; the approval calls the payment or settlement handler
with an idempotency key made of the request's id and then writes the request's status.

### 1.3 What is hard, and what correct means

* *Idempotency.* Retries race each other; the server may die, and a commit may not be heard of,
  between any two statements. Correct: one payment per key, every success answer is about it,
  stored responses are final.
* *Ledger of a loan.* Payments, settlements and fee accruals interleave, with back-dated payments
  and backfilled fees. Correct: nothing overpaid, the three records of late fees agree, fee days
  contiguous and over when they are charged, `PAID` means paid and is final.
* *Status of a loan.* Written by seven places on reads of different age. Correct: a completed loan
  has nothing open, takes no payment and stays completed; late loans are flagged; a default that
  is paid up is cleared. (Section 4 says where the code falls short of these.)
* *Locks.* Correct: no circular wait; receipt numbers fresh and without holes.
* *Applications, attestation, disbursement.* Every decision is a read and a later write by id, with
  seconds at a signing gateway or a calendar in between. Correct: a loan is made once, on terms
  that were reviewed; it is paid out once, approved and attested; two loans do not book one slot;
  and when requests do not overlap, the records stay coherent.
* *Arithmetic.* Every share of an amount is rounded, and some row takes up the difference. Correct:
  a schedule repays what was lent and no row is negative; what is received is booked, to a cent or
  so, and in the order of the installments.
* *Requests.* Approve and reject cross; approvals are double-clicked. Correct: an approved request
  names its one payment, a rejected one has none.

`PROJECT.json` lists every hazard with its line and the properties that watch it, and those that no
property watches yet, with the reason.

## 2 The models

```
PaymentOnce            what an idempotent payment endpoint promises
   ^ implemented by
PaymentIdempotency     rows, retries, crashes, lost acknowledgements
   ^ INSTANCE
PaymentApproval        borrower requests

LoanAccount            what the books of one loan promise
   ^ implemented by
LoanServicing          one loan, all its writers

PaymentLocks           transactions lock by lock
InstallmentMath        amounts spread over installments, in cents

LoanApplication  -->  AttestationBooking  -->  Disbursement  -->  LoanServicing
(from application to loan; each module starts where the one before it ends)

MC<module>: constants and symmetry for TLC      <module>Proofs: theorems
```

### 2.1 PaymentIdempotency and PaymentOnce

A `Request` is one HTTP execution, with the key and payload it was sent with; a client's retry is
another request. `pc` is the `await` the handler is at: `reserve` (INSERT), `lookup`, `reclaim`
(`updateMany ... status: 'FAILED'`), `recheck`, `business` (the transaction), `finish`, `fail`.
`row` is the database row, `paid` the business transactions that committed under the key, `from`
the request whose result an answer carries. `Drop` is the server dying at any of these points, or
the closing UPDATE failing (its error is swallowed). `CommitUnacknowledged` is a commit that
`prisma.$transaction` reports as an error; the constant `AckLoss` is the set
of keys where it can happen, since it breaks the contract.

The three handlers that use the protocol (loan-level payment, single-installment payment,
settlement) share the same try/catch frame, so one module stands for the three.

`PaymentOnce` is the contract: `Book` once per key, `Tell` only what was booked.
`ImplementsOnce` states the refinement; `booked` maps to the committed payment, `told` to the
success answers, both of the keys not in `AckLoss`: they keep the contract whatever goes on under
the others.

### 2.2 LoanServicing

One disbursed loan with `Term` installments. Money is counted in units of one day's late fee and
an installment's principal and interest are one amount. `paidBy[i][d]` is the sum of allocations
of installment `i` dated on or before day `d`: that is what back-dated accrual needs, and
`Paid(i)` is its last entry. `entries` is the set of `LateFeeEntry` rows. `job[p]` is a handler
execution: where it is, and what it remembers from its unlocked reads. A payment may be dated
`Backdate` days back and up to tomorrow: `validatePaymentDate` lets a date run five minutes ahead,
and any day has a midnight. `reopened` is a history variable, the installments that took money
when they were CANCELLED.

| action | code |
| --- | --- |
| `SpillRead`, `SpillTx`, `SpillCheck`, `SpillClear` | `handleRecordLoanSpilloverPayment`: unlocked read, transaction under the Loan lock, re-read of the installments if the *first* read said DEFAULTED, update of the loan |
| `SingleRead`, `SingleTx` | `POST /api/schedules/payments` |
| `SettleRead`, `SettleTx` | `confirmEarlySettlement` |
| `FeeSelect`, `FeeRead`, `FeeTx`, `FeeTxFails`, `FeeCheck`, `FeeArrears`, `FeeReady` | `LateFeeProcessor.processLateFees` for this loan |
| `UpdateStatus`, `MarkDefault`, `Complete`, then `WriteStatus` | the status endpoints |
| `Crash`, `Tick` | a process dies or a statement throws; a day passes |

A transaction is one step: it holds the Loan row lock from its first statement, and every other
transaction of the loan takes it too. `PaymentLocks` opens the transactions up. The bare updates
are separate steps from the reads they rely on, which is where most of section 4 comes from.

`Pay` is the whole write of a payment transaction: accrual through the payment date when
`applyLateFee`, allocation in due order and fees first (`Spills` says it as a property of the
amounts, not as a loop), and the new status of each installment touched (`StatusAfter`). The
settlement's discount is any amount up to what installments due on or after the payment date owe.

`LoanAccount` is the contract: the account of the loan, without handlers, locks or reads, and with
only what a borrower sees of an installment: the days a late fee was charged for, the fees and the
amount received, whether it is closed for good (PAID; a CANCELLED installment can still take money,
section 4). Its one action besides the turn of the day, `Transaction`, relates these before and
after for all installments at once: new fee days continue the old ones, are over (or are today's, if
money comes in by a payment dated tomorrow), and are never taken back (`Charge`); nothing is
overpaid and nothing given back (`Receive`); what is closed owes nothing when it is closed, stays
closed and takes nothing more (`Close`). `ImplementsAccount` says that every step of every handler,
in any interleaving and with deaths, is such a transaction or leaves the account alone.

### 2.3 PaymentLocks

Each connection runs one transaction at a time: its `Plan` is the locking statements in code
order, `n` how many returned. A loan-level payment locks the loan, its installments, then once per
receipt the advisory lock of the day; a single payment and a fee accrual lock the loan and the
installment; a settlement draws its receipt first and then locks the loan. `Lock` on the advisory
lock also draws the number, `Insert` uses it or, when taken, fails the transaction on the unique
index, `Commit` publishes. `Kill` is PostgreSQL's deadlock detector. The installments of a loan
are only ever locked under the loan's row, so one lock stands for them.

### 2.4 PaymentApproval

Requests of one loan, manual payments or settlements, over an instance of `PaymentIdempotency`
whose keys are the request ids (the code builds the key from the id). `review[p]` says which
handler an execution is in; while it is `approve`, `Handle` takes the steps of the idempotent
payment handler. All approvals of a manual payment carry the same payload; an admin's approval of
a settlement may differ (waiver, note, date). A booked settlement completes the loan, after which
the payment transaction refuses (`LoanOpen`).

### 2.5 LoanApplication

One application, its offers (oldest first, as the code orders them by `createdAt`) and the loan
made of it. `req[r]` is an HTTP execution: what it has read and will write. An action `ReadTo...`
is the `findFirst` with all checks on the row; the steps of `LookAtOffers` (`CountPending`,
`Supersede`, `PickOffer`) are the second read, or first write, of the endpoints that deal with
offers; `Write...` is the transaction, or the update, that ends the endpoint. An uploaded document
is two writes, the document and then the status (`ResetReview`), and the process may die between
them. Amount and term are one value, an element of `Terms`. An offer that is settled
keeps nothing that anybody reads (`Resolved`); one that is being accepted was read before, with its
terms.

`app.schedule` is the risk-adjusted schedule (`actualInterestRate` and `actualTerm`), if there is
one: it is given when the application is made, set or removed when an admin submits it, and left
alone by everything else, a negotiation too. `LoanTerms` is what an approval lends: the
application's terms, or with a schedule those derived from it. The constant `Compliant` is the
derivation, any function, and `NoTerms` where it refuses (the approval then fails). The loan is on
what the row lent while it was in the L2 queue (`LoanFollowsL2Row`); REJECTED and CANCELLED are one
status, CLOSED.

`fresh` marks a request on whose rows nobody has written since it read. It guards nothing: a
request that is not fresh writes all the same, and sets the history variable `disturbed`. That is
what lets an invariant say "the review goes wrong in no other way than by a write decided on rows
that had changed" (`OnlyDisturbedGoWrong`), beside those that hold in any interleaving.

### 2.6 AttestationBooking

The attestation columns of several loans of a tenant that share the slots; `Overlaps` is the
relation of `intervalsOverlap`. `ReadTo...` and `Write...` are as above; a proposal and a
counter-proposal look at the bookings of the other loans in between (`CheckSlot`, that is
`assertSlotStillFree`). The time does not appear: an expiry is possible whenever a proposal stands,
since the slot may have come. A row is stale for a request when its own loan has been written or,
for the two that book, when another booking was written after the look.

### 2.7 Disbursement

One loan between approval and disbursement. `pdf` is the file at `agreementPath` with the date it
bears and who has signed it (none of which an uploaded scan shows to the code: `Scan`); it is `kept`
until an upload deletes it. A borrower's signature is generated for today, which dates the loan
(`DateAgreement`), goes through the gateway and is stored (`WriteSignature`); internal signers read
the file, have it signed and write it back with their row and, when both rows are there, the
approval. Their transaction is taken statement by statement, since two of them count each other's
rows: `LockLoan` is its update of the loan, which from then on keeps other updates waiting
(`Unlocked`), `CountSignatures` creates the row and counts what is committed and its own,
`WriteCountersignature` is the commit. `SetDate` is any generation of the agreement for viewing.
`WriteDisbursement` makes the loan ACTIVE and version 1 of its schedule from the date it has read;
the unique indexes are `TransactionFails`.

### 2.8 InstallmentMath

The loops that spread an amount over the installments, run on a `task`: the amount, the term, and
the rate (a schedule) or what each row owes (a payment, a settlement). Amounts are cents; a ratio
is a multiple of one over `Precision`, 10^8 in the code. `left` and `interestLeft` are what the
loop has not yet given out; `principal`, `interest` and `fee` are the rows. A step is one turn of a
loop.

| action | code |
| --- | --- |
| `FlatRow`, `Rule78Row` | `calculateFlatInterest`, `calculateRule78` (`modules/schedules/service.ts`) |
| `DecliningRow`, `DecliningLast` | `calculateDecliningBalance`, which `calculateEffectiveRate` calls: the months, and a balance left over put on the last |
| `PayRow`, `PayEnd` | the allocation of `handleRecordLoanSpilloverPayment` |
| `SettleRow`, `Reconcile` | the proration of `confirmEarlySettlement` and its guard against drift |
| `RoundDiv`, `Ratio`, `Share` | `safeRound`, `safeDivide`, `safeMultiply` (`lib/math.ts`) |

## 3 What TLC checks

Every property of a passing run has a mutant in its module (`<definition>_<what is wrong>`): a bug
a programmer might have written, with which TLC finds the property violated. `PROJECT.json` pairs
them.

| run (`.cfg`) | instance | properties | distinct states |
| --- | --- | --- | --- |
| `idempotency` (`PaymentIdempotency`) | 3 requests, 2 payloads, 2 keys of which one loses acknowledgements, fair | `TypeOK`, `AtMostOnePayment`, `BookedIsNeverRetried`, `AnswersTheBookedPayment`, `ResponseIsFinal`, `ImplementsOnce`, `EveryRequestAnswered` | 121,160 |
| `loan_ledger` (`LoanServicing`) | 2 handlers for every endpoint but mark-default, both may die; 2 installments, 4 days | `TypeOK`, `FeeLedgerAgrees`, `CompletedIsSettled`, `ImplementsAccount`, `OnlyCancelledTakeMore`, `CompletedForGood` | 876,637 |
| `loan_liveness` (`LoanServicingLiveness`) | the processor, against payments and mark-default; 3 days, fair | `LateIsNoticed` | 59,658 |
| `locks` (`PaymentLocks`) | 3 connections, 2 loans, 2 payment dates, all kinds of transaction, 2 receipts a day | `TypeOK`, `NumbersAreFresh`, `ReceiptsAreSerial`, `CirclesNeedASettlement` | 50,824 |
| `approval` (`PaymentApproval`) | 5 executions, a manual payment whose commit may go unacknowledged and a settlement | `TypeOK`, `ApprovedNamesItsPayment`, `DecisionsStand` | 243,558 |
| `application` (`LoanApplication`) | 2 requests at any endpoints, 2 terms of one amount, 2 schedules that derive one each, 2 offers | `TypeOK`, `StatusIsBacked`, `LoanFollowsL2Row`, `OnlyDisturbedGoWrong`, `LoanIsFinal` | 1,755,100 |
| `attestation` (`AttestationBooking`) | 2 requests, 2 loans, 3 hour-long slots on a half-hour grid | `TypeOK`, `BookedHasItsTime`, `SigningNeedsAttestation`, `NoDoubleBooking`, `OnlyDisturbedGoWrong`, `CancellationIsFinal` | 2,842,792 |
| `disbursement` (`Disbursement`) | 2 requests, 2 dates | `TypeOK`, `DisbursedWasReady`, `OnlyDisturbedGoWrong`, `LastSignatureApproves` | 1,587,565 |
| `installment_math` (`InstallmentMath`) | schedules of 1 to 5 months, amounts of up to 33 cents, no rate, a low and a high one; payments over 1 or 2 installments; settlements over 1 to 9 | `TypeOK`, `SchedulesAddUp`, `PaymentIsSpread`, `SettlementIsSpread` | 154,410 |

The three other runs, `locks_deadlock`, `schedule_not_signed` and `payment_after_completion`, are
those of section 4. `ApprovedNamesItsPayment` says "a payment booked for it" in every case and "the
only one" where commits are acknowledged, in the run those of the settlement.

**Bounds, and why they are enough.** Races in this code are between two or three parties: one that
read, one that wrote in between, one that retries. The idempotency run has three requests, which may
meet on one key or not (rows of different keys share nothing); the approval run has five executions
since a crossing needs a submission, two approvals and a rejection. The loan has two installments,
because a payment spills from one to the next and no further rule depends on a third; they are due
on successive days, so that one is late for arrears and default while the other is not yet due. Four
days let a fee run backfill, a payment dated tomorrow charge today, and arrears (after 1 day) come
before default (after 3). A payment of two units covers part of the first installment with its fees,
all of it, or the second one and too much. `mark-default` writes what `update-status` may write in
`loan_ledger` and is served in `loan_liveness`. In `application`, `attestation` and `disbursement`
two requests at a time are any two endpoints of the code crossing at any of their statements, and
since a request may run again, any number of them one after the other; two terms or dates tell the
old from the new. Three slots, of which the first and the last do not overlap, are enough for a
booking that overlaps one and not another. The theorems of section 5 have any number of requests.
The amounts of `installment_math` are few cents over few rows, where a rounding is the largest part
of a share and every tie and every cap occurs; a `Precision` of 100 rounds ratios a million times
more coarsely than the code. The theorems have any amounts, terms, rates and precision. In
`loan_ledger` (`Backdate` is 0) a payment is back-dated only by midnights between its read and its
transaction, and in `application` every schedule derives terms; payments dated back on purpose, and
the refusal of an approval for want of a derived term, are left to the theorems. `MaxDay`,
`Backdate`, `MaxReceipts`, `MaxOffers`, `Amounts` are the bounds; all are constants and appear in
guards.

Deadlock checking says nothing of `application` and `disbursement`, where some request can always
come. The other runs say `CHECK_DEADLOCK FALSE`: a finite set of requests is eventually all
answered, the calendar ends, receipts run out, loops end, and all loans may be cancelled. Waiting
in a circle is the subject of `locks`.

**Fairness.** `PaymentIdempotency!FairSpec`: weak fairness of a handler's steps, that is, an `await`
of a live server returns; a death (`Drop`) may always pre-empt it and counts as an end.
`LoanServicing!FairSpec`: weak fairness of the processor's selection and steps only, since
`lib/cronJobs.ts` starts it every night and it runs to the end; nothing is assumed of payers, admins
or the calendar. The run has no dying processor: one that dies every night notices nothing.

## 4 Where code and docs disagree

Three of these are runs that TLC ends with a counterexample, against a sentence quoted in
`PROJECT.json`.

* `locks_deadlock`: a settlement draws its receipt number, holding the day's advisory lock, before
  it locks the loan; the loan-level payment goes the other way. Both of one loan on one payment
  date deadlock; PostgreSQL kills one, and `withReceiptNumberRetry` retries only unique violations.
  `CirclesNeedASettlement` shows the settlement is the only culprit.
* `schedule_not_signed`: the disbursement generates the schedule from `loan.agreementDate`, which,
  says the comment there, "ensures the schedule matches what's in the signed agreement". But every
  preview and download of the agreement writes that column, also after the borrower has signed.
* `payment_after_completion`: "Once a loan is completed via early settlement, no further payments
  can be recorded", says the user guide (`docs/user-guide-pro/loans/early-settlement.md:252`).
  `POST /api/schedules/payments` (`modules/schedules/routes.ts:298`) refuses only PAID installments
  and never looks at the loan: a cancelled installment of a settled loan takes money and is then
  PARTIAL or PAID. `OnlyCancelledTakeMore` and `CompletedIsSettled` say that nothing else takes
  money or is left open.

The others are behaviours of the models that no run is spent on; the properties of section 3 say
what is left.

* A late-fee run that selected an installment before a settlement charges it afterwards, although
  the user guide (`docs/user-guide-pro/loans/early-settlement.md:240`) says no more late fees
  accrue. `mark-default`, `update-status`, the arrears update and the clearing of a default write a
  status decided earlier over COMPLETED, which "cannot be undone" (`:129`). `CompletedForGood` says
  that handlers which read the loan later do neither.
* A payment that read the loan before it was marked defaulted never clears the default. An
  installment paid in full after its selection by the processor is charged, stays PAID and owes a
  fee no endpoint accepts.
* A rejection that read PENDING is written over an approval that has booked the payment: the
  request is rejected and the money posted, which the dialog of the admin denies ("No amount will
  be posted to the loan"). Two settlement requests of a loan can be pending at once.
* A server that dies inside a payment leaves its key PROCESSING, and every retry is refused for
  ever. After a lost acknowledgement a retry books a payment twice.
* Two approvals, or an approval and a rejection, of one application cross: the loan exists and the
  application says REJECTED (CLOSED in the model). Two counter-offers can both be pending. A
  document replaced by an upload that died stays in the L2 queue unseen by L1.
* Two bookings that both look at the calendar before either writes get overlapping slots, in spite
  of the "firm DB hold"; an expiry or attestation decided before a cancellation brings the loan
  back.
* Two internal signers at once each sign the file they read: the later write drops the earlier
  signature, both rows are there, and the agreement is auto-approved with the note "both internal
  signatures applied". The same follows without a race when the borrower signs again after the
  first of them: the file is a new one and the row stays.
* A risk-adjusted term is stored when the application is made or submitted and used at approval
  (`modules/loans/routes.ts:1179`), so a term negotiated in between does not reach the loan. No doc
  says that it should; `LoanFollowsL2Row` and `OnlyDisturbedGoWrong` say what the loan is on then.
* The guard in the settlement that is there "so allocations match transaction total"
  (`earlySettlementConfirmService.ts:639`) acts only on more than a cent: of five installments of
  RM 100 settled for RM 499.97, four are booked RM 99.99 and the last RM 100.00, a cent short of
  the transaction. Where it acts, it adds the difference to the last allocation whatever that
  installment owes. When only a few cents are settled, shares that round up can book more than
  there is (5 cents over nine equal installments as 7); `SettlementIsSpread` says in which case.
* A declining balance may repay a few cents more than its principal, and than the loan's
  `totalPayable`: RM 200 over three months without interest is three installments of RM 66.67. A
  payment skips parts that owe a cent, and is recorded in full although up to three cents an
  installment are not booked.

## 5 What is proved

TLAPS checks these for every value of the constants: any number of requests, keys, installments,
days, connections, loans. Assumptions are the `ASSUME`s of the modules, and what is said in the
table.

| theorem | module | says | assuming |
| --- | --- | --- | --- |
| `Safety` | `PaymentIdempotencyProofs` | `TypeOK`, `AnswersTheBookedPayment` | |
| `OnePaymentPerKey` | | `AtMostOnePayment`, `BookedIsNeverRetried`, of the keys not in `AckLoss` | |
| `StoredResponseFinal` | | `ResponseIsFinal` | |
| `KeepsContract` | | `Spec => ImplementsOnce` (refinement of `PaymentOnce`), of the same keys | |
| `LedgerSafe` | `LoanServicingProofs` | `TypeOK`, `FeeLedgerAgrees`; also `NeverOverpaid`, `PaidIsPaid`, `FeesAreConsecutive`, which the account below needs | |
| `PaidIsFinal` | | `PaidStaysPaid` | |
| `KeepsAccount` | | `Spec => ImplementsAccount` (refinement of `LoanAccount`) | |
| `CompletionSafe` | | `CompletedIsSettled`, `OnlyCancelledTakeMore` | |
| `CompletionHolds` | | `CompletedForGood` | |
| `ReceiptsSafe` | `PaymentLocksProofs` | `TypeOK`, `NumbersAreFresh`, `ReceiptsAreSerial` | |
| `DeadlocksNeedASettlement` | | `CirclesNeedASettlement` | |
| `ApprovalTyped`, `ApprovalSafe` | `PaymentApprovalProofs` | `TypeOK`, `ApprovedNamesItsPayment` | |
| `DecisionsAreFinal` | | `DecisionsStand` | |
| `ApplicationSafe` | `LoanApplicationProofs` | `TypeOK`, `StatusIsBacked`, `LoanFollowsL2Row` | |
| `ReviewHolds`, `OneLoan` | | `OnlyDisturbedGoWrong`, `LoanIsFinal` | |
| `DisbursementSafe` | `DisbursementProofs` | `TypeOK`, `DisbursedWasReady` | |
| `RecordHolds`, `SecondSignatureApproves` | | `OnlyDisturbedGoWrong`, `LastSignatureApproves` | |
| `BookingTyped`, `BookingsHaveTimes`, `NoSigningUnattested` | `AttestationBookingProofs` | `TypeOK`, `BookedHasItsTime`, `SigningNeedsAttestation` | |
| `BookingsApart`, `AttestationHolds`, `CancelledForGood` | | `NoDoubleBooking`, `OnlyDisturbedGoWrong`, `CancellationIsFinal` | |
| `MathTyped` | `InstallmentMathProofs` | `TypeOK` | |
| `SchedulesAddUpAlways`, `PaymentIsSpreadAlways`, `SettlementIsSpreadAlways` | | `SchedulesAddUp`, `PaymentIsSpread`, `SettlementIsSpread` | |
| `ShareBound` | | a rounded share is within `2 + amount / Precision` cents of the exact one | |

The theorems about several properties are followed by a corollary for each of them. So every
safety property of a passing run is proved.

The restriction to keys not in `AckLoss` is sharp: without it TLC refutes the statements.

**The arguments.**

* *Idempotency.* None of the promises is inductive. The invariant ties the program counter of a
  request to its row: a request in `business`, `finish` or `fail` *owns* its key, whose row is then
  PROCESSING, and no two requests own one key. Booking needs ownership and an unbooked key;
  completion stores the owner's payment; so a completed row names a booked payment, of the row's
  payload. For the refinement, each step books, tells, or leaves `booked` and `told` alone.
* *Ledger.* The proof goes by what a step may do to the ledger and not by handler: it either leaves
  the fees alone or adds a set of missing days (`Fees`), and either leaves the payments alone or
  adds to them within what is due (`Money`). Every action is shown to be one of these, and the
  invariants follow from the two. The strengthening over the checked invariants says that the date
  a fee run remembers is not in the future and that of a payment at most tomorrow, so that no run
  charges today and no payment a later day, and that histories `paidBy[i]` grow with the day.
* *Account.* The refinement is proved from the ledger's invariant: what a step does to the entries
  (nothing, or missing days), to the allocations and to the states are the three conjuncts of
  `Transaction`, the day turns alone, and everything else is a stutter.
* *Arithmetic.* `Total` is a recursive function. That it is one, and its step, is proved once by
  `SetInduction`, an induction for sets of numbers instead of predicates (from the well-foundedness
  of finite sets of numbers), and the lemmas on sums rest on that (`TotalExtend`, `TotalCompare`,
  `TotalGrows`, `TotalPlus`, ...). `MathInv` has a part for each kind of task. Flat and Rule 78:
  what has been given out and what is left are the whole, and the caps keep what is left from going
  negative. Declining: the rounding is monotone, so the interest of a falling balance falls, stays
  below the emi and no row is negative. Payments: rows before the current one owe at most a cent a
  part. Settlements: `ShareBound` for each row, summed up: the rows so far are off their proportion
  by at most `Drift` cents each, which bounds what the last row and the guard have to take up.
* *Completion.* A handler that has decided to write COMPLETED found nothing open. Nothing opens
  again but a cancelled installment that takes money, which is then in `reopened`, and only
  `SingleTx` gives it any, since a loan-level payment looks at the locked loan and a settlement at
  both. With nothing open and no handler between its read and its write, no handler can
  come to write a status or a fee.
* *Locks.* A lock has one holder; a number that is drawn continues the committed and own numbers of
  its day, and its drawer holds that day's lock. For the circle: a transaction that is no
  settlement holds only locks that come before the one it waits for, in the order loan,
  installments, receipts, unless it already holds the one it asks for. In a circle without a
  settlement no one can then wait for receipts, hence for installments, hence for a loan.
* *Approval.* Uses `PaymentIdempotencyProofs` through `INSTANCE`: a step of the composition is a
  step, or a stutter, of the idempotency protocol, so its invariants carry over. A request is linked
  to what the handler answered, and an answer to a key that was completed is what its row stores.
  Rows never change once completed, so a link written again is the same link, also where a lost
  acknowledgement has had the payment booked twice.
* *Applications, attestation, disbursement.* The three proofs have one shape. What holds in any
  interleaving needs an invariant on what a request will write (the approval's terms were in the L2
  queue; the disbursement's date was one while the agreement was approved; no stale write of
  `complete-meeting` carries PENDING_DISBURSEMENT for a loan unattested). What holds "unless
  disturbed" needs one on *fresh* requests: as long as a request is fresh, the row still passes the
  checks it passed when it was read, so its write keeps the record coherent. For the bookings, a
  fresh request that has looked at the calendar still finds its slot free. For
  `SecondSignatureApproves`, `Serial` says that at most one signer is in his transaction, so the
  rows he counted are still those that are committed when he commits.

**Only model-checked**: `EveryRequestAnswered` and `LateIsNoticed` (liveness under fairness is out
of the prover's reach), and the three counterexample runs of section 4. No module needs `RECURSIVE`.
Sums over installments in `LoanServicing` use `SumFunction` of the community modules, whose values
the proofs never need (only that a step's parts are within bounds); `InstallmentMath` has its own
recursive function, whose values its proofs do need.

## 6 Limits

* *Money* in `LoanServicing` and `LoanAccount` is in units of a day's fee, without cents or the
  0.01 tolerance of the comparisons: an installment that they call PAID may owe a cent, and a
  settlement may put a few cents on the last allocation that `NeverOverpaid` does not see. These
  cents are the subject of `InstallmentMath` (`PaymentIsSpread` and `SettlementIsSpread` bound
  them); the two are not composed. The fee per day is constant, although the code charges on the
  outstanding balance; no property depends on the size of a day's fee.
* *InstallmentMath* takes the emi as an input, since `calculateEMI` takes a power of the rate in
  floating point; only that it covers the first month's interest is assumed. Every other rounding
  is exact decimal arithmetic; the code multiplies doubles, so a tie may fall the other way and the
  number be a cent off. The discount of a settlement is part of what its rows owe, and how the
  quote arrives at it is left out, as are due dates.
* `latePaymentRate` is taken to be positive (at zero no fee is ever charged).
* A transaction of one loan is atomic in `LoanServicing`; what justifies it is the row lock, opened
  up in `PaymentLocks`. Isolation is PostgreSQL's READ COMMITTED, with each re-read after the lock.
* `PaymentLocks` retries a unique violation without bound (the code: 10 times), which
  `NumbersAreFresh` shows never happens. It leaves out locks on rows other than loans and
  installments, and hash collisions of advisory locks (two dates sharing one lock), which only
  serialise more. That every transaction ends rests on PostgreSQL's deadlock detector and
  queues, which are external.
* The processor's advisory lock is taken as not excluding anything. It is a session lock on a pooled
  connection, so a second run may be let in; assuming the worst, the ledger still holds. That the
  lock may also be left behind on another connection, and runs skipped, is not modelled.
* Letters, receipts (PDF), e-mail, notifications, audit rows, borrower performance: written after
  the fact, read by nothing modelled here.
* `WRITTEN_OFF`, and `OVERDUE` as an installment's status, are in the schema and assigned nowhere;
  `TypeOK` says so.
* `LoanApplication` leaves out who may do what, audit rows, guarantors and collateral, product rules
  and the documents an admin handles (`modules/loans/routes.ts:1858` to `2010`). How terms are
  derived from a risk-adjusted schedule is a constant. Endpoints that only set a status are one
  action with a table of outcomes.
* `AttestationBooking` leaves out the Google calendar, which can only make more slots busy or make
  an endpoint fail, office hours, e-mails and reminders. `COUNTER_PROPOSED` is set nowhere, so the
  endpoints that accept or decline a counter-proposal always refuse and are not actions.
* `Disbursement` leaves out guarantors' agreements (one more condition of the disbursement), PINs,
  certificates and the proof of disbursement. Stored files are those of the loan's current path.
* The three modules hand over by their initial states and do not run together: an application's
  approval fixes the loan's channel, attestation appears in `Disbursement` as three writes of the
  status, and `LoanServicing` starts with a schedule.

**Not modelled.** The repository is some 290,000 lines, nearly all of it outside the reach of a
model that says something: the web and mobile front ends, which keep nothing the back end relies
on; the SaaS edition, whose loan modules repeat those followed here; reading, listing and reporting
endpoints; documents, e-mail and templates; configuration and deployment. The models stand for the
statements that change the state of an application or a loan, which are few, and the share of
the repository's lines they map is accordingly small.

## 7 Plan

Done: the life of a loan from application to repayment (sections 2 to 5). What would come next:

1. Contracts like `LoanAccount` for an application (a loan is made once, from terms that were
   reviewed) and for an attestation slot, with `LoanApplication` and `AttestationBooking` as their
   implementations.
2. The composition of `AttestationBooking` with `Disbursement` on one loan row.
3. `FeeRun`: connection pool, session advisory lock, skipped and doubled nightly runs; composed with
   `LoanServicing` through its `Ops`.
4. Webhook handlers of identity verification and billing: duplicates and reordering.
