------------------------ MODULE LoanServicingProofs ------------------------
(***************************************************************************)
(* The ledger of LoanServicing, for any number of installments, handlers   *)
(* and days: no step of any interleaving overpays an installment, loses a  *)
(* charged fee, leaves a hole in the charged days or reopens a PAID one.   *)
(*                                                                         *)
(* The argument goes by what a step may do to the ledger.  Every action    *)
(* either leaves the fees alone or charges a set of missing days (Fees),   *)
(* and either leaves the payments alone or adds to them within what is     *)
(* due (Money); the invariants follow from these two alone.                *)
(***************************************************************************)
EXTENDS LoanServicing, FiniteSetTheorems, FunctionTheorems, TLAPS

(* What is paid by a day is paid by every later day.                       *)
PaidByGrows == \A i \in Reps, d, e \in Days : d <= e => paidBy[i][d] <= paidBy[i][e]

(* No handler acts on a date later than tomorrow, and the nightly run on   *)
(* none later than today.                                                  *)
Timely(j) == j.date <= today + 1 /\ (j.at \in {"feeRead", "feeTx"} => j.date <= today)

DatesOK == \A p \in Procs : Timely(job[p])

IInv == /\ TypeOK /\ PaidByGrows /\ DatesOK
        /\ NeverOverpaid /\ PaidIsPaid /\ FeesAreConsecutive /\ FeeLedgerAgrees

-----------------------------------------------------------------------------
(* Charging a set of new entries, and receiving x[i] for each installment. *)
Accrues(new) ==
    /\ entries' = entries \cup new
    /\ totalLateFees' = totalLateFees + Cardinality(new)
    /\ accrued' = [i \in Reps |-> accrued[i] + FeesOf(i, new)]

Receives(x, date) ==
    /\ paidBy' = [i \in Reps |-> Allocate(paidBy[i], x[i], date)]
    /\ \A i \in Reps : Paid(i) + x[i] <= Due[i]
    /\ \A i \in Reps : status[i] = "PAID" => x[i] = 0

(* Some installment takes money.                                           *)
Grows == \E i \in Reps : Paid(i)' > Paid(i) \/ feesPaid'[i] > feesPaid[i]

(* Only a step that takes money charges fees as of tomorrow.               *)
Fees ==
    \/ UNCHANGED <<entries, totalLateFees, accrued>>
    \/ \E S \in SUBSET Reps, date \in Days, applyFee \in BOOLEAN :
          /\ date <= today + 1 /\ Accrues(Charges(S, date, applyFee))
          /\ date <= today \/ Grows

Money ==
    \/ paidBy' = paidBy
    \/ \E x \in [Reps -> Nat], date \in Days : Receives(x, date)

(* The other columns: fees paid grow within the fees charged, and the      *)
(* status becomes PAID only with all of both in.                           *)
Columns ==
    /\ feesPaid' \in [Reps -> Nat]
    /\ \A i \in Reps : feesPaid[i] <= feesPaid'[i] /\ feesPaid'[i] <= accrued'[i]
    /\ status' \in [Reps -> RepStatuses] /\ reopened' \in SUBSET Reps
    /\ \A i \in Reps :
          status'[i] = "PAID" => status[i] = "PAID" \/ (Paid(i)' >= Due[i] /\ feesPaid'[i] >= accrued'[i])
    /\ \A i \in Reps : status[i] = "PAID" => status'[i] = "PAID" /\ feesPaid'[i] = feesPaid[i]

-----------------------------------------------------------------------------
LEMMA DaysInInt == Days \subseteq Nat /\ 0 \in Days /\ MaxDay \in Days /\ IsFiniteSet(Reps \X Days)
  <1>1. IsFiniteSet(Reps) /\ IsFiniteSet(Days)
    BY FS_Interval, LoanAssumption DEF Reps, Days
  <1>2. IsFiniteSet(Reps \X Days)
    BY <1>1, FS_Product
  <1> QED
    BY <1>2, LoanAssumption DEF Days

(* A set of entries is counted installment by installment.                 *)
LEMMA FeesOfType ==
  ASSUME NEW E \in SUBSET (Reps \X Days), NEW i \in Reps
  PROVE  IsFiniteSet(E) /\ Cardinality(E) \in Nat /\ FeesOf(i, E) \in Nat
  <1>1. IsFiniteSet(E) /\ IsFiniteSet({e \in E : e[1] = i})
    BY DaysInInt, FS_Subset
  <1> QED
    BY <1>1, FS_CardinalityType DEF FeesOf

LEMMA FeesOfUnion ==
  ASSUME NEW E \in SUBSET (Reps \X Days), NEW F \in SUBSET (Reps \X Days), E \cap F = {},
         NEW i \in Reps
  PROVE  /\ FeesOf(i, E \cup F) = FeesOf(i, E) + FeesOf(i, F)
         /\ Cardinality(E \cup F) = Cardinality(E) + Cardinality(F)
  <1> DEFINE G(H) == {e \in H : e[1] = i}
  <1>1. G(E \cup F) = G(E) \cup G(F) /\ G(E) \cap G(F) = {}
    OBVIOUS
  <1>2. IsFiniteSet(E) /\ IsFiniteSet(F) /\ IsFiniteSet(G(E)) /\ IsFiniteSet(G(F))
    BY DaysInInt, FS_Subset
  <1>3. Cardinality({}) = 0
    BY FS_EmptySet
  <1>6. /\ Cardinality(E) \in Nat /\ Cardinality(F) \in Nat
        /\ Cardinality(G(E)) \in Nat /\ Cardinality(G(F)) \in Nat
    BY <1>2, FS_CardinalityType
  <1> HIDE DEF G
  <1>4. Cardinality(E \cup F) = Cardinality(E) + Cardinality(F)
    <2>1. Cardinality(E \cup F) = Cardinality(E) + Cardinality(F) - Cardinality(E \cap F)
      BY <1>2, FS_Union
    <2>2. Cardinality(E \cap F) = 0
      BY <1>3, Zenon
    <2> QED
      BY <2>1, <2>2, <1>6
  <1>5. Cardinality(G(E) \cup G(F)) = Cardinality(G(E)) + Cardinality(G(F))
    <2>1. Cardinality(G(E) \cup G(F)) = Cardinality(G(E)) + Cardinality(G(F)) - Cardinality(G(E) \cap G(F))
      BY <1>2, FS_Union
    <2>2. Cardinality(G(E) \cap G(F)) = 0
      BY <1>1, <1>3, Zenon
    <2> QED
      BY <2>1, <2>2, <1>6
  <1> QED
    BY <1>1, <1>4, <1>5 DEF FeesOf, G

(* New charges are for the installments asked for, and for days not        *)
(* charged before.                                                         *)
LEMMA ChargesAreNew ==
  ASSUME TypeOK, NEW S \in SUBSET Reps, NEW date \in Days, NEW applyFee \in BOOLEAN
  PROVE  /\ Charges(S, date, applyFee) \in SUBSET (Reps \X Days)
         /\ entries \cap Charges(S, date, applyFee) = {}
         /\ \A i \in Reps : i \notin S => FeesOf(i, Charges(S, date, applyFee)) = 0
  <1> DEFINE new == Charges(S, date, applyFee)
  <1>1. new \in SUBSET (Reps \X Days)
    BY DEF Charges
  <1>2. ASSUME NEW e \in new, e \in entries PROVE FALSE
    <2>1. e[2] \in Days /\ e[2] \in MissingDays(e[1], date) /\ e = <<e[1], e[2]>>
      BY <1>2 DEF Charges
    <2>2. e[2] < e[2]
      BY <2>1, <1>2 DEF MissingDays
    <2> QED
      BY <2>1, <2>2, DaysInInt
  <1>3. ASSUME NEW i \in Reps, i \notin S PROVE FeesOf(i, new) = 0
    <2>1. {e \in new : e[1] = i} = {}
      BY <1>3 DEF Charges
    <2> QED
      BY <2>1, FS_EmptySet DEF FeesOf
  <1> QED
    BY <1>1, <1>2, <1>3

-----------------------------------------------------------------------------
(* No charged day comes to be after today.                                 *)
LEMMA EntriesPast ==
  ASSUME TypeOK, FeesAreConsecutive, today' \in Days, today <= today', NEW e \in entries
  PROVE  e[2] <= today'
  <1>1. e[2] \in Nat /\ today \in Nat /\ today' \in Nat /\ e[2] <= today
    BY DaysInInt DEF TypeOK, FeesAreConsecutive
  <1> QED
    BY <1>1

(* What Fees preserves.                                                    *)
LEMMA FeesPreserve ==
  ASSUME IInv, Fees, today' \in Days, today <= today'
  PROVE  /\ entries' \in SUBSET (Reps \X Days) /\ totalLateFees' \in Nat
         /\ accrued' \in [Reps -> Nat]
         /\ \A i \in Reps : accrued[i] <= accrued'[i]
         /\ FeeLedgerAgrees' /\ FeesAreConsecutive'
  <1> USE DEF IInv, TypeOK
  <1>1. CASE UNCHANGED <<entries, totalLateFees, accrued>>
    <2>1. FeeLedgerAgrees'
      BY <1>1 DEF FeeLedgerAgrees, FeesOf
    <2>2. FeesAreConsecutive'
      <3>1. ASSUME NEW e \in entries PROVE e[2] <= today'
        BY EntriesPast
      <3> QED
        BY <1>1, <3>1 DEF FeesAreConsecutive
    <2> QED
      BY <1>1, <2>1, <2>2
  <1>2. ASSUME NEW S \in SUBSET Reps, NEW date \in Days, NEW applyFee \in BOOLEAN,
               date <= today + 1, Accrues(Charges(S, date, applyFee))
        PROVE  /\ entries' \in SUBSET (Reps \X Days) /\ totalLateFees' \in Nat
               /\ accrued' \in [Reps -> Nat]
               /\ \A i \in Reps : accrued[i] <= accrued'[i]
               /\ FeeLedgerAgrees' /\ FeesAreConsecutive'
    <2> DEFINE new == Charges(S, date, applyFee)
    <2>1. new \in SUBSET (Reps \X Days) /\ entries \cap new = {}
      BY ChargesAreNew
    <2>2. \A i \in Reps : FeesOf(i, new) \in Nat
      BY <2>1, FeesOfType
    <2>3. Cardinality(new) \in Nat
      BY <2>1, FeesOfType, LoanAssumption DEF Reps
    <2> HIDE DEF new
    <2>4. /\ entries' = entries \cup new
          /\ totalLateFees' = totalLateFees + Cardinality(new)
          /\ accrued' = [i \in Reps |-> accrued[i] + FeesOf(i, new)]
      BY <1>2 DEF Accrues, new
    <2>5. /\ entries' \in SUBSET (Reps \X Days) /\ totalLateFees' \in Nat
          /\ accrued' \in [Reps -> Nat]
          /\ \A i \in Reps : accrued[i] <= accrued'[i]
      BY <2>1, <2>2, <2>3, <2>4
    <2>6. FeeLedgerAgrees'
      <3>1. ASSUME NEW i \in Reps PROVE accrued'[i] = FeesOf(i, entries')
        <4>1. accrued'[i] = FeesOf(i, entries) + FeesOf(i, new)
          BY <2>4 DEF FeeLedgerAgrees
        <4> QED
          BY <4>1, <2>1, <2>4, FeesOfUnion
      <3>2. totalLateFees' = Cardinality(entries')
        <4>1. 1 \in Reps
          BY LoanAssumption DEF Reps
        <4>2. Cardinality(entries \cup new) = Cardinality(entries) + Cardinality(new)
          BY <4>1, <2>1, FeesOfUnion
        <4> QED
          BY <4>2, <2>4 DEF FeeLedgerAgrees
      <3>3. \A i \in Reps : FeesOf(i, entries)' = FeesOf(i, entries')
        BY DEF FeesOf
      <3> QED
        BY <3>1, <3>2, <3>3 DEF FeeLedgerAgrees
    <2>7. FeesAreConsecutive'
      <3>1. ASSUME NEW e \in entries
            PROVE  /\ DueDay[e[1]] < e[2] /\ e[2] <= today'
                   /\ \A d \in (DueDay[e[1]] + 1)..e[2] : <<e[1], d>> \in entries'
        BY <2>4, EntriesPast DEF FeesAreConsecutive
      <3>2. ASSUME NEW e \in new
            PROVE  /\ DueDay[e[1]] < e[2] /\ e[2] <= today'
                   /\ \A d \in (DueDay[e[1]] + 1)..e[2] : <<e[1], d>> \in entries'
        <4>1. /\ e[1] \in S /\ e[1] \in Reps /\ e[2] \in Days /\ applyFee
              /\ e[2] \in MissingDays(e[1], date)
          BY DEF new, Charges
        <4>2. DueDay[e[1]] < e[2] /\ e[2] < date /\ paidBy[e[1]][e[2] - 1] < Due[e[1]]
          BY <4>1 DEF MissingDays
        <4>3. e[2] <= today'
          <5>1. e[2] \in Nat /\ date \in Nat /\ today \in Nat /\ today' \in Nat
            BY <4>1, DaysInInt
          <5> QED
            BY <5>1, <4>2, <1>2
        <4>4. ASSUME NEW d \in (DueDay[e[1]] + 1)..e[2] PROVE <<e[1], d>> \in entries \cup new
          <5>0. DueDay[e[1]] \in Nat /\ Due[e[1]] \in Nat
            BY <4>1, LoanAssumption
          <5>1. /\ DueDay[e[1]] \in Nat /\ d \in Nat /\ DueDay[e[1]] < d /\ d <= e[2]
                /\ e[2] \in Nat /\ date \in Nat
            <6>1. e[2] \in Nat /\ date \in Nat
              BY <4>1, DaysInInt
            <6>2. d \in (DueDay[e[1]] + 1)..e[2]
              OBVIOUS
            <6> HIDE DEF IInv, TypeOK
            <6>3. ASSUME NEW a \in Nat, NEW b \in Nat, NEW k \in (a + 1)..b PROVE k \in Nat /\ a < k /\ k <= b
              OBVIOUS
            <6> QED
              BY <5>0, <6>1, <6>2, <6>3
          <5>4. d \in Days /\ d - 1 \in Days /\ e[2] - 1 \in Days /\ d < date /\ d - 1 <= e[2] - 1
            <6>1. MaxDay \in Nat /\ e[2] <= MaxDay /\ d <= MaxDay /\ e[2] < date
              BY <5>1, <4>1, <4>2, LoanAssumption DEF Days
            <6>2. d \in 0..MaxDay /\ d - 1 \in 0..MaxDay /\ e[2] - 1 \in 0..MaxDay
              BY <5>1, <6>1
            <6> QED
              BY <5>1, <6>1, <6>2 DEF Days
          <5>2. CASE \E c \in Days : <<e[1], c>> \in entries /\ ~(c < d)
            <6>1. PICK c \in Days : <<e[1], c>> \in entries /\ ~(c < d)
              BY <5>2
            <6>2. \A k \in (DueDay[e[1]] + 1)..c : <<e[1], k>> \in entries
              BY <6>1 DEF FeesAreConsecutive
            <6>3. d \in (DueDay[e[1]] + 1)..c
              BY <5>1, <6>1, DaysInInt
            <6> QED
              BY <6>2, <6>3
          <5>3. CASE \A c \in Days : <<e[1], c>> \in entries => c < d
            <6>2. paidBy[e[1]][d - 1] <= paidBy[e[1]][e[2] - 1]
              BY <5>4, <4>1 DEF PaidByGrows
            <6>3. paidBy[e[1]][d - 1] < Due[e[1]]
              <7>1. paidBy[e[1]][d - 1] \in Nat /\ paidBy[e[1]][e[2] - 1] \in Nat /\ Due[e[1]] \in Nat
                BY <5>4, <5>0, <4>1
              <7> QED
                BY <7>1, <6>2, <4>2
            <6>4. d \in MissingDays(e[1], date)
              BY <5>1, <5>3, <5>4, <6>3 DEF MissingDays
            <6> QED
              BY <6>4, <4>1, <5>4 DEF new, Charges
          <5> QED
            BY <5>2, <5>3
        <4> QED
          BY <4>2, <4>3, <4>4, <2>4
      <3> QED
        BY <3>1, <3>2, <2>4 DEF FeesAreConsecutive
    <2> QED
      BY <2>5, <2>6, <2>7
  <1> QED
    BY <1>1, <1>2 DEF Fees


-----------------------------------------------------------------------------
LEMMA AllocateType ==
  ASSUME NEW h \in [Days -> Nat], NEW amount \in Nat, NEW date \in Days
  PROVE  /\ Allocate(h, amount, date) \in [Days -> Nat]
         /\ Allocate(h, amount, date)[MaxDay] = h[MaxDay] + amount
         /\ amount = 0 => Allocate(h, amount, date) = h
         /\ (\A d, e \in Days : d <= e => h[d] <= h[e])
              => \A d, e \in Days : d <= e => Allocate(h, amount, date)[d] <= Allocate(h, amount, date)[e]
  <1>1. Days \subseteq Nat /\ MaxDay \in Days /\ date <= MaxDay
    BY LoanAssumption DEF Days
  <1>2. Allocate(h, amount, date) \in [Days -> Nat]
    BY <1>1 DEF Allocate
  <1>3. Allocate(h, amount, date)[MaxDay] = h[MaxDay] + amount
    BY <1>1 DEF Allocate
  <1>4. ASSUME amount = 0 PROVE Allocate(h, amount, date) = h
    <2>1. \A d \in Days : Allocate(h, amount, date)[d] = h[d]
      BY <1>4, <1>1 DEF Allocate
    <2> QED
      BY <2>1, <1>2
  <1>5. ASSUME \A d, e \in Days : d <= e => h[d] <= h[e], NEW d \in Days, NEW e \in Days, d <= e
        PROVE  Allocate(h, amount, date)[d] <= Allocate(h, amount, date)[e]
    <2>1. h[d] <= h[e] /\ h[d] \in Nat /\ h[e] \in Nat /\ d \in Nat /\ e \in Nat /\ date \in Nat
      BY <1>5, <1>1
    <2> QED
      BY <2>1, <1>5 DEF Allocate
  <1> QED
    BY <1>2, <1>3, <1>4, <1>5

(* What Money preserves.                                                   *)
LEMMA MoneyPreserve ==
  ASSUME IInv, Money
  PROVE  /\ paidBy' \in [Reps -> [Days -> Nat]] /\ PaidByGrows'
         /\ \A i \in Reps : Paid(i)' \in Nat /\ Paid(i) <= Paid(i)' /\ Paid(i)' <= Due[i]
         /\ \A i \in Reps : status[i] = "PAID" => paidBy'[i] = paidBy[i]
  <1> USE DEF IInv, TypeOK
  <1>0. MaxDay \in Days
    BY DaysInInt
  <1>1. CASE paidBy' = paidBy
    BY <1>0, <1>1 DEF PaidByGrows, NeverOverpaid, Paid
  <1>2. ASSUME NEW x \in [Reps -> Nat], NEW date \in Days, Receives(x, date)
        PROVE  /\ paidBy' \in [Reps -> [Days -> Nat]] /\ PaidByGrows'
               /\ \A i \in Reps : Paid(i)' \in Nat /\ Paid(i) <= Paid(i)' /\ Paid(i)' <= Due[i]
               /\ \A i \in Reps : status[i] = "PAID" => paidBy'[i] = paidBy[i]
    <2>1. \A i \in Reps : paidBy'[i] = Allocate(paidBy[i], x[i], date)
      BY <1>2 DEF Receives
    <2>2. \A i \in Reps : paidBy[i] \in [Days -> Nat] /\ x[i] \in Nat
      OBVIOUS
    <2>3. paidBy' \in [Reps -> [Days -> Nat]]
      <3>1. \A i \in Reps : Allocate(paidBy[i], x[i], date) \in [Days -> Nat]
        BY <2>2, AllocateType
      <3> QED
        BY <3>1, <1>2 DEF Receives
    <2>4. PaidByGrows'
      <3>1. ASSUME NEW i \in Reps, NEW d \in Days, NEW e \in Days, d <= e
            PROVE  Allocate(paidBy[i], x[i], date)[d] <= Allocate(paidBy[i], x[i], date)[e]
        <4>1. \A a, b \in Days : a <= b => paidBy[i][a] <= paidBy[i][b]
          BY DEF PaidByGrows
        <4> QED
          BY <4>1, <2>2, <3>1, AllocateType
      <3> QED
        BY <3>1, <2>1 DEF PaidByGrows
    <2>5. ASSUME NEW i \in Reps
          PROVE  Paid(i)' \in Nat /\ Paid(i) <= Paid(i)' /\ Paid(i)' <= Due[i]
      <3>1. Paid(i)' = Paid(i) + x[i] /\ Paid(i) \in Nat
        BY <2>1, <2>2, <1>0, AllocateType DEF Paid
      <3> QED
        BY <3>1, <1>2, <2>2 DEF Receives
    <2>6. ASSUME NEW i \in Reps, status[i] = "PAID" PROVE paidBy'[i] = paidBy[i]
      <3>1. x[i] = 0
        BY <2>6, <1>2 DEF Receives
      <3> QED
        BY <3>1, <2>1, <2>2, AllocateType
    <2> QED
      BY <2>3, <2>4, <2>5, <2>6
  <1> QED
    BY <1>1, <1>2 DEF Money

(* What the three together do to the invariant and to PAID installments.   *)
LedgerInv ==
    /\ status \in [Reps -> RepStatuses] /\ reopened \in SUBSET Reps
    /\ accrued \in [Reps -> Nat] /\ feesPaid \in [Reps -> Nat]
    /\ paidBy \in [Reps -> [Days -> Nat]]
    /\ entries \in SUBSET (Reps \X Days) /\ totalLateFees \in Nat
    /\ PaidByGrows /\ NeverOverpaid /\ PaidIsPaid /\ FeesAreConsecutive /\ FeeLedgerAgrees

PaidKept == \A i \in Reps : status[i] = "PAID" => status'[i] = "PAID" /\ paidBy'[i] = paidBy[i]

LEMMA LedgerStep ==
  ASSUME IInv, Fees, Money, Columns, today' \in Days, today <= today'
  PROVE  LedgerInv' /\ PaidKept
  <1>1. /\ entries' \in SUBSET (Reps \X Days) /\ totalLateFees' \in Nat
        /\ accrued' \in [Reps -> Nat] /\ FeeLedgerAgrees' /\ FeesAreConsecutive'
    BY FeesPreserve
  <1>2. /\ paidBy' \in [Reps -> [Days -> Nat]] /\ PaidByGrows'
        /\ \A i \in Reps : Paid(i)' \in Nat /\ Paid(i) <= Paid(i)' /\ Paid(i)' <= Due[i]
        /\ \A i \in Reps : status[i] = "PAID" => paidBy'[i] = paidBy[i]
    BY MoneyPreserve
  <1>3. NeverOverpaid'
    BY <1>2 DEF NeverOverpaid, Columns
  <1>4. PaidIsPaid'
    <2>1. ASSUME NEW i \in Reps, status'[i] = "PAID" PROVE Paid(i)' = Due[i]
      <3>1. CASE status[i] = "PAID"
        BY <3>1, <1>2 DEF PaidIsPaid, IInv, Paid
      <3>2. CASE Paid(i)' >= Due[i]
        <4>1. Due[i] \in Nat
          BY LoanAssumption
        <4> QED
          BY <4>1, <3>2, <1>2
      <3> QED
        BY <3>1, <3>2, <2>1 DEF Columns
    <2> QED
      BY <2>1 DEF PaidIsPaid
  <1>5. PaidKept
    BY <1>2 DEF PaidKept, Columns
  <1> QED
    BY <1>1, <1>2, <1>3, <1>4, <1>5 DEF LedgerInv, Columns


-----------------------------------------------------------------------------
(* A step that leaves the ledger alone.                                    *)
LEMMA QuietStep ==
  ASSUME IInv, UNCHANGED <<totalLateFees, repVars>>
  PROVE  Fees /\ Money /\ Columns
  BY DEF IInv, TypeOK, repVars, Fees, Money, Columns, NeverOverpaid

LEMMA SurplusType ==
  ASSUME NEW a \in Nat, NEW b \in Nat
  PROVE  Surplus(a, b) \in Nat /\ (b <= a => b + Surplus(a, b) = a)
  BY DEF Surplus

LEMMA LesserOfNone ==
  ASSUME NEW b \in Nat
  PROVE  Lesser(0, b) = 0
  BY DEF Lesser

LEMMA PaidType ==
  ASSUME IInv, NEW i \in Reps
  PROVE  Paid(i) \in Nat /\ Due[i] \in Nat /\ Rest(i) \in Nat /\ Paid(i) + Rest(i) = Due[i]
  <1>1. Paid(i) \in Nat /\ Due[i] \in Nat /\ Paid(i) <= Due[i]
    BY DaysInInt, LoanAssumption DEF IInv, TypeOK, Paid, NeverOverpaid
  <1> QED
    BY <1>1, SurplusType DEF Rest

(* A payment transaction, whatever the amount and the split it finds.      *)
LEMMA PaymentStep ==
  ASSUME IInv, NEW p \in Procs, NEW S \in SUBSET Reps, \A i \in S : status[i] # "PAID",
         NEW feesCount \in BOOLEAN, NEW next, PayOrReject(p, S, feesCount, next)
  PROVE  /\ Fees /\ Money /\ Columns
         /\ UNCHANGED <<today, loanStatus, readyForDefault>>
         /\ Resume(p, next) \/ Stop(p)
  <1> DEFINE j    == job[p]
             new  == Charges(S, j.date, j.applyFee)
             owed == Owed(S, new)
  <1>0. /\ j.date \in Days /\ j.applyFee \in BOOLEAN /\ j.amount \in Nat
        /\ j.date <= today + 1
    BY DEF IInv, TypeOK, Jobs, DatesOK, Timely
  <1>1. CASE Stop(p) /\ UNCHANGED <<today, loanVars, repVars>>
    BY <1>1, QuietStep DEF loanVars
  <1>2. ASSUME NEW take \in [Reps -> 0..j.amount], Spills(take, owed, j.amount),
               Pay(new, take, j.date, feesCount), Resume(p, next)
        PROVE  Fees /\ Money /\ Columns /\ UNCHANGED <<today, loanStatus, readyForDefault>>
    <2>1. \A i \in Reps : FeesOf(i, new) \in Nat /\ (i \notin S => FeesOf(i, new) = 0)
      BY <1>0, ChargesAreNew, FeesOfType DEF IInv
    <2>2. Accrues(new)
      BY <1>2 DEF Pay, Accrues
    <2> HIDE DEF new
    <2> DEFINE newAccrued == [i \in Reps |-> accrued[i] + FeesOf(i, new)]
               feeRest    == [i \in Reps |-> Surplus(newAccrued[i], feesPaid[i])]
               fee        == [i \in Reps |-> Lesser(take[i], feeRest[i])]
               x          == [i \in Reps |-> take[i] - fee[i]]
    <2>3. ASSUME NEW i \in Reps
          PROVE  /\ newAccrued[i] \in Nat /\ feesPaid[i] \in Nat /\ feesPaid[i] <= newAccrued[i]
                 /\ feeRest[i] \in Nat /\ feesPaid[i] + feeRest[i] = newAccrued[i]
                 /\ take[i] \in Nat
                 /\ i \in S => take[i] <= Rest(i) + feeRest[i]
                 /\ i \notin S => take[i] = 0
      <3>1. newAccrued[i] \in Nat /\ feesPaid[i] \in Nat /\ feesPaid[i] <= newAccrued[i]
        BY <2>1 DEF IInv, TypeOK, NeverOverpaid
      <3>2. feeRest[i] \in Nat /\ feesPaid[i] + feeRest[i] = newAccrued[i]
        BY <3>1, SurplusType
      <3>3. take[i] \in Nat /\ take[i] <= owed[i]
        BY <1>0, <1>2 DEF Spills
      <3>4. owed[i] = IF i \in S THEN Rest(i) + feeRest[i] ELSE 0
        BY DEF Owed
      <3> QED
        BY <3>1, <3>2, <3>3, <3>4
    <2>4. ASSUME NEW i \in Reps
          PROVE  /\ fee[i] \in Nat /\ x[i] \in Nat
                 /\ feesPaid[i] + fee[i] <= newAccrued[i] /\ Paid(i) + x[i] <= Due[i]
                 /\ take[i] = 0 => x[i] = 0 /\ fee[i] = 0
                 /\ take[i] > 0 => x[i] > 0 \/ fee[i] > 0
      <3>1. fee[i] = Lesser(take[i], feeRest[i]) /\ x[i] = take[i] - fee[i]
        OBVIOUS
      <3> HIDE DEF newAccrued, feeRest, fee, x
      <3>2. Rest(i) \in Nat /\ Paid(i) \in Nat /\ Paid(i) + Rest(i) = Due[i]
        BY PaidType
      <3> QED
        BY <3>1, <3>2, <2>3 DEF Lesser
    <2>5. Pay(new, take, j.date, feesCount)
            => /\ accrued' = newAccrued
               /\ feesPaid' = [i \in Reps |-> feesPaid[i] + fee[i]]
               /\ paidBy' = [i \in Reps |-> Allocate(paidBy[i], x[i], j.date)]
               /\ status' = [i \in Reps |->
                    IF take[i] = 0 THEN status[i]
                    ELSE StatusAfter(i, Paid(i) + take[i] - fee[i], feesPaid[i] + fee[i], newAccrued[i], feesCount)]
               /\ reopened' = reopened \cup {i \in Reps : status[i] = "CANCELLED" /\ take[i] > 0}
               /\ UNCHANGED <<today, loanStatus, readyForDefault>>
      BY DEF Pay
    <2>6. \A i \in Reps : status[i] = "PAID" => take[i] = 0
      BY <2>3
    <2> HIDE DEF newAccrued, feeRest, fee, x, owed, j
    <2>7. Money
      <3>1. x \in [Reps -> Nat]
        BY <2>4 DEF x
      <3>2. Receives(x, j.date)
        BY <2>4, <2>5, <2>6, <1>2 DEF Receives
      <3> QED
        BY <3>1, <3>2, <1>0 DEF Money, j
    <2>9. ASSUME NEW i \in Reps PROVE Paid(i)' = Paid(i) + x[i] /\ Paid(i) \in Nat
      <3>1. paidBy[i] \in [Days -> Nat] /\ x[i] \in Nat
        BY <2>4 DEF IInv, TypeOK
      <3>2. Paid(i)' = Paid(i) + x[i]
        BY <3>1, <2>5, <1>2, <1>0, AllocateType DEF Paid, j
      <3> QED
        BY <3>2, PaidType
    <2>10. Grows
      <3>1. PICK i \in Reps : take[i] > 0
        BY <1>2 DEF Spills
      <3>2. feesPaid'[i] = feesPaid[i] + fee[i] /\ feesPaid[i] \in Nat
        BY <2>3, <2>5, <1>2
      <3>3. x[i] \in Nat /\ fee[i] \in Nat /\ (x[i] > 0 \/ fee[i] > 0)
        BY <2>4, <3>1
      <3> QED
        BY <2>9, <3>2, <3>3 DEF Grows
    <2>11. Fees
      BY <1>0, <2>2, <2>10 DEF Fees, new, j
    <2>8. Columns
      <3>1. /\ feesPaid' \in [Reps -> Nat]
            /\ \A i \in Reps : feesPaid[i] <= feesPaid'[i] /\ feesPaid'[i] <= accrued'[i]
        BY <2>3, <2>4, <2>5, <1>2
      <3>2. ASSUME NEW i \in Reps
            PROVE  /\ status'[i] \in RepStatuses
                   /\ status'[i] = "PAID" => status[i] = "PAID" \/ (Paid(i)' >= Due[i] /\ feesPaid'[i] >= accrued'[i])
                   /\ status[i] = "PAID" => status'[i] = "PAID" /\ feesPaid'[i] = feesPaid[i]
        <4>1. Paid(i) \in Nat /\ take[i] \in Nat /\ fee[i] \in Nat /\ x[i] = take[i] - fee[i] /\ Due[i] \in Nat
          BY <2>3, <2>4, PaidType DEF x
        <4>2. Paid(i)' = Paid(i) + take[i] - fee[i]
          BY <2>9, <4>1
        <4>3. status'[i] = IF take[i] = 0 THEN status[i]
                ELSE StatusAfter(i, Paid(i) + take[i] - fee[i], feesPaid[i] + fee[i], newAccrued[i], feesCount)
          BY <2>5, <1>2
        <4>4. status[i] \in RepStatuses
          BY DEF IInv, TypeOK
        <4>5. feesPaid'[i] = feesPaid[i] + fee[i] /\ accrued'[i] = newAccrued[i] /\ feesPaid[i] \in Nat
          BY <2>3, <2>5, <1>2
        <4>6. status[i] = "PAID" => take[i] = 0 /\ fee[i] = 0
          BY <2>4, <2>6
        <4> QED
          BY <4>1, <4>2, <4>3, <4>4, <4>5, <4>6 DEF StatusAfter, RepStatuses
      <3>3. status' \in [Reps -> RepStatuses]
        BY <3>2, <2>5, <1>2
      <3>4. reopened' \in SUBSET Reps
        BY <2>5, <1>2 DEF IInv, TypeOK
      <3> QED
        BY <3>1, <3>2, <3>3, <3>4 DEF Columns
    <2> QED
      BY <2>5, <2>7, <2>8, <2>11, <1>2
  <1> QED
    BY <1>1, <1>2 DEF PayOrReject

(* The settlement transaction.                                             *)
LEMMA SettlementStep ==
  ASSUME IInv, NEW p \in Procs, SettleTx(p)
  PROVE  Fees /\ Money /\ Columns
  <1> USE DEF SettleTx
  <1>1. CASE ~Settleable
    BY <1>1, QuietStep DEF loanVars
  <1>2. CASE Settleable
    <2>1. Fees
      BY <1>2 DEF Fees
    <2>2. PICK alloc \in [Reps -> UNION {0..Due[i] : i \in Reps}] :
             /\ SettlesAll(alloc, job[p].date)
             /\ paidBy' = [i \in Reps |-> Allocate(paidBy[i], alloc[i], today)]
      BY <1>2
    <2>3. alloc \in [Reps -> Nat]
      BY LoanAssumption
    <2>4. ASSUME NEW i \in Reps
          PROVE  /\ Paid(i) + alloc[i] <= Due[i]
                 /\ i \notin Open => alloc[i] = 0
      <3>1. alloc[i] <= IF i \in Open THEN Rest(i) ELSE 0
        BY <2>2 DEF SettlesAll
      <3> QED
        BY <3>1, <2>3, PaidType
    <2>5. Money
      <3>1. \A i \in Reps : status[i] = "PAID" => i \notin Open
        BY DEF Open
      <3> QED
        BY <2>2, <2>3, <2>4, <3>1 DEF Money, Receives, IInv, TypeOK
    <2>6. Columns
      <3>1. /\ status' = [i \in Reps |-> IF i \in Open THEN "CANCELLED" ELSE status[i]]
            /\ feesPaid' = [i \in Reps |-> IF i \in Open THEN accrued[i] ELSE feesPaid[i]]
            /\ accrued' = accrued
        BY <1>2
      <3>2. /\ feesPaid' \in [Reps -> Nat]
            /\ \A i \in Reps : feesPaid[i] <= feesPaid'[i] /\ feesPaid'[i] <= accrued'[i]
        BY <3>1 DEF IInv, TypeOK, NeverOverpaid
      <3>3. status' \in [Reps -> RepStatuses]
        BY <3>1 DEF IInv, TypeOK, RepStatuses
      <3>5. reopened' \in SUBSET Reps
        BY <1>2 DEF IInv, TypeOK
      <3>4. ASSUME NEW i \in Reps
            PROVE  /\ status'[i] = "PAID" <=> status[i] = "PAID"
                   /\ status[i] = "PAID" => feesPaid'[i] = feesPaid[i]
        BY <3>1 DEF Open
      <3> QED
        BY <3>2, <3>3, <3>4, <3>5 DEF Columns
    <2> QED
      BY <2>1, <2>5, <2>6
  <1> QED
    BY <1>1, <1>2

(* A fee transaction.                                                      *)
LEMMA FeeStepLedger ==
  ASSUME IInv, NEW p \in Procs, FeeTx(p)
  PROVE  Fees /\ Money /\ Columns
  <1>1. PICK i \in job[p].todo :
           LET new == Charges({i}, job[p].date, TRUE) IN
           /\ entries' = entries \cup new
           /\ accrued' = [accrued EXCEPT ![i] = @ + FeesOf(i, new)]
           /\ totalLateFees' = totalLateFees + Cardinality(new)
    BY DEF FeeTx
  <1> DEFINE new == Charges({i}, job[p].date, TRUE)
  <1>2. i \in Reps /\ {i} \in SUBSET Reps /\ job[p].date \in Days /\ job[p].date <= today /\ job[p].date <= today + 1
    <2>1. job[p].date \in Days /\ job[p].date <= today /\ job[p].todo \in SUBSET Reps
      BY DEF IInv, TypeOK, Jobs, DatesOK, Timely, FeeTx
    <2> QED
      BY <2>1, DaysInInt DEF IInv, TypeOK
  <1>3. \A k \in Reps : FeesOf(k, new) \in Nat /\ (k # i => FeesOf(k, new) = 0)
    BY <1>2, ChargesAreNew, FeesOfType DEF IInv
  <1>4. UNCHANGED <<status, feesPaid, paidBy, reopened>>
    BY DEF FeeTx
  <1> HIDE DEF new
  <1>5. accrued' = [k \in Reps |-> accrued[k] + FeesOf(k, new)]
    <2>1. accrued' = [accrued EXCEPT ![i] = @ + FeesOf(i, new)] /\ accrued \in [Reps -> Nat]
      BY <1>1 DEF new, IInv, TypeOK
    <2>2. ASSUME NEW k \in Reps PROVE accrued'[k] = accrued[k] + FeesOf(k, new)
      BY <2>1, <1>3
    <2> QED
      BY <2>1, <2>2
  <1>6. Fees
    BY <1>1, <1>2, <1>5 DEF Fees, Accrues, new
  <1>7. Columns
    BY <1>3, <1>4, <1>5 DEF Columns, IInv, TypeOK, NeverOverpaid
  <1> QED
    BY <1>4, <1>6, <1>7 DEF Money


-----------------------------------------------------------------------------
(* Control: the calendar, the loan and the handlers.                       *)
ControlInv ==
    /\ today \in Days /\ loanStatus \in LoanStatuses /\ readyForDefault \in BOOLEAN
    /\ job \in [Procs -> Jobs] /\ DatesOK

LEMMA IdleJob == Idle \in Jobs /\ Idle.date = 0
  BY DaysInInt DEF Idle, Jobs, LoanStatuses

LEMMA ResumeStep ==
  ASSUME IInv, NEW p \in Procs, NEW j \in Jobs, Timely(j), Resume(p, j), today' = today
  PROVE  job' \in [Procs -> Jobs] /\ DatesOK'
  BY DEF IInv, TypeOK, Resume, DatesOK, Timely

LEMMA StopStep ==
  ASSUME IInv, NEW p \in Procs, Stop(p), today' = today
  PROVE  job' \in [Procs -> Jobs] /\ DatesOK'
  <1>1. Timely(Idle)
    BY IdleJob, DaysInInt DEF IInv, TypeOK, Timely
  <1> QED
    BY <1>1, IdleJob, ResumeStep DEF Stop

LEMMA StartingStep ==
  ASSUME IInv, NEW p \in Procs, Starting(p)
  PROVE  UNCHANGED <<today, loanVars, repVars>> /\ ControlInv'
  <1> USE DEF IInv, TypeOK, Jobs, LoanStatuses, Timely
  <1>0. 0 \in Days /\ 0 <= today /\ 0 <= today + 1 /\ today <= today + 1
    BY DaysInInt
  <1>1. \A date \in PaymentDates : date \in Days /\ date <= today + 1
    BY DEF PaymentDates
  <1>2. \A amount \in Amounts : amount \in Nat
    BY LoanAssumption
  <1>3. ASSUME NEW op, NEW new \in LoanStatuses, Decides(p, op, new)
        PROVE  UNCHANGED <<today, loanVars, repVars>> /\ \E j \in Jobs : Timely(j) /\ Resume(p, j)
    BY <1>0, <1>3 DEF Decides, Idle
  <1>4. UNCHANGED <<today, loanVars, repVars>> /\ \E j \in Jobs : Timely(j) /\ Resume(p, j)
    <2>1. CASE SpillRead(p)
      BY <1>0, <1>1, <1>2, <2>1 DEF SpillRead, Idle
    <2>2. CASE SingleRead(p)
      BY <1>0, <1>1, <1>2, <2>2 DEF SingleRead, Idle
    <2>3. CASE SettleRead(p)
      BY <1>0, <1>1, <2>3 DEF SettleRead, Idle
    <2>4. CASE FeeSelect(p)
      <3> DEFINE j == [Idle EXCEPT !.at = "feeRead", !.date = today, !.todo = OverdueOn(today) \cap Open]
      <3>1. OverdueOn(today) \cap Open \in SUBSET Reps
        BY DEF OverdueOn
      <3>4. today <= today
        BY DaysInInt
      <3>2. j \in Jobs /\ Timely(j)
        BY <1>0, <3>1, <3>4 DEF Idle
      <3>3. Resume(p, j) /\ UNCHANGED <<today, loanVars, repVars>>
        BY <2>4 DEF FeeSelect
      <3> HIDE DEF j
      <3> QED
        BY <3>2, <3>3
    <2>5. CASE UpdateStatus(p)
      BY <1>3, <2>5 DEF UpdateStatus
    <2>6. CASE MarkDefault(p)
      BY <1>3, <2>6 DEF MarkDefault
    <2>7. CASE Complete(p)
      BY <1>3, <2>7 DEF Complete
    <2> QED
      BY <2>1, <2>2, <2>3, <2>4, <2>5, <2>6, <2>7 DEF Starting
  <1>5. job' \in [Procs -> Jobs] /\ DatesOK'
    BY <1>4, ResumeStep
  <1> QED
    BY <1>4, <1>5 DEF ControlInv, loanVars

(* The steps after the first, but for the three that move money or fees.   *)
LEMMA OtherStep ==
  ASSUME IInv, NEW p \in Procs,
         \/ SpillCheck(p) \/ SpillClear(p) \/ FeeRead(p) \/ FeeTxFails(p) \/ FeeCheck(p)
         \/ FeeArrears(p) \/ FeeReady(p) \/ WriteStatus(p) \/ Crash(p)
  PROVE  UNCHANGED <<today, totalLateFees, repVars>> /\ ControlInv'
  <1> USE DEF IInv, TypeOK, Jobs, LoanStatuses, loanVars, Timely
  <1>0. 0 \in Days /\ 0 <= today /\ 0 <= today + 1 /\ job[p] \in Jobs /\ Timely(job[p])
    BY DaysInInt DEF DatesOK
  <1>1. /\ UNCHANGED <<today, totalLateFees, repVars>>
        /\ loanStatus' \in LoanStatuses /\ readyForDefault' \in BOOLEAN
        /\ \E j \in Jobs : Timely(j) /\ Resume(p, j)
    <2>1. CASE SpillCheck(p)
      BY <1>0, <2>1 DEF SpillCheck, Stop, Idle
    <2>2. CASE SpillClear(p)
      BY <1>0, <2>2 DEF SpillClear, Stop, Idle
    <2>3. CASE FeeRead(p)
      BY <1>0, <2>3 DEF FeeRead
    <2>4. CASE FeeTxFails(p)
      BY <1>0, <2>4 DEF FeeTxFails
    <2>5. CASE FeeCheck(p)
      BY <1>0, <2>5 DEF FeeCheck, Idle
    <2>6. CASE FeeArrears(p)
      BY <1>0, <2>6 DEF FeeArrears, Stop, Idle
    <2>7. CASE FeeReady(p)
      BY <1>0, <2>7 DEF FeeReady, Stop, Idle
    <2>8. CASE WriteStatus(p)
      BY <1>0, <2>8 DEF WriteStatus, Stop, Idle
    <2>9. CASE Crash(p)
      BY <1>0, <2>9 DEF Crash, Stop, Idle
    <2> QED
      BY <2>1, <2>2, <2>3, <2>4, <2>5, <2>6, <2>7, <2>8, <2>9
  <1>2. job' \in [Procs -> Jobs] /\ DatesOK'
    BY <1>1, ResumeStep
  <1> QED
    BY <1>1, <1>2 DEF ControlInv


-----------------------------------------------------------------------------
(* The transactions, and the whole of Next.                                *)
LEMMA PayerStep ==
  ASSUME IInv, NEW p \in Procs, SpillTx(p) \/ SingleTx(p)
  PROVE  Fees /\ Money /\ Columns /\ ControlInv'
  <1> DEFINE Done(next) ==
               /\ Fees /\ Money /\ Columns
               /\ UNCHANGED <<today, loanStatus, readyForDefault>>
               /\ Resume(p, next) \/ Stop(p)
  <1>0. /\ [Idle EXCEPT !.at = "spillCheck"] \in Jobs
        /\ Timely([Idle EXCEPT !.at = "spillCheck"]) /\ Timely(Idle)
    <2>1. 0 <= today + 1 /\ 0 \in Days
      BY DaysInInt DEF IInv, TypeOK
    <2> QED
      BY <2>1 DEF Idle, Jobs, LoanStatuses, Timely
  <1>1. ASSUME Stop(p) /\ UNCHANGED <<today, loanVars, repVars>> PROVE Done(Idle)
    BY <1>1, QuietStep DEF loanVars
  <1>2. \E next \in {Idle, [Idle EXCEPT !.at = "spillCheck"]} : Done(next)
    <2>1. CASE SpillTx(p)
      <3> DEFINE next == IF job[p].seen = "DEFAULTED" THEN [Idle EXCEPT !.at = "spillCheck"] ELSE Idle
      <3>1. CASE PayOrReject(p, Open, TRUE, next)
        <4>1. Open \in SUBSET Reps /\ \A i \in Open : status[i] # "PAID"
          BY DEF Open
        <4>2. Done(next)
          BY <3>1, <4>1, PaymentStep
        <4> QED
          BY <4>2
      <3> QED
        BY <2>1, <3>1, <1>1 DEF SpillTx
    <2>2. CASE SingleTx(p)
      <3>1. CASE /\ \A i \in job[p].todo : status[i] # "PAID"
                 /\ PayOrReject(p, job[p].todo, FALSE, Idle)
        <4>1. job[p].todo \in SUBSET Reps
          BY DEF IInv, TypeOK, Jobs
        <4>2. Done(Idle)
          BY <3>1, <4>1, PaymentStep
        <4> QED
          BY <4>2
      <3> QED
        BY <2>2, <3>1, <1>1 DEF SingleTx
    <2> QED
      BY <2>1, <2>2
  <1>3. PICK next \in {Idle, [Idle EXCEPT !.at = "spillCheck"]} : Done(next)
    BY <1>2
  <1>4. next \in Jobs /\ Timely(next)
    BY <1>0, IdleJob
  <1>5. job' \in [Procs -> Jobs] /\ DatesOK'
    BY <1>3, <1>4, ResumeStep, StopStep
  <1> QED
    BY <1>3, <1>5 DEF ControlInv, IInv, TypeOK

LEMMA StepInv ==
  ASSUME IInv, [Next]_vars
  PROVE  Fees /\ Money /\ Columns /\ ControlInv' /\ today <= today'
  <1> USE DEF IInv
  <1>0. today \in Nat /\ MaxDay \in Nat
    BY DaysInInt, LoanAssumption DEF TypeOK
  <1>1. CASE UNCHANGED vars
    BY <1>0, <1>1, QuietStep DEF vars, loanVars, repVars, ControlInv, TypeOK, DatesOK, Timely
  <1>2. CASE Tick
    <2>1. today' \in Days /\ today <= today'
      BY <1>0, <1>2 DEF Tick, Days
    <2>2. DatesOK'
      <3>1. ASSUME NEW p \in Procs PROVE Timely(job[p])'
        <4>1. job[p].date \in Nat /\ Timely(job[p])
          BY DaysInInt DEF TypeOK, Jobs, DatesOK
        <4> QED
          BY <4>1, <1>0, <1>2 DEF Tick, Timely
      <3> QED
        BY <3>1, <1>2 DEF Tick, DatesOK
    <2>3. Fees /\ Money /\ Columns
      BY <1>2, QuietStep DEF Tick, loanVars
    <2> QED
      BY <1>2, <2>1, <2>2, <2>3 DEF Tick, loanVars, ControlInv, TypeOK
  <1>3. ASSUME NEW p \in Procs, Starting(p) \/ Step(p) \/ Crash(p)
        PROVE  Fees /\ Money /\ Columns /\ ControlInv' /\ today <= today'
    <2>1. CASE Starting(p)
      BY <2>1, <1>0, StartingStep, QuietStep DEF loanVars
    <2>2. CASE \/ SpillCheck(p) \/ SpillClear(p) \/ FeeRead(p) \/ FeeTxFails(p) \/ FeeCheck(p)
               \/ FeeArrears(p) \/ FeeReady(p) \/ WriteStatus(p) \/ Crash(p)
      BY <2>2, <1>0, OtherStep, QuietStep
    <2>3. CASE SpillTx(p) \/ SingleTx(p)
      <3>1. today' = today
        BY <2>3 DEF SpillTx, SingleTx, PayOrReject, Pay
      <3> QED
        BY <2>3, <3>1, <1>0, PayerStep
    <2>4. CASE SettleTx(p)
      <3>1. today' = today /\ loanStatus' \in LoanStatuses /\ readyForDefault' \in BOOLEAN /\ Stop(p)
        BY <2>4 DEF SettleTx, TypeOK, LoanStatuses, loanVars
      <3> QED
        BY <2>4, <3>1, <1>0, SettlementStep, StopStep DEF ControlInv, TypeOK
    <2>5. CASE FeeTx(p)
      <3>1. UNCHANGED <<today, loanStatus, readyForDefault>>
        BY <2>5 DEF FeeTx
      <3>2. PICK i \in job[p].todo : Resume(p, [job[p] EXCEPT !.todo = @ \ {i}])
        BY <2>5 DEF FeeTx
      <3>3. /\ [job[p] EXCEPT !.todo = @ \ {i}] \in Jobs
            /\ Timely([job[p] EXCEPT !.todo = @ \ {i}])
        BY DEF TypeOK, Jobs, DatesOK, Timely
      <3> QED
        <4>1. Fees /\ Money /\ Columns
          BY <2>5, FeeStepLedger
        <4>2. job' \in [Procs -> Jobs] /\ DatesOK'
          BY <3>1, <3>2, <3>3, ResumeStep
        <4> QED
          BY <4>1, <4>2, <3>1, <1>0 DEF ControlInv, TypeOK
    <2> QED
      BY <1>3, <2>1, <2>2, <2>3, <2>4, <2>5 DEF Step, FeeStep
  <1> QED
    BY <1>1, <1>2, <1>3 DEF Next

LEMMA NextInv == IInv /\ [Next]_vars => IInv' /\ PaidKept
  <1> SUFFICES ASSUME IInv, [Next]_vars PROVE IInv' /\ PaidKept
    OBVIOUS
  <1>1. Fees /\ Money /\ Columns /\ ControlInv' /\ today <= today'
    BY StepInv
  <1>2. LedgerInv' /\ PaidKept
    BY <1>1, LedgerStep DEF ControlInv
  <1> QED
    BY <1>1, <1>2 DEF IInv, TypeOK, ControlInv, LedgerInv

LEMMA InitInv == Init => IInv
  <1> SUFFICES ASSUME Init PROVE IInv
    OBVIOUS
  <1> USE DEF Init
  <1>1. TypeOK
    BY DaysInInt, IdleJob DEF TypeOK, LoanStatuses, RepStatuses
  <1>2. PaidByGrows /\ NeverOverpaid /\ PaidIsPaid /\ FeesAreConsecutive
    BY DaysInInt, LoanAssumption DEF PaidByGrows, NeverOverpaid, PaidIsPaid, FeesAreConsecutive, Paid
  <1>3. DatesOK
    BY IdleJob DEF DatesOK, Timely
  <1>4. FeeLedgerAgrees
    <2>1. ASSUME NEW i \in Reps PROVE FeesOf(i, entries) = 0
      <3>1. {e \in entries : e[1] = i} = {}
        OBVIOUS
      <3> QED
        BY <3>1, FS_EmptySet DEF FeesOf
    <2> QED
      BY <2>1, FS_EmptySet DEF FeeLedgerAgrees
  <1> QED
    BY <1>1, <1>2, <1>3, <1>4 DEF IInv

-----------------------------------------------------------------------------
(* The state is well typed, no installment is overpaid, PAID means paid,   *)
(* and the three records of late fees agree and leave no hole: through     *)
(* every interleaving of payments, settlements and accruals.               *)
THEOREM LedgerSafe == Spec => [](TypeOK /\ NeverOverpaid /\ PaidIsPaid /\ FeesAreConsecutive /\ FeeLedgerAgrees)
  <1>1. IInv => TypeOK /\ NeverOverpaid /\ PaidIsPaid /\ FeesAreConsecutive /\ FeeLedgerAgrees
    BY DEF IInv
  <1> QED
    BY <1>1, InitInv, NextInv, PTL DEF Spec

(* The ledger stays within its states, for every schedule and any set of   *)
(* concurrent handlers.                                                    *)
THEOREM LedgerTyped == Spec => []TypeOK
  BY LedgerSafe, PTL

(* Payments that read one balance before either locks it still take no more*)
(* than the installment's dues.                                            *)
THEOREM NoOverpayment == Spec => []NeverOverpaid
  BY LedgerSafe, PTL

(* Fees are charged day after day, whichever of the payment and the nightly*)
(* run charges them.                                                       *)
THEOREM FeeDaysConsecutive == Spec => []FeesAreConsecutive
  BY LedgerSafe, PTL

(* An installment marked PAID has been paid in full, by whatever mixture of*)
(* payments and settlements.                                               *)
THEOREM PaidMeansPaid == Spec => []PaidIsPaid
  BY LedgerSafe, PTL

(* A PAID installment stays PAID and takes no more money.                  *)
THEOREM PaidIsFinal == Spec => PaidStaysPaid
  <1>1. IInv /\ [Next]_vars => [PaidKept]_vars
    BY NextInv
  <1> QED
    BY <1>1, InitInv, NextInv, PTL DEF Spec, PaidStaysPaid, PaidKept

-----------------------------------------------------------------------------
(* The account: the fees an installment was charged number the days it was *)
(* charged for.                                                            *)
LEMMA FeesAreDays ==
  ASSUME NEW E \in SUBSET (Reps \X Days), NEW i \in Reps
  PROVE  FeesOf(i, E) = Cardinality({d \in Days : <<i, d>> \in E})
  <1> DEFINE D == {d \in Days : <<i, d>> \in E}
             F == {e \in E : e[1] = i}
             f == [d \in D |-> <<i, d>>]
  <1>1. IsFiniteSet(Days)
    BY FS_Interval, LoanAssumption DEF Days
  <1>2. IsFiniteSet(D)
    BY <1>1, FS_Subset
  <1>3. f \in [D -> F] /\ \A a, b \in D : f[a] = f[b] => a = b
    OBVIOUS
  <1>4. \A e \in F : \E d \in D : f[d] = e
    <2>1. ASSUME NEW e \in F PROVE e[2] \in D /\ e = <<i, e[2]>>
      OBVIOUS
    <2> QED
      BY <2>1
  <1> HIDE DEF D, F, f
  <1>5. ExistsBijection(D, F)
    BY <1>3, <1>4, Fun_IsBij DEF ExistsBijection
  <1>6. Cardinality(F) = Cardinality(D)
    BY <1>2, <1>5, FS_Bijection
  <1> QED
    BY <1>6 DEF FeesOf, D, F

(* A step that does not turn the day is a transaction of the account.      *)
LEMMA AccountStep ==
  ASSUME IInv, IInv', Fees, Money, Columns, today' = today
  PROVE  Account!Transaction
  <1> DEFINE On(E, i) == {d \in Days : <<i, d>> \in E}
  <1>0. \A S : Account!Cardinality(S) = Cardinality(S)
    BY Zenon DEF Account!Cardinality, Cardinality
  <1>1. /\ entries \in SUBSET (Reps \X Days) /\ entries' \in SUBSET (Reps \X Days)
        /\ entries \subseteq entries'
    BY DEF IInv, TypeOK, Fees, Accrues
  <1>2. /\ \A i \in Reps : Paid(i) \in Nat /\ Paid(i)' \in Nat /\ Due[i] \in Nat
        /\ feesPaid \in [Reps -> Nat] /\ feesPaid' \in [Reps -> Nat]
    BY DaysInInt, LoanAssumption DEF IInv, TypeOK, Paid
  <1>3. \A i \in Reps : accrued'[i] = Cardinality(On(entries', i))
    <2>1. \A i \in Reps : accrued'[i] = FeesOf(i, entries')
      BY DEF IInv, FeeLedgerAgrees, FeesOf
    <2> QED
      BY <1>1, <2>1, FeesAreDays
  <1>4. ASSUME NEW i \in Reps
        PROVE  /\ On(entries, i) \subseteq On(entries', i)
               /\ \A d \in On(entries', i) :
                     DueDay[i] < d /\ d <= today /\ (DueDay[i] + 1)..d \subseteq On(entries', i)
    <2>1. ASSUME NEW d \in On(entries', i)
          PROVE  DueDay[i] < d /\ d <= today /\ (DueDay[i] + 1)..d \subseteq On(entries', i)
      <3>1. /\ <<i, d>> \in entries' /\ DueDay[i] < d /\ d <= today
            /\ \A c \in (DueDay[i] + 1)..d : <<i, c>> \in entries'
        BY <2>1 DEF IInv, FeesAreConsecutive
      <3> QED
        BY <1>1, <3>1
    <2> QED
      BY <1>1, <2>1
  <1>5. ASSUME NEW i \in Reps
        PROVE  /\ Paid(i) <= Paid(i)' /\ Paid(i)' <= Due[i]
               /\ status[i] = "PAID" => status'[i] = "PAID" /\ Paid(i)' = Paid(i) /\ feesPaid'[i] = feesPaid[i]
               /\ status'[i] = "PAID" /\ status[i] # "PAID" =>
                     Paid(i)' = Due[i] /\ feesPaid'[i] = accrued'[i]
    <2>1. Paid(i) <= Paid(i)' /\ Paid(i)' <= Due[i] /\ (status[i] = "PAID" => paidBy'[i] = paidBy[i])
      BY MoneyPreserve
    <2>2. accrued'[i] \in Nat /\ feesPaid'[i] \in Nat /\ feesPaid'[i] <= accrued'[i]
      BY DEF IInv, TypeOK, Columns
    <2>3. /\ status[i] = "PAID" => status'[i] = "PAID" /\ feesPaid'[i] = feesPaid[i]
          /\ status'[i] = "PAID" => status[i] = "PAID" \/ (Paid(i)' >= Due[i] /\ feesPaid'[i] >= accrued'[i])
      BY DEF Columns
    <2>4. paidBy'[i] = paidBy[i] => Paid(i)' = Paid(i)
      BY DEF Paid
    <2> QED
      BY <1>2, <2>1, <2>2, <2>3, <2>4
  <1>6. \A i \in Reps : feesPaid[i] <= feesPaid'[i] /\ feesPaid'[i] <= Cardinality(On(entries', i))
    BY <1>3 DEF Columns
  <1>11. ASSUME NEW i \in Reps, today \in On(entries', i), today \notin On(entries, i) PROVE Grows
    <2>1. <<i, today>> \in entries' /\ <<i, today>> \notin entries
      BY <1>11
    <2>2. PICK S \in SUBSET Reps, date \in Days, applyFee \in BOOLEAN :
             /\ entries' = entries \cup Charges(S, date, applyFee)
             /\ date <= today \/ Grows
      BY <2>1 DEF Fees, Accrues
    <2>3. today \in MissingDays(i, date)
      BY <2>1, <2>2 DEF Charges
    <2>4. today < date /\ today \in Nat /\ date \in Nat
      BY <2>3, DaysInInt DEF MissingDays, IInv, TypeOK
    <2> QED
      BY <2>2, <2>4
  <1>12. Grows => \E k \in Reps : Account!Receives(k)
    BY DEF Grows, Account!Receives
  <1>7. ASSUME NEW i \in Reps PROVE Account!Charge(i)
    BY <1>4, <1>11, <1>12 DEF Account!Charge
  <1>8. ASSUME NEW i \in Reps PROVE Account!Receive(i)
    BY <1>0, <1>5, <1>6 DEF Account!Receive
  <1>9. ASSUME NEW i \in Reps PROVE Account!Close(i)
    BY <1>0, <1>3, <1>5 DEF Account!Close
  <1>10. /\ [i \in Reps |-> On(entries', i)] \in [Reps -> SUBSET Nat]
         /\ [i \in Reps |-> Paid(i)'] \in [Reps -> Nat]
    BY <1>2, DaysInInt
  <1> QED
    BY <1>2, <1>7, <1>8, <1>9, <1>10 DEF Account!Transaction

LEMMA DayTurnsAlone ==
  ASSUME IInv, [Next]_vars
  PROVE  Tick \/ today' = today
  <1>1. ASSUME NEW p \in Procs, Starting(p) PROVE today' = today
    BY <1>1, StartingStep
  <1>2. ASSUME NEW p \in Procs, Step(p) \/ Crash(p) PROVE today' = today
    BY <1>2 DEF Step, FeeStep, Crash, SpillTx, SingleTx, PayOrReject, Pay, SpillCheck, SpillClear, SettleTx,
                FeeRead, FeeTx, FeeTxFails, FeeCheck, FeeArrears, FeeReady, WriteStatus
  <1> QED
    BY <1>1, <1>2 DEF Next, vars

(* The three tables that the payments, the settlement and the nightly run  *)
(* write keep, together and through every interleaving and crash of these, *)
(* the account of LoanAccount.                                             *)
THEOREM KeepsAccount == Spec => ImplementsAccount
  <1>1. Init => Account!Init
    <2> SUFFICES ASSUME Init PROVE Account!Init
      OBVIOUS
    <2>1. [i \in Reps |-> Paid(i)] = [i \in Reps |-> 0]
      BY DaysInInt DEF Init, Paid
    <2>2. {i \in Reps : status[i] = "PAID"} = {}
      BY DEF Init
    <2> QED
      BY <2>1, <2>2 DEF Init, Account!Init
  <1>2. IInv /\ IInv' /\ [Next]_vars => [Account!Next]_(Account!vars)
    <2> SUFFICES ASSUME IInv, IInv', [Next]_vars PROVE [Account!Next]_(Account!vars)
      OBVIOUS
    <2>1. CASE today' = today
      BY <2>1, StepInv, AccountStep DEF Account!Next
    <2>2. CASE Tick
      BY <2>2 DEF Tick, repVars, Paid, Account!Next, Account!NextDay
    <2> QED
      BY <2>1, <2>2, DayTurnsAlone
  <1> QED
    BY <1>1, <1>2, InitInv, NextInv, PTL DEF Spec, ImplementsAccount, Account!Spec

-----------------------------------------------------------------------------
(* Completion: of a completed loan, or one a handler has found complete,   *)
(* only what the single-installment endpoint reopened is open.             *)
FoundComplete ==
    \A p \in Procs : job[p].at = "write" /\ job[p].seen = "COMPLETED" => Open \subseteq reopened

CInv == IInv /\ FoundComplete /\ CompletedIsSettled

(* What is open after a step was open before, or is reopened by it.        *)
OpensLittle == Open' \subseteq Open \cup reopened' /\ reopened \subseteq reopened'

TakesMoney(i) == paidBy'[i] # paidBy[i] \/ feesPaid'[i] # feesPaid[i]

(* A payment touches the installments it is for, and opens none of them    *)
(* but the cancelled.                                                      *)
LEMMA PaymentTouches ==
  ASSUME IInv, NEW p \in Procs, NEW S \in SUBSET Reps, \A i \in S : status[i] # "PAID",
         NEW feesCount \in BOOLEAN, NEW next, PayOrReject(p, S, feesCount, next)
  PROVE  /\ OpensLittle /\ UNCHANGED <<loanStatus, readyForDefault>>
         /\ \A i \in Reps : TakesMoney(i) => i \in S
         /\ Resume(p, next) \/ Stop(p)
  <1> DEFINE j    == job[p]
             new  == Charges(S, j.date, j.applyFee)
             owed == Owed(S, new)
  <1>1. CASE Stop(p) /\ UNCHANGED <<today, loanVars, repVars>>
    BY <1>1 DEF loanVars, repVars, OpensLittle, Open, TakesMoney
  <1>2. ASSUME NEW take \in [Reps -> 0..j.amount], Spills(take, owed, j.amount),
               Pay(new, take, j.date, feesCount)
        PROVE  /\ OpensLittle /\ UNCHANGED <<loanStatus, readyForDefault>>
               /\ \A i \in Reps : TakesMoney(i) => i \in S
    <2>1. /\ UNCHANGED <<loanStatus, readyForDefault>>
          /\ reopened' = reopened \cup {i \in Reps : status[i] = "CANCELLED" /\ take[i] > 0}
      BY <1>2 DEF Pay
    <2>2. ASSUME NEW i \in Reps, i \notin S PROVE take[i] = 0
      <3>1. take[i] <= 0
        BY <1>2, <2>2 DEF Spills, Owed
      <3>2. take[i] \in 0..j.amount /\ j.amount \in Nat
        BY DEF IInv, TypeOK, Jobs
      <3> QED
        BY <3>1, <3>2
    <2>3. \A i \in Reps : take[i] = 0 => status'[i] = status[i]
      BY <1>2 DEF Pay
    <2>4. \A i \in Reps : take[i] \in Nat
      BY DEF IInv, TypeOK, Jobs
    <2>5. OpensLittle
      <3>1. ASSUME NEW i \in Open', i \notin Open PROVE i \in reopened'
        <4>1. i \in Reps /\ status'[i] # status[i] /\ status[i] \in {"PAID", "CANCELLED"}
          BY <3>1 DEF Open
        <4>2. take[i] > 0 /\ i \in S
          BY <4>1, <2>2, <2>3, <2>4
        <4> QED
          BY <4>1, <4>2, <2>1
      <3> QED
        BY <2>1, <3>1 DEF OpensLittle
    <2>6. ASSUME NEW i \in Reps, i \notin S PROVE ~TakesMoney(i)
      <3>1. take[i] = 0 /\ j.date \in Days
        BY <2>2, <2>6 DEF IInv, TypeOK, Jobs
      <3>2. FeesOf(i, new) = 0
        BY <2>6, ChargesAreNew DEF IInv, TypeOK, Jobs
      <3> DEFINE rest == Surplus(accrued[i] + FeesOf(i, new), feesPaid[i])
                 fee  == Lesser(take[i], rest)
      <3>3. /\ feesPaid'[i] = feesPaid[i] + fee
            /\ paidBy'[i] = Allocate(paidBy[i], take[i] - fee, j.date)
        BY <1>2 DEF Pay
      <3>4. accrued[i] \in Nat /\ feesPaid[i] \in Nat /\ paidBy[i] \in [Days -> Nat]
        BY DEF IInv, TypeOK
      <3>5. rest \in Nat
        <4>1. accrued[i] + FeesOf(i, new) \in Nat
          BY <3>2, <3>4
        <4> QED
          BY <3>4, <4>1, SurplusType
      <3> HIDE DEF rest
      <3>6. fee = 0 /\ take[i] - fee = 0
        <4>1. fee = Lesser(0, rest)
          BY <3>1
        <4> QED
          BY <3>1, <3>5, <4>1, LesserOfNone
      <3> HIDE DEF fee
      <3>7. feesPaid'[i] = feesPaid[i]
        BY <3>3, <3>4, <3>6
      <3>8. paidBy'[i] = paidBy[i]
        <4>1. Allocate(paidBy[i], 0, j.date) = paidBy[i]
          BY <3>1, <3>4, AllocateType
        <4> QED
          BY <4>1, <3>3, <3>6
      <3> QED
        BY <3>7, <3>8 DEF TakesMoney
    <2> QED
      BY <2>1, <2>5, <2>6
  <1> QED
    BY <1>1, <1>2 DEF PayOrReject

(* The one claim about a step of a completed loan's money.                 *)
TakesMore ==
    loanStatus = "COMPLETED" =>
        \A i \in Reps : TakesMoney(i) =>
            /\ status[i] = "CANCELLED" \/ i \in reopened
            /\ \E p \in Procs : SinglePays(p)

(* A step that opens nothing of its own and puts no handler where it would *)
(* complete a loan keeps the invariant.                                    *)
LEMMA KeepsSettled ==
  ASSUME CInv, OpensLittle, NEW p \in Procs, NEW j, Resume(p, j),
         (loanStatus' = "COMPLETED" \/ (j.at = "write" /\ j.seen = "COMPLETED")) => Open \subseteq reopened
  PROVE  FoundComplete' /\ CompletedIsSettled'
  <1>1. Open \subseteq reopened => Open' \subseteq reopened'
    BY DEF OpensLittle
  <1>2. job' = [job EXCEPT ![p] = j] /\ job \in [Procs -> Jobs]
    BY DEF CInv, IInv, TypeOK, Resume
  <1>3. CompletedIsSettled'
    BY <1>1 DEF CompletedIsSettled
  <1>4. ASSUME NEW q \in Procs, job'[q].at = "write", job'[q].seen = "COMPLETED" PROVE Open \subseteq reopened
    BY <1>2, <1>4 DEF CInv, FoundComplete
  <1> QED
    BY <1>1, <1>3, <1>4 DEF FoundComplete

LEMMA QuietOpens ==
  ASSUME UNCHANGED repVars
  PROVE  OpensLittle /\ TakesMore
  BY DEF repVars, OpensLittle, Open, TakesMore, TakesMoney

LEMMA NextCInv ==
  ASSUME CInv, [Next]_vars
  PROVE  CInv' /\ TakesMore
  <1> DEFINE CPart == FoundComplete /\ CompletedIsSettled
  <1>1. IInv'
    BY NextInv DEF CInv
  <1>2. job \in [Procs -> Jobs] /\ IInv
    BY DEF CInv, IInv, TypeOK
  <1>3. ASSUME UNCHANGED <<loanStatus, repVars>>, NEW p \in Procs, NEW j,
               Resume(p, j), j.at = "write" /\ j.seen = "COMPLETED" => Open = {}
        PROVE  CPart' /\ TakesMore
    BY <1>3, QuietOpens, KeepsSettled DEF CInv, CompletedIsSettled
  <1>4. ASSUME UNCHANGED <<loanStatus, repVars, job>> PROVE CPart' /\ TakesMore
    <2>1. job' = job /\ loanStatus' = loanStatus /\ status' = status /\ reopened' = reopened
      BY <1>4 DEF repVars
    <2>2. Open' = Open
      BY <2>1 DEF Open
    <2>4. FoundComplete'
      BY <2>1, <2>2 DEF CInv, FoundComplete
    <2>5. CompletedIsSettled'
      BY <2>1, <2>2 DEF CInv, CompletedIsSettled
    <2> QED
      BY <1>4, <2>4, <2>5, QuietOpens
  <1>5. ASSUME NEW p \in Procs, Starting(p) PROVE CPart' /\ TakesMore
    <2>1. UNCHANGED <<loanStatus, repVars>>
      BY <1>2, <1>5, StartingStep DEF loanVars
    <2>2. CASE SingleRead(p)
      <3>1. \E j : Resume(p, j) /\ j.at = "singleTx"
        <4>1. PICK i \in Reps, amount \in Amounts, date \in PaymentDates, applyFee \in BOOLEAN :
                 Resume(p, [Idle EXCEPT !.at = "singleTx", !.amount = amount, !.date = date,
                                        !.applyFee = applyFee, !.todo = {i}])
          BY <2>2 DEF SingleRead
        <4>2. [Idle EXCEPT !.at = "singleTx", !.amount = amount, !.date = date,
                           !.applyFee = applyFee, !.todo = {i}].at = "singleTx"
          BY DEF Idle
        <4> QED
          BY <4>1, <4>2
      <3> QED
        BY <1>3, <2>1, <3>1
    <2>3. CASE SpillRead(p) \/ SettleRead(p) \/ FeeSelect(p)
      BY <1>3, <2>1, <2>3 DEF SpillRead, SettleRead, FeeSelect, Idle
    <2>4. CASE UpdateStatus(p) \/ MarkDefault(p)
      BY <1>3, <2>1, <2>4 DEF UpdateStatus, MarkDefault, Decides, Idle
    <2>5. CASE Complete(p)
      BY <1>3, <2>1, <2>5 DEF Complete, Decides, Idle
    <2> QED
      BY <1>5, <2>2, <2>3, <2>4, <2>5 DEF Starting
  <1>6. ASSUME NEW p \in Procs, SpillTx(p) PROVE CPart' /\ TakesMore
    <2> DEFINE next == IF job[p].seen = "DEFAULTED" THEN [Idle EXCEPT !.at = "spillCheck"] ELSE Idle
    <2>1. CASE loanStatus # "COMPLETED" /\ PayOrReject(p, Open, TRUE, next)
      <3>1. Open \in SUBSET Reps /\ \A i \in Open : status[i] # "PAID"
        BY DEF Open
      <3>2. OpensLittle /\ loanStatus' = loanStatus /\ (Resume(p, next) \/ Stop(p))
        BY <1>2, <2>1, <3>1, PaymentTouches
      <3>3. \E j : Resume(p, j) /\ j.at # "write"
        BY <3>2 DEF Stop, Idle
      <3> QED
        BY <2>1, <3>2, <3>3, KeepsSettled DEF TakesMore
    <2>2. CASE Stop(p) /\ UNCHANGED <<today, loanVars, repVars>>
      BY <1>3, <2>2 DEF Stop, Idle, loanVars
    <2> QED
      BY <1>6, <2>1, <2>2 DEF SpillTx
  <1>7. ASSUME NEW p \in Procs, SettleTx(p) PROVE CPart' /\ TakesMore
    <2>1. CASE Settleable
      <3>1. loanStatus # "COMPLETED" /\ Resume(p, Idle) /\ Idle.at = "idle"
        BY <1>7, <2>1 DEF Settleable, SettleTx, Stop, Idle
      <3>2. Open' = {}
        BY <1>7, <2>1 DEF SettleTx, Open
      <3> QED
        BY <3>1, <3>2, <1>2 DEF Resume, FoundComplete, CompletedIsSettled, TakesMore
    <2>2. CASE ~Settleable
      BY <1>3, <1>7, <2>2 DEF SettleTx, Stop, Idle, loanVars
    <2> QED
      BY <2>1, <2>2
  <1>8. ASSUME NEW p \in Procs, SingleTx(p) PROVE CPart' /\ TakesMore
    <2>1. CASE (\A i \in job[p].todo : status[i] # "PAID") /\ PayOrReject(p, job[p].todo, FALSE, Idle)
      <3>1. job[p].todo \in SUBSET Reps
        BY <1>2 DEF Jobs
      <3>2. /\ OpensLittle /\ loanStatus' = loanStatus
            /\ \A i \in Reps : TakesMoney(i) => i \in job[p].todo
            /\ Resume(p, Idle)
        BY <1>2, <2>1, <3>1, PaymentTouches DEF Stop
      <3>3. Idle.at = "idle"
        BY DEF Idle
      <3>4. CPart'
        BY <3>2, <3>3, KeepsSettled DEF CInv, CompletedIsSettled
      <3>5. SinglePays(p)
        BY <1>2, <1>8, <3>2, <3>3 DEF SinglePays, SingleTx, Resume
      <3>6. ASSUME loanStatus = "COMPLETED", NEW i \in Reps, TakesMoney(i)
            PROVE  status[i] = "CANCELLED" \/ i \in reopened
        <4>1. status[i] # "PAID" /\ Open \subseteq reopened
          BY <2>1, <3>2, <3>6 DEF CInv, CompletedIsSettled
        <4> QED
          BY <4>1 DEF Open
      <3> QED
        BY <3>4, <3>5, <3>6 DEF TakesMore
    <2>2. CASE Stop(p) /\ UNCHANGED <<today, loanVars, repVars>>
      BY <1>3, <2>2 DEF Stop, Idle, loanVars
    <2> QED
      BY <1>8, <2>1, <2>2 DEF SingleTx
  <1>9. ASSUME NEW p \in Procs, FeeTx(p) PROVE CPart' /\ TakesMore
    <2>1. PICK i \in job[p].todo : Resume(p, [job[p] EXCEPT !.todo = @ \ {i}])
      BY <1>9 DEF FeeTx
    <2>2. job[p].at = "feeTx" /\ UNCHANGED <<loanStatus, status, feesPaid, paidBy, reopened>>
      BY <1>9 DEF FeeTx
    <2>3. [job[p] EXCEPT !.todo = @ \ {i}].at = "feeTx"
      BY <1>2, <2>2 DEF Jobs
    <2>4. OpensLittle /\ TakesMore
      BY <2>2 DEF OpensLittle, Open, TakesMore, TakesMoney
    <2> QED
      BY <2>1, <2>2, <2>3, <2>4, KeepsSettled DEF CInv, CompletedIsSettled
  <1>10. ASSUME NEW p \in Procs,
                \/ SpillCheck(p) \/ FeeRead(p) \/ FeeTxFails(p) \/ FeeCheck(p) \/ FeeReady(p) \/ Crash(p)
         PROVE  CPart' /\ TakesMore
    <2>1. UNCHANGED <<loanStatus, repVars>>
      BY <1>10 DEF SpillCheck, FeeRead, FeeTxFails, FeeCheck, FeeReady, Crash, loanVars
    <2>2. job[p] \in Jobs
      BY <1>2
    <2>3. \E j : Resume(p, j) /\ j.at # "write"
      <3>1. CASE SpillCheck(p) \/ FeeReady(p) \/ Crash(p)
        BY <3>1 DEF SpillCheck, FeeReady, Crash, Stop, Idle
      <3>2. CASE FeeRead(p)
        <4>1. Resume(p, [job[p] EXCEPT !.at = "feeTx", !.seen = loanStatus, !.flag = readyForDefault])
          BY <3>2 DEF FeeRead
        <4>2. [job[p] EXCEPT !.at = "feeTx", !.seen = loanStatus, !.flag = readyForDefault].at = "feeTx"
          BY <2>2 DEF Jobs
        <4> QED
          BY <4>1, <4>2
      <3>3. CASE FeeTxFails(p)
        <4>1. PICK i \in job[p].todo : Resume(p, [job[p] EXCEPT !.todo = @ \ {i}])
          BY <3>3 DEF FeeTxFails
        <4>2. [job[p] EXCEPT !.todo = @ \ {i}].at = "feeTx"
          BY <2>2, <3>3 DEF FeeTxFails, Jobs
        <4> QED
          BY <4>1, <4>2
      <3>4. CASE FeeCheck(p)
        <4>1. PICK a \in {"feeArrears", "feeReady", "idle"}, f \in BOOLEAN : Resume(p, [Idle EXCEPT !.at = a, !.flag = f])
          BY <3>4 DEF FeeCheck
        <4>2. [Idle EXCEPT !.at = a, !.flag = f].at = a
          BY DEF Idle
        <4> QED
          BY <4>1, <4>2
      <3> QED
        BY <1>10, <3>1, <3>2, <3>3, <3>4
    <2> QED
      BY <1>3, <2>1, <2>3
  <1>11. ASSUME NEW p \in Procs, SpillClear(p) \/ FeeArrears(p) \/ WriteStatus(p) PROVE CPart' /\ TakesMore
    <2>1. UNCHANGED repVars /\ job[p] \in Jobs
      BY <1>2, <1>11 DEF SpillClear, FeeArrears, WriteStatus
    <2>2. loanStatus' = "COMPLETED" => Open \subseteq reopened
      BY <1>11 DEF SpillClear, FeeArrears, WriteStatus, CInv, FoundComplete
    <2>3. \E j : Resume(p, j) /\ j.at # "write"
      BY <1>11, <2>1 DEF SpillClear, FeeArrears, WriteStatus, Stop, Idle, Jobs
    <2> QED
      BY <2>1, <2>2, <2>3, QuietOpens, KeepsSettled
  <1> HIDE DEF CPart
  <1>12. CPart' /\ TakesMore
    <2>1. CASE Tick \/ UNCHANGED vars
      BY <1>4, <2>1 DEF Tick, vars, loanVars
    <2>2. CASE \E p \in Procs : Starting(p) \/ Step(p) \/ Crash(p)
      <3> PICK p \in Procs : Starting(p) \/ Step(p) \/ Crash(p)
        BY <2>2
      <3> QED
        BY <1>5, <1>6, <1>7, <1>8, <1>9, <1>10, <1>11 DEF Step, FeeStep
    <2> QED
      BY <2>1, <2>2 DEF Next
  <1> QED
    BY <1>1, <1>12 DEF CInv, CPart

LEMMA InitCInv == Init => CInv
  BY InitInv DEF CInv, Init, FoundComplete, CompletedIsSettled, Idle

(* A completed loan has nothing open but what the single-installment       *)
(* endpoint reopened, and takes money through that endpoint only, for      *)
(* installments that were cancelled, however late a handler comes to it.   *)
THEOREM CompletionSafe == Spec => []CompletedIsSettled /\ OnlyCancelledTakeMore
  <1>1. CInv /\ [Next]_vars => CInv' /\ [TakesMore]_vars
    BY NextCInv
  <1>2. CInv => CompletedIsSettled
    BY DEF CInv
  <1>3. [TakesMore]_vars => [loanStatus = "COMPLETED" =>
          \A i \in Reps : paidBy'[i] # paidBy[i] \/ feesPaid'[i] # feesPaid[i] =>
              /\ status[i] = "CANCELLED" \/ i \in reopened
              /\ \E p \in Procs : SinglePays(p)]_vars
    BY DEF TakesMore, TakesMoney
  <1> QED
    BY <1>1, <1>2, <1>3, InitCInv, PTL DEF Spec, OnlyCancelledTakeMore

(* A COMPLETED loan has nothing open but what was reopened.                *)
THEOREM CompletionSettled == Spec => []CompletedIsSettled
  BY CompletionSafe, PTL

-----------------------------------------------------------------------------
(* A completed loan stays as it is once nobody has it on an old reading.   *)
LEMMA CompletedStays ==
  ASSUME loanStatus = "COMPLETED", \A p \in Procs : ~Pending(p), IInv, [Next]_vars
  PROVE  /\ UNCHANGED <<loanStatus, readyForDefault>>
         /\ entries' # entries => \E p \in Procs : SinglePays(p)
         /\ \A p \in Procs : ~Pending(p)'
  <1> DEFINE Kept == /\ UNCHANGED <<loanStatus, readyForDefault>>
                     /\ entries' # entries => \E p \in Procs : SinglePays(p)
                     /\ \A q \in Procs : ~Pending(q)'
  <1>0. job \in [Procs -> Jobs]
    BY DEF IInv, TypeOK
  <1>1. CASE Tick \/ UNCHANGED vars
    BY <1>1 DEF Tick, vars, loanVars, repVars, Pending
  <1>2. ASSUME NEW p \in Procs, UNCHANGED <<loanStatus, readyForDefault, entries>>,
               NEW j, Resume(p, j), j.at \in {"idle", "spillTx", "singleTx", "settleTx"}
        PROVE  Kept
    BY <1>0, <1>2 DEF Resume, Pending
  <1>3. Idle.at = "idle"
    BY DEF Idle
  <1>4. ASSUME NEW p \in Procs, Starting(p) PROVE Kept
    <2>1. CASE SingleRead(p)
      <3> PICK i \in Reps, amount \in Amounts, date \in PaymentDates, applyFee \in BOOLEAN :
              Resume(p, [Idle EXCEPT !.at = "singleTx", !.amount = amount, !.date = date,
                                     !.applyFee = applyFee, !.todo = {i}])
        BY <2>1 DEF SingleRead
      <3> PICK j : j = [Idle EXCEPT !.at = "singleTx", !.amount = amount, !.date = date,
                                    !.applyFee = applyFee, !.todo = {i}]
        OBVIOUS
      <3>1. Resume(p, j) /\ j.at = "singleTx"
        BY DEF Idle
      <3>2. UNCHANGED <<loanStatus, readyForDefault, entries>>
        BY <2>1 DEF SingleRead, loanVars, repVars
      <3> QED
        BY <3>1, <3>2, <1>2
    <2>2. CASE Complete(p)
      BY <2>2 DEF Complete, Decides
    <2> QED
      BY <1>4, <2>1, <2>2
         DEF Starting, SpillRead, SettleRead, Settleable, FeeSelect, UpdateStatus, MarkDefault, Decides
  <1>5. ASSUME NEW p \in Procs, SpillTx(p) \/ SettleTx(p) PROVE Kept
    <2>1. Resume(p, Idle) /\ UNCHANGED <<loanStatus, readyForDefault, entries>>
      BY <1>5 DEF SpillTx, SettleTx, Settleable, Stop, loanVars, repVars
    <2> QED
      BY <2>1, <1>2, <1>3
  <1>6. ASSUME NEW p \in Procs, WriteStatus(p) PROVE Kept
    <2>1. Resume(p, Idle) /\ UNCHANGED <<loanStatus, readyForDefault, entries>>
      BY <1>6 DEF WriteStatus, Pending, Stop, repVars
    <2> QED
      BY <2>1, <1>2, <1>3
  <1>7. ASSUME NEW p \in Procs, SpillCheck(p) \/ SpillClear(p) \/ FeeStep(p) PROVE FALSE
    BY <1>7 DEF SpillCheck, SpillClear, FeeStep, FeeRead, FeeTx, FeeTxFails, FeeCheck,
                FeeArrears, FeeReady, Pending
  <1>8. ASSUME NEW p \in Procs, Crash(p) PROVE Kept
    <2>1. Resume(p, Idle) /\ UNCHANGED <<loanStatus, readyForDefault, entries>>
      BY <1>8 DEF Crash, Stop, loanVars, repVars
    <2> QED
      BY <2>1, <1>2, <1>3
  <1>9. ASSUME NEW p \in Procs, SingleTx(p) PROVE Kept
    <2>1. Resume(p, Idle) /\ UNCHANGED <<loanStatus, readyForDefault>>
      BY <1>9 DEF SingleTx, PayOrReject, Pay, Stop, loanVars
    <2>2. SinglePays(p)
      BY <1>0, <1>3, <1>9, <2>1 DEF SinglePays, SingleTx, Resume
    <2>3. \A q \in Procs : ~Pending(q)'
      BY <1>0, <1>3, <2>1 DEF Resume, Pending
    <2> QED
      BY <2>1, <2>2, <2>3
  <1> QED
    BY <1>1, <1>4, <1>5, <1>6, <1>7, <1>8, <1>9 DEF Next, Step

(* A completed loan for which no older reading is under way keeps its      *)
(* status, and is charged no fee but by a single-installment payment.      *)
THEOREM CompletionHolds == Spec => CompletedForGood
  <1>1. IInv /\ [Next]_vars =>
           [loanStatus = "COMPLETED" /\ (\A p \in Procs : ~Pending(p)) =>
               /\ UNCHANGED <<loanStatus, readyForDefault>>
               /\ entries' # entries => \E p \in Procs : SinglePays(p)
               /\ \A p \in Procs : ~Pending(p)']_vars
    BY CompletedStays
  <1> QED
    BY <1>1, InitInv, NextInv, PTL DEF Spec, CompletedForGood
=============================================================================
