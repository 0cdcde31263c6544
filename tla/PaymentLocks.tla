---------------------------- MODULE PaymentLocks ----------------------------
(***************************************************************************)
(* The locks the money-moving transactions of backend_pro take, and the    *)
(* receipt numbers they draw under one of them.  LoanServicing takes each  *)
(* transaction for one step; this module opens it up, statement by         *)
(* statement, to see whether transactions can wait for each other in a     *)
(* circle and whether two of them can draw the same number.                *)
(*                                                                         *)
(* PostgreSQL holds every lock to the end of the transaction, and kills    *)
(* one of a circle of waiting transactions; both are external.             *)
(***************************************************************************)
EXTENDS Naturals, FiniteSets, Sequences

CONSTANTS
    Procs,          \* connections of the pool
    Loans,
    PayDays,        \* the payment dates, one receipt prefix each
    Kinds,          \* the transactions in use
    MaxReceipts     \* bound on the receipts of a day

AllKinds == {"spill", "single", "settle", "lateFee"}

ASSUME LocksAssumption == Kinds \subseteq AllKinds /\ MaxReceipts \in Nat

VARIABLES
    tx,         \* what each connection's open transaction does
    n,          \* how many of its locking statements have returned
    held,       \* the locks it holds
    number,     \* the receipt number it has drawn and not yet used, or 0
    mine,       \* the receipt numbers it has inserted
    issued      \* the committed receipt numbers, per day

vars == <<tx, n, held, number, mine, issued>>

-----------------------------------------------------------------------------
(* The row lock of a loan, the locks of its installments (only ever taken  *)
(* under it, so one stands for them all), the advisory lock of a prefix.   *)
LoanRow(l)    == <<"loan", l>>
RowsOf(l)     == <<"rows", l>>
ReceiptsOf(d) == <<"receipts", d>>

Locks == {LoanRow(l) : l \in Loans} \cup {RowsOf(l) : l \in Loans} \cup {ReceiptsOf(d) : d \in PayDays}

NoTx == [kind |-> "none"]

Txs == [kind : Kinds, loan : Loans, day : PayDays]

Init ==
    /\ tx = [p \in Procs |-> NoTx]
    /\ n = [p \in Procs |-> 0]
    /\ held = [p \in Procs |-> {}]
    /\ number = [p \in Procs |-> 0]
    /\ mine = [p \in Procs |-> {}]
    /\ issued = [d \in PayDays |-> {}]

(* Mutant: the single-installment endpoint locks the installment first.    *)
Plan_RowsFirst(t) ==
    CASE t.kind = "spill"  -> <<LoanRow(t.loan), RowsOf(t.loan), ReceiptsOf(t.day)>>
      [] t.kind = "single" -> <<RowsOf(t.loan), LoanRow(t.loan)>>
      [] t.kind = "lateFee" -> <<LoanRow(t.loan), RowsOf(t.loan)>>
      [] t.kind = "settle" -> <<ReceiptsOf(t.day), LoanRow(t.loan)>>

(* Mutant: receipts are drawn under the loan's lock alone.                 *)
Plan_NoPrefixLock(t) ==
    CASE t.kind = "spill" -> <<LoanRow(t.loan), RowsOf(t.loan), <<"receipts", t.loan>> >>
      [] t.kind \in {"single", "lateFee"} -> <<LoanRow(t.loan), RowsOf(t.loan)>>
      [] t.kind = "settle" -> << <<"receipts", t.loan>>, LoanRow(t.loan)>>

(* The locking statements of a transaction, in their order.                *)
Plan(t) ==
    CASE t.kind = "spill" -> <<LoanRow(t.loan), RowsOf(t.loan), ReceiptsOf(t.day)>>
      [] t.kind \in {"single", "lateFee"} -> <<LoanRow(t.loan), RowsOf(t.loan)>>
      [] t.kind = "settle" -> <<ReceiptsOf(t.day), LoanRow(t.loan)>>

Running(p) == tx[p].kind # "none"

Locking(p) == Running(p) /\ n[p] < Len(Plan(tx[p]))

Wanted(p) == Plan(tx[p])[n[p] + 1]

(* p's statement waits for a lock of q.                                    *)
Blocks(q, p) == q # p /\ Locking(p) /\ Wanted(p) \in held[q]

-----------------------------------------------------------------------------
(* A handler opens its transaction.                                        *)
Begin(p) ==
    /\ ~Running(p)
    /\ \E t \in Txs :
          /\ Cardinality(issued[t.day]) < MaxReceipts
          /\ tx' = [tx EXCEPT ![p] = t]
    /\ UNCHANGED <<n, held, number, mine, issued>>

(* Mutant: the receipts of every day are counted.                          *)
Drawn_AnyDay(p) ==
    Cardinality(UNION {{d} \X issued[d] : d \in PayDays}) + Cardinality(mine[p]) + 1

(* count(receiptNumber startsWith prefix) + 1, in a snapshot taken after   *)
(* the lock: what is committed and what the transaction itself inserted.   *)
Drawn(p) == Cardinality(issued[tx[p].day]) + Cardinality(mine[p]) + 1

(* A locking statement returns; generateReceiptNumber goes on to count.    *)
Lock(p) ==
    /\ Locking(p)
    /\ \A q \in Procs : ~Blocks(q, p)
    /\ held' = [held EXCEPT ![p] = @ \cup {Wanted(p)}]
    /\ n' = [n EXCEPT ![p] = @ + 1]
    /\ number' = [number EXCEPT ![p] = IF Wanted(p)[1] = "receipts" THEN Drawn(p) ELSE @]
    /\ UNCHANGED <<tx, mine, issued>>

(* What a rollback leaves of p.                                            *)
Rollback(p) ==
    /\ tx' = [tx EXCEPT ![p] = NoTx]
    /\ n' = [n EXCEPT ![p] = 0]
    /\ held' = [held EXCEPT ![p] = {}]
    /\ number' = [number EXCEPT ![p] = 0]
    /\ mine' = [mine EXCEPT ![p] = {}]
    /\ UNCHANGED issued

(* The PaymentTransaction is inserted; if its number is taken the unique   *)
(* index fails the transaction, and withReceiptNumberRetry begins another. *)
(* A loan-level payment goes on to the receipt of the next installment.    *)
Insert(p) ==
    /\ Running(p) /\ ~Locking(p) /\ number[p] # 0
    /\ IF number[p] \in issued[tx[p].day]
         THEN Rollback(p)
         ELSE /\ mine' = [mine EXCEPT ![p] = @ \cup {number[p]}]
              /\ number' = [number EXCEPT ![p] = 0]
              /\ \/ n' = n
                 \/ /\ tx[p].kind = "spill" /\ number[p] < MaxReceipts
                    /\ n' = [n EXCEPT ![p] = @ - 1]
              /\ UNCHANGED <<tx, held, issued>>

Commit(p) ==
    /\ Running(p) /\ ~Locking(p) /\ number[p] = 0
    /\ issued' = [issued EXCEPT ![tx[p].day] = @ \cup mine[p]]
    /\ tx' = [tx EXCEPT ![p] = NoTx]
    /\ n' = [n EXCEPT ![p] = 0]
    /\ held' = [held EXCEPT ![p] = {}]
    /\ mine' = [mine EXCEPT ![p] = {}]
    /\ UNCHANGED number

(* A check of the transaction throws, a statement or the server fails.     *)
Abort(p) == Running(p) /\ Rollback(p)

(* S waits for itself: each of S is blocked by one of S.                   *)
Circle(S) == S # {} /\ \A p \in S : \E q \in S : Blocks(q, p)

(* The deadlock detector of PostgreSQL picks a victim; nothing retries it. *)
Kill(p) ==
    /\ \E S \in SUBSET Procs : p \in S /\ Circle(S)
    /\ Rollback(p)

Work(p) == Lock(p) \/ Insert(p) \/ Commit(p)

Next == \E p \in Procs : Begin(p) \/ Work(p) \/ Abort(p) \/ Kill(p)

Spec == Init /\ [][Next]_vars

-----------------------------------------------------------------------------
TypeOK ==
    /\ tx \in [Procs -> Txs \cup {NoTx}]
    /\ n \in [Procs -> 0..3]
    /\ held \in [Procs -> SUBSET Locks]
    /\ number \in [Procs -> Nat]
    /\ mine \in [Procs -> SUBSET Nat]
    /\ issued \in [PayDays -> SUBSET Nat]

(* A number that has been drawn is nobody else's, committed or not: the    *)
(* unique index is never hit, by any mix of payments and settlements.      *)
NumbersAreFresh ==
    \A p \in Procs : number[p] # 0 =>
        /\ number[p] \notin issued[tx[p].day] \cup mine[p]
        /\ \A q \in Procs \ {p} : Running(q) /\ tx[q].day = tx[p].day =>
               number[q] # number[p] /\ number[p] \notin mine[q]

(* The receipts of a day are numbered from 1 without a hole, whichever     *)
(* transactions roll back.                                                 *)
ReceiptsAreSerial == \A d \in PayDays : issued[d] = 1..Cardinality(issued[d])

(* Only the order of the early settlement, the receipt before the loan,    *)
(* can make transactions wait in a circle: whatever loans and days they    *)
(* are about, payments and late fees alone never do.                       *)
CirclesNeedASettlement ==
    \A S \in SUBSET Procs : Circle(S) => \E p \in S : tx[p].kind = "settle"

(* The comment at the locks of schedules/routes.ts: "consistent lock order *)
(* across payment endpoints", so that no transactions block one another.   *)
NoDeadlock == ~\E S \in SUBSET Procs : Circle(S)
=============================================================================
