------------------------- MODULE PaymentLocksProofs -------------------------
(***************************************************************************)
(* For any number of connections, loans and days: receipt numbers are      *)
(* drawn fresh and leave no hole, and without early settlements no         *)
(* transactions wait in a circle.                                          *)
(***************************************************************************)
EXTENDS PaymentLocks, FiniteSetTheorems, TLAPS

(* A lock has one holder, and who runs nothing holds nothing.              *)
Exclusive == \A p, q \in Procs : p # q => held[p] \cap held[q] = {}

HeldByRunning ==
    \A p \in Procs : ~Running(p) => n[p] = 0 /\ held[p] = {} /\ number[p] = 0 /\ mine[p] = {}

HoldsPrefix(p) == Running(p) /\ ReceiptsOf(tx[p].day) \in held[p]

(* Under the prefix lock a transaction's numbers continue the committed    *)
(* ones, and the one it has drawn is the next; without it there are none.  *)
Continues(p) ==
    LET c == Cardinality(issued[tx[p].day])
        m == Cardinality(mine[p])
    IN  mine[p] = (c + 1)..(c + m) /\ number[p] \in {0, c + m + 1}

NumbersContinue ==
    \A p \in Procs :
        /\ HoldsPrefix(p) => Continues(p)
        /\ ~HoldsPrefix(p) => mine[p] = {} /\ number[p] = 0

Finite ==
    /\ \A d \in PayDays : IsFiniteSet(issued[d])
    /\ \A p \in Procs : IsFiniteSet(mine[p])

LInv == TypeOK /\ Exclusive /\ HeldByRunning /\ NumbersContinue /\ Finite /\ ReceiptsAreSerial

-----------------------------------------------------------------------------
LEMMA PlanFacts ==
  ASSUME NEW t \in Txs
  PROVE  /\ t.kind \in AllKinds /\ t.loan \in Loans /\ t.day \in PayDays
         /\ Len(Plan(t)) \in {2, 3}
         /\ \A i \in 1..Len(Plan(t)) : Plan(t)[i] \in Locks
  <1>1. t.kind \in AllKinds /\ t.loan \in Loans /\ t.day \in PayDays
    BY LocksAssumption DEF Txs
  <1>2. LoanRow(t.loan) \in Locks /\ RowsOf(t.loan) \in Locks /\ ReceiptsOf(t.day) \in Locks
    BY <1>1 DEF Locks
  <1>3. CASE t.kind = "spill"
    <2>1. Plan(t) = <<LoanRow(t.loan), RowsOf(t.loan), ReceiptsOf(t.day)>>
      BY <1>3 DEF Plan
    <2> HIDE DEF LoanRow
    <2> QED
      BY <1>1, <1>2, <2>1
  <1>4. CASE t.kind \in {"single", "lateFee"}
    <2>1. Plan(t) = <<LoanRow(t.loan), RowsOf(t.loan)>>
      BY <1>4 DEF Plan
    <2> QED
      BY <1>1, <1>2, <2>1
  <1>5. CASE t.kind = "settle"
    <2>1. Plan(t) = <<ReceiptsOf(t.day), LoanRow(t.loan)>>
      BY <1>5 DEF Plan
    <2> QED
      BY <1>1, <1>2, <2>1
  <1> QED
    BY <1>1, <1>3, <1>4, <1>5 DEF AllKinds

(* The only prefix a transaction locks is that of its own day.             *)
LEMMA PlanPrefix ==
  ASSUME NEW t \in Txs, NEW i \in 1..Len(Plan(t)), Plan(t)[i][1] = "receipts"
  PROVE  Plan(t)[i] = ReceiptsOf(t.day)
  <1>1. t.kind \in AllKinds
    BY LocksAssumption DEF Txs
  <1>2. LoanRow(t.loan)[1] = "loan" /\ RowsOf(t.loan)[1] = "rows"
    BY DEF LoanRow, RowsOf
  <1>3. CASE t.kind = "spill"
    <2>1. Plan(t) = <<LoanRow(t.loan), RowsOf(t.loan), ReceiptsOf(t.day)>>
      BY <1>3 DEF Plan
    <2> QED
      BY <1>2, <2>1
  <1>4. CASE t.kind \in {"single", "lateFee"}
    <2>1. Plan(t) = <<LoanRow(t.loan), RowsOf(t.loan)>>
      BY <1>4 DEF Plan
    <2> QED
      BY <1>2, <2>1
  <1>5. CASE t.kind = "settle"
    <2>1. Plan(t) = <<ReceiptsOf(t.day), LoanRow(t.loan)>>
      BY <1>5 DEF Plan
    <2> QED
      BY <1>2, <2>1
  <1> QED
    BY <1>1, <1>3, <1>4, <1>5 DEF AllKinds

(* What runs is a transaction.                                             *)
LEMMA RunningIsTx ==
  ASSUME NEW p \in Procs, Running(p), tx[p] \in Txs \cup {NoTx}
  PROVE  tx[p] \in Txs
  BY DEF Running, NoTx

LEMMA PrefixTag == \A d : ReceiptsOf(d)[1] = "receipts"
  BY DEF ReceiptsOf

-----------------------------------------------------------------------------
LEMMA InitLInv == Init => LInv
  <1> SUFFICES ASSUME Init PROVE LInv
    OBVIOUS
  <1> USE DEF Init
  <1>1. TypeOK
    BY DEF TypeOK
  <1>2. Exclusive /\ HeldByRunning /\ NumbersContinue
    BY DEF Exclusive, HeldByRunning, NumbersContinue, HoldsPrefix, Running, NoTx
  <1>3. Finite /\ ReceiptsAreSerial
    BY FS_EmptySet DEF Finite, ReceiptsAreSerial
  <1> QED
    BY <1>1, <1>2, <1>3 DEF LInv

(* A transaction that is rolled back, by whatever, leaves the rest alone.  *)
LEMMA RollbackKeeps ==
  ASSUME LInv, NEW p \in Procs, Rollback(p)
  PROVE  LInv'
  <1> USE DEF LInv, Rollback
  <1>1. TypeOK'
    BY DEF TypeOK
  <1>2. Exclusive'
    BY DEF TypeOK, Exclusive
  <1>3. ~Running(p)' /\ \A q \in Procs : q # p => Running(q)' = Running(q) /\ tx'[q] = tx[q]
    BY DEF TypeOK, Running, NoTx
  <1>4. HeldByRunning'
    BY <1>3 DEF TypeOK, HeldByRunning
  <1>5. NumbersContinue'
    BY <1>3 DEF TypeOK, NumbersContinue, HoldsPrefix, Continues
  <1>6. Finite' /\ ReceiptsAreSerial'
    BY FS_EmptySet DEF TypeOK, Finite, ReceiptsAreSerial
  <1> QED
    BY <1>1, <1>2, <1>4, <1>5, <1>6

LEMMA BeginKeeps ==
  ASSUME LInv, NEW p \in Procs, Begin(p)
  PROVE  LInv'
  <1> USE DEF LInv
  <1>1. PICK t \in Txs : tx' = [tx EXCEPT ![p] = t]
    BY DEF Begin
  <1>2. UNCHANGED <<n, held, number, mine, issued>> /\ ~Running(p)
    BY DEF Begin
  <1>3. TypeOK' /\ Exclusive'
    BY <1>1, <1>2 DEF TypeOK, Exclusive
  <1>4. n[p] = 0 /\ held[p] = {} /\ number[p] = 0 /\ mine[p] = {}
    BY <1>2 DEF HeldByRunning
  <1>5. \A q \in Procs : q # p => Running(q)' = Running(q) /\ tx'[q] = tx[q]
    BY <1>1 DEF TypeOK, Running
  <1>6. HeldByRunning'
    BY <1>2, <1>4, <1>5 DEF HeldByRunning
  <1>7. NumbersContinue'
    BY <1>2, <1>4, <1>5 DEF NumbersContinue, HoldsPrefix, Continues
  <1>8. Finite' /\ ReceiptsAreSerial'
    BY <1>2 DEF Finite, ReceiptsAreSerial
  <1> QED
    BY <1>3, <1>6, <1>7, <1>8

LEMMA LockKeeps ==
  ASSUME LInv, NEW p \in Procs, Lock(p)
  PROVE  LInv'
  <1> USE DEF LInv
  <1> DEFINE w == Wanted(p)
  <1>1. tx[p] \in Txs /\ n[p] \in Nat /\ n[p] < Len(Plan(tx[p]))
    <2>1. Running(p) /\ n[p] < Len(Plan(tx[p]))
      BY DEF Lock, Locking
    <2>2. tx[p] \in Txs \cup {NoTx} /\ n[p] \in 0..3
      BY DEF TypeOK
    <2> QED
      BY <2>1, <2>2, RunningIsTx
  <1>2. Len(Plan(tx[p])) \in {2, 3} /\ w \in Locks /\ n[p] + 1 \in 1..Len(Plan(tx[p])) /\ tx[p].day \in PayDays
    BY <1>1, PlanFacts DEF Wanted
  <1>3. /\ held' = [held EXCEPT ![p] = @ \cup {w}]
        /\ n' = [n EXCEPT ![p] = @ + 1]
        /\ number' = [number EXCEPT ![p] = IF w[1] = "receipts" THEN Drawn(p) ELSE @]
        /\ UNCHANGED <<tx, mine, issued>>
    BY DEF Lock
  <1>4. \A q \in Procs : q # p => w \notin held[q]
    BY DEF Lock, Blocks
  <1>5. w[1] = "receipts" => w = ReceiptsOf(tx[p].day)
    BY <1>1, <1>2, PlanPrefix DEF Wanted
  <1>6. Drawn(p) = Cardinality(issued[tx[p].day]) + Cardinality(mine[p]) + 1 /\ Drawn(p) \in Nat
        /\ Cardinality(issued[tx[p].day]) \in Nat /\ Cardinality(mine[p]) \in Nat
    BY <1>2, FS_CardinalityType DEF Finite, Drawn
  <1> HIDE DEF w
  <1>7. TypeOK'
    <2>1. held' \in [Procs -> SUBSET Locks]
      BY <1>2, <1>3 DEF TypeOK
    <2>2. n' \in [Procs -> 0..3]
      <3>1. n[p] + 1 \in 0..3
        <4>1. ASSUME NEW k \in Nat, NEW l \in {2, 3}, k < l PROVE k + 1 \in 0..3
          BY <4>1
        <4> QED
          BY <1>1, <1>2, <4>1
      <3> QED
        BY <1>3, <3>1 DEF TypeOK
    <2>3. number' \in [Procs -> Nat]
      BY <1>3, <1>6 DEF TypeOK
    <2> QED
      BY <1>3, <2>1, <2>2, <2>3 DEF TypeOK
  <1>8. Exclusive'
    BY <1>3, <1>4 DEF Exclusive, TypeOK
  <1>9. HeldByRunning'
    BY <1>1, <1>3 DEF HeldByRunning, TypeOK, Running, Lock, Locking
  <1>10. Finite' /\ ReceiptsAreSerial'
    BY <1>3 DEF Finite, ReceiptsAreSerial
  <1>11. NumbersContinue'
    <2>1. ASSUME NEW q \in Procs, q # p
          PROVE  (HoldsPrefix(q)' <=> HoldsPrefix(q)) /\ number'[q] = number[q] /\ mine'[q] = mine[q]
      BY <1>3, <2>1 DEF HoldsPrefix, Running, TypeOK
    <2>2. CASE w[1] = "receipts"
      <3>1. HoldsPrefix(p)'
        <4>1. Running(p)'
          BY <1>3 DEF Lock, Locking, Running
        <4>2. ReceiptsOf(tx[p].day) \in held'[p]
          BY <1>3, <1>5, <2>2 DEF TypeOK
        <4> QED
          BY <1>3, <4>1, <4>2 DEF HoldsPrefix
      <3>2. number'[p] = Drawn(p) /\ mine'[p] = mine[p]
        BY <1>3, <2>2 DEF TypeOK
      <3>3. mine[p] = (Cardinality(issued[tx[p].day]) + 1)..(Cardinality(issued[tx[p].day]) + Cardinality(mine[p]))
        <4>1. CASE HoldsPrefix(p)
          BY <4>1 DEF NumbersContinue, Continues
        <4>2. CASE ~HoldsPrefix(p)
          <5>1. mine[p] = {} /\ Cardinality(mine[p]) = 0
            BY <4>2, FS_EmptySet DEF NumbersContinue
          <5>2. ASSUME NEW c \in Nat PROVE (c + 1)..(c + 0) = {}
            OBVIOUS
          <5> QED
            BY <1>6, <5>1, <5>2
        <4> QED
          BY <4>1, <4>2
      <3> QED
        BY <1>3, <1>6, <2>1, <3>1, <3>2, <3>3 DEF NumbersContinue, Continues
    <2>3. CASE w[1] # "receipts"
      <3>1. HoldsPrefix(p)' <=> HoldsPrefix(p)
        BY <1>3, <2>3, PrefixTag DEF HoldsPrefix, TypeOK, Running
      <3>2. number'[p] = number[p] /\ mine'[p] = mine[p]
        BY <1>3, <2>3 DEF TypeOK
      <3> QED
        BY <1>3, <2>1, <3>1, <3>2 DEF NumbersContinue, Continues
    <2> QED
      BY <2>2, <2>3
  <1> QED
    BY <1>7, <1>8, <1>9, <1>10, <1>11

LEMMA InsertKeeps ==
  ASSUME LInv, NEW p \in Procs, Insert(p)
  PROVE  LInv'
  <1> USE DEF LInv
  <1> DEFINE d == tx[p].day
             c == Cardinality(issued[d])
             m == Cardinality(mine[p])
  <1>1. CASE number[p] \in issued[d]
    BY <1>1, RollbackKeeps DEF Insert
  <1>2. CASE number[p] \notin issued[d]
    <2>1. /\ Running(p) /\ ~Locking(p) /\ number[p] # 0
          /\ mine' = [mine EXCEPT ![p] = @ \cup {number[p]}]
          /\ number' = [number EXCEPT ![p] = 0]
          /\ n' = n \/ n' = [n EXCEPT ![p] = @ - 1]
          /\ UNCHANGED <<tx, held, issued>>
      BY <1>2 DEF Insert
    <2>2. tx[p] \in Txs /\ d \in PayDays /\ n[p] \in {2, 3}
      <3>1. tx[p] \in Txs /\ n[p] \in 0..3 /\ ~(n[p] < Len(Plan(tx[p])))
        BY <2>1, RunningIsTx DEF TypeOK, Locking
      <3>2. Len(Plan(tx[p])) \in {2, 3} /\ d \in PayDays
        BY <3>1, PlanFacts
      <3>3. ASSUME NEW k \in 0..3, NEW l \in {2, 3}, ~(k < l) PROVE k \in {2, 3}
        BY <3>3
      <3> QED
        BY <3>1, <3>2, <3>3
    <2>3. HoldsPrefix(p) /\ Continues(p)
      BY <2>1 DEF NumbersContinue
    <2>4. c \in Nat /\ m \in Nat /\ IsFiniteSet(mine[p])
      BY <2>2, FS_CardinalityType DEF Finite
    <2>5. mine[p] = (c + 1)..(c + m) /\ number[p] = c + m + 1
      BY <2>1, <2>3 DEF Continues
    <2>6. mine'[p] = mine[p] \cup {number[p]} /\ number'[p] = 0
      BY <2>1 DEF TypeOK
    <2> HIDE DEF d, c, m
    <2>7. mine'[p] = (c + 1)..(c + (m + 1))
      BY <2>4, <2>5, <2>6
    <2>8. number[p] \notin mine[p]
      BY <2>4, <2>5
    <2>9. IsFiniteSet(mine'[p]) /\ Cardinality(mine'[p]) = m + 1
      BY <2>4, <2>6, <2>8, FS_AddElement DEF m
    <2>10. TypeOK'
      <3>1. n' \in [Procs -> 0..3]
        <4>1. n[p] - 1 \in 0..3
          BY <2>2
        <4> QED
          BY <2>1, <4>1 DEF TypeOK
      <3>2. mine' \in [Procs -> SUBSET Nat] /\ number' \in [Procs -> Nat]
        BY <2>1, <2>4 DEF TypeOK
      <3> QED
        BY <2>1, <3>1, <3>2 DEF TypeOK
    <2>11. Exclusive' /\ ReceiptsAreSerial'
      BY <2>1 DEF Exclusive, ReceiptsAreSerial
    <2>12. HeldByRunning'
      BY <2>1 DEF HeldByRunning, Running, TypeOK
    <2>13. Finite'
      BY <2>1, <2>9 DEF Finite, TypeOK
    <2>14. NumbersContinue'
      <3>1. ASSUME NEW q \in Procs PROVE HoldsPrefix(q)' <=> HoldsPrefix(q)
        BY <2>1 DEF HoldsPrefix, Running
      <3>2. ASSUME NEW q \in Procs, q # p PROVE number'[q] = number[q] /\ mine'[q] = mine[q]
        BY <2>1, <3>2 DEF TypeOK
      <3>3. Continues(p)'
        BY <2>1, <2>6, <2>7, <2>9 DEF Continues, c, d
      <3> QED
        BY <2>1, <2>3, <3>1, <3>2, <3>3 DEF NumbersContinue, Continues
    <2> QED
      BY <2>10, <2>11, <2>12, <2>13, <2>14
  <1> QED
    BY <1>1, <1>2

LEMMA CommitKeeps ==
  ASSUME LInv, NEW p \in Procs, Commit(p)
  PROVE  LInv'
  <1> USE DEF LInv
  <1> DEFINE d == tx[p].day
             c == Cardinality(issued[d])
             m == Cardinality(mine[p])
  <1>1. /\ Running(p) /\ number[p] = 0
        /\ issued' = [issued EXCEPT ![d] = @ \cup mine[p]]
        /\ tx' = [tx EXCEPT ![p] = NoTx]
        /\ n' = [n EXCEPT ![p] = 0]
        /\ held' = [held EXCEPT ![p] = {}]
        /\ mine' = [mine EXCEPT ![p] = {}]
        /\ UNCHANGED number
    BY DEF Commit
  <1>2. tx[p] \in Txs /\ d \in PayDays
    BY <1>1, RunningIsTx, PlanFacts DEF TypeOK
  <1>3. c \in Nat /\ m \in Nat /\ IsFiniteSet(issued[d]) /\ IsFiniteSet(mine[p])
    BY <1>2, FS_CardinalityType DEF Finite
  <1>4. issued[d] = 1..c
    BY <1>2 DEF ReceiptsAreSerial
  <1>5. mine[p] = (c + 1)..(c + m)
    <2>1. CASE HoldsPrefix(p)
      BY <2>1 DEF NumbersContinue, Continues
    <2>2. CASE ~HoldsPrefix(p)
      <3>1. mine[p] = {} /\ m = 0
        BY <2>2, FS_EmptySet DEF NumbersContinue
      <3>2. ASSUME NEW k \in Nat PROVE (k + 1)..(k + 0) = {}
        OBVIOUS
      <3> QED
        BY <1>3, <3>1, <3>2
    <2> QED
      BY <2>1, <2>2
  <1>6. issued'[d] = issued[d] \cup mine[p] /\ \A e \in PayDays : e # d => issued'[e] = issued[e]
    BY <1>1, <1>2 DEF TypeOK
  <1> HIDE DEF c, m
  <1>7. issued'[d] = 1..(c + m)
    BY <1>3, <1>4, <1>5, <1>6
  <1>8. IsFiniteSet(issued'[d]) /\ Cardinality(issued'[d]) = c + m
    <2>1. 1 \in Int /\ c + m \in Int /\ c + m >= 0
      BY <1>3
    <2>2. IsFiniteSet(1..(c + m)) /\ Cardinality(1..(c + m)) = IF 1 > c + m THEN 0 ELSE (c + m) - 1 + 1
      BY <2>1, FS_Interval
    <2> QED
      BY <1>7, <2>1, <2>2
  <1>9. TypeOK'
    BY <1>1, <1>2 DEF TypeOK
  <1>10. Exclusive'
    BY <1>1 DEF TypeOK, Exclusive
  <1>11. ~Running(p)' /\ \A q \in Procs : q # p => Running(q)' = Running(q) /\ tx'[q] = tx[q] /\ held'[q] = held[q]
    BY <1>1 DEF TypeOK, Running, NoTx
  <1>12. HeldByRunning'
    BY <1>1, <1>11 DEF TypeOK, HeldByRunning
  <1>13. Finite'
    BY <1>1, <1>6, <1>8, FS_EmptySet DEF TypeOK, Finite
  <1>14. ReceiptsAreSerial'
    BY <1>2, <1>6, <1>7, <1>8 DEF ReceiptsAreSerial
  <1>15. NumbersContinue'
    <2>1. ASSUME NEW q \in Procs, q # p
          PROVE  (HoldsPrefix(q)' <=> HoldsPrefix(q)) /\ number'[q] = number[q] /\ mine'[q] = mine[q]
      BY <1>1, <1>11, <2>1 DEF HoldsPrefix, TypeOK
    <2>2. ASSUME NEW q \in Procs, q # p, HoldsPrefix(q) PROVE Continues(q)'
      <3>1. Continues(q) /\ tx[q] \in Txs /\ tx[q].day \in PayDays
        BY <2>2, RunningIsTx, PlanFacts DEF NumbersContinue, HoldsPrefix, TypeOK
      <3>2. CASE tx[q].day # d
        BY <1>6, <1>11, <2>1, <2>2, <3>1, <3>2 DEF Continues
      <3>3. CASE tx[q].day = d
        <4>1. ~HoldsPrefix(p)
          BY <2>2, <3>3 DEF HoldsPrefix, Exclusive
        <4>2. mine[p] = {}
          BY <4>1 DEF NumbersContinue
        <4>3. issued'[d] = issued[d]
          BY <1>6, <4>2
        <4> QED
          BY <1>11, <2>1, <2>2, <3>1, <3>3, <4>3 DEF Continues
      <3> QED
        BY <3>2, <3>3
    <2>3. mine'[p] = {} /\ number'[p] = 0 /\ ~HoldsPrefix(p)'
      BY <1>1, <1>11 DEF TypeOK, HoldsPrefix
    <2> QED
      BY <2>1, <2>2, <2>3 DEF NumbersContinue
  <1> QED
    BY <1>9, <1>10, <1>12, <1>13, <1>14, <1>15

LEMMA NextLInv == LInv /\ [Next]_vars => LInv'
  <1> SUFFICES ASSUME LInv, [Next]_vars PROVE LInv'
    OBVIOUS
  <1>1. CASE UNCHANGED vars
    BY <1>1 DEF vars, LInv, TypeOK, Exclusive, HeldByRunning, Running, NumbersContinue, HoldsPrefix,
                Continues, Finite, ReceiptsAreSerial
  <1>2. ASSUME NEW p \in Procs, Abort(p) \/ Kill(p) PROVE LInv'
    BY <1>2, RollbackKeeps DEF Abort, Kill
  <1> QED
    BY <1>1, <1>2, BeginKeeps, LockKeeps, InsertKeeps, CommitKeeps DEF Next, Work

LEMMA DrawnIsFresh == LInv => NumbersAreFresh
  <1> SUFFICES ASSUME LInv, NEW p \in Procs, number[p] # 0
               PROVE  /\ number[p] \notin issued[tx[p].day] \cup mine[p]
                      /\ \A q \in Procs \ {p} : Running(q) /\ tx[q].day = tx[p].day =>
                             number[q] # number[p] /\ number[p] \notin mine[q]
    BY DEF NumbersAreFresh
  <1> USE DEF LInv
  <1>1. HoldsPrefix(p) /\ Continues(p)
    BY DEF NumbersContinue
  <1>2. tx[p].day \in PayDays
    BY <1>1, RunningIsTx, PlanFacts DEF TypeOK, HoldsPrefix
  <1>3. number[p] \notin issued[tx[p].day] \cup mine[p]
    <2> DEFINE c == Cardinality(issued[tx[p].day])
               m == Cardinality(mine[p])
    <2>1. c \in Nat /\ m \in Nat /\ issued[tx[p].day] = 1..c /\ mine[p] = (c + 1)..(c + m) /\ number[p] = c + m + 1
      BY <1>1, <1>2, FS_CardinalityType DEF Finite, ReceiptsAreSerial, Continues
    <2> HIDE DEF c, m
    <2> QED
      BY <2>1
  <1>4. ASSUME NEW q \in Procs \ {p}, Running(q), tx[q].day = tx[p].day
        PROVE  number[q] # number[p] /\ number[p] \notin mine[q]
    <2>1. ~HoldsPrefix(q)
      BY <1>1, <1>4 DEF HoldsPrefix, Exclusive
    <2> QED
      BY <2>1 DEF NumbersContinue
  <1> QED
    BY <1>3, <1>4

(* Whatever payments and settlements run and roll back, a drawn receipt    *)
(* number is free, and the receipts of a day are numbered without a hole.  *)
THEOREM ReceiptsSafe == Spec => [](TypeOK /\ NumbersAreFresh /\ ReceiptsAreSerial)
  <1>1. LInv => TypeOK /\ NumbersAreFresh /\ ReceiptsAreSerial
    BY DrawnIsFresh DEF LInv
  <1> QED
    BY <1>1, InitLInv, NextLInv, PTL DEF Spec

(* Locks and receipts stay within their states, for any number of          *)
(* transactions.                                                           *)
THEOREM LocksTyped == Spec => []TypeOK
  BY ReceiptsSafe, PTL

(* No transaction draws the receipt number of another.                     *)
THEOREM FreshNumbers == Spec => []NumbersAreFresh
  BY ReceiptsSafe, PTL

-----------------------------------------------------------------------------
(* Loan, then installments, then prefix: the order of every transaction    *)
(* but the early settlement.                                               *)
Order(k) == CASE k[1] = "loan" -> 1 [] k[1] = "rows" -> 2 [] k[1] = "receipts" -> 3

(* A transaction that is no settlement holds only what comes before the    *)
(* lock it is about to take, unless it holds that one already (the next    *)
(* receipt of a payment).                                                  *)
HoldsBelow ==
    \A p \in Procs : Locking(p) /\ tx[p].kind # "settle" =>
        \/ Wanted(p) \in held[p] /\ n[p] + 1 = Len(Plan(tx[p]))
        \/ \A k \in held[p] : Order(k) <= n[p]

HoldsPlanned ==
    \A p \in Procs : Running(p) => held[p] \subseteq {Plan(tx[p])[i] : i \in 1..Len(Plan(tx[p]))}

OInv == LInv /\ HoldsBelow /\ HoldsPlanned

LEMMA PlanOrder ==
  ASSUME NEW t \in Txs, t.kind # "settle"
  PROVE  /\ Len(Plan(t)) = 3 <=> t.kind = "spill"
         /\ \A i \in 1..Len(Plan(t)) : Order(Plan(t)[i]) = i
  <1>1. t.kind \in AllKinds \ {"settle"}
    BY LocksAssumption DEF Txs
  <1>2. Order(LoanRow(t.loan)) = 1 /\ Order(RowsOf(t.loan)) = 2 /\ Order(ReceiptsOf(t.day)) = 3
    <2>1. LoanRow(t.loan)[1] = "loan" /\ RowsOf(t.loan)[1] = "rows" /\ ReceiptsOf(t.day)[1] = "receipts"
      BY DEF LoanRow, RowsOf, ReceiptsOf
    <2> QED
      BY <2>1 DEF Order
  <1>3. CASE t.kind = "spill"
    <2>1. Plan(t) = <<LoanRow(t.loan), RowsOf(t.loan), ReceiptsOf(t.day)>>
      BY <1>3 DEF Plan
    <2> QED
      BY <1>2, <1>3, <2>1
  <1>4. CASE t.kind \in {"single", "lateFee"}
    <2>1. Plan(t) = <<LoanRow(t.loan), RowsOf(t.loan)>>
      BY <1>4 DEF Plan
    <2> QED
      BY <1>2, <1>4, <2>1
  <1> QED
    BY <1>1, <1>3, <1>4 DEF AllKinds

(* Those of a circle each wait for a lock that comes after all they hold,  *)
(* so none holds a prefix, then none an installment, then none a loan.     *)
LEMMA OrderedNoCircle ==
  ASSUME OInv
  PROVE  CirclesNeedASettlement
  <1> SUFFICES ASSUME NEW S \in SUBSET Procs, Circle(S), \A p \in S : tx[p].kind # "settle" PROVE FALSE
    BY DEF CirclesNeedASettlement
  <1> USE DEF OInv, LInv
  <1>1. ASSUME NEW p \in S
        PROVE  /\ n[p] \in 0..2
               /\ Order(Wanted(p)) = n[p] + 1
               /\ \E q \in S : Wanted(p) \in held[q]
               /\ \A k \in held[p] : Order(k) <= n[p]
    <2>1. PICK q \in S : Blocks(q, p)
      BY <1>1 DEF Circle
    <2>2. Locking(p) /\ Wanted(p) \in held[q] /\ q # p /\ q \in Procs
      BY <2>1 DEF Blocks
    <2>3. Wanted(p) \notin held[p]
      BY <1>1, <2>2 DEF Exclusive
    <2>4. tx[p] \in Txs /\ n[p] \in 0..3 /\ n[p] < Len(Plan(tx[p]))
      BY <1>1, <2>2, RunningIsTx DEF TypeOK, Locking
    <2>5. Len(Plan(tx[p])) \in {2, 3}
      BY <2>4, PlanFacts
    <2>6. n[p] \in 0..2 /\ n[p] + 1 \in 1..Len(Plan(tx[p]))
      <3>1. ASSUME NEW k \in 0..3, NEW l \in {2, 3}, k < l PROVE k \in 0..2 /\ k + 1 \in 1..l
        BY <3>1
      <3> QED
        BY <2>4, <2>5, <3>1
    <2>7. Order(Wanted(p)) = n[p] + 1
      BY <2>4, <2>6, PlanOrder DEF Wanted
    <2> QED
      BY <1>1, <2>2, <2>3, <2>6, <2>7 DEF HoldsBelow
  <1>2. \A p \in S : n[p] # 2
    BY <1>1
  <1>3. \A p \in S : n[p] # 1
    BY <1>1, <1>2
  <1>4. \A p \in S : n[p] # 0
    BY <1>1, <1>2, <1>3
  <1>5. S # {}
    BY DEF Circle
  <1> QED
    BY <1>1, <1>2, <1>3, <1>4, <1>5

LEMMA NextOInv ==
  ASSUME OInv, [Next]_vars
  PROVE  OInv'
  <1> USE DEF OInv
  <1>0. LInv' /\ TypeOK /\ TypeOK'
    BY NextLInv DEF LInv
  <1> DEFINE Part(p) == /\ Locking(p) /\ tx[p].kind # "settle" =>
                               \/ Wanted(p) \in held[p] /\ n[p] + 1 = Len(Plan(tx[p]))
                               \/ \A k \in held[p] : Order(k) <= n[p]
                        /\ Running(p) => held[p] \subseteq {Plan(tx[p])[i] : i \in 1..Len(Plan(tx[p]))}
  <1>1. ASSUME NEW q \in Procs, tx'[q] = tx[q], n'[q] = n[q], held'[q] = held[q] PROVE Part(q)'
    BY <1>1 DEF HoldsBelow, HoldsPlanned, Locking, Running, Wanted
  <1>2. ASSUME NEW p \in Procs,
               \A q \in Procs : q # p => tx'[q] = tx[q] /\ n'[q] = n[q] /\ held'[q] = held[q],
               Part(p)'
        PROVE  OInv'
    <2>1. \A q \in Procs : Part(q)'
      BY <1>1, <1>2
    <2> QED
      BY <1>0, <2>1 DEF HoldsBelow, HoldsPlanned
  <1> HIDE DEF OInv
  <1>3. CASE UNCHANGED vars
    <2>1. \A q \in Procs : Part(q)'
      BY <1>1, <1>3 DEF vars
    <2> QED
      BY <1>0, <2>1 DEF OInv, HoldsBelow, HoldsPlanned
  <1>4. ASSUME NEW p \in Procs, Begin(p) PROVE OInv'
    <2>1. held'[p] = {} /\ \A q \in Procs : q # p => tx'[q] = tx[q] /\ n'[q] = n[q] /\ held'[q] = held[q]
      BY <1>0, <1>4 DEF Begin, TypeOK, OInv, LInv, HeldByRunning
    <2> QED
      BY <1>2, <2>1
  <1>5. ASSUME NEW p \in Procs, Rollback(p) \/ Commit(p) PROVE OInv'
    <2>1. held'[p] = {} /\ \A q \in Procs : q # p => tx'[q] = tx[q] /\ n'[q] = n[q] /\ held'[q] = held[q]
      BY <1>0, <1>5 DEF Rollback, Commit, TypeOK
    <2> QED
      BY <1>2, <2>1
  <1>6. ASSUME NEW p \in Procs, Lock(p) PROVE OInv'
    <2> DEFINE l == Len(Plan(tx[p]))
    <2>1. /\ Running(p) /\ n[p] < l /\ tx' = tx
          /\ held'[p] = held[p] \cup {Wanted(p)} /\ n'[p] = n[p] + 1
          /\ \A q \in Procs : q # p => tx'[q] = tx[q] /\ n'[q] = n[q] /\ held'[q] = held[q]
      BY <1>0, <1>6 DEF Lock, Locking, TypeOK
    <2>2. tx[p] \in Txs /\ n[p] \in 0..3
      BY <1>0, <2>1, RunningIsTx DEF TypeOK
    <2>3. l \in {2, 3}
      BY <2>2, PlanFacts
    <2>4. n[p] + 1 \in 1..l
      <3>1. ASSUME NEW k \in 0..3, NEW m \in {2, 3}, k < m PROVE k + 1 \in 1..m
        BY <3>1
      <3> QED
        BY <2>1, <2>2, <2>3, <3>1
    <2>5. /\ Wanted(p) = Plan(tx[p])[n[p] + 1]
          /\ tx[p].kind # "settle" => Order(Wanted(p)) = n[p] + 1
      BY <2>2, <2>4, PlanOrder DEF Wanted
    <2>6. Running(p)' => held'[p] \subseteq {Plan(tx'[p])[i] : i \in 1..Len(Plan(tx'[p]))}
      BY <2>1, <2>4, <2>5 DEF OInv, HoldsPlanned
    <2>7. Locking(p)' /\ tx'[p].kind # "settle" => \A k \in held'[p] : Order(k) <= n'[p]
      <3> SUFFICES ASSUME Locking(p)', tx[p].kind # "settle", NEW k \in held'[p] PROVE Order(k) <= n'[p]
        BY <2>1
      <3>1. n[p] + 1 < l
        BY <2>1 DEF Locking
      <3>2. PICK i \in 1..l : k = Plan(tx[p])[i]
        BY <2>1, <2>6 DEF Locking
      <3>3. Order(k) = i
        BY <2>2, <3>2, PlanOrder
      <3>4. CASE k = Wanted(p)
        BY <2>1, <2>2, <2>5, <3>4
      <3>5. CASE k \in held[p]
        <4>1. Order(k) <= n[p]
          BY <2>1, <3>1, <3>5 DEF OInv, HoldsBelow, Locking
        <4> QED
          BY <2>1, <2>2, <3>3, <4>1
      <3> QED
        BY <2>1, <3>4, <3>5
    <2> QED
      BY <1>2, <2>1, <2>6, <2>7
  <1>7. ASSUME NEW p \in Procs, Insert(p), ~Rollback(p) PROVE OInv'
    <2>1. /\ Running(p) /\ ~Locking(p) /\ number[p] # 0 /\ tx' = tx /\ held' = held
          /\ n' = n \/ (tx[p].kind = "spill" /\ n' = [n EXCEPT ![p] = @ - 1])
      BY <1>7 DEF Insert
    <2>2. tx[p] \in Txs /\ n[p] \in 0..3 /\ ~(n[p] < Len(Plan(tx[p])))
      BY <1>0, <2>1, RunningIsTx DEF TypeOK, Locking
    <2>3. CASE n' = n
      <3>1. \A q \in Procs : Part(q)'
        BY <1>1, <2>1, <2>3
      <3> QED
        BY <1>0, <3>1 DEF OInv, HoldsBelow, HoldsPlanned
    <2>4. CASE tx[p].kind = "spill" /\ n' = [n EXCEPT ![p] = @ - 1]
      <3>1. Plan(tx[p]) = <<LoanRow(tx[p].loan), RowsOf(tx[p].loan), ReceiptsOf(tx[p].day)>>
        BY <2>4 DEF Plan
      <3>2. Len(Plan(tx[p])) = 3 /\ Plan(tx[p])[3] = ReceiptsOf(tx[p].day)
        BY <3>1
      <3>3. n[p] = 3 /\ n'[p] = 2
        BY <1>0, <2>2, <2>4, <3>2 DEF TypeOK
      <3>4. ReceiptsOf(tx[p].day) \in held[p]
        BY <2>1 DEF OInv, LInv, NumbersContinue, HoldsPrefix
      <3>5. Part(p)'
        <4>1. Wanted(p)' = Plan(tx[p])[3]
          BY <2>1, <3>3 DEF Wanted
        <4>2. Running(p)' => held'[p] \subseteq {Plan(tx'[p])[i] : i \in 1..Len(Plan(tx'[p]))}
          BY <2>1 DEF OInv, HoldsPlanned
        <4>3. Wanted(p)' \in held'[p] /\ n'[p] + 1 = Len(Plan(tx'[p]))
          BY <2>1, <3>2, <3>3, <3>4, <4>1
        <4> QED
          BY <4>2, <4>3
      <3>6. \A q \in Procs : q # p => tx'[q] = tx[q] /\ n'[q] = n[q] /\ held'[q] = held[q]
        BY <1>0, <2>1, <2>4 DEF TypeOK
      <3> QED
        BY <1>2, <3>5, <3>6
    <2> QED
      BY <2>1, <2>3, <2>4
  <1> QED
    BY <1>3, <1>4, <1>5, <1>6, <1>7 DEF Next, Work, Abort, Kill

(* However many connections, loans and days there are, transactions that   *)
(* wait for each other in a circle have an early settlement among them.    *)
THEOREM DeadlocksNeedASettlement == Spec => []CirclesNeedASettlement
  <1>1. Init => OInv
    BY InitLInv DEF Init, OInv, HoldsBelow, HoldsPlanned, Locking, Running, NoTx
  <1>2. OInv /\ [Next]_vars => OInv'
    BY NextOInv
  <1>3. OInv => CirclesNeedASettlement
    BY OrderedNoCircle
  <1> QED
    BY <1>1, <1>2, <1>3, PTL DEF Spec
=============================================================================
