---------------------- MODULE PaymentIdempotencyProofs ----------------------
(***************************************************************************)
(* The safety of the idempotency protocol for any number of requests, keys *)
(* and payloads.  IInv holds whether or not an acknowledgement can get     *)
(* lost; AInv has the at-most-once promise of the keys where none is.      *)
(***************************************************************************)
EXTENDS PaymentIdempotency, TLAPS

Working == {"business", "finish", "fail"}

(* A worker owns its key: the row is PROCESSING for the worker's payload,  *)
(* and nobody else works under the key.                                    *)
WorkerOwnsRow ==
    \A r \in Requests : pc[r] \in Working =>
        row[Key(r)].status = "PROCESSING" /\ row[Key(r)].payload = Payload(r)

OneWorker ==
    \A r, s \in Requests :
        pc[r] \in Working /\ pc[s] \in Working /\ Key(r) = Key(s) => r = s

(* A request past its first read found a row, and past the hash comparison *)
(* one with its own payload.                                               *)
ReaderSawRow ==
    \A r \in Requests :
        /\ pc[r] \in {"lookup", "reclaim", "recheck"} => row[Key(r)].status # "NONE"
        /\ pc[r] \in {"reclaim", "recheck"} => row[Key(r)].payload = Payload(r)

(* What is booked was booked for the row's payload; a finishing request is *)
(* booked; a stored response is.                                           *)
BookedMatchesRow ==
    \A k \in Keys : \A p \in paid[k] :
        row[k].status # "NONE" /\ Payload(p) = row[k].payload

FinisherBooked == \A r \in Requests : pc[r] = "finish" => r \in paid[Key(r)]

StoredIsBooked == \A k \in Keys : row[k].status = "COMPLETED" => row[k].response \in paid[k]

IInv == /\ TypeOK /\ WorkerOwnsRow /\ OneWorker /\ ReaderSawRow
        /\ BookedMatchesRow /\ FinisherBooked /\ StoredIsBooked
        /\ AnswersTheBookedPayment

(* With every acknowledgement delivered, a worker that has not committed,  *)
(* or has failed, has booked nothing.                                      *)
UnfinishedUnbooked ==
    \A r \in Requests :
        pc[r] \in {"business", "fail"} /\ Key(r) \in Acknowledged => paid[Key(r)] = {}

AInv == IInv /\ UnfinishedUnbooked /\ BookedIsNeverRetried /\ AtMostOnePayment

-----------------------------------------------------------------------------
LEMMA InitIInv == Init => IInv
  BY NoOneAssumption
     DEF Init, IInv, TypeOK, WorkerOwnsRow, OneWorker, ReaderSawRow, BookedMatchesRow,
         FinisherBooked, StoredIsBooked, AnswersTheBookedPayment, Working, Rows, RowStatus

(* A written row is well typed.                                            *)
LEMMA WriteType ==
  ASSUME TypeOK, NEW k \in Keys, NEW status \in RowStatus, NEW payload \in Payloads,
         NEW response \in Requests \cup {NoOne}, Write(k, status, payload, response)
  PROVE  row' \in [Keys -> Rows]
  BY DEF TypeOK, Write, Rows

LEMMA NextIInv == IInv /\ [Next]_vars => IInv'
  <1> SUFFICES ASSUME IInv, [Next]_vars PROVE IInv'
    OBVIOUS
  <1> USE DEF IInv, TypeOK, Calls, Key, Payload, Goto, Working
  <1>1. ASSUME NEW r \in Requests, Receive(r) PROVE IInv'
    <2>1. TypeOK'
      BY <1>1 DEF Receive, Rows, RowStatus, Pending, Answers
    <2>2. WorkerOwnsRow'
      BY <1>1 DEF Receive, WorkerOwnsRow, OneWorker, ReaderSawRow
    <2>3. OneWorker'
      BY <1>1 DEF Receive, OneWorker, WorkerOwnsRow
    <2>4. ReaderSawRow'
      BY <1>1 DEF Receive, ReaderSawRow, WorkerOwnsRow
    <2>5. BookedMatchesRow'
      BY <1>1 DEF Receive, BookedMatchesRow, WorkerOwnsRow
    <2>6. FinisherBooked'
      BY <1>1 DEF Receive, FinisherBooked
    <2>7. StoredIsBooked'
      BY <1>1 DEF Receive, StoredIsBooked, FinisherBooked
    <2>8. AnswersTheBookedPayment'
      BY <1>1 DEF Receive, AnswersTheBookedPayment, StoredIsBooked, FinisherBooked,
             BookedMatchesRow, Rows
    <2> QED BY <2>1, <2>2, <2>3, <2>4, <2>5, <2>6, <2>7, <2>8
  <1>2. ASSUME NEW r \in Requests, Drop(r) PROVE IInv'
    <2>1. TypeOK'
      BY <1>2 DEF Drop, Rows, RowStatus, Pending, Answers
    <2>2. WorkerOwnsRow'
      BY <1>2 DEF Drop, Pending, WorkerOwnsRow, OneWorker, ReaderSawRow
    <2>3. OneWorker'
      BY <1>2 DEF Drop, Pending, OneWorker, WorkerOwnsRow
    <2>4. ReaderSawRow'
      BY <1>2 DEF Drop, Pending, ReaderSawRow, WorkerOwnsRow
    <2>5. BookedMatchesRow'
      BY <1>2 DEF Drop, Pending, BookedMatchesRow, WorkerOwnsRow
    <2>6. FinisherBooked'
      BY <1>2 DEF Drop, Pending, FinisherBooked
    <2>7. StoredIsBooked'
      BY <1>2 DEF Drop, Pending, StoredIsBooked, FinisherBooked
    <2>8. AnswersTheBookedPayment'
      BY <1>2 DEF Drop, Pending, AnswersTheBookedPayment, StoredIsBooked,
             FinisherBooked, BookedMatchesRow, Rows
    <2> QED BY <2>1, <2>2, <2>3, <2>4, <2>5, <2>6, <2>7, <2>8
  <1>3. ASSUME NEW r \in Requests, Reserve(r) PROVE IInv'
    <2>1. CASE row[Key(r)].status = "NONE"
      <3>1. TypeOK'
        <4>1. Payload(r) \in Payloads /\ row[Key(r)].payload \in Payloads
          BY DEF Rows
        <4>2. row' \in [Keys -> Rows]
          BY <1>3, <2>1, <4>1, WriteType DEF Reserve, RowStatus
        <4> QED BY <1>3, <2>1, <4>2 DEF Reserve, Pending, Answers
      <3>2. WorkerOwnsRow'
        BY <1>3, <2>1 DEF Reserve, Write, WorkerOwnsRow, OneWorker, ReaderSawRow
      <3>3. OneWorker'
        BY <1>3, <2>1 DEF Reserve, Write, OneWorker, WorkerOwnsRow
      <3>4. ReaderSawRow'
        BY <1>3, <2>1 DEF Reserve, Write, ReaderSawRow, WorkerOwnsRow
      <3>5. BookedMatchesRow'
        BY <1>3, <2>1 DEF Reserve, Write, BookedMatchesRow, WorkerOwnsRow
      <3>6. FinisherBooked'
        BY <1>3, <2>1 DEF Reserve, Write, FinisherBooked
      <3>7. StoredIsBooked'
        BY <1>3, <2>1 DEF Reserve, Write, StoredIsBooked, FinisherBooked
      <3>8. AnswersTheBookedPayment'
        BY <1>3, <2>1 DEF Reserve, Write, AnswersTheBookedPayment, StoredIsBooked,
               FinisherBooked, BookedMatchesRow, Rows
      <3> QED BY <3>1, <3>2, <3>3, <3>4, <3>5, <3>6, <3>7, <3>8
    <2>2. CASE row[Key(r)].status # "NONE"
      <3>1. TypeOK'
        BY <1>3, <2>2 DEF Reserve, Rows, RowStatus, Pending, Answers
      <3>2. WorkerOwnsRow'
        BY <1>3, <2>2 DEF Reserve, WorkerOwnsRow, OneWorker, ReaderSawRow
      <3>3. OneWorker'
        BY <1>3, <2>2 DEF Reserve, OneWorker, WorkerOwnsRow
      <3>4. ReaderSawRow'
        BY <1>3, <2>2 DEF Reserve, ReaderSawRow, WorkerOwnsRow
      <3>5. BookedMatchesRow'
        BY <1>3, <2>2 DEF Reserve, BookedMatchesRow, WorkerOwnsRow
      <3>6. FinisherBooked'
        BY <1>3, <2>2 DEF Reserve, FinisherBooked
      <3>7. StoredIsBooked'
        BY <1>3, <2>2 DEF Reserve, StoredIsBooked, FinisherBooked
      <3>8. AnswersTheBookedPayment'
        BY <1>3, <2>2 DEF Reserve, AnswersTheBookedPayment, StoredIsBooked,
               FinisherBooked, BookedMatchesRow, Rows
      <3> QED BY <3>1, <3>2, <3>3, <3>4, <3>5, <3>6, <3>7, <3>8
    <2> QED BY <2>1, <2>2
  <1>4. ASSUME NEW r \in Requests, Lookup(r) PROVE IInv'
    <2>1. TypeOK'
      BY <1>4 DEF Lookup, Answer, Succeed, Rows, RowStatus, Pending, Answers
    <2>2. WorkerOwnsRow'
      BY <1>4 DEF Lookup, Answer, Succeed, WorkerOwnsRow, OneWorker, ReaderSawRow
    <2>3. OneWorker'
      BY <1>4 DEF Lookup, Answer, Succeed, OneWorker, WorkerOwnsRow
    <2>4. ReaderSawRow'
      BY <1>4 DEF Lookup, Answer, Succeed, ReaderSawRow, WorkerOwnsRow
    <2>5. BookedMatchesRow'
      BY <1>4 DEF Lookup, Answer, Succeed, BookedMatchesRow, WorkerOwnsRow
    <2>6. FinisherBooked'
      BY <1>4 DEF Lookup, Answer, Succeed, FinisherBooked
    <2>7. StoredIsBooked'
      BY <1>4 DEF Lookup, Answer, Succeed, StoredIsBooked, FinisherBooked
    <2>8. AnswersTheBookedPayment'
      BY <1>4 DEF Lookup, Answer, Succeed, AnswersTheBookedPayment, StoredIsBooked,
             FinisherBooked, BookedMatchesRow, Rows
    <2> QED BY <2>1, <2>2, <2>3, <2>4, <2>5, <2>6, <2>7, <2>8
  <1>5. ASSUME NEW r \in Requests, Reclaim(r) PROVE IInv'
    <2>1. CASE row[Key(r)].status = "FAILED"
      <3>1. TypeOK'
        <4>1. Payload(r) \in Payloads /\ row[Key(r)].payload \in Payloads
          BY DEF Rows
        <4>2. row' \in [Keys -> Rows]
          BY <1>5, <2>1, <4>1, WriteType DEF Reclaim, RowStatus
        <4> QED BY <1>5, <2>1, <4>2 DEF Reclaim, Pending, Answers
      <3>2. WorkerOwnsRow'
        BY <1>5, <2>1 DEF Reclaim, Write, WorkerOwnsRow, OneWorker, ReaderSawRow
      <3>3. OneWorker'
        BY <1>5, <2>1 DEF Reclaim, Write, OneWorker, WorkerOwnsRow
      <3>4. ReaderSawRow'
        BY <1>5, <2>1 DEF Reclaim, Write, ReaderSawRow, WorkerOwnsRow
      <3>5. BookedMatchesRow'
        BY <1>5, <2>1 DEF Reclaim, Write, BookedMatchesRow, WorkerOwnsRow
      <3>6. FinisherBooked'
        BY <1>5, <2>1 DEF Reclaim, Write, FinisherBooked
      <3>7. StoredIsBooked'
        BY <1>5, <2>1 DEF Reclaim, Write, StoredIsBooked, FinisherBooked
      <3>8. AnswersTheBookedPayment'
        BY <1>5, <2>1 DEF Reclaim, Write, AnswersTheBookedPayment, StoredIsBooked,
               FinisherBooked, BookedMatchesRow, Rows
      <3> QED BY <3>1, <3>2, <3>3, <3>4, <3>5, <3>6, <3>7, <3>8
    <2>2. CASE row[Key(r)].status # "FAILED"
      <3>1. TypeOK'
        BY <1>5, <2>2 DEF Reclaim, Rows, RowStatus, Pending, Answers
      <3>2. WorkerOwnsRow'
        BY <1>5, <2>2 DEF Reclaim, WorkerOwnsRow, OneWorker, ReaderSawRow
      <3>3. OneWorker'
        BY <1>5, <2>2 DEF Reclaim, OneWorker, WorkerOwnsRow
      <3>4. ReaderSawRow'
        BY <1>5, <2>2 DEF Reclaim, ReaderSawRow, WorkerOwnsRow
      <3>5. BookedMatchesRow'
        BY <1>5, <2>2 DEF Reclaim, BookedMatchesRow, WorkerOwnsRow
      <3>6. FinisherBooked'
        BY <1>5, <2>2 DEF Reclaim, FinisherBooked
      <3>7. StoredIsBooked'
        BY <1>5, <2>2 DEF Reclaim, StoredIsBooked, FinisherBooked
      <3>8. AnswersTheBookedPayment'
        BY <1>5, <2>2 DEF Reclaim, AnswersTheBookedPayment, StoredIsBooked,
               FinisherBooked, BookedMatchesRow, Rows
      <3> QED BY <3>1, <3>2, <3>3, <3>4, <3>5, <3>6, <3>7, <3>8
    <2> QED BY <2>1, <2>2
  <1>6. ASSUME NEW r \in Requests, Recheck(r) PROVE IInv'
    <2>1. TypeOK'
      BY <1>6 DEF Recheck, Answer, Succeed, Rows, RowStatus, Pending, Answers
    <2>2. WorkerOwnsRow'
      BY <1>6 DEF Recheck, Answer, Succeed, WorkerOwnsRow, OneWorker, ReaderSawRow
    <2>3. OneWorker'
      BY <1>6 DEF Recheck, Answer, Succeed, OneWorker, WorkerOwnsRow
    <2>4. ReaderSawRow'
      BY <1>6 DEF Recheck, Answer, Succeed, ReaderSawRow, WorkerOwnsRow
    <2>5. BookedMatchesRow'
      BY <1>6 DEF Recheck, Answer, Succeed, BookedMatchesRow, WorkerOwnsRow
    <2>6. FinisherBooked'
      BY <1>6 DEF Recheck, Answer, Succeed, FinisherBooked
    <2>7. StoredIsBooked'
      BY <1>6 DEF Recheck, Answer, Succeed, StoredIsBooked, FinisherBooked
    <2>8. AnswersTheBookedPayment'
      BY <1>6 DEF Recheck, Answer, Succeed, AnswersTheBookedPayment, StoredIsBooked,
             FinisherBooked, BookedMatchesRow, Rows
    <2> QED BY <2>1, <2>2, <2>3, <2>4, <2>5, <2>6, <2>7, <2>8
  <1>7. ASSUME NEW r \in Requests, Commit(r) PROVE IInv'
    <2>1. TypeOK'
      BY <1>7 DEF Commit, Rows, RowStatus, Pending, Answers
    <2>2. WorkerOwnsRow'
      BY <1>7 DEF Commit, WorkerOwnsRow, OneWorker, ReaderSawRow
    <2>3. OneWorker'
      BY <1>7 DEF Commit, OneWorker, WorkerOwnsRow
    <2>4. ReaderSawRow'
      BY <1>7 DEF Commit, ReaderSawRow, WorkerOwnsRow
    <2>5. BookedMatchesRow'
      BY <1>7 DEF Commit, BookedMatchesRow, WorkerOwnsRow
    <2>6. FinisherBooked'
      BY <1>7 DEF Commit, FinisherBooked
    <2>7. StoredIsBooked'
      BY <1>7 DEF Commit, StoredIsBooked, FinisherBooked
    <2>8. AnswersTheBookedPayment'
      BY <1>7 DEF Commit, AnswersTheBookedPayment, StoredIsBooked, FinisherBooked,
             BookedMatchesRow, Rows
    <2> QED BY <2>1, <2>2, <2>3, <2>4, <2>5, <2>6, <2>7, <2>8
  <1>8. ASSUME NEW r \in Requests, CommitUnacknowledged(r) PROVE IInv'
    <2>1. TypeOK'
      BY <1>8 DEF CommitUnacknowledged, Rows, RowStatus, Pending, Answers
    <2>2. WorkerOwnsRow'
      BY <1>8 DEF CommitUnacknowledged, WorkerOwnsRow, OneWorker, ReaderSawRow
    <2>3. OneWorker'
      BY <1>8 DEF CommitUnacknowledged, OneWorker, WorkerOwnsRow
    <2>4. ReaderSawRow'
      BY <1>8 DEF CommitUnacknowledged, ReaderSawRow, WorkerOwnsRow
    <2>5. BookedMatchesRow'
      BY <1>8 DEF CommitUnacknowledged, BookedMatchesRow, WorkerOwnsRow
    <2>6. FinisherBooked'
      BY <1>8 DEF CommitUnacknowledged, FinisherBooked
    <2>7. StoredIsBooked'
      BY <1>8 DEF CommitUnacknowledged, StoredIsBooked, FinisherBooked
    <2>8. AnswersTheBookedPayment'
      BY <1>8 DEF CommitUnacknowledged, AnswersTheBookedPayment, StoredIsBooked,
             FinisherBooked, BookedMatchesRow, Rows
    <2> QED BY <2>1, <2>2, <2>3, <2>4, <2>5, <2>6, <2>7, <2>8
  <1>9. ASSUME NEW r \in Requests, Abort(r) PROVE IInv'
    <2>1. TypeOK'
      BY <1>9 DEF Abort, Rows, RowStatus, Pending, Answers
    <2>2. WorkerOwnsRow'
      BY <1>9 DEF Abort, WorkerOwnsRow, OneWorker, ReaderSawRow
    <2>3. OneWorker'
      BY <1>9 DEF Abort, OneWorker, WorkerOwnsRow
    <2>4. ReaderSawRow'
      BY <1>9 DEF Abort, ReaderSawRow, WorkerOwnsRow
    <2>5. BookedMatchesRow'
      BY <1>9 DEF Abort, BookedMatchesRow, WorkerOwnsRow
    <2>6. FinisherBooked'
      BY <1>9 DEF Abort, FinisherBooked
    <2>7. StoredIsBooked'
      BY <1>9 DEF Abort, StoredIsBooked, FinisherBooked
    <2>8. AnswersTheBookedPayment'
      BY <1>9 DEF Abort, AnswersTheBookedPayment, StoredIsBooked, FinisherBooked,
             BookedMatchesRow, Rows
    <2> QED BY <2>1, <2>2, <2>3, <2>4, <2>5, <2>6, <2>7, <2>8
  <1>10. ASSUME NEW r \in Requests, Finish(r) PROVE IInv'
    <2>1. TypeOK'
      BY <1>10 DEF Finish, Write, Succeed, Rows, RowStatus, Pending, Answers
    <2>2. WorkerOwnsRow'
      BY <1>10 DEF Finish, Write, Succeed, WorkerOwnsRow, OneWorker, ReaderSawRow
    <2>3. OneWorker'
      BY <1>10 DEF Finish, Write, Succeed, OneWorker, WorkerOwnsRow
    <2>4. ReaderSawRow'
      BY <1>10 DEF Finish, Write, Succeed, ReaderSawRow, WorkerOwnsRow
    <2>5. BookedMatchesRow'
      BY <1>10 DEF Finish, Write, Succeed, BookedMatchesRow, WorkerOwnsRow
    <2>6. FinisherBooked'
      BY <1>10 DEF Finish, Write, Succeed, FinisherBooked
    <2>7. StoredIsBooked'
      BY <1>10 DEF Finish, Write, Succeed, StoredIsBooked, FinisherBooked
    <2>8. AnswersTheBookedPayment'
      BY <1>10 DEF Finish, Write, Succeed, AnswersTheBookedPayment, StoredIsBooked,
             FinisherBooked, BookedMatchesRow, Rows
    <2> QED BY <2>1, <2>2, <2>3, <2>4, <2>5, <2>6, <2>7, <2>8
  <1>11. ASSUME NEW r \in Requests, Fail(r) PROVE IInv'
    <2>1. TypeOK'
      BY <1>11 DEF Fail, Write, Rows, RowStatus, Pending, Answers
    <2>2. WorkerOwnsRow'
      BY <1>11 DEF Fail, Write, WorkerOwnsRow, OneWorker, ReaderSawRow
    <2>3. OneWorker'
      BY <1>11 DEF Fail, Write, OneWorker, WorkerOwnsRow
    <2>4. ReaderSawRow'
      BY <1>11 DEF Fail, Write, ReaderSawRow, WorkerOwnsRow
    <2>5. BookedMatchesRow'
      BY <1>11 DEF Fail, Write, BookedMatchesRow, WorkerOwnsRow
    <2>6. FinisherBooked'
      BY <1>11 DEF Fail, Write, FinisherBooked
    <2>7. StoredIsBooked'
      BY <1>11 DEF Fail, Write, StoredIsBooked, FinisherBooked
    <2>8. AnswersTheBookedPayment'
      BY <1>11 DEF Fail, Write, AnswersTheBookedPayment, StoredIsBooked, FinisherBooked,
             BookedMatchesRow, Rows
    <2> QED BY <2>1, <2>2, <2>3, <2>4, <2>5, <2>6, <2>7, <2>8
  <1>12. CASE UNCHANGED vars
    BY <1>12 DEF vars, Rows, Calls, WorkerOwnsRow, OneWorker, ReaderSawRow,
           BookedMatchesRow, FinisherBooked, StoredIsBooked, AnswersTheBookedPayment
  <1> QED
    BY <1>1, <1>2, <1>3, <1>4, <1>5, <1>6,
       <1>7, <1>8, <1>9, <1>10, <1>11, <1>12 DEF Next, Step

(* AInv adds what holds where every commit is acknowledged.                *)
LEMMA NextAInv ==
  ASSUME AInv, [Next]_vars
  PROVE  AInv'
  <1> USE DEF AInv, UnfinishedUnbooked, BookedIsNeverRetried, AtMostOnePayment, Acknowledged
  <1>1. IInv'
    BY NextIInv
  <1> USE DEF IInv, TypeOK, Calls, Key, Payload, Goto, Working, WorkerOwnsRow
  <1>2. CASE UNCHANGED vars
    BY <1>1, <1>2 DEF vars
  <1>3. ASSUME NEW r \in Requests, Receive(r) PROVE AInv'
    BY <1>1, <1>3 DEF Receive
  <1>4. ASSUME NEW r \in Requests, Drop(r) PROVE AInv'
    BY <1>1, <1>4 DEF Drop
  <1>5. ASSUME NEW r \in Requests, Reserve(r) PROVE AInv'
    <2>1. UnfinishedUnbooked'
      BY <1>5 DEF Reserve, BookedMatchesRow
    <2>2. BookedIsNeverRetried'
      BY <1>5 DEF Reserve, Write, Rows
    <2> QED BY <1>1, <1>5, <2>1, <2>2 DEF Reserve
  <1>6. ASSUME NEW r \in Requests, Lookup(r) \/ Recheck(r) PROVE AInv'
    BY <1>1, <1>6 DEF Lookup, Recheck, Answer, Succeed
  <1>7. ASSUME NEW r \in Requests, Reclaim(r) PROVE AInv'
    <2>1. UnfinishedUnbooked'
      BY <1>7 DEF Reclaim
    <2>2. BookedIsNeverRetried'
      BY <1>7 DEF Reclaim, Write, Rows
    <2> QED BY <1>1, <1>7, <2>1, <2>2 DEF Reclaim
  <1>8. ASSUME NEW r \in Requests, Commit(r) PROVE AInv'
    <2>1. UnfinishedUnbooked'
      BY <1>8 DEF Commit, OneWorker
    <2>2. BookedIsNeverRetried' /\ AtMostOnePayment'
      BY <1>8 DEF Commit
    <2> QED BY <1>1, <2>1, <2>2
  <1>9. ASSUME NEW r \in Requests, Abort(r) PROVE AInv'
    BY <1>1, <1>9 DEF Abort
  <1>10. ASSUME NEW r \in Requests, Finish(r) PROVE AInv'
    <2>1. UnfinishedUnbooked'
      BY <1>10 DEF Finish, Succeed
    <2>2. BookedIsNeverRetried'
      BY <1>10 DEF Finish, Write, Rows
    <2> QED BY <1>1, <1>10, <2>1, <2>2 DEF Finish
  <1>11. ASSUME NEW r \in Requests, Fail(r) PROVE AInv'
    <2>1. UnfinishedUnbooked'
      BY <1>11 DEF Fail
    <2>2. BookedIsNeverRetried'
      BY <1>11 DEF Fail, Write, Rows
    <2> QED BY <1>1, <1>11, <2>1, <2>2 DEF Fail
  <1>12. ASSUME NEW r \in Requests, CommitUnacknowledged(r) PROVE AInv'
    <2>1. UnfinishedUnbooked'
      BY <1>12 DEF CommitUnacknowledged
    <2>2. BookedIsNeverRetried' /\ AtMostOnePayment'
      BY <1>12 DEF CommitUnacknowledged
    <2> QED BY <1>1, <2>1, <2>2
  <1> QED
    BY <1>2, <1>3, <1>4, <1>5, <1>6, <1>7, <1>8, <1>9, <1>10, <1>11, <1>12
       DEF Next, Step

-----------------------------------------------------------------------------
(* Types, and the correctness of every success answer, with or without     *)
(* lost acknowledgements.                                                  *)
THEOREM Safety == Spec => [](TypeOK /\ AnswersTheBookedPayment)
  <1>1. IInv => TypeOK /\ AnswersTheBookedPayment
    BY DEF IInv
  <1> QED
    BY InitIInv, NextIInv, <1>1, PTL DEF Spec

(* The protocol stays within its states, acknowledgements lost or not.     *)
THEOREM ProtocolTyped == Spec => []TypeOK
  BY Safety, PTL

(* One acknowledged key, one payment: no retry or crash books a second one.*)
THEOREM OnePaymentPerKey == Spec => [](AtMostOnePayment /\ BookedIsNeverRetried)
  <1>1. Init => AInv
    BY InitIInv DEF AInv, Init, UnfinishedUnbooked, BookedIsNeverRetried, AtMostOnePayment, Acknowledged
  <1>2. AInv /\ [Next]_vars => AInv'
    BY NextAInv
  <1>3. AInv => AtMostOnePayment /\ BookedIsNeverRetried
    BY DEF AInv
  <1> QED
    BY <1>1, <1>2, <1>3, PTL DEF Spec

(* Where acknowledgements arrive, no row offers a retry of what is booked. *)
THEOREM BookedNotRetried == Spec => []BookedIsNeverRetried
  BY OnePaymentPerKey, PTL

(* A completed row is never written again.                                 *)
LEMMA CompletedKept ==
  ASSUME IInv, [Next]_vars
  PROVE  \A k \in Keys : row[k].status = "COMPLETED" => row'[k] = row[k]
  <1> DEFINE Kept == \A k \in Keys : row[k].status = "COMPLETED" => row'[k] = row[k]
  <1> SUFFICES ASSUME Next PROVE Kept
    BY DEF vars
  <1> USE DEF IInv, TypeOK, Key, Calls, WorkerOwnsRow, Working
  <1>1. ASSUME NEW r \in Requests, Step(r), row' # row
        PROVE  /\ row[Key(r)].status # "COMPLETED"
               /\ \A k \in Keys : k # Key(r) => row'[k] = row[k]
    BY <1>1 DEF Step, Reserve, Lookup, Reclaim, Recheck, Commit, Abort,
                CommitUnacknowledged, Finish, Fail, Write
  <1>2. ASSUME NEW r \in Requests, Receive(r) \/ Drop(r) PROVE row' = row
    BY <1>2 DEF Receive, Drop
  <1> QED
    BY <1>1, <1>2 DEF Next

(* A success answer is the stored response, and stays it.                  *)
OkIsStored ==
    \A r \in Requests : pc[r] = "ok" =>
        row[Key(r)].status = "COMPLETED" /\ row[Key(r)].response = from[r]

LEMMA OkStays == ASSUME IInv, OkIsStored, [Next]_vars PROVE OkIsStored'
  <1>1. \A k \in Keys : row[k].status = "COMPLETED" => row'[k] = row[k]
    BY CompletedKept
  <1> USE DEF IInv, TypeOK, Key, Calls, Goto
  <1>2. call' = call
    BY DEF Next, vars, Receive, Drop, Step, Reserve, Lookup, Reclaim, Recheck, Commit, Abort,
           CommitUnacknowledged, Finish, Fail, Answer, Succeed
  <1>3. ASSUME NEW r \in Requests, pc'[r] = "ok", pc[r] = "ok", from'[r] = from[r]
        PROVE  row'[Key(r)].status = "COMPLETED" /\ row'[Key(r)].response = from'[r]
    BY <1>1, <1>3 DEF OkIsStored
  <1>4. ASSUME NEW r \in Requests, pc'[r] = "ok", ~(pc[r] = "ok" /\ from'[r] = from[r])
        PROVE  row'[Key(r)].status = "COMPLETED" /\ row'[Key(r)].response = from'[r]
    <2>1. Lookup(r) \/ Recheck(r) \/ Finish(r)
      <3>1. PICK s \in Requests : Receive(s) \/ Step(s) \/ Drop(s)
        BY <1>4 DEF Next, vars
      <3>2. CASE Lookup(s) \/ Recheck(s) \/ Finish(s)
        <4>1. s = r
          BY <1>4, <3>2 DEF Lookup, Recheck, Finish, Answer, Succeed
        <4> QED
          BY <3>2, <4>1
      <3>3. CASE Receive(s) \/ Drop(s) \/ Reserve(s) \/ Reclaim(s)
        BY <1>4, <3>3 DEF Receive, Drop, Reserve, Reclaim
      <3>4. CASE Commit(s) \/ Abort(s) \/ CommitUnacknowledged(s) \/ Fail(s)
        BY <1>4, <3>4 DEF Commit, Abort, CommitUnacknowledged, Fail
      <3> QED
        BY <3>1, <3>2, <3>3, <3>4 DEF Step
    <2>2. CASE Lookup(r) \/ Recheck(r)
      BY <1>1, <1>4, <2>2 DEF Lookup, Recheck, Answer, Succeed
    <2>3. CASE Finish(r)
      BY <1>4, <2>3 DEF Finish, Write, Succeed
    <2> QED
      BY <2>1, <2>2, <2>3
  <1> QED
    BY <1>2, <1>3, <1>4 DEF OkIsStored

(* The response a client may be replayed never changes.                    *)
THEOREM StoredResponseFinal == Spec => ResponseIsFinal
  <1>1. IInv /\ [Next]_vars => [\A k \in Keys : row[k].status = "COMPLETED" => row'[k] = row[k]]_vars
    BY CompletedKept
  <1> QED
    BY InitIInv, NextIInv, <1>1, PTL DEF Spec, ResponseIsFinal

-----------------------------------------------------------------------------
LEMMA ContractStep ==
  ASSUME NEW k \in Acknowledged, NEW r \in Requests, Once!Tell(k) \/ Once!Book(k, r)
  PROVE  Once!Next
  BY DEF Once!Next

(* The step simulation: committing books, a success answer tells, and no   *)
(* other step, nor any under a key that is not acknowledged, is visible to *)
(* the contract.                                                           *)
LEMMA StepRefines ==
  ASSUME AInv, AInv', [Next]_vars
  PROVE  [Once!Next]_(Once!vars)
  <1> DEFINE booked == [k \in Acknowledged |-> BookedBy(paid[k])]
             told   == {<<Key(r), from[r]>> : r \in {s \in Requests : pc[s] = "ok" /\ Key(s) \in Acknowledged}}
  <1> USE DEF AInv, IInv, TypeOK, Calls, Key, Goto, Acknowledged
  <1>a. ASSUME NEW k \in Acknowledged, NEW p \in paid[k] PROVE booked[k] = p /\ p # NoOne
    <2>1. BookedBy(paid[k]) \in paid[k]
      BY DEF BookedBy
    <2>2. p \in Requests
      OBVIOUS
    <2> QED BY <2>1, <2>2, NoOneAssumption DEF AtMostOnePayment
  <1>b. ASSUME NEW r \in Requests, Key(r) \in Acknowledged, Succeed(r, row[Key(r)].response) \/ Succeed(r, r), paid' = paid,
               pc[r] # "ok", NEW p \in paid[Key(r)], from'[r] = p
        PROVE  Once!Tell(Key(r))
    <2>1. booked' = booked
      BY <1>b
    <2>2. told' = told \cup {<<Key(r), p>>}
      BY <1>b DEF Succeed
    <2>3. booked[Key(r)] = p /\ booked[Key(r)] # NoOne
      BY <1>a, <1>b
    <2> QED BY <2>1, <2>2, <2>3 DEF Once!Tell
  <1>c. ASSUME NEW r \in Requests, NEW l, l # "ok", pc[r] # "ok", Goto(r, l), paid' = paid
        PROVE  UNCHANGED Once!vars
    <2>1. booked' = booked
      BY <1>c
    <2>2. told' = told
      BY <1>c
    <2> QED BY <2>1, <2>2 DEF Once!vars
  <1>d. ASSUME NEW r \in Requests, Receive(r) \/ Step(r) \/ Drop(r), Key(r) \notin Acknowledged
        PROVE  UNCHANGED Once!vars
    <2>1. /\ call' = call /\ paid' \in [Keys -> SUBSET Requests]
          /\ \A k \in Acknowledged : paid'[k] = paid[k]
          /\ \A s \in Requests : s # r => pc'[s] = pc[s] /\ from'[s] = from[s]
      <3>1. CASE Receive(r) \/ Drop(r) \/ Reserve(r) \/ Reclaim(r) \/ Abort(r) \/ Fail(r)
        BY <3>1 DEF Receive, Drop, Reserve, Reclaim, Abort, Fail
      <3>2. CASE Lookup(r) \/ Recheck(r) \/ Finish(r)
        BY <3>2 DEF Lookup, Recheck, Finish, Answer, Succeed
      <3>3. CASE Commit(r) \/ CommitUnacknowledged(r)
        BY <1>d, <3>3 DEF Commit, CommitUnacknowledged
      <3> QED
        BY <1>d, <3>1, <3>2, <3>3 DEF Step
    <2>2. booked' = booked
      BY <2>1
    <2>3. told' = told
      BY <1>d, <2>1
    <2> QED BY <2>2, <2>3 DEF Once!vars
  <1>1. CASE UNCHANGED vars
    BY <1>1 DEF vars, Once!vars
  <1>2. ASSUME NEW r \in Requests, Receive(r) \/ Drop(r) \/ Reserve(r) \/ Reclaim(r) \/ Abort(r) \/ Fail(r)
        PROVE  UNCHANGED Once!vars
    BY <1>2, <1>c DEF Receive, Drop, Pending, Reserve, Reclaim, Abort, Fail
  <1>3. ASSUME NEW r \in Requests, Key(r) \in Acknowledged, Lookup(r) \/ Recheck(r)
        PROVE  UNCHANGED Once!vars \/ Once!Tell(Key(r))
    <2>1. CASE Succeed(r, row[Key(r)].response) /\ row[Key(r)].status = "COMPLETED"
      <3>1. row[Key(r)].response \in paid[Key(r)]
        BY <2>1 DEF StoredIsBooked
      <3>2. from'[r] = row[Key(r)].response /\ pc[r] # "ok" /\ paid' = paid
        BY <1>3, <2>1 DEF Succeed, Lookup, Recheck
      <3> QED BY <2>1, <3>1, <3>2, <1>b, <1>3
    <2>2. CASE Goto(r, "refused") \/ Goto(r, "reclaim")
      BY <1>3, <2>2, <1>c DEF Lookup, Recheck
    <2> QED BY <1>3, <2>1, <2>2 DEF Lookup, Recheck, Answer
  <1>4. ASSUME NEW r \in Requests, Key(r) \in Acknowledged, Finish(r)
        PROVE  UNCHANGED Once!vars \/ Once!Tell(Key(r))
    <2>1. CASE Succeed(r, r)
      <3>1. r \in paid[Key(r)]
        BY <1>4 DEF Finish, FinisherBooked
      <3>2. from'[r] = r /\ pc[r] # "ok" /\ paid' = paid
        BY <1>4, <2>1 DEF Succeed, Finish
      <3> QED BY <2>1, <3>1, <3>2, <1>b, <1>4
    <2>2. CASE Goto(r, "error")
      BY <1>4, <2>2, <1>c DEF Finish
    <2> QED BY <1>4, <2>1, <2>2 DEF Finish
  <1>5. ASSUME NEW r \in Requests, Key(r) \in Acknowledged, Commit(r)
        PROVE  Once!Book(Key(r), r)
    <2>1. paid[Key(r)] = {}
      BY <1>5 DEF Commit, UnfinishedUnbooked
    <2>5. ASSUME NEW k \in Keys PROVE paid'[k] = IF k = Key(r) THEN {r} ELSE paid[k]
      BY <1>5, <2>1 DEF Commit
    <2>2. booked[Key(r)] = NoOne
      BY <1>5, <2>1 DEF BookedBy
    <2>3. booked' = [booked EXCEPT ![Key(r)] = r]
      <3>1. BookedBy({r}) = r
        BY DEF BookedBy
      <3> QED BY <2>5, <3>1
    <2>4. told' = told
      BY <1>5 DEF Commit
    <2> QED BY <2>2, <2>3, <2>4 DEF Once!Book
  <1>6. ASSUME NEW r \in Requests, Key(r) \in Acknowledged PROVE ~CommitUnacknowledged(r)
    BY <1>6 DEF CommitUnacknowledged
  <1>7. CASE \E r \in Requests : Key(r) \in Acknowledged /\ (Once!Tell(Key(r)) \/ Once!Book(Key(r), r))
    <2>1. PICK r \in Requests : Key(r) \in Acknowledged /\ (Once!Tell(Key(r)) \/ Once!Book(Key(r), r))
      BY <1>7
    <2>2. PICK k \in Acknowledged : k = Key(r)
      BY <2>1
    <2>3. Once!Tell(k) \/ Once!Book(k, r)
      BY <2>1, <2>2 DEF Once!Tell, Once!Book
    <2>4. Once!Next
      BY <2>3, ContractStep
    <2> QED BY <2>4
  <1>8. UNCHANGED vars \/ UNCHANGED Once!vars
          \/ \E r \in Requests : Key(r) \in Acknowledged /\ (Once!Tell(Key(r)) \/ Once!Book(Key(r), r))
    BY <1>d, <1>2, <1>3, <1>4, <1>5, <1>6 DEF Next, Step
  <1> QED
    BY <1>1, <1>7, <1>8

(* The endpoint keeps the contract of PaymentOnce, for acknowledged keys.  *)
THEOREM KeepsContract == Spec => ImplementsOnce
  <1>1. Init => Once!Init
    BY DEF Init, Once!Init, BookedBy, Acknowledged
  <1>2. Init => AInv
    BY InitIInv DEF AInv, Init, UnfinishedUnbooked, BookedIsNeverRetried, AtMostOnePayment, Acknowledged
  <1>3. AInv /\ [Next]_vars => AInv'
    BY NextAInv
  <1>4. AInv /\ AInv' /\ [Next]_vars => [Once!Next]_(Once!vars)
    BY StepRefines
  <1> QED
    BY <1>1, <1>2, <1>3, <1>4, PTL DEF Spec, ImplementsOnce, Once!Spec
=============================================================================
