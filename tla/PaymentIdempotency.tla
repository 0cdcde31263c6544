------------------------- MODULE PaymentIdempotency -------------------------
(***************************************************************************)
(* The idempotency protocol around every payment endpoint of backend_pro   *)
(* (lib/paymentIdempotency.ts, and the try/catch frame of the three        *)
(* handlers that use it).  A request carries a key and a payload; the row  *)
(* of the key is created, looked up, reclaimed, completed or failed by     *)
(* separate SQL statements, between which other requests run.  The         *)
(* business transaction in the middle is one atomic commit, abstracted to  *)
(* the payment it inserts; LoanServicing models what it does to the loan.  *)
(* The server may be killed between any two statements.                    *)
(***************************************************************************)
EXTENDS Naturals, FiniteSets

CONSTANTS
    Requests,   \* HTTP executions (a client retry is another request)
    Keys,       \* (tenant, endpoint, Idempotency-Key) triples
    Payloads,   \* what buildRequestHash tells apart
    NoOne,      \* no request
    AckLoss     \* the keys whose requests may lose the reply to their COMMIT

ASSUME NoOneAssumption == NoOne \notin Requests
ASSUME AckLossAssumption == AckLoss \subseteq Keys

VARIABLES
    row,     \* Keys -> the PaymentIdempotency row
    call,    \* Requests -> the key and payload the request was sent with
    pc,      \* Requests -> the await its handler is at, or its answer
    from,    \* Requests -> the request whose result it was answered
    paid     \* Keys -> the requests whose business transaction committed

vars == <<row, call, pc, from, paid>>

-----------------------------------------------------------------------------
(* status "NONE": the row does not exist.  response: the request whose     *)
(* result is stored, NoOne while the column is null.                       *)
RowStatus == {"NONE", "PROCESSING", "COMPLETED", "FAILED"}

Rows == [status : RowStatus, payload : Payloads, response : Requests \cup {NoOne}]

(* reserve..recheck are the awaits of beginPaymentIdempotency; business,   *)
(* finish and fail those of the handler; the last four are HTTP answers,   *)
(* of which dropped is the one the client never gets.                      *)
Pending == {"reserve", "lookup", "reclaim", "recheck", "business", "finish", "fail"}
Answers == {"ok", "refused", "error", "dropped"}

Calls == [key : Keys, payload : Payloads]

Init ==
    /\ row  \in [Keys -> {r \in Rows : r.status = "NONE" /\ r.response = NoOne}]
    /\ call \in [Requests -> Calls]
    /\ pc   = [r \in Requests |-> "idle"]
    /\ from = [r \in Requests |-> NoOne]
    /\ paid = [k \in Keys |-> {}]

Key(r) == call[r].key

Payload(r) == call[r].payload

Goto(r, l) == pc' = [pc EXCEPT ![r] = l] /\ UNCHANGED <<call, from>>

(* A success answer carries the result of the request p.                   *)
Succeed(r, p) ==
    /\ pc' = [pc EXCEPT ![r] = "ok"]
    /\ from' = [from EXCEPT ![r] = p]
    /\ UNCHANGED call

Write(k, status, payload, response) ==
    row' = [row EXCEPT ![k] = [status |-> status, payload |-> payload, response |-> response]]

-----------------------------------------------------------------------------
(* The request reaches the handler: its key and payload are those it was   *)
(* sent with.                                                              *)
Receive(r) ==
    /\ pc[r] = "idle"
    /\ Goto(r, "reserve")
    /\ UNCHANGED <<row, paid>>

(* Mutant: an upsert in place of the INSERT.                               *)
Reserve_Upsert(r) ==
    /\ pc[r] = "reserve"
    /\ Write(Key(r), "PROCESSING", Payload(r), NoOne)
    /\ Goto(r, "business")
    /\ UNCHANGED paid

(* INSERT of the row; the unique index sends a second one to the lookup.   *)
Reserve(r) ==
    /\ pc[r] = "reserve"
    /\ IF row[Key(r)].status = "NONE"
         THEN /\ Write(Key(r), "PROCESSING", Payload(r), NoOne)
              /\ Goto(r, "business")
         ELSE Goto(r, "lookup") /\ UNCHANGED row
    /\ UNCHANGED paid

(* Mutant: the stored hash is not compared.                                *)
Answer_AnyPayload(r, busy) ==
    LET x == row[Key(r)] IN
    \/ x.status = "COMPLETED" /\ Succeed(r, x.response)
    \/ x.status \in busy /\ Goto(r, "refused")

(* What both reads of an existing row answer, if they answer: 400 for      *)
(* another payload, the stored response for a completed row, 409 if busy.  *)
Answer(r, busy) ==
    LET x == row[Key(r)] IN
    \/ x.payload # Payload(r) /\ Goto(r, "refused")
    \/ /\ x.payload = Payload(r)
       /\ x.status = "COMPLETED"
       /\ Succeed(r, x.response)
    \/ x.payload = Payload(r) /\ x.status \in busy /\ Goto(r, "refused")

(* Mutant: a request that finds its key busy polls until it is not.        *)
Lookup_Polls(r) ==
    /\ pc[r] = "lookup"
    /\ \/ Answer(r, {})
       \/ /\ row[Key(r)].payload = Payload(r)
          /\ row[Key(r)].status = "FAILED"
          /\ Goto(r, "reclaim")
    /\ UNCHANGED <<row, paid>>

Lookup(r) ==
    /\ pc[r] = "lookup"
    /\ \/ Answer(r, {"PROCESSING"})
       \/ /\ row[Key(r)].payload = Payload(r)
          /\ row[Key(r)].status = "FAILED"
          /\ Goto(r, "reclaim")
    /\ UNCHANGED <<row, paid>>

(* Mutant: the UPDATE without its status condition.                        *)
Reclaim_AnyStatus(r) ==
    /\ pc[r] = "reclaim"
    /\ Write(Key(r), "PROCESSING", row[Key(r)].payload, NoOne)
    /\ Goto(r, "business")
    /\ UNCHANGED paid

(* UPDATE ... WHERE status = 'FAILED': at most one request wins it.        *)
Reclaim(r) ==
    /\ pc[r] = "reclaim"
    /\ IF row[Key(r)].status = "FAILED"
         THEN /\ Write(Key(r), "PROCESSING", row[Key(r)].payload, NoOne)
              /\ Goto(r, "business")
         ELSE Goto(r, "recheck") /\ UNCHANGED row
    /\ UNCHANGED paid

Recheck(r) ==
    /\ pc[r] = "recheck"
    /\ Answer(r, {"PROCESSING", "FAILED"})
    /\ UNCHANGED <<row, paid>>

-----------------------------------------------------------------------------
(* The handler's prisma.$transaction: it commits, or the handler throws    *)
(* before or inside it and nothing is written.                             *)
Commit(r) ==
    /\ pc[r] = "business"
    /\ paid' = [paid EXCEPT ![Key(r)] = @ \cup {r}]
    /\ Goto(r, "finish")
    /\ UNCHANGED row

Abort(r) ==
    /\ pc[r] = "business"
    /\ Goto(r, "fail")
    /\ UNCHANGED <<row, paid>>

(* The database commits but prisma.$transaction throws: businessCommitted  *)
(* was not reached, and the catch block takes the payment for not made.    *)
CommitUnacknowledged(r) ==
    /\ Key(r) \in AckLoss
    /\ pc[r] = "business"
    /\ paid' = [paid EXCEPT ![Key(r)] = @ \cup {r}]
    /\ Goto(r, "fail")
    /\ UNCHANGED row

(* Mutant: the catch block does not look at businessCommitted.             *)
Finish_CatchFails(r) ==
    /\ pc[r] = "finish"
    /\ \/ /\ Write(Key(r), "COMPLETED", row[Key(r)].payload, r)
          /\ Succeed(r, r)
       \/ Write(Key(r), "FAILED", row[Key(r)].payload, row[Key(r)].response) /\ Goto(r, "error")
    /\ UNCHANGED paid

(* completePaymentIdempotency, after the side effects or, when one of them *)
(* throws, from the catch block: the answer differs, the write does not.   *)
Finish(r) ==
    /\ pc[r] = "finish"
    /\ Write(Key(r), "COMPLETED", row[Key(r)].payload, r)
    /\ \/ Succeed(r, r)
       \/ Goto(r, "error")
    /\ UNCHANGED paid

(* Mutant: a status no reader of the row knows.                            *)
Fail_Unknown(r) ==
    /\ pc[r] = "fail"
    /\ Write(Key(r), "ERROR", row[Key(r)].payload, row[Key(r)].response)
    /\ Goto(r, "error")
    /\ UNCHANGED paid

(* failPaymentIdempotency from the catch block.                            *)
Fail(r) ==
    /\ pc[r] = "fail"
    /\ Write(Key(r), "FAILED", row[Key(r)].payload, row[Key(r)].response)
    /\ Goto(r, "error")
    /\ UNCHANGED paid

(* The process dies, or the closing UPDATE itself fails and is swallowed.  *)
Drop(r) ==
    /\ pc[r] \in Pending
    /\ Goto(r, "dropped")
    /\ UNCHANGED <<row, paid>>

-----------------------------------------------------------------------------
Step(r) ==
    \/ Reserve(r) \/ Lookup(r) \/ Reclaim(r) \/ Recheck(r)
    \/ Commit(r) \/ Abort(r) \/ CommitUnacknowledged(r) \/ Finish(r) \/ Fail(r)

Next == \E r \in Requests : Receive(r) \/ Step(r) \/ Drop(r)

Spec == Init /\ [][Next]_vars

(* An await of a live server returns.                                      *)
FairSpec == Spec /\ \A r \in Requests : WF_vars(Step(r))

-----------------------------------------------------------------------------
TypeOK ==
    /\ row  \in [Keys -> Rows]
    /\ call \in [Requests -> Calls]
    /\ pc   \in [Requests -> {"idle"} \cup Pending \cup Answers]
    /\ from \in [Requests -> Requests \cup {NoOne}]
    /\ paid \in [Keys -> SUBSET Requests]

(* The keys under which every commit is acknowledged.  The others may be   *)
(* paid twice; whatever happens to them, these are promised more.          *)
Acknowledged == Keys \ AckLoss

(* The payment booked by a set of commits: the only one there should be.   *)
BookedBy(S) == IF S = {} THEN NoOne ELSE CHOOSE r \in S : TRUE

(* The contract of PaymentOnce, with the payment and the answers read off  *)
(* the rows and the requests.                                              *)
Once == INSTANCE PaymentOnce WITH
    Keys     <- Acknowledged,
    Payments <- Requests,
    booked   <- [k \in Acknowledged |-> BookedBy(paid[k])],
    told     <- {<<Key(r), from[r]>> : r \in {s \in Requests : pc[s] = "ok" /\ Key(s) \in Acknowledged}}

(* The protocol as a whole keeps that contract, for acknowledged keys.     *)
ImplementsOnce == Once!Spec

(* However requests with one key interleave, retry and crash, the payment  *)
(* of an acknowledged key is booked at most once.                          *)
AtMostOnePayment == \A k \in Acknowledged : \A r, s \in paid[k] : r = s

(* A success answer, replayed or not, names the payment that was booked    *)
(* under the caller's own key, for the payload the caller sent.            *)
AnswersTheBookedPayment ==
    \A r \in Requests : pc[r] = "ok" =>
        /\ from[r] \in paid[Key(r)]
        /\ Payload(from[r]) = Payload(r)

(* A row never offers a retry of what is booked: once a payment exists its *)
(* key is PROCESSING (the server died or is still answering) or COMPLETED. *)
BookedIsNeverRetried ==
    \A k \in Acknowledged : paid[k] # {} => row[k].status \in {"PROCESSING", "COMPLETED"}

(* A stored response is final.                                             *)
ResponseIsFinal ==
    [][\A k \in Keys : row[k].status = "COMPLETED" => row'[k] = row[k]]_vars

(* Every request that keeps its server gets an answer.                     *)
EveryRequestAnswered == \A r \in Requests : (pc[r] \in Pending) ~> (pc[r] \in Answers)
=============================================================================
