-------------------------- MODULE PaymentApproval --------------------------
(***************************************************************************)
(* What a borrower asks for and an admin decides: manual payments, and     *)
(* early settlements, of one loan (borrower-loans/routes.ts,               *)
(* borrowerManualPaymentService.ts, borrowerEarlySettlementApproval-       *)
(* Service.ts).  Approving a request runs the payment handler under an     *)
(* idempotency key made of the request's id: this module composes the      *)
(* handlers of the requests with PaymentIdempotency, whose keys are the    *)
(* ids.  A handler reads the request, later writes its status; any other   *)
(* handler may run in between.                                             *)
(***************************************************************************)
EXTENDS FiniteSets

CONSTANTS
    Procs,      \* HTTP executions, of borrowers and of admins
    Ids,        \* requests that may come to exist
    Kind,       \* Kind[k]: a "manual" payment or an early "settlement"
    Payloads,   \* what an admin may add to an approval (waiver, note, date)
    NoOne,
    AckLoss     \* see PaymentIdempotency

ASSUME ApprovalAssumption ==
    Kind \in [Ids -> {"manual", "settlement"}] /\ NoOne \notin Procs /\ AckLoss \subseteq Ids

VARIABLES
    row, call, pc, from, paid,  \* of PaymentIdempotency
    request,    \* Ids -> the Borrower...Request row
    review      \* Procs -> the handler an execution is in

payVars == <<row, call, pc, from, paid>>
vars    == <<payVars, request, review>>

Pay == INSTANCE PaymentIdempotency WITH Requests <- Procs, Keys <- Ids

-----------------------------------------------------------------------------
(* payment: paymentTransactionId, named by the execution that booked it.   *)
Requests == [status : {"NONE", "PENDING", "APPROVED", "REJECTED"}, payment : Procs \cup {NoOne}]

Reviews == {"idle", "submit", "approve", "reject", "done"}

(* An execution is about one request; a manual payment is approved as it   *)
(* was submitted, so all its approvals carry one payload.                  *)
Init ==
    /\ Pay!Init
    /\ \A p, q \in Procs :
          Pay!Key(p) = Pay!Key(q) /\ Kind[Pay!Key(p)] = "manual" => Pay!Payload(p) = Pay!Payload(q)
    /\ request = [k \in Ids |-> [status |-> "NONE", payment |-> NoOne]]
    /\ review = [p \in Procs |-> "idle"]

Request(p) == request[Pay!Key(p)]

Goto(p, l) == review' = [review EXCEPT ![p] = l]

SetStatus(k, status) == request' = [request EXCEPT ![k].status = status]

(* A booked settlement has completed the loan.                             *)
LoanOpen == \A k \in Ids : Kind[k] = "settlement" => paid[k] = {}

Pending(kind) == {k \in Ids : Kind[k] = kind /\ request[k].status = "PENDING"}

-----------------------------------------------------------------------------
(* The borrower's endpoints: the loan must be open, and no settlement      *)
(* request of it pending; the request is created by a later statement.     *)
SubmitRead(p) ==
    /\ review[p] = "idle"
    /\ LoanOpen
    /\ Kind[Pay!Key(p)] = "settlement" => Pending("settlement") = {}
    /\ Goto(p, "submit")
    /\ UNCHANGED <<payVars, request>>

SubmitWrite(p) ==
    /\ review[p] = "submit"
    /\ \E k \in Ids :
          /\ Kind[k] = Kind[Pay!Key(p)] /\ request[k].status = "NONE"
          /\ SetStatus(k, "PENDING")
    /\ Goto(p, "done")
    /\ UNCHANGED payVars

-----------------------------------------------------------------------------
(* Approval: a pending request is handed to the payment handler.           *)
ApproveRead(p) ==
    /\ review[p] = "idle"
    /\ Request(p).status = "PENDING"
    /\ Pay!Receive(p)
    /\ Goto(p, "approve")
    /\ UNCHANGED request

(* The handler's own steps; its transaction refuses a completed loan.      *)
Handle(p) ==
    /\ review[p] = "approve"
    /\ \/ Pay!Reserve(p) \/ Pay!Lookup(p) \/ Pay!Reclaim(p) \/ Pay!Recheck(p)
       \/ LoanOpen /\ Pay!Commit(p)
       \/ LoanOpen /\ Pay!CommitUnacknowledged(p)
       \/ Pay!Abort(p) \/ Pay!Finish(p) \/ Pay!Fail(p)
    /\ UNCHANGED <<request, review>>

(* Mutant: the link is the caller's own payment, not the one answered.     *)
Approved_Own(p) == [status |-> "APPROVED", payment |-> p]

Approved(p) == [status |-> "APPROVED", payment |-> from[p]]

(* Mutant: the manual payment's UPDATE has no status condition either.     *)
ApproveWrite_Unguarded(p) ==
    /\ review[p] = "approve" /\ pc[p] = "ok"
    /\ request' = [request EXCEPT ![Pay!Key(p)] = Approved(p)]
    /\ Goto(p, "done")
    /\ UNCHANGED payVars

(* The status is written once the handler has answered with a transaction; *)
(* of a manual payment, only if the request is still pending.              *)
ApproveWrite(p) ==
    /\ review[p] = "approve" /\ pc[p] = "ok"
    /\ IF Kind[Pay!Key(p)] = "manual" /\ Request(p).status # "PENDING"
         THEN UNCHANGED request
         ELSE request' = [request EXCEPT ![Pay!Key(p)] = Approved(p)]
    /\ Goto(p, "done")
    /\ UNCHANGED payVars

RejectRead(p) ==
    /\ review[p] = "idle"
    /\ Request(p).status = "PENDING"
    /\ Goto(p, "reject")
    /\ UNCHANGED <<payVars, request>>

(* Mutant: a status of its own for what the admin turned down.             *)
RejectWrite_Cancels(p) ==
    /\ review[p] = "reject"
    /\ SetStatus(Pay!Key(p), "CANCELLED")
    /\ Goto(p, "done")
    /\ UNCHANGED payVars

(* Written whatever the request has become.                                *)
RejectWrite(p) ==
    /\ review[p] = "reject"
    /\ SetStatus(Pay!Key(p), "REJECTED")
    /\ Goto(p, "done")
    /\ UNCHANGED payVars

-----------------------------------------------------------------------------
(* The server dies, in the payment handler or around it.                   *)
Crash(p) ==
    \/ review[p] = "approve" /\ Pay!Drop(p) /\ UNCHANGED <<request, review>>
    \/ /\ \/ review[p] \in {"submit", "reject"}
          \/ review[p] = "approve" /\ pc[p] = "ok"
       /\ Goto(p, "done")
       /\ UNCHANGED <<payVars, request>>

Next ==
    \E p \in Procs :
        \/ SubmitRead(p) \/ SubmitWrite(p)
        \/ ApproveRead(p) \/ Handle(p) \/ ApproveWrite(p)
        \/ RejectRead(p) \/ RejectWrite(p)
        \/ Crash(p)

Spec == Init /\ [][Next]_vars

-----------------------------------------------------------------------------
TypeOK ==
    /\ Pay!TypeOK
    /\ request \in [Ids -> Requests]
    /\ review \in [Procs -> Reviews]

(* An approved request names a payment booked for it, and but for a lost   *)
(* acknowledgement that is the only one: through double clicks, retries    *)
(* after a crash and replays, and whatever is decided about it meanwhile.  *)
ApprovedNamesItsPayment ==
    \A k \in Ids : request[k].status = "APPROVED" =>
        /\ request[k].payment \in paid[k]
        /\ k \in AckLoss \/ paid[k] = {request[k].payment}

(* The link from a request to its payment, once made, never changes.       *)
LinksKept == \A k \in Ids : request[k].payment # NoOne => request'[k].payment = request[k].payment

(* An approval that comes too late does not undo the rejection of a manual *)
(* payment.                                                                *)
RejectionsKept ==
    \A k \in Ids : Kind[k] = "manual" /\ request[k].status = "REJECTED" => request'[k].status = "REJECTED"

(* What has been decided stands, whatever else is under way: the links to  *)
(* payments and the rejections of manual payments.                         *)
DecisionsStand == [][LinksKept /\ RejectionsKept]_vars
=============================================================================
