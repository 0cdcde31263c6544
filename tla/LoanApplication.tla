-------------------------- MODULE LoanApplication --------------------------
(***************************************************************************)
(* One loan application of backend_pro: the borrower's and the two review  *)
(* levels' endpoints (loans/routes.ts, borrower-applications/routes.ts)    *)
(* and the negotiation of its terms (applicationNegotiationService.ts).    *)
(*                                                                         *)
(* An endpoint reads the application, checks its status, may look at the   *)
(* offers, and then writes by id: nothing keeps other endpoints from       *)
(* running between its reads and its writes.  A transaction that ends an   *)
(* endpoint is one step; its rows are locked from their first update on.   *)
(* Audit, notifications, permissions and product rules are left out.       *)
(***************************************************************************)
EXTENDS Naturals, FiniteSets, Sequences

CONSTANTS
    Requests,   \* HTTP executions
    Terms,      \* amounts and terms of a loan
    NoTerms,
    Schedules,  \* risk-adjusted schedules: an actual rate and an actual term
    NoSchedule,
    Compliant,  \* terms and schedule -> the terms derived, or NoTerms (refused)
    MaxOffers   \* bound on the offers made

ASSUME TermsAssumption ==
    /\ NoTerms \notin Terms /\ NoSchedule \notin Schedules /\ MaxOffers \in Nat
    /\ Compliant \in [Terms \X Schedules -> Terms \cup {NoTerms}]

VARIABLES
    app,        \* the LoanApplication row
    offers,     \* its LoanApplicationOffer rows, oldest first
    loan,       \* principal and term of the Loan made of it, or NoTerms
    req,        \* Requests -> what each execution has read and will write
    (* History: what an approval of the application would have lent at any  *)
    (* time it was in the L2 queue, whether the borrower changed documents  *)
    (* since the last hand-off to L2, and whether a request wrote what it   *)
    (* had decided on rows changed since, or died between two writes.       *)
    stoodAtL2, unseenByL1, disturbed

rows == <<app, offers, loan>>
ghosts == <<unseenByL1, disturbed>>
vars == <<rows, req, ghosts, stoodAtL2>>

-----------------------------------------------------------------------------
L1Queue == {"SUBMITTED", "UNDER_REVIEW"}

InReview == L1Queue \cup {"PENDING_L2_APPROVAL"}

(* REJECTED and CANCELLED are alike: CLOSED.                               *)
Statuses == InReview \cup {"DRAFT", "APPROVED", "CLOSED"}

Parties == {"ADMIN", "BORROWER"}

Other(party) == IF party = "ADMIN" THEN "BORROWER" ELSE "ADMIN"

(* SUPERSEDED, ACCEPTED and REJECTED offers are alike, and nobody reads    *)
(* them any more.                                                          *)
Resolved == [from |-> "ADMIN", terms |-> NoTerms]

Offers == [from : Parties, terms : Terms] \cup {Resolved}

(* What the endpoints that set a status set it to; reject and withdraw are *)
(* close.                                                                  *)
Outcome == [submit |-> "SUBMITTED", sendToL2 |-> "PENDING_L2_APPROVAL", approve |-> "APPROVED",
            close |-> "CLOSED", return |-> "DRAFT"]

Ops == DOMAIN Outcome \cup {"edit", "document", "counter", "accept", "rejectOffers"}

(* The statuses an endpoint accepts; the borrower's reject-offers accepts  *)
(* any.                                                                    *)
Accepts(op) ==
    CASE op \in {"edit", "submit"} -> {"DRAFT"}
      [] op = "sendToL2" -> L1Queue
      [] op = "approve" -> {"PENDING_L2_APPROVAL"}
      [] op = "document" -> {"DRAFT"} \cup InReview
      [] op = "rejectOffers" -> Statuses
      [] OTHER -> InReview

(* What is lent on an application's terms: with a risk-adjusted schedule   *)
(* the term is derived from the schedule, whatever the application's is.   *)
LoanTerms(terms, schedule) == IF schedule = NoSchedule THEN terms ELSE Compliant[<<terms, schedule>>]

(* at: the step next taken.  to: the status to be written, schedule and    *)
(* terms: the schedule and the terms, party: on whose behalf, ids: the     *)
(* offers found.  fresh: nobody has written since the application was read *)
(* (and nothing is disturbed).                                             *)
Idle == [at |-> "idle", op |-> "edit", to |-> "same", schedule |-> "same", terms |-> NoTerms,
         party |-> "ADMIN", ids |-> {}, fresh |-> FALSE]

Executions ==
    [at : {"idle", "offers", "write", "reset"}, op : Ops, to : Statuses \cup {"same"},
     schedule : Schedules \cup {NoSchedule, "same"}, terms : Terms \cup {NoTerms},
     party : Parties, ids : SUBSET (1..MaxOffers), fresh : BOOLEAN]

Applications ==
    [status : Statuses, terms : Terms, schedule : Schedules \cup {NoSchedule}, l1 : BOOLEAN]

Pending == {i \in DOMAIN offers : offers[i] # Resolved}

(* An application made with a risk-adjusted schedule starts on the terms   *)
(* derived from it; one that allows none is refused.                       *)
Init ==
    /\ \E t \in Terms, s \in Schedules \cup {NoSchedule} :
          /\ LoanTerms(t, s) # NoTerms
          /\ app = [status |-> "DRAFT", terms |-> LoanTerms(t, s), schedule |-> s, l1 |-> FALSE]
    /\ offers = <<>>
    /\ loan = NoTerms
    /\ req = [r \in Requests |-> Idle]
    /\ stoodAtL2 = {} /\ unseenByL1 = TRUE /\ disturbed = FALSE

-----------------------------------------------------------------------------
(* findFirst and the check of the status.                                  *)
Reads(r, op, x) ==
    /\ req[r].at = "idle"
    /\ app.status \in Accepts(op)
    /\ req' = [req EXCEPT ![r] = [x EXCEPT !.op = op, !.fresh = ~disturbed]]
    /\ UNCHANGED <<rows, ghosts>>

(* The borrower's submit leaves the schedule; the admin's sets or removes  *)
(* it, unless no terms can be derived from it.                             *)
ReadToSubmit(r) ==
    \E s \in {"same"} \cup {s \in Schedules \cup {NoSchedule} : LoanTerms(app.terms, s) # NoTerms} :
        Reads(r, "submit", [Idle EXCEPT !.at = "write", !.to = "SUBMITTED", !.schedule = s])

(* send-to-l2, approve, return-to-draft, reject and withdraw: the hand-off *)
(* and the approval go on to look for pending offers.  The approval lends  *)
(* on the row it has read.                                                 *)
ReadToDecide(r) ==
    \E op \in DOMAIN Outcome \ {"submit"} :
        Reads(r, op, [Idle EXCEPT !.at = IF op \in {"sendToL2", "approve"} THEN "offers" ELSE "write",
                                  !.to = Outcome[op],
                                  !.terms = IF op = "approve" THEN LoanTerms(app.terms, app.schedule)
                                            ELSE NoTerms])

ReadToEdit(r) ==
    \E t \in Terms : Reads(r, "edit", [Idle EXCEPT !.at = "write", !.terms = t])

(* Mutant: a document added in the L2 queue leaves it there.               *)
StatusAfterUpload_Kept(replaced) == IF replaced THEN "UNDER_REVIEW" ELSE "same"

(* Any change in the L2 queue starts the review over; a replaced document  *)
(* puts the application under review.                                      *)
StatusAfterUpload(replaced) ==
    CASE app.status = "PENDING_L2_APPROVAL" -> "SUBMITTED"
      [] app.status \in L1Queue /\ replaced -> "UNDER_REVIEW"
      [] OTHER -> "same"

ReadToUpload(r) ==
    \E replaced \in BOOLEAN :
        Reads(r, "document", [Idle EXCEPT !.at = "write", !.to = StatusAfterUpload(replaced)])

ReadToNegotiate(r) ==
    \E party \in Parties :
        \/ \E t \in Terms : Reads(r, "counter", [Idle EXCEPT !.at = "offers", !.party = party, !.terms = t])
        \/ Reads(r, "accept", [Idle EXCEPT !.at = "offers", !.party = party])

ReadToReject(r) == Reads(r, "rejectOffers", [Idle EXCEPT !.at = "write"])

-----------------------------------------------------------------------------
Goes(r, x) == req' = [req EXCEPT ![r] = x] /\ UNCHANGED <<rows, ghosts>>

(* assertNoPendingOffersForApproval; an approval is also refused when no   *)
(* terms could be derived.                                                 *)
CountPending(r) ==
    /\ req[r].at = "offers" /\ req[r].op \in {"sendToL2", "approve"}
    /\ LET refused == Pending # {} \/ (req[r].op = "approve" /\ req[r].terms = NoTerms)
       IN  Goes(r, IF refused THEN Idle ELSE [req[r] EXCEPT !.at = "write"])

(* supersedePendingOffers, the first statement of a counter-offer, locks   *)
(* the offers it finds pending.                                            *)
Supersede(r) ==
    /\ req[r].at = "offers" /\ req[r].op = "counter"
    /\ Len(offers) < MaxOffers
    /\ Goes(r, [req[r] EXCEPT !.at = "write", !.ids = Pending])

(* The latest pending offer of the other side.                             *)
PickOffer(r) ==
    /\ req[r].at = "offers" /\ req[r].op = "accept"
    /\ LET theirs == {i \in Pending : offers[i].from = Other(req[r].party)}
       IN  \/ theirs = {} /\ Goes(r, Idle)
           \/ \E i \in theirs :
                 /\ \A j \in theirs : j <= i
                 /\ Goes(r, [req[r] EXCEPT !.at = "write", !.ids = {i}, !.terms = offers[i].terms])

-----------------------------------------------------------------------------
(* What a write does to the requests under way, and to the history: of a   *)
(* disturbed review nothing more is said.                                  *)
Writes(r, x, unseen) ==
    /\ req' = [q \in Requests |-> IF q = r THEN x ELSE [req[q] EXCEPT !.fresh = FALSE]]
    /\ disturbed' = (disturbed \/ ~req[r].fresh)
    /\ unseenByL1' = (disturbed' \/ unseen)

Writing(r, op) == req[r].at = "write" /\ req[r].op = op

(* Mutant: sending back to the L1 queue keeps the L1 marks.                *)
Status_HandoffUnmarked(r, status) == app' = [app EXCEPT !.status = status]

(* The L1 marks are set by the hand-off, and cleared when the review       *)
(* starts over.                                                            *)
Status(r, status) ==
    app' = [app EXCEPT !.status = status,
                       !.schedule = IF req[r].schedule = "same" THEN @ ELSE req[r].schedule,
                       !.l1 = CASE status = "PENDING_L2_APPROVAL" -> TRUE
                                [] status \in {"SUBMITTED", "DRAFT"} -> FALSE
                                [] OTHER -> @]

WriteStatus(r) ==
    /\ \E op \in DOMAIN Outcome \ {"approve"} : Writing(r, op)
    /\ Status(r, req[r].to)
    /\ Writes(r, Idle, unseenByL1 /\ req[r].op # "sendToL2")
    /\ UNCHANGED <<offers, loan>>

(* Mutant: the loan copies the application as it is now.                   *)
WriteApproval_CurrentTerms(r) ==
    /\ Writing(r, "approve")
    /\ loan = NoTerms
    /\ Status(r, "APPROVED")
    /\ loan' = LoanTerms(app.terms, app.schedule)
    /\ Writes(r, Idle, unseenByL1)
    /\ UNCHANGED offers

(* Mutant: no unique index on Loan.applicationId.                          *)
WriteApproval_NotUnique(r) ==
    /\ Writing(r, "approve")
    /\ Status(r, "APPROVED")
    /\ loan' = req[r].terms
    /\ Writes(r, Idle, unseenByL1)
    /\ UNCHANGED offers

(* The approval transaction: the status, and the loan on the terms read.   *)
(* Loan.applicationId is unique.                                           *)
WriteApproval(r) ==
    /\ Writing(r, "approve")
    /\ loan = NoTerms
    /\ Status(r, "APPROVED")
    /\ loan' = req[r].terms
    /\ Writes(r, Idle, unseenByL1)
    /\ UNCHANGED offers

ApprovalFails(r) == Writing(r, "approve") /\ loan # NoTerms /\ Goes(r, Idle)

WriteEdit(r) ==
    /\ Writing(r, "edit")
    /\ app' = [app EXCEPT !.terms = req[r].terms]
    /\ Writes(r, Idle, unseenByL1)
    /\ UNCHANGED <<offers, loan>>

(* The documents are replaced first; the status follows, if it is to       *)
(* change.                                                                 *)
WriteDocument(r) ==
    /\ Writing(r, "document")
    /\ Writes(r, [req[r] EXCEPT !.at = "reset"], TRUE)
    /\ UNCHANGED rows

(* Mutant: the status is written even when none is due.                    *)
ResetReview_Always(r) ==
    /\ req[r].at = "reset"
    /\ Status(r, req[r].to)
    /\ Writes(r, Idle, unseenByL1)
    /\ UNCHANGED <<offers, loan>>

ResetReview(r) ==
    /\ req[r].at = "reset"
    /\ IF req[r].to = "same"
         THEN Goes(r, Idle)
         ELSE /\ Status(r, req[r].to)
              /\ Writes(r, Idle, unseenByL1)
              /\ UNCHANGED <<offers, loan>>

(* The counter-offer's transaction: what it found pending and still is so  *)
(* is superseded, and the new offer made.                                  *)
WriteCounter(r) ==
    /\ Writing(r, "counter") /\ Len(offers) < MaxOffers
    /\ LET left == [i \in DOMAIN offers |->
                       IF i \in req[r].ids \cap Pending THEN Resolved
                       ELSE offers[i]]
       IN  offers' = Append(left, [from |-> req[r].party, terms |-> req[r].terms])
    /\ Writes(r, Idle, unseenByL1)
    /\ UNCHANGED <<app, loan>>

(* The offer picked is accepted by id, and the application takes its terms.*)
WriteAcceptance(r) ==
    /\ Writing(r, "accept")
    /\ offers' = [i \in DOMAIN offers |-> IF i \in req[r].ids THEN Resolved ELSE offers[i]]
    /\ app' = [app EXCEPT !.terms = req[r].terms]
    /\ Writes(r, Idle, unseenByL1)
    /\ UNCHANGED loan

WriteRejection(r) ==
    /\ Writing(r, "rejectOffers")
    /\ offers' = [i \in DOMAIN offers |->
                     IF i \in Pending THEN Resolved ELSE offers[i]]
    /\ Writes(r, Idle, unseenByL1)
    /\ UNCHANGED <<app, loan>>

(* The server dies, or a statement throws.                                 *)
Abandon(r) ==
    /\ req[r].at # "idle"
    /\ req' = [req EXCEPT ![r] = Idle]
    /\ disturbed' = (disturbed \/ req[r].at = "reset")
    /\ unseenByL1' = (disturbed' \/ unseenByL1)
    /\ UNCHANGED rows

Read(r) ==
    \/ ReadToSubmit(r) \/ ReadToDecide(r) \/ ReadToEdit(r) \/ ReadToUpload(r)
    \/ ReadToNegotiate(r) \/ ReadToReject(r)

LookAtOffers(r) == CountPending(r) \/ Supersede(r) \/ PickOffer(r)

Write(r) ==
    \/ WriteStatus(r) \/ WriteApproval(r) \/ ApprovalFails(r) \/ WriteEdit(r) \/ WriteDocument(r)
    \/ ResetReview(r) \/ WriteCounter(r) \/ WriteAcceptance(r) \/ WriteRejection(r)

Next ==
    /\ \E r \in Requests : Read(r) \/ LookAtOffers(r) \/ Write(r) \/ Abandon(r)
    /\ stoodAtL2' = stoodAtL2 \cup {t \in {LoanTerms(app'.terms, app'.schedule)} :
                                      app'.status = "PENDING_L2_APPROVAL"}

Spec == Init /\ [][Next]_vars

-----------------------------------------------------------------------------
TypeOK ==
    /\ app \in Applications
    /\ offers \in Seq(Offers) /\ Len(offers) <= MaxOffers
    /\ loan \in Terms \cup {NoTerms}
    /\ req \in [Requests -> Executions]
    /\ stoodAtL2 \subseteq Terms \cup {NoTerms} /\ unseenByL1 \in BOOLEAN /\ disturbed \in BOOLEAN

(* However the endpoints interleave, an approved application has its loan, *)
(* and one in the L2 queue carries the mark of its L1 review.              *)
StatusIsBacked ==
    /\ app.status = "APPROVED" => loan # NoTerms
    /\ app.status = "PENDING_L2_APPROVAL" => app.l1

(* No loan is made but on what the application, as it stood before L2,     *)
(* lends: a draft returned and edited while it is being approved does not  *)
(* leak into the loan.  With a risk-adjusted schedule that is the derived  *)
(* term, even when another was negotiated.                                 *)
LoanFollowsL2Row == loan # NoTerms => loan \in stoodAtL2

(* Two approvals of one application do not both make a loan.               *)
LoanIsFinal == [][loan # NoTerms => loan' = loan]_vars

(* The two-level review (admin_pro_rbac.md, "Two-step L1 / L2 application  *)
(* approval") as it reads when requests do not run into each other: one    *)
(* loan per approval on what the application lends, one offer on the       *)
(* table, none once approved, and no document L1 has not seen behind a     *)
(* loan.                                                                   *)
Reviewed ==
    /\ app.status = "APPROVED" <=> loan # NoTerms
    /\ loan # NoTerms => loan = LoanTerms(app.terms, app.schedule) /\ Pending = {}
    /\ Cardinality(Pending) <= 1
    /\ app.status = "APPROVED" /\ (\A r \in Requests : req[r].at # "reset") => ~unseenByL1

(* The review goes wrong in no other way than by a write decided on rows   *)
(* that have changed, or an upload that died half-way.                     *)
OnlyDisturbedGoWrong == disturbed \/ Reviewed
=============================================================================
