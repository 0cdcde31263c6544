---------------------------- MODULE Disbursement ----------------------------
(***************************************************************************)
(* One loan of backend_pro from the approval of its application to its     *)
(* disbursement: the agreement is dated, signed by the borrower            *)
(* (borrower-signing/routes.ts) and by two internal signers                *)
(* (admin-signing/routes.ts) or uploaded as a scan, reviewed, and the loan *)
(* disbursed (loans/routes.ts, borrower-loans/routes.ts).                  *)
(*                                                                         *)
(* Every endpoint reads the loan, checks it, may spend seconds at the      *)
(* signing gateway, and updates the loan by id.  The guarantors'           *)
(* agreements, PINs, certificates, and who may do what are left out; of    *)
(* attestation only what it does to the loan's status is here.             *)
(***************************************************************************)
EXTENDS Naturals, FiniteSets

CONSTANTS
    Requests,   \* HTTP executions
    Dates,      \* agreement dates
    NoDate,
    NoPdf

ASSUME DatesAssumption == NoDate \notin Dates

VARIABLES
    loan,       \* the Loan row; pdf stands for the file at agreementPath
    signed,     \* roles with a LoanInternalSignature row
    schedule,   \* agreement date that version 1 of the schedule follows, or NoDate
    req,        \* Requests -> what each execution has read and will write
    (* History: the dates the row had while the agreement was approved,     *)
    (* whether a document was put in the place of one signed internally,    *)
    (* and whether a request wrote on a row changed since it read, or died  *)
    (* between two writes.                                                  *)
    approvedOn, replaced, disturbed

rows == <<loan, signed, schedule>>
ghosts == <<replaced, disturbed>>
vars == <<rows, req, ghosts, approvedOn>>

-----------------------------------------------------------------------------
Roles == {"COMPANY_REP", "WITNESS"}

(* kept: nobody has deleted the file.  A scan shows no date or signers to  *)
(* the code.                                                               *)
Pdfs == [date : Dates \cup {NoDate}, signers : SUBSET (Roles \cup {"BORROWER"}), kept : BOOLEAN]

ASSUME NoPdfAssumption == NoPdf \notin Pdfs

PreDisbursement == {"PENDING_ATTESTATION", "PENDING_DISBURSEMENT"}

Statuses == PreDisbursement \cup {"ACTIVE", "CANCELLED"}

Reviews == {"NONE", "PENDING", "APPROVED", "REJECTED"}

Scan == [date |-> NoDate, signers |-> {}, kept |-> TRUE]

(* fields: agreementSignatureFields, the places for the signatures.        *)
Loans ==
    [status : Statuses, online : BOOLEAN, attested : BOOLEAN, date : Dates \cup {NoDate},
     pdf : Pdfs \cup {NoPdf}, fields : BOOLEAN, review : Reviews]

Ops == {"attest", "meeting", "cancel", "approve", "reject", "upload", "scan",
        "sign", "countersign", "disburse"}

(* at: the step next taken.  status, date, pdf, role: what it will write,  *)
(* both: the signers it counted are two.  same: the file an upload read is *)
(* still the loan's.  fresh: nobody has written since it read (and nothing *)
(* is disturbed).                                                          *)
Idle == [at |-> "idle", op |-> "attest", status |-> "CANCELLED", date |-> NoDate, pdf |-> NoPdf,
         role |-> "WITNESS", both |-> FALSE, same |-> FALSE, fresh |-> FALSE]

InTransaction == {"count", "commit"}

Executions ==
    [at : {"idle", "date", "remove", "write", "put"} \cup InTransaction, op : Ops, status : Statuses,
     date : Dates \cup {NoDate}, pdf : Pdfs \cup {NoPdf}, role : Roles, both : BOOLEAN,
     same : BOOLEAN, fresh : BOOLEAN]

Init ==
    /\ \E online \in BOOLEAN :
          loan = [status |-> IF online THEN "PENDING_ATTESTATION" ELSE "PENDING_DISBURSEMENT",
                  online |-> online, attested |-> FALSE, date |-> NoDate, pdf |-> NoPdf,
                  fields |-> FALSE, review |-> "NONE"]
    /\ signed = {}
    /\ schedule = NoDate
    /\ req = [r \in Requests |-> Idle]
    /\ approvedOn = {} /\ replaced = FALSE /\ disturbed = FALSE

-----------------------------------------------------------------------------
(* findFirst and the checks, of the row as it is.                          *)
Reads(r, op, x) ==
    /\ req[r].at = "idle"
    /\ req' = [req EXCEPT ![r] = [x EXCEPT !.op = op, !.fresh = ~disturbed]]
    /\ UNCHANGED <<rows, ghosts>>

(* proceed-to-signing and accept-after-meeting; complete-meeting, which    *)
(* writes back the status it read; cancel-loan and its like.  The state of *)
(* the attestation itself is in AttestationBooking.                        *)
ReadForAttestation(r) ==
    /\ loan.status \in PreDisbursement
    /\ \/ ~loan.attested /\ Reads(r, "attest", [Idle EXCEPT !.at = "write", !.status = "PENDING_DISBURSEMENT"])
       \/ ~loan.attested /\ Reads(r, "meeting", [Idle EXCEPT !.at = "write", !.status = loan.status])
       \/ Reads(r, "cancel", [Idle EXCEPT !.at = "write"])

(* Mutant: whatever the status.                                            *)
ReadToReview_AnyStatus(r) ==
    \/ loan.pdf # NoPdf /\ Reads(r, "approve", [Idle EXCEPT !.at = "write"])
    \/ Reads(r, "reject", [Idle EXCEPT !.at = "write"])

ReadToReview(r) ==
    /\ loan.status = "PENDING_DISBURSEMENT"
    /\ \/ loan.pdf # NoPdf /\ Reads(r, "approve", [Idle EXCEPT !.at = "write"])
       \/ Reads(r, "reject", [Idle EXCEPT !.at = "write"])

(* The borrower's upload sets the agreement date or keeps the one there    *)
(* must be, whatever the paper bears.                                      *)
ReadToUpload(r) ==
    /\ loan.status = "PENDING_DISBURSEMENT" /\ loan.attested
    /\ \E d \in Dates :
          Reads(r, "upload", [Idle EXCEPT !.at = "remove", !.date = d, !.pdf = Scan, !.same = TRUE])

(* The admin's upload: in any status.                                      *)
ReadToScan(r) == Reads(r, "scan", [Idle EXCEPT !.at = "remove", !.pdf = Scan, !.same = TRUE])

ReadToSign(r) ==
    /\ loan.status \in PreDisbursement
    /\ Reads(r, "sign", [Idle EXCEPT !.at = "date"])

(* An internal signer: the file is fetched and sent to the gateway.  The   *)
(* loan's status is not looked at.                                         *)
ReadToCountersign(r) ==
    /\ loan.online /\ loan.fields
    /\ loan.pdf # NoPdf /\ loan.pdf.kept
    /\ \E role \in Roles \ signed :
          Reads(r, "countersign", [Idle EXCEPT !.at = "write", !.role = role, !.pdf = loan.pdf])

(* Mutant: an agreement without a date will do.                            *)
ReadToDisburse_Undated(r) ==
    /\ loan.status = "PENDING_DISBURSEMENT"
    /\ loan.pdf # NoPdf /\ loan.review = "APPROVED"
    /\ loan.online => loan.attested
    /\ Reads(r, "disburse", [Idle EXCEPT !.at = "write", !.date = loan.date])

ReadToDisburse(r) ==
    /\ loan.status = "PENDING_DISBURSEMENT"
    /\ loan.date # NoDate /\ loan.pdf # NoPdf /\ loan.review = "APPROVED"
    /\ loan.online => loan.attested
    /\ Reads(r, "disburse", [Idle EXCEPT !.at = "write", !.date = loan.date])

-----------------------------------------------------------------------------
(* What a write does to the requests under way; file: it changes the       *)
(* loan's file.                                                            *)
Writes(r, x, file) ==
    /\ req' = [q \in Requests |->
                  IF q = r THEN x
                  ELSE [req[q] EXCEPT !.fresh = FALSE, !.same = @ /\ ~file]]
    /\ disturbed' = (disturbed \/ ~req[r].fresh)

(* An internal signer's transaction locks the Loan row until it commits or *)
(* is rolled back: other updates of the row wait.                          *)
Unlocked == \A r \in Requests : req[r].at \notin InTransaction

Writing(r, op) == req[r].at = "write" /\ req[r].op = op

WriteStatus(r) ==
    /\ Unlocked
    /\ \E op \in {"attest", "meeting", "cancel"} : Writing(r, op)
    /\ loan' = [loan EXCEPT !.status = req[r].status, !.attested = @ \/ req[r].op = "attest"]
    /\ Writes(r, Idle, FALSE)
    /\ UNCHANGED <<signed, schedule, replaced>>

WriteReview(r) ==
    /\ Unlocked
    /\ Writing(r, "approve") \/ Writing(r, "reject")
    /\ loan' = [loan EXCEPT !.review = IF req[r].op = "approve" THEN "APPROVED" ELSE "REJECTED"]
    /\ Writes(r, Idle, FALSE)
    /\ UNCHANGED <<signed, schedule, replaced>>

(* An upload deletes the file it read, if there was one and the deletion   *)
(* succeeds, before it stores its own.                                     *)
RemoveFile(r) ==
    /\ req[r].at = "remove"
    /\ \/ /\ req[r].same /\ loan.pdf # NoPdf
          /\ loan' = [loan EXCEPT !.pdf.kept = FALSE]
          /\ Writes(r, [req[r] EXCEPT !.at = "put"], FALSE)
       \/ /\ req' = [req EXCEPT ![r].at = "put"]
          /\ UNCHANGED <<loan, disturbed>>
    /\ UNCHANGED <<signed, schedule, replaced>>

PutUpload(r) ==
    /\ req[r].at = "put" /\ Unlocked
    /\ loan' = IF req[r].op = "upload"
                 THEN [loan EXCEPT !.pdf = req[r].pdf, !.review = "PENDING", !.date = req[r].date]
                 ELSE [loan EXCEPT !.pdf = req[r].pdf, !.review = "APPROVED"]
    /\ replaced' = (replaced \/ signed # {})
    /\ Writes(r, Idle, TRUE)
    /\ UNCHANGED <<signed, schedule>>

(* generate-agreement and agreement-preview write the date they are asked  *)
(* for, or today's: whatever the status of the loan and of its agreement.  *)
SetDate ==
    /\ Unlocked
    /\ \E d \in Dates : loan' = [loan EXCEPT !.date = d]
    /\ UNCHANGED <<signed, schedule, req, ghosts>>

(* The borrower's signature: the agreement is generated for today, which   *)
(* dates the loan, then signed, stored and put up for review.              *)
DateAgreement(r) ==
    /\ req[r].at = "date" /\ Unlocked
    /\ \E d \in Dates :
          /\ loan' = [loan EXCEPT !.date = d]
          /\ req' = [req EXCEPT ![r].at = "write",
                                ![r].pdf = [date |-> d, signers |-> {"BORROWER"}, kept |-> TRUE]]
    /\ UNCHANGED <<signed, schedule, ghosts>>

WriteSignature(r) ==
    /\ Writing(r, "sign") /\ Unlocked
    /\ loan' = [loan EXCEPT !.pdf = req[r].pdf, !.fields = TRUE, !.review = "PENDING"]
    /\ replaced' = (replaced \/ signed # {})
    /\ Writes(r, Idle, TRUE)
    /\ UNCHANGED <<signed, schedule>>

(* Mutant: the signature rows are written and counted before the loan is   *)
(* updated.                                                                *)
LockLoan_Last(r) ==
    /\ Writing(r, "countersign")
    /\ req' = [req EXCEPT ![r].at = "count"]
    /\ UNCHANGED <<rows, ghosts>>

(* The transaction of an internal signer begins with the update of the     *)
(* loan, which nobody sees before it commits.                              *)
LockLoan(r) ==
    /\ Writing(r, "countersign") /\ Unlocked
    /\ req' = [req EXCEPT ![r].at = "count"]
    /\ UNCHANGED <<rows, ghosts>>

(* It creates the signer's row, unique per role, and counts the rows it    *)
(* sees: the committed ones and its own.                                   *)
CountSignatures(r) ==
    /\ req[r].at = "count" /\ req[r].role \notin signed
    /\ req' = [req EXCEPT ![r].at = "commit",
                          ![r].both = signed \cup {req[r].role} = Roles]
    /\ UNCHANGED <<rows, ghosts>>

(* The commit: the document read, with his signature; his row; and the     *)
(* approval when both rows were counted.                                   *)
WriteCountersignature(r) ==
    /\ req[r].at = "commit"
    /\ signed' = signed \cup {req[r].role}
    /\ loan' = [loan EXCEPT !.pdf = [req[r].pdf EXCEPT !.signers = @ \cup {req[r].role}],
                            !.review = IF req[r].both THEN "APPROVED" ELSE @]
    /\ Writes(r, Idle, TRUE)
    /\ UNCHANGED <<schedule, replaced>>

(* Mutant: the schedule follows the date as it is now.                     *)
WriteDisbursement_CurrentDate(r) ==
    /\ Writing(r, "disburse") /\ Unlocked
    /\ schedule = NoDate
    /\ schedule' = loan.date
    /\ loan' = [loan EXCEPT !.status = "ACTIVE"]
    /\ Writes(r, Idle, FALSE)
    /\ UNCHANGED <<signed, replaced>>

(* The disbursement's transaction: ACTIVE, and version 1 of the schedule,  *)
(* which exists once.                                                      *)
WriteDisbursement(r) ==
    /\ Writing(r, "disburse") /\ Unlocked
    /\ schedule = NoDate
    /\ schedule' = req[r].date
    /\ loan' = [loan EXCEPT !.status = "ACTIVE"]
    /\ Writes(r, Idle, FALSE)
    /\ UNCHANGED <<signed, replaced>>

(* A unique index fails the transaction.                                   *)
TransactionFails(r) ==
    /\ \/ req[r].at = "count" /\ req[r].role \in signed
       \/ Writing(r, "disburse") /\ Unlocked /\ schedule # NoDate
    /\ req' = [req EXCEPT ![r] = Idle]
    /\ UNCHANGED <<rows, ghosts>>

(* The server dies, or a check, the gateway or the storage fails.          *)
Abandon(r) ==
    /\ req[r].at # "idle"
    /\ req' = [req EXCEPT ![r] = Idle]
    /\ disturbed' = (disturbed \/ req[r].at = "put")
    /\ UNCHANGED <<rows, replaced>>

Read(r) ==
    \/ ReadForAttestation(r) \/ ReadToReview(r) \/ ReadToUpload(r) \/ ReadToScan(r)
    \/ ReadToSign(r) \/ ReadToCountersign(r) \/ ReadToDisburse(r)

Write(r) ==
    \/ WriteStatus(r) \/ WriteReview(r) \/ RemoveFile(r) \/ PutUpload(r) \/ DateAgreement(r)
    \/ WriteSignature(r) \/ LockLoan(r) \/ CountSignatures(r) \/ WriteCountersignature(r)
    \/ WriteDisbursement(r) \/ TransactionFails(r)

Next ==
    /\ SetDate \/ \E r \in Requests : Read(r) \/ Write(r) \/ Abandon(r)
    /\ approvedOn' = approvedOn \cup {d \in {loan'.date} \ {NoDate} : loan'.review = "APPROVED"}

Spec == Init /\ [][Next]_vars

-----------------------------------------------------------------------------
(* The values are the code's, and what a request will write is complete.   *)
TypeOK ==
    /\ loan \in Loans
    /\ signed \subseteq Roles
    /\ schedule \in Dates \cup {NoDate}
    /\ req \in [Requests -> Executions]
    /\ \A r \in Requests :
          /\ Writing(r, "disburse") => req[r].date \in Dates
          /\ Writing(r, "sign") \/ Writing(r, "countersign") => req[r].pdf \in Pdfs
          /\ req[r].at \in {"remove", "put"} \cup InTransaction => req[r].pdf \in Pdfs
    /\ approvedOn \subseteq Dates /\ replaced \in BOOLEAN /\ disturbed \in BOOLEAN

(* However the endpoints interleave, an active loan has its schedule, the  *)
(* schedule follows a date the loan had while its agreement was approved,  *)
(* and an online loan is not disbursed before its attestation.             *)
DisbursedWasReady ==
    /\ loan.status = "ACTIVE" => schedule # NoDate
    /\ schedule # NoDate => schedule \in approvedOn /\ (loan.online => loan.attested)

(* Of two internal signers at once, the second to commit has counted both  *)
(* rows and approves: neither, not seeing the other's row, leaves it to    *)
(* the other.                                                              *)
LastSignatureApproves == [][signed # Roles /\ signed' = Roles => loan'.review = "APPROVED"]_vars

(* The record as it is when requests do not run into each other.           *)
Orderly ==
    /\ loan.status = "ACTIVE" <=> schedule # NoDate
    /\ loan.status = "ACTIVE" => loan.review = "APPROVED" /\ loan.pdf # NoPdf
    /\ loan.pdf # NoPdf => loan.pdf.kept \/ \E r \in Requests : req[r].at = "put"
    /\ signed # {} /\ ~replaced => signed \subseteq loan.pdf.signers

(* A disbursed loan loses its status or its approval, the agreement its    *)
(* file, and the file a signature that has a row, in no other way than by  *)
(* a write decided on a row that has changed, an upload that died half-way *)
(* or (signatures) a new document.                                         *)
OnlyDisturbedGoWrong == disturbed \/ Orderly

(* A claim of the repository that does not hold (the comment before        *)
(* generateSchedule): the schedule matches the agreement that was signed.  *)
ScheduleMatchesAgreement ==
    [][schedule = NoDate /\ schedule' # NoDate /\ "BORROWER" \in loan.pdf.signers
         => schedule' = loan.pdf.date]_vars
=============================================================================
