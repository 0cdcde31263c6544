------------------------- MODULE DisbursementProofs -------------------------
(***************************************************************************)
(* Theorems about Disbursement, for any requests and dates.                *)
(*                                                                         *)
(* Beside the types, the invariant says what an execution carries (ExecOK: *)
(* a disbursement carries a date the agreement was approved on), what      *)
(* holds however requests interleave (Ready), that one internal signer at  *)
(* a time is in his transaction, so that what he has counted still stands  *)
(* when he commits (Serial), and, until something is disturbed, that the   *)
(* record is orderly and that what an execution found still stands as long *)
(* as nobody has written since (FreshOK).                                  *)
(***************************************************************************)
EXTENDS Disbursement, TLAPS

ExecOK(x) ==
    /\ x.at = "idle" => ~x.fresh
    /\ x.at = "date" => x.op = "sign"
    /\ x.at \in {"remove", "put"} => x.op \in {"upload", "scan"} /\ x.pdf \in Pdfs
    /\ x.at \in InTransaction => x.op = "countersign" /\ x.pdf \in Pdfs
    /\ x.pdf # NoPdf => x.pdf.kept
    /\ x.at = "write" =>
          /\ x.op \in {"attest", "meeting", "cancel"} => x.status # "ACTIVE"
          /\ x.op = "cancel" => x.status = "CANCELLED"
          /\ x.op = "meeting" /\ x.status = "PENDING_DISBURSEMENT" => (loan.online => loan.attested)
          /\ x.op \in {"sign", "countersign"} => x.pdf \in Pdfs
          /\ x.op = "disburse" => x.date \in approvedOn /\ (loan.online => loan.attested)

(* Who may find the loan in which status.                                  *)
Accepts(op) ==
    CASE op \in {"attest", "meeting", "cancel", "sign"} -> PreDisbursement
      [] op \in {"approve", "reject", "upload", "disburse"} -> {"PENDING_DISBURSEMENT"}
      [] OTHER -> Statuses

FreshOK(x) ==
    x.fresh =>
        /\ loan.status \in Accepts(x.op)
        /\ x.op = "countersign" => loan.pdf = x.pdf
        /\ x.op = "disburse" => loan.review = "APPROVED" /\ loan.pdf # NoPdf

Ready ==
    /\ DisbursedWasReady
    /\ loan.status = "PENDING_DISBURSEMENT" => (loan.online => loan.attested)
    /\ loan.review = "APPROVED" /\ loan.date # NoDate => loan.date \in approvedOn

Serial ==
    /\ \A p, q \in Requests :
          req[p].at \in InTransaction /\ req[q].at \in InTransaction => p = q
    /\ \A q \in Requests :
          req[q].at = "commit" => (req[q].both <=> signed \cup {req[q].role} = Roles)

Inv ==
    /\ TypeOK
    /\ \A r \in Requests : ExecOK(req[r])
    /\ Ready
    /\ Serial
    /\ ~disturbed => Orderly /\ \A r \in Requests : FreshOK(req[r])

Remembers == approvedOn' = approvedOn \cup {d \in {loan'.date} \ {NoDate} : loan'.review = "APPROVED"}

-----------------------------------------------------------------------------
LEMMA IdleOK ==
    /\ Idle \in Executions /\ ExecOK(Idle) /\ ExecOK(Idle)'
    /\ FreshOK(Idle) /\ FreshOK(Idle)' /\ Idle.at = "idle" /\ ~Idle.fresh
BY DEF Idle, Executions, InTransaction, Ops, Statuses, Roles, ExecOK, FreshOK

LEMMA InitInv == Init => Inv
<1> SUFFICES ASSUME Init PROVE Inv
  OBVIOUS
<1> USE DEF Init
<1>1. loan \in Loans
  BY DEF Loans, Statuses, PreDisbursement, Reviews
<1>2. /\ loan.status = IF loan.online THEN "PENDING_ATTESTATION" ELSE "PENDING_DISBURSEMENT"
      /\ loan.review = "NONE" /\ loan.pdf = NoPdf /\ loan.date = NoDate
  OBVIOUS
<1>3. TypeOK
  BY <1>1, IdleOK DEF TypeOK, Writing, InTransaction
<1>4. Ready /\ Orderly
  BY <1>2 DEF Ready, DisbursedWasReady, Orderly
<1>5. Serial
  BY IdleOK DEF Serial, InTransaction
<1> QED
  BY <1>3, <1>4, <1>5, IdleOK DEF Inv

LEMMA RemembersMore ==
    ASSUME Inv, Remembers, loan' \in Loans
    PROVE  /\ approvedOn \subseteq approvedOn' /\ approvedOn' \subseteq Dates
           /\ loan'.review = "APPROVED" /\ loan'.date # NoDate => loan'.date \in approvedOn'
BY DEF Remembers, Inv, TypeOK, Loans

(* Steps that neither enter nor move on in a signer's transaction.         *)
LEMMA SerialStays ==
    ASSUME Serial, signed' = signed,
           \A q \in Requests :
              \/ req'[q].at \notin InTransaction
              \/ req'[q].at = req[q].at /\ req'[q].role = req[q].role /\ req'[q].both = req[q].both
    PROVE  Serial'
BY DEF Serial, InTransaction

(* Steps that move executions on and at most date the loan.                *)
LEMMA MovesOn ==
    ASSUME Inv, Remembers, UNCHANGED <<signed, schedule, ghosts>>, loan' \in Loans,
           loan'.status = loan.status, loan'.online = loan.online, loan'.attested = loan.attested,
           loan'.pdf = loan.pdf, loan'.review = loan.review, Serial',
           req' \in [Requests -> Executions],
           \A q \in Requests :
              \/ req'[q] = req[q]
              \/ /\ ExecOK(req'[q])
                 /\ ~disturbed => FreshOK(req'[q])
                 /\ req[q].at = "put" => req'[q].at = "put"
    PROVE  Inv'
<1> USE DEF ghosts
<1>1. \A q \in Requests : ExecOK(req[q])'
  BY RemembersMore DEF Inv, TypeOK, ExecOK
<1>2. TypeOK'
  BY <1>1, RemembersMore DEF Inv, TypeOK, Writing, ExecOK, InTransaction
<1>3. Ready'
  BY RemembersMore DEF Inv, Ready, DisbursedWasReady
<1>4. ASSUME ~disturbed' PROVE \A q \in Requests : FreshOK(req[q])'
  BY <1>4 DEF Inv, FreshOK
<1>5. ASSUME ~disturbed' PROVE Orderly'
  BY <1>5 DEF Inv, Orderly
<1> QED
  BY <1>1, <1>2, <1>3, <1>4, <1>5 DEF Inv

(* What a write owes the invariant.                                        *)
LEMMA WriteKeeps ==
    ASSUME Inv, Remembers, NEW r \in Requests, NEW x \in Executions, NEW file \in BOOLEAN,
           Writes(r, x, file), x.at \notin InTransaction, signed' = signed \/ req[r].at = "commit",
           loan' \in Loans, signed' \subseteq Roles, schedule' \in Dates \cup {NoDate}, replaced' \in BOOLEAN,
           loan'.online = loan.online, loan.attested => loan'.attested,
           ExecOK(x), x.fresh => x.fresh = req[r].fresh,
           loan'.status = "ACTIVE" => schedule' # NoDate,
           schedule' # NoDate => schedule' \in approvedOn /\ (loan'.online => loan'.attested),
           loan'.status = "PENDING_DISBURSEMENT" => (loan'.online => loan'.attested),
           ~disturbed /\ req[r].fresh /\ FreshOK(req[r]) /\ Orderly => Orderly' /\ FreshOK(x)'
    PROVE  Inv'
<1>1. /\ disturbed' \in BOOLEAN
      /\ ~disturbed' => ~disturbed /\ req[r].fresh /\ FreshOK(req[r]) /\ Orderly
  BY DEF Writes, Inv, TypeOK, Executions
<1>2. \A q \in Requests \ {r} :
        /\ req[q] \in Executions /\ req'[q] \in Executions /\ ~req'[q].fresh
        /\ req'[q].at = req[q].at /\ req'[q].op = req[q].op /\ req'[q].status = req[q].status
        /\ req'[q].date = req[q].date /\ req'[q].pdf = req[q].pdf
        /\ req'[q].role = req[q].role /\ req'[q].both = req[q].both
  BY DEF Writes, Inv, TypeOK, Executions
<1>3. req'[r] = x /\ req' = [q \in Requests |-> req'[q]]
  BY DEF Writes
<1>4. req' \in [Requests -> Executions]
  BY <1>2, <1>3
<1>5. ASSUME NEW q \in Requests PROVE ExecOK(req[q])'
  <2>1. CASE q = r
    BY <1>3, <2>1, RemembersMore DEF ExecOK
  <2>2. CASE q # r
    BY <1>2, <2>2, RemembersMore DEF ExecOK, Inv
  <2> QED
    BY <2>1, <2>2
<1>6. TypeOK'
  BY <1>1, <1>4, <1>5, RemembersMore DEF TypeOK, Writing, ExecOK
<1>7. Ready'
  BY RemembersMore DEF Ready, DisbursedWasReady
<1>9. Serial'
  <2>1. CASE signed' = signed
    BY <1>2, <1>3, <2>1, SerialStays DEF Inv
  <2>2. CASE req[r].at = "commit"
    <3>1. \A q \in Requests : req'[q].at \notin InTransaction
      BY <1>2, <1>3, <2>2 DEF Inv, Serial, InTransaction
    <3> QED
      BY <3>1 DEF Serial, InTransaction
  <2> QED
    BY <2>1, <2>2
<1>8. ASSUME ~disturbed', NEW q \in Requests PROVE FreshOK(req[q])'
  BY <1>1, <1>2, <1>3, <1>8 DEF FreshOK
<1> QED
  BY <1>1, <1>5, <1>6, <1>7, <1>8, <1>9 DEF Inv

LEMMA ReadInv ==
    ASSUME Inv, NEW r \in Requests, Read(r), Remembers
    PROVE  Inv'
<1> DEFINE Fits(op, x) ==
        /\ x \in Executions /\ ~x.fresh /\ x.at # "idle" /\ x.at \notin InTransaction
        /\ x.at = "date" => op = "sign"
        /\ x.at \in {"remove", "put"} => op \in {"upload", "scan"} /\ x.pdf \in Pdfs
        /\ x.pdf # NoPdf => x.pdf.kept
        /\ op \in {"attest", "meeting", "cancel"} => x.status # "ACTIVE"
        /\ op = "cancel" => x.status = "CANCELLED"
        /\ op = "meeting" /\ x.status = "PENDING_DISBURSEMENT" => (loan.online => loan.attested)
        /\ op = "sign" => x.at = "date"
        /\ op = "countersign" => x.pdf \in Pdfs /\ x.pdf = loan.pdf
        /\ op = "disburse" =>
              /\ x.date \in approvedOn /\ (loan.online => loan.attested)
              /\ loan.review = "APPROVED" /\ loan.pdf # NoPdf
        /\ loan.status \in Accepts(op)
<1>a. Idle \in Executions /\ loan \in Loans
  BY IdleOK DEF Inv, TypeOK
<1>1. ASSUME NEW op \in Ops, NEW x, Fits(op, x), Reads(r, op, x) PROVE Inv'
  <2> DEFINE y == [x EXCEPT !.op = op, !.fresh = ~disturbed]
  <2>1. y \in Executions
    BY <1>1 DEF Executions, Inv, TypeOK
  <2>2. /\ y.at = x.at /\ y.op = op /\ y.status = x.status /\ y.date = x.date /\ y.pdf = x.pdf
        /\ y.fresh = ~disturbed
    BY <1>1 DEF Executions
  <2>3. req' = [req EXCEPT ![r] = y] /\ req[r].at = "idle" /\ UNCHANGED <<rows, ghosts>>
    BY <1>1 DEF Reads
  <2> HIDE DEF y
  <2>4. ExecOK(y) /\ FreshOK(y)
    BY <1>1, <2>2 DEF ExecOK, FreshOK
  <2>5. req' \in [Requests -> Executions] /\ \A q \in Requests : req'[q] = IF q = r THEN y ELSE req[q]
    BY <2>1, <2>3 DEF Inv, TypeOK
  <2>6. Serial'
    BY <1>1, <2>2, <2>3, <2>5, SerialStays DEF Inv, rows
  <2> QED
    BY <1>a, <2>3, <2>4, <2>5, <2>6, MovesOn DEF rows
<1> USE <1>a DEF Executions, Idle, Accepts, InTransaction
<1>2. ASSUME ReadForAttestation(r) PROVE Inv'
  <2>0. loan.status \in PreDisbursement /\ loan.status # "ACTIVE" /\ loan.status \in Statuses
    BY <1>2 DEF ReadForAttestation, PreDisbursement, Statuses
  <2>1. Fits("attest", [Idle EXCEPT !.at = "write", !.status = "PENDING_DISBURSEMENT"])
    BY <2>0 DEF Statuses, PreDisbursement
  <2>2. Fits("meeting", [Idle EXCEPT !.at = "write", !.status = loan.status])
    BY <2>0 DEF Inv, Ready
  <2>3. Fits("cancel", [Idle EXCEPT !.at = "write"])
    BY <2>0
  <2>4. CASE Reads(r, "attest", [Idle EXCEPT !.at = "write", !.status = "PENDING_DISBURSEMENT"])
    BY <1>1, <2>1, <2>4 DEF Ops
  <2>5. CASE ~loan.attested /\ Reads(r, "meeting", [Idle EXCEPT !.at = "write", !.status = loan.status])
    BY <1>1, <2>2, <2>5 DEF Ops
  <2>6. CASE Reads(r, "cancel", [Idle EXCEPT !.at = "write"])
    BY <1>1, <2>3, <2>6 DEF Ops
  <2> QED
    BY <1>2, <2>4, <2>5, <2>6 DEF ReadForAttestation
<1>3. ASSUME ReadToReview(r) PROVE Inv'
  <2>1. Fits("approve", [Idle EXCEPT !.at = "write"]) /\ Fits("reject", [Idle EXCEPT !.at = "write"])
    BY <1>3 DEF ReadToReview
  <2> QED
    BY <1>1, <1>3, <2>1 DEF Ops, ReadToReview
<1>4. Scan \in Pdfs /\ Scan.kept
  BY DEF Scan, Pdfs
<1>5. ASSUME ReadToUpload(r) PROVE Inv'
  <2> PICK d \in Dates :
        Reads(r, "upload", [Idle EXCEPT !.at = "remove", !.date = d, !.pdf = Scan, !.same = TRUE])
    BY <1>5 DEF ReadToUpload
  <2>1. Fits("upload", [Idle EXCEPT !.at = "remove", !.date = d, !.pdf = Scan, !.same = TRUE])
    BY <1>4, <1>5 DEF ReadToUpload
  <2> QED
    BY <1>1, <2>1 DEF Ops
<1>6. ASSUME ReadToScan(r) PROVE Inv'
  <2>1. loan.status \in Statuses
    BY DEF Loans
  <2>2. Fits("scan", [Idle EXCEPT !.at = "remove", !.pdf = Scan, !.same = TRUE])
    BY <1>4, <2>1
  <2> QED
    BY <1>1, <1>6, <2>2 DEF Ops, ReadToScan
<1>7. ASSUME ReadToSign(r) PROVE Inv'
  <2>1. Fits("sign", [Idle EXCEPT !.at = "date"])
    BY <1>7 DEF ReadToSign
  <2> QED
    BY <1>1, <1>7, <2>1 DEF Ops, ReadToSign
<1>8. ASSUME ReadToCountersign(r) PROVE Inv'
  <2> PICK role \in Roles \ signed :
        Reads(r, "countersign", [Idle EXCEPT !.at = "write", !.role = role, !.pdf = loan.pdf])
    BY <1>8 DEF ReadToCountersign
  <2>1. loan.status \in Statuses /\ loan.pdf \in Pdfs /\ loan.pdf.kept
    BY <1>8 DEF Loans, ReadToCountersign
  <2>2. Fits("countersign", [Idle EXCEPT !.at = "write", !.role = role, !.pdf = loan.pdf])
    BY <2>1
  <2> QED
    BY <1>1, <2>2 DEF Ops
<1>9. ASSUME ReadToDisburse(r) PROVE Inv'
  <2>1. Fits("disburse", [Idle EXCEPT !.at = "write", !.date = loan.date])
    BY <1>9 DEF ReadToDisburse, Inv, Ready, Loans
  <2> QED
    BY <1>1, <1>9, <2>1 DEF Ops, ReadToDisburse
<1> QED
  BY <1>2, <1>3, <1>5, <1>6, <1>7, <1>8, <1>9 DEF Read

(* The steps of an execution that write no more than the date.             *)
LEMMA SmallStepInv ==
    ASSUME Inv, NEW r \in Requests, Remembers, DateAgreement(r) \/ TransactionFails(r)
    PROVE  Inv'
<1>t. req \in [Requests -> Executions] /\ loan \in Loans /\ req[r] \in Executions /\ ExecOK(req[r])
  BY DEF Inv, TypeOK
<1>1. CASE DateAgreement(r)
  <2> PICK d \in Dates :
        /\ loan' = [loan EXCEPT !.date = d]
        /\ req' = [req EXCEPT ![r].at = "write",
                              ![r].pdf = [date |-> d, signers |-> {"BORROWER"}, kept |-> TRUE]]
    BY <1>1 DEF DateAgreement
  <2> DEFINE pdf == [date |-> d, signers |-> {"BORROWER"}, kept |-> TRUE]
             y == [req[r] EXCEPT !.at = "write", !.pdf = pdf]
  <2>1. pdf \in Pdfs /\ pdf.kept
    BY DEF Pdfs
  <2>2. req[r].at = "date" /\ req[r].op = "sign" /\ UNCHANGED <<signed, schedule, ghosts>>
    BY <1>1, <1>t DEF DateAgreement, ExecOK
  <2>3. \A q \in Requests : req'[q] = IF q = r THEN y ELSE req[q]
    BY <1>t
  <2> HIDE DEF pdf
  <2>4. /\ y \in Executions /\ y.at = "write" /\ y.op = "sign" /\ y.pdf = pdf /\ y.fresh = req[r].fresh
        /\ y.status = req[r].status /\ y.date = req[r].date
    BY <1>t, <2>1, <2>2 DEF Executions
  <2>5. req' \in [Requests -> Executions]
    BY <1>t, <2>3, <2>4
  <2> HIDE DEF y
  <2>6. ExecOK(y)
    BY <2>1, <2>4 DEF ExecOK, InTransaction
  <2>7. ~disturbed => FreshOK(y)
    BY <2>2, <2>4 DEF FreshOK, Inv
  <2>8. /\ loan' \in Loans /\ loan'.status = loan.status /\ loan'.online = loan.online
        /\ loan'.attested = loan.attested /\ loan'.pdf = loan.pdf /\ loan'.review = loan.review
    BY <1>t DEF Loans
  <2>9. Serial'
    BY <2>2, <2>3, <2>4, SerialStays DEF Inv, InTransaction
  <2> QED
    BY <2>2, <2>3, <2>5, <2>6, <2>7, <2>8, <2>9, MovesOn
<1>2. CASE TransactionFails(r)
  <2>1. /\ req' = [req EXCEPT ![r] = Idle] /\ UNCHANGED <<rows, ghosts>> /\ req[r].at \in {"write", "count"}
    BY <1>2 DEF TransactionFails, Writing
  <2>2. req' \in [Requests -> Executions] /\ \A q \in Requests : req'[q] = IF q = r THEN Idle ELSE req[q]
    BY <1>t, <2>1, IdleOK
  <2>3. Serial'
    BY <2>1, <2>2, IdleOK, SerialStays DEF Inv, InTransaction, rows
  <2> QED
    BY <1>t, <2>1, <2>2, <2>3, IdleOK, MovesOn DEF rows
<1> QED
  BY <1>1, <1>2

(* Entering the transaction, with nobody in one, and counting in it.       *)
LEMMA TransactionInv ==
    ASSUME Inv, NEW r \in Requests, Remembers, LockLoan(r) \/ CountSignatures(r)
    PROVE  Inv'
<1>t. /\ req \in [Requests -> Executions] /\ loan \in Loans /\ req[r] \in Executions /\ ExecOK(req[r])
      /\ Serial
  BY DEF Inv, TypeOK
<1> PICK y : y = req'[r]
  OBVIOUS
<1>1. /\ UNCHANGED <<rows, ghosts>>
      /\ y \in Executions /\ y.at \in InTransaction /\ y.op = "countersign"
      /\ y.pdf = req[r].pdf /\ y.fresh = req[r].fresh /\ y.role = req[r].role
      /\ req[r].at \in {"write", "count"} /\ req[r].op = "countersign"
      /\ \A q \in Requests : req'[q] = IF q = r THEN y ELSE req[q]
      /\ req' = [req EXCEPT ![r] = y]
  <2>1. CASE LockLoan(r)
    BY <2>1, <1>t DEF LockLoan, Writing, Executions, InTransaction
  <2>2. CASE CountSignatures(r)
    <3>1. (signed \cup {req[r].role} = Roles) \in BOOLEAN
      OBVIOUS
    <3>2. req[r].op = "countersign" /\ req[r].at = "count"
      BY <2>2, <1>t DEF CountSignatures, ExecOK, InTransaction
    <3> QED
      BY <2>2, <3>1, <3>2, <1>t DEF CountSignatures, Executions, InTransaction
  <2> QED
    BY <2>1, <2>2
<1>2. req' \in [Requests -> Executions]
  BY <1>1, <1>t
<1>3. ExecOK(y)
  BY <1>1, <1>t DEF ExecOK, InTransaction
<1>4. ~disturbed => FreshOK(y)
  BY <1>1, <1>t DEF Inv, FreshOK
<1>5. Serial'
  <2>1. CASE LockLoan(r)
    <3>1. y.at = "count"
      BY <2>1, <1>t DEF LockLoan, Executions
    <3>2. \A q \in Requests \ {r} : req'[q].at \notin InTransaction
      BY <2>1, <1>1 DEF LockLoan, Unlocked
    <3> QED
      BY <3>1, <3>2, <1>1 DEF Serial, InTransaction
  <2>2. CASE CountSignatures(r)
    <3>1. req[r].at = "count" /\ (y.both <=> signed \cup {req[r].role} = Roles)
      BY <2>2, <1>t DEF CountSignatures, Executions
    <3>2. \A q \in Requests \ {r} : req'[q].at \notin InTransaction
      BY <3>1, <1>1, <1>t DEF Serial, InTransaction
    <3> QED
      BY <3>1, <3>2, <1>1 DEF Serial, InTransaction, rows
  <2> QED
    BY <2>1, <2>2
<1>6. req[r].at # "put"
  BY <1>1
<1> QED
  BY <1>t, <1>1, <1>2, <1>3, <1>4, <1>5, <1>6, MovesOn DEF rows

LEMMA SetDateInv ==
    ASSUME Inv, Remembers, SetDate
    PROVE  Inv'
<1>1. /\ loan' \in Loans /\ loan'.status = loan.status /\ loan'.online = loan.online
      /\ loan'.attested = loan.attested /\ loan'.pdf = loan.pdf /\ loan'.review = loan.review
  BY DEF SetDate, Loans, Inv, TypeOK
<1>2. Serial'
  BY SerialStays DEF SetDate, Inv
<1> QED
  BY <1>1, <1>2, MovesOn DEF SetDate, Inv, TypeOK

(* A write takes no other upload out of its gap.                           *)
LEMMA PutsStay ==
    ASSUME Inv, NEW r \in Requests, NEW x, NEW file, Writes(r, x, file),
           req[r].at # "put" \/ x.at = "put",
           \E q \in Requests : req[q].at = "put"
    PROVE  \E q \in Requests : req'[q].at = "put"
<1> PICK q \in Requests : req[q].at = "put"
  OBVIOUS
<1>1. CASE q = r
  BY <1>1 DEF Writes
<1>2. CASE q # r
  <2>1. req'[q].at = "put"
    BY <1>2 DEF Writes, Inv, TypeOK, Executions
  <2> QED
    BY <2>1
<1> QED
  BY <1>1, <1>2

LEMMA WriteStatusInv ==
    ASSUME Inv, NEW r \in Requests, Remembers, WriteStatus(r) \/ WriteReview(r)
    PROVE  Inv'
<1>t. /\ req[r] \in Executions /\ ExecOK(req[r]) /\ loan \in Loans /\ Ready
      /\ signed \subseteq Roles /\ schedule \in Dates \cup {NoDate} /\ replaced \in BOOLEAN
  BY DEF Inv, TypeOK
<1>1. CASE WriteStatus(r)
  <2>1. /\ req[r].at = "write" /\ req[r].op \in {"attest", "meeting", "cancel"}
        /\ loan' = [loan EXCEPT !.status = req[r].status, !.attested = @ \/ req[r].op = "attest"]
        /\ Writes(r, Idle, FALSE) /\ UNCHANGED <<signed, schedule, replaced>>
    BY <1>1 DEF WriteStatus, Writing
  <2>2. req[r].status \in Statuses /\ req[r].status # "ACTIVE"
    BY <1>t, <2>1 DEF Executions, ExecOK
  <2>3. /\ loan' \in Loans /\ loan'.status = req[r].status /\ loan'.pdf = loan.pdf
        /\ loan'.online = loan.online /\ loan'.review = loan.review
    BY <1>t, <2>1, <2>2 DEF Loans
  <2>4. (loan.attested => loan'.attested) /\ (req[r].op = "attest" => loan'.attested)
    BY <1>t, <2>1 DEF Loans
  <2>5. loan'.status = "PENDING_DISBURSEMENT" => (loan'.online => loan'.attested)
    BY <1>t, <2>1, <2>3, <2>4 DEF ExecOK
  <2>6. ASSUME req[r].fresh, FreshOK(req[r]), Orderly PROVE Orderly'
    <3>1. loan.status # "ACTIVE"
      BY <2>1, <2>6 DEF FreshOK, Accepts, PreDisbursement
    <3>2. loan.pdf # NoPdf => loan.pdf.kept \/ \E q \in Requests : req'[q].at = "put"
      BY <2>1, <2>6, PutsStay DEF Orderly
    <3> QED
      BY <3>1, <3>2, <2>1, <2>2, <2>3, <2>6 DEF Orderly
  <2>7. schedule' # NoDate => schedule' \in approvedOn /\ (loan'.online => loan'.attested)
    BY <1>t, <2>1, <2>3, <2>4 DEF Ready, DisbursedWasReady
  <2> QED
    BY <1>t, <2>1, <2>2, <2>3, <2>4, <2>5, <2>6, <2>7, IdleOK, WriteKeeps DEF InTransaction
<1>2. CASE WriteReview(r)
  <2>1. /\ req[r].at = "write" /\ req[r].op \in {"approve", "reject"}
        /\ loan' = [loan EXCEPT !.review = IF req[r].op = "approve" THEN "APPROVED" ELSE "REJECTED"]
        /\ Writes(r, Idle, FALSE) /\ UNCHANGED <<signed, schedule, replaced>>
    BY <1>2 DEF WriteReview, Writing
  <2>2. /\ loan' \in Loans /\ loan'.status = loan.status /\ loan'.pdf = loan.pdf
        /\ loan'.online = loan.online /\ loan'.attested = loan.attested
    BY <1>t, <2>1 DEF Loans, Reviews
  <2>3. ASSUME req[r].fresh, FreshOK(req[r]), Orderly PROVE Orderly'
    <3>1. loan.status # "ACTIVE"
      BY <2>1, <2>3 DEF FreshOK, Accepts
    <3>2. loan.pdf # NoPdf => loan.pdf.kept \/ \E q \in Requests : req'[q].at = "put"
      BY <2>1, <2>3, PutsStay DEF Orderly
    <3> QED
      BY <3>1, <3>2, <2>1, <2>2, <2>3 DEF Orderly
  <2>4. schedule' # NoDate => schedule' \in approvedOn /\ (loan'.online => loan'.attested)
    BY <1>t, <2>1, <2>2 DEF Ready, DisbursedWasReady
  <2> QED
    BY <1>t, <2>1, <2>2, <2>3, <2>4, IdleOK, WriteKeeps DEF Ready, DisbursedWasReady, InTransaction
<1> QED
  BY <1>1, <1>2

LEMMA RemoveFileInv ==
    ASSUME Inv, NEW r \in Requests, Remembers, RemoveFile(r)
    PROVE  Inv'
<1> PICK y : y = [req[r] EXCEPT !.at = "put"]
  OBVIOUS
<1>t. /\ req \in [Requests -> Executions] /\ req[r] \in Executions /\ ExecOK(req[r]) /\ loan \in Loans
      /\ Ready /\ signed \subseteq Roles /\ schedule \in Dates \cup {NoDate} /\ replaced \in BOOLEAN
      /\ req[r].at = "remove" /\ UNCHANGED <<signed, schedule, replaced>>
  BY DEF Inv, TypeOK, RemoveFile
<1>1. /\ y \in Executions /\ y.at = "put" /\ y.op = req[r].op /\ y.pdf = req[r].pdf
      /\ y.fresh = req[r].fresh /\ y.status = req[r].status /\ y.date = req[r].date
  BY <1>t DEF Executions
<1>2. ExecOK(y) /\ (FreshOK(req[r]) => FreshOK(y))
  BY <1>t, <1>1 DEF ExecOK, FreshOK, InTransaction
<1>3. CASE req' = [req EXCEPT ![r].at = "put"] /\ UNCHANGED <<loan, disturbed>>
  <2>1. \A q \in Requests : req'[q] = IF q = r THEN y ELSE req[q]
    BY <1>3, <1>t
  <2>2. req' \in [Requests -> Executions]
    BY <1>3, <2>1, <1>1, <1>t
  <2>3. ~disturbed => FreshOK(y)
    BY <1>2 DEF Inv
  <2>4. Serial'
    BY <1>t, <1>1, <2>1, SerialStays DEF Inv, InTransaction
  <2> QED
    BY <1>t, <1>2, <1>3, <2>1, <2>2, <2>3, <2>4, MovesOn DEF ghosts
<1>4. CASE /\ req[r].same /\ loan.pdf # NoPdf
           /\ loan' = [loan EXCEPT !.pdf.kept = FALSE]
           /\ Writes(r, y, FALSE)
  <2>1. loan.pdf \in Pdfs
    BY <1>4, <1>t DEF Loans
  <2>2. /\ [loan.pdf EXCEPT !.kept = FALSE] \in Pdfs
        /\ [loan.pdf EXCEPT !.kept = FALSE].signers = loan.pdf.signers
    BY <2>1 DEF Pdfs
  <2>3. loan' = [loan EXCEPT !.pdf = [loan.pdf EXCEPT !.kept = FALSE]]
    BY <1>4
  <2>4. /\ loan' \in Loans /\ loan'.status = loan.status /\ loan'.online = loan.online
        /\ loan'.attested = loan.attested /\ loan'.review = loan.review
        /\ loan'.pdf = [loan.pdf EXCEPT !.kept = FALSE]
    BY <2>2, <2>3, <1>t DEF Loans
  <2>5. loan'.pdf # NoPdf /\ loan'.pdf.signers = loan.pdf.signers
    BY <2>2, <2>4, NoPdfAssumption
  <2>6. req'[r] = y
    BY <1>4 DEF Writes
  <2>7. ASSUME req[r].fresh, FreshOK(req[r]), Orderly PROVE Orderly' /\ FreshOK(y)'
    <3>1. Orderly'
      BY <2>4, <2>5, <2>6, <2>7, <1>1, <1>t DEF Orderly
    <3>2. FreshOK(y)'
      BY <2>4, <2>7, <1>t, <1>1 DEF FreshOK, ExecOK
    <3> QED
      BY <3>1, <3>2
  <2> QED
    BY <1>t, <1>1, <1>2, <1>4, <2>4, <2>7, WriteKeeps DEF Ready, DisbursedWasReady, InTransaction
<1> QED
  BY <1>3, <1>4 DEF RemoveFile

LEMMA PutInv ==
    ASSUME Inv, NEW r \in Requests, Remembers, PutUpload(r) \/ WriteSignature(r)
    PROVE  Inv'
<1>t. /\ req[r] \in Executions /\ ExecOK(req[r]) /\ loan \in Loans
      /\ Ready /\ signed \subseteq Roles /\ schedule \in Dates \cup {NoDate} /\ replaced \in BOOLEAN
      /\ UNCHANGED <<signed, schedule>> /\ Writes(r, Idle, TRUE)
      /\ replaced' = (replaced \/ signed # {})
  BY DEF Inv, TypeOK, PutUpload, WriteSignature
<1>1. /\ req[r].pdf \in Pdfs /\ req[r].date \in Dates \cup {NoDate}
      /\ req[r].op \in {"upload", "scan", "sign"}
      /\ loan' = CASE req[r].op = "upload" -> [loan EXCEPT !.pdf = req[r].pdf, !.review = "PENDING", !.date = req[r].date]
                   [] req[r].op = "scan"   -> [loan EXCEPT !.pdf = req[r].pdf, !.review = "APPROVED"]
                   [] OTHER -> [loan EXCEPT !.pdf = req[r].pdf, !.fields = TRUE, !.review = "PENDING"]
  BY <1>t DEF PutUpload, WriteSignature, Writing, ExecOK, Executions
<1>2. /\ loan' \in Loans /\ loan'.status = loan.status /\ loan'.online = loan.online
      /\ loan'.attested = loan.attested /\ loan'.pdf = req[r].pdf
      /\ loan'.review = IF req[r].op = "scan" THEN "APPROVED" ELSE "PENDING"
  BY <1>t, <1>1 DEF Loans, Reviews
<1>3. loan'.pdf # NoPdf /\ loan'.pdf.kept
  BY <1>t, <1>1, <1>2, NoPdfAssumption DEF ExecOK
<1>4. ASSUME req[r].fresh, FreshOK(req[r]), Orderly PROVE Orderly'
  <2>1. req[r].op = "scan" \/ loan.status # "ACTIVE"
    BY <1>1, <1>4 DEF FreshOK, Accepts, PreDisbursement
  <2> QED
    BY <2>1, <1>t, <1>1, <1>2, <1>3, <1>4 DEF Orderly
<1> QED
  BY <1>t, <1>2, <1>4, IdleOK, WriteKeeps DEF Ready, DisbursedWasReady, InTransaction

LEMMA CountersignInv ==
    ASSUME Inv, NEW r \in Requests, Remembers, WriteCountersignature(r)
    PROVE  Inv'
<1>t. /\ req[r] \in Executions /\ ExecOK(req[r]) /\ loan \in Loans
      /\ Ready /\ signed \subseteq Roles /\ schedule \in Dates \cup {NoDate} /\ replaced \in BOOLEAN
      /\ req[r].at = "commit" /\ req[r].op = "countersign" /\ Writes(r, Idle, TRUE)
      /\ UNCHANGED <<schedule, replaced>> /\ req[r].both \in BOOLEAN
  BY DEF Inv, TypeOK, WriteCountersignature, ExecOK, InTransaction, Executions
<1> DEFINE pdf == [req[r].pdf EXCEPT !.signers = @ \cup {req[r].role}]
<1>1. req[r].pdf \in Pdfs /\ req[r].role \in Roles /\ req[r].pdf.kept
  BY <1>t, NoPdfAssumption DEF ExecOK, Executions, InTransaction
<1>2. pdf \in Pdfs /\ pdf.signers = req[r].pdf.signers \cup {req[r].role} /\ pdf.kept
  BY <1>1 DEF Pdfs, Roles
<1> HIDE DEF pdf
<1>3. /\ signed' = signed \cup {req[r].role}
      /\ loan' = [loan EXCEPT !.pdf = pdf, !.review = IF req[r].both THEN "APPROVED" ELSE loan.review]
  BY DEF WriteCountersignature, pdf
<1>4. /\ loan' \in Loans /\ loan'.status = loan.status /\ loan'.online = loan.online
      /\ loan'.attested = loan.attested /\ loan'.pdf = pdf
      /\ loan'.review = IF req[r].both THEN "APPROVED" ELSE loan.review
  BY <1>t, <1>2, <1>3 DEF Loans, Reviews
<1>5. loan'.pdf # NoPdf
  BY <1>2, <1>4, NoPdfAssumption
<1>6. ASSUME req[r].fresh, FreshOK(req[r]), Orderly PROVE Orderly'
  <2>1. loan.pdf = req[r].pdf
    BY <1>t, <1>6 DEF FreshOK
  <2>2. signed' # {} /\ ~replaced' => signed' \subseteq loan'.pdf.signers
    BY <2>1, <1>t, <1>2, <1>3, <1>4, <1>6 DEF Orderly
  <2> QED
    BY <2>2, <1>t, <1>2, <1>4, <1>5, <1>6 DEF Orderly
<1>7. signed' \subseteq Roles
  BY <1>t, <1>1, <1>3
<1> QED
  BY <1>t, <1>4, <1>6, <1>7, IdleOK, WriteKeeps DEF Ready, DisbursedWasReady, InTransaction

LEMMA DisburseInv ==
    ASSUME Inv, NEW r \in Requests, Remembers, WriteDisbursement(r)
    PROVE  Inv'
<1>t. /\ req[r] \in Executions /\ ExecOK(req[r]) /\ loan \in Loans /\ Ready /\ approvedOn \subseteq Dates
      /\ signed \subseteq Roles /\ replaced \in BOOLEAN
      /\ req[r].at = "write" /\ req[r].op = "disburse" /\ Writes(r, Idle, FALSE)
      /\ schedule = NoDate /\ schedule' = req[r].date /\ loan' = [loan EXCEPT !.status = "ACTIVE"]
      /\ UNCHANGED <<signed, replaced>>
  BY DEF Inv, TypeOK, WriteDisbursement, Writing
<1>1. schedule' \in approvedOn /\ schedule' \in Dates /\ schedule' # NoDate /\ (loan.online => loan.attested)
  BY <1>t, DatesAssumption DEF ExecOK
<1>2. /\ loan' \in Loans /\ loan'.status = "ACTIVE" /\ loan'.online = loan.online
      /\ loan'.attested = loan.attested /\ loan'.pdf = loan.pdf /\ loan'.review = loan.review
  BY <1>t DEF Loans, Statuses
<1>3. ASSUME req[r].fresh, FreshOK(req[r]), Orderly PROVE Orderly'
  <2>1. loan.review = "APPROVED" /\ loan.pdf # NoPdf
    BY <1>t, <1>3 DEF FreshOK
  <2>2. loan.pdf # NoPdf => loan.pdf.kept \/ \E q \in Requests : req'[q].at = "put"
    BY <1>t, <1>3, PutsStay DEF Orderly
  <2> QED
    BY <2>1, <2>2, <1>t, <1>1, <1>2, <1>3 DEF Orderly
<1> QED
  BY <1>t, <1>1, <1>2, <1>3, IdleOK, WriteKeeps DEF InTransaction

LEMMA AbandonInv ==
    ASSUME Inv, NEW r \in Requests, Remembers, Abandon(r)
    PROVE  Inv'
<1>1. /\ UNCHANGED <<rows, replaced>> /\ req' = [req EXCEPT ![r] = Idle]
      /\ disturbed' \in BOOLEAN /\ (~disturbed' => ~disturbed /\ req[r].at # "put")
  BY DEF Abandon, Inv, TypeOK
<1> USE DEF rows
<1>2. req' \in [Requests -> Executions] /\ \A q \in Requests : req'[q] = IF q = r THEN Idle ELSE req[q]
  BY <1>1, IdleOK DEF Inv, TypeOK
<1>3. \A q \in Requests : ExecOK(req[q])'
  BY <1>1, <1>2, IdleOK, RemembersMore DEF Inv, TypeOK, ExecOK
<1>4. TypeOK'
  BY <1>1, <1>2, <1>3, RemembersMore DEF Inv, TypeOK, Writing, ExecOK
<1>5. Ready'
  BY <1>1, RemembersMore DEF Inv, TypeOK, Ready, DisbursedWasReady
<1>6. ASSUME ~disturbed' PROVE Orderly' /\ \A q \in Requests : FreshOK(req[q])'
  <2>1. \A q \in Requests : FreshOK(req[q])'
    BY <1>1, <1>2, <1>6, IdleOK DEF Inv, FreshOK
  <2>2. \A q \in Requests : req[q].at = "put" => req'[q].at = "put"
    BY <1>1, <1>2, <1>6
  <2>3. Orderly'
    BY <1>1, <1>6, <2>2 DEF Inv, Orderly
  <2> QED
    BY <2>1, <2>3
<1>7. Serial'
  BY <1>1, <1>2, IdleOK, SerialStays DEF Inv, InTransaction
<1> QED
  BY <1>3, <1>4, <1>5, <1>6, <1>7 DEF Inv

LEMMA StepInv == Inv /\ [Next]_vars => Inv'
<1> SUFFICES ASSUME Inv, [Next]_vars PROVE Inv'
  OBVIOUS
<1>1. CASE Remembers /\ SetDate
  BY <1>1, SetDateInv
<1>2. ASSUME NEW r \in Requests, Remembers, Read(r) \/ Write(r) \/ Abandon(r)
      PROVE  Inv'
  BY <1>2, ReadInv, SmallStepInv, TransactionInv, WriteStatusInv, RemoveFileInv, PutInv, CountersignInv, DisburseInv,
     AbandonInv DEF Write
<1>3. CASE UNCHANGED vars
  BY <1>3 DEF vars, rows, ghosts, Inv, TypeOK, Writing, ExecOK, Ready, Serial, DisbursedWasReady, Orderly, FreshOK
<1> QED
  BY <1>1, <1>2, <1>3 DEF Next, Remembers

LEMMA InvAlways == Spec => []Inv
  BY InitInv, StepInv, PTL DEF Spec

-----------------------------------------------------------------------------
(* However the endpoints interleave: the values keep their types, an       *)
(* active loan has a schedule, that schedule follows a date the loan had   *)
(* while its agreement was approved, and an online loan was attested.      *)
THEOREM DisbursementSafe == Spec => [](TypeOK /\ DisbursedWasReady)
<1>1. Inv => TypeOK /\ DisbursedWasReady
  BY DEF Inv, Ready
<1> QED
  BY <1>1, InvAlways, PTL

(* The loan stays within its states, for any number of requests.           *)
THEOREM DisbursementTyped == Spec => []TypeOK
BY DisbursementSafe, PTL

(* However the endpoints interleave, an active loan has a schedule, after a*)
(* date it had while its agreement was approved.                           *)
THEOREM PaidOutWhenReady == Spec => []DisbursedWasReady
BY DisbursementSafe, PTL

(* The record of the loan goes wrong only by a write decided on a row that *)
(* changed, or by an upload that died between deleting and storing.        *)
THEOREM RecordHolds == Spec => []OnlyDisturbedGoWrong
<1>1. Inv => OnlyDisturbedGoWrong
  BY DEF Inv, OnlyDisturbedGoWrong
<1> QED
  BY <1>1, InvAlways, PTL

(* Whoever of the internal signers commits second has counted both rows    *)
(* and approves the agreement.                                             *)
THEOREM SecondSignatureApproves == Spec => LastSignatureApproves
<1>1. ASSUME Inv, [Next]_vars, signed # Roles, signed' = Roles PROVE loan'.review = "APPROVED"
  <2>1. signed' # signed
    BY <1>1
  <2> PICK r \in Requests : WriteCountersignature(r)
    BY <1>1, <2>1
       DEF Next, SetDate, Read, ReadForAttestation, ReadToReview, ReadToUpload, ReadToScan, ReadToSign,
           ReadToCountersign, ReadToDisburse, Reads, Write, WriteStatus, WriteReview, RemoveFile, PutUpload,
           DateAgreement, WriteSignature, LockLoan, CountSignatures, WriteDisbursement, TransactionFails,
           Abandon, rows, vars
  <2>2. req[r].at = "commit" /\ signed \cup {req[r].role} = Roles
    BY <1>1 DEF WriteCountersignature
  <2>3. req[r].both
    BY <1>1, <2>2 DEF Inv, Serial
  <2> QED
    BY <1>1, <2>3 DEF WriteCountersignature, Inv, TypeOK, Loans
<1>2. Inv /\ [Next]_vars => [signed # Roles /\ signed' = Roles => loan'.review = "APPROVED"]_vars
  BY <1>1
<1> QED
  BY <1>2, InvAlways, PTL DEF Spec, LastSignatureApproves
=============================================================================
