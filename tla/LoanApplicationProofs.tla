----------------------- MODULE LoanApplicationProofs -----------------------
(***************************************************************************)
(* Theorems about LoanApplication, for any requests, terms and bound on    *)
(* the offers.                                                             *)
(*                                                                         *)
(* The invariant says three things.  ExecOK: what an execution carries     *)
(* fits the endpoint it serves, and an approval carries what the row lent  *)
(* in the L2 queue.  FreshOK: as long as nobody has written since it read, *)
(* what it found still stands.  ReviewOK: the record is as Reviewed wants  *)
(* it; documents L1 has not seen behind an application in or past the L2   *)
(* queue mean that an upload is about to send it back.  FreshOK and        *)
(* ReviewOK need each other, and hold until something is disturbed.        *)
(***************************************************************************)
EXTENDS LoanApplication, FiniteSetTheorems, TLAPS

ExecOK(x) ==
    /\ x.at = "offers" => x.op \in {"sendToL2", "approve", "counter", "accept"}
    /\ x.at = "reset" => x.op = "document"
    /\ x.at = "idle" => ~x.fresh /\ x.op = "edit"
    /\ x.op \in DOMAIN Outcome => x.to = Outcome[x.op]
    /\ x.at # "idle" /\ x.op \in {"edit", "counter"} => x.terms \in Terms
    /\ x.at = "write" /\ x.op = "accept" => x.terms \in Terms
    /\ x.op = "approve" => x.terms \in stoodAtL2 /\ (x.at = "write" => x.terms # NoTerms)
    /\ x.op # "submit" => x.schedule = "same"
    /\ x.op = "document" => x.to \in {"same", "SUBMITTED", "UNDER_REVIEW"}
    /\ x.ids \subseteq DOMAIN offers

FreshOK(x) ==
    x.fresh =>
        /\ app.status \in Accepts(x.op)
        /\ x.op = "approve" => x.terms = LoanTerms(app.terms, app.schedule)
        /\ x.at = "write" /\ x.op \in {"sendToL2", "approve"} => Pending = {}
        /\ x.at = "write" /\ x.op = "counter" => x.ids = Pending
        /\ x.op = "document" /\ app.status = "PENDING_L2_APPROVAL" => x.to = "SUBMITTED"

SendsBack(x) == x.at = "reset" /\ x.to = "SUBMITTED"

ReviewOK ==
    /\ app.status = "APPROVED" <=> loan # NoTerms
    /\ loan # NoTerms => loan = LoanTerms(app.terms, app.schedule) /\ Pending = {}
    /\ \A i, j \in Pending : i = j
    /\ unseenByL1 /\ app.status \in {"PENDING_L2_APPROVAL", "APPROVED"} => \E r \in Requests : SendsBack(req[r])

Backed ==
    /\ StatusIsBacked
    /\ LoanFollowsL2Row
    /\ app.status = "PENDING_L2_APPROVAL" => LoanTerms(app.terms, app.schedule) \in stoodAtL2

Inv ==
    /\ TypeOK
    /\ \A r \in Requests : ExecOK(req[r])
    /\ Backed
    /\ ~disturbed => ReviewOK /\ \A r \in Requests : FreshOK(req[r])

Remembers == stoodAtL2' = stoodAtL2 \cup {t \in {LoanTerms(app'.terms, app'.schedule)} :
                                            app'.status = "PENDING_L2_APPROVAL"}

-----------------------------------------------------------------------------
(* What is lent is on some terms, or refused.                              *)
LEMMA LentTerms ==
    ASSUME NEW t \in Terms, NEW s \in Schedules \cup {NoSchedule}
    PROVE  LoanTerms(t, s) \in Terms \cup {NoTerms}
<1>1. CASE s = NoSchedule
  BY <1>1 DEF LoanTerms
<1>2. CASE s # NoSchedule
  <2>1. <<t, s>> \in Terms \X Schedules
    BY <1>2
  <2>2. Compliant[<<t, s>>] \in Terms \cup {NoTerms}
    BY <2>1, TermsAssumption
  <2> QED
    BY <1>2, <2>2 DEF LoanTerms
<1> QED
  BY <1>1, <1>2

LEMMA InitInv == Init => Inv
<1> SUFFICES ASSUME Init PROVE Inv
  OBVIOUS
<1> USE TermsAssumption DEF Init
<1>a. offers \in Seq(Offers) /\ Len(offers) <= MaxOffers
  OBVIOUS
<1>b. Idle \in Executions
  BY DEF Executions, Idle, Ops, Parties
<1>c. app \in Applications
  <2>1. PICK t \in Terms, s \in Schedules \cup {NoSchedule} :
          /\ LoanTerms(t, s) # NoTerms
          /\ app = [status |-> "DRAFT", terms |-> LoanTerms(t, s), schedule |-> s, l1 |-> FALSE]
    OBVIOUS
  <2> QED
    BY <2>1, LentTerms DEF Applications, Statuses
<1>1. TypeOK
  BY <1>a, <1>b, <1>c DEF TypeOK
<1>2. Pending = {}
  BY DEF Pending
<1>3. \A r \in Requests : ExecOK(req[r]) /\ FreshOK(req[r])
  BY DEF ExecOK, FreshOK, Idle, Outcome
<1>4. Backed /\ ReviewOK
  BY <1>2, <1>c DEF Backed, StatusIsBacked, LoanFollowsL2Row, ReviewOK
<1> QED
  BY <1>1, <1>3, <1>4 DEF Inv

(* Steps that only move one execution on: the rows and the history stay.   *)
LEMMA MovesOn ==
    ASSUME Inv, NEW r \in Requests, NEW x \in Executions, Goes(r, x), Remembers,
           ExecOK(x), ~disturbed => FreshOK(x), ~SendsBack(req[r])
    PROVE  Inv'
<1> USE DEF Goes, rows, ghosts
<1>1. stoodAtL2' = stoodAtL2
  BY DEF Remembers, Inv, Backed
<1>2. Pending' = Pending
  BY DEF Pending
<1>3. req' \in [Requests -> Executions] /\ req' = [req EXCEPT ![r] = x]
  BY DEF Inv, TypeOK
<1>4. TypeOK'
  BY <1>1, <1>3 DEF Inv, TypeOK
<1>5. \A q \in Requests : ExecOK(req[q])'
  BY <1>1, <1>3 DEF Inv, TypeOK, ExecOK
<1>6. Backed'
  BY <1>1 DEF Inv, Backed, StatusIsBacked, LoanFollowsL2Row
<1>7. ASSUME ~disturbed' PROVE \A q \in Requests : FreshOK(req[q])'
  BY <1>2, <1>3, <1>7 DEF Inv, TypeOK, FreshOK
<1>8. ASSUME ~disturbed' PROVE ReviewOK'
  BY <1>2, <1>3, <1>8 DEF Inv, TypeOK, ReviewOK, SendsBack
<1> QED
  BY <1>4, <1>5, <1>6, <1>7, <1>8 DEF Inv

LEMMA ReadInv ==
    ASSUME Inv, NEW r \in Requests, Read(r), Remembers
    PROVE  Inv'
<1> DEFINE Fits(op, x) ==
        /\ x \in Executions /\ ~x.fresh /\ x.at \in {"offers", "write"} /\ x.ids = {}
        /\ x.at = "offers" <=> op \in {"sendToL2", "approve", "counter", "accept"}
        /\ op \in DOMAIN Outcome => x.to = Outcome[op]
        /\ op \in {"edit", "counter"} => x.terms \in Terms
        /\ op = "approve" => x.terms = LoanTerms(app.terms, app.schedule)
        /\ op # "submit" => x.schedule = "same"
        /\ op = "document" => x.to \in {"same", "SUBMITTED", "UNDER_REVIEW"}
        /\ op = "document" /\ app.status = "PENDING_L2_APPROVAL" => x.to = "SUBMITTED"
<1>a. Idle \in Executions
  BY DEF Executions, Idle, Ops, Parties
<1>1. ASSUME NEW op \in Ops, NEW x, Fits(op, x), Reads(r, op, x) PROVE Inv'
  <2> DEFINE y == [x EXCEPT !.op = op, !.fresh = ~disturbed]
  <2>1. y \in Executions
    BY <1>1 DEF Executions, Inv, TypeOK
  <2>2. Goes(r, y)
    BY <1>1 DEF Reads, Goes
  <2>3. /\ y.at = x.at /\ y.ids = {} /\ y.op = op /\ y.to = x.to /\ y.terms = x.terms
        /\ y.schedule = x.schedule /\ y.fresh = ~disturbed
    BY <1>1 DEF Executions
  <2>4. ExecOK(y)
    <3>1. op = "approve" => LoanTerms(app.terms, app.schedule) \in stoodAtL2
      BY <1>1 DEF Reads, Accepts, Inv, Backed
    <3> HIDE DEF y
    <3> QED
      BY <1>1, <2>3, <3>1 DEF ExecOK
  <2>5. FreshOK(y)
    <3> HIDE DEF y
    <3> QED
      BY <1>1, <2>3 DEF FreshOK, Reads, Outcome
  <2>6. ~SendsBack(req[r])
    BY <1>1 DEF SendsBack, Reads
  <2> HIDE DEF y
  <2> QED
    BY <2>1, <2>2, <2>4, <2>5, <2>6, MovesOn
<1> USE <1>a DEF Executions, Idle
<1>2. ASSUME ReadToDecide(r) PROVE Inv'
  <2> PICK op \in DOMAIN Outcome \ {"submit"} :
        Reads(r, op, [Idle EXCEPT !.at = IF op \in {"sendToL2", "approve"} THEN "offers" ELSE "write",
                                  !.to = Outcome[op],
                                  !.terms = IF op = "approve" THEN LoanTerms(app.terms, app.schedule)
                                            ELSE NoTerms])
    BY <1>2 DEF ReadToDecide
  <2> DEFINE x == [Idle EXCEPT !.at = IF op \in {"sendToL2", "approve"} THEN "offers" ELSE "write",
                               !.to = Outcome[op],
                               !.terms = IF op = "approve" THEN LoanTerms(app.terms, app.schedule)
                                         ELSE NoTerms]
  <2>1. /\ Outcome[op] \in Statuses /\ op \in Ops
        /\ LoanTerms(app.terms, app.schedule) \in Terms \cup {NoTerms}
    BY LentTerms DEF Outcome, Statuses, InReview, L1Queue, Ops, Inv, TypeOK, Applications
  <2>2. Fits(op, x)
    BY <2>1 DEF Outcome
  <2>3. Reads(r, op, x)
    OBVIOUS
  <2> HIDE DEF x, Fits
  <2> QED
    BY <1>1, <2>1, <2>2, <2>3
<1>7. ASSUME ReadToSubmit(r) PROVE Inv'
  <2> PICK s \in {"same"} \cup {s \in Schedules \cup {NoSchedule} : LoanTerms(app.terms, s) # NoTerms} :
        Reads(r, "submit", [Idle EXCEPT !.at = "write", !.to = "SUBMITTED", !.schedule = s])
    BY <1>7 DEF ReadToSubmit
  <2>1. Fits("submit", [Idle EXCEPT !.at = "write", !.to = "SUBMITTED", !.schedule = s])
    BY DEF Outcome, Statuses, InReview, L1Queue
  <2> QED
    BY <1>1, <2>1 DEF Ops, Outcome
<1>3. ASSUME ReadToEdit(r) PROVE Inv'
  <2> PICK t \in Terms : Reads(r, "edit", [Idle EXCEPT !.at = "write", !.terms = t])
    BY <1>3 DEF ReadToEdit
  <2>1. Fits("edit", [Idle EXCEPT !.at = "write", !.terms = t])
    BY DEF Outcome
  <2> QED
    BY <1>1, <2>1 DEF Ops
<1>4. ASSUME ReadToUpload(r) PROVE Inv'
  <2> PICK replaced \in BOOLEAN :
        Reads(r, "document", [Idle EXCEPT !.at = "write", !.to = StatusAfterUpload(replaced)])
    BY <1>4 DEF ReadToUpload
  <2>1. /\ StatusAfterUpload(replaced) \in {"same", "SUBMITTED", "UNDER_REVIEW"}
        /\ app.status = "PENDING_L2_APPROVAL" => StatusAfterUpload(replaced) = "SUBMITTED"
    BY DEF StatusAfterUpload, L1Queue
  <2>2. Fits("document", [Idle EXCEPT !.at = "write", !.to = StatusAfterUpload(replaced)])
    BY <2>1 DEF Outcome, Statuses, InReview, L1Queue
  <2> QED
    BY <1>1, <2>2 DEF Ops
<1>5. ASSUME ReadToNegotiate(r) PROVE Inv'
  <2> PICK party \in Parties :
        \/ \E t \in Terms : Reads(r, "counter", [Idle EXCEPT !.at = "offers", !.party = party, !.terms = t])
        \/ Reads(r, "accept", [Idle EXCEPT !.at = "offers", !.party = party])
    BY <1>5 DEF ReadToNegotiate
  <2>1. ASSUME NEW t \in Terms PROVE Fits("counter", [Idle EXCEPT !.at = "offers", !.party = party, !.terms = t])
    BY DEF Outcome
  <2>2. Fits("accept", [Idle EXCEPT !.at = "offers", !.party = party])
    BY DEF Outcome
  <2> QED
    BY <1>1, <2>1, <2>2 DEF Ops
<1>6. ASSUME ReadToReject(r) PROVE Inv'
  <2>1. Fits("rejectOffers", [Idle EXCEPT !.at = "write"])
    BY DEF Outcome
  <2> QED
    BY <1>1, <1>6, <2>1 DEF Ops, ReadToReject
<1> QED
  BY <1>2, <1>3, <1>4, <1>5, <1>6, <1>7 DEF Read

LEMMA LookInv ==
    ASSUME Inv, NEW r \in Requests, LookAtOffers(r), Remembers
    PROVE  Inv'
<1>t. /\ req[r] \in Executions /\ ExecOK(req[r]) /\ ~SendsBack(req[r])
      /\ ~disturbed => FreshOK(req[r])
  BY DEF Inv, TypeOK, SendsBack, LookAtOffers, CountPending, Supersede, PickOffer
<1>i. Idle \in Executions /\ ExecOK(Idle) /\ FreshOK(Idle)
  BY DEF Executions, Idle, Ops, Parties, ExecOK, FreshOK, Outcome
<1>p. Pending \subseteq 1..MaxOffers /\ Pending \subseteq DOMAIN offers
  <2>1. DOMAIN offers = 1..Len(offers) /\ Len(offers) \in Nat /\ Len(offers) <= MaxOffers
    BY DEF Inv, TypeOK
  <2> QED
    BY <2>1, TermsAssumption DEF Pending
<1>1. ASSUME NEW ids \in SUBSET (1..MaxOffers), ids \subseteq DOMAIN offers, req[r].at = "offers",
             NEW terms \in Terms \cup {NoTerms},
             IF req[r].op = "accept" THEN terms \in Terms ELSE terms = req[r].terms,
             req[r].op \in {"sendToL2", "approve"} => Pending = {},
             req[r].op = "approve" => req[r].terms # NoTerms,
             req[r].op = "counter" => ids = Pending,
             Goes(r, [req[r] EXCEPT !.at = "write", !.ids = ids, !.terms = terms])
      PROVE  Inv'
  <2> DEFINE y == [req[r] EXCEPT !.at = "write", !.ids = ids, !.terms = terms]
  <2>1. y \in Executions
    BY <1>1, <1>t, <1>p DEF Executions
  <2>2. /\ y.at = "write" /\ y.op = req[r].op /\ y.to = req[r].to /\ y.terms = terms
        /\ y.schedule = req[r].schedule /\ y.ids = ids /\ y.fresh = req[r].fresh
    BY <1>t DEF Executions
  <2>3. Goes(r, y)
    BY <1>1
  <2> HIDE DEF y
  <2>4. ExecOK(y)
    BY <1>1, <1>t, <1>p, <2>2 DEF ExecOK
  <2>5. ~disturbed => FreshOK(y)
    BY <1>1, <1>t, <2>2 DEF FreshOK, ExecOK
  <2> QED
    BY <1>t, <2>1, <2>3, <2>4, <2>5, MovesOn
<1>2. ASSUME Goes(r, Idle) PROVE Inv'
  BY <1>2, <1>t, <1>i, MovesOn
<1>3. CASE CountPending(r)
  <2>1. CASE Pending = {} /\ ~(req[r].op = "approve" /\ req[r].terms = NoTerms)
    <3>2. Goes(r, [req[r] EXCEPT !.at = "write"])
      BY <1>3, <2>1 DEF CountPending
    <3>3. [req[r] EXCEPT !.at = "write"] = [req[r] EXCEPT !.at = "write", !.ids = req[r].ids, !.terms = req[r].terms]
      BY <1>t DEF Executions
    <3>4. /\ req[r].ids \in SUBSET (1..MaxOffers) /\ req[r].ids \subseteq DOMAIN offers
          /\ req[r].terms \in Terms \cup {NoTerms}
      BY <1>t DEF Executions, ExecOK
    <3> QED
      BY <1>1, <1>3, <2>1, <3>2, <3>3, <3>4 DEF CountPending
  <2> QED
    BY <1>2, <1>3, <2>1 DEF CountPending
<1>4. CASE Supersede(r)
  <2>1. [req[r] EXCEPT !.at = "write", !.ids = Pending]
          = [req[r] EXCEPT !.at = "write", !.ids = Pending, !.terms = req[r].terms]
    BY <1>t DEF Executions
  <2>2. req[r].terms \in Terms \cup {NoTerms}
    BY <1>t DEF Executions
  <2> QED
    BY <1>1, <1>4, <1>p, <2>1, <2>2 DEF Supersede
<1>5. CASE PickOffer(r)
  <2>1. CASE Goes(r, Idle)
    BY <1>2, <2>1
  <2>2. ASSUME NEW i \in Pending, Goes(r, [req[r] EXCEPT !.at = "write", !.ids = {i}, !.terms = offers[i].terms])
        PROVE  Inv'
    <3>1. offers[i] \in Offers /\ offers[i] # Resolved
      BY <1>p DEF Pending, Inv, TypeOK
    <3>2. offers[i].terms \in Terms
      BY <3>1 DEF Offers
    <3>3. {i} \in SUBSET (1..MaxOffers) /\ {i} \subseteq DOMAIN offers
      BY <1>p
    <3> QED
      BY <1>1, <1>5, <2>2, <3>2, <3>3 DEF PickOffer
  <2> QED
    BY <1>5, <2>1, <2>2 DEF PickOffer
<1> QED
  BY <1>3, <1>4, <1>5 DEF LookAtOffers

(* What a write owes the invariant: the rows it leaves are of their types, *)
(* offers do not disappear, and the record is right if the write was made  *)
(* on what still stood.                                                    *)
LEMMA WriteKeeps ==
    ASSUME Inv, NEW r \in Requests, NEW x \in Executions, NEW unseen \in BOOLEAN, Writes(r, x, unseen), Remembers,
           app' \in Applications,
           offers' \in Seq(Offers), Len(offers') <= MaxOffers, DOMAIN offers \subseteq DOMAIN offers',
           loan' \in Terms \cup {NoTerms},
           StatusIsBacked', LoanFollowsL2Row',
           x.at \in {"idle", "reset"}, ExecOK(x), x.fresh => x.fresh = req[r].fresh,
           /\ ~disturbed /\ req[r].fresh /\ FreshOK(req[r]) /\ ReviewOK /\ unseenByL1' = unseen
           => ReviewOK' /\ FreshOK(x)'
    PROVE  Inv'
<1>1. /\ stoodAtL2 \subseteq stoodAtL2' /\ stoodAtL2' \subseteq Terms \cup {NoTerms}
      /\ app'.status = "PENDING_L2_APPROVAL" => LoanTerms(app'.terms, app'.schedule) \in stoodAtL2'
  <2>1. LoanTerms(app'.terms, app'.schedule) \in Terms \cup {NoTerms}
    BY LentTerms DEF Applications
  <2> QED
    BY <2>1 DEF Remembers, Inv, TypeOK
<1>2. /\ disturbed' \in BOOLEAN /\ unseenByL1' \in BOOLEAN
      /\ ~disturbed' => /\ ~disturbed /\ req[r].fresh /\ FreshOK(req[r]) /\ ReviewOK
                        /\ unseenByL1' = unseen
  BY DEF Writes, Inv, TypeOK, Executions
<1>3. \A q \in Requests \ {r} :
        /\ req[q] \in Executions /\ req'[q] \in Executions /\ ~req'[q].fresh
        /\ req'[q].at = req[q].at /\ req'[q].op = req[q].op /\ req'[q].to = req[q].to
        /\ req'[q].terms = req[q].terms /\ req'[q].ids = req[q].ids
        /\ req'[q].schedule = req[q].schedule
  BY DEF Writes, Inv, TypeOK, Executions
<1>4. req'[r] = x /\ req' = [q \in Requests |-> req'[q]]
  BY DEF Writes
<1>5. req' \in [Requests -> Executions]
  <2>1. \A q \in Requests : req'[q] \in Executions
    BY <1>3, <1>4
  <2> QED
    BY <1>4, <2>1
<1>6. TypeOK'
  BY <1>1, <1>2, <1>5 DEF TypeOK
<1>7. ASSUME NEW q \in Requests PROVE ExecOK(req[q])'
  <2>1. CASE q = r
    BY <1>1, <1>4, <2>1 DEF ExecOK
  <2>2. CASE q # r
    BY <1>1, <1>3, <2>2 DEF ExecOK, Inv
  <2> QED
    BY <2>1, <2>2
<1>8. Backed'
  BY <1>1 DEF Backed
<1>9. ASSUME ~disturbed', NEW q \in Requests PROVE FreshOK(req[q])'
  <2>1. CASE q = r
    BY <1>2, <1>4, <1>9, <2>1 DEF FreshOK
  <2>2. CASE q # r
    BY <1>3, <2>2 DEF FreshOK
  <2> QED
    BY <2>1, <2>2
<1> QED
  BY <1>2, <1>6, <1>7, <1>8, <1>9 DEF Inv

LEMMA StatusWriteInv ==
    ASSUME Inv, NEW r \in Requests, Remembers, WriteStatus(r) \/ WriteApproval(r) \/ WriteEdit(r)
    PROVE  Inv'
<1>t. /\ req[r] \in Executions /\ ExecOK(req[r]) /\ stoodAtL2 \subseteq stoodAtL2'
  BY DEF Inv, TypeOK, Remembers
<1>i. Idle \in Executions /\ ExecOK(Idle) /\ FreshOK(Idle)' /\ Idle.at = "idle" /\ ~Idle.fresh
  BY DEF Executions, Idle, Ops, Parties, ExecOK, FreshOK, Outcome
<1>o. offers \in Seq(Offers) /\ Len(offers) <= MaxOffers /\ (offers' = offers => Pending' = Pending)
  BY DEF Inv, TypeOK, Pending
<1>w. ASSUME NEW unseen, Writes(r, Idle, unseen), req[r].at = "write" PROVE (\E q \in Requests : SendsBack(req[q])) => \E q \in Requests : SendsBack(req[q])'
  <2>1. ASSUME NEW q \in Requests, SendsBack(req[q]) PROVE SendsBack(req[q])'
    BY <1>w, <2>1 DEF SendsBack, Writes, Inv, TypeOK, Executions
  <2> QED
    BY <2>1
<1>1. CASE WriteStatus(r)
  <2> USE <1>1 DEF WriteStatus
  <2>1. PICK op \in DOMAIN Outcome \ {"approve"} : Writing(r, op)
    OBVIOUS
  <2>2. /\ req[r].op = op /\ req[r].at = "write" /\ req[r].to = Outcome[op]
        /\ Outcome[op] \in {"SUBMITTED", "PENDING_L2_APPROVAL", "CLOSED", "DRAFT"}
        /\ Outcome[op] = "PENDING_L2_APPROVAL" <=> op = "sendToL2"
    BY <2>1, <1>t DEF Writing, ExecOK, Outcome
  <2>3. /\ app' \in Applications
        /\ app'.status = Outcome[op] /\ app'.terms = app.terms
        /\ app'.status = "PENDING_L2_APPROVAL" => app'.l1
    <3>1. req[r].schedule = "same" \/ req[r].schedule \in Schedules \cup {NoSchedule}
      BY <1>t DEF Executions
    <3> QED
      BY <2>2, <3>1 DEF Status, Inv, TypeOK, Applications, Statuses, InReview, L1Queue
  <2>4. StatusIsBacked' /\ LoanFollowsL2Row'
    BY <2>2, <2>3, <1>t DEF StatusIsBacked, LoanFollowsL2Row, Inv, Backed
  <2> DEFINE unseen == unseenByL1 /\ req[r].op # "sendToL2"
  <2>5. unseen \in BOOLEAN /\ Writes(r, Idle, unseen) /\ (unseen => unseenByL1 /\ op # "sendToL2")
    BY <2>2 DEF Inv, TypeOK
  <2> HIDE DEF unseen
  <2>6. ASSUME req[r].fresh, FreshOK(req[r]), ReviewOK, unseenByL1' = unseen PROVE ReviewOK'
    <3>1. app.status # "APPROVED"
      BY <2>2, <2>6 DEF FreshOK, Accepts, InReview, L1Queue, Outcome
    <3> QED
      BY <3>1, <2>2, <2>3, <2>5, <2>6, <1>o, <1>w DEF ReviewOK
  <2> QED
    BY <2>3, <2>4, <2>5, <2>6, <1>i, <1>o, WriteKeeps DEF Inv, TypeOK
<1>2. CASE WriteApproval(r)
  <2> USE <1>2 DEF WriteApproval
  <2>1. /\ req[r].terms \in stoodAtL2 /\ req[r].terms \in Terms /\ req[r].schedule = "same"
        /\ req[r].op = "approve" /\ req[r].at = "write"
    BY <1>t DEF Writing, ExecOK, Executions
  <2>2. /\ app' \in Applications
        /\ app'.status = "APPROVED" /\ app'.terms = app.terms /\ app'.schedule = app.schedule
    BY <2>1 DEF Status, Inv, TypeOK, Applications, Statuses
  <2>3. StatusIsBacked' /\ LoanFollowsL2Row'
    BY <2>1, <2>2, <1>t, TermsAssumption DEF StatusIsBacked, LoanFollowsL2Row
  <2>4. ASSUME req[r].fresh, FreshOK(req[r]), ReviewOK, unseenByL1' = unseenByL1 PROVE ReviewOK'
    <3>1. /\ app.status = "PENDING_L2_APPROVAL" /\ Pending = {}
          /\ req[r].terms = LoanTerms(app.terms, app.schedule)
      BY <2>1, <2>4 DEF FreshOK, Accepts
    <3> QED
      BY <3>1, <2>1, <2>2, <2>4, <1>o, <1>w, TermsAssumption DEF ReviewOK
  <2> QED
    BY <2>1, <2>2, <2>3, <2>4, <1>i, <1>o, WriteKeeps DEF Inv, TypeOK
<1>3. CASE WriteEdit(r)
  <2> USE <1>3 DEF WriteEdit
  <2>1. req[r].terms \in Terms /\ req[r].op = "edit" /\ req[r].at = "write"
    BY <1>t DEF Writing, ExecOK
  <2>2. /\ app' \in Applications
        /\ app'.status = app.status /\ app'.l1 = app.l1
    BY <2>1 DEF Inv, TypeOK, Applications
  <2>3. StatusIsBacked' /\ LoanFollowsL2Row'
    BY <2>2, <1>t DEF StatusIsBacked, LoanFollowsL2Row, Inv, Backed
  <2>4. ASSUME req[r].fresh, FreshOK(req[r]), ReviewOK, unseenByL1' = unseenByL1 PROVE ReviewOK'
    <3>1. app.status = "DRAFT"
      BY <2>1, <2>4 DEF FreshOK, Accepts
    <3> QED
      BY <3>1, <2>2, <2>4, <1>o DEF ReviewOK
  <2> QED
    BY <2>2, <2>3, <2>4, <1>i, <1>o, WriteKeeps DEF Inv, TypeOK
<1> QED
  BY <1>1, <1>2, <1>3

LEMMA UploadInv ==
    ASSUME Inv, NEW r \in Requests, Remembers, WriteDocument(r) \/ ResetReview(r)
    PROVE  Inv'
<1>t. /\ req[r] \in Executions /\ ExecOK(req[r]) /\ stoodAtL2 \subseteq stoodAtL2'
  BY DEF Inv, TypeOK, Remembers
<1>i. /\ Idle \in Executions /\ ExecOK(Idle) /\ FreshOK(Idle) /\ FreshOK(Idle)'
      /\ Idle.at = "idle" /\ ~Idle.fresh
  BY DEF Executions, Idle, Ops, Parties, ExecOK, FreshOK, Outcome
<1>o. offers \in Seq(Offers) /\ Len(offers) <= MaxOffers /\ (offers' = offers => Pending' = Pending)
  BY DEF Inv, TypeOK, Pending
<1>1. CASE WriteDocument(r)
  <2> PICK x : x = [req[r] EXCEPT !.at = "reset"]
    OBVIOUS
  <2>1. rows' = rows /\ Writes(r, x, TRUE) /\ req[r].op = "document" /\ req[r].at = "write"
    BY <1>1 DEF WriteDocument, Writing, rows
  <2>2. /\ x \in Executions /\ x.at = "reset" /\ x.op = "document" /\ x.to = req[r].to
        /\ x.ids = req[r].ids /\ x.fresh = req[r].fresh /\ x.schedule = req[r].schedule
    BY <1>t, <2>1 DEF Executions
  <2>3. req'[r] = x
    BY <2>1 DEF Writes
  <2>4. ExecOK(x)
    BY <1>t, <2>1, <2>2 DEF ExecOK, Outcome
  <2>5. StatusIsBacked' /\ LoanFollowsL2Row'
    BY <2>1, <1>t DEF StatusIsBacked, LoanFollowsL2Row, Inv, Backed, rows
  <2>6. ASSUME req[r].fresh, FreshOK(req[r]), ReviewOK, unseenByL1' = TRUE
        PROVE  ReviewOK' /\ FreshOK(x)'
    <3>1. /\ app.status \in Accepts("document") /\ app.status # "APPROVED"
          /\ app.status = "PENDING_L2_APPROVAL" => SendsBack(x)
      BY <2>1, <2>2, <2>6 DEF FreshOK, Accepts, InReview, L1Queue, SendsBack
    <3>2. ReviewOK'
      BY <3>1, <2>1, <2>3, <2>6, <1>o DEF ReviewOK, rows, SendsBack
    <3>3. FreshOK(x)'
      BY <3>1, <2>1, <2>2, <2>6 DEF FreshOK, rows, SendsBack
    <3> QED
      BY <3>2, <3>3
  <2> QED
    BY <2>1, <2>2, <2>4, <2>5, <2>6, <1>o, WriteKeeps DEF Inv, TypeOK, rows
<1>2. CASE ResetReview(r) /\ req[r].to = "same"
  BY <1>2, <1>i, MovesOn DEF ResetReview, SendsBack
<1>3. CASE ResetReview(r) /\ req[r].to # "same"
  <2>1. /\ Status(r, req[r].to) /\ Writes(r, Idle, unseenByL1) /\ UNCHANGED <<offers, loan>>
        /\ req[r].op = "document" /\ req[r].to \in {"SUBMITTED", "UNDER_REVIEW"}
        /\ req[r].schedule = "same"
    BY <1>3, <1>t DEF ResetReview, ExecOK
  <2>2. /\ app' \in Applications
        /\ app'.status \in {"SUBMITTED", "UNDER_REVIEW"} /\ app'.terms = app.terms
    BY <2>1 DEF Status, Inv, TypeOK, Applications, Statuses, InReview, L1Queue
  <2>3. StatusIsBacked' /\ LoanFollowsL2Row'
    BY <2>1, <2>2, <1>t DEF StatusIsBacked, LoanFollowsL2Row, Inv, Backed
  <2>4. ASSUME req[r].fresh, FreshOK(req[r]), ReviewOK, unseenByL1' = unseenByL1 PROVE ReviewOK'
    <3>1. app.status # "APPROVED"
      BY <2>1, <2>4 DEF FreshOK, Accepts, InReview, L1Queue
    <3> QED
      BY <3>1, <2>1, <2>2, <2>4, <1>o DEF ReviewOK
  <2> QED
    BY <2>1, <2>2, <2>3, <2>4, <1>i, <1>o, WriteKeeps DEF Inv, TypeOK
<1> QED
  BY <1>1, <1>2, <1>3

LEMMA NegotiationInv ==
    ASSUME Inv, NEW r \in Requests, Remembers, WriteCounter(r) \/ WriteAcceptance(r) \/ WriteRejection(r)
    PROVE  Inv'
<1>t. /\ req[r] \in Executions /\ ExecOK(req[r]) /\ stoodAtL2 \subseteq stoodAtL2'
      /\ app \in Applications /\ loan' = loan /\ unseenByL1 \in BOOLEAN
  BY DEF Inv, TypeOK, Remembers, WriteCounter, WriteAcceptance, WriteRejection
<1>i. Idle \in Executions /\ ExecOK(Idle) /\ FreshOK(Idle)' /\ Idle.at = "idle" /\ ~Idle.fresh
  BY DEF Executions, Idle, Ops, Parties, ExecOK, FreshOK, Outcome
<1>o. offers \in Seq(Offers) /\ Len(offers) \in Nat /\ Len(offers) <= MaxOffers /\ DOMAIN offers = 1..Len(offers)
  BY DEF Inv, TypeOK
<1>w. ASSUME NEW unseen, Writes(r, Idle, unseen), req[r].at = "write" PROVE (\E q \in Requests : SendsBack(req[q])) => \E q \in Requests : SendsBack(req[q])'
  <2>1. ASSUME NEW q \in Requests, SendsBack(req[q]) PROVE SendsBack(req[q])'
    BY <1>w, <2>1 DEF SendsBack, Writes, Inv, TypeOK, Executions
  <2> QED
    BY <2>1
<1>r. ASSUME NEW ids PROVE
        LET new == [i \in DOMAIN offers |-> IF i \in ids THEN Resolved ELSE offers[i]]
        IN  new \in Seq(Offers) /\ Len(new) = Len(offers) /\ DOMAIN new = DOMAIN offers
  <2> DEFINE new == [i \in DOMAIN offers |-> IF i \in ids THEN Resolved ELSE offers[i]]
  <2>1. ASSUME NEW i \in 1..Len(offers) PROVE new[i] \in Offers
    <3>1. offers[i] \in Offers
      BY <1>o
    <3> QED
      BY <1>o, <3>1 DEF Offers
  <2>2. new = [i \in 1..Len(offers) |-> new[i]]
    BY <1>o
  <2> HIDE DEF new
  <2>3. new \in [1..Len(offers) -> Offers]
    BY <2>1, <2>2
  <2>4. new \in Seq(Offers) /\ Len(new) = Len(offers) /\ DOMAIN new = DOMAIN offers
    BY <2>3, <1>o
  <2> QED
    BY <2>4 DEF new
<1>1. CASE WriteCounter(r)
  <2> DEFINE left == [i \in DOMAIN offers |->
                       IF i \in req[r].ids \cap Pending THEN Resolved
                       ELSE offers[i]]
             made == [from |-> req[r].party, terms |-> req[r].terms]
  <2>1. /\ offers' = Append(left, made) /\ Len(offers) < MaxOffers /\ Writes(r, Idle, unseenByL1) /\ app' = app
        /\ req[r].op = "counter" /\ req[r].at = "write"
    BY <1>1 DEF WriteCounter, Writing
  <2>2. left \in Seq(Offers) /\ Len(left) = Len(offers) /\ DOMAIN left = DOMAIN offers
    BY <1>r
  <2>3. made \in Offers
    BY <1>t, <2>1 DEF ExecOK, Executions, Offers
  <2>4. \A i \in DOMAIN left : left[i] # Resolved => i \in Pending \ req[r].ids
    BY <2>2 DEF Pending
  <2> HIDE DEF left, made
  <2>5. /\ offers' \in Seq(Offers) /\ Len(offers') = Len(offers) + 1 /\ DOMAIN offers' = 1..(Len(offers) + 1)
        /\ offers'[Len(offers) + 1] = made /\ \A i \in 1..Len(offers) : offers'[i] = left[i]
    BY <2>1, <2>2, <2>3, <1>o
  <2>6. StatusIsBacked' /\ LoanFollowsL2Row'
    BY <2>1, <1>t DEF StatusIsBacked, LoanFollowsL2Row, Inv, Backed
  <2>7. ASSUME req[r].fresh, FreshOK(req[r]), ReviewOK, unseenByL1' = unseenByL1 PROVE ReviewOK'
    <3>1. app.status # "APPROVED" /\ req[r].ids = Pending
      BY <2>1, <2>7 DEF FreshOK, Accepts, InReview, L1Queue, Outcome
    <3>2. Pending' \subseteq {Len(offers) + 1}
      BY <3>1, <2>2, <2>4, <2>5, <1>o DEF Pending
    <3> QED
      BY <3>1, <3>2, <2>1, <2>7, <1>t, <1>w DEF ReviewOK
  <2>8. Len(offers') <= MaxOffers /\ DOMAIN offers \subseteq DOMAIN offers'
    BY <2>1, <2>5, <1>o, TermsAssumption
  <2>9. loan' \in Terms \cup {NoTerms}
    BY <1>t DEF Inv, TypeOK
  <2>10. offers' \in Seq(Offers)
    BY <2>5
  <2> QED
    BY <2>1, <2>6, <2>7, <2>8, <2>9, <2>10, <1>i, <1>t, WriteKeeps
<1>2. CASE WriteAcceptance(r)
  <2>1. /\ Writes(r, Idle, unseenByL1) /\ req[r].op = "accept" /\ req[r].at = "write" /\ req[r].terms \in Terms
        /\ offers' = [i \in DOMAIN offers |-> IF i \in req[r].ids THEN Resolved ELSE offers[i]]
        /\ app' = [app EXCEPT !.terms = req[r].terms]
    BY <1>2, <1>t DEF WriteAcceptance, Writing, ExecOK
  <2>2. offers' \in Seq(Offers) /\ Len(offers') = Len(offers) /\ DOMAIN offers' = DOMAIN offers
    BY <2>1, <1>r
  <2>3. Pending' \subseteq Pending
    BY <2>1, <2>2 DEF Pending
  <2>4. app' \in Applications /\ app'.status = app.status /\ app'.l1 = app.l1
    BY <2>1, <1>t DEF Applications
  <2>5. StatusIsBacked' /\ LoanFollowsL2Row'
    BY <2>4, <1>t DEF StatusIsBacked, LoanFollowsL2Row, Inv, Backed
  <2>6. ASSUME req[r].fresh, FreshOK(req[r]), ReviewOK, unseenByL1' = unseenByL1 PROVE ReviewOK'
    <3>1. app.status # "APPROVED"
      BY <2>1, <2>6 DEF FreshOK, Accepts, InReview, L1Queue, Outcome
    <3> QED
      BY <3>1, <2>1, <2>3, <2>4, <2>6, <1>t, <1>w DEF ReviewOK
  <2> QED
    BY <2>1, <2>2, <2>4, <2>5, <2>6, <1>i, <1>o, <1>t, WriteKeeps DEF Inv, TypeOK
<1>3. CASE WriteRejection(r)
  <2>1. /\ offers' = [i \in DOMAIN offers |-> IF i \in Pending THEN Resolved ELSE offers[i]]
        /\ Writes(r, Idle, unseenByL1) /\ app' = app /\ req[r].at = "write"
    BY <1>3 DEF WriteRejection, Writing
  <2>2. offers' \in Seq(Offers) /\ Len(offers') = Len(offers) /\ DOMAIN offers' = DOMAIN offers
    BY <2>1, <1>r
  <2>3. Pending' = {}
    BY <2>1 DEF Pending
  <2>4. StatusIsBacked' /\ LoanFollowsL2Row'
    BY <2>1, <1>t DEF StatusIsBacked, LoanFollowsL2Row, Inv, Backed
  <2>5. ASSUME ReviewOK, unseenByL1' = unseenByL1 PROVE ReviewOK'
    BY <2>1, <2>3, <2>5, <1>t, <1>w DEF ReviewOK
  <2> QED
    BY <2>1, <2>2, <2>4, <2>5, <1>i, <1>o, <1>t, WriteKeeps DEF Inv, TypeOK
<1> QED
  BY <1>1, <1>2, <1>3

LEMMA AbandonInv ==
    ASSUME Inv, NEW r \in Requests, Remembers, Abandon(r)
    PROVE  Inv'
<1>i. Idle \in Executions /\ ExecOK(Idle)' /\ FreshOK(Idle)' /\ Idle.at = "idle"
  BY DEF Executions, Idle, Ops, Parties, ExecOK, FreshOK, Outcome
<1>1. /\ rows' = rows /\ req' = [req EXCEPT ![r] = Idle]
      /\ disturbed' \in BOOLEAN /\ unseenByL1' \in BOOLEAN
      /\ ~disturbed' => ~disturbed /\ req[r].at # "reset" /\ unseenByL1' = unseenByL1
  BY DEF Abandon, Inv, TypeOK, rows
<1>2. stoodAtL2' = stoodAtL2 /\ Pending' = Pending
  BY <1>1 DEF Remembers, Inv, Backed, Pending, rows
<1>3. TypeOK'
  BY <1>1, <1>2, <1>i DEF Inv, TypeOK, rows
<1>4. \A q \in Requests : ExecOK(req[q])'
  BY <1>1, <1>2, <1>i DEF Inv, TypeOK, ExecOK, rows
<1>5. Backed'
  BY <1>1, <1>2 DEF Inv, Backed, StatusIsBacked, LoanFollowsL2Row, rows
<1>6. ASSUME ~disturbed' PROVE \A q \in Requests : FreshOK(req[q])'
  BY <1>1, <1>2, <1>6, <1>i DEF Inv, TypeOK, FreshOK, rows
<1>7. ASSUME ~disturbed' PROVE ReviewOK'
  BY <1>1, <1>2, <1>7 DEF Inv, TypeOK, ReviewOK, SendsBack, rows
<1> QED
  BY <1>3, <1>4, <1>5, <1>6, <1>7 DEF Inv

LEMMA StepInv == Inv /\ [Next]_vars => Inv'
<1> SUFFICES ASSUME Inv, [Next]_vars PROVE Inv'
  OBVIOUS
<1>1. ASSUME NEW r \in Requests, Remembers, Read(r) \/ LookAtOffers(r) \/ Write(r) \/ Abandon(r)
      PROVE  Inv'
  <2>1. CASE ApprovalFails(r)
    <3>1. Idle \in Executions /\ ExecOK(Idle) /\ FreshOK(Idle)
      BY DEF Executions, Idle, Ops, Parties, ExecOK, FreshOK, Outcome
    <3> QED
      BY <1>1, <2>1, <3>1, MovesOn DEF ApprovalFails, Writing, SendsBack
  <2> QED
    BY <1>1, <2>1, ReadInv, LookInv, StatusWriteInv, UploadInv, NegotiationInv, AbandonInv DEF Write
<1>2. CASE UNCHANGED vars
  BY <1>2 DEF vars, rows, ghosts, Inv, TypeOK, ExecOK, Backed, StatusIsBacked, LoanFollowsL2Row,
              ReviewOK, SendsBack, FreshOK, Pending
<1> QED
  BY <1>1, <1>2 DEF Next, Remembers

LEMMA InvAlways == Spec => []Inv
  BY InitInv, StepInv, PTL DEF Spec

-----------------------------------------------------------------------------
(* Whatever runs in between an endpoint's reads and writes: an approved    *)
(* application has its loan, the loan is on terms an L2 reviewer had       *)
(* before him, and the L2 queue holds what L1 has marked.                  *)
THEOREM ApplicationSafe == Spec => [](TypeOK /\ StatusIsBacked /\ LoanFollowsL2Row)
<1>1. Inv => TypeOK /\ StatusIsBacked /\ LoanFollowsL2Row
  BY DEF Inv, Backed
<1> QED
  BY <1>1, InvAlways, PTL

(* The application stays within its states, for any number of requests.    *)
THEOREM ApplicationTyped == Spec => []TypeOK
BY ApplicationSafe, PTL

(* However the decisions interleave, an approved application has its loan  *)
(* and one in the L2 queue its L1 review.                                  *)
THEOREM StatusBacked == Spec => []StatusIsBacked
BY ApplicationSafe, PTL

(* The two-level review goes wrong only by a write decided on what no      *)
(* longer stood, or by an upload that died half-way.                       *)
THEOREM ReviewHolds == Spec => []OnlyDisturbedGoWrong
<1>1. ASSUME Inv, ~disturbed PROVE Reviewed
  <2>1. ReviewOK
    BY <1>1 DEF Inv
  <2>2. Cardinality(Pending) <= 1
    <3>1. CASE Pending = {}
      BY <3>1, FS_EmptySet
    <3>2. CASE Pending # {}
      <4>1. PICK i \in Pending : TRUE
        BY <3>2
      <4>2. Pending = {i}
        BY <2>1, <4>1 DEF ReviewOK
      <4>3. Cardinality({i}) = 1
        BY FS_Singleton
      <4> QED
        BY <4>2, <4>3
    <3> QED
      BY <3>1, <3>2
  <2> QED
    BY <2>1, <2>2 DEF ReviewOK, Reviewed, SendsBack
<1>2. Inv => OnlyDisturbedGoWrong
  BY <1>1 DEF OnlyDisturbedGoWrong
<1> QED
  BY <1>2, InvAlways, PTL

(* An application makes one loan, and its terms stay.                      *)
THEOREM OneLoan == Spec => LoanIsFinal
<1>1. Inv /\ [Next]_vars => [loan # NoTerms => loan' = loan]_vars
  BY DEF Next, Read, ReadToSubmit, ReadToDecide, ReadToEdit, ReadToUpload, ReadToNegotiate, ReadToReject, Reads,
         LookAtOffers, CountPending, Supersede, PickOffer, Goes, Write, WriteStatus, WriteApproval,
         ApprovalFails, WriteEdit, WriteDocument, ResetReview, WriteCounter, WriteAcceptance,
         WriteRejection, Abandon, rows, vars
<1> QED
  BY <1>1, InvAlways, PTL DEF Spec, LoanIsFinal
=============================================================================
