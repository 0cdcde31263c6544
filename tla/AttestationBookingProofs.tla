---------------------- MODULE AttestationBookingProofs ----------------------
(***************************************************************************)
(* Theorems about AttestationBooking, for any requests, loans and slots.   *)
(*                                                                         *)
(* Beside the types, the invariant says what an execution carries (ExecOK: *)
(* a finished meeting is written back as still awaiting attestation), what *)
(* holds of a row however requests interleave (RowOK), and, until          *)
(* something is disturbed, that the rows are orderly, that no two book     *)
(* overlapping slots, and that what an execution found still stands as     *)
(* long as nothing it relies on has been written (FreshOK).                *)
(***************************************************************************)
EXTENDS AttestationBooking, TLAPS

ExecOK(x) ==
    /\ x.fresh => x.at # "idle"
    /\ x.at = "slot" => x.op \in {"propose", "counter"}
    /\ x.at # "idle" => x.loan \in Loans
    /\ x.at # "idle" /\ x.op \in {"propose", "accept", "counter"} => x.slot \in Slots
    /\ x.at # "idle" /\ x.op = "held" => x.status = "PENDING_ATTESTATION"

RowOK(x) == NoSlot \notin Booked(x) /\ (x.status = "PENDING_DISBURSEMENT" => x.attested)

(* What each endpoint asks of the row x, and still relies on: e is the     *)
(* execution.                                                              *)
Accepts(e, x) ==
    /\ x.status \in PreDisbursement
    /\ e.op = "video"   => x.att = "NOT_STARTED"
    /\ e.op = "request" => x.att \in {"NOT_STARTED", "VIDEO_COMPLETED"}
    /\ e.op = "restart" => x.att = "MEETING_REQUESTED"
    /\ e.op = "propose" => x.att = "MEETING_REQUESTED"
    /\ e.op = "accept"  => x.att = "SLOT_PROPOSED" /\ x.proposal = e.slot
    /\ e.op = "counter" => x.att = "SLOT_PROPOSED"
    /\ e.op = "expire"  => x.att = "SLOT_PROPOSED"
    /\ e.op = "held"    => x.att = "MEETING_SCHEDULED"
    /\ e.op = "attest"  => x.att \in {"VIDEO_COMPLETED", "MEETING_COMPLETED"} /\ ~x.attested

FreshOK(e) ==
    e.fresh =>
        /\ Accepts(e, loan[e.loan])
        /\ e.at = "write" /\ e.op \in {"propose", "counter"} => IsFree(e.loan, e.slot)

Apart == \A l, k \in Loans : l # k => \A s \in Booked(loan[l]), t \in Booked(loan[k]) : <<s, t>> \notin Overlaps

Inv ==
    /\ loan \in [Loans -> Rows]
    /\ req \in [Requests -> Executions]
    /\ disturbed \in BOOLEAN
    /\ \A r \in Requests : ExecOK(req[r])
    /\ \A l \in Loans : RowOK(loan[l])
    /\ ~disturbed =>
          /\ \A l \in Loans : Orderly(loan[l])
          /\ Apart
          /\ \A r \in Requests : FreshOK(req[r])

-----------------------------------------------------------------------------
LEMMA IdleOK ==
    /\ Idle \in Executions /\ ExecOK(Idle) /\ FreshOK(Idle) /\ FreshOK(Idle)'
    /\ Idle.at = "idle" /\ ~Idle.fresh
BY DEF Idle, Executions, Ops, Statuses, ExecOK, FreshOK

(* The three shapes of a booking.                                          *)
LEMMA BookedIs ==
    ASSUME NEW x
    PROVE  /\ x.status \in PreDisbursement /\ x.att = "SLOT_PROPOSED" => Booked(x) = {x.proposal}
           /\ x.status \in PreDisbursement /\ x.att = "MEETING_SCHEDULED" => Booked(x) = {x.meeting}
           /\ x.status \notin PreDisbursement \/ x.att \notin {"SLOT_PROPOSED", "MEETING_SCHEDULED"}
                => Booked(x) = {}
BY DEF Booked

LEMMA InitInv == Init => Inv
<1> SUFFICES ASSUME Init PROVE Inv
  OBVIOUS
<1> USE DEF Init
<1>1. loan \in [Loans -> Rows] /\ \A l \in Loans : Orderly(loan[l])
  BY DEF Rows, Statuses, PreDisbursement, AttestationStatuses, Orderly
<1>2. \A l \in Loans : Booked(loan[l]) = {}
  BY DEF Booked
<1>3. \A l \in Loans : RowOK(loan[l])
  BY <1>2 DEF RowOK
<1> QED
  BY <1>1, <1>2, <1>3, IdleOK DEF Inv, Apart

(* Steps of one execution that leave the loans alone.                      *)
LEMMA MovesOn ==
    ASSUME Inv, NEW r \in Requests, NEW x \in Executions,
           req' = [req EXCEPT ![r] = x], UNCHANGED <<loan, disturbed>>,
           ExecOK(x), ~disturbed => FreshOK(x)
    PROVE  Inv'
<1>1. \A q \in Requests : req'[q] = IF q = r THEN x ELSE req[q]
  BY DEF Inv
<1>2. req' \in [Requests -> Executions]
  BY DEF Inv
<1>3. \A q \in Requests : ExecOK(req'[q])
  BY <1>1 DEF Inv
<1>4. ASSUME ~disturbed PROVE \A q \in Requests : FreshOK(req'[q])
  BY <1>1, <1>4 DEF Inv
<1>5. \A q \in Requests : FreshOK(req'[q]) => FreshOK(req[q])'
  BY DEF FreshOK, IsFree
<1> QED
  BY <1>2, <1>3, <1>4, <1>5 DEF Inv, Apart, ExecOK

LEMMA ReadsInv ==
    ASSUME Inv, NEW r \in Requests, NEW l \in Loans, NEW op \in Ops, NEW x \in Executions, Reads(r, l, op, x),
           x.at \in {"slot", "write"},
           x.at = "slot" <=> op \in {"propose", "counter"},
           op \in {"propose", "accept", "counter"} => x.slot \in Slots,
           op = "held" => x.status = "PENDING_ATTESTATION",
           ~disturbed => Accepts([x EXCEPT !.op = op, !.loan = l, !.fresh = TRUE], loan[l])
    PROVE  Inv'
<1> PICK y : y = [x EXCEPT !.op = op, !.loan = l, !.fresh = TRUE]
  OBVIOUS
<1>1. /\ y \in Executions /\ y.at = x.at /\ y.op = op /\ y.loan = l /\ y.status = x.status
      /\ y.slot = x.slot /\ y.fresh
  BY DEF Executions
<1>2. ExecOK(y) /\ (~disturbed => FreshOK(y))
  BY <1>1 DEF ExecOK, FreshOK
<1>3. req' = [req EXCEPT ![r] = y] /\ UNCHANGED <<loan, disturbed>>
  BY DEF Reads
<1> QED
  BY <1>1, <1>2, <1>3, MovesOn

LEMMA ReadInv ==
    ASSUME Inv, NEW r \in Requests, NEW l \in Loans, Read(r, l)
    PROVE  Inv'
<1>t. loan[l] \in Rows /\ RowOK(loan[l]) /\ (~disturbed => Orderly(loan[l]))
  BY DEF Inv
<1>w. ToWrite \in Executions /\ ToWrite.at = "write"
  BY DEF ToWrite, Idle, Executions, Ops, Statuses
<1>o. /\ {"video", "request", "restart", "propose", "accept", "counter", "expire", "cancel", "held", "attest"} = Ops
      /\ loan[l].proposal \in Slots \cup {NoSlot} /\ loan[l].status \in Statuses
  BY <1>t DEF Ops, Rows
<1>1. CASE \/ ReadForVideo(r, l) \/ ReadToRequest(r, l) \/ ReadToRestart(r, l) \/ ReadToExpire(r, l)
           \/ ReadToCancel(r, l) \/ ReadToAttest(r, l)
  <2> PICK op \in {"video", "request", "restart", "expire", "cancel", "attest"} :
          /\ Reads(r, l, op, ToWrite)
          /\ Accepts([ToWrite EXCEPT !.op = op, !.loan = l, !.fresh = TRUE], loan[l])
    <3>1. \A op \in Ops : /\ Reads(r, l, op, ToWrite) => loan[l].status \in PreDisbursement
                         /\ [ToWrite EXCEPT !.op = op, !.loan = l, !.fresh = TRUE].op = op
      BY <1>w DEF Reads, Executions
    <3> QED
      BY <1>1, <3>1, <1>o DEF ReadForVideo, ReadToRequest, ReadToRestart, ReadToExpire, ReadToCancel,
                              ReadToAttest, Accepts
  <2> QED
    BY <1>w, <1>o, ReadsInv
<1>2. CASE ReadToPropose(r, l) \/ ReadToCounter(r, l)
  <2> PICK op \in {"propose", "counter"}, s \in Slots :
          /\ Reads(r, l, op, [Idle EXCEPT !.at = "slot", !.slot = s])
          /\ op = "propose" => loan[l].att = "MEETING_REQUESTED"
          /\ op = "counter" => loan[l].att = "SLOT_PROPOSED"
    BY <1>2 DEF ReadToPropose, ReadToCounter
  <2> PICK x : x = [Idle EXCEPT !.at = "slot", !.slot = s]
    OBVIOUS
  <2>1. x \in Executions /\ x.at = "slot" /\ x.slot = s
    BY DEF Idle, Executions, Ops, Statuses
  <2>2. [x EXCEPT !.op = op, !.loan = l, !.fresh = TRUE].op = op
    BY <2>1 DEF Executions
  <2>3. Reads(r, l, op, x) /\ loan[l].status \in PreDisbursement
    BY DEF Reads
  <2>4. Accepts([x EXCEPT !.op = op, !.loan = l, !.fresh = TRUE], loan[l])
    BY <2>2, <2>3 DEF Accepts
  <2> QED
    BY <2>1, <2>3, <2>4, <1>o, ReadsInv
<1>3. CASE ReadToAccept(r, l)
  <2> PICK x : x = [ToWrite EXCEPT !.slot = loan[l].proposal]
    OBVIOUS
  <2>1. /\ loan[l].att = "SLOT_PROPOSED" /\ loan[l].proposal \in Slots
        /\ Reads(r, l, "accept", x) /\ loan[l].status \in PreDisbursement
    BY <1>3, <1>o DEF ReadToAccept, Reads
  <2>2. x \in Executions /\ x.at = "write" /\ x.slot = loan[l].proposal
    BY <1>w, <1>o DEF Executions
  <2>3. /\ [x EXCEPT !.op = "accept", !.loan = l, !.fresh = TRUE].op = "accept"
        /\ [x EXCEPT !.op = "accept", !.loan = l, !.fresh = TRUE].slot = loan[l].proposal
    BY <2>2 DEF Executions
  <2>4. Accepts([x EXCEPT !.op = "accept", !.loan = l, !.fresh = TRUE], loan[l])
    BY <2>1, <2>3 DEF Accepts
  <2> QED
    BY <2>1, <2>2, <2>4, <1>o, ReadsInv
<1>4. CASE ReadMeetingHeld(r, l)
  <2> PICK x : x = [ToWrite EXCEPT !.status = loan[l].status]
    OBVIOUS
  <2>1. /\ loan[l].att = "MEETING_SCHEDULED" /\ ~loan[l].attested
        /\ Reads(r, l, "held", x) /\ loan[l].status \in PreDisbursement
    BY <1>4 DEF ReadMeetingHeld, Reads
  <2>2. loan[l].status = "PENDING_ATTESTATION"
    BY <2>1, <1>t DEF RowOK, PreDisbursement
  <2>3. x \in Executions /\ x.at = "write" /\ x.status = loan[l].status
    BY <1>w, <1>o DEF Executions
  <2>4. [x EXCEPT !.op = "held", !.loan = l, !.fresh = TRUE].op = "held"
    BY <2>3 DEF Executions
  <2>5. Accepts([x EXCEPT !.op = "held", !.loan = l, !.fresh = TRUE], loan[l])
    BY <2>1, <2>4 DEF Accepts
  <2> QED
    BY <2>1, <2>2, <2>3, <2>5, <1>o, ReadsInv
<1> QED
  BY <1>1, <1>2, <1>3, <1>4 DEF Read

LEMMA SmallStepInv ==
    ASSUME Inv, NEW r \in Requests, CheckSlot(r) \/ Abandon(r)
    PROVE  Inv'
<1>t. req[r] \in Executions /\ ExecOK(req[r]) /\ (~disturbed => FreshOK(req[r]))
  BY DEF Inv
<1>1. CASE req' = [req EXCEPT ![r] = Idle] /\ UNCHANGED <<loan, disturbed>>
  BY <1>1, IdleOK, MovesOn
<1>2. CASE req[r].at = "slot" /\ IsFree(req[r].loan, req[r].slot) /\ CheckSlot(r)
  <2> PICK y : y = [req[r] EXCEPT !.at = "write"]
    OBVIOUS
  <2>1. /\ y \in Executions /\ y.at = "write" /\ y.op = req[r].op /\ y.loan = req[r].loan
        /\ y.slot = req[r].slot /\ y.status = req[r].status /\ y.fresh = req[r].fresh
    BY <1>t DEF Executions
  <2>2. ExecOK(y) /\ (~disturbed => FreshOK(y))
    BY <1>t, <1>2, <2>1 DEF ExecOK, FreshOK, Accepts
  <2>3. req' = [req EXCEPT ![r] = y] /\ UNCHANGED <<loan, disturbed>>
    BY <1>2 DEF CheckSlot
  <2> QED
    BY <2>1, <2>2, <2>3, MovesOn
<1> QED
  BY <1>1, <1>2 DEF CheckSlot, Abandon

-----------------------------------------------------------------------------
(* What a write owes the invariant: its row, and, made on a row as it was  *)
(* read, an orderly one that books no more than was booked, or the slot    *)
(* that was found free.                                                    *)
LEMMA UpdateInv ==
    ASSUME Inv, NEW r \in Requests, NEW op, NEW row \in Rows, Updates(r, op, row),
           RowOK(row),
           Accepts(req[r], Row(r)) /\ Orderly(Row(r)) /\ ~disturbed =>
              /\ Orderly(row)
              /\ Booked(row) \subseteq Booked(Row(r)) \/ (Books(r) /\ Booked(row) \subseteq {req[r].slot})
    PROVE  Inv'
<1> PICK m : m = req[r].loan
  OBVIOUS
<1>t. /\ req[r] \in Executions /\ ExecOK(req[r]) /\ m \in Loans /\ req[r].at = "write"
      /\ loan' = [loan EXCEPT ![m] = row] /\ disturbed' = (disturbed \/ ~req[r].fresh)
  BY DEF Inv, Updates, ExecOK
<1>1. loan' \in [Loans -> Rows] /\ \A l \in Loans : loan'[l] = IF l = m THEN row ELSE loan[l]
  BY <1>t DEF Inv
<1>2. \A l \in Loans : RowOK(loan'[l])
  BY <1>1 DEF Inv
<1>3. \A q \in Requests :
         req'[q] = IF q = r THEN Idle
                   ELSE [req[q] EXCEPT !.fresh = @ /\ req[q].loan # m /\ ~(Books(q) /\ Books(r))]
  BY DEF Updates
<1>4. \A q \in Requests \ {r} :
         /\ req'[q] \in Executions
         /\ req'[q].at = req[q].at /\ req'[q].op = req[q].op /\ req'[q].loan = req[q].loan
         /\ req'[q].slot = req[q].slot /\ req'[q].status = req[q].status
         /\ req'[q].fresh = (req[q].fresh /\ req[q].loan # m /\ ~(Books(q) /\ Books(r)))
  <2> TAKE q \in Requests \ {r}
  <2> DEFINE still == req[q].fresh /\ req[q].loan # m /\ ~(Books(q) /\ Books(r))
  <2>1. req[q] \in Executions /\ still \in BOOLEAN /\ req'[q] = [req[q] EXCEPT !.fresh = still]
    BY <1>3 DEF Inv, Executions
  <2> HIDE DEF still
  <2>2. /\ req'[q] \in Executions /\ req'[q].fresh = still
        /\ req'[q].at = req[q].at /\ req'[q].op = req[q].op /\ req'[q].loan = req[q].loan
        /\ req'[q].slot = req[q].slot /\ req'[q].status = req[q].status
    BY <2>1 DEF Executions
  <2> QED
    BY <2>2 DEF still
<1>5. req' \in [Requests -> Executions]
  <2>1. \A q \in Requests : req'[q] \in Executions
    BY <1>3, <1>4, IdleOK
  <2>2. req' = [q \in Requests |-> req'[q]]
    BY DEF Updates
  <2> QED
    BY <2>1, <2>2
<1>6. ASSUME NEW q \in Requests PROVE ExecOK(req'[q])
  <2>1. CASE q = r
    BY <2>1, <1>3, IdleOK
  <2>2. CASE q # r
    <3>1. ExecOK(req[q]) /\ req[q] \in Executions
      BY DEF Inv
    <3>2. req'[q].fresh => req[q].fresh
      BY <2>2, <1>4
    <3> QED
      BY <2>2, <3>1, <3>2, <1>4 DEF ExecOK
  <2> QED
    BY <2>1, <2>2
<1>7. disturbed' \in BOOLEAN
  BY <1>t DEF Inv, Executions
<1>8. ASSUME ~disturbed'
      PROVE  (\A l \in Loans : Orderly(loan'[l])) /\ Apart' /\ \A q \in Requests : FreshOK(req[q])'
  <2>1. ~disturbed /\ req[r].fresh /\ FreshOK(req[r])
    BY <1>8, <1>t DEF Inv
  <2>2. Accepts(req[r], loan[m]) /\ Orderly(loan[m]) /\ Row(r) = loan[m]
    BY <2>1, <1>t DEF FreshOK, Inv, Row
  <2>3. \/ Booked(row) \subseteq Booked(loan[m])
        \/ Books(r) /\ Booked(row) \subseteq {req[r].slot}
    BY <2>1, <2>2
  <2>4. \A l \in Loans : Orderly(loan'[l])
    BY <2>1, <2>2, <1>1 DEF Inv
  <2>5. \A k \in Loans \ {m} : \A s \in Booked(row), t \in Booked(loan[k]) :
            <<s, t>> \notin Overlaps /\ <<t, s>> \notin Overlaps
    <3> TAKE k \in Loans \ {m}
    <3> TAKE s \in Booked(row), t \in Booked(loan[k])
    <3>1. s \in Slots /\ t \in Slots
      <4>1. s # NoSlot /\ t # NoSlot
        BY DEF RowOK, Inv
      <4>2. s \in {row.proposal, row.meeting} /\ t \in {loan[k].proposal, loan[k].meeting}
        BY BookedIs
      <4>3. loan[k] \in Rows
        BY DEF Inv
      <4> QED
        BY <4>1, <4>2, <4>3 DEF Rows
    <3>2. CASE s \in Booked(loan[m])
      BY <3>2, <2>1, <1>t DEF Inv, Apart
    <3>3. CASE Books(r) /\ s = req[r].slot
      <4>1. IsFree(m, s)
        BY <3>3, <2>1 DEF FreshOK, Books
      <4>2. <<s, t>> \notin Overlaps
        BY <4>1 DEF IsFree
      <4> QED
        BY <4>2, <3>1, BookingAssumption
    <3> QED
      BY <2>3, <3>2, <3>3
  <2>6. Apart'
    BY <2>1, <2>5, <1>1 DEF Inv, Apart
  <2>7. ASSUME NEW q \in Requests, req'[q].fresh PROVE FreshOK(req[q])'
    <3>1. q # r /\ req[q].fresh /\ req[q].loan # m /\ ~(Books(q) /\ Books(r)) /\ req[q].at # "idle"
      BY <2>7, <1>3, <1>4, IdleOK DEF Inv, ExecOK
    <3>2. req[q].loan \in Loans /\ FreshOK(req[q])
      BY <3>1, <2>1 DEF Inv, ExecOK
    <3>3. Accepts(req'[q], loan'[req'[q].loan])
      BY <3>1, <3>2, <1>1, <1>4 DEF FreshOK, Accepts
    <3>4. ASSUME req[q].at = "write", req[q].op \in {"propose", "counter"}
          PROVE  IsFree(req[q].loan, req[q].slot)'
      <4>1. Booked(row) \subseteq Booked(loan[m])
        BY <2>3, <3>1, <3>4 DEF Books
      <4>2. IsFree(req[q].loan, req[q].slot)
        BY <3>1, <3>2, <3>4 DEF FreshOK
      <4>3. \A k \in Loans \ {req[q].loan} : \A t \in Booked(loan'[k]) : <<req[q].slot, t>> \notin Overlaps
        BY <4>1, <4>2, <1>1, <1>t DEF IsFree
      <4> QED
        BY <4>3, <3>1, <1>4 DEF IsFree
    <3> QED
      BY <3>3, <3>4, <3>1, <1>4 DEF FreshOK
  <2>8. \A q \in Requests : FreshOK(req[q])'
    BY <2>7 DEF FreshOK
  <2> QED
    BY <2>4, <2>6, <2>8
<1>9. \A q \in Requests : ExecOK(req[q])'
  BY <1>6 DEF ExecOK
<1> QED
  BY <1>1, <1>2, <1>5, <1>7, <1>8, <1>9 DEF Inv

LEMMA WriteInv ==
    ASSUME Inv, NEW r \in Requests, Write(r)
    PROVE  Inv'
<1> PICK x : x = Row(r)
  OBVIOUS
<1>t. ASSUME req[r].at = "write"
      PROVE  /\ x \in Rows /\ RowOK(x) /\ req[r] \in Executions /\ ExecOK(req[r])
             /\ req[r].op \in {"propose", "accept", "counter"} => req[r].slot \in Slots /\ req[r].slot # NoSlot
  BY <1>t, BookingAssumption DEF Inv, Row, ExecOK
<1>1. CASE WriteVideo(r)
  <2> PICK row : row = [x EXCEPT !.att = "VIDEO_COMPLETED"]
    OBVIOUS
  <2>1. Updates(r, "video", row) /\ req[r].at = "write" /\ req[r].op = "video"
    BY <1>1 DEF WriteVideo, Updates
  <2>2. /\ row \in Rows /\ row.att = "VIDEO_COMPLETED" /\ row.status = x.status /\ row.count = x.count
        /\ row.attested = x.attested /\ row.proposal = x.proposal /\ row.meeting = x.meeting
    BY <2>1, <1>t DEF Rows, AttestationStatuses
  <2>3. Booked(row) = {}
    BY <2>2, BookedIs
  <2> QED
    BY <2>1, <2>2, <2>3, <1>t, UpdateInv DEF RowOK, Accepts, Orderly
<1>2. CASE WriteRequest(r)
  <2> PICK row : row = [x EXCEPT !.att = "MEETING_REQUESTED"]
    OBVIOUS
  <2>1. Updates(r, "request", row) /\ req[r].at = "write" /\ req[r].op = "request"
    BY <1>2 DEF WriteRequest, Updates
  <2>2. /\ row \in Rows /\ row.att = "MEETING_REQUESTED" /\ row.status = x.status /\ row.count = x.count
        /\ row.attested = x.attested /\ row.proposal = x.proposal /\ row.meeting = x.meeting
    BY <2>1, <1>t DEF Rows, AttestationStatuses
  <2>3. Booked(row) = {}
    BY <2>2, BookedIs
  <2> QED
    BY <2>1, <2>2, <2>3, <1>t, UpdateInv DEF RowOK, Accepts, Orderly
<1>3. CASE WriteRestart(r)
  <2> PICK row : row = [x EXCEPT !.att = "NOT_STARTED", !.proposal = NoSlot, !.meeting = NoSlot, !.count = 0]
    OBVIOUS
  <2>1. Updates(r, "restart", row) /\ req[r].at = "write" /\ req[r].op = "restart"
    BY <1>3 DEF WriteRestart, Updates
  <2>2. /\ row \in Rows /\ row.att = "NOT_STARTED" /\ row.status = x.status /\ row.count = 0
        /\ row.attested = x.attested /\ row.proposal = NoSlot /\ row.meeting = NoSlot
    BY <2>1, <1>t DEF Rows, AttestationStatuses
  <2>3. Booked(row) = {}
    BY <2>2, BookedIs
  <2> QED
    BY <2>1, <2>2, <2>3, <1>t, UpdateInv DEF RowOK, Accepts, Orderly
<1>4. CASE WriteProposal(r)
  <2> PICK n : n = x.count + 1
    OBVIOUS
  <2> PICK row : row = [x EXCEPT !.att = "SLOT_PROPOSED", !.proposal = req[r].slot, !.count = n]
    OBVIOUS
  <2>1. Updates(r, "propose", row) /\ req[r].at = "write" /\ req[r].op = "propose"
    BY <1>4 DEF WriteProposal, Updates
  <2>n. n \in Nat
    BY <2>1, <1>t DEF Rows
  <2>2. /\ row \in Rows /\ row.att = "SLOT_PROPOSED" /\ row.status = x.status
        /\ row.attested = x.attested /\ row.proposal = req[r].slot /\ row.meeting = x.meeting
    BY <2>1, <2>n, <1>t DEF Rows, AttestationStatuses
  <2>3. Booked(row) \subseteq {req[r].slot}
    BY <2>2, BookedIs
  <2> QED
    BY <2>1, <2>2, <2>3, <1>t, UpdateInv DEF RowOK, Accepts, Orderly, Books
<1>5. ASSUME NEW op \in {"accept", "counter"}, Updates(r, op, Scheduled(r)) PROVE Inv'
  <2> PICK row : row = [x EXCEPT !.att = "MEETING_SCHEDULED", !.meeting = req[r].slot, !.proposal = NoSlot]
    OBVIOUS
  <2>1. Updates(r, op, row) /\ req[r].at = "write" /\ req[r].op = op
    BY <1>5 DEF Scheduled, Updates
  <2>2. /\ row \in Rows /\ row.att = "MEETING_SCHEDULED" /\ row.status = x.status /\ row.count = x.count
        /\ row.attested = x.attested /\ row.proposal = NoSlot /\ row.meeting = req[r].slot
    BY <2>1, <1>t DEF Rows, AttestationStatuses
  <2>3. Booked(row) \subseteq {req[r].slot}
    BY <2>2, BookedIs
  <2>4. ASSUME Accepts(req[r], x), op = "accept" PROVE Booked(row) \subseteq Booked(x)
    <3>1. Booked(x) = {x.proposal} /\ x.proposal = req[r].slot
      BY <2>1, <2>4, BookedIs DEF Accepts
    <3> QED
      BY <3>1, <2>3
  <2>5. ASSUME Accepts(req[r], x), Orderly(x) PROVE Orderly(row)
    BY <2>1, <2>2, <2>5 DEF Accepts, Orderly
  <2>6. RowOK(row)
    BY <2>1, <2>2, <2>3, <1>t DEF RowOK
  <2> QED
    BY <2>1, <2>2, <2>3, <2>4, <2>5, <2>6, UpdateInv DEF Books
<1>6. CASE WriteExpiry(r)
  <2> PICK row : row = [x EXCEPT !.att = "MEETING_REQUESTED", !.proposal = NoSlot, !.count = 0]
    OBVIOUS
  <2>1. Updates(r, "expire", row) /\ req[r].at = "write" /\ req[r].op = "expire"
    BY <1>6 DEF WriteExpiry, Updates
  <2>2. /\ row \in Rows /\ row.att = "MEETING_REQUESTED" /\ row.status = x.status /\ row.count = 0
        /\ row.attested = x.attested /\ row.proposal = NoSlot /\ row.meeting = x.meeting
    BY <2>1, <1>t DEF Rows, AttestationStatuses
  <2>3. Booked(row) = {}
    BY <2>2, BookedIs
  <2> QED
    BY <2>1, <2>2, <2>3, <1>t, UpdateInv DEF RowOK, Accepts, Orderly
<1>7. CASE WriteCancellation(r)
  <2> PICK row : row = [x EXCEPT !.status = "CANCELLED", !.proposal = NoSlot]
    OBVIOUS
  <2>1. Updates(r, "cancel", row) /\ req[r].at = "write" /\ req[r].op = "cancel"
    BY <1>7 DEF WriteCancellation, Updates
  <2>2. /\ row \in Rows /\ row.att = x.att /\ row.status = "CANCELLED" /\ row.count = x.count
        /\ row.attested = x.attested /\ row.proposal = NoSlot /\ row.meeting = x.meeting
    BY <2>1, <1>t DEF Rows, Statuses
  <2>3. Booked(row) = {}
    BY <2>2, BookedIs DEF PreDisbursement
  <2> QED
    BY <2>1, <2>2, <2>3, <1>t, UpdateInv DEF RowOK, Accepts, Orderly
<1>8. CASE WriteMeetingHeld(r)
  <2> PICK row : row = [x EXCEPT !.status = req[r].status, !.att = "MEETING_COMPLETED"]
    OBVIOUS
  <2>1. Updates(r, "held", row) /\ req[r].at = "write" /\ req[r].op = "held"
    BY <1>8 DEF WriteMeetingHeld, Updates
  <2>2. /\ row \in Rows /\ row.att = "MEETING_COMPLETED" /\ row.status = "PENDING_ATTESTATION"
        /\ row.count = x.count /\ row.attested = x.attested /\ row.proposal = x.proposal
    BY <2>1, <1>t DEF Rows, AttestationStatuses, ExecOK, Statuses, PreDisbursement
  <2>3. Booked(row) = {}
    BY <2>2, BookedIs
  <2> QED
    BY <2>1, <2>2, <2>3, <1>t, UpdateInv DEF RowOK, Accepts, Orderly
<1>9. CASE WriteAttestation(r)
  <2> PICK row : row = [x EXCEPT !.status = "PENDING_DISBURSEMENT", !.att = "COMPLETED", !.attested = TRUE]
    OBVIOUS
  <2>1. Updates(r, "attest", row) /\ req[r].at = "write" /\ req[r].op = "attest"
    BY <1>9 DEF WriteAttestation, Updates
  <2>2. /\ row \in Rows /\ row.att = "COMPLETED" /\ row.status = "PENDING_DISBURSEMENT" /\ row.count = x.count
        /\ row.attested /\ row.proposal = x.proposal /\ row.meeting = x.meeting
    BY <2>1, <1>t DEF Rows, AttestationStatuses, Statuses, PreDisbursement
  <2>3. Booked(row) = {}
    BY <2>2, BookedIs
  <2> QED
    BY <2>1, <2>2, <2>3, <1>t, UpdateInv DEF RowOK, Accepts, Orderly
<1> QED
  BY <1>1, <1>2, <1>3, <1>4, <1>5, <1>6, <1>7, <1>8, <1>9 DEF Write, WriteAcceptance, WriteCounter

LEMMA StepInv == Inv /\ [Next]_vars => Inv'
<1> SUFFICES ASSUME Inv, [Next]_vars PROVE Inv'
  OBVIOUS
<1>1. CASE UNCHANGED vars
  BY <1>1 DEF vars, Inv, ExecOK, RowOK, Orderly, Apart, FreshOK, IsFree
<1>2. ASSUME NEW r \in Requests, (\E l \in Loans : Read(r, l)) \/ CheckSlot(r) \/ Write(r) \/ Abandon(r)
      PROVE  Inv'
  BY <1>2, ReadInv, SmallStepInv, WriteInv
<1> QED
  BY <1>1, <1>2 DEF Next

LEMMA InvAlways == Spec => []Inv
  BY InitInv, StepInv, PTL DEF Spec

-----------------------------------------------------------------------------
(* The values keep their types, and who books a slot has one.              *)
THEOREM BookingTyped == Spec => []TypeOK
<1>1. Inv => TypeOK
  BY DEF Inv, TypeOK, ExecOK
<1> QED
  BY <1>1, InvAlways, PTL

(* However the endpoints interleave, a proposal or a meeting has its time. *)
THEOREM BookingsHaveTimes == Spec => []BookedHasItsTime
<1>1. Inv => BookedHasItsTime
  BY DEF Inv, BookedHasItsTime, RowOK
<1> QED
  BY <1>1, InvAlways, PTL

(* However they interleave, nobody signs an online loan unattested: a      *)
(* meeting that is over sends the loan back to await its attestation.      *)
THEOREM NoSigningUnattested == Spec => []SigningNeedsAttestation
<1>1. Inv => SigningNeedsAttestation
  BY DEF Inv, SigningNeedsAttestation, RowOK
<1> QED
  BY <1>1, InvAlways, PTL

(* For any number of loans and any overlapping slots, looking at what is   *)
(* booked before booking keeps the bookings apart, unless another booking  *)
(* is made in between.                                                     *)
THEOREM BookingsApart == Spec => []NoDoubleBooking
<1>1. Inv => NoDoubleBooking
  BY DEF Inv, NoDoubleBooking, Apart
<1> QED
  BY <1>1, InvAlways, PTL

(* Attestation goes wrong only by a write decided on what has changed.     *)
THEOREM AttestationHolds == Spec => []OnlyDisturbedGoWrong
<1>1. Inv => OnlyDisturbedGoWrong
  BY DEF Inv, OnlyDisturbedGoWrong
<1> QED
  BY <1>1, InvAlways, PTL

(* Nothing but such a write brings a cancelled loan back.                  *)
THEOREM CancelledForGood == Spec => CancellationIsFinal
<1>1. ASSUME Inv, [Next]_vars, ~disturbed', NEW l \in Loans, loan[l].status = "CANCELLED"
      PROVE  loan'[l].status = "CANCELLED"
  <2>1. CASE UNCHANGED loan
    BY <1>1, <2>1
  <2>2. ASSUME NEW r \in Requests, NEW op, NEW row, Updates(r, op, row)
        PROVE  loan'[l].status = "CANCELLED"
    <3>1. /\ req[r].fresh /\ ~disturbed /\ req[r].loan \in Loans
          /\ loan' = [loan EXCEPT ![req[r].loan] = row]
      BY <1>1, <2>2 DEF Updates, Inv, Executions, ExecOK
    <3>2. loan[req[r].loan].status \in PreDisbursement
      BY <1>1, <3>1 DEF Inv, FreshOK, Accepts
    <3> QED
      BY <1>1, <3>1, <3>2 DEF PreDisbursement, Inv
  <2>3. ASSUME NEW r \in Requests, Write(r) PROVE \E op, row : Updates(r, op, row)
    BY <2>3, Zenon DEF Write, WriteVideo, WriteRequest, WriteRestart, WriteProposal, WriteAcceptance,
       WriteCounter, WriteExpiry, WriteCancellation, WriteMeetingHeld, WriteAttestation
  <2>4. UNCHANGED loan \/ \E r \in Requests : Write(r)
    BY <1>1 DEF Next, Read, ReadForVideo, ReadToRequest, ReadToRestart, ReadToPropose, ReadToAccept,
       ReadToCounter, ReadToExpire, ReadToCancel, ReadMeetingHeld, ReadToAttest, Reads, CheckSlot, Abandon, vars
  <2> QED
    BY <2>1, <2>2, <2>3, <2>4
<1>2. Inv /\ [Next]_vars =>
         [~disturbed' => \A l \in Loans : loan[l].status = "CANCELLED" => loan'[l].status = "CANCELLED"]_vars
  BY <1>1
<1> QED
  BY <1>2, InvAlways, PTL DEF Spec, CancellationIsFinal
=============================================================================
