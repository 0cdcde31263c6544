------------------------- MODULE AttestationBooking -------------------------
(***************************************************************************)
(* How the borrowers of backend_pro attest their loans before they sign:   *)
(* by a video, or in a meeting with the lender for which they propose a    *)
(* slot and the lender accepts it, sets another, or lets it expire         *)
(* (lib/attestationBookingService.ts, the attestation endpoints of         *)
(* borrower-loans/routes.ts and loans/routes.ts).  The loans of a tenant   *)
(* share the slots.                                                        *)
(*                                                                         *)
(* Every endpoint reads a loan, checks it, may look at the bookings of the *)
(* other loans, and updates its loan by id.  All loans are online ones;    *)
(* what follows attestation is in Disbursement.  The Google calendar (it   *)
(* can only refuse more) and what is mailed to whom are left out.  Nothing *)
(* in the code ever sets COUNTER_PROPOSED: a counter-proposal schedules    *)
(* the meeting, and the endpoints that answer one refuse for ever.         *)
(***************************************************************************)
EXTENDS Naturals

CONSTANTS
    Requests,   \* HTTP executions, and those of the expiry job
    Loans,
    Slots,      \* time intervals
    Overlaps,   \* pairs of slots with a moment in common
    NoLoan,
    NoSlot

ASSUME BookingAssumption ==
    /\ NoSlot \notin Slots /\ NoLoan \notin Loans
    /\ \A s, t \in Slots : <<s, t>> \in Overlaps => <<t, s>> \in Overlaps

VARIABLES
    loan,       \* Loans -> the attestation columns of the row
    req,        \* Requests -> what each execution has read and will write
    disturbed   \* history: a write was decided on what had changed since

vars == <<loan, req, disturbed>>

-----------------------------------------------------------------------------
PreDisbursement == {"PENDING_ATTESTATION", "PENDING_DISBURSEMENT"}

Statuses == PreDisbursement \cup {"CANCELLED"}

AttestationStatuses ==
    {"NOT_STARTED", "VIDEO_COMPLETED", "MEETING_REQUESTED", "SLOT_PROPOSED", "MEETING_SCHEDULED",
     "MEETING_COMPLETED", "COMPLETED"}

MaxProposals == 1   \* MAX_BORROWER_ATTESTATION_PROPOSALS

(* proposal, meeting: attestationProposalStartAt and ...MeetingStartAt     *)
(* with their ends.  count: attestationBorrowerProposalCount.  attested:   *)
(* attestationCompletedAt is set.                                          *)
Rows ==
    [status : Statuses, att : AttestationStatuses, proposal : Slots \cup {NoSlot},
     meeting : Slots \cup {NoSlot}, count : Nat, attested : BOOLEAN]

Ops == {"video", "request", "restart", "propose", "accept", "counter", "expire", "cancel", "held", "attest"}

(* at "slot": next it looks at the bookings.  status, slot: what it will   *)
(* write.  fresh: nothing it relies on has been written since it read.     *)
Idle == [at |-> "idle", op |-> "video", loan |-> NoLoan, status |-> "CANCELLED", slot |-> NoSlot, fresh |-> FALSE]

Executions ==
    [at : {"idle", "slot", "write"}, op : Ops, loan : Loans \cup {NoLoan}, status : Statuses,
     slot : Slots \cup {NoSlot}, fresh : BOOLEAN]

Init ==
    /\ loan = [l \in Loans |-> [status |-> "PENDING_ATTESTATION", att |-> "NOT_STARTED", proposal |-> NoSlot,
                                meeting |-> NoSlot, count |-> 0, attested |-> FALSE]]
    /\ req = [r \in Requests |-> Idle]
    /\ disturbed = FALSE

-----------------------------------------------------------------------------
(* What the other loans keep a slot from being booked for.                 *)
Booked(x) ==
    CASE x.status \in PreDisbursement /\ x.att = "SLOT_PROPOSED"     -> {x.proposal}
      [] x.status \in PreDisbursement /\ x.att = "MEETING_SCHEDULED" -> {x.meeting}
      [] OTHER -> {}

(* Mutant: only what is still proposed is looked at.                       *)
IsFree_ProposalsOnly(l, s) ==
    \A k \in Loans \ {l} : \A t \in Booked(loan[k]) : loan[k].att = "SLOT_PROPOSED" => <<s, t>> \notin Overlaps

IsFree(l, s) == \A k \in Loans \ {l} : \A t \in Booked(loan[k]) : <<s, t>> \notin Overlaps

(* findFirst and the checks, of the row as it is.                          *)
Reads(r, l, op, x) ==
    /\ req[r].at = "idle"
    /\ loan[l].status \in PreDisbursement
    /\ req' = [req EXCEPT ![r] = [x EXCEPT !.op = op, !.loan = l, !.fresh = TRUE]]
    /\ UNCHANGED <<loan, disturbed>>

ToWrite == [Idle EXCEPT !.at = "write"]

ReadForVideo(r, l) == loan[l].att = "NOT_STARTED" /\ Reads(r, l, "video", ToWrite)

ReadToRequest(r, l) ==
    /\ loan[l].att \in {"NOT_STARTED", "VIDEO_COMPLETED"} /\ ~loan[l].attested
    /\ Reads(r, l, "request", ToWrite)

ReadToRestart(r, l) ==
    /\ loan[l].att = "MEETING_REQUESTED" /\ ~loan[l].attested
    /\ Reads(r, l, "restart", ToWrite)

ReadToPropose(r, l) ==
    /\ loan[l].att = "MEETING_REQUESTED" /\ ~loan[l].attested /\ loan[l].count < MaxProposals
    /\ \E s \in Slots : Reads(r, l, "propose", [Idle EXCEPT !.at = "slot", !.slot = s])

(* Mutant: that there is a proposal is not checked.                        *)
ReadToAccept_Unchecked(r, l) == Reads(r, l, "accept", [ToWrite EXCEPT !.slot = loan[l].proposal])

ReadToAccept(r, l) ==
    /\ loan[l].att = "SLOT_PROPOSED" /\ loan[l].proposal # NoSlot
    /\ Reads(r, l, "accept", [ToWrite EXCEPT !.slot = loan[l].proposal])

ReadToCounter(r, l) ==
    /\ loan[l].att = "SLOT_PROPOSED"
    /\ \E s \in Slots : Reads(r, l, "counter", [Idle EXCEPT !.at = "slot", !.slot = s])

(* The job, and endpoints of the borrower and of the lender before they do *)
(* anything else.  Nothing else depends on the clock, so the slot may have *)
(* come whenever this is tried.                                            *)
ReadToExpire(r, l) ==
    /\ loan[l].att = "SLOT_PROPOSED" /\ loan[l].proposal # NoSlot /\ ~loan[l].attested
    /\ Reads(r, l, "expire", ToWrite)

(* cancel-loan.  reject-proposal and reject-after-meeting write the same,  *)
(* and ask for SLOT_PROPOSED and MEETING_COMPLETED as well.                *)
ReadToCancel(r, l) == Reads(r, l, "cancel", ToWrite)

(* complete-meeting, of the lender, which will write back the status.      *)
ReadMeetingHeld(r, l) ==
    /\ loan[l].att = "MEETING_SCHEDULED" /\ ~loan[l].attested
    /\ Reads(r, l, "held", [ToWrite EXCEPT !.status = loan[l].status])

(* Mutant: the status of the loan is not checked.                          *)
ReadToAttest_AnyStatus(r, l) ==
    /\ req[r].at = "idle"
    /\ loan[l].att \in {"VIDEO_COMPLETED", "MEETING_COMPLETED"} /\ ~loan[l].attested
    /\ req' = [req EXCEPT ![r] = [ToWrite EXCEPT !.op = "attest", !.loan = l, !.fresh = TRUE]]
    /\ UNCHANGED <<loan, disturbed>>

(* proceed-to-signing after the video, accept-after-meeting.               *)
ReadToAttest(r, l) ==
    /\ loan[l].att \in {"VIDEO_COMPLETED", "MEETING_COMPLETED"} /\ ~loan[l].attested
    /\ Reads(r, l, "attest", ToWrite)

-----------------------------------------------------------------------------
(* A proposal and a counter-proposal go on if the slot is free.            *)
CheckSlot(r) ==
    /\ req[r].at = "slot"
    /\ req' = [req EXCEPT ![r] = IF IsFree(@.loan, @.slot) THEN [@ EXCEPT !.at = "write"] ELSE Idle]
    /\ UNCHANGED <<loan, disturbed>>

Row(r) == loan[req[r].loan]

Books(q) == req[q].at = "write" /\ req[q].op \in {"propose", "counter"}

(* The UPDATE of r, and what it does to what the others rely on: their     *)
(* loan and, once they have looked, the bookings.                          *)
Updates(r, op, row) ==
    /\ req[r].at = "write" /\ req[r].op = op
    /\ loan' = [loan EXCEPT ![req[r].loan] = row]
    /\ req' = [q \in Requests |->
                  IF q = r THEN Idle
                  ELSE [req[q] EXCEPT !.fresh = @ /\ req[q].loan # req[r].loan /\ ~(Books(q) /\ Books(r))]]
    /\ disturbed' = (disturbed \/ ~req[r].fresh)

WriteVideo(r) == Updates(r, "video", [Row(r) EXCEPT !.att = "VIDEO_COMPLETED"])

WriteRequest(r) == Updates(r, "request", [Row(r) EXCEPT !.att = "MEETING_REQUESTED"])

WriteRestart(r) ==
    Updates(r, "restart", [Row(r) EXCEPT !.att = "NOT_STARTED", !.proposal = NoSlot,
                                         !.meeting = NoSlot, !.count = 0])

WriteProposal(r) ==
    Updates(r, "propose", [Row(r) EXCEPT !.att = "SLOT_PROPOSED", !.proposal = req[r].slot, !.count = @ + 1])

Scheduled(r) ==
    [Row(r) EXCEPT !.att = "MEETING_SCHEDULED", !.meeting = req[r].slot, !.proposal = NoSlot]

WriteAcceptance(r) == Updates(r, "accept", Scheduled(r))

WriteCounter(r) == Updates(r, "counter", Scheduled(r))

(* Mutant: the proposal is cleared, the status left.                       *)
WriteExpiry_KeepsStatus(r) == Updates(r, "expire", [Row(r) EXCEPT !.proposal = NoSlot, !.count = 0])

(* Mutant: the borrower's one proposal stays used up.                      *)
WriteExpiry_KeepsCount(r) ==
    Updates(r, "expire", [Row(r) EXCEPT !.att = "MEETING_REQUESTED", !.proposal = NoSlot])

WriteExpiry(r) ==
    Updates(r, "expire", [Row(r) EXCEPT !.att = "MEETING_REQUESTED", !.proposal = NoSlot, !.count = 0])

WriteCancellation(r) == Updates(r, "cancel", [Row(r) EXCEPT !.status = "CANCELLED", !.proposal = NoSlot])

(* Mutant: the meeting alone lets the borrower sign.                       *)
WriteMeetingHeld_Unlocks(r) ==
    Updates(r, "held", [Row(r) EXCEPT !.status = "PENDING_DISBURSEMENT", !.att = "MEETING_COMPLETED"])

WriteMeetingHeld(r) ==
    Updates(r, "held", [Row(r) EXCEPT !.status = req[r].status, !.att = "MEETING_COMPLETED"])

WriteAttestation(r) ==
    Updates(r, "attest", [Row(r) EXCEPT !.status = "PENDING_DISBURSEMENT", !.att = "COMPLETED", !.attested = TRUE])

(* The server dies, or something between the read and the write throws.    *)
Abandon(r) ==
    /\ req[r].at # "idle"
    /\ req' = [req EXCEPT ![r] = Idle]
    /\ UNCHANGED <<loan, disturbed>>

Read(r, l) ==
    \/ ReadForVideo(r, l) \/ ReadToRequest(r, l) \/ ReadToRestart(r, l) \/ ReadToPropose(r, l)
    \/ ReadToAccept(r, l) \/ ReadToCounter(r, l) \/ ReadToExpire(r, l) \/ ReadToCancel(r, l)
    \/ ReadMeetingHeld(r, l) \/ ReadToAttest(r, l)

Write(r) ==
    \/ WriteVideo(r) \/ WriteRequest(r) \/ WriteRestart(r) \/ WriteProposal(r) \/ WriteAcceptance(r)
    \/ WriteCounter(r) \/ WriteExpiry(r) \/ WriteCancellation(r) \/ WriteMeetingHeld(r) \/ WriteAttestation(r)

Next ==
    \E r \in Requests :
        (\E l \in Loans : Read(r, l)) \/ CheckSlot(r) \/ Write(r) \/ Abandon(r)

Spec == Init /\ [][Next]_vars

-----------------------------------------------------------------------------
(* The values are the code's, and who books a slot has one.                *)
TypeOK ==
    /\ loan \in [Loans -> Rows]
    /\ req \in [Requests -> Executions]
    /\ disturbed \in BOOLEAN
    /\ \A r \in Requests :
          /\ req[r].at # "idle" => req[r].loan \in Loans
          /\ req[r].at # "idle" /\ req[r].op \in {"propose", "accept", "counter"} => req[r].slot \in Slots

(* However the endpoints interleave, a loan shown as waiting for an answer *)
(* or for its meeting has the time that is shown: its slot is held against *)
(* the other loans, and a proposal can expire.                             *)
BookedHasItsTime == \A l \in Loans : NoSlot \notin Booked(loan[l])

(* However they interleave, an online loan is not pending disbursement     *)
(* before its attestation is complete.                                     *)
SigningNeedsAttestation ==
    \A l \in Loans : loan[l].status = "PENDING_DISBURSEMENT" => loan[l].attested

(* As long as endpoints do not run into each other, no two loans are       *)
(* booked for overlapping slots: proposals hold what meetings have taken,  *)
(* and the lender's own choice what the borrowers have proposed.           *)
NoDoubleBooking ==
    disturbed \/ \A l, k \in Loans :
        l # k => \A s \in Booked(loan[l]), t \in Booked(loan[k]) : <<s, t>> \notin Overlaps

(* The record as it is when requests do not run into each other: complete  *)
(* is attested; a proposal stands only while it waits for its answer; who  *)
(* is to choose a slot may propose one, and has no meeting yet.            *)
Orderly(x) ==
    /\ x.att = "COMPLETED" <=> x.attested
    /\ x.att # "SLOT_PROPOSED" => x.proposal = NoSlot
    /\ x.att \in {"NOT_STARTED", "VIDEO_COMPLETED", "MEETING_REQUESTED"} => x.count = 0
    /\ x.att \in {"NOT_STARTED", "VIDEO_COMPLETED", "MEETING_REQUESTED", "SLOT_PROPOSED"} => x.meeting = NoSlot

(* Attestation goes wrong only by a write decided on what has changed.     *)
OnlyDisturbedGoWrong == disturbed \/ \A l \in Loans : Orderly(loan[l])

(* Nothing but such a write brings a cancelled loan back.                  *)
CancellationIsFinal ==
    [][~disturbed' => \A l \in Loans : loan[l].status = "CANCELLED" => loan'[l].status = "CANCELLED"]_vars
=============================================================================
