----------------------- MODULE PaymentApprovalProofs -----------------------
(***************************************************************************)
(* The safety of approvals, for any number of requests and executions,     *)
(* from that of the idempotency protocol they go through: every step of    *)
(* the composition is a step of the protocol or leaves it alone, so what   *)
(* PaymentIdempotencyProofs proves holds of it too.                        *)
(***************************************************************************)
EXTENDS PaymentApproval, TLAPS

Proved == INSTANCE PaymentIdempotencyProofs WITH Requests <- Procs, Keys <- Ids

LEMMA StepIsProtocolStep == [Next]_vars => [Proved!Next]_(Proved!vars)
  <1> SUFFICES ASSUME [Next]_vars PROVE [Proved!Next]_(Proved!vars)
    OBVIOUS
  <1>1. CASE UNCHANGED payVars
    BY <1>1 DEF payVars, Proved!vars
  <1>2. ASSUME NEW p \in Procs, ApproveRead(p) PROVE Proved!Next
    BY <1>2 DEF ApproveRead, Pay!Receive, Pay!Goto, Proved!Next, Proved!Receive, Proved!Goto
  <1>3. ASSUME NEW p \in Procs, Handle(p) PROVE Proved!Next
    <2>1. Proved!Step(p)
      BY <1>3 DEF Handle, Proved!Step,
           Pay!Reserve, Pay!Lookup, Pay!Reclaim, Pay!Recheck, Pay!Commit, Pay!CommitUnacknowledged,
           Pay!Abort, Pay!Finish, Pay!Fail, Pay!Answer, Pay!Goto, Pay!Succeed, Pay!Write, Pay!Key, Pay!Payload,
           Proved!Reserve, Proved!Lookup, Proved!Reclaim, Proved!Recheck, Proved!Commit,
           Proved!CommitUnacknowledged, Proved!Abort, Proved!Finish, Proved!Fail, Proved!Answer,
           Proved!Goto, Proved!Succeed, Proved!Write, Proved!Key, Proved!Payload
    <2> QED
      BY <2>1 DEF Proved!Next
  <1>4. ASSUME NEW p \in Procs, Crash(p) PROVE Proved!Next \/ UNCHANGED payVars
    BY <1>4 DEF Crash, Pay!Drop, Pay!Goto, Pay!Pending, Proved!Next, Proved!Drop, Proved!Goto, Proved!Pending
  <1>5. ASSUME NEW p \in Procs,
               SubmitRead(p) \/ SubmitWrite(p) \/ ApproveWrite(p) \/ RejectRead(p) \/ RejectWrite(p)
        PROVE  UNCHANGED payVars
    BY <1>5 DEF SubmitRead, SubmitWrite, ApproveWrite, RejectRead, RejectWrite
  <1> QED
    BY <1>1, <1>2, <1>3, <1>4, <1>5 DEF Next, vars

(* What the protocol promises, whether or not acknowledgements get lost,   *)
(* and what it promises besides under keys of which none does.             *)
Protocol == Proved!IInv /\ Proved!OkIsStored /\ Proved!AInv

LEMMA InitProtocol == Init => Protocol
  <1> SUFFICES ASSUME Init PROVE Protocol
    OBVIOUS
  <1>1. Proved!Init
    BY DEF Init, Pay!Init, Proved!Init, Pay!Rows, Proved!Rows, Pay!Calls, Proved!Calls,
           Pay!RowStatus, Proved!RowStatus
  <1>2. Proved!IInv
    BY <1>1, ApprovalAssumption, Proved!InitIInv
  <1>3. Proved!AInv
    BY <1>1, <1>2 DEF Proved!AInv, Proved!Init, Proved!UnfinishedUnbooked, Proved!BookedIsNeverRetried,
       Proved!AtMostOnePayment, Proved!Acknowledged
  <1>4. Proved!OkIsStored
    BY <1>1 DEF Proved!Init, Proved!OkIsStored
  <1> QED
    BY <1>2, <1>3, <1>4 DEF Protocol

LEMMA KeepsProtocol == ASSUME Protocol, [Next]_vars PROVE Protocol'
  BY ApprovalAssumption, StepIsProtocolStep, Proved!NextIInv, Proved!OkStays, Proved!NextAInv DEF Protocol

-----------------------------------------------------------------------------
(* A link is the stored response of the request's key, and what is         *)
(* approved has a link.                                                    *)
LinkedIsStored ==
    \A k \in Ids :
        /\ request[k].payment # NoOne => row[k].status = "COMPLETED" /\ row[k].response = request[k].payment
        /\ request[k].status = "APPROVED" => request[k].payment # NoOne

RInv == Protocol /\ request \in [Ids -> Requests] /\ review \in [Procs -> Reviews] /\ LinkedIsStored

LEMMA ProtocolFacts ==
  ASSUME Protocol
  PROVE  /\ Pay!TypeOK
         /\ \A k \in Ids : row[k].status = "COMPLETED" => row[k].response \in paid[k]
         /\ \A p \in Procs : pc[p] = "ok" =>
               row[Pay!Key(p)].status = "COMPLETED" /\ row[Pay!Key(p)].response = from[p]
         /\ \A k \in Ids \ AckLoss : \A r, s \in paid[k] : r = s
  <1>1. Pay!TypeOK
    BY DEF Protocol, Proved!IInv, Proved!TypeOK, Pay!TypeOK, Proved!Rows, Pay!Rows, Proved!RowStatus,
           Pay!RowStatus, Proved!Calls, Pay!Calls, Proved!Pending, Pay!Pending, Proved!Answers, Pay!Answers
  <1>2. \A k \in Ids : row[k].status = "COMPLETED" => row[k].response \in paid[k]
    BY DEF Protocol, Proved!IInv, Proved!StoredIsBooked
  <1>3. \A p \in Procs : pc[p] = "ok" =>
           row[Pay!Key(p)].status = "COMPLETED" /\ row[Pay!Key(p)].response = from[p]
    BY DEF Protocol, Proved!OkIsStored, Proved!Key, Pay!Key
  <1>4. \A k \in Ids \ AckLoss : \A r, s \in paid[k] : r = s
    BY DEF Protocol, Proved!AInv, Proved!AtMostOnePayment, Proved!Acknowledged
  <1> QED
    BY <1>1, <1>2, <1>3, <1>4

LEMMA NextRInv ==
  ASSUME RInv, [Next]_vars
  PROVE  RInv' /\ LinksKept
  <1> USE DEF RInv
  <1>1. /\ Protocol'
        /\ Pay!TypeOK
        /\ \A p \in Procs : pc[p] = "ok" =>
              row[Pay!Key(p)].status = "COMPLETED" /\ row[Pay!Key(p)].response = from[p]
    BY KeepsProtocol, ProtocolFacts
  <1>2. \A k \in Ids : row[k].status = "COMPLETED" => row'[k] = row[k]
    BY ApprovalAssumption, StepIsProtocolStep, Proved!CompletedKept DEF Protocol
  <1>3. review' \in [Procs -> Reviews]
    BY DEF Next, vars, SubmitRead, SubmitWrite, ApproveRead, Handle, ApproveWrite, RejectRead, RejectWrite,
           Crash, Goto, Reviews
  <1>4. CASE UNCHANGED request
    BY <1>1, <1>2, <1>3, <1>4 DEF LinkedIsStored, LinksKept
  <1>5. ASSUME NEW k \in Ids, NEW status \in {"PENDING", "REJECTED"}, SetStatus(k, status)
        PROVE  RInv' /\ LinksKept
    <2>1. request'[k] = [request[k] EXCEPT !.status = status]
          /\ \A l \in Ids : l # k => request'[l] = request[l]
      BY <1>5 DEF SetStatus
    <2>2. request'[k].payment = request[k].payment /\ request'[k].status = status /\ request'[k] \in Requests
      BY <2>1 DEF Requests
    <2>3. request' \in [Ids -> Requests]
      BY <1>5, <2>2 DEF SetStatus
    <2>4. \A l \in Ids :
             /\ request'[l].payment = request[l].payment
             /\ request'[l].status = "APPROVED" => request[l].status = "APPROVED"
      BY <2>1, <2>2
    <2>5. LinkedIsStored' /\ LinksKept
      BY <1>2, <2>4 DEF LinkedIsStored, LinksKept
    <2> QED
      BY <1>1, <1>3, <2>3, <2>5
  <1>6. ASSUME NEW p \in Procs, pc[p] = "ok", request' = [request EXCEPT ![Pay!Key(p)] = Approved(p)]
        PROVE  RInv' /\ LinksKept
    <2> DEFINE k == Pay!Key(p)
    <2>1. k \in Ids
      BY <1>1 DEF Pay!TypeOK, Pay!Key, Pay!Calls
    <2>2. row[k].status = "COMPLETED" /\ row[k].response = from[p] /\ from[p] \in Procs \cup {NoOne}
      BY <1>1, <1>6, <2>1 DEF Pay!TypeOK
    <2>3. from[p] # NoOne
      <3>1. row[k].response \in paid[k]
        BY <2>1, <2>2, ProtocolFacts
      <3>2. paid[k] \subseteq Procs
        BY <1>1, <2>1 DEF Pay!TypeOK
      <3> QED
        BY <2>2, <3>1, <3>2, ApprovalAssumption
    <2>4. Approved(p) \in Requests
      BY <2>2 DEF Approved, Requests
    <2> HIDE DEF k
    <2>5. request' = [request EXCEPT ![k] = Approved(p)]
      BY <1>6 DEF k
    <2>6. request'[k].payment = from[p] /\ \A l \in Ids : l # k => request'[l] = request[l]
      BY <2>1, <2>5 DEF Approved
    <2>7. request' \in [Ids -> Requests]
      BY <2>4, <2>5
    <2>8. LinkedIsStored'
      BY <1>2, <2>2, <2>3, <2>6 DEF LinkedIsStored
    <2>9. LinksKept
      BY <2>2, <2>6 DEF LinkedIsStored, LinksKept
    <2> QED
      BY <1>1, <1>3, <2>7, <2>8, <2>9
  <1>7. ASSUME NEW p \in Procs, SubmitWrite(p) \/ RejectWrite(p) PROVE RInv' /\ LinksKept
    <2>1. Pay!Key(p) \in Ids
      BY <1>1 DEF Pay!TypeOK, Pay!Key, Pay!Calls
    <2> QED
      BY <1>5, <1>7, <2>1 DEF SubmitWrite, RejectWrite
  <1>8. ASSUME NEW p \in Procs, ApproveWrite(p) PROVE RInv' /\ LinksKept
    BY <1>4, <1>6, <1>8 DEF ApproveWrite
  <1>9. ASSUME NEW p \in Procs,
               SubmitRead(p) \/ ApproveRead(p) \/ Handle(p) \/ RejectRead(p) \/ Crash(p)
        PROVE  UNCHANGED request
    BY <1>9 DEF SubmitRead, ApproveRead, Handle, RejectRead, Crash
  <1> QED
    BY <1>4, <1>7, <1>8, <1>9 DEF Next, vars

LEMMA InitRInv == Init => RInv
  BY InitProtocol DEF Init, RInv, Requests, Reviews, LinkedIsStored

LEMMA RInvAlways == Spec => []RInv
  BY InitRInv, NextRInv, PTL DEF Spec

-----------------------------------------------------------------------------
(* The values are the code's, acknowledged or not.                         *)
THEOREM ApprovalTyped == Spec => []TypeOK
  <1>1. RInv => TypeOK
    BY ProtocolFacts DEF RInv, TypeOK
  <1> QED
    BY <1>1, RInvAlways, PTL

(* An approved request names a payment booked for it: its one payment, as  *)
(* long as no acknowledgement of a commit gets lost.                       *)
THEOREM ApprovalSafe == Spec => []ApprovedNamesItsPayment
  <1>1. RInv => ApprovedNamesItsPayment
    BY ProtocolFacts DEF RInv, LinkedIsStored, ApprovedNamesItsPayment
  <1> QED
    BY <1>1, RInvAlways, PTL

(* The link from a request to its payment never changes, not even when an  *)
(* acknowledgement gets lost and the request is paid a second time; and a  *)
(* rejected manual payment stays rejected, whatever was under way.         *)
THEOREM DecisionsAreFinal == Spec => DecisionsStand
  <1>1. ASSUME RInv, [Next]_vars PROVE RejectionsKept
    <2> SUFFICES ASSUME NEW k \in Ids, Kind[k] = "manual", request[k].status = "REJECTED"
                 PROVE  request'[k].status = "REJECTED"
      BY DEF RejectionsKept
    <2>1. request \in [Ids -> Requests]
      BY <1>1 DEF RInv
    <2>2. CASE UNCHANGED request
      BY <2>2
    <2>3. ASSUME NEW p \in Procs, SubmitWrite(p) \/ RejectWrite(p) PROVE request'[k].status = "REJECTED"
      BY <2>1, <2>3 DEF SubmitWrite, RejectWrite, SetStatus, Requests
    <2>4. ASSUME NEW p \in Procs, ApproveWrite(p) PROVE request'[k].status = "REJECTED"
      BY <2>1, <2>4 DEF ApproveWrite, Request
    <2> QED
      BY <1>1, <2>2, <2>3, <2>4
         DEF Next, vars, SubmitRead, ApproveRead, Handle, RejectRead, Crash
  <1>2. RInv /\ [Next]_vars => [LinksKept /\ RejectionsKept]_vars
    BY <1>1, NextRInv
  <1> QED
    BY <1>2, RInvAlways, PTL DEF DecisionsStand, Spec
=============================================================================
