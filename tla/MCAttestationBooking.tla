------------------------ MODULE MCAttestationBooking ------------------------
(* Small instance of AttestationBooking: hour-long slots on a half-hour    *)
(* grid, of which the first and the last do not overlap.                   *)
EXTENDS AttestationBooking, TLC

CONSTANTS nine, halfPast, ten

Hours == {<<s, s>> : s \in Slots} \cup {<<nine, halfPast>>, <<halfPast, nine>>, <<halfPast, ten>>, <<ten, halfPast>>}

(* Requests and loans are alike, and so are the two outer slots: both      *)
(* overlap the middle one and nothing else.                                *)
Mirror == {p \in Permutations(Slots) : p[halfPast] = halfPast}

Symmetry == Permutations(Requests) \cup Permutations(Loans) \cup Mirror
=============================================================================
