--------------------------- MODULE MCDisbursement ---------------------------
(* Small instance of Disbursement: requests and dates are alike.           *)
EXTENDS Disbursement, TLC

Symmetry == Permutations(Requests) \cup Permutations(Dates)
=============================================================================
