------------------------- MODULE MCPaymentApproval -------------------------
(* A manual payment request and a settlement request of one loan.          *)
EXTENDS PaymentApproval, TLC

CONSTANTS k1, k2

OneOfEach == k1 :> "manual" @@ k2 :> "settlement"

Symmetry == Permutations(Procs) \cup Permutations(Payloads)
=============================================================================
