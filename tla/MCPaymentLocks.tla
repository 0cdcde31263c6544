--------------------------- MODULE MCPaymentLocks ---------------------------
(* Model values for PaymentLocks: connections, loans and dates are alike.  *)
EXTENDS PaymentLocks, TLC

Symmetry == Permutations(Procs) \cup Permutations(Loans) \cup Permutations(PayDays)
=============================================================================
