-------------------------- MODULE MCLoanServicing --------------------------
(* Small instances of LoanServicing: two installments, due on consecutive  *)
(* days, on the first of which the calendar starts, and who serves which   *)
(* endpoint.                                                               *)
EXTENDS LoanServicing, TLC

CONSTANTS p1, p2

TwoDue    == <<2, 1>>
TwoDueDay == <<0, 1>>

(* markDefault writes what updateStatus may write; the fair run serves it. *)
NearlyAll        == [p \in Procs |-> AllOps \ {"markDefault"}]
CronAndDefaulter == (p1 :> {"lateFees"} @@ p2 :> {"spill", "markDefault"})
SettleAndSingle  == [p \in Procs |-> {"settle", "single"}]

Symmetry == Permutations(Procs)
=============================================================================
