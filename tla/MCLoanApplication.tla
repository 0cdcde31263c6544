------------------------- MODULE MCLoanApplication -------------------------
(* Small instance of LoanApplication: requests are alike; t1 and t2 are of *)
(* one amount, for which the schedules s1 and s2 derive t1 and t2.         *)
EXTENDS LoanApplication, TLC

CONSTANTS t1, t2, s1, s2

Derived == [x \in Terms \X Schedules |-> IF x[2] = s1 THEN t1 ELSE t2]

Swap == (t1 :> t2) @@ (t2 :> t1) @@ (s1 :> s2) @@ (s2 :> s1)

Symmetry == UNION {{p, p @@ Swap} : p \in Permutations(Requests)} \cup {Swap}
=============================================================================
