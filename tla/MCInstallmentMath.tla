------------------------- MODULE MCInstallmentMath -------------------------
(* Small inputs for InstallmentMath: amounts and terms small enough that   *)
(* every kind of rounding, and every tie, occurs.                          *)
EXTENDS InstallmentMath, Sequences

CONSTANTS MaxTerm, Principals, Rates, Parts, MaxOwed

FlatTasks ==
    [kind : {"flat", "rule78"}, term : 1..MaxTerm, amount : Principals, rate : Rates, emi : {0}]

(* With the emi a cent or so around the equal part and the interest.       *)
DecliningTasks ==
    {t \in [kind : {"declining"}, term : 1..MaxTerm, amount : Principals, rate : Rates, emi : 0..20] :
        LET first == Share(t.amount, MonthlyRate(t)) IN
        IF t.rate = 0 THEN t.emi = RoundDiv(t.amount, t.term)
        ELSE t.emi >= first /\ t.emi - first - (t.amount \div t.term) \in -1..1}

Owings(term) == [1..term -> [fee : Parts, interest : Parts, principal : Parts]]

PaymentTasks ==
    UNION {[kind : {"payment"}, term : {term}, amount : 1..MaxOwed, owed : Owings(term)] : term \in 1..2}

(* Few installments that differ, and many equal ones.                      *)
SettlementTasks ==
    LET Owes(x, z) == [fee |-> z, interest |-> 0, principal |-> x]
        different  == UNION {{[k \in 1..term |-> Owes(xs[k], 0)] : xs \in [1..term -> {0, 1, 3}]} : term \in 1..4}
        equal      == {[k \in 1..term |-> Owes(x, z)] : term \in 1..9, x \in {1, 2, 5}, z \in {0, 1}}
    IN  {t \in {[kind |-> "settlement", term |-> Len(owed), amount |-> amount, owed |-> owed] :
                   owed \in different \cup equal, amount \in 0..MaxOwed} :
           t.amount <= Total(OwedOn(t), t.term)}

SmallTasks == FlatTasks \cup DecliningTasks \cup PaymentTasks \cup SettlementTasks
=============================================================================
