SPECIFICATION Spec
CONSTANTS
    t1 = t1  t2 = t2  s1 = s1  s2 = s2
    Requests = {r1, r2}
    Terms = {t1, t2}
    NoTerms = NoTerms
    Schedules = {s1, s2}
    NoSchedule = NoSchedule
    Compliant <- Derived
    MaxOffers = 2
SYMMETRY Symmetry
INVARIANTS TypeOK StatusIsBacked LoanFollowsL2Row OnlyDisturbedGoWrong
PROPERTIES LoanIsFinal
