SPECIFICATION Spec
CONSTANTS
    p1 = p1
    p2 = p2
    Procs = {p1, p2}
    Ops <- NearlyAll
    Fragile = {p1, p2}
    Term = 2
    Due <- TwoDue
    DueDay <- TwoDueDay
    MaxDay = 3
    Amounts = {2}
    Backdate = 0
    ArrearsPeriod = 1
    DefaultPeriod = 3
CHECK_DEADLOCK FALSE
SYMMETRY Symmetry
INVARIANTS TypeOK FeeLedgerAgrees CompletedIsSettled
PROPERTIES ImplementsAccount OnlyCancelledTakeMore CompletedForGood
