SPECIFICATION FairSpec
CONSTANTS
    p1 = p1
    p2 = p2
    Procs = {p1, p2}
    Ops <- CronAndDefaulter
    Fragile = {}
    Term = 2
    Due <- TwoDue
    DueDay <- TwoDueDay
    MaxDay = 3
    Amounts = {2}
    Backdate = 0
    ArrearsPeriod = 1
    DefaultPeriod = 2
CHECK_DEADLOCK FALSE
PROPERTIES LateIsNoticed
