SPECIFICATION Spec
CONSTANTS
    Precision = 100
    Tasks <- SmallTasks
    MaxTerm = 5
    Principals = {1, 2, 7, 20, 33}
    Rates = {0, 1200, 30000}
    Parts = {0, 1, 2, 3}
    MaxOwed = 12
CHECK_DEADLOCK FALSE
INVARIANTS TypeOK SchedulesAddUp PaymentIsSpread SettlementIsSpread
