SPECIFICATION Spec
CONSTANTS
    Procs = {c1, c2}
    Loans = {l1}
    PayDays = {d1}
    Kinds = {"spill", "settle"}
    MaxReceipts = 2
INVARIANTS NoDeadlock
CHECK_DEADLOCK FALSE
