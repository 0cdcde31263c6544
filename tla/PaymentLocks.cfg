SPECIFICATION Spec
CONSTANTS
    Procs = {c1, c2, c3}
    Loans = {l1, l2}
    PayDays = {d1, d2}
    Kinds = {"spill", "single", "settle", "lateFee"}
    MaxReceipts = 2
SYMMETRY Symmetry
INVARIANTS TypeOK NumbersAreFresh ReceiptsAreSerial CirclesNeedASettlement
CHECK_DEADLOCK FALSE
