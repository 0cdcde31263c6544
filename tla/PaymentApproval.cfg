SPECIFICATION Spec
CONSTANTS
    k1 = k1
    k2 = k2
    Procs = {p1, p2, p3, p4, p5}
    Ids = {k1, k2}
    Kind <- OneOfEach
    Payloads = {a, b}
    NoOne = NoOne
    AckLoss = {k1}
SYMMETRY Symmetry
INVARIANTS TypeOK ApprovedNamesItsPayment
PROPERTIES DecisionsStand
CHECK_DEADLOCK FALSE
