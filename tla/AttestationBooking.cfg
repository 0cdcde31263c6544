SPECIFICATION Spec
CONSTANTS
    nine = nine
    halfPast = halfPast
    ten = ten
    Requests = {r1, r2}
    Loans = {l1, l2}
    Slots = {nine, halfPast, ten}
    Overlaps <- Hours
    NoLoan = NoLoan
    NoSlot = NoSlot
SYMMETRY Symmetry
INVARIANTS TypeOK BookedHasItsTime SigningNeedsAttestation NoDoubleBooking OnlyDisturbedGoWrong
PROPERTIES CancellationIsFinal
CHECK_DEADLOCK FALSE
