SPECIFICATION Spec
CONSTANTS
    Requests = {r1, r2}
    Dates = {d1, d2}
    NoDate = NoDate
    NoPdf = NoPdf
SYMMETRY Symmetry
INVARIANTS TypeOK DisbursedWasReady OnlyDisturbedGoWrong
PROPERTIES LastSignatureApproves
