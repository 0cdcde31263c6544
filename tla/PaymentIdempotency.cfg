SPECIFICATION FairSpec
CONSTANTS
    Requests = {r1, r2, r3}
    Keys = {k1, k2}
    Payloads = {p1, p2}
    NoOne = NoOne
    AckLoss = {k2}
INVARIANTS TypeOK AtMostOnePayment BookedIsNeverRetried AnswersTheBookedPayment
PROPERTIES ResponseIsFinal ImplementsOnce EveryRequestAnswered
CHECK_DEADLOCK FALSE
