CONSTANTS
    Cases <- MCCases
    SettlePayouts <- MCSettlePayouts
SPECIFICATION Spec
INVARIANTS
    HonestSignaturesVerify
    AttestedCloses
    ClosesWithValidCet
    PaysCurve
    ClosesWithinError
    FeesCovered
CHECK_DEADLOCK FALSE
