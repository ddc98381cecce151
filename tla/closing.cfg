\* Forced closes, a collaborative close offer and one broadcast outside the
\* managers, at any point of two updates.
SPECIFICATION Spec
CONSTANTS
    Alice = a
    Bob = b
    Calls = {"settle", "renew", "force", "closeAnytime"}
    Offering = {b}
    FirstContract = "Confirmed"
    MaxUpdates = 2
    MaxLost = 0
    MaxRestarts = 0
    MaxCheats = 1
    MaxCloseOffers = 1
INVARIANTS
    WatchCoverage
    CloserIdentified
PROPERTIES
    ForcedCloseUnrevoked
\* A channel that is left alone, or closed, takes no further step.
CHECK_DEADLOCK FALSE
