\* A forced close completes, and a revoked buffer transaction is punished.
SPECIFICATION FairSpec
CONSTANTS
    Alice = a
    Bob = b
    Calls = {"settle", "force"}
    Offering = {a, b}
    FirstContract = "Confirmed"
    MaxUpdates = 1
    MaxLost = 0
    MaxRestarts = 0
    MaxCheats = 1
    MaxCloseOffers = 0
PROPERTIES
    ForcedCloseCompletes
    CheatPunished
\* A channel that is left alone, or closed, takes no further step.
CHECK_DEADLOCK FALSE
