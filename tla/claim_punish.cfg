\* A revoked transaction is punished after a renewal.
SPECIFICATION FairSpec
CONSTANTS
    Alice = a
    Bob = b
    Calls = {"renew"}
    Offering = {a}
    FirstContract = "Confirmed"
    MaxUpdates = 1
    MaxLost = 0
    MaxRestarts = 0
    MaxCheats = 1
    MaxCloseOffers = 0
PROPERTIES
    CheatPunished
\* A channel that is left alone, or closed, takes no further step.
CHECK_DEADLOCK FALSE
