\* An update, or a collaborative close, that is offered completes.
SPECIFICATION FairSpec
CONSTANTS
    Alice = a
    Bob = b
    Calls = {"settle", "renew", "reject", "close"}
    Offering = {a}
    FirstContract = "Confirmed"
    MaxUpdates = 3
    MaxLost = 0
    MaxRestarts = 0
    MaxCheats = 0
    MaxCloseOffers = 1
PROPERTIES
    UpdateCompletes
    CollaborativeCloseCompletes
\* A channel that is left alone, or closed, takes no further step.
CHECK_DEADLOCK FALSE
