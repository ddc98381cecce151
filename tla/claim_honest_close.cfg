\* A forced close through the manager is not punished.
SPECIFICATION Spec
CONSTANTS
    Alice = a
    Bob = b
    Calls = {"settle", "force"}
    Offering = {a, b}
    FirstContract = "Confirmed"
    MaxUpdates = 1
    MaxLost = 0
    MaxRestarts = 0
    MaxCheats = 0
    MaxCloseOffers = 0
INVARIANTS
    HonestCloseUnpunished
\* A channel that is left alone, or closed, takes no further step.
CHECK_DEADLOCK FALSE
