\* The expect of a contract id in process_watched_txs.
SPECIFICATION Spec
CONSTANTS
    Alice = a
    Bob = b
    Calls = {"settle", "force"}
    Offering = {a, b}
    FirstContract = "Confirmed"
    MaxUpdates = 1
    MaxLost = 0
    MaxRestarts = 0
    MaxCheats = 0
    MaxCloseOffers = 0
INVARIANTS
    BufferTxHasContract
\* A channel that is left alone, or closed, takes no further step.
CHECK_DEADLOCK FALSE
