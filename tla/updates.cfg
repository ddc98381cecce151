\* Settle and renew updates, with lost messages and a restart.
SPECIFICATION Spec
CONSTANTS
    Alice = a
    Bob = b
    Calls = {"settle", "renew", "reject"}
    Offering = {a, b}
    FirstContract = "Signed"
    MaxUpdates = 3
    MaxLost = 2
    MaxRestarts = 1
    MaxCheats = 0
    MaxCloseOffers = 0
INVARIANTS
    TypeOK
    RevealOnlyWhenSuperseded
    SecretsComplete
    UpdateAgreement
    LiveContract
    PunishReady
PROPERTIES
    ExchangeSpec
\* A channel that is left alone, or closed, takes no further step.
CHECK_DEADLOCK FALSE
