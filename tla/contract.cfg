SPECIFICATION FairSpec
CONSTANTS
    Alice = Alice
    Bob = Bob
    ContractDeals = {c1}
    ChannelDeals = {c2}
    Coins = {k1}
    NbOracles = 3
    Threshold = 2
    Maturity <- MCMaturity
    RefundDelay = 1
    Descriptors = {"Enum", "Numerical", "Difference"}
    Outcomes = {"x", "y", "z"}
    Cover <- MCCover
    Attests <- MCAttests
    MaxTime = 2
    Offering <- MCOffering
    MaxTroubles = 2
INVARIANTS
    TypeOK
    FundSafe
    CoinsOnce
    CetSupported
    OneCet
PROPERTIES
    CoinsReturned
    OutcomeRecorded
\* Deals that are over, and a clock at its bound, leave nothing to do.
CHECK_DEADLOCK FALSE
