\* Two splits and merges, with rejections, through a lost connection and a restart.
SPECIFICATION FairSpec
CONSTANTS
    Alice = a
    Bob = b
    Offering = {a}
    Calls <- MCRecoveryCalls
    TotalCollateral = 1
    MaxSplits = 2
    MaxDisconnects = 1
    MaxRestarts = 1
INVARIANTS
    TypeOK
    SplitAgreement
    SplitWatched
    RecoveryAgreement
PROPERTIES
    FairClose
    SplitCompletes
    MergeCompletes
\* A channel that is left alone takes no further step.
CHECK_DEADLOCK FALSE
