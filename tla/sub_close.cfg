\* Forced closes by the parties and by LDK, and a split published outside the
\* managers, at any point of two splits and merges, through a lost connection.
SPECIFICATION FairSpec
CONSTANTS
    Alice = a
    Bob = b
    Offering = {a}
    Calls <- MCClosingCalls
    TotalCollateral = 0
    MaxSplits = 2
    MaxDisconnects = 1
    MaxRestarts = 0
PROPERTIES
    NothingRevokedPublished
    ForcedSplitCompletes
    RevokedSplitPunished
\* A channel that is left alone, or closed, takes no further step.
CHECK_DEADLOCK FALSE
