CONSTANTS
    Nodes <- MCNodes
    Links <- MCLinks
    Lens <- MCLens
    MAX_DATA_SIZE = 5
    MAX_BUF_SIZE = 5
    MAX_START_DATA_SIZE = 5
    MAX_CHUNK_SIZE = 4
    MAX_SEGMENTS = 3
    MaxSent <- MCMaxSent
    MaxFaults = 1
SPECIFICATION FairSpec
INVARIANTS
    DeliveredAsSent
    OnlyOversizedRefused
PROPERTIES
    ProcessedOrLost
CHECK_DEADLOCK FALSE
