SPECIFICATION FairSpec
CONSTANTS
    None = None
    h1 = h1
    h2 = h2
    Handler <- OneHandler
    EVENT_LOG_CAP = 1
    BATCH = 1
    MaxSeq <- Growing
    MaxBoot = 1
INVARIANTS
    AckMeansEvidenced
    NothingLost
PROPERTIES
    EventuallyEvidenced
