SPECIFICATION Spec
CONSTANTS
    None = None
    h1 = h1
    h2 = h2
    Handler <- TwoHandlers
    EVENT_LOG_CAP = 2
    BATCH = 2
    MaxSeq <- OneEvent
    MaxBoot = 0
INVARIANTS
    OneRowPerEvent
