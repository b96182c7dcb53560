SPECIFICATION ServiceSpec
CONSTANTS
    None = None
    PERIOD = 2
    DEGRADED = 2
    LOST = 4
    MaxEntries = 2
    MaxQueue = 2
    MaxUnacked = 2
    MaxRepeats = 2
    MaxFaults = 1
    MaxRestarts = 1
    Sample = {1, 2, 3}
    Malformed = {1}
    Mistyped = {3}
    THRESHOLD = 2
    MAX_RECEIVE = 2
    MaxAgain = 1
INVARIANTS
    StatusIsTrue
    RowsAccountedFor
    SingleWriter
    StoredBeforeDeleted
CHECK_DEADLOCK FALSE
