SPECIFICATION Spec
CONSTANTS
    None = None
    PERIOD = 2
    DEGRADED = 1
    LOST = 2
    MaxEntries = 2
    MaxQueue = 2
    MaxUnacked = 2
    MaxRepeats = 2
    MaxFaults = 0
    MaxRestarts = 0
INVARIANT EveryEntryRecorded
