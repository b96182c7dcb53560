SPECIFICATION FairEvidenceSpec
CONSTANTS
    stop = stop
    cmd = cmd
    dec = dec
    h1 = h1
    h2 = h2
    Command <- Dispatched
    Estop <- Stops
    Decision <- NoDecisions
    Handler <- TwoHandlers
    MaxFaults = 1
INVARIANTS
    AckJoinsChain
PROPERTIES
    EventuallyConcluded
