SPECIFICATION EvidenceSpec
CONSTANTS
    stop = stop
    cmd = cmd
    dec = dec
    h1 = h1
    h2 = h2
    Command <- Decisions
    Estop <- NoStops
    Decision <- Decisions
    Handler <- TwoHandlers
    MaxFaults = 0
INVARIANTS
    QuietHasOutcome
