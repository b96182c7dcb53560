SPECIFICATION Spec
CONSTANTS
    None = None
    CommandId <- TerritoryId
    Envelope <- TerritoryEnvelope
    ZoneDoc <- PermitDoc
    InitialZone = "public_approved_route"
    PoseSample <- NoPose
    PingTime <- NoPing
    BridgeExists = FALSE
    Running = {}
    DEDUP_CAP = 2
    CHANNEL_CAP = 1
    REQUEST_CAP = 1
    IS_AWS = TRUE
    SILENCE = 2
    PERIOD = 1
    DEADMAN_FRESH = 1
    MaxTime = 3
PROPERTIES
    PermitLimitsCreep
CHECK_DEADLOCK FALSE
