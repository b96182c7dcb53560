SPECIFICATION FairSpec
CONSTANTS
    None = None
    CommandId <- TerritoryId
    Envelope <- TerritoryEnvelope
    ZoneDoc <- PermitDoc
    InitialZone = "public_approved_route"
    PoseSample <- AnyPose
    PingTime <- NoPing
    BridgeExists = TRUE
    Running = {"telemetry"}
    DEDUP_CAP = 2
    CHANNEL_CAP = 1
    REQUEST_CAP = 1
    IS_AWS = TRUE
    SILENCE = 2
    PERIOD = 1
    DEADMAN_FRESH = 1
    MaxTime = 1
INVARIANTS
    DrivingNeedsPermit
PROPERTIES
    OutsideLatches
CHECK_DEADLOCK FALSE
