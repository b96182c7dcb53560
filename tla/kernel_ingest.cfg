SPECIFICATION Spec
CONSTANTS
    None = None
    CommandId <- IngestId
    Envelope <- IngestEnvelope
    ZoneDoc <- NoDocs
    InitialZone = "depot"
    PoseSample <- NoPose
    PingTime <- NoPing
    BridgeExists = FALSE
    Running = {"others"}
    DEDUP_CAP = 2
    CHANNEL_CAP = 2
    REQUEST_CAP = 1
    IS_AWS = FALSE
    SILENCE = 2
    PERIOD = 1
    DEADMAN_FRESH = 1
    MaxTime = 3
INVARIANTS
    StoreConsistent
    ReplayOnlyAfterEviction
    SameResponse
PROPERTIES
    FencingOrder
    LatchReleasedOnlyByClear
CHECK_DEADLOCK FALSE
