SPECIFICATION Spec
CONSTANTS
    None = None
    CommandId <- ClearId
    Envelope <- ClearEnvelope
    ZoneDoc <- NoDocs
    InitialZone = "depot"
    PoseSample <- StillPose
    PingTime <- OnePing
    BridgeExists = TRUE
    Running = {"watchdog", "pose", "heartbeat"}
    DEDUP_CAP = 1
    CHANNEL_CAP = 1
    REQUEST_CAP = 1
    IS_AWS = FALSE
    SILENCE = 1
    PERIOD = 1
    DEADMAN_FRESH = 1
    MaxTime = 4
INVARIANTS
    SilenceLatches
PROPERTIES
    ImplementsLatch
CHECK_DEADLOCK FALSE
