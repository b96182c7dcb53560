\* TLC stops at the first one it refutes: check them one at a time.
SPECIFICATION Spec
CONSTANTS
    None = None
    CommandId <- RaceId
    Envelope <- RaceEnvelope
    ZoneDoc <- NoDocs
    InitialZone = "depot"
    PoseSample <- StillPose
    PingTime <- SomePing
    BridgeExists = TRUE
    Running = {"watchdog", "pose"}
    DEDUP_CAP = 2
    CHANNEL_CAP = 1
    REQUEST_CAP = 1
    IS_AWS = FALSE
    SILENCE = 2
    PERIOD = 1
    DEADMAN_FRESH = 1
    MaxTime = 7
INVARIANT LogTellsLatch
PROPERTY NothingAcceptedWhileLatched
PROPERTY NoMotionWithoutPose
CHECK_DEADLOCK FALSE
