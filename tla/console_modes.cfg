SPECIFICATION ConsoleSpec
CONSTANTS
    Gen = {1, 2}
    FAIL_LIMIT = 2
    None = None
    WINDOW = 2
    FIRST = 1
    GAP = 1
    FULL = 3
    UP = 2
    DOWN = 2
    BRAKE_UP = 2
    BRAKE_DOWN = 2
    EPS = 2
    TOKENS = 2
    MaxCalls = 2
INVARIANTS
    OwnClientOnly
    OneThread
    NoFrameLeftBehind
PROPERTIES
    ConnectingEnds
    ProposalSettles
    FrameFollowsStick
    ConsoleLearns
