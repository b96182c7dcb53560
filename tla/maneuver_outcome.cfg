SPECIFICATION FairSpec
CONSTANTS
    None = None
    q1 = q1
    q2 = q2
    Request <- TwoRequests
    MaxProposals = 2
    Window = 2
    Gap = 3
    Grace = 1
    MaxReconnects = 1
    MaxLatches = 1
INVARIANTS
    OneOutcome
    CardOutlivesWindow
PROPERTIES
    EventuallySettled
    CardsClose
    ImplementsContract
