SPECIFICATION Spec
CONSTANTS
    None = None
    q1 = q1
    q2 = q2
    Request <- TwoRequests
    MaxProposals = 1
    Window = 2
    Gap = 3
    Grace = 1
    MaxReconnects = 0
    MaxLatches = 1
SYMMETRY Symmetry
INVARIANTS
    RetryWithinWindow
