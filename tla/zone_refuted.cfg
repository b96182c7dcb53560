\* TLC stops at the first one it refutes: check them one at a time.
SPECIFICATION Spec
CONSTANTS
    None = None
    Permit <- ZeroLimit
    MaxTime = 4
    MaxRevision = 5
    MaxRepeats = 1
    MaxCrashes = 0
INVARIANT LimitArrives
INVARIANT UndeliveredIsStricter
