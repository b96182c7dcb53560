SPECIFICATION Spec
CONSTANTS
    None = None
    Permit <- SomePermits
    MaxTime = 4
    MaxRevision = 5
    MaxRepeats = 1
    MaxCrashes = 2
INVARIANT Agreement
INVARIANT GatesAgree
