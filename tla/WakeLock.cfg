SPECIFICATION GraceSpec
CONSTANTS
    Clients = {c1, c2}
    MaxTime = 2
    Duration = 1
INVARIANT
    LockSafety
PROPERTIES
    HeldWakesWaiter
    GateSpec
