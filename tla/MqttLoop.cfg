SPECIFICATION Spec
CONSTANTS
    Cameras = {a, b}
    QueueSize = 2
    ConnackRequests = 2
    FanoutRequests = 1
    MaxConsecutive = 2
    MaxReplies = 1
INVARIANT
    LoopSafety
PROPERTY
    LoopProgress
