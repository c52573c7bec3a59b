SPECIFICATION Spec
CONSTANTS
    IdMax = 7
    REORDER_CAP = 2
    OutCap = 1
    StreamCap = 1
    CamWindow = 2
    CamPackets = 3
    AppChunks = 1
    NetCap = 2
INVARIANT
    TransportSafety
PROPERTIES
    InOrderChannel
    Delivery
    FailureReported
CHECK_DEADLOCK FALSE
