SPECIFICATION Spec
CONSTANTS
    Conns = {1, 2}
    Ids = {"s1"}
    Ports = {40000}
    MaxConnections = 1
    MaxIdle = 1
    MaxGen = 2
    MaxTracks = 2
    Tls = TRUE
INVARIANT
    ResourcesAccounted
PROPERTIES
    PlayStarts
    EndedConnectionIsCleaned
CHECK_DEADLOCK FALSE
