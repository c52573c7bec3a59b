SPECIFICATION Spec
CONSTANTS
    RETRIES = 1
    c1 = c1
    c2 = c2
    Clients = {c1, c2}
    Session = c1
    NumMax = 6
    QueueCap = 1
    SubCap = 1
    MaxCommands = 1
    MaxParts = 2
    NetCap = 1
    Configs <- MCConfigs
    CommandsOf <- MCCommandsOf
INVARIANT
    ReplySafety
PROPERTIES
    NoReplyLost
    EveryCommandEnds
CHECK_DEADLOCK FALSE
