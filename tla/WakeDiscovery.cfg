SPECIFICATION Spec
CONSTANTS
    Cameras = {"uid1-long", "uid2-long"}
    Addrs = {"x1"}
    StartsWith <- MCStartsWith
    MAX_MAP_ENTRIES = 1
    StaleAfter = 0
    AnchorTtl = 1
    MaxIssue = 2
    Relays = {"p2p"}
    Servers = {"own", "vendor"}
    OwnServer = "own"
    Wanted_Uid = "uid1"
    Options <- MCOptions
    MaximumWait = 4
    RoundTimeout = 1
    MaxBackoff = 2
    ForgetTime = 1
    SocketMayFail = TRUE
INVARIANTS
    WakeSafety
    LastWord
PROPERTY
    SearchEnds
CHECK_DEADLOCK FALSE
