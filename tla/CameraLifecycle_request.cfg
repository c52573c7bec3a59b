SPECIFICATION SafetySpec
CONSTANTS
    IdleDisconnect = TRUE
    MaxFailures = 2
    Clients = {c1}
    MaxSessions = 2
PROPERTY RequestEndsItsOwnSession
