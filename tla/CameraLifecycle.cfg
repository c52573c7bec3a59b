SPECIFICATION Spec
CONSTANTS
    IdleDisconnect = TRUE
    MaxFailures = 2
    Clients = {c1, c2}
    MaxSessions = 2
INVARIANT
    CameraSafety
PROPERTIES
    HeldSessionEndsForCause
    SessionSpec
    CameraProgress
