SPECIFICATION Spec
CONSTANTS
    Callers = {a, b}
    Kinds = {main}
    PruneAtOnce = FALSE
    MaxSessions = 1
    MaxSources = 2
INVARIANT
    RegistrySafety
PROPERTY
    RegistryProgress
