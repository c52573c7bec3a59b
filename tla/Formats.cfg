\* The wire formats, tables, one-shot commands and the cloud account.
CONSTANTS
    Flows = {"password", "authLogin", "signed", "direct"}
    Levels = {"dd00", "dd01", "dd02", "dd12", "dd99"}
    MaxMade = 3
    features = {"Motion", "PtPreset"}
    flags = {"Motion"}
    PresetLists = {{}, {"name"}, {"number", "name"}}
    MaxStarts = 4
    Uids = {u1, u2}
    Lives = {1, 3}
    TrustLife = 2
    RefreshLife = 3
    MaxTime = 2
SPECIFICATION Spec
INVARIANTS
    CodecAgrees
    WrittenReadsBack
    MediaReframes
    RtpReassembles
    
    EntitiesWork
    RequestsAnswered
    ConfigUsable
    AccountSpared
    CommandsSound
    DaylightCompensated
CHECK_DEADLOCK FALSE
