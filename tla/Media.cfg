SPECIFICATION MediaSpec
CONSTANTS
    Feeds = {"plain", "gappy", "audio"}
    Threshold = 1
    VideoLatency = 1
    VideoMaxLead = 2
    AudioLatency = 1
    AudioMaxLead = 2
    AnomalyCap = 27
    PacerQueue = 2
    BroadcastCapacity = 2
    MaxPframes = 1
    MaxNow = 4
    MaxPackets = 4
    MaxAudioPackets = 3
INVARIANTS
    StreamWhole
    AudioClock
    PresenceHasSdp
CHECK_DEADLOCK FALSE
