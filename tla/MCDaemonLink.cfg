SPECIFICATION LinkSpec
CONSTANTS
    MaxConn = 2
    Timeout = 1
    ReconnectAfter = 2
    BeatEvery = 2
INVARIANTS
    DescriptorsAccounted
    HeartbeatFollowsHandshake
    DropSparesFresh
PROPERTIES
    SilentIsDropped
    StopReturns
CHECK_DEADLOCK FALSE
