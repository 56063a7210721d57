CONSTANTS
    Depth = 4
    MaxPacket = 3
    Timeout = 5
    PacketWords = 3
    ReplyTime = 3
    Stalls = TRUE
    Replies = 2
    States <- AllStates
    Permissions = {TRUE}
    Aborts = TRUE
    Gaps = TRUE
    CanTerminate = FALSE
    Burst = FALSE
SPECIFICATION DMFairSpec
PROPERTIES AckEventually MarkerEndsRun
