CONSTANTS
    Depth = 8
    MaxPacket = 5
    Timeout = 7
    PacketWords = 3
    ReplyTime = 4
    Stalls = FALSE
    Replies = 0
    States <- RunOnly
    Permissions = {TRUE}
    Aborts = FALSE
    Gaps = FALSE
    CanTerminate = FALSE
    Burst = TRUE
SPECIFICATION DMFairSpec
PROPERTIES MarkerEndsRun
