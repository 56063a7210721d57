CONSTANTS
    Depth = 8
    MaxPacket = 5
    Timeout = 10
    PacketWords = 3
    ReplyTime = 4
    Stalls = FALSE
    Replies = 0
    States <- RunOnly
    Permissions = {TRUE}
    Aborts = FALSE
    Gaps = FALSE
    CanTerminate = TRUE
    Burst = TRUE
SPECIFICATION DMSpec
PROPERTIES RunEndLast
