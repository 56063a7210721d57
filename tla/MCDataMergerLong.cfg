CONSTANTS
    Depth = 8
    MaxPacket = 5
    Timeout = 12
    PacketWords = 6
    ReplyTime = 4
    Stalls = FALSE
    Replies = 1
    States <- RunOnly
    Permissions = {TRUE}
    Aborts = FALSE
    Gaps = FALSE
    CanTerminate = FALSE
    Burst = TRUE
SPECIFICATION DMSpec
PROPERTIES ThrownNotCorrupted
