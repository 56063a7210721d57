CONSTANTS
    Depth = 8
    MaxPacket = 5
    Timeout = 7
    PacketWords = 4
    ReplyTime = 5
    Stalls = FALSE
    Replies = 2
    States <- AllStates
    Permissions = {TRUE, FALSE}
    Aborts = TRUE
    Gaps = FALSE
    CanTerminate = FALSE
    Burst = TRUE
SPECIFICATION DMSpec
INVARIANTS DMTypeOK NoWordLost LinkFraming
PROPERTIES PacketsIntact SlowcontrolSent RunEndLast
