\* switch_fe stops waiting for the acknowledges before crfe sent Run Prepare.
SPECIFICATION CBSpec
CONSTANTS
    f1 = f1
    f2 = f2
    s1 = s1
    s2 = s2
    FEB <- MCFEB
    SWB <- MCSWB
    ActiveSWB <- MCSWB
    ActiveFEB <- MCFEB
    Boards <- MCBoards
    Addr <- MCAddr
    Byte <- MCByte
    RunBytes <- MCRunBytes
    MaxRuns = 2
    PayloadField <- MCPayload
    MaxLine = 4
    FullVersion = FALSE
    AckTimeout = TRUE
    LinkLoss = FALSE
    Buttons = {}
    Disturbances = {}
INVARIANTS RunNumberHeld
